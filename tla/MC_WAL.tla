------------------------------- MODULE MC_WAL -------------------------------
(***************************************************************************)
(* Instances of the write-ahead log: three or four messages with lines of  *)
(* two and three bytes, and scanners that take six and eight.              *)
(***************************************************************************)
EXTENDS WAL

CONSTANTS m1, m2, m3, m4

Three == {m1, m2, m3}
Four  == {m1, m2, m3, m4}

SmallSizes == [m \in Msg |-> IF m = m2 THEN 3 ELSE 2]

\* m2's line fits the scanner of Replay but not the one of countFileLines.
LongSizes == [m \in Msg |-> IF m = m2 THEN 7 ELSE 2]
=============================================================================
