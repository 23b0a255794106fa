---------------------------- MODULE MC_AckLoop ----------------------------
(* Three Ack RPCs: two contiguous ids, a repeated id and one of the next    *)
(* millisecond, and an id Redis rejects with a blank one.                   *)
EXTENDS AckLoop

CONSTANTS c1, c2, c3

AckReqs == [c \in {c1, c2, c3} |->
    CASE c = c1 -> <<1, 2>> [] c = c2 -> <<2, 3, 3>> [] c = c3 -> <<4, 5>>]

\* 1-0, 1-1, 2-0, and two that do not parse
AckParts == [i \in 1..5 |->
    CASE i = 1 -> <<1, 0>> [] i = 2 -> <<1, 1>> [] i = 3 -> <<2, 0>> [] OTHER -> <<>>]
=============================================================================
