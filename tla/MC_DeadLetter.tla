--------------------------- MODULE MC_DeadLetter ---------------------------
(* Two sidecars scan; the stream has a policy of its own.                   *)
EXTENDS DeadLetter

CONSTANTS s1, s2, p1

OwnPolicy == [s \in {"events"} |-> [retries |-> 2, minIdle |-> TRUE]]
Global == [retries |-> 3, minIdle |-> FALSE]
=============================================================================
