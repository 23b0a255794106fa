--------------------------- MODULE MC_PublishPath ---------------------------
(* Instances of the publish path: two single publishes, and a batch of two. *)
EXTENDS PublishPath

CONSTANTS c1, c2, b, m1, m2

Singles == [c \in {c1, c2} |-> IF c = c1 THEN <<m1>> ELSE <<m2>>]
Batches == [c \in {b} |-> <<m1, m2>>]
=============================================================================
