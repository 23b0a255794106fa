--------------------------- MODULE MC_Dispatcher ---------------------------
(* Instances of the dispatchers: two subscribers, small buffers.            *)
EXTENDS Dispatcher

CONSTANTS s1, s2

\* s1 reads what it is sent, s2 need not.
OneReadsSpec == FairSpec /\ WF_vars(Receive(s1))

\* What the eviction of slow subscribers is for: s1 is served whatever s2 does.
FastServed == Listens(s1) /\ read < added ~> read = added \/ ~Listens(s1)
=============================================================================
