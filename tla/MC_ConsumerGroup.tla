-------------------------- MODULE MC_ConsumerGroup --------------------------
(* A direct reader and a dispatcher's loop on one group.                    *)
EXTENDS ConsumerGroup

CONSTANTS r, d
=============================================================================
