----------------------------- MODULE PublishedCell -----------------------------
(***************************************************************************)
(* What the staged store promises for one cache key: the key names at most *)
(* one complete set of outputs.  A published set is never replaced by      *)
(* other bytes; it is withdrawn first, and a lookup in between misses.     *)
(***************************************************************************)
CONSTANTS Generation, NoGeneration

VARIABLE cell       \* the set of outputs a lookup finds, or NoGeneration

CellInit == cell = NoGeneration

Publish(g) == cell = NoGeneration /\ cell' = g

Withdraw == cell # NoGeneration /\ cell' = NoGeneration

CellNext == Withdraw \/ \E g \in Generation : Publish(g)

CellSpec == CellInit /\ [][CellNext]_cell
=============================================================================
