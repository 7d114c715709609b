------------------------- MODULE MCHeapPersistence --------------------------
(* Values for the constants of HeapPersistence, for TLC.                   *)
EXTENDS HeapPersistence

OneImportant == [a |-> 2, b |-> 1, c |-> 1]

=============================================================================
