---------------------------- MODULE MCClrThreads ----------------------------
(* Values for the constants of ClrThreads, for TLC.                        *)
EXTENDS ClrThreads, TLC

CONSTANTS e1, e2

NoArrays  == {}
TwoEvents == {<<e1, e2>>}

(* The threads other than Main are interchangeable.                        *)
OtherThreads == Permutations(Threads \ {Main})

=============================================================================
