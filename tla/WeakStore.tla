----------------------------- MODULE WeakStore -----------------------------
(***************************************************************************)
(* What the persistence of weak references promises: a store with one      *)
(* value for each identity, which a restart reads back.                    *)
(*                                                                         *)
(* A new target takes the stored value away at once; some time later the   *)
(* new one is stored.  A stored value may also be given up for lack of     *)
(* room.  After a restart the targets are exactly what was stored - unless *)
(* the store was exposed when the power went: then any earlier value, or   *)
(* none, may be what is found.                                             *)
(***************************************************************************)
EXTENDS Naturals

CONSTANTS Refs,      \* the identities (selector and id) of weak references
          Versions   \* the values ever given to a target, numbered in order

VARIABLES on,        \* the program runs
          target,    \* the target of each reference, 0 if none
          stored,    \* the set of values that a restart finds for it
          exposed    \* the store is not what a restart would read

vars == <<on, target, stored, exposed>>

Init ==
    /\ on = FALSE /\ target = [r \in Refs |-> 0]
    /\ stored = [r \in Refs |-> {}]
    /\ exposed \in BOOLEAN

\* The program sets a target or drops it; the old value is given up first.
Replace(r) ==
    /\ on
    /\ \E v \in Versions \cup {0} : target' = [target EXCEPT ![r] = v]
    /\ stored' = [stored EXCEPT ![r] = {}]
    /\ UNCHANGED on

\* The current target becomes the one value stored.
Save(r) ==
    /\ on /\ target[r] # 0 /\ stored[r] = {}
    /\ stored' = [stored EXCEPT ![r] = {target[r]}]
    /\ UNCHANGED <<on, target>>

\* No room: the value goes back to RAM and would not survive.
Revert(r) ==
    /\ on /\ stored[r] # {}
    /\ stored' = [stored EXCEPT ![r] = {}]
    /\ UNCHANGED <<on, target>>

PowerLoss ==
    /\ on' = FALSE /\ target' = [r \in Refs |-> 0]
    /\ \/ stored' = stored
       \/ exposed /\ stored' \in [Refs -> {{}} \cup {{v} : v \in Versions}]

Restart ==
    /\ ~on /\ on'
    /\ \A r \in Refs : stored[r] = IF target'[r] = 0 THEN {} ELSE {target'[r]}
    /\ UNCHANGED stored

\* exposed itself may change in any step: when it may is a property of the
\* implementation (LiveBankBoots).
Next ==
    \/ \E r \in Refs : Replace(r) \/ Save(r) \/ Revert(r)
    \/ PowerLoss
    \/ Restart
    \/ UNCHANGED <<on, target, stored>>

Spec == Init /\ [][Next]_vars
=============================================================================
