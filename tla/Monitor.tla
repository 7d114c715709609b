------------------------------- MODULE Monitor -------------------------------
(***************************************************************************)
(* What Monitor.Enter and Monitor.Exit promise to a managed program: a     *)
(* thread that has entered the monitor of an object as often as it has not *)
(* yet left it is the only one inside, it gets there only by calling Enter *)
(* itself, and its locks are free again when it ends.  How the engine      *)
(* queues the threads is left open.                                        *)
(***************************************************************************)
EXTENDS Naturals

CONSTANTS Threads, Locks, NoLock

VARIABLES
  trying, \* the lock a thread has called Enter for, without returning yet
  holds,  \* how many times a thread has entered a lock and not left it
  ended   \* the threads that have ended

mvars == <<trying, holds, ended>>

NoneOther(t, l) == \A u \in Threads \ {t} : holds[u][l] = 0

MInit ==
  /\ trying = [t \in Threads |-> NoLock]
  /\ holds  = [t \in Threads |-> [l \in Locks |-> 0]]
  /\ ended  = {}

(* Enter of a lock nobody else holds returns at once.                      *)
MEnter(t, l) ==
  /\ trying[t] = NoLock
  /\ NoneOther(t, l)
  /\ holds' = [holds EXCEPT ![t][l] = @ + 1]
  /\ UNCHANGED <<trying, ended>>

MRequest(t, l) ==
  /\ trying[t] = NoLock
  /\ holds[t][l] = 0
  /\ trying' = [trying EXCEPT ![t] = l]
  /\ UNCHANGED <<holds, ended>>

(* The call returns: now t is inside, alone.                               *)
MReturn(t, l) ==
  /\ trying[t] = l
  /\ NoneOther(t, l)
  /\ trying' = [trying EXCEPT ![t] = NoLock]
  /\ holds'  = [holds EXCEPT ![t][l] = @ + 1]
  /\ UNCHANGED ended

MExit(t, l) ==
  /\ trying[t] = NoLock
  /\ holds[t][l] > 0
  /\ holds' = [holds EXCEPT ![t][l] = @ - 1]
  /\ UNCHANGED <<trying, ended>>

(* The thread ends and leaves every lock it holds.                         *)
MEnd(t) ==
  /\ trying[t] = NoLock
  /\ holds' = [holds EXCEPT ![t] = [l \in Locks |-> 0]]
  /\ ended' = ended \cup {t}
  /\ UNCHANGED trying

MNext ==
  \E t \in Threads \ ended :
    \/ MEnd(t)
    \/ \E l \in Locks :
         MEnter(t, l) \/ MRequest(t, l) \/ MReturn(t, l) \/ MExit(t, l)

MSpec == MInit /\ [][MNext]_mvars

=============================================================================
