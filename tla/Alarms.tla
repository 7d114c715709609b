------------------------------- MODULE Alarms -------------------------------
(***************************************************************************)
(* What HAL_COMPLETION promises the drivers that use it: an alarm set for  *)
(* a time goes off once, not before that time, earlier alarms first, and   *)
(* does go off once its time has come unless it is cancelled before.       *)
(***************************************************************************)
EXTENDS Naturals

CONSTANTS
  Timers,   \* alarms
  MaxTime,  \* bound of the clock
  Off       \* no time: the alarm is not set

VARIABLES
  now,  \* the time
  due   \* the time an alarm is set for, or Off

vars == <<now, due>>

Init ==
  /\ now = 0
  /\ due = [t \in Timers |-> Off]

Tick ==
  /\ now < MaxTime
  /\ now' = now + 1
  /\ UNCHANGED due

Arm(t, d) ==
  /\ due[t] = Off
  /\ due' = [due EXCEPT ![t] = d]
  /\ UNCHANGED now

Cancel(t) ==
  /\ due' = [due EXCEPT ![t] = Off]
  /\ UNCHANGED now

(* t goes off; a periodic alarm is set again in the same step (d # Off).   *)
Fire(t, d) ==
  /\ due[t] # Off
  /\ due[t] <= now
  /\ \A u \in Timers : due[u] # Off => due[t] <= due[u]
  /\ d # Off => d > now
  /\ due' = [due EXCEPT ![t] = d]
  /\ UNCHANGED now

GoesOff(t) == \E d \in (1..MaxTime) \cup {Off} : Fire(t, d)

Next ==
  \/ Tick
  \/ \E t \in Timers :
       \/ \E d \in 1..MaxTime : Arm(t, d)
       \/ Cancel(t)
       \/ GoesOff(t)

ASpec == Init /\ [][Next]_vars /\ \A t \in Timers : WF_vars(GoesOff(t))

=============================================================================
