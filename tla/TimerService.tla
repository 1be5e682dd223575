---------------------------- MODULE TimerService ----------------------------
(***************************************************************************)
(* What the timer framework of bx_pc_system_c promises its users, without  *)
(* the countdown that implements it: a clock that never passes a deadline, *)
(* and one call for every slot whose deadline is reached, made before the  *)
(* clock moves again.                                                      *)
(***************************************************************************)
EXTENDS Integers, FiniteSetsExt

CONSTANTS Slots

VARIABLES
  now,       \* the current tick
  deadline,  \* per slot: the tick at which it fires, or -1 when disarmed
  every,     \* per slot: the period of a continuous timer, 0 for a one-shot
  due        \* the slots that fired at this tick and were not called yet

tsVars == <<now, deadline, every, due>>

Start ==
  /\ now = 0
  /\ due = {}
  /\ deadline \in [Slots -> Int] /\ every \in [Slots -> Nat]
  /\ \A i \in Slots : deadline[i] = -1 \/ deadline[i] > 0

\* A device arms, re-arms or disarms one slot; an armed slot fires in the
\* future, and a continuous one fires again at the same distance.
Set(i) ==
  /\ deadline' = [deadline EXCEPT ![i] = deadline'[i]]
  /\ every' = [every EXCEPT ![i] = every'[i]]
  /\ \/ deadline'[i] = -1 /\ every'[i] = 0
     \/ deadline'[i] > now /\ every'[i] \in {0, deadline'[i] - now}
  /\ UNCHANGED <<now, due>>

\* Time advances, never past a deadline and never over an unmade call.
Advance ==
  /\ due = {}
  /\ now' > now
  /\ \A i \in Slots : deadline[i] = -1 \/ now' <= deadline[i]
  /\ due' = {i \in Slots : deadline[i] = now'}
  /\ deadline' = [i \in Slots |->
                    IF i \notin due' THEN deadline[i]
                    ELSE IF every[i] > 0 THEN now' + every[i] ELSE -1]
  /\ every' = every

\* The calls are made in the order of the slots.
Call ==
  /\ due # {}
  /\ due' = due \ {Min(due)}
  /\ UNCHANGED <<now, deadline, every>>

Step == Advance \/ Call \/ \E i \in Slots : Set(i)

Service == Start /\ [][Step]_tsVars
=============================================================================
