------------------------------ MODULE PcTimers ------------------------------
(***************************************************************************)
(* The timer framework of bx_pc_system_c (bochs/pc_system.cc): up to       *)
(* BX_MAX_TIMERS slots driven by one "hot" countdown that every emulated   *)
(* instruction decrements.  The countdown is Bit32u, the times of the      *)
(* slots are Bit64u; slot 0 holds the null timer, whose period is the      *)
(* largest Bit32u, so that the distance to the next event always fits.     *)
(*                                                                         *)
(* The C++ array of structs is kept field by field: the boolean fields     *)
(* inUse, active and continuous are the sets of the slots where they are   *)
(* true.  Callbacks run from countdownEvent and may call back into every   *)
(* timer operation, so one call of a callback is a step (CallTimer), the   *)
(* operations it makes are steps, and its return is a step.                *)
(***************************************************************************)
EXTENDS Integers, FiniteSetsExt

CONSTANTS
  MaxTimers,  \* BX_MAX_TIMERS
  Word,       \* 2^32: number of values of the Bit32u countdown
  Ticks,      \* the periods (in ticks) that callers ask for
  Handlers,   \* the callbacks that devices register
  NullTimer,  \* bx_pc_system_c::nullTimer
  NoFunct,    \* a NULL callback
  MaxTime,    \* BX_MAX_BIT64S: the last tick, and the invalid time
  MaxTickn,   \* bound on the argument of tickn
  TicksPerUsec, \* m_ips
  MaxClaims   \* bound on usecSinceLast, the microseconds handed out ahead

Slots == 0 .. MaxTimers - 1

\* Mutant of NullTimerInterval: one more than a Bit32u can hold.
NullTimerTooLong == Word

NullTimerInterval == Word - 1

ASSUME SizeAssumption ==
  /\ MaxTimers \in Nat \ {0}
  /\ Word \in Nat /\ Word > 1
  /\ MaxTime \in Nat /\ MaxTickn \in Nat /\ MaxClaims \in Nat
  /\ TicksPerUsec \in Nat \ {0}
ASSUME TicksAssumption == Ticks \subseteq Nat
ASSUME FunctAssumption ==
  /\ NullTimer \notin Handlers /\ NoFunct \notin Handlers
  /\ NullTimer # NoFunct

VARIABLES
  inUse, active, continuous,  \* sets of slots
  period, timeToFire, funct,  \* functions on Slots
  numTimers,                  \* slots 0 .. numTimers-1 are scanned
  currCountdown, currCountdownPeriod, ticksTotal,
  triggered,  \* countdownEvent: the triggered slots its call loop has ahead
  running,    \* the slot whose callback is on the stack, or -1
  n,          \* tickn: the ticks still to be accounted for
  lastTimeUsec, usecSinceLast,
  claimed     \* the last value time_usec_sequential returned

slotVars == <<inUse, continuous, period, timeToFire, funct, numTimers>>
countVars == <<currCountdown, currCountdownPeriod, ticksTotal>>
loopVars == <<triggered, running, n>>
usecVars == <<lastTimeUsec, usecSinceLast, claimed>>
vars == <<slotVars, active, countVars, loopVars, usecVars>>

-----------------------------------------------------------------------------
\* time_ticks(): the current time.
time_ticks == ticksTotal + (currCountdownPeriod - currCountdown)

\* time_usec()
time_usec == time_ticks \div TicksPerUsec

\* The value triggeredTimerID() reports.
triggeredTimer == IF running = -1 THEN 0 ELSE running

InCallback == running # -1

\* No tickn/tick1 is on the stack: the CPU or a device model is executing.
Idle == running = -1 /\ triggered = {} /\ n = 0

\* Timer operations are called by device code, which runs either on behalf
\* of an instruction or inside a callback (nullTimer makes no calls).
DeviceCode == Idle \/ running > 0

Init ==
  /\ inUse = {0} /\ active = {0} /\ continuous = {0}
  /\ period = [i \in Slots |-> IF i = 0 THEN NullTimerInterval ELSE 0]
  /\ timeToFire = [i \in Slots |-> IF i = 0 THEN NullTimerInterval ELSE 0]
  /\ funct = [i \in Slots |-> IF i = 0 THEN NullTimer ELSE NoFunct]
  /\ numTimers = 1
  /\ currCountdown = NullTimerInterval
  /\ currCountdownPeriod = NullTimerInterval
  /\ ticksTotal = 0
  /\ triggered = {} /\ running = -1 /\ n = 0
  /\ lastTimeUsec = 0 /\ usecSinceLast = 0 /\ claimed = 0

-----------------------------------------------------------------------------
(* Device-facing operations. *)

\* Mutant of Sane: the minimum period is not enforced.
SaneUnchecked(t) == t

\* MinAllowableTimerPeriod is 1.
Sane(t) == IF t < 1 THEN 1 ELSE t

\* Mutant of SkewCountdown: the countdown is not shortened.
SkewNothing(t) == UNCHANGED <<currCountdown, currCountdownPeriod>>

\* A timer armed to fire before the end of the current countdown shortens
\* both the countdown and its period by the same amount.
SkewCountdown(t) ==
  IF t < currCountdown
  THEN /\ currCountdownPeriod' = currCountdownPeriod - (currCountdown - t)
       /\ currCountdown' = t
  ELSE UNCHANGED <<currCountdown, currCountdownPeriod>>

\* The search of register_timer_ticks: the first hole below numTimers, or
\* numTimers itself.
FreeSlot == Min({i \in 1 .. numTimers : i = numTimers \/ i \notin inUse})

\* register_timer_ticks; when numTimers has reached BX_MAX_TIMERS the call
\* panics and returns -1 without a change of state, even if the search
\* found a hole, so it is no step of the model.
RegisterTimer(h, t, cont, act) ==
  /\ DeviceCode
  /\ numTimers < MaxTimers
  /\ LET i == FreeSlot
         ticks == Sane(t)
     IN  /\ inUse' = inUse \union {i}
         /\ period' = [period EXCEPT ![i] = ticks]
         /\ timeToFire' = [timeToFire EXCEPT ![i] = time_ticks + ticks]
         /\ active' = IF act THEN active \union {i} ELSE active \ {i}
         /\ continuous' = IF cont THEN continuous \union {i}
                                  ELSE continuous \ {i}
         /\ funct' = [funct EXCEPT ![i] = h]
         /\ IF act THEN SkewCountdown(ticks)
                   ELSE UNCHANGED <<currCountdown, currCountdownPeriod>>
         /\ numTimers' = IF i = numTimers THEN numTimers + 1 ELSE numTimers
  /\ UNCHANGED <<ticksTotal, loopVars, usecVars>>

\* activate_timer_ticks
ActivateTicks(i, t, cont) ==
  LET ticks == Sane(t)
  IN  /\ period' = [period EXCEPT ![i] = ticks]
      /\ timeToFire' = [timeToFire EXCEPT ![i] = time_ticks + ticks]
      /\ active' = active \union {i}
      /\ continuous' = IF cont THEN continuous \union {i}
                               ELSE continuous \ {i}
      /\ SkewCountdown(ticks)
      /\ UNCHANGED <<inUse, funct, numTimers, ticksTotal, loopVars, usecVars>>

\* activate_timer / activate_timer_nsec: an argument of 0 stands for the
\* period stored in the slot.
ActivateTimer(i, t, cont) ==
  /\ DeviceCode
  /\ i \in inUse \ {0}
  /\ ActivateTicks(i, IF t = 0 THEN period[i] ELSE Sane(t), cont)

\* deactivate_timer: the countdown is left alone.
DeactivateTimer(i) ==
  /\ DeviceCode
  /\ i \in inUse \ {0}
  /\ active' = active \ {i}
  /\ UNCHANGED <<slotVars, countVars, loopVars, usecVars>>

\* Mutant of UnregisterTimer: numTimers shrinks for every slot.
UnregisterAnyShrinks(i) ==
  /\ DeviceCode
  /\ i \in inUse \ {0}
  /\ i \notin active
  /\ inUse' = inUse \ {i}
  /\ funct' = [funct EXCEPT ![i] = NoFunct]
  /\ numTimers' = numTimers - 1
  /\ UNCHANGED <<active, continuous, period, timeToFire>>
  /\ UNCHANGED <<countVars, loopVars, usecVars>>

\* unregisterTimer: fails on an active timer.
UnregisterTimer(i) ==
  /\ DeviceCode
  /\ i \in inUse \ {0}
  /\ i \notin active
  /\ inUse' = inUse \ {i}
  /\ period' = [period EXCEPT ![i] = MaxTime]
  /\ timeToFire' = [timeToFire EXCEPT ![i] = MaxTime]
  /\ continuous' = continuous \ {i}
  /\ funct' = [funct EXCEPT ![i] = NoFunct]
  /\ numTimers' = IF i = numTimers - 1 THEN numTimers - 1 ELSE numTimers
  /\ UNCHANGED <<active, countVars, loopVars, usecVars>>

\* Mutant of TimeUsecSequential: the claimed microseconds are forgotten as
\* soon as the clock moves.
SequentialForgets ==
  /\ DeviceCode
  /\ usecSinceLast < MaxClaims
  /\ lastTimeUsec' = time_usec
  /\ usecSinceLast' = IF time_usec # lastTimeUsec THEN 1 ELSE usecSinceLast + 1
  /\ claimed' = time_usec + usecSinceLast'
  /\ UNCHANGED <<slotVars, active, countVars, loopVars>>

\* time_usec_sequential
TimeUsecSequential ==
  /\ DeviceCode
  /\ usecSinceLast < MaxClaims
  /\ LET diff_usec == time_usec - lastTimeUsec
         since == IF diff_usec >= usecSinceLast THEN 0
                  ELSE usecSinceLast - diff_usec
     IN  /\ lastTimeUsec' = time_usec
         /\ usecSinceLast' = since + 1
         /\ claimed' = time_usec + usecSinceLast'
  /\ UNCHANGED <<slotVars, active, countVars, loopVars>>

-----------------------------------------------------------------------------
(* The clock. *)

\* Mutant of CountdownEvent: fired one-shot timers keep their active flag.
CountdownKeepsOneShots ==
  LET now == ticksTotal + currCountdownPeriod
      due == {i \in 0 .. numTimers - 1 : i \in active /\ timeToFire[i] = now}
  IN  /\ ticksTotal' = now
      /\ triggered' = due
      /\ timeToFire' = [i \in Slots |-> IF i \in due \intersect continuous
                                        THEN timeToFire[i] + period[i]
                                        ELSE timeToFire[i]]
      /\ currCountdownPeriod' =
           Min({timeToFire'[i] : i \in active \ (due \ continuous)}) - now
      /\ currCountdown' = currCountdownPeriod'
      /\ UNCHANGED <<inUse, active, continuous, period, funct, numTimers>>

\* The part of countdownEvent up to the call loop: it accounts the elapsed
\* period, finds the timers that are due, re-arms the continuous ones and
\* starts the next countdown.
CountdownEvent ==
  LET now == ticksTotal + currCountdownPeriod
      due == {i \in 0 .. numTimers - 1 : i \in active /\ timeToFire[i] = now}
  IN  /\ ticksTotal' = now
      /\ triggered' = due
      /\ active' = active \ (due \ continuous)
      /\ timeToFire' = [i \in Slots |-> IF i \in due \intersect continuous
                                        THEN timeToFire[i] + period[i]
                                        ELSE timeToFire[i]]
      /\ currCountdownPeriod' =
           (Min({timeToFire'[i] :
                   i \in {j \in 0 .. numTimers - 1 : j \in active'}}) - now)
             % Word
      /\ currCountdown' = currCountdownPeriod'
      /\ UNCHANGED <<inUse, continuous, period, funct, numTimers>>

\* Mutant of TicknLoop: subtracts the period instead of the countdown.
TicknLoopByPeriod(k) ==
  /\ IF k >= currCountdown
     THEN CountdownEvent /\ n' = Max({0, k - currCountdownPeriod})
     ELSE /\ currCountdown' = currCountdown - k
          /\ n' = 0
          /\ UNCHANGED <<slotVars, active, currCountdownPeriod, ticksTotal,
                         triggered>>
  /\ UNCHANGED <<running, usecVars>>

\* One turn of the loop of tickn(k), k ticks remaining.
TicknLoop(k) ==
  /\ IF k >= currCountdown
     THEN CountdownEvent /\ n' = k - currCountdown
     ELSE /\ currCountdown' = currCountdown - k
          /\ n' = 0
          /\ UNCHANGED <<slotVars, active, currCountdownPeriod, ticksTotal,
                         triggered>>
  /\ UNCHANGED <<running, usecVars>>

\* tick1, called after every instruction.
Tick1 ==
  /\ Idle
  /\ time_ticks + 1 <= MaxTime
  /\ IF currCountdown = 1
     THEN CountdownEvent
     ELSE /\ currCountdown' = currCountdown - 1
          /\ UNCHANGED <<slotVars, active, currCountdownPeriod, ticksTotal,
                         triggered>>
  /\ UNCHANGED <<running, n, usecVars>>

\* tickn is called with k ...
Tickn(k) ==
  /\ Idle
  /\ time_ticks + k <= MaxTime
  /\ TicknLoop(k)

\* ... and loops when countdownEvent has returned.
TicknResume ==
  /\ running = -1 /\ triggered = {} /\ n > 0
  /\ TicknLoop(n)

\* Mutant of CallTimer: the loop does not move on after a call.
CallTimerAgain ==
  /\ running = -1 /\ triggered # {}
  /\ running' = IF funct[Min(triggered)] # NoFunct THEN Min(triggered) ELSE -1
  /\ UNCHANGED <<slotVars, active, countVars, triggered, n, usecVars>>

\* The call loop of countdownEvent reaches the next triggered slot.
CallTimer ==
  /\ running = -1 /\ triggered # {}
  /\ LET i == Min(triggered)
     IN  /\ triggered' = triggered \ {i}
         /\ running' = IF funct[i] # NoFunct THEN i ELSE -1
  /\ UNCHANGED <<slotVars, active, countVars, n, usecVars>>

\* The callback returns.
CallbackReturn ==
  /\ InCallback
  /\ running' = -1
  /\ UNCHANGED <<slotVars, active, countVars, triggered, n, usecVars>>

Next ==
  \/ \E h \in Handlers, t \in Ticks, cont, act \in BOOLEAN :
       RegisterTimer(h, t, cont, act)
  \/ \E i \in Slots, t \in Ticks \union {0}, cont \in BOOLEAN :
       ActivateTimer(i, t, cont)
  \/ \E i \in Slots : DeactivateTimer(i)
  \/ \E i \in Slots : UnregisterTimer(i)
  \/ TimeUsecSequential
  \/ Tick1
  \/ \E k \in 1 .. MaxTickn : Tickn(k)
  \/ TicknResume
  \/ CallTimer
  \/ CallbackReturn

Spec == Init /\ [][Next]_vars

\* The emulator thread runs to completion: countdownEvent's call loop goes
\* on, callbacks return and tickn resumes.  Nothing else is promised.
Fairness == WF_vars(CallTimer) /\ WF_vars(CallbackReturn) /\ WF_vars(TicknResume)

FairSpec == Spec /\ Fairness

-----------------------------------------------------------------------------
(* Properties. *)

\* Types of the variables.
TypeOK ==
  /\ inUse \subseteq Slots /\ active \subseteq Slots
  /\ continuous \subseteq Slots /\ triggered \subseteq Slots
  /\ period \in [Slots -> Nat] /\ timeToFire \in [Slots -> Nat]
  /\ funct \in [Slots -> Handlers \union {NullTimer, NoFunct}]
  /\ numTimers \in 1 .. MaxTimers
  /\ currCountdown \in 0 .. Word - 1 /\ currCountdownPeriod \in 0 .. Word - 1
  /\ ticksTotal \in Nat /\ n \in Nat
  /\ running \in Slots \union {-1}
  /\ lastTimeUsec \in Nat /\ usecSinceLast \in Nat /\ claimed \in Nat

\* The inductive invariant.  The null timer is always armed; every active
\* timer is registered, scanned and due no earlier than the end of the
\* current countdown; the null timer is due within one Bit32u, which is why
\* the next countdown always fits.
SlotInv ==
  /\ 0 \in active /\ 0 \in continuous
  /\ active \subseteq inUse
  /\ inUse \subseteq 0 .. numTimers - 1
  /\ \A i \in inUse : period[i] >= 1
  /\ period[0] = NullTimerInterval
CountInv ==
  /\ 1 <= currCountdown /\ currCountdown <= currCountdownPeriod
  /\ \A i \in active : timeToFire[i] >= ticksTotal + currCountdownPeriod
  /\ timeToFire[0] <= ticksTotal + NullTimerInterval
TimersInv == TypeOK /\ SlotInv /\ CountInv

\* The value handed out last is the microsecond it was handed out in plus the
\* microseconds claimed ahead of it, and the clock does not run backwards.
ClaimInv ==
  /\ lastTimeUsec <= time_usec
  /\ claimed = lastTimeUsec + usecSinceLast

\* countdownEvent compares timeToFire with == and panics (BX_TIMER_DEBUG) when
\* the clock has passed it; without the debug check such a timer would not
\* fire for 2^64 ticks.  The clock never reaches an active timer's
\* timeToFire without firing it, and no active timer is out of the range
\* that countdownEvent scans.
NoTimerMissed ==
  \A i \in active : time_ticks < timeToFire[i] /\ i < numTimers

\* The hot countdown stays strictly positive outside countdownEvent, so that
\* --currCountdown never wraps and tickn always makes progress, and within
\* its period, so that time_ticks never runs backwards.
CountdownInRange == 1 <= currCountdown /\ currCountdown <= currCountdownPeriod

\* tickn(k) accounts for exactly k ticks, however many events interrupt it
\* and whatever the callbacks it makes do to the countdown.
TicknExact ==
  [][/\ n > 0 => time_ticks' + n' = time_ticks + n
     /\ \A k \in 1 .. MaxTickn : Tickn(k) => time_ticks' + n' = time_ticks + k]_vars

\* A registration never takes over a slot that another device holds: while
\* a slot stays registered its callback does not change.
HandlerKept ==
  [][\A i \in inUse \intersect inUse' : funct'[i] = funct[i]]_vars

\* time_usec_sequential is strictly increasing, even when it is called many
\* times within one microsecond and the clock then catches up.
SequentialTime == [][TimeUsecSequential => claimed' > claimed]_vars

\* countdownEvent calls each timer at its deadline: the framework implements
\* the abstract timer service.
deadline == [i \in Slots |-> IF i \in active THEN timeToFire[i] ELSE -1]
every == [i \in Slots |-> IF i \in active /\ i \in continuous THEN period[i] ELSE 0]
TS == INSTANCE TimerService WITH now <- time_ticks, due <- triggered
ImplementsTimerService == TS!Service

\* Every tickn comes back to its caller.
TicknReturns == n > 0 ~> Idle
=============================================================================
