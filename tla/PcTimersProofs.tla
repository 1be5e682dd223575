--------------------------- MODULE PcTimersProofs ---------------------------
(***************************************************************************)
(* Proofs about PcTimers, for every number of slots, every width of the    *)
(* countdown and every set of periods.                                     *)
(***************************************************************************)
EXTENDS PcTimers, WellFoundedInduction, TLAPS

\* A non-empty set of naturals has a minimum, and Min picks it.
LEMMA MinOfNaturals ==
  ASSUME NEW S, S \subseteq Nat, S # {}
  PROVE  Min(S) \in S /\ \A y \in S : Min(S) <= y
<1>1. IsWellFoundedOn(OpToRel(<, Nat), Nat)
  BY NatLessThanWellFounded
<1>2. \E x \in S : \A y \in S : ~ (<<y, x>> \in OpToRel(<, Nat))
  BY <1>1, WFMin
<1>3. PICK x \in S : \A y \in S : ~ (<<y, x>> \in OpToRel(<, Nat))
  BY <1>2
<1>4. ASSUME NEW y \in S
      PROVE  x <= y
  <2>1. y \in Nat /\ x \in Nat
    OBVIOUS
  <2>2. y < x => <<y, x>> \in {ss \in Nat \X Nat : ss[1] < ss[2]}
    BY <2>1
  <2>3. ~ (y < x)
    BY <1>3, <2>2, Zenon DEF OpToRel
  <2> QED BY <2>1, <2>3
<1> QED BY <1>4 DEF Min

-----------------------------------------------------------------------------
(* The inductive invariant. *)

LEMMA InitEstablishes == Init => TimersInv
BY SizeAssumption, FunctAssumption
   DEF Init, TimersInv, TypeOK, SlotInv, CountInv, Slots, NullTimerInterval

\* register_timer_ticks never takes a slot that is in use.
LEMMA FreeSlotIsFree ==
  ASSUME TimersInv, numTimers < MaxTimers
  PROVE  /\ FreeSlot \in 1 .. numTimers /\ FreeSlot \in Slots
         /\ FreeSlot \notin inUse /\ FreeSlot \notin active
<1> DEFINE S == {i \in 1 .. numTimers : i = numTimers \/ i \notin inUse}
<1>1. S \subseteq Nat /\ S # {}
  BY SizeAssumption DEF TimersInv, TypeOK
<1>2. Min(S) \in S
  BY <1>1, MinOfNaturals
<1> QED BY <1>2, SizeAssumption DEF TimersInv, TypeOK, SlotInv, FreeSlot, Slots

\* Shortening the countdown for a timer that fires t ticks from now keeps
\* the clock and puts the end of the countdown no later than that timer.
LEMMA SkewKeepsTime ==
  ASSUME TimersInv, NEW t \in Nat, t >= 1, SkewCountdown(t)
  PROVE  /\ currCountdown' \in 0 .. Word - 1
         /\ currCountdownPeriod' \in 0 .. Word - 1
         /\ 1 <= currCountdown' /\ currCountdown' <= currCountdownPeriod'
         /\ currCountdownPeriod' <= currCountdownPeriod
         /\ currCountdownPeriod' - currCountdown' = currCountdownPeriod - currCountdown
         /\ currCountdownPeriod' <= (currCountdownPeriod - currCountdown) + t
BY SizeAssumption DEF TimersInv, TypeOK, CountInv, SkewCountdown

LEMMA RegisterKeeps ==
  ASSUME TimersInv, NEW h \in Handlers, NEW t \in Ticks,
         NEW cont \in BOOLEAN, NEW act \in BOOLEAN,
         RegisterTimer(h, t, cont, act)
  PROVE  TimersInv'
<1> DEFINE i == FreeSlot
           ticks == Sane(t)
<1>1. /\ i \in 1 .. numTimers /\ i \in Slots
      /\ i \notin inUse /\ i \notin active
  BY FreeSlotIsFree DEF RegisterTimer
<1>2. ticks \in Nat /\ ticks >= 1
  BY TicksAssumption DEF Sane
<1>3. act => SkewCountdown(ticks)
  BY DEF RegisterTimer
<1>4. ~act => UNCHANGED <<currCountdown, currCountdownPeriod>>
  BY DEF RegisterTimer
<1>5. /\ inUse' = inUse \union {i}
      /\ period' = [period EXCEPT ![i] = ticks]
      /\ timeToFire' = [timeToFire EXCEPT ![i] = time_ticks + ticks]
      /\ active' = IF act THEN active \union {i} ELSE active \ {i}
      /\ continuous' = IF cont THEN continuous \union {i} ELSE continuous \ {i}
      /\ funct' = [funct EXCEPT ![i] = h]
      /\ numTimers' = IF i = numTimers THEN numTimers + 1 ELSE numTimers
      /\ numTimers < MaxTimers
      /\ UNCHANGED <<ticksTotal, loopVars, usecVars>>
  BY DEF RegisterTimer
<1> HIDE DEF i, ticks
<1>6. /\ currCountdown' \in 0 .. Word - 1
      /\ currCountdownPeriod' \in 0 .. Word - 1
      /\ 1 <= currCountdown' /\ currCountdown' <= currCountdownPeriod'
      /\ currCountdownPeriod' <= currCountdownPeriod
      /\ act => currCountdownPeriod' <= (currCountdownPeriod - currCountdown) + ticks
  <2>1. CASE act
    BY <2>1, <1>2, <1>3, SkewKeepsTime
  <2>2. CASE ~act
    BY <2>2, <1>4, SizeAssumption DEF TimersInv, TypeOK, CountInv
  <2> QED BY <2>1, <2>2
<1>7. TypeOK'
  BY <1>1, <1>2, <1>5, <1>6, SizeAssumption
     DEF TimersInv, TypeOK, CountInv, time_ticks, loopVars, usecVars
<1>8. SlotInv'
  BY <1>1, <1>2, <1>5, SizeAssumption DEF TimersInv, TypeOK, SlotInv, Slots
<1>9. CountInv'
  <2>1. ASSUME NEW j \in active'
        PROVE  timeToFire'[j] >= ticksTotal' + currCountdownPeriod'
    <3>1. CASE j = i
      <4>1. timeToFire'[i] = time_ticks + ticks
        BY <1>1, <1>5 DEF TimersInv, TypeOK
      <4>2. act
        BY <3>1, <2>1, <1>5
      <4>3. time_ticks + ticks >= ticksTotal + currCountdownPeriod'
        <5>1. \A p \in Int : p <= (currCountdownPeriod - currCountdown) + ticks
                               => time_ticks + ticks >= ticksTotal + p
          BY <1>2, SizeAssumption DEF TimersInv, TypeOK, time_ticks
        <5> QED BY <5>1, <4>2, <1>6
      <4> QED BY <3>1, <4>1, <4>3, <1>5
    <3>2. CASE j # i
      BY <3>2, <2>1, <1>1, <1>5, <1>6, SizeAssumption DEF TimersInv, TypeOK, CountInv
    <3> QED BY <3>1, <3>2
  <2>2. timeToFire'[0] <= ticksTotal' + NullTimerInterval
    BY <1>1, <1>5 DEF TimersInv, TypeOK, SlotInv, CountInv, Slots
  <2> QED BY <2>1, <2>2, <1>6 DEF CountInv
<1> QED BY <1>7, <1>8, <1>9 DEF TimersInv

LEMMA ActivateKeeps ==
  ASSUME TimersInv, NEW i \in Slots, NEW t \in Ticks \union {0},
         NEW cont \in BOOLEAN, ActivateTimer(i, t, cont)
  PROVE  TimersInv'
<1> DEFINE ticks == Sane(IF t = 0 THEN period[i] ELSE Sane(t))
<1>1. ticks \in Nat /\ ticks >= 1
  BY TicksAssumption DEF Sane, TimersInv, TypeOK
<1>2. /\ i \in inUse \ {0}
      /\ period' = [period EXCEPT ![i] = ticks]
      /\ timeToFire' = [timeToFire EXCEPT ![i] = time_ticks + ticks]
      /\ active' = active \union {i}
      /\ continuous' = IF cont THEN continuous \union {i} ELSE continuous \ {i}
      /\ SkewCountdown(ticks)
      /\ UNCHANGED <<inUse, funct, numTimers, ticksTotal, loopVars, usecVars>>
  BY DEF ActivateTimer, ActivateTicks
<1> HIDE DEF ticks
<1>3. /\ currCountdown' \in 0 .. Word - 1
      /\ currCountdownPeriod' \in 0 .. Word - 1
      /\ 1 <= currCountdown' /\ currCountdown' <= currCountdownPeriod'
      /\ currCountdownPeriod' <= currCountdownPeriod
      /\ currCountdownPeriod' <= (currCountdownPeriod - currCountdown) + ticks
  BY <1>1, <1>2, SkewKeepsTime
<1>4. TypeOK'
  BY <1>1, <1>2, <1>3, SizeAssumption
     DEF TimersInv, TypeOK, CountInv, time_ticks, loopVars, usecVars
<1>5. SlotInv'
  BY <1>1, <1>2 DEF TimersInv, TypeOK, SlotInv, Slots
<1>6. CountInv'
  <2>1. ASSUME NEW j \in active'
        PROVE  timeToFire'[j] >= ticksTotal' + currCountdownPeriod'
    <3>1. CASE j = i
      <4>1. timeToFire'[i] = time_ticks + ticks
        BY <1>2 DEF TimersInv, TypeOK
      <4>2. time_ticks + ticks >= ticksTotal + currCountdownPeriod'
        <5>1. \A p \in Int : p <= (currCountdownPeriod - currCountdown) + ticks
                               => time_ticks + ticks >= ticksTotal + p
          BY <1>1, SizeAssumption DEF TimersInv, TypeOK, time_ticks
        <5> QED BY <5>1, <1>3
      <4> QED BY <3>1, <4>1, <4>2, <1>2
    <3>2. CASE j # i
      BY <3>2, <2>1, <1>2, <1>3, SizeAssumption DEF TimersInv, TypeOK, CountInv
    <3> QED BY <3>1, <3>2
  <2>2. timeToFire'[0] <= ticksTotal' + NullTimerInterval
    BY <1>2 DEF TimersInv, TypeOK, SlotInv, CountInv, Slots
  <2> QED BY <2>1, <2>2, <1>3 DEF CountInv
<1> QED BY <1>4, <1>5, <1>6 DEF TimersInv

LEMMA DeactivateKeeps ==
  ASSUME TimersInv, NEW i \in Slots, DeactivateTimer(i)
  PROVE  TimersInv'
BY DEF DeactivateTimer, TimersInv, TypeOK, SlotInv, CountInv, slotVars,
       countVars, loopVars, usecVars

LEMMA UnregisterKeeps ==
  ASSUME TimersInv, NEW i \in Slots, UnregisterTimer(i)
  PROVE  TimersInv'
<1>1. TypeOK'
  <2>1. numTimers' \in 1 .. MaxTimers
    BY SizeAssumption DEF UnregisterTimer, TimersInv, TypeOK, SlotInv, Slots
  <2>2. period' \in [Slots -> Nat] /\ timeToFire' \in [Slots -> Nat]
    BY SizeAssumption DEF UnregisterTimer, TimersInv, TypeOK
  <2>3. funct' \in [Slots -> Handlers \union {NullTimer, NoFunct}]
    BY DEF UnregisterTimer, TimersInv, TypeOK
  <2> QED
    BY <2>1, <2>2, <2>3
       DEF UnregisterTimer, TimersInv, TypeOK, countVars, loopVars, usecVars
<1>2. SlotInv'
  BY SizeAssumption DEF UnregisterTimer, TimersInv, TypeOK, SlotInv, Slots
<1>3. CountInv'
  BY SizeAssumption DEF UnregisterTimer, TimersInv, TypeOK, SlotInv, CountInv, countVars, Slots
<1> QED BY <1>1, <1>2, <1>3 DEF TimersInv

\* countdownEvent: every active timer is then due in the future, the null
\* timer within one Bit32u, so the truncation of the new countdown to 32 bits
\* loses nothing and the countdown is positive.
LEMMA CountdownEventKeeps ==
  ASSUME TimersInv, CountdownEvent
  PROVE  /\ ticksTotal' = ticksTotal + currCountdownPeriod
         /\ triggered' \subseteq Slots
         /\ timeToFire' \in [Slots -> Nat]
         /\ currCountdownPeriod' \in 1 .. Word - 1
         /\ currCountdown' = currCountdownPeriod'
         /\ 0 \in active' /\ active' \subseteq active
         /\ \A i \in active' : timeToFire'[i] >= ticksTotal' + currCountdownPeriod'
         /\ timeToFire'[0] <= ticksTotal' + NullTimerInterval
<1> DEFINE now == ticksTotal + currCountdownPeriod
           due == {i \in 0 .. numTimers - 1 : i \in active /\ timeToFire[i] = now}
           act == active \ (due \ continuous)
           fire == [i \in Slots |-> IF i \in due \intersect continuous
                                    THEN timeToFire[i] + period[i]
                                    ELSE timeToFire[i]]
           S == {fire[i] : i \in {j \in 0 .. numTimers - 1 : j \in act}}
           m == Min(S)
<1>1. /\ ticksTotal' = now /\ triggered' = due
      /\ active' = act /\ timeToFire' = fire
      /\ currCountdownPeriod' = (m - now) % Word
      /\ currCountdown' = currCountdownPeriod'
  BY DEF CountdownEvent
<1>2. now \in Nat
  BY SizeAssumption DEF TimersInv, TypeOK
<1>3. 0 \in Slots /\ act \subseteq active /\ 0 \in act
  BY SizeAssumption DEF TimersInv, TypeOK, SlotInv, Slots
<1>4. fire \in [Slots -> Nat]
  BY DEF TimersInv, TypeOK
<1>5. ASSUME NEW i \in act
      PROVE  fire[i] > now
  <2>1. i \in active /\ i \in Slots /\ i \in inUse /\ i \in 0 .. numTimers - 1
    BY <1>3 DEF TimersInv, TypeOK, SlotInv
  <2>2. timeToFire[i] >= now /\ timeToFire[i] \in Nat /\ period[i] \in Nat
    BY <2>1 DEF TimersInv, TypeOK, CountInv
  <2>3. CASE i \in due
    <3>1. fire[i] = timeToFire[i] + period[i]
      BY <2>1, <2>3
    <3>2. period[i] >= 1
      BY <2>1 DEF TimersInv, SlotInv
    <3> QED BY <1>2, <2>2, <3>1, <3>2
  <2>4. CASE i \notin due
    <3>1. fire[i] = timeToFire[i] /\ timeToFire[i] # now
      BY <2>1, <2>4
    <3> QED BY <1>2, <2>2, <3>1
  <2> QED BY <2>3, <2>4
<1>6. fire[0] <= now + NullTimerInterval
  <2>1. timeToFire[0] \in Nat /\ period[0] = NullTimerInterval
    BY <1>3 DEF TimersInv, TypeOK, SlotInv
  <2>2. CASE 0 \in due \intersect continuous
    <3>1. fire[0] = timeToFire[0] + NullTimerInterval /\ timeToFire[0] = now
      BY <1>3, <2>1, <2>2
    <3> QED BY <1>2, <3>1, SizeAssumption DEF NullTimerInterval
  <2>3. CASE 0 \notin due \intersect continuous
    <3>1. fire[0] = timeToFire[0]
      BY <1>3, <2>3
    <3> QED BY <1>2, <2>1, <3>1, SizeAssumption
            DEF TimersInv, TypeOK, CountInv, NullTimerInterval
  <2> QED BY <2>2, <2>3
<1>7. numTimers \in 1 .. MaxTimers /\ active \subseteq 0 .. numTimers - 1
  BY DEF TimersInv, TypeOK, SlotInv
<1> HIDE DEF now, due, act, fire
<1>8. S \subseteq Nat /\ S # {}
  BY <1>3, <1>4, <1>7, SizeAssumption DEF TimersInv, TypeOK, Slots
<1>9. m \in S /\ \A y \in S : m <= y
  BY <1>8, MinOfNaturals
<1>10. m \in Nat /\ m > now
  BY <1>5, <1>8, <1>9
<1>11. \A i \in act : m <= fire[i]
  BY <1>3, <1>7, <1>9
<1>12. m - now \in 1 .. Word - 1
  <2>1. m <= fire[0] /\ fire[0] \in Nat
    BY <1>3, <1>4, <1>11
  <2> HIDE DEF m
  <2> QED BY <2>1, <1>2, <1>6, <1>10, SizeAssumption DEF NullTimerInterval
<1> HIDE DEF m
<1>13. (m - now) % Word = m - now
  BY <1>2, <1>10, <1>12, SizeAssumption
<1>14. currCountdownPeriod' = m - now
  BY <1>1, <1>13
<1>15. \A i \in act : fire[i] >= now + (m - now)
  <2>1. ASSUME NEW i \in act PROVE fire[i] \in Nat
    BY <1>3, <1>4 DEF TimersInv, TypeOK
  <2> QED BY <2>1, <1>2, <1>10, <1>11
<1>16. due \subseteq Slots
  BY <1>7, SizeAssumption DEF due, Slots
<1> QED
  <2>1. ticksTotal' = ticksTotal + currCountdownPeriod
    BY <1>1 DEF now
  <2>2. \A i \in active' : timeToFire'[i] >= ticksTotal' + currCountdownPeriod'
    BY <1>1, <1>14, <1>15
  <2> QED BY <2>1, <2>2, <1>1, <1>3, <1>4, <1>6, <1>12, <1>14, <1>16

LEMMA CountdownEventInv ==
  ASSUME TimersInv, CountdownEvent,
         UNCHANGED <<running, usecVars>>, n' \in Nat
  PROVE  TimersInv'
<1>1. /\ triggered' \subseteq Slots
      /\ ticksTotal' \in Nat
      /\ timeToFire' \in [Slots -> Nat]
      /\ currCountdownPeriod' \in 1 .. Word - 1
      /\ currCountdown' = currCountdownPeriod'
      /\ 0 \in active' /\ active' \subseteq active
      /\ \A i \in active' : timeToFire'[i] >= ticksTotal' + currCountdownPeriod'
      /\ timeToFire'[0] <= ticksTotal' + NullTimerInterval
  BY CountdownEventKeeps, SizeAssumption DEF TimersInv, TypeOK
<1>2. UNCHANGED <<inUse, continuous, period, funct, numTimers>>
  BY DEF CountdownEvent
<1>3. TypeOK'
  BY <1>1, <1>2, SizeAssumption DEF TimersInv, TypeOK, usecVars
<1>4. SlotInv'
  BY <1>1, <1>2 DEF TimersInv, SlotInv
<1>5. CountInv'
  BY <1>1, SizeAssumption DEF CountInv
<1> QED BY <1>3, <1>4, <1>5 DEF TimersInv

LEMMA TicknLoopKeeps ==
  ASSUME TimersInv, NEW k \in Nat, TicknLoop(k)
  PROVE  TimersInv'
<1>1. CASE k >= currCountdown
  <2>1. CountdownEvent /\ n' = k - currCountdown /\ UNCHANGED <<running, usecVars>>
    BY <1>1 DEF TicknLoop
  <2>2. n' \in Nat
    BY <1>1, <2>1, SizeAssumption DEF TimersInv, TypeOK
  <2> QED BY <2>1, <2>2, CountdownEventInv
<1>2. CASE k < currCountdown
  <2>1. /\ currCountdown' = currCountdown - k /\ n' = 0
        /\ UNCHANGED <<slotVars, active, currCountdownPeriod, ticksTotal, triggered>>
        /\ UNCHANGED <<running, usecVars>>
    BY <1>2, SizeAssumption DEF TicknLoop, TimersInv, TypeOK
  <2> QED
    BY <1>2, <2>1, SizeAssumption
       DEF TimersInv, TypeOK, SlotInv, CountInv, slotVars, usecVars
<1> QED BY <1>1, <1>2, SizeAssumption DEF TimersInv, TypeOK

LEMMA Tick1Keeps ==
  ASSUME TimersInv, Tick1
  PROVE  TimersInv'
<1>1. CASE currCountdown = 1
  BY <1>1, CountdownEventInv DEF Tick1, TimersInv, TypeOK
<1>2. CASE currCountdown # 1
  <2>1. /\ currCountdown' = currCountdown - 1
        /\ UNCHANGED <<slotVars, active, currCountdownPeriod, ticksTotal, triggered>>
        /\ UNCHANGED <<running, n, usecVars>>
    BY <1>2 DEF Tick1
  <2> QED
    BY <1>2, <2>1, SizeAssumption
       DEF TimersInv, TypeOK, SlotInv, CountInv, slotVars, usecVars
<1> QED BY <1>1, <1>2

LEMMA CallTimerKeeps ==
  ASSUME TimersInv, CallTimer
  PROVE  TimersInv'
<1>1. triggered \subseteq Nat /\ triggered # {}
  BY SizeAssumption DEF CallTimer, TimersInv, TypeOK, Slots
<1>2. Min(triggered) \in triggered
  BY <1>1, MinOfNaturals
<1>3. running' \in Slots \union {-1} /\ triggered' \subseteq Slots
  BY <1>2 DEF CallTimer, TimersInv, TypeOK
<1>4. UNCHANGED <<slotVars, active, countVars, n, usecVars>>
  BY DEF CallTimer
<1> QED
  BY <1>3, <1>4 DEF TimersInv, TypeOK, SlotInv, CountInv, slotVars, countVars, usecVars

\* time_usec is a natural number.
LEMMA UsecIsNatural == TimersInv => time_ticks \in Nat /\ time_usec \in Nat
<1> SUFFICES ASSUME TimersInv PROVE time_ticks \in Nat /\ time_usec \in Nat
  OBVIOUS
<1>1. time_ticks \in Nat
  BY SizeAssumption DEF TimersInv, TypeOK, CountInv, time_ticks
<1> QED BY <1>1, SizeAssumption DEF time_usec

LEMMA TimeUsecKeeps ==
  ASSUME TimersInv, TimeUsecSequential
  PROVE  TimersInv'
<1>1. time_usec \in Nat
  BY UsecIsNatural
<1>2. lastTimeUsec' \in Nat /\ usecSinceLast' \in Nat /\ claimed' \in Nat
  BY <1>1 DEF TimeUsecSequential, TimersInv, TypeOK
<1>3. UNCHANGED <<slotVars, active, countVars, loopVars>>
  BY DEF TimeUsecSequential
<1> QED
  BY <1>2, <1>3 DEF TimersInv, TypeOK, SlotInv, CountInv, slotVars, countVars, loopVars

-----------------------------------------------------------------------------
(* What the operations do to the clock. *)

LEMMA RegisterKeepsTime ==
  ASSUME TimersInv, NEW h \in Handlers, NEW t \in Ticks,
         NEW cont \in BOOLEAN, NEW act \in BOOLEAN,
         RegisterTimer(h, t, cont, act)
  PROVE  time_ticks' = time_ticks
<1>1. Sane(t) \in Nat /\ Sane(t) >= 1
  BY TicksAssumption DEF Sane
<1>2. ticksTotal' = ticksTotal
  BY DEF RegisterTimer
<1>3. currCountdownPeriod' - currCountdown' = currCountdownPeriod - currCountdown
  <2>1. CASE act
    BY <2>1, <1>1, SkewKeepsTime DEF RegisterTimer
  <2>2. CASE ~act
    BY <2>2 DEF RegisterTimer
  <2> QED BY <2>1, <2>2
<1> QED BY <1>2, <1>3 DEF time_ticks

LEMMA ActivateKeepsTime ==
  ASSUME TimersInv, NEW i \in Slots, NEW t \in Ticks \union {0},
         NEW cont \in BOOLEAN, ActivateTimer(i, t, cont)
  PROVE  time_ticks' = time_ticks
<1> DEFINE ticks == Sane(IF t = 0 THEN period[i] ELSE Sane(t))
<1>1. ticks \in Nat /\ ticks >= 1
  BY TicksAssumption DEF Sane, TimersInv, TypeOK
<1>2. ticksTotal' = ticksTotal /\ SkewCountdown(ticks)
  BY DEF ActivateTimer, ActivateTicks
<1> HIDE DEF ticks
<1> QED BY <1>1, <1>2, SkewKeepsTime DEF time_ticks

\* countdownEvent sets the clock to the end of the elapsed period.
LEMMA CountdownEventTime ==
  ASSUME TimersInv, CountdownEvent
  PROVE  time_ticks' = ticksTotal + currCountdownPeriod
<1>1. /\ ticksTotal' = ticksTotal + currCountdownPeriod
      /\ currCountdownPeriod' \in 1 .. Word - 1
      /\ currCountdown' = currCountdownPeriod'
  BY CountdownEventKeeps
<1>2. \A p \in Int : (ticksTotal + currCountdownPeriod) + (p - p)
                       = ticksTotal + currCountdownPeriod
  BY SizeAssumption DEF TimersInv, TypeOK
<1> QED BY <1>1, <1>2 DEF time_ticks

-----------------------------------------------------------------------------
(* The theorems. *)

LEMMA NextKeeps == TimersInv /\ [Next]_vars => TimersInv'
<1> SUFFICES ASSUME TimersInv, [Next]_vars PROVE TimersInv'
  OBVIOUS
<1>1. ASSUME NEW h \in Handlers, NEW t \in Ticks, NEW cont \in BOOLEAN,
             NEW act \in BOOLEAN, RegisterTimer(h, t, cont, act)
      PROVE  TimersInv'
  BY <1>1, RegisterKeeps
<1>2. ASSUME NEW i \in Slots, NEW t \in Ticks \union {0}, NEW cont \in BOOLEAN,
             ActivateTimer(i, t, cont)
      PROVE  TimersInv'
  BY <1>2, ActivateKeeps
<1>3. ASSUME NEW i \in Slots, DeactivateTimer(i)
      PROVE  TimersInv'
  BY <1>3, DeactivateKeeps
<1>4. ASSUME NEW i \in Slots, UnregisterTimer(i)
      PROVE  TimersInv'
  BY <1>4, UnregisterKeeps
<1>5. CASE TimeUsecSequential
  BY <1>5, TimeUsecKeeps
<1>6. CASE Tick1
  BY <1>6, Tick1Keeps
<1>7. ASSUME NEW k \in 1 .. MaxTickn, Tickn(k)
      PROVE  TimersInv'
  <2>1. k \in Nat
    BY SizeAssumption
  <2> QED BY <1>7, <2>1, TicknLoopKeeps DEF Tickn
<1>8. CASE TicknResume
  <2>1. n \in Nat
    BY DEF TimersInv, TypeOK
  <2> QED BY <1>8, <2>1, TicknLoopKeeps DEF TicknResume
<1>9. CASE CallTimer
  BY <1>9, CallTimerKeeps
<1>10. CASE CallbackReturn
  BY <1>10 DEF CallbackReturn, TimersInv, TypeOK, SlotInv, CountInv, slotVars,
               countVars, usecVars
<1>11. CASE UNCHANGED vars
  BY <1>11 DEF vars, TimersInv, TypeOK, SlotInv, CountInv, slotVars, countVars,
               loopVars, usecVars
<1> QED BY <1>1, <1>2, <1>3, <1>4, <1>5, <1>6, <1>7, <1>8, <1>9, <1>10, <1>11
        DEF Next

\* The inductive invariant holds in every reachable state of the framework.
THEOREM TimersInvariant == Spec => []TimersInv
BY InitEstablishes, NextKeeps, PTL DEF Spec

\* The variables keep their types; in particular the countdown always fits
\* in 32 bits.
THEOREM TypeCorrect == Spec => []TypeOK
<1>1. TimersInv => TypeOK
  BY DEF TimersInv
<1> QED BY <1>1, TimersInvariant, PTL

\* No active timer is ever passed by the clock or left out of the scan: the
\* BX_TIMER_DEBUG panic of countdownEvent is unreachable.
THEOREM NeverMissed == Spec => []NoTimerMissed
<1>1. TimersInv => NoTimerMissed
  BY SizeAssumption
     DEF TimersInv, TypeOK, SlotInv, CountInv, NoTimerMissed, time_ticks, Slots
<1> QED BY <1>1, TimersInvariant, PTL

\* The countdown is positive and within its period in every state.
THEOREM CountdownSafe == Spec => []CountdownInRange
<1>1. TimersInv => CountdownInRange
  BY DEF TimersInv, CountInv, CountdownInRange
<1> QED BY <1>1, TimersInvariant, PTL

\* One turn of the loop of tickn moves the clock by what it takes off k.
LEMMA LoopIsExact ==
  ASSUME TimersInv, NEW k \in Nat, TicknLoop(k)
  PROVE  time_ticks' + n' = time_ticks + k
<1>1. CASE k >= currCountdown
  <2>1. CountdownEvent /\ n' = k - currCountdown
    BY <1>1 DEF TicknLoop
  <2>2. time_ticks' = ticksTotal + currCountdownPeriod
    BY <2>1, CountdownEventTime
  <2> QED BY <2>1, <2>2, SizeAssumption DEF TimersInv, TypeOK, time_ticks
<1>2. CASE k < currCountdown
  <2>1. /\ currCountdown' = currCountdown - k /\ n' = 0
        /\ UNCHANGED <<currCountdownPeriod, ticksTotal>>
    BY <1>2, SizeAssumption DEF TicknLoop, TimersInv, TypeOK
  <2> QED BY <2>1, SizeAssumption DEF TimersInv, TypeOK, time_ticks
<1> QED BY <1>1, <1>2, SizeAssumption DEF TimersInv, TypeOK

\* tickn(k) advances the clock by exactly k, across all the events and
\* callbacks that interrupt it.
THEOREM TicknIsExact == Spec => TicknExact
<1> DEFINE Exact == /\ n > 0 => time_ticks' + n' = time_ticks + n
                    /\ \A k \in 1 .. MaxTickn : Tickn(k) => time_ticks' + n' = time_ticks + k
<1>1. ASSUME TimersInv, [Next]_vars, n > 0
      PROVE  time_ticks' + n' = time_ticks + n
  <2>0. ~ Idle
    BY <1>1 DEF Idle
  <2>1. ASSUME NEW h \in Handlers, NEW t \in Ticks, NEW cont \in BOOLEAN,
               NEW act \in BOOLEAN, RegisterTimer(h, t, cont, act)
        PROVE  time_ticks' + n' = time_ticks + n
    BY <1>1, <2>1, RegisterKeepsTime DEF RegisterTimer, loopVars
  <2>2. ASSUME NEW i \in Slots, NEW t \in Ticks \union {0}, NEW cont \in BOOLEAN,
               ActivateTimer(i, t, cont)
        PROVE  time_ticks' + n' = time_ticks + n
    BY <1>1, <2>2, ActivateKeepsTime DEF ActivateTimer, ActivateTicks, loopVars
  <2>3. ASSUME UNCHANGED <<countVars, n>>
        PROVE  time_ticks' + n' = time_ticks + n
    BY <2>3 DEF countVars, time_ticks
  <2>4. CASE TicknResume
    BY <1>1, <2>4, LoopIsExact DEF TicknResume, TimersInv, TypeOK
  <2> QED
    BY <1>1, <2>0, <2>1, <2>2, <2>3, <2>4
       DEF Next, Tick1, Tickn, DeactivateTimer, UnregisterTimer, TimeUsecSequential,
           CallTimer, CallbackReturn, loopVars, vars
<1>2. ASSUME TimersInv, NEW k \in 1 .. MaxTickn, Tickn(k)
      PROVE  time_ticks' + n' = time_ticks + k
  BY <1>2, LoopIsExact, SizeAssumption DEF Tickn
<1>3. TimersInv /\ [Next]_vars => [Exact]_vars
  BY <1>1, <1>2
<1> QED BY <1>3, TimersInvariant, PTL DEF Spec, TicknExact

-----------------------------------------------------------------------------
(* PcTimers implements TimerService. *)

LEMMA InitRefines == Init => TS!Start
<1> SUFFICES ASSUME Init PROVE TS!Start
  OBVIOUS
<1>1. time_ticks = 0
  BY SizeAssumption DEF Init, time_ticks, NullTimerInterval
<1>2. deadline \in [Slots -> Int] /\ every \in [Slots -> Nat]
  BY SizeAssumption DEF Init, deadline, every, NullTimerInterval
<1>3. \A i \in Slots : deadline[i] = -1 \/ deadline[i] > 0
  BY SizeAssumption DEF Init, deadline, NullTimerInterval
<1> QED BY <1>1, <1>2, <1>3 DEF Init, TS!Start

\* An operation on slot i that keeps the clock and the calls, leaves the
\* other slots alone and leaves slot i disarmed, or armed for the future, is
\* a Set(i) of the service.
LEMMA SetRefines ==
  ASSUME NEW i \in Slots,
         time_ticks' = time_ticks, triggered' = triggered,
         deadline' = [deadline EXCEPT ![i] = deadline'[i]],
         every' = [every EXCEPT ![i] = every'[i]],
         \/ deadline'[i] = -1 /\ every'[i] = 0
         \/ deadline'[i] > time_ticks /\ every'[i] \in {0, deadline'[i] - time_ticks}
  PROVE  TS!Step
BY DEF TS!Step, TS!Set

LEMMA RegisterRefines ==
  ASSUME TimersInv, NEW h \in Handlers, NEW t \in Ticks,
         NEW cont \in BOOLEAN, NEW act \in BOOLEAN,
         RegisterTimer(h, t, cont, act)
  PROVE  TS!Step
<1> DEFINE i == FreeSlot
           ticks == Sane(t)
<1>1. i \in Slots /\ i \notin active
  BY FreeSlotIsFree DEF RegisterTimer
<1>2. ticks \in Nat /\ ticks >= 1
  BY TicksAssumption DEF Sane
<1>3. time_ticks' = time_ticks /\ time_ticks \in Nat
  BY RegisterKeepsTime, UsecIsNatural
<1>4. /\ period' = [period EXCEPT ![i] = ticks]
      /\ timeToFire' = [timeToFire EXCEPT ![i] = time_ticks + ticks]
      /\ active' = IF act THEN active \union {i} ELSE active \ {i}
      /\ continuous' = IF cont THEN continuous \union {i} ELSE continuous \ {i}
      /\ triggered' = triggered
  BY DEF RegisterTimer, loopVars
<1> HIDE DEF i, ticks
<1>5. period \in [Slots -> Nat] /\ timeToFire \in [Slots -> Nat]
  BY DEF TimersInv, TypeOK
<1>6. deadline' = [deadline EXCEPT ![i] = deadline'[i]]
  BY <1>1, <1>4, <1>5 DEF deadline
<1>7. every' = [every EXCEPT ![i] = every'[i]]
  BY <1>1, <1>4, <1>5 DEF every
<1>8. CASE act
  <2>1. deadline'[i] = time_ticks + ticks /\ every'[i] \in {0, ticks}
    BY <1>1, <1>4, <1>5, <1>8 DEF deadline, every
  <2>2. (time_ticks + ticks) - time_ticks = ticks /\ time_ticks + ticks > time_ticks
    BY <1>2, <1>3
  <2> QED BY <2>1, <2>2, <1>1, <1>3, <1>4, <1>6, <1>7, SetRefines
<1>9. CASE ~act
  <2>1. deadline'[i] = -1 /\ every'[i] = 0
    BY <1>1, <1>4, <1>5, <1>9 DEF deadline, every
  <2> QED BY <2>1, <1>1, <1>3, <1>4, <1>6, <1>7, SetRefines
<1> QED BY <1>8, <1>9

LEMMA ActivateRefines ==
  ASSUME TimersInv, NEW i \in Slots, NEW t \in Ticks \union {0},
         NEW cont \in BOOLEAN, ActivateTimer(i, t, cont)
  PROVE  TS!Step
<1> DEFINE ticks == Sane(IF t = 0 THEN period[i] ELSE Sane(t))
<1>1. ticks \in Nat /\ ticks >= 1
  BY TicksAssumption DEF Sane, TimersInv, TypeOK
<1>2. time_ticks' = time_ticks /\ time_ticks \in Nat
  BY ActivateKeepsTime, UsecIsNatural
<1>3. /\ period' = [period EXCEPT ![i] = ticks]
      /\ timeToFire' = [timeToFire EXCEPT ![i] = time_ticks + ticks]
      /\ active' = active \union {i}
      /\ continuous' = IF cont THEN continuous \union {i} ELSE continuous \ {i}
      /\ triggered' = triggered
  BY DEF ActivateTimer, ActivateTicks, loopVars
<1> HIDE DEF ticks
<1>4. period \in [Slots -> Nat] /\ timeToFire \in [Slots -> Nat]
  BY DEF TimersInv, TypeOK
<1>5. deadline' = [deadline EXCEPT ![i] = deadline'[i]]
  BY <1>3, <1>4 DEF deadline
<1>6. every' = [every EXCEPT ![i] = every'[i]]
  BY <1>3, <1>4 DEF every
<1>7. deadline'[i] = time_ticks + ticks /\ every'[i] \in {0, ticks}
  BY <1>3, <1>4 DEF deadline, every
<1>8. (time_ticks + ticks) - time_ticks = ticks /\ time_ticks + ticks > time_ticks
  BY <1>1, <1>2
<1> QED BY <1>2, <1>3, <1>5, <1>6, <1>7, <1>8, SetRefines

LEMMA DeactivateRefines ==
  ASSUME TimersInv, NEW i \in Slots, DeactivateTimer(i)
  PROVE  TS!Step
<1>1. time_ticks' = time_ticks /\ triggered' = triggered
  BY DEF DeactivateTimer, countVars, loopVars, time_ticks
<1>2. deadline' = [deadline EXCEPT ![i] = deadline'[i]]
  BY DEF DeactivateTimer, deadline, slotVars
<1>3. every' = [every EXCEPT ![i] = every'[i]]
  BY DEF DeactivateTimer, every, slotVars
<1>4. deadline'[i] = -1 /\ every'[i] = 0
  BY DEF DeactivateTimer, deadline, every, slotVars
<1> QED BY <1>1, <1>2, <1>3, <1>4, SetRefines

LEMMA UnregisterRefines ==
  ASSUME TimersInv, NEW i \in Slots, UnregisterTimer(i)
  PROVE  TS!Step
<1>1. time_ticks' = time_ticks /\ triggered' = triggered
  BY DEF UnregisterTimer, countVars, loopVars, time_ticks
<1>2. deadline' = [deadline EXCEPT ![i] = deadline'[i]]
  BY DEF UnregisterTimer, deadline, TimersInv, TypeOK
<1>3. every' = [every EXCEPT ![i] = every'[i]]
  BY DEF UnregisterTimer, every, TimersInv, TypeOK
<1>4. deadline'[i] = -1 /\ every'[i] = 0
  BY DEF UnregisterTimer, deadline, every
<1> QED BY <1>1, <1>2, <1>3, <1>4, SetRefines

\* A countdown event is one Advance of the service to the end of the
\* countdown; the slots due there are exactly the ones triggered.
LEMMA CountdownEventRefines ==
  ASSUME TimersInv, CountdownEvent, triggered = {}
  PROVE  TS!Advance
<1> DEFINE end == ticksTotal + currCountdownPeriod
<1>1. time_ticks' = end
  BY CountdownEventTime
<1>2. end > time_ticks /\ end \in Nat
  BY SizeAssumption DEF TimersInv, TypeOK, CountInv, time_ticks
<1>3. \A i \in Slots : deadline[i] = -1 \/ end <= deadline[i]
  BY SizeAssumption DEF TimersInv, TypeOK, CountInv, deadline
<1>4. /\ triggered' = {i \in 0 .. numTimers - 1 : i \in active /\ timeToFire[i] = end}
      /\ active' = active \ (triggered' \ continuous)
      /\ timeToFire' = [i \in Slots |-> IF i \in triggered' \intersect continuous
                                        THEN timeToFire[i] + period[i]
                                        ELSE timeToFire[i]]
      /\ UNCHANGED <<continuous, period>>
  BY DEF CountdownEvent
<1> HIDE DEF end
<1>5. active \subseteq 0 .. numTimers - 1 /\ active \subseteq Slots
  BY DEF TimersInv, TypeOK, SlotInv
<1>6. triggered' = {i \in Slots : deadline[i] = end}
  <2>1. end # -1
    BY <1>2
  <2>2. \A i \in Slots : deadline[i] = end <=> i \in active /\ timeToFire[i] = end
    BY <2>1 DEF deadline
  <2> QED BY <2>2, <1>4, <1>5
<1>7. \A i \in Slots : i \in active /\ i \in continuous => every[i] > 0
  BY DEF TimersInv, TypeOK, SlotInv, every
<1>8. deadline' = [i \in Slots |-> IF i \notin triggered' THEN deadline[i]
                                   ELSE IF every[i] > 0 THEN end + every[i] ELSE -1]
  <2>1. ASSUME NEW i \in Slots
        PROVE  deadline'[i] = IF i \notin triggered' THEN deadline[i]
                              ELSE IF every[i] > 0 THEN end + every[i] ELSE -1
    <3>1. CASE i \notin triggered'
      BY <3>1, <1>4 DEF deadline
    <3>2. CASE i \in triggered' /\ i \in continuous
      <4>1. i \in active /\ timeToFire[i] = end
        BY <3>2, <1>4
      <4>2. every[i] = period[i] /\ every[i] > 0
        BY <3>2, <4>1, <1>7 DEF every
      <4>3. timeToFire'[i] = end + period[i] /\ i \in active'
        BY <3>2, <4>1, <1>4
      <4>4. deadline'[i] = timeToFire'[i]
        BY <4>3 DEF deadline
      <4> QED BY <3>2, <4>2, <4>3, <4>4
    <3>3. CASE i \in triggered' /\ i \notin continuous
      BY <3>3, <1>4 DEF deadline, every
    <3> QED BY <3>1, <3>2, <3>3
  <2> QED BY <2>1 DEF deadline
<1>9. every' = every
  <2>1. ASSUME NEW i \in Slots
        PROVE  i \in active' /\ i \in continuous <=> i \in active /\ i \in continuous
    BY <1>4
  <2> QED BY <2>1, <1>4 DEF every
<1> QED BY <1>1, <1>2, <1>3, <1>6, <1>8, <1>9 DEF TS!Advance

\* Ticks that end within the countdown advance the service without reaching
\* a deadline.
LEMMA QuietTickRefines ==
  ASSUME TimersInv, triggered = {}, NEW k \in Nat, 1 <= k, k < currCountdown,
         currCountdown' = currCountdown - k,
         UNCHANGED <<slotVars, active, currCountdownPeriod, ticksTotal, triggered>>
  PROVE  TS!Advance
<1>1. time_ticks' = time_ticks + k /\ time_ticks' > time_ticks
  BY SizeAssumption DEF TimersInv, TypeOK, time_ticks
<1>2. \A i \in Slots : deadline[i] = -1 \/ time_ticks + k < deadline[i]
  BY SizeAssumption DEF TimersInv, TypeOK, CountInv, deadline, time_ticks
<1>3. deadline' = deadline /\ every' = every
  BY DEF deadline, every, slotVars
<1>4. time_ticks + k \in Nat /\ \A i \in Slots : deadline[i] \in Int
  BY UsecIsNatural DEF TimersInv, TypeOK, deadline
<1>5. triggered' = {i \in Slots : deadline[i] = time_ticks'}
  BY <1>1, <1>2, <1>4
<1>6. \A i \in Slots : deadline[i] = -1 \/ time_ticks' <= deadline[i]
  BY <1>1, <1>2, <1>4
<1>7. deadline' = [i \in Slots |-> IF i \notin triggered' THEN deadline[i]
                                   ELSE IF every[i] > 0 THEN time_ticks' + every[i]
                                   ELSE -1]
  BY <1>3 DEF deadline
<1> QED BY <1>1, <1>3, <1>5, <1>6, <1>7 DEF TS!Advance

LEMMA TicknLoopRefines ==
  ASSUME TimersInv, NEW k \in Nat, 1 <= k, triggered = {}, TicknLoop(k)
  PROVE  TS!Step
<1>1. CASE k >= currCountdown
  BY <1>1, CountdownEventRefines DEF TicknLoop, TS!Step
<1>2. CASE k < currCountdown
  <2>1. /\ currCountdown' = currCountdown - k
        /\ UNCHANGED <<slotVars, active, currCountdownPeriod, ticksTotal, triggered>>
    BY <1>2, SizeAssumption DEF TicknLoop, TimersInv, TypeOK
  <2> QED BY <1>2, <2>1, QuietTickRefines DEF TS!Step
<1> QED BY <1>1, <1>2, SizeAssumption DEF TimersInv, TypeOK

LEMMA StepRefines == TimersInv /\ [Next]_vars => [TS!Step]_(TS!tsVars)
<1> SUFFICES ASSUME TimersInv, [Next]_vars PROVE [TS!Step]_(TS!tsVars)
  OBVIOUS
<1>1. ASSUME NEW h \in Handlers, NEW t \in Ticks, NEW cont \in BOOLEAN,
             NEW act \in BOOLEAN, RegisterTimer(h, t, cont, act)
      PROVE  TS!Step
  BY <1>1, RegisterRefines
<1>2. ASSUME NEW i \in Slots, NEW t \in Ticks \union {0}, NEW cont \in BOOLEAN,
             ActivateTimer(i, t, cont)
      PROVE  TS!Step
  BY <1>2, ActivateRefines
<1>3. ASSUME NEW i \in Slots, DeactivateTimer(i)
      PROVE  TS!Step
  BY <1>3, DeactivateRefines
<1>4. ASSUME NEW i \in Slots, UnregisterTimer(i)
      PROVE  TS!Step
  BY <1>4, UnregisterRefines
<1>5. ASSUME UNCHANGED <<slotVars, active, countVars, triggered>>
      PROVE  UNCHANGED TS!tsVars
  BY <1>5 DEF TS!tsVars, slotVars, countVars, time_ticks, deadline, every
<1>6. CASE Tick1
  <2>1. CASE currCountdown = 1
    BY <1>6, <2>1, CountdownEventRefines DEF Tick1, Idle, TS!Step
  <2>2. CASE currCountdown # 1
    <3>1. 1 < currCountdown
      BY <2>2, SizeAssumption DEF TimersInv, TypeOK, CountInv
    <3> QED BY <1>6, <2>2, <3>1, QuietTickRefines DEF Tick1, Idle, TS!Step
  <2> QED BY <2>1, <2>2
<1>7. ASSUME NEW k \in 1 .. MaxTickn, Tickn(k)
      PROVE  TS!Step
  <2>1. k \in Nat /\ 1 <= k
    BY SizeAssumption
  <2> QED BY <1>7, <2>1, TicknLoopRefines DEF Tickn, Idle
<1>8. CASE TicknResume
  <2>1. n \in Nat /\ (n > 0 => 1 <= n)
    BY DEF TimersInv, TypeOK
  <2> QED BY <1>8, <2>1, TicknLoopRefines DEF TicknResume
<1>9. CASE CallTimer
  <2>1. time_ticks' = time_ticks /\ deadline' = deadline /\ every' = every
    BY <1>9 DEF CallTimer, slotVars, countVars, time_ticks, deadline, every
  <2> QED BY <1>9, <2>1 DEF CallTimer, TS!Step, TS!Call, Min, TS!Min
<1>10. CASE TimeUsecSequential
  BY <1>10, <1>5 DEF TimeUsecSequential, loopVars
<1>11. CASE CallbackReturn
  BY <1>11, <1>5 DEF CallbackReturn
<1>12. CASE UNCHANGED vars
  BY <1>12, <1>5 DEF vars, loopVars
<1> QED BY <1>1, <1>2, <1>3, <1>4, <1>6, <1>7, <1>8, <1>9, <1>10, <1>11, <1>12
        DEF Next

\* The countdown implements the timer service: the clock never passes a
\* deadline, every timer is called at its deadline, and before the clock
\* moves again.
THEOREM Refinement == Spec => ImplementsTimerService
<1> QED BY InitRefines, StepRefines, TimersInvariant, PTL
        DEF Spec, ImplementsTimerService, TS!Service

-----------------------------------------------------------------------------
(* Registration and sequential time. *)

\* A slot keeps its callback as long as it is registered: a registration
\* never takes over the slot of another device.
THEOREM HandlersAreKept == Spec => HandlerKept
<1>1. TimersInv /\ [Next]_vars
        => [\A i \in inUse \intersect inUse' : funct'[i] = funct[i]]_vars
  <2> SUFFICES ASSUME TimersInv, [Next]_vars, NEW i \in inUse \intersect inUse'
               PROVE  funct'[i] = funct[i]
    OBVIOUS
  <2>1. funct \in [Slots -> Handlers \union {NullTimer, NoFunct}] /\ i \in Slots
    BY DEF TimersInv, TypeOK
  <2>2. ASSUME NEW h \in Handlers, NEW t \in Ticks, NEW cont \in BOOLEAN,
               NEW act \in BOOLEAN, RegisterTimer(h, t, cont, act)
        PROVE  funct'[i] = funct[i]
    <3>1. FreeSlot \notin inUse
      BY <2>2, FreeSlotIsFree DEF RegisterTimer
    <3> QED BY <2>1, <2>2, <3>1 DEF RegisterTimer
  <2>3. ASSUME NEW j \in Slots, UnregisterTimer(j)
        PROVE  funct'[i] = funct[i]
    BY <2>1, <2>3 DEF UnregisterTimer
  <2>4. ASSUME funct' = funct
        PROVE  funct'[i] = funct[i]
    BY <2>4
  <2> QED
    BY <2>2, <2>3, <2>4
       DEF Next, ActivateTimer, ActivateTicks, DeactivateTimer, TimeUsecSequential,
           Tick1, Tickn, TicknResume, TicknLoop, CountdownEvent, CallTimer,
           CallbackReturn, slotVars, vars
<1> QED BY <1>1, TimersInvariant, PTL DEF Spec, HandlerKept

\* Integer division is monotonic.
LEMMA DivMonotonic ==
  ASSUME NEW a \in Nat, NEW b \in Nat, NEW k \in Nat \ {0}, a <= b
  PROVE  a \div k <= b \div k
<1> DEFINE p == a \div k
           q == b \div k
<1>1. p \in Nat /\ k * p <= a
  OBVIOUS
<1>2. q \in Nat /\ b < k * (q + 1)
  OBVIOUS
<1> HIDE DEF p, q
<1>3. ASSUME p > q PROVE FALSE
  <2>1. p >= q + 1
    BY <1>1, <1>2, <1>3
  <2>2. k * p >= k * (q + 1)
    BY <1>1, <1>2, <2>1
  <2> QED BY <1>1, <1>2, <2>2
<1>4. p <= q
  BY <1>1, <1>2, <1>3
<1> QED BY <1>4 DEF p, q

\* No step moves the clock backwards.
LEMMA ClockMonotonic ==
  ASSUME TimersInv, TimersInv', [Next]_vars
  PROVE  time_usec <= time_usec'
<1>0. TimersInv' => (time_ticks \in Nat /\ time_usec \in Nat)'
  BY UsecIsNatural, PTL
<1>1. time_ticks \in Nat /\ time_ticks' \in Nat
  BY <1>0, UsecIsNatural
<1>2. [TS!Step]_(TS!tsVars)
  BY StepRefines
<1>3. time_ticks' > time_ticks \/ time_ticks' = time_ticks
  BY <1>2 DEF TS!Step, TS!Advance, TS!Call, TS!Set, TS!tsVars
<1>4. time_ticks <= time_ticks'
  BY <1>1, <1>3
<1> QED BY <1>1, <1>4, DivMonotonic, SizeAssumption DEF time_usec

LEMMA ClaimsHold == Spec => []ClaimInv
<1>1. Init => ClaimInv
  <2>1. ASSUME Init PROVE time_ticks = 0 /\ TimersInv
    BY <2>1, InitEstablishes, SizeAssumption DEF Init, time_ticks, NullTimerInterval
  <2>2. ASSUME Init PROVE time_usec \in Nat
    BY <2>1, <2>2, UsecIsNatural
  <2> QED BY <2>2 DEF Init, ClaimInv
<1>2. TimersInv /\ TimersInv' /\ ClaimInv /\ [Next]_vars => ClaimInv'
  <2> SUFFICES ASSUME TimersInv, TimersInv', ClaimInv, [Next]_vars
               PROVE  ClaimInv'
    OBVIOUS
  <2>0. TimersInv' => (time_ticks \in Nat /\ time_usec \in Nat)'
    BY UsecIsNatural, PTL
  <2>1. time_usec <= time_usec' /\ time_usec \in Nat /\ time_usec' \in Nat
    BY <2>0, ClockMonotonic, UsecIsNatural
  <2>2. CASE TimeUsecSequential
    <3>1. lastTimeUsec' = time_usec /\ claimed' = time_usec + usecSinceLast'
      BY <2>2 DEF TimeUsecSequential
    <3> QED BY <2>1, <3>1 DEF ClaimInv
  <2>3. CASE UNCHANGED usecVars
    <3>1. \A m \in Nat : time_usec <= m => lastTimeUsec <= m
      BY <2>1 DEF ClaimInv, TimersInv, TypeOK
    <3> QED BY <2>1, <2>3, <3>1 DEF ClaimInv, usecVars
  <2> QED
    BY <2>2, <2>3
       DEF Next, RegisterTimer, ActivateTimer, ActivateTicks, DeactivateTimer,
           UnregisterTimer, Tick1, Tickn, TicknResume, TicknLoop, CallTimer,
           CallbackReturn, vars
<1> QED BY <1>1, <1>2, TimersInvariant, PTL DEF Spec

\* time_usec_sequential never returns the same microsecond twice.
THEOREM SequentialTimeIncreases == Spec => SequentialTime
<1>1. TimersInv /\ ClaimInv /\ [Next]_vars
        => [TimeUsecSequential => claimed' > claimed]_vars
  <2> SUFFICES ASSUME TimersInv, ClaimInv, TimeUsecSequential
               PROVE  claimed' > claimed
    OBVIOUS
  <2>1. time_usec \in Nat
    BY UsecIsNatural
  <2> QED BY <2>1 DEF TimersInv, TypeOK, ClaimInv, TimeUsecSequential
<1> QED BY <1>1, ClaimsHold, TimersInvariant, PTL DEF Spec, SequentialTime
=============================================================================
