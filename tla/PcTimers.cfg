SPECIFICATION FairSpec
CONSTANTS
  MaxTimers = 3
  Word = 3
  Ticks = {0, 4}
  Handlers = {h1, h2}
  NullTimer = NullTimer
  NoFunct = NoFunct
  MaxTime = 4
  MaxTickn = 4
  TicksPerUsec = 2
  MaxClaims = 3
INVARIANTS TypeOK NoTimerMissed CountdownInRange
PROPERTIES TicknExact HandlerKept ImplementsTimerService TicknReturns SequentialTime
