SPECIFICATION Spec
CONSTANTS
  NumCpus = 2
  Pins = {1, 2}
  Vectors = {33, 34, 50}
  Words <- MCWords
  Dests <- MCDests
  Ipis <- MCIpis
  Priorities = {0, 32}
  SeoiEnabled = TRUE
INVARIANTS TypeOK ReadyIsSignalled OneHandlerPerClass LevelFollowsLine PendingIsSent RemoteIrrEnds
