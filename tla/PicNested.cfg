SPECIFICATION FairSpec
CONSTANTS
  LineCount = 4
  Wired <- MCWired
  Masks <- MCMasks
  Levels <- MCLevels
  Commands <- MCNested
INVARIANTS TypeOK PendingSignalled CascadeNotLost NestedPriority LinesCoherent
PROPERTIES SlaveServed
