SPECIFICATION Spec
CONSTANTS
  LineCount = 3
  Wired <- MCWiredModes
  Masks = {{}}
  Levels = {}
  Commands <- MCCommands
INVARIANTS IntrFollowsINT CascadeCoherent NeverReenter
