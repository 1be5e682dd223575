SPECIFICATION FairSpec
CONSTANTS
  KbdElements = 2
  MouseBuffSize = 3
  ControllerQSize = 1
  PacketBytes = 2
  MotionLimit = 1
  Controls <- MCControls
  CommandBytes <- MCCommandBytes
  KbdCommands <- MCKbdCommands
  MouseCommands <- MCMouseCommands
  KeyBytes = {2}
INVARIANTS TypeOK NothingStuck Announced
PROPERTIES BytesOffered
