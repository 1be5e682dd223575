SPECIFICATION Spec
CONSTANTS
  Signals = {"NMI"}
  Gates = {"interrupt", "trap"}
  Traps = {"task_switch", "breakpoint"}
  Sleeps = {"HLT", "MWAIT", "MWAIT_IF"}
INVARIANTS ThirdExceptionInDelivery
