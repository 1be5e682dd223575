SPECIFICATION FairSpec
CONSTANTS
  Signals = {"NMI", "SMI", "INIT", "INTR", "LAPIC_INTR"}
  Gates = {"interrupt", "trap"}
  Traps = {"task_switch", "breakpoint"}
  Sleeps = {"HLT", "MWAIT", "MWAIT_IF"}
INVARIANTS TypeOK NoLostEvent SleepersDoNotRun MaskMirrorsIF NmiNotNested
PROPERTIES BusRequestKept NmiServed
