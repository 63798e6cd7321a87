SPECIFICATION FairSpec
CONSTANTS
  None = None
  g1 = g1
  f1 = f1
  Slot = {}
  Fact = {f1}
  Milestone = {f1}
  Resumers <- NoResume
  MaxGeneration = 2
  MaxAttempts = 2
  MaxPending = 1
  MaxChanges = 2
  MaxFaults = 1
  Faults = {"kill", "read", "write", "thread", "timeout"}
INVARIANTS
  TypeOK
PROPERTIES
  ProgressNotReplayed
  OutboxDrains
  SendersRecover
CHECK_DEADLOCK FALSE
