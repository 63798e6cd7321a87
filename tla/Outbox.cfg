SPECIFICATION Spec
CONSTANTS
  None = None
  g1 = g1
  f1 = f1
  Slot = {g1}
  Fact = {}
  Milestone = {}
  Resumers <- Resuming
  MaxGeneration = 1
  MaxAttempts = 1
  MaxPending = 1
  MaxChanges = 2
  MaxFaults = 1
  Faults = {"kill", "writes"}
INVARIANTS
  OneTransport
  BudgetKept
  JournalBounded
CHECK_DEADLOCK FALSE
