SPECIFICATION FairSpec
CONSTANTS
  Ticket = {t1, t2}
  Observer = Observer
  None = None
  t1 = t1
  t2 = t2
  Capacity = 1
  MaxRounds = 1
  MaxPauses = 0
  MaxResumes = 0
  MaxRestarts = 1
  Faults = {"crash"}
PROPERTIES
  WaitersServed
CHECK_DEADLOCK FALSE
