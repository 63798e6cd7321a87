SPECIFICATION FairSpec
CONSTANTS
  Ticket = {t1, t2}
  Observer = Observer
  None = None
  t1 = t1
  t2 = t2
  Capacity = 1
  MaxRounds = 1
  MaxPauses = 1
  MaxResumes = 1
  MaxRestarts = 0
  Faults = {}
PROPERTIES
  WaitersServed
  PausesSettle
CHECK_DEADLOCK FALSE
