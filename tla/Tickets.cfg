SPECIFICATION Spec
CONSTANTS
  Ticket = {t1, t2}
  Observer = Observer
  None = None
  t1 = t1
  t2 = t2
  Capacity = 1
  MaxRounds = 1
  MaxPauses = 2
  MaxResumes = 1
  MaxRestarts = 1
  Faults = {"fail", "unknown", "crash", "stop"}
INVARIANTS
  TypeOK
  WithinCapacity
  PausedIsQuiet
  LaneCommitsAccepted
  OneDriverPerTicket
PROPERTIES
  SeatOutlivesWrite
SYMMETRY Tickets
CHECK_DEADLOCK FALSE
