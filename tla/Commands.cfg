SPECIFICATION SpineSpec
CONSTANTS
  None = None
  a1 = a1
  a2 = a2
  a3 = a3
  a4 = a4
  a5 = a5
  a6 = a6
  plain = plain
  bound = bound
  r1 = r1
  ActionId = {a1, a2}
  Kind = {"run", "resume", "stop", "abandon"}
  Payload = {plain, bound}
  PayloadRun <- MCPayloadRun
  RunId = {r1}
  Worker = {w1}
  Proc <- MCProc
  Client = {c1, c2}
  Fault = {"leave", "crash", "unknown", "reject"}
  Outcome = {"active"}
  MaxHistory = 4
  MaxGeneration = 2
  MaxResumes = 0
INVARIANTS
  OneSession
  SpineTypeOK
  OneStrayStep
  StopEndsWorkers
PROPERTIES
  WritesAdvance
  ImplementsOwnership
SYMMETRY ClientsAndIdentities
CHECK_DEADLOCK FALSE
