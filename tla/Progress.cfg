SPECIFICATION FairSpec
CONSTANTS
  None = None
  a1 = a1
  a2 = a2
  a3 = a3
  a4 = a4
  a5 = a5
  a6 = a6
  plain = plain
  bound = bound
  r1 = r1
  ActionId = {a1, a2}
  Kind = {"run", "stop"}
  Payload = {plain, bound}
  PayloadRun <- MCPayloadRun
  RunId = {r1}
  Worker = {w1}
  Proc <- MCProc
  Client = {c1}
  Fault = {"leave", "reject", "crash"}
  Outcome = {"active", "waiting"}
  MaxHistory = 4
  MaxGeneration = 2
  MaxResumes = 1
INVARIANTS
  ResumesServed
PROPERTIES
  WaitsEnd
  FencedEnds
CHECK_DEADLOCK FALSE
