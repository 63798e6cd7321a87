SPECIFICATION SpineSpec
CONSTANTS
  None = None
  a1 = a1
  a2 = a2
  a3 = a3
  a4 = a4
  a5 = a5
  a6 = a6
  plain = plain
  bound = bound
  r1 = r1
  ActionId = {a1}
  Kind = {"run"}
  Payload = {plain}
  PayloadRun <- MCPayloadRun
  RunId = {r1}
  Worker = {}
  Proc <- MCProc
  Client = {c1, c2}
  Fault = {"crash", "loss"}
  Outcome = {"waiting"}
  MaxHistory = 4
  MaxGeneration = 3
  MaxResumes = 0
INVARIANTS
  OneDriver
SYMMETRY ClientsAndIdentities
CHECK_DEADLOCK FALSE
