SPECIFICATION Spec
CONSTANTS
  None = None
  a1 = a1
  a2 = a2
  a3 = a3
  plain = plain
  bound = bound
  r1 = r1
  r2 = r2
  ActionId = {a1, a2, a3}
  Kind = {"run", "stop", "approve"}
  Payload = {plain, bound}
  PayloadRun <- MCPayloadRun
  RunId = {r1, r2}
  Worker = {}
  Proc = {x1}
  Outcome = {"completed"}
  MaxHistory = 1
  MaxGeneration = 3
INVARIANTS
  TypeOK
  OwnershipInv
PROPERTIES
  ReservationsFresh
CONSTRAINT ApproveLast
SYMMETRY Identities
CHECK_DEADLOCK FALSE
