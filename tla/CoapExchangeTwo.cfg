\* A request that is confirmable or not, and one of an unknown method, with
\* message ids that the server's counter runs into; closing.
CONSTANTS
  r1 = r1
  r2 = r2
  r3 = r3
  NoReq = NoReq
  Req = {r1, r2, r3}
  ConReq = {r1}
  ReqMid <- MCManyMids
  MidSpace = 4
  StartMids = {2}
  OddReq = {r3}
  StrayIds = {}
  MaxRetransmit = 2
  EmptyTypes = {"ACK", "RST"}
  CanGarble = TRUE
  CanClose = TRUE
  MaxRx = 3
  MaxWorkers = 3
SPECIFICATION Spec
PROPERTIES
  KeepsPromise
