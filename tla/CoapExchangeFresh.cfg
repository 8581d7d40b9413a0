\* Two confirmable requests answered separately at the same time.
CONSTANTS
  r1 = r1
  r2 = r2
  r3 = r3
  NoReq = NoReq
  Req = {r1, r2}
  ConReq = {r1, r2}
  ReqMid <- MCApartMids
  MidSpace = 8
  StartMids = {3}
  OddReq = {}
  StrayIds = {}
  MaxRetransmit = 1
  EmptyTypes = {"ACK"}
  CanGarble = FALSE
  CanClose = FALSE
  MaxRx = 2
  MaxWorkers = 2
SPECIFICATION Spec
INVARIANTS
  FreshMids
