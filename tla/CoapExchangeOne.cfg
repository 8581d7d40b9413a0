\* One confirmable request: three datagrams, every kind of answer; threads that
\* are scheduled, and handlers that end or do not.
CONSTANTS
  r1 = r1
  r2 = r2
  r3 = r3
  NoReq = NoReq
  Req = {r1}
  ConReq = {r1}
  ReqMid <- MCOneMid
  MidSpace = 4
  StartMids = {3}
  OddReq = {}
  StrayIds = {}
  MaxRetransmit = 2
  EmptyTypes = {"ACK", "RST", "CON", "NON"}
  CanGarble = TRUE
  CanClose = FALSE
  MaxRx = 3
  MaxWorkers = 3
SPECIFICATION FairSpec
INVARIANTS
  TypeOK
  LockDiscipline
  AtMostTwoExecutions
  SeparateOnlyAfterAck
  RetransmissionIsSound
PROPERTIES
  EventuallyAcked
  ListenerReturns
  EveryRequestSettles
