\* Two services come up while packets are answered, and the responder is stopped.
SPECIFICATION FairSpec
CONSTANTS
  Service = {"s1", "s2"}
  HasTxt = {"s1"}
  Host = "h"
  DnsSd = "d"
  SvcType <- MCSvcType
  Packets <- MCPackets
  MaxPackets = 3
INVARIANTS TypeOK AnswersTheQuestion UsableAtOnce GoodbyeToAll FreedWhenIdle
PROPERTIES StopReturns
CHECK_DEADLOCK FALSE
