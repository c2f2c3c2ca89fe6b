SPECIFICATION Spec
CONSTANTS
  Port <- MCPort
  Addr <- MCTwoHosts
  ISN <- MCISN
  OtherPort = 7000
  OtherAddr = "other"
  Lens = {1, 2}
  SeqMod = 5
  MAX_RETRY = 3
  QueueCap = 3
  MaxMsgs = 2
  MaxConns = 2
  MaxFaults = 3
INVARIANTS TypeOK Inv StreamPrefix AckedMeansDelivered NumbersAgree EndsAgree FailsOnlyAfterFault
PROPERTY ChannelSpec
CHECK_DEADLOCK FALSE
