SPECIFICATION FairSpec
CONSTANTS
  Port <- MCPort
  Addr <- MCTwoHosts
  ISN <- MCSameISN
  OtherPort = 7000
  OtherAddr = "other"
  Lens = {1}
  SeqMod = 1000
  MAX_RETRY = 3
  QueueCap = 3
  MaxMsgs = 2
  MaxConns = 2
  MaxFaults = 2
PROPERTIES LoopsEnd SessionsComplete
CHECK_DEADLOCK FALSE
