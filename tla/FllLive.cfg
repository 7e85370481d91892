SPECIFICATION FairSpec
CONSTANTS
  WndSize = 3
  MaxPktBurst = 2
  SenderRxBurst = 2
  ReceiverRxBurst = 2
  RxDesc = 8
  PoolSize = 3
  Repeat = 2
  MaxRestarts = 1
  MaxDataLost = 1
  MaxAckLost = 0
PROPERTIES Completes
CHECK_DEADLOCK FALSE
