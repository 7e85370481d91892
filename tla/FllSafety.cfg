SPECIFICATION Spec
CONSTANTS
  WndSize = 2
  MaxPktBurst = 2
  SenderRxBurst = 2
  ReceiverRxBurst = 2
  RxDesc = 4
  PoolSize = 3
  Repeat = 3
  MaxRestarts = 1
  MaxDataLost = 1
  MaxAckLost = 1
INVARIANTS TypeOK InFlightBound WithinWindow
PROPERTIES WindowNeverRetreats WedgedUntilRestart ImplementsWindow
CHECK_DEADLOCK FALSE
