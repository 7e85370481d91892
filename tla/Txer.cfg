SPECIFICATION TxerSpec
CONSTANTS
  BufSize = 2
  TxDesc = 1
  TxPool = 3
  MaxSent = 10
  WndSize = 2
  RxBurst = 3
  PoolSize = 3
  Repeat = 3
  SizeofPacket = 64
INVARIANTS TxerTypeOK Fifo PoolSuffices InPoolOrder NeverStuckOnAck
PROPERTIES FlushReturns Delivered
CHECK_DEADLOCK FALSE
