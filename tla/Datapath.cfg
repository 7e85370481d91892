SPECIFICATION Spec
CONSTANTS
  Pipelines <- MCPipelines
  RingSize = 8
  RxBurst = 3
  RecordTimes = {0, 1}
  MaxPkts = 11
INVARIANTS TypeOK SlotsConserved QueueLengthHeld InOrder SlotsSuffice DrainedOnExit
CHECK_DEADLOCK FALSE
