SPECIFICATION LoopSpec
CONSTANTS
  HalfWindow = 3
  MaxFast = 11
  Variants = {"hashing", "fastpass", "merged_fastpass"}
  Sizes <- MCSizes
INVARIANTS LoopTypeOK ExecutedInOrder OverrunExactly SplitInOrder
CHECK_DEADLOCK FALSE
