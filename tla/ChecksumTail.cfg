SPECIFICATION Spec
CONSTANTS
  Byte = 2
  Lengths = {1, 2, 3, 8}
  Flows = {"a", "b", "c"}
  FastFlow = "c"
  Hash <- MCHash
  Content <- MCContent
  RuleSets <- MCRuleSets
  None = None
  TblSize = 3
  Garbage <- MCGarbage
  Half = 1
  MergedHalf = 2
  MaxTmp = 5
  Wrap = 4
  Kinds = {"checksum"}
  MaxBatch = 5
  MaxPkts = 5
INVARIANTS TailWithinBuffer
CHECK_DEADLOCK FALSE
