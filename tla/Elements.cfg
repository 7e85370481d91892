SPECIFICATION Spec
CONSTANTS
  Byte = 2
  Lengths = {0, 1, 2, 3, 4, 5, 6, 7, 8, 9, 10, 11, 12, 13, 16}
  Flows = {"a", "b", "c"}
  FastFlow = "c"
  Hash <- MCHash
  Content <- MCContent
  RuleSets <- MCRuleSets
  None = None
  TblSize = 3
  Garbage <- MCGarbage
  Half = 1
  MergedHalf = 2
  MaxTmp = 5
  Wrap = 4
  Kinds <- MCKinds
  MaxBatch = 5
  MaxPkts = 5
INVARIANTS TypeOK SameWork  TotalReported SumsRight
CHECK_DEADLOCK FALSE
