SPECIFICATION Spec
CONSTANTS
  Kinds = {"timer", "fastpass", "drop_mbuf"}
  Ways = {"only", "bypass"}
  PortCount = 2
  MaxSize = 4
  Null = Null
INVARIANTS TypeOK BuiltToDrop
PROPERTIES EditsKeepWay
CHECK_DEADLOCK FALSE
