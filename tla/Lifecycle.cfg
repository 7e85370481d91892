SPECIFICATION Spec
CONSTANTS
  Programs = {"txer", "rxer", "rxer_test"}
  RecordTimes = {0, 1}
INVARIANTS TypeOK PortLive ConsoleReadsLive FreedOnce
PROPERTIES Ends
CHECK_DEADLOCK FALSE
