SPECIFICATION Spec
CONSTANTS
  AddrBits = 8
  FirstBits = 4
  HopBits = 2
  LpmBits = 2
  PortCount = 4
  Prefixes <- MCPrefixes
  Ports <- MCPorts
  MaxAdds = 3
INVARIANTS TypeOK Connected LongestMatchIfPlaced
CHECK_DEADLOCK FALSE
