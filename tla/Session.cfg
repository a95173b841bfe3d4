SPECIFICATION SSpec
CONSTANTS
  p1 = p1
  Peers <- MCPeers
  MaxChanges = 2
  MaxCalls = 2
  MaxCuts = 1
  MaxFailures = 1
  MaxRefusals = 1
INVARIANTS Emptied GuiTold SwaggersKnown
PROPERTIES CallEnds KickedOut
CHECK_DEADLOCK FALSE
