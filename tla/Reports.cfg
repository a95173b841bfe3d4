SPECIFICATION RSpec
CONSTANTS
  Blocks = 2
  Names = 4
  MaxFaults = 2
  MaxTold = 1
  MaxQueue = 1
  Ticks = 1
  Reporters = {r1}
CHECK_DEADLOCK FALSE
INVARIANTS RightFiles ReporterSafe LastWord
PROPERTIES Ends Concludes
