\* One address each and two faults of any kind but an early timeout, or two
\* addresses of the slave and no fault.
SPECIFICATION CSpec
CONSTANTS
  m = m  s = s
  Master = m
  Slave = s
  NoConn = NoConn
  NoOne = NoOne
  Relay = Relay
  Lines <- MCLines
  Addresses <- MCAddresses
  Faults = {"interrupt", "silence", "relay"}
  MaxFaults <- MCMaxFaults
\* Connected is where this ends.
CHECK_DEADLOCK FALSE
INVARIANTS StationsSafe
PROPERTIES Connects UsesStation
