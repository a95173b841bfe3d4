\* One device that logs in twice, two servers, one change, two faults of any kind.
SPECIFICATION PSpec
CONSTANTS
  d1 = d1
  s1 = s1  s2 = s2
  Devices = {d1}
  Servers = {s1, s2}
  NoServer = none
  MaxConns = 2
  MaxVer = 1
  MaxLogins = 2
  Faults = {"break", "lose", "refuse", "forget", "leave", "crash"}
  MaxFailures = 2
\* Nothing happens any more once the device is out for the last time.
CHECK_DEADLOCK FALSE
INVARIANTS Recorded NoMissedUpdate
PROPERTIES GoesOffline
