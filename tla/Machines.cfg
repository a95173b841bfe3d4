\* One device of the recipient and two faults, or two devices and none.
SPECIFICATION Spec
CONSTANTS
  s = s  r1 = r1  r2 = r2
  NoDevice = NoDevice
  Sender = s
  Groups <- MCgroups
  Faults = {"crash", "cut", "twice", "refill", "forget", "overtake", "error", "cancel"}
  MaxFaults <- MCmaxFaults
\* Nothing happens any more once the transaction is over.
CHECK_DEADLOCK FALSE
INVARIANTS OverRightly Delivered
PROPERTIES Completes Converges
