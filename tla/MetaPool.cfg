\* Two processes, one may die; bob sends two transactions from a device to himself.
SPECIFICATION Spec
CONSTANTS
  alice = alice  bob = bob  guest = guest
  a1 = a1  b1 = b1  b2 = b2
  t1 = t1  t2 = t2
  NoUser = NoUser  NoDevice = NoDevice
  Users = {bob}
  Ghosts = {}
  Devices = {b1, b2}
  owner <- MCowner
  Transactions = {t1, t2}
  Workers = {w1, w2}
  Asked = {"initialized", "accepted", "canceled"}
  Calls = {"create", "update", "crash"}
SYMMETRY Symmetry
INVARIANTS StatsHonest StatsAtRest
CONSTRAINT OnlyB1Sends
\* Nothing happens any more once every transaction is over.
CHECK_DEADLOCK FALSE
