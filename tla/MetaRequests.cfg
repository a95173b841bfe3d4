\* One request at a time: the life of a transaction, a ghost included, while devices and
\* accounts go away under it.
SPECIFICATION Spec
CONSTANTS
  alice = alice  bob = bob  guest = guest
  a1 = a1  b1 = b1  b2 = b2
  t1 = t1  t2 = t2
  w1 = w1
  NoUser = NoUser  NoDevice = NoDevice
  Users = {alice, bob, guest}
  Ghosts = {guest}
  Devices = {a1, b1, b2}
  owner <- MCowner
  Transactions = {t1}
  Workers = {w1}
  Asked = {"initialized", "accepted", "finished", "rejected", "canceled", "ghost_uploaded", "cloud_buffered"}
  Calls = {"create", "create_empty", "bare", "fill", "update", "pause", "download",
           "merge_ghost", "delete_device", "delete_user", "change_password", "login"}
\* Nothing happens any more once every account is deleted.
CHECK_DEADLOCK FALSE
INVARIANTS Accounted NothingLeft LastNotificationCurrent
PROPERTIES RefinesAbstract
