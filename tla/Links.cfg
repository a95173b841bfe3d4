\* A file of three chunks on either store, one fault or cancellation, and what the other
\* device of the user, the user and the job of meta ask for.
SPECIFICATION Spec
CONSTANTS
  c1 = c1  c2 = c2
  Coroutines = {c1, c2}
  Count = 3
  Protocols = {"aws", "gcs"}
  Asks = {"user", "other", "job"}
  MaxFaults = 1
INVARIANTS
  LinkSafe
PROPERTIES
  UploadEnds
\* Nothing happens any more once the link is over.
CHECK_DEADLOCK FALSE
