\* From the sender or the cloud, which may miss the end of a file: interruptions
\* and crashes.
SPECIFICATION Spec
CONSTANTS
  Sizes <- MCsizes
  Served <- MCserved
  Chunk = 2
  Readers = {r1, r2}
  Slots = 6
  Sources = {"peer", "cloud"}
  Faults = {"interrupt", "crash"}
  MaxFaults = 3
  NoOne = NoOne
\* The transfer is over.
CHECK_DEADLOCK FALSE
INVARIANTS Orderly FinishedComplete
PROPERTIES Completes
