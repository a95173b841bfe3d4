\* Two devices, one of which loses its connection or dies once, and a pause or a resume.
SPECIFICATION Spec
CONSTANTS
  s = s
  r = r
  nobody = nobody
  Devices = {s, r}
  Nobody = nobody
  Faults = {"cut", "crash"}
  Frail = {r}
  MaxFaults = 1
  MaxPauses = 1
INVARIANTS Informed
PROPERTIES Meets
\* When the faults are used up and both are paused nothing has to happen any more.
CHECK_DEADLOCK FALSE
