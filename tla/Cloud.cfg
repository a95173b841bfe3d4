\* Two files of two blocks, two coroutines.
SPECIFICATION Spec
CONSTANTS
  Total = 4
  Starts = {0, 2}
  Threads = {t1, t2}
  Threshold = 2
  Window = 2
  Preemptive = TRUE
  MaxFaults = 2
CHECK_DEADLOCK FALSE
INVARIANTS Promise
PROPERTIES Served Completes
