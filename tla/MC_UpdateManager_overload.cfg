\* The worker must not sleep untimed while ids wait, nor sleep out the
\* interval while FLUSH_ASAP ids wait; the overload loop of
\* containersChanged breaks both.
CONSTANTS
  Callers = {c1, c2}
  Ids = {o1, o2, o3}
  INVALID_OBJECT_ID = INVALID_OBJECT_ID
  FLUSH_SPEC = 1
  FLUSH_ASAP = 2
  MAX_OBJECT_IDS = 2
  MAX_OBJECT_IDS_OVERLOAD = 1
  MaxBatch = 2
  MaxCalls = 3
  MaxFailures = 0
SPECIFICATION Spec
SYMMETRY MCSymmetry
INVARIANTS
  WorkerWaitMatchesWork
CHECK_DEADLOCK FALSE
