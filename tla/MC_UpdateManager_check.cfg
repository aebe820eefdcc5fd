\* Safety and liveness of the UpdateManager: the cache never loses a
\* reported container, and reported containers are flushed.
\* No symmetry: TLC does not combine symmetry with liveness checking.
CONSTANTS
  Callers = {c1, c2}
  Ids = {o1, o2, o3}
  INVALID_OBJECT_ID = INVALID_OBJECT_ID
  FLUSH_SPEC = 1
  FLUSH_ASAP = 2
  MAX_OBJECT_IDS = 2
  MAX_OBJECT_IDS_OVERLOAD = 1
  MaxBatch = 2
  MaxCalls = 3
  MaxFailures = 1
SPECIFICATION Spec
INVARIANTS
  TypeOK
  NoLostUpdate
PROPERTIES
  EventualFlush
\* Once the calls are used up and the worker waits, the program only waits
\* for the next caller: a final state here is idling, not a deadlock.
CHECK_DEADLOCK FALSE
