\* Two requests, any table to start from, failing restarts and crashes.
SPECIFICATION FairSpec
CONSTANTS
  c1 = c1
  c2 = c2
  Runner = Runner
  NoHolder = NoHolder
  Clients = {c1, c2}
INVARIANTS TypeOK OneOperation InStep LinesSurvive
PROPERTIES ImplementsSchedule MutexReleased
