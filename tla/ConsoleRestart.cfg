\* Two requests for a restart, and one death of the console at any moment.
SPECIFICATION ConsoleSpec
CONSTANTS
  r1 = r1
  r2 = r2
  NoRequest = NoRequest
  Requests = {r1, r2}
  Asked <- OneRestart
  AutoRollback = TRUE
  CtxTimeout = 1
  WriteTimeout = 0
  MaxDeaths = 1
SYMMETRY AnyOrder
INVARIANTS ConsoleTypeOK ExclusiveAcrossDeaths
PROPERTY ImplementsInterrupted
