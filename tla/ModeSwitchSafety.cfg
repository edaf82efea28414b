\* Two requests for a switch, a restart of the other service, a stop or nothing supported.
SPECIFICATION Spec
CONSTANTS
  r1 = r1
  r2 = r2
  NoRequest = NoRequest
  Requests = {r1, r2}
  Asked <- OneOfEach
  AutoRollback = TRUE
  CtxTimeout = 1
  WriteTimeout = 1
SYMMETRY AnyOrder
INVARIANTS TypeOK Exclusive OutcomeHolds ReplyMatchesLast
PROPERTY ImplementsSerial
