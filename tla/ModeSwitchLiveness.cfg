\* Two requests under fairness: a switch that may fail and be rolled back.
SPECIFICATION FairSpec
CONSTANTS
  r1 = r1
  r2 = r2
  NoRequest = NoRequest
  Requests = {r1, r2}
  Asked <- OnlySwitch
  AutoRollback = TRUE
  CtxTimeout = 1
  WriteTimeout = 1
PROPERTY EveryRequestAnswered
