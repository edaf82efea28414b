\* A verification that times out answers after the write deadline.
SPECIFICATION FairSpec
CONSTANTS
  r1 = r1
  NoRequest = NoRequest
  Requests = {r1}
  Asked <- OnlySwitch
  AutoRollback = TRUE
  CtxTimeout = 2
  WriteTimeout = 2
PROPERTY VerdictReachesBrowser
