\* One property that the code does not keep.
SPECIFICATION FairSpec
CONSTANTS
  c1 = c1
  c2 = c2
  Runner = Runner
  NoHolder = NoHolder
  Clients = {c1, c2}
PROPERTY SuccessTakesEffect
