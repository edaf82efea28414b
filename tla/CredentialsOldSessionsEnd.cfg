\* One property that the code does not keep.
SPECIFICATION Spec
CONSTANTS
  c1 = c1
  c2 = c2
  p1 = p1
  p2 = p2
  s1 = s1
  s2 = s2
  lan1 = lan1
  NoClient = NoClient
  Torn = Torn
  NoId = NoId
  Clients = {c1, c2}
  Passwords = {p1, p2}
  Ids = {s1, s2}
  Addresses = {lan1}
  MaxFailures = 2
INVARIANT OldSessionsEnd
