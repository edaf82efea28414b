\* Three browsers at one address, three sessions, crashes and power losses.
SPECIFICATION Spec
CONSTANTS
  c1 = c1
  c2 = c2
  c3 = c3
  p1 = p1
  p2 = p2
  s1 = s1
  s2 = s2
  s3 = s3
  lan1 = lan1
  NoClient = NoClient
  Torn = Torn
  NoId = NoId
  Clients = {c1, c2, c3}
  Passwords = {p1, p2}
  Ids = {s1, s2, s3}
  Addresses = {lan1}
  MaxFailures = 2
SYMMETRY Interchangeable
INVARIANTS TypeOK FileMatchesMemory ConfigSurvives LockoutBound
PROPERTIES ImplementsRegister OnlyRacingLoginsStay
