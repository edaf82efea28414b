\* Two reports at a time, one device that comes and goes, an audit log of three entries and excerpts of two.
SPECIFICATION Spec
CONSTANTS
  c1 = c1
  c2 = c2
  d1 = d1
  NoClient = NoClient
  Clients = {c1, c2}
  Devices = {d1}
  TTL = 1
  ExecTimeout = 2
  Patience = 1
  AuditLimit = 3
  MaxLogLines = 2
  MaxRecords = 4
INVARIANTS TypeOK BoundedWait AuditIsNewest
PROPERTY TargetsAreCurrent
