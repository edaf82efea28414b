\* One browser, one interface that comes and goes.
SPECIFICATION FairSpec
CONSTANTS
  p1 = p1
  p2 = p2
  utun = utun
  NoPoller = NoPoller
  Absent = Absent
  Interfaces = {utun}
  Period = 3
  Slow = TRUE
  MinGap = 2
  MaxGap = 6
  Width = 16
  MaxJiffies = 2
  MaxBytes = 2
  Pollers = {p1}
INVARIANTS TypeOK NeverInflated IntervalIsHonest UsageIsHonest
PROPERTY RatesAreShown
