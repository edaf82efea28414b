\* Two browsers that poll at a short distance from each other, answered at once.
SPECIFICATION FairSpec
CONSTANTS
  p1 = p1
  p2 = p2
  utun = utun
  NoPoller = NoPoller
  Absent = Absent
  Interfaces = {utun}
  Period = 3
  Slow = FALSE
  MinGap = 2
  MaxGap = 6
  Width = 16
  MaxJiffies = 0
  MaxBytes = 0
  Pollers = {p1, p2}
PROPERTY RatesAreShown
