\* One page, two sessions, two requests in flight, one loss.
SPECIFICATION FairSpec
CONSTANTS
  q1 = q1
  q2 = q2
  s1 = s1
  s2 = s2
  on = on
  off = off
  Slots = {q1, q2}
  Ids = {s1, s2}
  NoId = NoId
  Keep = Keep
  Modes = {on, off}
  NoMode = NoMode
  MaxLost = 1
INVARIANTS TypeOK OneAction WritesAreGenuine
PROPERTIES StatusCatchesUp EndedSessionNoticed
