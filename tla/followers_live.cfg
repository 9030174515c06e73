SPECIFICATION SpecOfOne
CONSTANTS
  c1 = c1
  c2 = c2
  d1 = d1
  Works = {w1}
  Syncs = {s1, s2}
  MaxEvents = 4
  MaxFail = 1
\* A behaviour may stop: the bounds end it.
CHECK_DEADLOCK FALSE
INVARIANT Shapes
INVARIANT NoticedOnce
INVARIANT BannedStaysDown
PROPERTY AllFollowed
