\* Two subscribers, a cancel of each and a Close; no symmetry, for liveness.
CONSTANTS
  s1 = s1
  s2 = s2
  t1 = t1
  t2 = t2
  p1 = p1
  p2 = p2
  c1 = c1
  c2 = c2
  Subs = {s1, s2}
  Topics = {t1}
  Publishers = {p1}
  Closers = {c1}
  BufCap = 1
  MaxEvents = 1
  MaxCancels = 1
SPECIFICATION FairSpec
INVARIANTS
  ChannelsSafe
  CloseDrains
PROPERTY WorkEnds
\* The program stops when its callers have no more calls to make, or panics.
CHECK_DEADLOCK FALSE
