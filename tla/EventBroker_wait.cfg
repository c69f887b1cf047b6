\* Violation: Close does not wait for a Subscribe between lines 60 and 62.
CONSTANTS
  s1 = s1
  s2 = s2
  t1 = t1
  t2 = t2
  p1 = p1
  p2 = p2
  c1 = c1
  c2 = c2
  Subs = {s1}
  Topics = {t1}
  Publishers = {p1}
  Closers = {c1}
  BufCap = 1
  MaxEvents = 1
  MaxCancels = 0
SPECIFICATION Spec
INVARIANT CloseWaitsForProcessing
\* The program stops when its callers have no more calls to make, or panics.
CHECK_DEADLOCK FALSE
