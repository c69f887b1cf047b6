\* Two publishers overflow the buffer of one subscriber, which is cancelled or
\* swept by two Close calls at any moment.
CONSTANTS
  s1 = s1
  s2 = s2
  t1 = t1
  t2 = t2
  p1 = p1
  p2 = p2
  c1 = c1
  c2 = c2
  Subs = {s1}
  Topics = {t1}
  Publishers = {p1, p2}
  Closers = {c1, c2}
  BufCap = 2
  MaxEvents = 3
  MaxCancels = 2
SPECIFICATION Spec
SYMMETRY Symmetry
INVARIANTS
  TypeOK
  Ledgers
PROPERTY CancelIsFinal
\* The program stops when its callers have no more calls to make, or panics.
CHECK_DEADLOCK FALSE
