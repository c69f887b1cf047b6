\* More tasks than a worker and its queue of two can hold; Close called twice.
CONSTANTS
  k1 = k1
  k2 = k2
  k3 = k3
  k4 = k4
  w1 = w1
  c1 = c1
  c2 = c2
  NoTask = NoTask
  Tasks = {k1, k2, k3, k4}
  Workers = {w1}
  Closers = {c1, c2}
SPECIFICATION FairSpec
INVARIANTS
  TypeOK
  OnePlace
  CloseCompletes
PROPERTIES
  KeepsPromise
  CallsReturn
\* The program stops when its callers have no more calls to make, or panics.
CHECK_DEADLOCK FALSE
