\* Violation: Close while a Submit waits for room; four tasks are one more than
\* the worker and the queue of two hold.
CONSTANTS
  k1 = k1
  k2 = k2
  k3 = k3
  k4 = k4
  w1 = w1
  c1 = c1
  c2 = c2
  NoTask = NoTask
  Tasks = {k1, k2, k3, k4}
  Workers = {w1}
  Closers = {c1}
SPECIFICATION WatchSpec
INVARIANT GracefulClose
\* The program stops when its callers have no more calls to make, or panics.
CHECK_DEADLOCK FALSE
