\* Violation: an even number of messages.
CONSTANT Calls <- Even
SPECIFICATION Spec
INVARIANT ReturnsAll
\* The program stops when PingPong has returned, or panics.
CHECK_DEADLOCK FALSE
