\* More URLs than slots, fan-outs of one channel and three, lists longer than
\* the pipeline, more ports than workers, every number of messages up to the bound.
CONSTANTS
  w1 = w1
  w2 = w2
  Count = 4
  Limit = 2
  Uses <- AllUses
  Values = 7
  Lists <- SomeLists
  Kept <- Even
  Workers = {w1, w2}
  Ports <- FivePorts
  Calls <- UpTo24
SPECIFICATION FlowsSpec
INVARIANTS
  LimitKept
  AllThere
  FailsIfCancelled
  InTurnAndOnce
  ClosedBehindAll
  InOrderAndAll
  EachPortOnce
  TakeTurns
  ReturnsMost
PROPERTY FlowsEnd
\* A flow stops when its call has returned, and when it waits for ever.
CHECK_DEADLOCK FALSE
