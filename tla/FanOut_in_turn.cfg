\* Violation: the six values of TestFanOut, over three channels read in turn.
CONSTANTS
  Uses <- ThreeInTurn
  Count = 6
SPECIFICATION FairSpec
PROPERTY InTurnCollected
\* The caller and FanOut wait for each other: this is what the run shows.
CHECK_DEADLOCK FALSE
