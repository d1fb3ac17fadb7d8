SPECIFICATION FairSpec
CONSTANTS
  MaxTurns = 2
  MaxIterations = 2
  Structured = TRUE
  StoreFaults = TRUE
INVARIANTS
  TurnsDoNotMix CallsAreAnswered
PROPERTIES
  TurnEnds
CHECK_DEADLOCK FALSE
