SPECIFICATION FairSpec
CONSTANTS
  Approvals = {a1, a2}
  Waiters = {w1, w2}
  none = none
  AutoApprove = TRUE
  StoreFaults = TRUE
INVARIANTS
  AnswerIsTheDecision
PROPERTIES
  TimeoutAnswers
CHECK_DEADLOCK FALSE
