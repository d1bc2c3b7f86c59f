SPECIFICATION Spec
CONSTANTS
  MaxTurns = 2
  Rounds <- MCRounds
  CallLists <- MCCallLists
INVARIANT AnswersSaved
CHECK_DEADLOCK FALSE
