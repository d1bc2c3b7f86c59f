SPECIFICATION Spec
CONSTANTS
  MaxTurns = 2
  Rounds <- MCRounds
  CallLists <- MCCallLists
INVARIANTS
  TypeOK
  CallsAnswered
  ConsentGiven
  CancelBinds
  NoneUnattended
PROPERTIES
  StreamEnds
CHECK_DEADLOCK FALSE
