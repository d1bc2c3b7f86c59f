SPECIFICATION Spec
CONSTANTS
  a = a
  l = l
  w = w
  th = th
  Tasks <- MCTasks
  Low <- MCLow
  Awaiting <- MCAwaiting
  Threaded <- MCThreaded
  Burst = 1
  Callers = 2
INVARIANTS
  ResultIsFetched
