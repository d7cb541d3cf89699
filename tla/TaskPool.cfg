SPECIFICATION FairSpec
CONSTANTS
  main = main
  c2 = c2
  w1 = w1
  w2 = w2
  w3 = w3
  console = console
  r1 = r1
  r2 = r2
  Free = Free
  NoTask = NoTask
  Caller = {main, c2}
  Worker = {w1, w2, w3}
  Task = {console, r1, r2}
  Endless = {console}
  keep_task_num = 1
CHECK_DEADLOCK FALSE
INVARIANTS
  NoLostWakeup
  NeverIdleWithWork
PROPERTIES
  ImplementsExecutor
  ListStableWhileJoined
  TaskStarts
  DestructionCompletes
