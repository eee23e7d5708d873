SPECIFICATION FairSpec
CONSTANTS
  w1 = w1
  w2 = w2
  s1 = s1
  s2 = s2
  t1 = t1
  t2 = t2
  t3 = t3
  Workers <- MCWorkers
  Submitters <- MCSubmitters
  Tasks <- MCTasks
  NoTask = NoTask
  NoThread = NoThread
INVARIANTS
  TypeOK
  NoTaskLostOrRunTwice
  NoLostWakeup
  DrainedWhenJoined
PROPERTIES
  ImplementsExecutor
  EveryTaskRuns
\* The process ends: by std::terminate or when the pool has been joined.
CHECK_DEADLOCK FALSE
