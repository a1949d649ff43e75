SPECIFICATION FairSpec
CONSTANTS
  Act = {a1, a2, a3}
  Task = {t1, t2, t3, t4}
  Thread = {w1, w2}
  NoTask = NoTask
INVARIANTS
  TypeOK
  NotConcurrent
  NoneStranded
PROPERTIES
  ImplementsSerialExecutor
  EveryTaskStarts
\* Finitely many tasks: nothing happens once all of them have run.
CHECK_DEADLOCK FALSE
