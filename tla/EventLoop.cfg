CONSTANTS
  Threads = {f1, f2}
  Tasks = {t1, t2, t3, t4}
  Handlers = {h1, h2}
  Wakeup = wakeup
SPECIFICATION FairSpec
INVARIANT TypeOK
INVARIANT NeverSleepsOnWork
PROPERTY RefinesTaskQueue
PROPERTY RunsEveryTask
PROPERTY StopHonoured
CHECK_DEADLOCK FALSE
