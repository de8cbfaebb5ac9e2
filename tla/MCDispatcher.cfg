\* One producer thread (the scheduler's), main() as network thread, the
\* dispatcher thread, and two ordinary tasks, one of which can expire.
SPECIFICATION FairSpec
CONSTANTS
  Producers = {scheduler}
  Main = mainThread
  Disp = dispatcherThread
  Work = {w1, w2}
  Expiring = {w2}
  StopTask = stop
  ShutdownTask = gameShutdown
  TerminateTask = terminate
  NoTask = noTask
  NoThread = noThread
INVARIANTS TypeOK NoLostWakeup NothingDropped
PROPERTIES ImplementsTaskQueue ShutdownJoins
CHECK_DEADLOCK FALSE
