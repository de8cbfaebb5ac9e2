\* Three queries, one of them with a callback, and one save before the
\* shutdown: enough for one query in each hand and one left in the list.
SPECIFICATION FairSpec
CONSTANTS
  Net = net
  Disp = dispatcher
  Worker = database
  Query = {q1, q2, q3}
  WithCallback = {q2}
  MaxSaves = 1
  NoQuery = noQuery
  NoThread = noThread
INVARIANTS TypeOK ExecutedOnce OvertakenOnlyInHand
PROPERTIES AcceptedIsExecuted
CHECK_DEADLOCK FALSE
