SPECIFICATION FairSpec
CONSTANTS
  Net = net
  Disp = dispatcher
  Worker = database
  Query = {q1, q2, q3}
  WithCallback = {q2}
  MaxSaves = 1
  NoQuery = noQuery
  NoThread = noThread
PROPERTIES ThreadEnds
CHECK_DEADLOCK FALSE
