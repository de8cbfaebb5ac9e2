\* Three events: one that is stopped too late, the one that replaces it, and
\* the one the late event adds.  Paths of up to two steps.
SPECIFICATION FairSpec
CONSTANTS
  MaxEvents = 3
  MaxPath = 2
INVARIANTS TypeOK EventInOnePlace EventWalkAlive
PROPERTIES NothingAfterShutdown WalkEnds
CHECK_DEADLOCK FALSE
