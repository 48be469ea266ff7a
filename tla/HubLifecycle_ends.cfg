\* The program may end.
CONSTANT MaxInbox = 3
SPECIFICATION FairSpec
CHECK_DEADLOCK FALSE
INVARIANTS TypeOK NullOnlyDuringCreate NoThreadOutlivesExit
PROPERTY DeafHubEnds
