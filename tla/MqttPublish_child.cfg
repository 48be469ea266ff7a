\* The lengths lie around the limits of topic and client id; a child may end.
CONSTANTS
    IdLengths = {1, 212, 213, 241}
    SbcIdOf <- TwoLights
    OwnId = 2
    NoId = NoId
    Status = {0, 1}
    MaxCmd = 2
SPECIFICATION FairSpec
CHECK_DEADLOCK FALSE
INVARIANTS TypeOK SuccessMeansStored ExitsDisconnected TopicWhole CommandsInOrder
PROPERTY CarChildEnds
