\* One light and no more than one command.
CONSTANTS
    IdLengths = {1}
    SbcIdOf <- TwoLights
    OwnId = 2
    NoId = NoId
    Status = {0}
    MaxCmd = 1
SPECIFICATION FairSpec
CHECK_DEADLOCK FALSE
PROPERTY LightsKeepReceiving
