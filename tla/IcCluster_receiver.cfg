\* Three datagrams through a buffer of three cells.  The process may end.
CONSTANTS
    BufSize = 3
    Types = {"Car", "AirC_Box"}
    FieldCount <- TwoFields
    Inputs <- MCInputs
    MaxPkt = 3
SPECIFICATION Spec
CHECK_DEADLOCK FALSE
INVARIANTS TypeOK UsableSurvives PassedOn StateNewestFirst
PROPERTY ListensAgain
