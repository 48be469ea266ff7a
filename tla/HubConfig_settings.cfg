\* Loading ends after one step: main goes on with the result.
CONSTANTS
    MsPerSec = 2
    NsPerMs = 2
    UIntMod = 16
    Files <- AllFiles
    RLimits = {0, 1, 3, 100}
    TimeoutLimits <- TwoToFour
    StoreLimits <- OneToThree
    PortLimits <- OneToThree
    IntervalMin <- HalfSecond
    IntervalMax <- ThreeSeconds
    Default <- Defaults
    NotLoaded = NotLoaded
    Rejected = Rejected
SPECIFICATION Spec
CHECK_DEADLOCK FALSE
INVARIANTS SettingsLimited LookupsAgree
