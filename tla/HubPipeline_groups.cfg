\* A car and a lights object with their own intervals; a second has two ticks.
\* Every packet is stamped with any time the clock may show.
CONSTANTS
    car = car
    light = light
    BadId = BadId
    Obj = {car, light}
    Lights = {light}
    MsPerSec = 2
    NsPerMs = 2
    UIntMod = 8
    SendInterval <- OneMs
    SendIntervalLights <- OneSecond
    StoreEvery = 2
    StoreEveryLights = 1
    MaxSec = 1
    MaxPkt = 4
    MaxParallel = 2
SPECIFICATION PipeFairSpec
INVARIANTS TypeOK PacketsInOrder EveryKthOfGroup IntervalKept
PROPERTIES CloudInOrder OverdueGroupSent
