\* A car and two lights objects; two threads may run the handler at once.
CONSTANTS
    c1 = c1
    l1 = l1
    l2 = l2
    p1 = p1
    p2 = p2
    junk = junk
    Obj = {c1, l1, l2}
    Lights = {l1, l2}
    MaxParallel = 2
    Pid = {p1, p2}
    NoPid = NoPid
    HeapJunk = {junk}
    HandlerThreads = {"main", "data"}
    PidReuse = FALSE
    MaxSeq = 1
SPECIFICATION HistorySpec
SYMMETRY PidSymmetry
INVARIANTS ExitKept RoomKept LiveOwned OneLightsInstance
PROPERTY ImplementsSendSlots
