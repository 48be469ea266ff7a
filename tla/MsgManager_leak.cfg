\* One car; the handler may run in main or in the data thread.
CONSTANTS
    c1 = c1
    p1 = p1
    junk = junk
    Obj = {c1}
    Lights = {}
    MaxParallel = 1
    Pid = {p1}
    NoPid = NoPid
    HeapJunk = {junk}
    HandlerThreads = {"main", "data"}
    PidReuse = FALSE
    MaxSeq = 1
SPECIFICATION FairSpec
PROPERTY SlotFreed
