\* Two cars compete for one slot; the kernel reuses pids.
CONSTANTS
    c1 = c1
    c2 = c2
    p1 = p1
    p2 = p2
    junk = junk
    Obj = {c1, c2}
    Lights = {}
    MaxParallel = 1
    Pid = {p1, p2}
    NoPid = NoPid
    HeapJunk = {junk}
    HandlerThreads = {"main"}
    PidReuse = TRUE
    MaxSeq = 1
SPECIFICATION FairSpec
PROPERTIES GroupLaunched SlotFreed
