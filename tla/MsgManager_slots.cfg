\* Two slots for a car and a lights object, two groups each; main runs the handler.
CONSTANTS
    c1 = c1
    l1 = l1
    p1 = p1
    p2 = p2
    p3 = p3
    junk = junk
    Obj = {c1, l1}
    Lights = {l1}
    MaxParallel = 2
    Pid = {p1, p2, p3}
    NoPid = NoPid
    HeapJunk = {junk}
    HandlerThreads = {"main"}
    PidReuse = FALSE
    MaxSeq = 2
SPECIFICATION Spec
SYMMETRY PidSymmetry
INVARIANTS TypeOK SlotsExclusive GroupsInOrder NewestKept ZombieNoticed
