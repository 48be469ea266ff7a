\* Two writes from outside and one repeated delivery.  Everything may be done.
CONSTANTS
    l1 = l1
    l2 = l2
    l3 = l3
    c1 = c1
    NoLight = NoLight
    NoId = NoId
    Stamp = {1, 2, 3}
    Car = {c1}
    Light = {l1, l2, l3}
    Pos = {"here", "there", "far"}
    Dist <- MCDist
    MAX_DIST = 2
    Placed = {l1, l2, l3}
    Named = {l1, l3}
    Messages <- MCMessages
    LightWrites <- MCLightWrites
    PhoneWrites = {"here"}
    MaxWrites = 2
    MaxRepeat = 1
SPECIFICATION Spec
CHECK_DEADLOCK FALSE
INVARIANTS FocusedSwitched StateCommanded
PROPERTY GreenForNear
