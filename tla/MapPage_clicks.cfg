\* Two lights that are green or red and two trucks; two changes of the focused
\* light may overlap, and two clicks on the button.
CONSTANTS
    Light = {l1, l2}
    Truck = {t1, t2}
    Main = Main
    Unknown = Unknown
    NoTruck = NoTruck
    DbState = {1, 2}
    MaxTimers = 3
    MaxClicks = 2
SPECIFICATION Spec
SYMMETRY Symmetry
INVARIANTS LightsSettle UnfollowOffered
