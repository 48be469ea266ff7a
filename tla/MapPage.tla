------------------------------- MODULE MapPage --------------------------------
(***************************************************************************)
(* The web map of smartcity/js/index.js: the traffic lights (a marker for  *)
(* each and the big light "main" for the focused one) and the button that  *)
(* follows a truck.  The page is one thread; its events are callbacks of   *)
(* Firebase, calls of draw() by the map, clicks and timers.                *)
(*                                                                         *)
(* A callback runs to its end.  once() on a path whose data the page has   *)
(* calls back at once.  Timers of one duration fire in the order in which  *)
(* they were set.                                                          *)
(***************************************************************************)
EXTENDS Naturals, Sequences, FiniteSets

CONSTANTS
    Light, Truck,
    Main,         \* the big light
    Unknown,      \* an id no light has
    NoTruck,      \* "null" in folowCheckId, "" in data-target
    DbState,      \* the states the database may have for a light
    MaxTimers,    \* bound: a light changes only while fewer timers are pending
    MaxClicks     \* bound: pending timers of the button

Yellow == 0      \* 1 is green and 2 is red
State  == 0..2
Element == Light \cup {Main}

ASSUME PageAssumption ==
    /\ Main \notin Light /\ Unknown \notin Light /\ NoTruck \notin Truck
    /\ DbState \subseteq State
    /\ MaxTimers \in Nat /\ MaxClicks \in Nat

VARIABLES
    loaded,       \* the lights were read and their markers added
    heard,        \* per light: the last state the page was told
    shown,        \* per element: its attribute "state"
    drawn,        \* the elements that have a div; a marker without one has
                  \* only the text the div will be made from
    focused,      \* tlManager.focused
    timers,       \* the 400 ms timers: <<element, state>>
    burst,        \* history, per element: how many changes were heard since it
                  \* was last at rest, TooMany if one was missed
    class, folowCheckId, target,
    labelTimers   \* the 100 ms timers: the class each will set

lightVars  == <<loaded, heard, shown, drawn, focused, timers, burst>>
buttonVars == <<class, folowCheckId, target, labelTimers>>
vars       == <<lightVars, buttonVars>>

TooMany == 3

(* The big light starts yellow, with no light's state.                      *)
Unseen == [e \in Element |-> IF e = Main THEN TooMany ELSE 0]

(* The manager starts with the id 1 as focused, whether a light has it or   *)
(* not.                                                                     *)
Init ==
    /\ loaded = FALSE
    /\ heard \in [Light -> DbState]
    /\ shown = [e \in Element |-> Yellow] /\ drawn = {Main}
    /\ focused \in Light \cup {Unknown}
    /\ timers = <<>>
    /\ burst = Unseen
    /\ class = "disabled" /\ folowCheckId = NoTruck /\ target = NoTruck
    /\ labelTimers = <<>>

-----------------------------------------------------------------------------
(* Traffic lights *)

Pending(e) == \E i \in DOMAIN timers : timers[i][1] = e

(* once('value') of traffic-lights: every marker gets the state of now.     *)
LoadLights ==
    /\ ~loaded /\ loaded' = TRUE
    /\ shown' = [e \in Element |-> IF e = Main THEN shown[e] ELSE heard[e]]
    /\ UNCHANGED <<heard, drawn, focused, timers, burst, buttonVars>>

(* The map calls draw(), which creates the div from the text made by add(). *)
draw(l) ==
    /\ loaded /\ l \notin drawn
    /\ drawn' = drawn \cup {l}
    /\ UNCHANGED <<loaded, heard, shown, focused, timers, burst, buttonVars>>

(* Mutant: the light does not turn yellow while the timer runs.             *)
Coloured_NoYellow(e, s) ==
    IF shown[e] = s THEN [now |-> s, later |-> <<>>]
    ELSE [now |-> shown[e], later |-> <<<<e, s>>>>]

(* changeTrafficLightColor with yellow: what the element shows now and the  *)
(* timer that is set.                                                       *)
Coloured(e, s) ==
    IF shown[e] = s THEN [now |-> s, later |-> <<>>]
    ELSE [now |-> Yellow, later |-> <<<<e, s>>>>]

Counted(e) == IF ~Pending(e) THEN 1 ELSE IF burst[e] < TooMany THEN burst[e] + 1 ELSE TooMany

(* The elements that ought to show the light.                               *)
Concerned(l) == {l} \cup (IF focused = l THEN {Main} ELSE {})

(* Those the callback of child_changed gets to.  Without a div, the old     *)
(* state counts as 0: for yellow nothing is to be done, otherwise           *)
(* setAttribute of null throws and the callback ends.                       *)
Reached(l, s) == IF l \in drawn \/ s = Yellow THEN Concerned(l) \cap drawn ELSE {}

LightChanged(l, s) ==
    /\ loaded /\ Len(timers) < MaxTimers
    /\ heard' = [heard EXCEPT ![l] = s]
    /\ LET R == Reached(l, s)
           set(e) == IF e \in R THEN Coloured(e, s).later ELSE <<>>
       IN  /\ shown' = [e \in Element |-> IF e \in R THEN Coloured(e, s).now ELSE shown[e]]
           /\ timers' = timers \o set(l) \o set(Main)
           /\ burst' = [e \in Element |->
                          IF e \in R THEN Counted(e)
                          ELSE IF e \in Concerned(l) THEN TooMany ELSE burst[e]]
    /\ UNCHANGED <<loaded, drawn, focused, buttonVars>>

(* The timer sets the state it was made with.                               *)
YellowOver ==
    /\ timers # <<>>
    /\ shown' = [shown EXCEPT ![Head(timers)[1]] = Head(timers)[2]]
    /\ timers' = Tail(timers)
    /\ UNCHANGED <<loaded, heard, drawn, focused, burst, buttonVars>>

(* tl-focused changed: the big light shows the state at once.  For an id no *)
(* light has, Object.keys(null) throws after the id was stored.  A timer of *)
(* the light that was focused before is still pending afterwards.           *)
changeTrafficLightFocused(l) ==
    /\ loaded
    /\ focused' = l
    /\ shown' = IF l \in Light THEN [shown EXCEPT ![Main] = heard[l]] ELSE shown
    /\ burst' = [burst EXCEPT ![Main] = IF Pending(Main) THEN TooMany ELSE 0]
    /\ UNCHANGED <<loaded, heard, drawn, timers, buttonVars>>

-----------------------------------------------------------------------------
(* The button *)

(* Mutant: the truck of before is still followed.                           *)
changeCarIdGauge_KeepsFollowing(t) ==
    /\ target' = t
    /\ class' = ""
    /\ UNCHANGED <<folowCheckId, labelTimers, lightVars>>

(* A click on a truck.                                                      *)
changeCarIdGauge(t) ==
    /\ target' = t
    /\ class' = ""
    /\ folowCheckId' = NoTruck
    /\ UNCHANGED <<labelTimers, lightVars>>

(* A click on the button; "pushed" is taken for an offer to follow.         *)
folowCar ==
    /\ class # "disabled" /\ Len(labelTimers) < MaxClicks
    /\ class' = "pushed"
    /\ IF class # "unfolow"
       THEN folowCheckId' = target  /\ labelTimers' = Append(labelTimers, "unfolow")
       ELSE folowCheckId' = NoTruck /\ labelTimers' = Append(labelTimers, " ")
    /\ UNCHANGED <<target, lightVars>>

LabelChanges ==
    /\ labelTimers # <<>>
    /\ class' = Head(labelTimers)
    /\ labelTimers' = Tail(labelTimers)
    /\ UNCHANGED <<folowCheckId, target, lightVars>>

(* The page is loaded again: initMap clears the session's storage.          *)
Reload ==
    /\ loaded
    /\ loaded' = FALSE
    /\ shown' = [e \in Element |-> Yellow] /\ drawn' = {Main}
    /\ focused' \in Light \cup {Unknown}
    /\ timers' = <<>>
    /\ burst' = Unseen
    /\ class' = "disabled" /\ folowCheckId' = NoTruck /\ target' = NoTruck
    /\ labelTimers' = <<>>
    /\ UNCHANGED heard

Next ==
    \/ LoadLights \/ YellowOver \/ folowCar \/ LabelChanges \/ Reload
    \/ \E l \in Light : draw(l) \/ \E s \in DbState : LightChanged(l, s)
    \/ \E l \in Light \cup {Unknown} : changeTrafficLightFocused(l)
    \/ \E t \in Truck : changeCarIdGauge(t)

Spec == Init /\ [][Next]_vars

-----------------------------------------------------------------------------
(* Properties *)

(* The lights come to rest at the last state the page heard: a green or red *)
(* that comes while a light is yellow for an earlier change is shown in the *)
(* end, by the markers and by the big light.  The promise is for up to two  *)
(* changes within the 400 ms and ends for a change that came before the     *)
(* marker was drawn and for the big light when the focus moves while it is  *)
(* yellow; a yellow that comes while a timer runs is overwritten.           *)
LightsSettle ==
    LET ofLight(e) == IF e = Main THEN focused ELSE e
    IN  \A e \in Element :
            /\ e \in drawn /\ ofLight(e) \in Light
            /\ ~Pending(e) /\ burst[e] < TooMany
            /\ heard[ofLight(e)] # Yellow
            => shown[e] = heard[ofLight(e)]

(* Whenever the button is at rest and the map follows a truck, it is the    *)
(* truck of the panel and the button offers to stop, whatever was clicked   *)
(* while the label was about to change.  The converse does not hold: a      *)
(* click on another truck during the 100 ms leaves an offer to stop         *)
(* although nothing is followed.                                            *)
UnfollowOffered ==
    labelTimers = <<>> /\ folowCheckId # NoTruck =>
        class = "unfolow" /\ folowCheckId = target
===============================================================================
