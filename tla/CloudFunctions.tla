---------------------------- MODULE CloudFunctions ----------------------------
(***************************************************************************)
(* The cloud functions of smartcity-func: CarsPubSub stores what a hub     *)
(* published under car-locations; the two RTDB functions of the maps turn  *)
(* the lights near a vehicle or a phone to green; the RTDB function of the *)
(* controller sends the hub a command for a light that changed.            *)
(*                                                                         *)
(* The platform calls a function at least once for an event, in any order, *)
(* and calls run next to each other.  A call that ends in log.Fatal or in  *)
(* a panic, and a command that the cloud does not take, are not repeated.  *)
(***************************************************************************)
EXTENDS Naturals, Sequences, FiniteSets, Bags, BagsExt

CONSTANTS
    Car, Light,
    NoId,         \* the id of a record whose "id" is not a string: empty
    NoLight,      \* tl-focused before anything was focused
    Pos,          \* positions
    Stamp,        \* the times of packets
    Dist,         \* Dist[p][l]: distance in metres, rounded up
    MAX_DIST,
    Placed,       \* lights that have a latitude and a longitude
    Named,        \* lights that have an "id"
    Messages,     \* messages of the hub, as json.Unmarshal leaves them: a
                  \* field of another type keeps its zero value, and there
                  \* is no record if the text is not JSON or not a list
    LightWrites,  \* what others write to traffic-lights: per light, a state
                  \* or Other, a field that is not "state"
    PhoneWrites,  \* locations of phones
    MaxWrites,    \* bound: messages published and writes by others, each once
    MaxRepeat     \* bound: events delivered once more

Green   == 1
Red     == 2
State   == 0..2
Other   == 3
Nowhere == <<>>
Record  == [car: Car \cup {NoId}, pos: Pos, stamp: Stamp]

ASSUME FunctionsAssumption ==
    /\ Dist \in [Pos -> [Light -> Nat]] /\ MAX_DIST \in Nat
    /\ Placed \subseteq Light /\ Named \subseteq Light
    /\ NoLight \notin Light
    /\ Messages \subseteq Seq(Record)
    /\ \A w \in LightWrites : \E D \in SUBSET Light : w \in [D -> State \cup {Other}]
    /\ PhoneWrites \subseteq Pos
    /\ MaxWrites \in Nat /\ MaxRepeat \in Nat

VARIABLES
    carLocations,   \* car-locations: the record last written of each vehicle
    trafficLights,  \* traffic-lights: the state of each light
    tlFocused,      \* tl-focused
    events,         \* bag of calls that wait to be started
    calls,          \* bag of calls that run
    switched,       \* history: lights a function turned to green
    commanded,      \* history: lights whose present state was sent to the hub
                    \* since it was written (at first it is taken as known)
    failed,         \* history: lights for whose present state a command failed
                    \* or the call that had to send it died
    answered,       \* history: <<w, l>> if because of w the hub got a command
                    \* for l, or l was found to be green
    lost,           \* history: <<w, l>> if a call that dealt with w died before
                    \* it got to l, or its command for l failed
    writes, repeats

histories == <<switched, commanded, failed, answered, lost>>
bounds == <<writes, repeats>>
vars == <<carLocations, trafficLights, tlFocused, events, calls, histories, bounds>>

(* The writes that report where a vehicle or a phone is.                    *)
Reports == {<<"hub", m>> : m \in Messages} \cup {<<"phone", p>> : p \in PhoneWrites}

(* The light is switched if 0 < ceil(distance) < MAX_DIST.                  *)
Near(p) == {l \in Placed : 0 < Dist[p][l] /\ Dist[p][l] < MAX_DIST}

(* The calls, by function; by is the write from outside that they go back  *)
(* to, todo what the loop has still to do (it steps over the lights that    *)
(* are not near), and focus the light that was switched and is not yet      *)
(* focused.  "part" is a call of RTDB for a location without a latitude or  *)
(* a longitude, or that is not an object.                                   *)
CarsCall(m)        == [fn |-> "CarsPubSub", by |-> <<"hub", m>>, todo |-> m]
SwitchCall(w, p)   == [fn |-> "tlSwitcher", by |-> w, todo |-> Near(p), focus |-> NoLight]
PartCall(w, p)     == [fn |-> "part", by |-> w, todo |-> Near(p)]
ControlCall(w, ls) == [fn |-> "sendCommand", by |-> w, todo |-> ls]

(* The lights a call has still to reach, directly or through later calls.   *)
Reaches(c) ==
    CASE c.fn = "CarsPubSub"  -> UNION {Near(c.todo[i].pos) : i \in DOMAIN c.todo}
      [] c.fn = "sendCommand" -> DOMAIN c.todo
      [] OTHER                -> c.todo

(* The call c has still to send the command for light l and state s.        *)
Carries(c, l, s) == c.fn = "sendCommand" /\ l \in DOMAIN c.todo /\ c.todo[l] = s

(* The loop is over: the function returns nil.                              *)
Returns(c) ==
    \/ c.fn = "CarsPubSub" /\ c.todo = <<>>
    \/ c.fn = "tlSwitcher" /\ c.todo = {} /\ c.focus = NoLight
    \/ c.fn = "sendCommand" /\ DOMAIN c.todo = {}

WithCall(b, c) == IF Returns(c) THEN b ELSE BagAdd(b, c)

InFlight == BagToSet(events) \cup BagToSet(calls)

Init ==
    /\ carLocations = [c \in Car \cup {NoId} |-> Nowhere]
    /\ trafficLights = [l \in Light |-> Red]
    /\ tlFocused = NoLight
    /\ events = EmptyBag /\ calls = EmptyBag
    /\ switched = {} /\ commanded = Light /\ failed = {}
    /\ answered = {} /\ lost = {}
    /\ writes = {} /\ repeats = 0

-----------------------------------------------------------------------------
(* What others do *)

Write(w) ==
    /\ w \notin writes /\ Cardinality(writes) < MaxWrites
    /\ writes' = writes \cup {w}
    /\ UNCHANGED repeats

HubPublishes(m) ==
    /\ Write(<<"hub", m>>)
    /\ events' = BagAdd(events, CarsCall(m))
    /\ UNCHANGED <<carLocations, trafficLights, tlFocused, calls, histories>>

(* A phone's new location.  The delta of the event may hold both fields or  *)
(* only the one that changed.                                               *)
PhoneMoves(p) ==
    LET w == <<"phone", p>> IN
    /\ Write(w)
    /\ \E e \in {SwitchCall(w, p), PartCall(w, p)} : events' = BagAdd(events, e)
    /\ UNCHANGED <<carLocations, trafficLights, tlFocused, calls, histories>>

(* The lights that change owe the hub a command anew.                       *)
LightsWritten(w) ==
    /\ Write(<<"lights", w>>)
    /\ LET new     == [l \in Light |-> IF l \in DOMAIN w /\ w[l] \in State
                                       THEN w[l] ELSE trafficLights[l]]
           changed == {l \in Light : new[l] # trafficLights[l]}
       IN  /\ changed # {} \/ \E l \in DOMAIN w : w[l] = Other
           /\ trafficLights' = new
           /\ commanded' = commanded \ changed /\ failed' = failed \ changed
    /\ events' = BagAdd(events, ControlCall(<<"lights", w>>, w))
    /\ UNCHANGED <<carLocations, tlFocused, calls, switched, answered, lost>>

(* The platform starts a call, and may start another one for the event.     *)
Deliver(e) ==
    /\ \/ events' = BagRemove(events, e) /\ UNCHANGED repeats
       \/ repeats < MaxRepeat /\ repeats' = repeats + 1 /\ UNCHANGED events
    /\ calls' = WithCall(calls, e)
    /\ UNCHANGED <<carLocations, trafficLights, tlFocused, histories, writes>>

-----------------------------------------------------------------------------
(* The functions *)

Ends(c)      == calls' = BagRemove(calls, c)
GoesOn(c, d) == calls' = WithCall(BagRemove(calls, c), d)

(* log.Fatal or a panic: whatever the call had still to do is not done.     *)
Dies(c) ==
    /\ Ends(c)
    /\ lost' = lost \cup (({c.by} \cap Reports) \X Reaches(c))
    /\ failed' = failed \cup {l \in Light : Carries(c, l, trafficLights[l])}
    /\ UNCHANGED <<carLocations, trafficLights, tlFocused, events, switched,
                   commanded, answered, bounds>>

(* Connecting, reading the list or an update of the database fails, or a    *)
(* field of the list is of another type.                                    *)
DatabaseFails(c) ==
    /\ \/ c.fn = "CarsPubSub" /\ c.todo # <<>>
       \/ c.fn = "tlSwitcher" /\ c.focus = NoLight
    /\ Dies(c)

(* A conversion of the location panics before tlSwitcher is called.         *)
PartPanics(c) == c.fn = "part" /\ Dies(c)

(* The event of a write to car-locations: its delta holds the whole state   *)
(* of a new vehicle, and of a known one perhaps only what changed.  What is *)
(* written under an empty id are fields of car-locations itself: they are   *)
(* no vehicles.                                                             *)
LocationCalls(w, r) ==
    IF r.car = NoId THEN {PartCall(w, r.pos)}
    ELSE {SwitchCall(w, r.pos)} \cup
         {e \in {PartCall(w, r.pos)} : carLocations[r.car] # Nowhere}

(* Mutant: the loop stops before the last record.                           *)
fireBaseWrite_NotLast(c) ==
    /\ c.fn = "CarsPubSub" /\ c.todo # <<>>
    /\ LET r == Head(c.todo) IN
         /\ carLocations' = [carLocations EXCEPT ![r.car] = r]
         /\ \E e \in LocationCalls(c.by, r) :
               events' = IF carLocations[r.car] # r THEN BagAdd(events, e) ELSE events
    /\ GoesOn(c, [c EXCEPT !.todo = IF Len(@) = 2 THEN <<>> ELSE Tail(@)])
    /\ UNCHANGED <<trafficLights, tlFocused, histories, bounds>>

(* One turn of the loop of CarsPubSub.  The record is written with its      *)
(* time; if it is not the one that is there, the function RTDB of the map   *)
(* is called.                                                               *)
fireBaseWrite(c) ==
    /\ c.fn = "CarsPubSub" /\ c.todo # <<>>
    /\ LET r == Head(c.todo) IN
         /\ carLocations' = [carLocations EXCEPT ![r.car] = r]
         /\ \E e \in LocationCalls(c.by, r) :
               events' = IF carLocations[r.car] # r THEN BagAdd(events, e) ELSE events
    /\ GoesOn(c, [c EXCEPT !.todo = Tail(@)])
    /\ UNCHANGED <<trafficLights, tlFocused, histories, bounds>>

(* Mutant: the light is focused before it is switched.                      *)
SwitchLight_FocusFirst(c, l) ==
    /\ c.fn = "tlSwitcher" /\ c.focus = NoLight /\ l \in c.todo
    /\ tlFocused' = l
    /\ GoesOn(c, [c EXCEPT !.focus = l, !.todo = @ \ {l}])
    /\ UNCHANGED <<carLocations, trafficLights, events, histories, bounds>>

(* tlSwitcher and fireBaseTList have the same body: they look at the lights *)
(* in any order and turn one that is in range to green.  A light that is    *)
(* green already does not change, so the controller is not called for it.   *)
SwitchLight(c, l) ==
    /\ c.fn = "tlSwitcher" /\ c.focus = NoLight /\ l \in c.todo
    /\ trafficLights' = [trafficLights EXCEPT ![l] = Green]
    /\ IF trafficLights[l] # Green
       THEN /\ events' = BagAdd(events, ControlCall(c.by, [k \in {l} |-> Green]))
            /\ commanded' = commanded \ {l} /\ failed' = failed \ {l}
            /\ UNCHANGED answered
       ELSE answered' = answered \cup {<<c.by, l>>} /\ UNCHANGED <<events, commanded, failed>>
    /\ switched' = switched \cup {l}
    /\ GoesOn(c, [c EXCEPT !.focus = l, !.todo = @ \ {l}])
    /\ UNCHANGED <<carLocations, tlFocused, lost, bounds>>

(* The update of tl-focused; an error is logged and the loop goes on.       *)
FocusLight(c) ==
    /\ c.fn = "tlSwitcher" /\ c.focus \in Named
    /\ tlFocused' \in {c.focus, tlFocused}
    /\ GoesOn(c, [c EXCEPT !.focus = NoLight])
    /\ UNCHANGED <<carLocations, trafficLights, events, histories, bounds>>

(* A light without "id": the conversion to float64 panics.                  *)
FocusPanics(c) == c.fn = "tlSwitcher" /\ c.focus \in Light \ Named /\ Dies(c)

(* The cloud takes the command for l, or one of the three calls it needs    *)
(* returns an error.                                                        *)
CommandTaken(c, l) ==
    /\ commanded' = commanded \cup {k \in {l} : c.todo[k] = trafficLights[k]}
    /\ answered' = answered \cup (({c.by} \cap Reports) \X {l})
    /\ UNCHANGED <<failed, lost>>
CommandFails(c, l) ==
    /\ failed' = failed \cup {k \in {l} : c.todo[k] = trafficLights[k]}
    /\ lost' = lost \cup (({c.by} \cap Reports) \X {l})
    /\ UNCHANGED <<commanded, answered>>

(* Mutant: the loop returns at the first error of sendCommand.              *)
sendCommand_Returns(c, l) ==
    LET rest == [c EXCEPT !.todo = [k \in DOMAIN @ \ {l} |-> @[k]]] IN
    /\ c.fn = "sendCommand" /\ l \in DOMAIN c.todo /\ c.todo[l] \in State
    /\ \/ CommandTaken(c, l) /\ GoesOn(c, rest)
       \/ CommandFails(c, l) /\ Ends(c)
    /\ UNCHANGED <<carLocations, trafficLights, tlFocused, events, switched, bounds>>

(* One turn of the controller's loop: the result of sendCommand is logged.  *)
sendCommand(c, l) ==
    /\ c.fn = "sendCommand" /\ l \in DOMAIN c.todo /\ c.todo[l] \in State
    /\ CommandTaken(c, l) \/ CommandFails(c, l)
    /\ GoesOn(c, [c EXCEPT !.todo = [k \in DOMAIN @ \ {l} |-> @[k]]])
    /\ UNCHANGED <<carLocations, trafficLights, tlFocused, events, switched, bounds>>

(* A change of a light that does not have "state": the conversion panics.   *)
ControlPanics(c, l) ==
    /\ c.fn = "sendCommand" /\ l \in DOMAIN c.todo /\ c.todo[l] = Other
    /\ Dies(c)

-----------------------------------------------------------------------------
Step(c) ==
    \/ fireBaseWrite(c) \/ FocusLight(c) \/ FocusPanics(c) \/ PartPanics(c)
    \/ \E l \in Light : SwitchLight(c, l) \/ sendCommand(c, l) \/ ControlPanics(c, l)

Platform ==
    \/ \E e \in BagToSet(events) : Deliver(e)
    \/ \E c \in BagToSet(calls) : Step(c)

Next ==
    \/ \E m \in Messages : HubPublishes(m)
    \/ \E p \in PhoneWrites : PhoneMoves(p)
    \/ \E w \in LightWrites : LightsWritten(w)
    \/ Platform
    \/ \E c \in BagToSet(calls) : DatabaseFails(c)

(* The platform delivers what it has and lets calls run.                    *)
Spec == Init /\ [][Next]_vars /\ WF_vars(Platform)

-----------------------------------------------------------------------------
(* Properties *)

(* The map never focuses a light that no function has turned to green: the  *)
(* state is written before tl-focused, and by calls that run next to each   *)
(* other and die between the two writes.                                    *)
FocusedSwitched == tlFocused # NoLight => tlFocused \in switched

(* When no call that has to do with a light waits or runs, the hub was sent *)
(* the state the light has now, after it was written, unless the cloud did  *)
(* not take that command or the call died: no change is forgotten because   *)
(* the command for another light of the same event failed, or because the   *)
(* calls for two changes overtake each other.  It need not be the last      *)
(* command the hub gets for the light.                                      *)
StateCommanded ==
    \A l \in Light :
        (\A c \in InFlight : c.fn = "sendCommand" => l \notin Reaches(c))
            => l \in commanded \cup failed

(* The lights near what a write reports.                                    *)
Asked(w) == IF w[1] = "hub" THEN Reaches(CarsCall(w[2])) ELSE Near(w[2])

(* From one end to the other, for every single report: if a vehicle or a    *)
(* phone is reported near a light, then because of that report the hub gets *)
(* the command for green or the light is found to be green already, through *)
(* three functions that know nothing of each other, repeated and overtaking *)
(* calls and a light that others write to - unless a call that dealt with   *)
(* the report died before it got to the light, or its command failed.       *)
GreenForNear ==
    \A w \in Reports : w \in writes ~> \A l \in Asked(w) : <<w, l>> \in answered \cup lost
===============================================================================
