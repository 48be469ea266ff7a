------------------------- MODULE CloudFunctionsProofs -------------------------
(***************************************************************************)
(* Proofs about the cloud functions, for any vehicles, lights, positions   *)
(* and messages, any number of writes and any number of repeated           *)
(* deliveries.  Both properties speak of the database alone; what makes    *)
(* them inductive is what the calls that wait or run have still to do      *)
(* (CallsInv).                                                             *)
(***************************************************************************)
EXTENDS CloudFunctions, SequenceTheorems, TLAPS

Change == State \cup {Other}

Sources == Reports \cup {<<"lights", w>> : w \in LightWrites}

Call ==
         [fn: {"CarsPubSub"}, by: Sources, todo: Seq(Record)]
    \cup [fn: {"tlSwitcher"}, by: Sources, todo: SUBSET Light, focus: Light \cup {NoLight}]
    \cup [fn: {"sendCommand"}, by: Sources, todo: UNION {[D -> Change] : D \in SUBSET Light}]
    \cup [fn: {"part"}, by: Sources, todo: SUBSET Light]

(* The command for the present state of the light was answered by the cloud *)
(* or given up since the light was written, or is under way.                *)
Answered(l) ==
    \/ l \in commanded \cup failed
    \/ \E c \in InFlight : Carries(c, l, trafficLights[l])

CallsInv ==
    /\ InFlight \subseteq Call
    /\ trafficLights \in [Light -> State]
    /\ tlFocused \in switched \cup {NoLight}
    /\ \A c \in InFlight : c.fn = "tlSwitcher" => c.focus \in switched \cup {NoLight}
    /\ \A l \in Light : Answered(l)

-----------------------------------------------------------------------------
(* What is in a bag after an element was added to it.                       *)
LEMMA BagAddSet ==
  ASSUME NEW b, NEW x
  PROVE  BagToSet(BagAdd(b, x)) = BagToSet(b) \cup {x}
BY DEF BagAdd, BagToSet

(* What is in a bag after one copy of an element was taken out.             *)
LEMMA BagRemoveSet ==
  ASSUME NEW b, NEW x
  PROVE  /\ BagToSet(BagRemove(b, x)) \subseteq BagToSet(b)
         /\ BagToSet(b) \ {x} \subseteq BagToSet(BagRemove(b, x))
BY DEF BagRemove, BagToSet

(* The fields of a call, by its function.                                   *)
LEMMA CallFields ==
  ASSUME NEW c \in Call
  PROVE  /\ c.by \in Sources
         /\ c.fn = "CarsPubSub" =>
              /\ c.todo \in Seq(Record)
              /\ c = [fn |-> "CarsPubSub", by |-> c.by, todo |-> c.todo]
         /\ c.fn = "tlSwitcher" =>
              /\ c.todo \in SUBSET Light /\ c.focus \in Light \cup {NoLight}
              /\ c = [fn |-> "tlSwitcher", by |-> c.by, todo |-> c.todo, focus |-> c.focus]
         /\ c.fn = "sendCommand" =>
              /\ DOMAIN c.todo \subseteq Light
              /\ c.todo = [l \in DOMAIN c.todo |-> c.todo[l]]
              /\ \A l \in DOMAIN c.todo : c.todo[l] \in Change
              /\ c = ControlCall(c.by, c.todo)
<1>1. CASE c \in [fn: {"CarsPubSub"}, by: Sources, todo: Seq(Record)]
  BY <1>1
<1>2. CASE c \in [fn: {"tlSwitcher"}, by: Sources, todo: SUBSET Light,
                  focus: Light \cup {NoLight}]
  BY <1>2
<1>3. CASE c \in [fn: {"sendCommand"}, by: Sources,
                  todo: UNION {[D -> Change] : D \in SUBSET Light}]
  <2>1. c.fn = "sendCommand" /\ c.by \in Sources /\ c = ControlCall(c.by, c.todo)
    BY <1>3 DEF ControlCall
  <2>2. PICK D \in SUBSET Light : c.todo \in [D -> Change]
    BY <1>3
  <2>3. DOMAIN c.todo = D
    BY <2>2
  <2>4. c.todo = [l \in DOMAIN c.todo |-> c.todo[l]]
    BY <2>2, <2>3
  <2>5. \A l \in DOMAIN c.todo : c.todo[l] \in Change
    BY <2>2, <2>3
  <2> QED
    BY <2>1, <2>2, <2>3, <2>4, <2>5
<1>4. CASE c \in [fn: {"part"}, by: Sources, todo: SUBSET Light]
  BY <1>4
<1> QED
  BY <1>1, <1>2, <1>3, <1>4 DEF Call

(* The calls that the model makes are calls.                                *)
LEMMA CallMade ==
  ASSUME NEW w \in Sources
  PROVE  /\ \A m \in Seq(Record) : [fn |-> "CarsPubSub", by |-> w, todo |-> m] \in Call
         /\ \A S \in SUBSET Light : \A f \in Light \cup {NoLight} :
               [fn |-> "tlSwitcher", by |-> w, todo |-> S, focus |-> f] \in Call
         /\ \A D \in SUBSET Light : \A g \in [D -> Change] : ControlCall(w, g) \in Call
         /\ \A p : SwitchCall(w, p) \in Call /\ PartCall(w, p) \in Call
<1>1. \A m \in Seq(Record) : [fn |-> "CarsPubSub", by |-> w, todo |-> m] \in Call
  BY DEF Call
<1>2. \A S \in SUBSET Light : \A f \in Light \cup {NoLight} :
        [fn |-> "tlSwitcher", by |-> w, todo |-> S, focus |-> f] \in Call
  BY DEF Call
<1>3. ASSUME NEW D \in SUBSET Light, NEW g \in [D -> Change]
      PROVE  ControlCall(w, g) \in Call
  <2>1. g \in UNION {[E -> Change] : E \in SUBSET Light}
    OBVIOUS
  <2> QED
    BY <2>1 DEF ControlCall, Call
<1>4. ASSUME NEW p
      PROVE  SwitchCall(w, p) \in Call /\ PartCall(w, p) \in Call
  <2>1. Near(p) \in SUBSET Light
    BY FunctionsAssumption DEF Near
  <2>2. PartCall(w, p) \in Call
    BY <2>1 DEF PartCall, Call
  <2> QED
    BY <1>2, <2>1, <2>2 DEF SwitchCall
<1> QED
  BY <1>1, <1>2, <1>3, <1>4

(* A new event.                                                             *)
LEMMA FlightAdd ==
  ASSUME NEW e, events' = BagAdd(events, e), UNCHANGED calls
  PROVE  InFlight' = InFlight \cup {e}
BY BagAddSet DEF InFlight

(* A call that ends.                                                        *)
LEMMA FlightEnds ==
  ASSUME NEW c, Ends(c), UNCHANGED events
  PROVE  InFlight' \subseteq InFlight /\ InFlight \ {c} \subseteq InFlight'
BY BagRemoveSet DEF InFlight, Ends

(* A call that goes on, with or without a new event.                        *)
LEMMA FlightGoesOn ==
  ASSUME NEW c, NEW d, NEW e, NEW more \in BOOLEAN,
         GoesOn(c, d),
         events' = IF more THEN BagAdd(events, e) ELSE events
  PROVE  /\ InFlight' \subseteq InFlight \cup {d, e}
         /\ ~more => InFlight' \subseteq InFlight \cup {d}
         /\ InFlight \ {c} \subseteq InFlight'
         /\ ~Returns(d) => d \in InFlight'
         /\ more => e \in InFlight'
<1>1. /\ BagToSet(calls') \subseteq BagToSet(calls) \cup {d}
      /\ BagToSet(calls) \ {c} \subseteq BagToSet(calls')
      /\ ~Returns(d) => d \in BagToSet(calls')
  <2>1. CASE Returns(d)
    BY <2>1, BagRemoveSet DEF GoesOn, WithCall
  <2>2. CASE ~Returns(d)
    BY <2>2, BagRemoveSet, BagAddSet DEF GoesOn, WithCall
  <2> QED
    BY <2>1, <2>2
<1>2. BagToSet(events') = IF more THEN BagToSet(events) \cup {e} ELSE BagToSet(events)
  BY BagAddSet
<1>3. InFlight' = BagToSet(events') \cup BagToSet(calls')
  BY DEF InFlight
<1> QED
  BY <1>1, <1>2, <1>3 DEF InFlight

(* An event that is delivered.                                              *)
LEMMA FlightDeliver ==
  ASSUME NEW e \in BagToSet(events), Deliver(e)
  PROVE  /\ InFlight' \subseteq InFlight
         /\ InFlight \ {e} \subseteq InFlight'
         /\ ~Returns(e) => e \in InFlight'
<1>1. /\ BagToSet(calls') \subseteq BagToSet(calls) \cup {e}
      /\ BagToSet(calls) \subseteq BagToSet(calls')
      /\ ~Returns(e) => e \in BagToSet(calls')
  <2>1. CASE Returns(e)
    BY <2>1 DEF Deliver, WithCall
  <2>2. CASE ~Returns(e)
    BY <2>2, BagAddSet DEF Deliver, WithCall
  <2> QED
    BY <2>1, <2>2
<1>2. /\ BagToSet(events') \subseteq BagToSet(events)
      /\ BagToSet(events) \ {e} \subseteq BagToSet(events')
  BY BagRemoveSet DEF Deliver
<1>3. InFlight' = BagToSet(events') \cup BagToSet(calls')
  BY DEF InFlight
<1> QED
  BY <1>1, <1>2, <1>3 DEF InFlight

-----------------------------------------------------------------------------
(* A step that writes to no light keeps every answer, if no call that has a *)
(* command for the present state of a light to send disappears, but for     *)
(* lights that are answered or given up.                                    *)
LEMMA AnswersKept ==
  ASSUME CallsInv, UNCHANGED trafficLights,
         commanded \subseteq commanded', failed \subseteq failed',
         \A c \in InFlight \ InFlight' : \A l \in Light \ (commanded' \cup failed') :
            ~Carries(c, l, trafficLights[l])
  PROVE  \A l \in Light : Answered(l)'
<1> SUFFICES ASSUME NEW l \in Light, l \notin commanded' \cup failed'
             PROVE  \E c \in InFlight' : Carries(c, l, trafficLights'[l])
  BY DEF Answered
<1>1. PICK c \in InFlight : Carries(c, l, trafficLights[l])
  BY DEF CallsInv, Answered
<1> QED
  BY <1>1

(* A call that has a command to send does not return.                       *)
LEMMA CarrierRuns ==
  ASSUME NEW c, NEW l, NEW s, Carries(c, l, s)
  PROVE  ~Returns(c)
BY DEF Carries, Returns

(* The hub or a phone makes an event that is not about a light's state.     *)
LEMMA AddsEvent ==
  ASSUME CallsInv, NEW e \in Call,
         e.fn = "tlSwitcher" => e.focus = NoLight,
         events' = BagAdd(events, e),
         UNCHANGED <<trafficLights, tlFocused, calls, histories>>
  PROVE  CallsInv'
<1>1. InFlight' = InFlight \cup {e}
  BY FlightAdd
<1>2. UNCHANGED <<switched, commanded, failed>>
  BY DEF histories
<1>3. \A l \in Light : Answered(l)'
  BY <1>1, <1>2, AnswersKept
<1> QED
  BY <1>1, <1>2, <1>3 DEF CallsInv

(* A message of the hub or a location of a phone.                           *)
LEMMA OutsideStep ==
  ASSUME CallsInv,
         \/ \E m \in Messages : HubPublishes(m)
         \/ \E p \in PhoneWrites : PhoneMoves(p)
  PROVE  CallsInv'
<1>1. ASSUME NEW m \in Messages, HubPublishes(m)
      PROVE  CallsInv'
  <2>1. <<"hub", m>> \in Sources /\ m \in Seq(Record)
    BY FunctionsAssumption DEF Sources, Reports
  <2>2. CarsCall(m) \in Call /\ CarsCall(m).fn = "CarsPubSub"
    BY <2>1, CallMade DEF CarsCall
  <2> QED
    BY <1>1, <2>2, AddsEvent DEF HubPublishes
<1>2. ASSUME NEW p \in PhoneWrites, PhoneMoves(p)
      PROVE  CallsInv'
  <2>1. <<"phone", p>> \in Sources
    BY DEF Sources, Reports
  <2>2. PICK e \in {SwitchCall(<<"phone", p>>, p), PartCall(<<"phone", p>>, p)} :
          events' = BagAdd(events, e)
    BY <1>2 DEF PhoneMoves
  <2>3. e \in Call
    BY <2>1, <2>2, CallMade
  <2>4. e.fn = "tlSwitcher" => e.focus = NoLight
    BY <2>2 DEF SwitchCall, PartCall
  <2> QED
    BY <1>2, <2>2, <2>3, <2>4, AddsEvent DEF PhoneMoves
<1> QED
  BY <1>1, <1>2

(* A write of others to the lights.                                         *)
LEMMA LightsWrittenStep ==
  ASSUME CallsInv, NEW w \in LightWrites, LightsWritten(w)
  PROVE  CallsInv'
<1>1. DOMAIN w \subseteq Light /\ w \in [DOMAIN w -> Change]
  BY FunctionsAssumption DEF Change
<1> DEFINE e == ControlCall(<<"lights", w>>, w)
           new == [l \in Light |-> IF l \in DOMAIN w /\ w[l] \in State
                                   THEN w[l] ELSE trafficLights[l]]
           changed == {l \in Light : new[l] # trafficLights[l]}
<1>2. InFlight' = InFlight \cup {e}
  BY FlightAdd DEF LightsWritten
<1>3. UNCHANGED <<tlFocused, calls, switched>>
  BY DEF LightsWritten
<1>4. /\ trafficLights' = new
      /\ commanded' = commanded \ changed /\ failed' = failed \ changed
  BY DEF LightsWritten
<1>5. e.fn = "sendCommand" /\ e.todo = w
  BY DEF ControlCall
<1>6. e \in Call
  <2>1. <<"lights", w>> \in Sources
    BY DEF Sources
  <2> QED
    BY <1>1, <2>1, CallMade
<1> HIDE DEF e
<1>7. ASSUME NEW l \in Light
      PROVE  Answered(l)'
  <2>1. CASE l \in changed
    <3>1. l \in DOMAIN w /\ trafficLights'[l] = w[l]
      BY <1>4, <2>1
    <3>2. Carries(e, l, trafficLights'[l])
      BY <1>5, <3>1 DEF Carries
    <3> QED
      BY <1>2, <3>2 DEF Answered
  <2>2. CASE l \notin changed
    <3>1. trafficLights'[l] = trafficLights[l]
      BY <1>4, <2>2
    <3>2. Answered(l)
      BY DEF CallsInv
    <3> QED
      BY <1>2, <1>4, <2>2, <3>1, <3>2 DEF Answered
  <2> QED
    BY <2>1, <2>2
<1>8. trafficLights' \in [Light -> State]
  BY <1>4 DEF CallsInv
<1> QED
  BY <1>2, <1>3, <1>5, <1>6, <1>7, <1>8 DEF CallsInv

(* The platform starts a call.                                              *)
LEMMA DeliverStep ==
  ASSUME CallsInv, NEW e \in BagToSet(events), Deliver(e)
  PROVE  CallsInv'
<1>1. /\ InFlight' \subseteq InFlight
      /\ InFlight \ {e} \subseteq InFlight'
      /\ ~Returns(e) => e \in InFlight'
  BY FlightDeliver
<1>2. UNCHANGED <<trafficLights, tlFocused, switched, commanded, failed>>
  BY DEF Deliver, histories
<1>3. \A l \in Light : Answered(l)'
  BY <1>1, <1>2, CarrierRuns, AnswersKept
<1> QED
  BY <1>1, <1>2, <1>3 DEF CallsInv

(* A call that dies: what it had still to send is given up.                 *)
LEMMA DiesStep ==
  ASSUME CallsInv, NEW c, Dies(c)
  PROVE  CallsInv'
<1>1. InFlight' \subseteq InFlight /\ InFlight \ {c} \subseteq InFlight'
  BY FlightEnds DEF Dies
<1>2. /\ UNCHANGED <<trafficLights, tlFocused, switched, commanded>>
      /\ failed' = failed \cup {l \in Light : Carries(c, l, trafficLights[l])}
  BY DEF Dies
<1>3. \A l \in Light : Answered(l)'
  BY <1>1, <1>2, AnswersKept
<1> QED
  BY <1>1, <1>2, <1>3 DEF CallsInv

(* One record of a message is stored.                                       *)
LEMMA fireBaseWriteStep ==
  ASSUME CallsInv, NEW c \in InFlight, fireBaseWrite(c)
  PROVE  CallsInv'
<1> DEFINE r == Head(c.todo)
           d == [fn |-> "CarsPubSub", by |-> c.by, todo |-> Tail(c.todo)]
           more == carLocations[r.car] # r
<1>1. c \in Call /\ c.fn = "CarsPubSub" /\ c.todo # <<>>
  BY DEF CallsInv, fireBaseWrite
<1>2. /\ c.by \in Sources /\ c.todo \in Seq(Record)
      /\ c = [fn |-> "CarsPubSub", by |-> c.by, todo |-> c.todo]
  BY <1>1, CallFields
<1>3. Tail(c.todo) \in Seq(Record)
  BY <1>1, <1>2, HeadTailProperties
<1>4. d \in Call /\ d.fn = "CarsPubSub"
  BY <1>2, <1>3, CallMade
<1>5. PICK e \in LocationCalls(c.by, r) :
        events' = IF more THEN BagAdd(events, e) ELSE events
  BY DEF fireBaseWrite
<1>6. e \in {SwitchCall(c.by, r.pos), PartCall(c.by, r.pos)}
  BY <1>5 DEF LocationCalls
<1>7. e \in Call
  BY <1>2, <1>6, CallMade
<1>8. e.fn = "tlSwitcher" => e.focus = NoLight
  BY <1>6 DEF SwitchCall, PartCall
<1>9. [c EXCEPT !.todo = Tail(@)] = d
  <2> DEFINE Made(w, m) == [fn |-> "CarsPubSub", by |-> w, todo |-> m]
  <2>1. \A w, m, t : [Made(w, m) EXCEPT !.todo = t] = Made(w, t)
    OBVIOUS
  <2>2. c = Made(c.by, c.todo) /\ d = Made(c.by, Tail(c.todo))
    BY <1>2
  <2> HIDE DEF Made, d
  <2>3. [c EXCEPT !.todo = Tail(@)] = [c EXCEPT !.todo = Tail(c.todo)]
    OBVIOUS
  <2>4. [Made(c.by, c.todo) EXCEPT !.todo = Tail(c.todo)] = Made(c.by, Tail(c.todo))
    BY <2>1
  <2> QED
    BY <2>2, <2>3, <2>4, Zenon
<1>10. GoesOn(c, d)
  BY <1>9 DEF fireBaseWrite
<1>11. UNCHANGED <<trafficLights, tlFocused, switched, commanded, failed>>
  BY DEF fireBaseWrite, histories
<1> HIDE DEF d, more
<1>12. /\ InFlight' \subseteq InFlight \cup {d, e}
       /\ InFlight \ {c} \subseteq InFlight'
  <2>1. more \in BOOLEAN
    BY DEF more
  <2> QED
    BY <1>5, <1>10, <2>1, FlightGoesOn
<1>13. \A l, s : ~Carries(c, l, s)
  BY <1>1 DEF Carries
<1>14. \A l \in Light : Answered(l)'
  BY <1>11, <1>12, <1>13, AnswersKept
<1> QED
  BY <1>4, <1>7, <1>8, <1>11, <1>12, <1>14 DEF CallsInv

(* A light that was switched is focused.                                    *)
LEMMA FocusLightStep ==
  ASSUME CallsInv, NEW c \in InFlight, FocusLight(c)
  PROVE  CallsInv'
<1> DEFINE d == [fn |-> "tlSwitcher", by |-> c.by, todo |-> c.todo, focus |-> NoLight]
<1>1. c \in Call /\ c.fn = "tlSwitcher" /\ c.focus \in Light
  BY FunctionsAssumption DEF CallsInv, FocusLight
<1>2. /\ c.by \in Sources /\ c.todo \in SUBSET Light
      /\ c = [fn |-> "tlSwitcher", by |-> c.by, todo |-> c.todo, focus |-> c.focus]
  BY <1>1, CallFields
<1>3. d \in Call /\ d.fn = "tlSwitcher" /\ d.focus = NoLight
  BY <1>2, CallMade
<1>4. [c EXCEPT !.focus = NoLight] = d
  BY <1>2
<1>5. GoesOn(c, d) /\ events' = events
  BY <1>4 DEF FocusLight
<1>6. /\ UNCHANGED <<trafficLights, switched, commanded, failed>>
      /\ tlFocused' \in {c.focus, tlFocused}
  BY DEF FocusLight, histories
<1> HIDE DEF d
<1>7. /\ InFlight' \subseteq InFlight \cup {d}
      /\ InFlight \ {c} \subseteq InFlight'
  <2>1. events' = IF FALSE THEN BagAdd(events, d) ELSE events
    BY <1>5
  <2> QED
    BY <1>5, <2>1, FlightGoesOn
<1>8. \A l, s : ~Carries(c, l, s)
  BY <1>1 DEF Carries
<1>9. \A l \in Light : Answered(l)'
  BY <1>6, <1>7, <1>8, AnswersKept
<1>10. tlFocused' \in switched' \cup {NoLight}
  BY <1>1, <1>6 DEF CallsInv
<1> QED
  BY <1>3, <1>6, <1>7, <1>9, <1>10 DEF CallsInv

(* A light is turned to green; a change makes an event for the controller.  *)
LEMMA SwitchLightStep ==
  ASSUME CallsInv, NEW c \in InFlight, NEW k \in Light, SwitchLight(c, k)
  PROVE  CallsInv'
<1> DEFINE d == [fn |-> "tlSwitcher", by |-> c.by, todo |-> c.todo \ {k}, focus |-> k]
           e == ControlCall(c.by, [l \in {k} |-> Green])
           more == trafficLights[k] # Green
<1>1. c \in Call /\ c.fn = "tlSwitcher"
  BY DEF CallsInv, SwitchLight
<1>2. /\ c.by \in Sources /\ c.todo \in SUBSET Light
      /\ c = [fn |-> "tlSwitcher", by |-> c.by, todo |-> c.todo, focus |-> c.focus]
  BY <1>1, CallFields
<1>3. d \in Call /\ d.fn = "tlSwitcher" /\ d.focus = k
  BY <1>2, CallMade
<1>4. [c EXCEPT !.focus = k, !.todo = @ \ {k}] = d
  <2> DEFINE b == [fn |-> "tlSwitcher", by |-> c.by, todo |-> c.todo, focus |-> k]
  <2>1. [c EXCEPT !.focus = k, !.todo = @ \ {k}] = [[c EXCEPT !.focus = k] EXCEPT !.todo = @ \ {k}]
    OBVIOUS
  <2>2. [c EXCEPT !.focus = k] = b
    BY <1>2
  <2>3. [b EXCEPT !.todo = @ \ {k}] = [b EXCEPT !.todo = c.todo \ {k}]
    OBVIOUS
  <2>4. [b EXCEPT !.todo = c.todo \ {k}] = d
    OBVIOUS
  <2> HIDE DEF b, d
  <2> QED
    BY <2>1, <2>2, <2>3, <2>4
<1>5. e \in Call
  <2>1. [l \in {k} |-> Green] \in [{k} -> Change]
    BY DEF Change, State, Green
  <2> QED
    BY <1>2, <2>1, CallMade
<1>6. e.fn = "sendCommand" /\ Carries(e, k, Green)
  BY DEF Carries, ControlCall
<1>7. GoesOn(c, d) /\ events' = IF more THEN BagAdd(events, e) ELSE events
  BY <1>4 DEF SwitchLight
<1>8. /\ UNCHANGED tlFocused /\ switched' = switched \cup {k}
      /\ trafficLights' = [trafficLights EXCEPT ![k] = Green]
      /\ more => commanded' = commanded \ {k} /\ failed' = failed \ {k}
      /\ ~more => UNCHANGED <<commanded, failed>>
  BY DEF SwitchLight
<1>9. trafficLights \in [Light -> State] /\ Green \in State
  BY DEF CallsInv, State, Green
<1>10. more <=> trafficLights[k] # Green
  OBVIOUS
<1> HIDE DEF d, e, more
<1>11. /\ InFlight' \subseteq InFlight \cup {d, e}
       /\ InFlight \ {c} \subseteq InFlight'
       /\ more => e \in InFlight'
  <2>1. more \in BOOLEAN
    BY DEF more
  <2> QED
    BY <1>7, <2>1, FlightGoesOn
<1>12. \A l, s : ~Carries(c, l, s)
  BY <1>1 DEF Carries
<1>13. ASSUME NEW l \in Light
       PROVE  Answered(l)'
  <2>1. CASE l = k /\ more
    <3>1. trafficLights'[l] = Green
      BY <1>8, <1>9, <2>1
    <3> QED
      BY <1>6, <1>11, <2>1, <3>1 DEF Answered
  <2>2. CASE ~(l = k /\ more)
    <3>1. trafficLights'[l] = trafficLights[l]
      BY <1>8, <1>9, <1>10, <2>2
    <3>2. Answered(l)
      BY DEF CallsInv
    <3>3. CASE l \in commanded \cup failed
      BY <1>8, <2>2, <3>3 DEF Answered
    <3>4. ASSUME NEW b \in InFlight, Carries(b, l, trafficLights[l])
          PROVE  Answered(l)'
      <4>1. b \in InFlight'
        BY <1>11, <1>12, <3>4
      <4> QED
        BY <3>1, <3>4, <4>1 DEF Answered
    <3> QED
      BY <3>2, <3>3, <3>4 DEF Answered
  <2> QED
    BY <2>1, <2>2
<1>14. trafficLights' \in [Light -> State]
  BY <1>8, <1>9
<1>15. \A b \in InFlight' : b.fn = "tlSwitcher" => b.focus \in switched' \cup {NoLight}
  BY <1>3, <1>6, <1>8, <1>11 DEF CallsInv
<1>16. InFlight' \subseteq Call
  BY <1>3, <1>5, <1>11 DEF CallsInv
<1> QED
  BY <1>8, <1>13, <1>14, <1>15, <1>16 DEF CallsInv

(* The call goes on with the other lights, whether or not the cloud takes   *)
(* the command.                                                             *)
LEMMA sendCommandStep ==
  ASSUME CallsInv, NEW c \in InFlight, NEW k \in Light, sendCommand(c, k)
  PROVE  CallsInv'
<1> DEFINE w == [l \in DOMAIN c.todo \ {k} |-> c.todo[l]]
           d == ControlCall(c.by, w)
<1>1. c \in Call /\ c.fn = "sendCommand" /\ k \in DOMAIN c.todo
  BY DEF CallsInv, sendCommand
<1>2. /\ c.by \in Sources /\ DOMAIN c.todo \subseteq Light
      /\ \A l \in DOMAIN c.todo : c.todo[l] \in Change
      /\ c = ControlCall(c.by, c.todo)
  BY <1>1, CallFields
<1>3. d \in Call
  <2>1. w \in [DOMAIN c.todo \ {k} -> Change]
    BY <1>2
  <2> QED
    BY <1>2, <2>1, CallMade
<1>4. d.fn = "sendCommand" /\ \A l, s : Carries(d, l, s) <=> l # k /\ Carries(c, l, s)
  BY <1>1 DEF Carries, ControlCall
<1>5. [c EXCEPT !.todo = [l \in DOMAIN @ \ {k} |-> @[l]]] = d
  BY <1>2 DEF ControlCall
<1>6. GoesOn(c, d) /\ events' = events
  BY <1>5 DEF sendCommand
<1>7. UNCHANGED <<trafficLights, tlFocused, switched>>
  BY DEF sendCommand
<1>8. /\ commanded \subseteq commanded' /\ failed \subseteq failed'
      /\ Carries(c, k, trafficLights[k]) => k \in commanded' \cup failed'
  BY DEF sendCommand, CommandTaken, CommandFails, Carries
<1> HIDE DEF d, w
<1>9. /\ InFlight' \subseteq InFlight \cup {d}
      /\ InFlight \ {c} \subseteq InFlight'
      /\ ~Returns(d) => d \in InFlight'
  <2>1. events' = IF FALSE THEN BagAdd(events, d) ELSE events
    BY <1>6
  <2> QED
    BY <1>6, <2>1, FlightGoesOn
<1>10. ASSUME NEW l \in Light, l \notin commanded' \cup failed'
       PROVE  \E b \in InFlight' : Carries(b, l, trafficLights'[l])
  <2>1. PICK b \in InFlight : Carries(b, l, trafficLights[l])
    BY <1>8, <1>10 DEF CallsInv, Answered
  <2>2. CASE b # c
    BY <1>7, <1>9, <2>1, <2>2
  <2>3. CASE b = c
    <3>1. Carries(d, l, trafficLights[l])
      BY <1>4, <1>8, <1>10, <2>1, <2>3
    <3>2. d \in InFlight'
      BY <1>9, <3>1, CarrierRuns
    <3> QED
      BY <1>7, <3>1, <3>2
  <2> QED
    BY <2>2, <2>3
<1>11. \A l \in Light : Answered(l)'
  BY <1>10 DEF Answered
<1>12. InFlight' \subseteq Call
  BY <1>3, <1>9 DEF CallsInv
<1>13. \A b \in InFlight' : b.fn = "tlSwitcher" => b.focus \in switched' \cup {NoLight}
  BY <1>4, <1>7, <1>9 DEF CallsInv
<1> QED
  BY <1>7, <1>11, <1>12, <1>13 DEF CallsInv

-----------------------------------------------------------------------------
(* Every step keeps the invariant.                                          *)
LEMMA CallsNext ==
  ASSUME CallsInv, [Next]_vars
  PROVE  CallsInv'
<1>1. CASE \E c \in BagToSet(calls) : Step(c) \/ DatabaseFails(c)
  <2>1. PICK c \in BagToSet(calls) : Step(c) \/ DatabaseFails(c)
    BY <1>1
  <2>2. c \in InFlight
    BY DEF InFlight
  <2>3. CASE Dies(c)
    BY <2>3, DiesStep
  <2> QED
    BY <2>1, <2>2, <2>3, fireBaseWriteStep, FocusLightStep, SwitchLightStep, sendCommandStep
    DEF Step, DatabaseFails, FocusPanics, PartPanics, ControlPanics
<1>2. CASE \E w \in LightWrites : LightsWritten(w)
  BY <1>2, LightsWrittenStep
<1>3. CASE \E e \in BagToSet(events) : Deliver(e)
  BY <1>3, DeliverStep
<1>4. CASE UNCHANGED vars
  BY <1>4 DEF vars, histories, CallsInv, InFlight, Answered, Carries
<1> QED
  BY <1>1, <1>2, <1>3, <1>4, OutsideStep DEF Next, Platform

(* Nothing waits or runs at the beginning, and every light is red.          *)
LEMMA CallsInit ==
  ASSUME Init
  PROVE  CallsInv
<1>1. InFlight = {}
  BY DEF Init, InFlight, BagToSet, EmptyBag, SetToBag
<1> QED
  BY <1>1 DEF Init, CallsInv, Answered, State, Red

(* What the map focuses, some function turned to green: FocusedSwitched     *)
(* holds of every behaviour of tlSwitcher's calls, whichever of them die.   *)
THEOREM FocusCorrect == Spec => []FocusedSwitched
<1>1. CallsInv => FocusedSwitched
  BY DEF CallsInv, FocusedSwitched
<1> QED
  BY <1>1, CallsInit, CallsNext, PTL DEF Spec

(* The present state of a light that nothing is under way for was sent to   *)
(* the hub after it was written, unless its command failed or the call that *)
(* had to send it died: StateCommanded holds of every behaviour.            *)
THEOREM CommandedCorrect == Spec => []StateCommanded
<1>1. CallsInv => StateCommanded
  <2> SUFFICES ASSUME CallsInv, NEW l \in Light,
                      \A c \in InFlight : c.fn = "sendCommand" => l \notin Reaches(c)
               PROVE  l \in commanded \cup failed
    BY DEF StateCommanded
  <2>1. Answered(l)
    BY DEF CallsInv
  <2>2. \A c : \A s : Carries(c, l, s) => c.fn = "sendCommand" /\ l \in Reaches(c)
    BY DEF Carries, Reaches
  <2> QED
    BY <2>1, <2>2 DEF Answered
<1> QED
  BY <1>1, CallsInit, CallsNext, PTL DEF Spec

===============================================================================
