---------------------------- MODULE MapPageProofs -----------------------------
(***************************************************************************)
(* Proofs about the web map, for any lights and trucks and any number of   *)
(* pending timers.  Both properties speak of a page at rest; what leads    *)
(* there is what the timers that are still pending will do (ButtonInv for  *)
(* the button, SettleInv for the lights).                                  *)
(***************************************************************************)
EXTENDS MapPage, SequenceTheorems, TLAPS

(* What a timer of the button sets.                                         *)
Labels == {"unfolow", " "}

(* While a truck is followed, the last pending timer of the button will     *)
(* offer to stop, or the button does so already.                            *)
ButtonInv ==
    /\ labelTimers \in Seq(Labels)
    /\ folowCheckId # NoTruck =>
         /\ folowCheckId = target
         /\ labelTimers = <<>> => class = "unfolow"
         /\ labelTimers # <<>> => labelTimers[Len(labelTimers)] = "unfolow"

-----------------------------------------------------------------------------
OfLight(e) == IF e = Main THEN focused ELSE e

(* The last pending timer of e will set s.                                  *)
LastSets(e, s) ==
    \E i \in 1..Len(timers) :
       /\ timers[i] = <<e, s>>
       /\ \A j \in 1..Len(timers) : j > i => timers[j][1] # e

OneTimer(e) ==
    \A i, j \in 1..Len(timers) : timers[i][1] = e /\ timers[j][1] = e => i = j

(* An element shows the last state heard, or will when its timers are over; *)
(* until the second change it is yellow and has one timer.                  *)
Tracks(e) ==
    LET h == heard[OfLight(e)]
    IN /\ ~Pending(e) => h = Yellow \/ shown[e] = h
       /\ Pending(e) =>
            /\ burst[e] # 0
            /\ h = Yellow \/ LastSets(e, h)
            /\ burst[e] = 1 => shown[e] = Yellow /\ OneTimer(e)

Tracked(e) == (e = Main \/ loaded) /\ OfLight(e) \in Light /\ burst[e] < TooMany

PageType ==
    /\ loaded \in BOOLEAN
    /\ heard \in [Light -> State]
    /\ shown \in [Element -> State]
    /\ timers \in Seq(Element \X State)
    /\ burst \in [Element -> 0..TooMany]

SettleInv ==
    /\ PageType
    /\ loaded \/ timers = <<>>
    /\ \A e \in drawn : e = Main \/ loaded
    /\ \A e \in Element : Tracked(e) => Tracks(e)

-----------------------------------------------------------------------------

(* The button *)

(* Every event of the page keeps the button and its timers in step.         *)
LEMMA ButtonNext == ButtonInv /\ [Next]_vars => ButtonInv'
<1> SUFFICES ASSUME ButtonInv, [Next]_vars PROVE ButtonInv'
  OBVIOUS
<1>0. labelTimers \in Seq(Labels)
  BY DEF ButtonInv
<1>1. "unfolow" \in Labels /\ " " \in Labels
  BY DEF ButtonInv, Labels
<1>2. CASE UNCHANGED buttonVars
  BY <1>2 DEF ButtonInv, buttonVars
<1>3. CASE \E t \in Truck : changeCarIdGauge(t)
  BY <1>3 DEF ButtonInv, changeCarIdGauge
<1>4. CASE folowCar
  <2>1. CASE class # "unfolow"
    <3>1. folowCheckId' = target /\ target' = target
          /\ labelTimers' = Append(labelTimers, "unfolow")
      BY <1>4, <2>1 DEF folowCar
    <3>2. /\ labelTimers' \in Seq(Labels) /\ labelTimers' # <<>>
          /\ labelTimers'[Len(labelTimers')] = "unfolow"
      <4> DEFINE x == "unfolow"
      <4>1. x \in Labels /\ labelTimers' = Append(labelTimers, x)
        BY <1>1, <3>1
      <4> HIDE DEF x
      <4>2. /\ labelTimers' \in Seq(Labels) /\ labelTimers' # <<>>
            /\ labelTimers'[Len(labelTimers')] = x
        BY <1>0, <4>1, AppendProperties
      <4> QED BY <4>2 DEF x
    <3> QED BY <3>1, <3>2 DEF ButtonInv
  <2>2. CASE class = "unfolow"
    <3>1. folowCheckId' = NoTruck /\ labelTimers' = Append(labelTimers, " ")
      BY <1>4, <2>2 DEF folowCar
    <3>2. labelTimers' \in Seq(Labels)
      <4> DEFINE x == " "
      <4>1. x \in Labels /\ labelTimers' = Append(labelTimers, x)
        BY <1>1, <3>1
      <4> HIDE DEF x
      <4> QED BY <1>0, <4>1, AppendProperties
    <3> QED BY <3>1, <3>2 DEF ButtonInv
  <2> QED BY <2>1, <2>2
<1>5. CASE LabelChanges
  <2>1. /\ labelTimers # <<>> /\ class' = Head(labelTimers)
        /\ labelTimers' = Tail(labelTimers)
        /\ folowCheckId' = folowCheckId /\ target' = target
    BY <1>5 DEF LabelChanges
  <2>2. /\ labelTimers' \in Seq(Labels) /\ Head(labelTimers) = labelTimers[1]
        /\ Len(labelTimers) \in Nat /\ Len(labelTimers) > 0
        /\ Len(labelTimers') = Len(labelTimers) - 1
        /\ \A i \in 1..Len(labelTimers') : labelTimers'[i] = labelTimers[i + 1]
    <3>1. labelTimers \in Seq(Labels) /\ labelTimers # <<>> /\ labelTimers' = Tail(labelTimers)
      BY <1>0, <2>1
    <3> QED BY <3>1, HeadTailProperties, EmptySeq
  <2>3. ASSUME folowCheckId # NoTruck
        PROVE  /\ labelTimers' = <<>> => class' = "unfolow"
               /\ labelTimers' # <<>> => labelTimers'[Len(labelTimers')] = "unfolow"
    <3>1. labelTimers[Len(labelTimers)] = "unfolow"
      BY <2>1, <2>3 DEF ButtonInv
    <3>2. CASE labelTimers' = <<>>
      <4>1. Len(labelTimers) = 1
        BY <2>2, <3>2
      <4> QED BY <2>1, <2>2, <3>1, <3>2, <4>1
    <3>3. CASE labelTimers' # <<>>
      <4>1. Len(labelTimers') > 0 /\ Len(labelTimers') \in Nat
        BY <2>2, <3>3, EmptySeq
      <4>2. /\ Len(labelTimers') \in 1..Len(labelTimers')
            /\ Len(labelTimers') + 1 = Len(labelTimers)
        BY <2>2, <4>1
      <4> QED BY <2>2, <3>1, <3>3, <4>2
    <3> QED BY <3>2, <3>3
  <2> QED BY <2>1, <2>2, <2>3 DEF ButtonInv
<1>6. CASE Reload
  BY <1>6, EmptySeq DEF Reload, ButtonInv
<1> QED BY <1>2, <1>3, <1>4, <1>5, <1>6 DEF Next, LoadLights, YellowOver, draw,
           LightChanged, changeTrafficLightFocused, vars

(* Whenever the button is at rest and the map follows a truck, it is the    *)
(* truck of the panel and the button offers to stop, after any sequence of  *)
(* clicks and for any number of them within the 100 ms.                     *)
THEOREM ButtonCorrect == Spec => []UnfollowOffered
<1>1. Init => ButtonInv
  BY EmptySeq DEF Init, ButtonInv
<1>2. ButtonInv => UnfollowOffered
  BY DEF ButtonInv, UnfollowOffered
<1> QED BY <1>1, <1>2, ButtonNext, PTL DEF Spec

-----------------------------------------------------------------------------
(* The lights *)

(* Pending in terms of the length of the queue.                             *)
LEMMA PendingIndex ==
  ASSUME timers \in Seq(Element \X State), NEW e
  PROVE  Pending(e) <=> \E i \in 1..Len(timers) : timers[i][1] = e
BY DEF Pending

(* An element the step does not concern: what is shown, counted and heard   *)
(* of it stays, and its timers stay in their order.                         *)
LEMMA SameElement ==
  ASSUME NEW e, Tracks(e),
         heard'[OfLight(e)'] = heard[OfLight(e)], heard[OfLight(e)] \in State,
         shown'[e] = shown[e], burst'[e] = burst[e],
         Pending(e)' <=> Pending(e),
         \A s \in State : LastSets(e, s) => LastSets(e, s)',
         OneTimer(e) => OneTimer(e)'
  PROVE  Tracks(e)'
<1> SUFFICES ASSUME NEW h \in State, h = heard[OfLight(e)]
             PROVE  Tracks(e)'
  OBVIOUS
<1>1. /\ ~Pending(e) => h = Yellow \/ shown[e] = h
      /\ Pending(e) => /\ burst[e] # 0
                       /\ h = Yellow \/ LastSets(e, h)
                       /\ burst[e] = 1 => shown[e] = Yellow /\ OneTimer(e)
  BY DEF Tracks
<1>2. /\ ~Pending(e)' => h = Yellow \/ shown'[e] = h
      /\ Pending(e)' => /\ burst'[e] # 0
                        /\ h = Yellow \/ LastSets(e, h)'
                        /\ burst'[e] = 1 => shown'[e] = Yellow /\ OneTimer(e)'
  BY <1>1
<1>3. (heard[OfLight(e)])' = h
  OBVIOUS
<1> QED BY <1>2, <1>3 DEF Tracks

(* What is counted before anything was heard.                               *)
LEMMA UnseenType == Unseen \in [Element -> 0..TooMany]
BY DEF Unseen, TooMany

(* The page starts with nothing it was told of.                             *)
LEMMA SettleInit == Init => SettleInv
<1> SUFFICES ASSUME Init PROVE SettleInv
  OBVIOUS
<1>1. PageType
  <2>1. Yellow \in State /\ DbState \subseteq State
    BY PageAssumption DEF Yellow, State
  <2>2. heard \in [Light -> State] /\ shown \in [Element -> State]
    BY <2>1 DEF Init
  <2>3. burst \in [Element -> 0..TooMany]
    BY UnseenType DEF Init
  <2> QED BY <2>2, <2>3, EmptySeq DEF Init, PageType
<1>2. \A e \in Element : ~Tracked(e)
  BY DEF Init, Tracked, Unseen, TooMany
<1>3. \A e \in drawn : e = Main \/ loaded
  BY DEF Init
<1>4. timers = <<>>
  BY DEF Init
<1> QED BY <1>1, <1>2, <1>3, <1>4 DEF SettleInv

(* Steps that leave the timers alone: loading, drawing, the focus, another  *)
(* load of the page, and all of the button.                                 *)
LEMMA NoTimerStep ==
  ASSUME SettleInv, [Next]_vars, ~YellowOver,
         ~\E l \in Light, s \in DbState : LightChanged(l, s)
  PROVE  SettleInv'
<1> USE DEF SettleInv
<1>1. CASE UNCHANGED lightVars
  <2>1. PageType'
    BY <1>1 DEF PageType, lightVars
  <2>2. \A e \in Element : Tracked(e)' => Tracks(e)'
    BY SMTT(30), <1>1 DEF Tracked, Tracks, OfLight, Pending, LastSets, OneTimer, lightVars, TooMany, Yellow
  <2> QED BY <1>1, <2>1, <2>2 DEF lightVars
<1>2. CASE LoadLights
  <2>1. /\ ~loaded /\ loaded' = TRUE
        /\ shown' = [e \in Element |-> IF e = Main THEN shown[e] ELSE heard[e]]
        /\ UNCHANGED <<heard, drawn, focused, timers, burst>>
        /\ timers = <<>>
    BY <1>2 DEF LoadLights
  <2>2. PageType'
    <3>1. shown' \in [Element -> State]
      BY <2>1 DEF PageType, Element
    <3> QED BY <2>1, <3>1 DEF PageType
  <2>3. ASSUME NEW e \in Element, Tracked(e)' PROVE Tracks(e)'
    <3>1. \A x : ~Pending(x)'
      BY <2>1 DEF Pending
    <3>2. OfLight(e)' = OfLight(e)
      BY <2>1 DEF OfLight
    <3>3. CASE e = Main
      <4>1. Tracked(e) /\ Tracks(e) /\ ~Pending(e)
        BY <2>1, <2>3, <3>2, <3>3 DEF Tracked, Pending
      <4>2. shown'[e] = shown[e]
        BY <2>1, <3>3
      <4> QED BY <2>1, <3>1, <3>2, <4>1, <4>2 DEF Tracks, Yellow
    <3>4. CASE e # Main
      <4>1. OfLight(e) = e /\ shown'[e] = heard[e]
        BY <2>1, <3>4 DEF OfLight
      <4> QED BY <2>1, <3>1, <3>2, <4>1 DEF Tracks
    <3> QED BY <3>3, <3>4
  <2> QED BY <2>1, <2>2, <2>3
<1>3. CASE \E l \in Light : draw(l)
  <2>1. /\ loaded /\ UNCHANGED <<loaded, heard, shown, focused, timers, burst>>
    BY <1>3 DEF draw
  <2>2. PageType'
    BY <2>1 DEF PageType
  <2>3. ASSUME NEW e \in Element, Tracked(e)' PROVE Tracks(e)'
    <3>1. Tracked(e)
      BY <2>1, <2>3 DEF Tracked, OfLight
    <3>2. Tracks(e)
      BY <3>1
    <3> QED BY <2>1, <3>2 DEF Tracks, OfLight, Pending, LastSets, OneTimer
  <2> QED BY <2>1, <2>2, <2>3
<1>4. CASE \E l \in Light \cup {Unknown} : changeTrafficLightFocused(l)
  <2>1. PICK l \in Light \cup {Unknown} : changeTrafficLightFocused(l)
    BY <1>4
  <2>2. /\ loaded /\ focused' = l
        /\ shown' = IF l \in Light THEN [shown EXCEPT ![Main] = heard[l]] ELSE shown
        /\ burst' = [burst EXCEPT ![Main] = IF Pending(Main) THEN TooMany ELSE 0]
        /\ UNCHANGED <<loaded, heard, drawn, timers>>
    BY <2>1 DEF changeTrafficLightFocused
  <2>3. PageType'
    <3>1. shown' \in [Element -> State]
      BY <2>2 DEF PageType
    <3>2. 0 \in 0..TooMany /\ TooMany \in 0..TooMany
      BY DEF TooMany
    <3>3. burst' \in [Element -> 0..TooMany]
      <4> DEFINE v == IF Pending(Main) THEN TooMany ELSE 0
      <4>1. v \in 0..TooMany /\ burst' = [burst EXCEPT ![Main] = v]
        BY <2>2, <3>2
      <4> HIDE DEF v
      <4> QED BY <4>1 DEF PageType
    <3> QED BY <2>2, <3>1, <3>3 DEF PageType
  <2>4. ASSUME NEW e \in Element, Tracked(e)' PROVE Tracks(e)'
    <3>1. Pending(e)' <=> Pending(e)
      BY <2>2 DEF Pending
    <3>2. CASE e = Main
      <4>1. l \in Light /\ OfLight(e)' = l
        BY <2>2, <2>4, <3>2 DEF Tracked, OfLight
      <4>2. shown'[e] = heard'[l]
        BY <2>2, <3>2, <4>1 DEF PageType
      <4>3. ~Pending(e)'
        <5>1. burst'[Main] # TooMany
          BY <2>4, <3>2 DEF Tracked, TooMany
        <5>2. burst'[Main] = IF Pending(Main) THEN TooMany ELSE 0
          BY <2>2, <3>2 DEF PageType
        <5> QED BY <3>1, <3>2, <5>1, <5>2
      <4> QED BY <4>1, <4>2, <4>3 DEF Tracks
    <3>3. CASE e # Main
      <4>1. /\ OfLight(e)' = e /\ OfLight(e) = e
            /\ shown'[e] = shown[e] /\ burst'[e] = burst[e] /\ heard' = heard
        BY <2>2, <3>3 DEF OfLight, PageType
      <4>2. Tracks(e)
        BY <2>2, <2>4, <3>3, <4>1 DEF Tracked
      <4>3. e \in Light /\ heard[e] \in State
        BY <3>3 DEF Element, PageType
      <4>4. /\ \A s \in State : LastSets(e, s) => LastSets(e, s)'
            /\ OneTimer(e) => OneTimer(e)'
        BY <2>2 DEF LastSets, OneTimer
      <4> QED BY <3>1, <4>1, <4>2, <4>3, <4>4, SameElement
    <3> QED BY <3>2, <3>3
  <2> QED BY <2>2, <2>3, <2>4
<1>5. CASE Reload
  <2>1. PageType'
    <3>1. Yellow \in State
      BY DEF Yellow, State
    <3>2. shown' \in [Element -> State] /\ heard' \in [Light -> State]
      BY <1>5, <3>1 DEF Reload, PageType
    <3>3. burst' \in [Element -> 0..TooMany]
      BY <1>5, UnseenType DEF Reload
    <3> QED BY <1>5, <3>2, <3>3, EmptySeq DEF Reload, PageType
  <2>2. \A e \in Element : ~Tracked(e)'
    BY <1>5 DEF Reload, Tracked, Unseen, TooMany
  <2> QED BY <1>5, <2>1, <2>2 DEF Reload
<1> QED BY <1>1, <1>2, <1>3, <1>4, <1>5 DEF Next, folowCar, LabelChanges,
           changeCarIdGauge, vars

(* A timer fires: the element it belongs to shows its state; if that was    *)
(* the last timer of the element, the state is the one last heard.          *)
LEMMA YellowOverStep ==
  ASSUME SettleInv, YellowOver
  PROVE  SettleInv'
<1> USE DEF SettleInv
<1> DEFINE n == Len(timers)
           x == Head(timers)[1]
           c == Head(timers)[2]
<1>1. /\ timers # <<>> /\ timers' = Tail(timers)
      /\ shown' = [shown EXCEPT ![x] = c]
      /\ UNCHANGED <<loaded, heard, drawn, focused, burst>>
  BY DEF YellowOver
<1>2. timers \in Seq(Element \X State)
  BY DEF PageType
<1>3. /\ timers' \in Seq(Element \X State) /\ Head(timers) \in Element \X State
      /\ Head(timers) = timers[1] /\ n \in Nat /\ n > 0 /\ Len(timers') = n - 1
      /\ \A i \in 1..Len(timers') : timers'[i] = timers[i + 1]
  BY <1>1, <1>2, HeadTailProperties, EmptySeq
<1>4. x \in Element /\ c \in State /\ timers[1] = <<x, c>> /\ timers[1][1] = x
  BY <1>3
<1>5. /\ 1 \in 1..n
      /\ \A i \in 1..Len(timers') : i + 1 \in 1..n /\ i + 1 # 1
      /\ \A i \in 1..n : i # 1 => i - 1 \in 1..Len(timers') /\ timers'[i - 1] = timers[i]
  BY <1>3
<1> HIDE DEF x, c, n
<1>6. PageType'
  BY <1>1, <1>3, <1>4 DEF PageType
<1>7. ASSUME NEW e, e # x
      PROVE  /\ Pending(e)' <=> Pending(e)
             /\ \A s \in State : LastSets(e, s) => LastSets(e, s)'
             /\ OneTimer(e) => OneTimer(e)'
  <2>1. Pending(e)' <=> Pending(e)
    <3>1. Pending(e) <=> \E i \in 1..n : timers[i][1] = e
      BY <1>2, PendingIndex DEF n
    <3>2. Pending(e)' <=> \E i \in 1..Len(timers') : timers'[i][1] = e
      BY <1>3 DEF Pending
    <3>3. ASSUME NEW i \in 1..n, timers[i][1] = e PROVE Pending(e)'
      BY <1>4, <1>5, <1>7, <3>2, <3>3
    <3>4. ASSUME NEW i \in 1..Len(timers'), timers'[i][1] = e PROVE Pending(e)
      BY <1>3, <1>5, <3>1, <3>4
    <3> QED BY <3>1, <3>2, <3>3, <3>4
  <2>2. ASSUME NEW s \in State, LastSets(e, s) PROVE LastSets(e, s)'
    <3>1. PICK i \in 1..n : /\ timers[i] = <<e, s>>
                            /\ \A j \in 1..n : j > i => timers[j][1] # e
      BY <2>2 DEF LastSets, n
    <3>2. i # 1
      BY <1>4, <1>7, <3>1
    <3>3. i - 1 \in 1..Len(timers') /\ timers'[i - 1] = <<e, s>>
      BY <1>5, <3>1, <3>2
    <3>4. ASSUME NEW j \in 1..Len(timers'), j > i - 1 PROVE timers'[j][1] # e
      <4>1. j + 1 \in 1..n /\ j + 1 > i /\ timers'[j] = timers[j + 1]
        BY <1>3, <1>5, <3>4
      <4> QED BY <3>1, <4>1
    <3> QED BY <3>3, <3>4 DEF LastSets
  <2>3. ASSUME OneTimer(e) PROVE OneTimer(e)'
    <3> SUFFICES ASSUME NEW i \in 1..Len(timers'), NEW j \in 1..Len(timers'),
                        timers'[i][1] = e, timers'[j][1] = e
                 PROVE  i = j
      BY DEF OneTimer
    <3>1. i + 1 = j + 1
      BY <1>3, <1>5, <2>3 DEF OneTimer, n
    <3> QED BY <3>1
  <2> QED BY <2>1, <2>2, <2>3
<1>8. ASSUME NEW e \in Element, Tracked(e)' PROVE Tracks(e)'
  <2>1. OfLight(e)' = OfLight(e) /\ Tracked(e) /\ Tracks(e)
    BY <1>1, <1>8 DEF Tracked, OfLight
  <2>2. heard[OfLight(e)] \in State
    BY <2>1 DEF Tracked, PageType
  <2>3. CASE e # x
    <3>1. shown'[e] = shown[e]
      BY <1>1, <2>3 DEF PageType
    <3> QED BY <1>1, <1>7, <2>1, <2>2, <2>3, <3>1, SameElement
  <2>4. CASE e = x
    <3> SUFFICES ASSUME NEW h \in State, h = heard[OfLight(e)]
                 PROVE  Tracks(e)'
      BY <2>2
    <3>1. Pending(e)
      BY <1>2, <1>4, <1>5, <2>4, PendingIndex DEF n
    <3>2. /\ burst[e] # 0
          /\ h = Yellow \/ LastSets(e, h)
          /\ burst[e] = 1 => OneTimer(e)
      BY <2>1, <3>1 DEF Tracks
    <3>3. shown'[e] = c
      BY <1>1, <1>4, <2>4 DEF PageType
    <3>4. ASSUME ~Pending(e)' PROVE h = Yellow \/ shown'[e] = h
      <4> SUFFICES ASSUME h # Yellow PROVE shown'[e] = h
        OBVIOUS
      <4>1. PICK i \in 1..n : timers[i] = <<e, h>>
        BY <3>2 DEF LastSets, n
      <4>2. CASE i = 1
        BY <1>4, <3>3, <4>1, <4>2
      <4>3. CASE i # 1
        <5>1. i - 1 \in DOMAIN timers' /\ timers'[i - 1][1] = e
          BY <1>3, <1>5, <4>1, <4>3
        <5> QED BY <3>4, <5>1 DEF Pending
      <4> QED BY <4>2, <4>3
    <3>5. ASSUME Pending(e)'
          PROVE  /\ burst[e] # 1
                 /\ h = Yellow \/ LastSets(e, h)'
      <4>1. PICK k \in 1..Len(timers') : timers'[k][1] = e
        BY <1>3, <3>5 DEF Pending
      <4>2. k + 1 \in 1..n /\ k + 1 # 1 /\ timers[k + 1][1] = e /\ k + 1 > 1
        BY <1>3, <1>5, <4>1
      <4>3. ~OneTimer(e)
        BY <1>4, <1>5, <2>4, <4>2 DEF OneTimer, n
      <4>4. ASSUME h # Yellow PROVE LastSets(e, h)'
        <5>1. PICK i \in 1..n : /\ timers[i] = <<e, h>>
                                /\ \A j \in 1..n : j > i => timers[j][1] # e
          BY <3>2, <4>4 DEF LastSets, n
        <5>2. i # 1
          BY <4>2, <5>1
        <5>3. i - 1 \in 1..Len(timers') /\ timers'[i - 1] = <<e, h>>
          BY <1>5, <5>1, <5>2
        <5>4. ASSUME NEW j \in 1..Len(timers'), j > i - 1 PROVE timers'[j][1] # e
          <6>1. j + 1 \in 1..n /\ j + 1 > i /\ timers'[j] = timers[j + 1]
            BY <1>3, <1>5, <5>4
          <6> QED BY <5>1, <6>1
        <5> QED BY <5>3, <5>4 DEF LastSets
      <4> QED BY <3>2, <4>3, <4>4
    <3>6. (heard[OfLight(e)])' = h /\ burst'[e] = burst[e]
      BY <1>1, <2>1
    <3>7. /\ ~Pending(e)' => h = Yellow \/ shown'[e] = h
          /\ Pending(e)' => /\ burst'[e] # 0
                            /\ h = Yellow \/ LastSets(e, h)'
                            /\ burst'[e] = 1 => shown'[e] = Yellow /\ OneTimer(e)'
      BY <3>2, <3>4, <3>5, <3>6
    <3> QED BY <3>6, <3>7 DEF Tracks
  <2> QED BY <2>3, <2>4
<1>9. loaded' \/ timers' = <<>>
  BY <1>1
<1> QED BY <1>1, <1>6, <1>8, <1>9

(* What a change of a light adds behind the timers: one for each element    *)
(* that is reached and shows another state.                                 *)
LEMMA TimersAdded ==
  ASSUME SettleInv, NEW l \in Light, NEW s \in State, LightChanged(l, s)
  PROVE  LET n == Len(timers)
             m == Len(timers')
         IN /\ timers' \in Seq(Element \X State) /\ n \in Nat /\ m \in Nat /\ n <= m
            /\ \A i \in 1..n : i \in 1..m /\ timers'[i] = timers[i]
            /\ \A i \in 1..m : i > n =>
                  /\ timers'[i] = <<timers'[i][1], s>> /\ timers'[i][1] \in Reached(l, s)
                  /\ shown[timers'[i][1]] # s
            /\ \A i, j \in 1..m :
                  i > n /\ j > n /\ timers'[i][1] = timers'[j][1] => i = j
            /\ \A e \in Reached(l, s) : shown[e] # s =>
                  \E i \in 1..m : i > n /\ timers'[i] = <<e, s>>
<1> DEFINE T == Element \X State
           n == Len(timers)
           m == Len(timers')
           R == Reached(l, s)
           Late(e) == IF e \in R /\ shown[e] # s THEN <<<<e, s>>>> ELSE <<>>
<1>1. timers \in Seq(T) /\ l \in Element /\ Main \in Element /\ l # Main
  BY PageAssumption DEF SettleInv, PageType, Element
<1>2. timers' = timers \o Late(l) \o Late(Main)
  <2>1. \A e : (IF e \in R THEN Coloured(e, s).later ELSE <<>>) = Late(e)
    BY DEF Coloured
  <2> HIDE DEF Late
  <2> QED BY <2>1 DEF LightChanged
<1>3. R \subseteq {l, Main}
  BY DEF Reached, Concerned
<1> HIDE DEF R
<1>4. n \in Nat /\ <<l, s>> \in T /\ <<Main, s>> \in T
      /\ \A i \in 1..n : timers[i] \in T
  BY <1>1
<1>5. CASE Late(l) = <<>> /\ Late(Main) = <<>>
  <2>1. timers' = timers
    <3>1. timers' = timers \o <<>> \o <<>>
      BY <1>2, <1>5
    <3> QED BY <1>1, <3>1, ConcatEmptySeq
  <2>2. \A e \in R : shown[e] = s
    BY <1>3, <1>5
  <2> QED BY <1>1, <1>4, <2>1, <2>2 DEF R
<1>6. ASSUME NEW e \in {l, Main}, e \in R, shown[e] # s, timers' = Append(timers, <<e, s>>),
             \A f \in R : shown[f] # s => f = e
      PROVE  /\ timers' \in Seq(T) /\ m = n + 1
             /\ \A i \in 1..n : i \in 1..m /\ timers'[i] = timers[i]
             /\ \A i \in 1..m : i > n =>
                  /\ timers'[i] = <<timers'[i][1], s>> /\ timers'[i][1] \in R
                  /\ shown[timers'[i][1]] # s
             /\ \A i, j \in 1..m :
                  i > n /\ j > n /\ timers'[i][1] = timers'[j][1] => i = j
             /\ \A f \in R : shown[f] # s => \E i \in 1..m : i > n /\ timers'[i] = <<f, s>>
  <2>1. /\ timers' \in Seq(T) /\ m = n + 1
        /\ \A i \in 1..n : timers'[i] = timers[i]
        /\ timers'[n + 1] = <<e, s>>
    BY <1>1, <1>4, <1>6
  <2> HIDE DEF n, m, T
  <2>2. /\ \A i \in 1..n : i \in 1..m
        /\ \A i \in 1..m : i > n => i = n + 1
        /\ n + 1 \in 1..m /\ n + 1 > n
    BY <1>4, <2>1
  <2>3. timers'[n + 1][1] = e
    BY <2>1
  <2> QED BY <1>6, <2>1, <2>2, <2>3
<1>7. CASE Late(l) # <<>> /\ Late(Main) = <<>>
  <2>1. l \in R /\ shown[l] # s /\ Late(l) = <<<<l, s>>>>
    BY <1>7
  <2>2. timers' = Append(timers, <<l, s>>)
    BY <1>1, <1>2, <1>4, <1>7, <2>1, AppendIsConcat, ConcatEmptySeq
  <2>3. \A f \in R : shown[f] # s => f = l
    BY <1>3, <1>7
  <2> HIDE DEF Late
  <2>4. n <= m /\ m \in Nat
    BY <1>4, <1>6, <2>1, <2>2, <2>3
  <2> QED BY <1>4, <1>6, <2>1, <2>2, <2>3, <2>4 DEF R
<1>8. CASE Late(l) = <<>> /\ Late(Main) # <<>>
  <2>1. Main \in R /\ shown[Main] # s /\ Late(Main) = <<<<Main, s>>>>
    BY <1>8
  <2>2. timers' = Append(timers, <<Main, s>>)
    <3>1. timers' = timers \o <<>> \o <<<<Main, s>>>>
      BY <1>2, <1>8, <2>1
    <3>2. timers \o <<>> = timers
      BY <1>1, ConcatEmptySeq
    <3> QED BY <1>1, <1>4, <3>1, <3>2, AppendIsConcat
  <2>3. \A f \in R : shown[f] # s => f = Main
    BY <1>3, <1>8
  <2> HIDE DEF Late
  <2>4. n <= m /\ m \in Nat
    BY <1>4, <1>6, <2>1, <2>2, <2>3
  <2> QED BY <1>4, <1>6, <2>1, <2>2, <2>3, <2>4 DEF R
<1>9. CASE Late(l) # <<>> /\ Late(Main) # <<>>
  <2>1. /\ l \in R /\ shown[l] # s /\ Late(l) = <<<<l, s>>>>
        /\ Main \in R /\ shown[Main] # s /\ Late(Main) = <<<<Main, s>>>>
    BY <1>9
  <2>2. timers' = Append(Append(timers, <<l, s>>), <<Main, s>>)
    <3>1. timers \o <<<<l, s>>>> = Append(timers, <<l, s>>) /\ Append(timers, <<l, s>>) \in Seq(T)
      BY <1>1, <1>4, AppendIsConcat, AppendProperties
    <3>2. Append(timers, <<l, s>>) \o <<<<Main, s>>>>
             = Append(Append(timers, <<l, s>>), <<Main, s>>)
      BY <1>4, <3>1, AppendIsConcat
    <3> QED BY <1>2, <2>1, <3>1, <3>2
  <2>3. /\ timers' \in Seq(T) /\ m = n + 2
        /\ \A i \in 1..n : timers'[i] = timers[i]
        /\ timers'[n + 1] = <<l, s>> /\ timers'[n + 2] = <<Main, s>>
    <3> DEFINE u == Append(timers, <<l, s>>)
    <3>1. /\ u \in Seq(T) /\ Len(u) = n + 1
          /\ \A i \in 1..n : u[i] = timers[i]
          /\ u[n + 1] = <<l, s>>
      BY <1>1, <1>4, AppendProperties
    <3> HIDE DEF u
    <3>2. /\ timers' \in Seq(T) /\ m = Len(u) + 1
          /\ \A i \in 1..Len(u) : timers'[i] = u[i]
          /\ timers'[Len(u) + 1] = <<Main, s>>
      BY <1>4, <2>2, <3>1, AppendProperties DEF u
    <3>3. /\ n + 1 \in 1..Len(u) /\ Len(u) + 1 = n + 2
          /\ \A i \in 1..n : i \in 1..Len(u)
      BY <1>4, <3>1
    <3> QED BY <3>1, <3>2, <3>3
  <2> HIDE DEF n, m, T, Late
  <2>4. /\ n <= m /\ m \in Nat
        /\ \A i \in 1..n : i \in 1..m
        /\ \A i \in 1..m : i > n => i = n + 1 \/ i = n + 2
        /\ n + 1 \in 1..m /\ n + 1 > n /\ n + 2 \in 1..m /\ n + 2 > n
    BY <1>4, <2>3
  <2>5. timers'[n + 1][1] = l /\ timers'[n + 2][1] = Main
    BY <2>3
  <2>6. \A i \in 1..m : i > n => /\ timers'[i] = <<timers'[i][1], s>>
                                 /\ timers'[i][1] \in R /\ shown[timers'[i][1]] # s
    BY <2>1, <2>3, <2>4, <2>5
  <2>7. \A i, j \in 1..m : i > n /\ j > n /\ timers'[i][1] = timers'[j][1] => i = j
    BY <1>1, <2>4, <2>5
  <2>8. \A e \in R : shown[e] # s => \E i \in 1..m : i > n /\ timers'[i] = <<e, s>>
    BY <1>3, <2>3, <2>4
  <2> QED BY <1>4, <2>3, <2>4, <2>6, <2>7, <2>8 DEF R, T, n, m
<1> QED BY <1>5, <1>7, <1>8, <1>9

(* A light changes: its elements turn yellow and the timer that will set    *)
(* the state is the last of each.                                           *)
LEMMA LightChangedStep ==
  ASSUME SettleInv, NEW l \in Light, NEW s \in State, LightChanged(l, s)
  PROVE  SettleInv'
<1> USE DEF SettleInv
<1> DEFINE n == Len(timers)
           m == Len(timers')
           R == Reached(l, s)
<1>1. /\ timers' \in Seq(Element \X State) /\ n \in Nat /\ m \in Nat /\ n <= m
      /\ \A i \in 1..n : i \in 1..m /\ timers'[i] = timers[i]
      /\ \A i \in 1..m : i > n => /\ timers'[i] = <<timers'[i][1], s>>
                                  /\ timers'[i][1] \in R /\ shown[timers'[i][1]] # s
      /\ \A i, j \in 1..m : i > n /\ j > n /\ timers'[i][1] = timers'[j][1] => i = j
      /\ \A e \in R : shown[e] # s => \E i \in 1..m : i > n /\ timers'[i] = <<e, s>>
  BY TimersAdded
<1>2. /\ loaded /\ heard' = [heard EXCEPT ![l] = s]
      /\ UNCHANGED <<loaded, drawn, focused>>
  BY DEF LightChanged
<1>3. /\ R \subseteq Concerned(l) /\ Concerned(l) \subseteq Element
      /\ \A e \in Element : e \in Concerned(l) <=> OfLight(e) = l
  BY PageAssumption DEF Reached, Concerned, Element, OfLight
<1>4. /\ shown' = [e \in Element |-> IF e \in R THEN Coloured(e, s).now ELSE shown[e]]
      /\ burst' = [e \in Element |-> IF e \in R THEN Counted(e)
                                     ELSE IF e \in Concerned(l) THEN TooMany ELSE burst[e]]
  BY DEF LightChanged
<1>5. \A e : Coloured(e, s).now = IF shown[e] = s THEN s ELSE Yellow
  BY DEF Coloured
<1>6. \A i \in 1..m : i \in 1..n \/ i > n
  BY <1>1
<1>7. Len(timers) \in Nat /\ timers \in Seq(Element \X State)
  BY DEF PageType
<1> HIDE DEF R
<1>8. PageType'
  <2>1. Yellow \in State
    BY DEF Yellow, State
  <2>2. shown' \in [Element -> State] /\ heard' \in [Light -> State]
    BY <1>2, <1>4, <1>5, <2>1 DEF PageType
  <2>3. ASSUME NEW e \in Element PROVE burst'[e] \in 0..TooMany
    <3>1. burst[e] \in 0..3
      BY DEF PageType, TooMany
    <3>2. Counted(e) \in 0..3
      BY <3>1 DEF Counted, TooMany
    <3>3. burst'[e] \in {Counted(e), TooMany, burst[e]}
      BY <1>4
    <3> QED BY <3>1, <3>2, <3>3 DEF TooMany
  <2>4. burst' \in [Element -> 0..TooMany]
    BY <1>4, <2>3
  <2> QED BY <1>1, <1>2, <2>2, <2>4 DEF PageType
<1>9. ASSUME NEW e PROVE Pending(e) => Pending(e)'
  <2>1. Pending(e)' <=> \E i \in 1..m : timers'[i][1] = e
    BY <1>1 DEF Pending
  <2> QED BY <1>1, <1>7, <2>1, PendingIndex
<1>10. ASSUME NEW e, \A i \in 1..m : i > n => timers'[i][1] # e
       PROVE  Pending(e)' => Pending(e)
  <2>1. Pending(e)' <=> \E i \in 1..m : timers'[i][1] = e
    BY <1>1 DEF Pending
  <2> QED BY <1>1, <1>6, <1>7, <1>10, <2>1, PendingIndex
<1>11. ASSUME NEW e \in R, shown[e] # s
       PROVE  LastSets(e, s)' /\ Pending(e)'
  <2>1. PICK i \in 1..m : i > n /\ timers'[i] = <<e, s>>
    BY <1>1, <1>11
  <2>2. timers'[i][1] = e
    BY <2>1
  <2>3. ASSUME NEW j \in 1..m, j > i PROVE timers'[j][1] # e
    <3>1. j > n /\ j # i
      BY <1>1, <2>1, <2>3
    <3> QED BY <1>1, <2>1, <2>2, <3>1
  <2>4. LastSets(e, s)'
    BY <2>1, <2>3 DEF LastSets
  <2>5. i \in DOMAIN timers'
    BY <1>1
  <2> QED BY <2>2, <2>4, <2>5 DEF Pending
<1>12. ASSUME NEW e \in Element, Tracked(e)', e \notin Concerned(l) PROVE Tracks(e)'
  <2>1. e \notin R /\ shown'[e] = shown[e] /\ burst'[e] = burst[e]
    BY <1>3, <1>4, <1>12
  <2>2. OfLight(e)' = OfLight(e) /\ OfLight(e) # l
    BY <1>2, <1>3, <1>12 DEF OfLight
  <2>3. Tracked(e) /\ Tracks(e)
    BY <1>2, <1>12, <2>1, <2>2 DEF Tracked, TooMany
  <2>4. heard[OfLight(e)] \in State /\ heard'[OfLight(e)'] = heard[OfLight(e)]
    BY <1>2, <2>2, <2>3 DEF Tracked, PageType
  <2>5. \A i \in 1..m : i > n => timers'[i][1] # e
    BY <1>1, <2>1
  <2>6. Pending(e)' <=> Pending(e)
    BY <1>9, <1>10, <2>5
  <2>7. ASSUME NEW c \in State, LastSets(e, c) PROVE LastSets(e, c)'
    <3>1. PICK i \in 1..n : /\ timers[i] = <<e, c>>
                            /\ \A j \in 1..n : j > i => timers[j][1] # e
      BY <2>7 DEF LastSets
    <3>2. i \in 1..m /\ timers'[i] = <<e, c>>
      BY <1>1, <3>1
    <3>3. ASSUME NEW j \in 1..m, j > i PROVE timers'[j][1] # e
      BY <1>1, <1>6, <2>5, <3>1, <3>3
    <3> QED BY <3>2, <3>3 DEF LastSets
  <2>8. ASSUME OneTimer(e) PROVE OneTimer(e)'
    BY <1>1, <1>6, <2>5, <2>8 DEF OneTimer
  <2> QED BY <2>1, <2>3, <2>4, <2>6, <2>7, <2>8, SameElement
<1>13. ASSUME NEW e \in Element, Tracked(e)', e \in Concerned(l) PROVE Tracks(e)'
  <2>1. OfLight(e) = l /\ (heard[OfLight(e)])' = s
    <3>1. OfLight(e) = l /\ OfLight(e)' = OfLight(e)
      BY <1>2, <1>3, <1>13 DEF OfLight
    <3> QED BY <1>2, <3>1 DEF PageType
  <2>2. e \in R
    <3> SUFFICES ASSUME e \notin R PROVE FALSE
      OBVIOUS
    <3>1. burst'[e] = TooMany
      BY <1>4, <1>13
    <3> QED BY <1>13, <3>1 DEF Tracked, TooMany
  <2>3. /\ burst'[e] = Counted(e) /\ burst'[e] < 3 /\ burst[e] \in 0..3
        /\ shown'[e] = IF shown[e] = s THEN s ELSE Yellow
    BY <1>4, <1>5, <1>13, <2>2 DEF Tracked, TooMany, PageType
  <2>4. CASE ~Pending(e)
    <3>1. burst'[e] = 1
      BY <2>3, <2>4 DEF Counted
    <3>2. CASE shown[e] = s
      <4>1. \A i \in 1..m : i > n => timers'[i][1] # e
        BY <1>1, <3>2
      <4>2. ~Pending(e)'
        BY <1>10, <2>4, <4>1
      <4>3. shown'[e] = s
        BY <2>3, <3>2
      <4> QED BY <2>1, <4>2, <4>3 DEF Tracks
    <3>3. CASE shown[e] # s
      <4>1. LastSets(e, s)' /\ Pending(e)' /\ shown'[e] = Yellow
        BY <1>11, <2>2, <2>3, <3>3
      <4>2. \A i \in 1..n : timers[i][1] # e
        BY <1>7, <2>4, PendingIndex
      <4>3. OneTimer(e)'
        BY <1>1, <1>6, <4>2 DEF OneTimer
      <4> QED BY <2>1, <3>1, <4>1, <4>3 DEF Tracks
    <3> QED BY <3>2, <3>3
  <2>5. CASE Pending(e)
    <3>1. burst[e] < 3 /\ burst'[e] = burst[e] + 1
      BY <2>3, <2>5 DEF Counted, TooMany
    <3>2. Tracked(e) /\ Tracks(e)
      BY <1>2, <2>1, <3>1 DEF Tracked, TooMany
    <3>3. burst[e] # 0
      BY <2>5, <3>2 DEF Tracks
    <3>4. burst[e] = 1 /\ burst'[e] = 2
      BY <2>3, <3>1, <3>3
    <3>5. shown[e] = Yellow
      BY <2>5, <3>2, <3>4 DEF Tracks
    <3>6. Pending(e)'
      BY <1>9, <2>5
    <3>7. s = Yellow \/ LastSets(e, s)'
      BY <1>11, <2>2, <3>5
    <3> QED BY <2>1, <3>4, <3>6, <3>7 DEF Tracks
  <2> QED BY <2>4, <2>5
<1>14. \A e \in drawn' : e = Main \/ loaded'
  BY <1>2
<1> QED BY <1>2, <1>8, <1>12, <1>13, <1>14

(* Every event of the page preserves the invariant of the lights.           *)
LEMMA SettleNext == SettleInv /\ [Next]_vars => SettleInv'
<1> SUFFICES ASSUME SettleInv, [Next]_vars PROVE SettleInv'
  OBVIOUS
<1>1. CASE YellowOver
  BY <1>1, YellowOverStep
<1>2. CASE \E l \in Light, s \in DbState : LightChanged(l, s)
  BY <1>2, LightChangedStep, PageAssumption
<1>3. CASE ~YellowOver /\ ~\E l \in Light, s \in DbState : LightChanged(l, s)
  BY <1>3, NoTimerStep
<1> QED BY <1>1, <1>2, <1>3

(* The lights come to rest at the last state heard, with up to two changes  *)
(* within the time of a timer, for any lights and for any number of timers  *)
(* pending for other lights.                                                *)
THEOREM LightsSettleCorrect == Spec => []LightsSettle
<1>1. SettleInv => LightsSettle
  <2> SUFFICES ASSUME SettleInv, NEW e \in Element,
                      e \in drawn, OfLight(e) \in Light, ~Pending(e),
                      burst[e] < TooMany, heard[OfLight(e)] # Yellow
               PROVE  shown[e] = heard[OfLight(e)]
    BY DEF LightsSettle, OfLight
  <2>1. Tracked(e)
    BY DEF SettleInv, Tracked
  <2> QED BY <2>1 DEF SettleInv, Tracks
<1> QED BY SettleInit, SettleNext, <1>1, PTL DEF Spec
===============================================================================
