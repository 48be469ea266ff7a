------------------------------ MODULE SendSlots -------------------------------
(***************************************************************************)
(* What MqttMsgManager promises, without its threads, queues and signals:  *)
(* groups of an object are offered one after the other, at most            *)
(* MaxParallel objects are being sent at a time, an object never twice,    *)
(* what is sent for an object is always newer than what was sent before,   *)
(* and at most one lights object is ever sent.                             *)
(***************************************************************************)
EXTENDS Naturals, FiniteSets

CONSTANTS Obj, Lights, MaxParallel

VARIABLES offered,   \* number of the newest group offered, per object
          sent,      \* number of the group last sent, per object
          live       \* the objects that are being sent

slotVars == <<offered, sent, live>>

Init ==
    /\ offered = [o \in Obj |-> 0]
    /\ sent = [o \in Obj |-> 0]
    /\ live = {}

Offer(o) ==
    /\ offered' = [offered EXCEPT ![o] = @ + 1]
    /\ UNCHANGED <<sent, live>>

(* Mutant: any group that was offered is sent, also one that is older.      *)
Launch_AnyGroup(o) ==
    /\ o \notin live
    /\ Cardinality(live) < MaxParallel
    /\ o \in Lights => \A l \in Lights : sent[l] = 0
    /\ \E s \in 1..offered[o] : sent' = [sent EXCEPT ![o] = s]
    /\ live' = live \cup {o}
    /\ UNCHANGED offered

Launch(o) ==
    /\ o \notin live
    /\ Cardinality(live) < MaxParallel
    /\ o \in Lights => \A l \in Lights : sent[l] = 0
    /\ \E s \in (sent[o] + 1)..offered[o] : sent' = [sent EXCEPT ![o] = s]
    /\ live' = live \cup {o}
    /\ UNCHANGED offered

(* Sending ends, for whatever reason.                                       *)
Done(o) ==
    /\ o \in live
    /\ live' = live \ {o}
    /\ UNCHANGED <<offered, sent>>

Next == \E o \in Obj : Offer(o) \/ Launch(o) \/ Done(o)

Spec == Init /\ [][Next]_slotVars
===============================================================================
