----------------------------- MODULE HubPipeline ------------------------------
(***************************************************************************)
(* CloudHub from the datagram to the child that stores its group:          *)
(* DataProcessor composed with what MqttMsgManager promises (SendSlots,    *)
(* which MsgManager is shown to implement).  The two meet in               *)
(* addToDataQueue: the k-th group DataProcessor hands over for an object   *)
(* is the k-th group SendSlots is offered.                                 *)
(***************************************************************************)
EXTENDS DataProcessor

CONSTANT MaxParallel

VARIABLES sent,   \* number of the group last given to a child, per object
          live    \* the objects that have a child

pipeVars == <<vars, sent, live>>

offered == [o \in Obj |-> Len(handed[o])]

Slots == INSTANCE SendSlots

PipeInit == Init /\ Slots!Init

(* A step of the UDP server or the data processor.  When it hands a group   *)
(* of o to addToDataQueue, the manager is offered exactly that group.       *)
Collect ==
    /\ Next
    /\ handed' # handed => \E o \in Obj : Slots!Offer(o)
    /\ UNCHANGED <<sent, live>>

(* A step of the manager's thread and its children.                         *)
Send ==
    /\ UNCHANGED vars
    /\ \E o \in Obj : Slots!Launch(o) \/ Slots!Done(o)

PipeNext == Collect \/ Send

PipeSpec == PipeInit /\ [][PipeNext]_pipeVars

(* The fairness of DataProcessor, and what MsgManager was shown to keep:    *)
(* a car's child leaves its slot (SlotFreed) and a waiting car is launched  *)
(* (GroupLaunched).  Datagrams and the end of a lights child are not        *)
(* assumed.                                                                 *)
PipeFairness ==
    /\ WF_pipeVars(serverLoop /\ Collect)
    /\ \A o \in Obj \ Lights :
          /\ SF_pipeVars(UNCHANGED vars /\ Slots!Launch(o))
          /\ WF_pipeVars(UNCHANGED vars /\ Slots!Done(o))

PipeFairSpec == PipeSpec /\ PipeFairness

-----------------------------------------------------------------------------
(* Properties *)

SentGroup(o)   == handed[o][sent[o]]
LastStored(g)  == g.items[Len(g.items)]
FirstStored(g) == g.items[1]

(* README.txt: "ClusterDataProcessor(groupping) -> MqttMsgManager(run store *)
(* data instance)".  What a child stores for an object lies, in arrival,    *)
(* behind everything stored for it before, and by the clock more than one   *)
(* interval behind the start of the group before, although the manager may  *)
(* skip groups and children of several objects overlap.                     *)
CloudInOrder ==
    [][\A o \in Obj : sent'[o] # sent[o] /\ sent[o] # 0 =>
          LET old == SentGroup(o)
              new == SentGroup(o)'
          IN /\ LastStored(old).n < FirstStored(new).n
             /\ InMs(FirstStored(new).time)
                   > InMs(FirstStored(old).time) + InMs(Interval(o))]_pipeVars

(* Group k of o is open and a packet of o that is later than its time has   *)
(* been received.                                                           *)
Overdue(o, k) ==
    /\ Len(handed[o]) = k - 1
    /\ \E pkt \in ToSet(rawPacketsQueue) :
          pkt.id = o /\ IsTimeToSendGroup(groupInProgress[o], pkt.time)

(* clusterDataProcessor.cpp closes a group only when a later packet of its  *)
(* object comes.  Once such a packet is received, that group of a car or a  *)
(* newer one is given to a child, behind whatever packets of other objects, *)
(* dropped packets and busy slots.                                          *)
OverdueGroupSent ==
    \A o \in Obj \ Lights : \A k \in 1..MaxPkt : Overdue(o, k) ~> sent[o] >= k
===============================================================================
