----------------------------- MODULE DataProcessor ----------------------------
(***************************************************************************)
(* The receiving half of CloudHub: UdpServer::readUdpPkt stamps a datagram *)
(* and queues it, ClusterDataProcessor::serverLoop collects the packets of *)
(* an object into a ClusterDataGroup and hands the group to the message    *)
(* manager once a packet arrives after the group's time.                   *)
(*                                                                         *)
(* A packet is its id, its time stamp and its number among those of the    *)
(* id; the payload is carried along unread and is left out.                *)
(***************************************************************************)
EXTENDS PktTime, Sequences, SequencesExt, FiniteSets

CONSTANTS
    Obj,           \* ids the configuration knows
    Lights,        \* those of type MQTT_OBJ_TYPE_LIGTH
    BadId,         \* a packet that does not parse, has no "id" or an unknown one
    SendInterval, SendIntervalLights,   \* sendInterval_, sendIntervalLights_
    StoreEvery, StoreEveryLights,       \* storeEveryPkt_, storeEveryPktLights_
    MaxSec,        \* bound: the clock
    MaxPkt         \* bound: datagrams received

ASSUME ProcessorAssumption ==
    /\ Lights \subseteq Obj
    /\ BadId \notin Obj
    /\ SendInterval \in Time /\ SendIntervalLights \in Time
    /\ StoreEvery \in Nat \ {0} /\ StoreEveryLights \in Nat \ {0}
    /\ MaxSec \in Nat /\ MaxPkt \in Nat

VARIABLES
    received,         \* number of datagrams received, per id
    rawPacketsQueue,
    groupInProgress,  \* per object: its open group, without items if it is not in the map
    handed            \* per object: the groups given to addToDataQueue

vars == <<received, rawPacketsQueue, groupInProgress, handed>>

Ids    == Obj \cup {BadId}
Packet == [id: Ids, time: {t \in Time : Normal(t)}, n: Nat]

(* A group: "items" are the stored packets, "seen" counts all it was given. *)
Group == [expairedTime: Time, storeEvery: Nat \ {0}, skipLeft: Nat,
          items: Seq(Packet), seen: Nat]

TypeOK ==
    /\ received \in [Ids -> Nat]
    /\ rawPacketsQueue \in Seq(Packet)
    /\ groupInProgress \in [Obj -> Group]
    /\ handed \in [Obj -> Seq(Group)]

(* ClusterDataGroup::create: the interval is kept in expairedTime until the *)
(* first packet comes.                                                      *)
NewGroup(o) ==
    [expairedTime |-> IF o \in Lights THEN SendIntervalLights ELSE SendInterval,
     storeEvery   |-> IF o \in Lights THEN StoreEveryLights ELSE StoreEvery,
     skipLeft |-> 0, items |-> <<>>, seen |-> 0]

Init ==
    /\ received = [id \in Ids |-> 0]
    /\ rawPacketsQueue = <<>>
    /\ groupInProgress = [o \in Obj |-> NewGroup(o)]
    /\ handed = [o \in Obj |-> <<>>]

-----------------------------------------------------------------------------
(* What CLOCK_REALTIME may show: it can be set, back as well as forth.      *)
ClockStamps == {Stamp(sec, nsec) : sec \in 0..MaxSec, nsec \in 0..(MsPerSec * NsPerMs - 1)}

(* readUdpPkt and addDataToQueue for a datagram that looks like JSON.       *)
ReceivePkt(id, time) ==
    /\ SumFunction(received) < MaxPkt
    /\ received' = [received EXCEPT ![id] = @ + 1]
    /\ rawPacketsQueue' =
          Append(rawPacketsQueue, [id |-> id, time |-> time, n |-> received[id] + 1])
    /\ UNCHANGED <<groupInProgress, handed>>

-----------------------------------------------------------------------------
(* Mutant: one packet too many is skipped.                                  *)
PushBack_SkipsOneMore(g, pkt) ==
    LET store == g.skipLeft = 0
    IN [g EXCEPT !.expairedTime = IF g.items = <<>> THEN Plus(@, pkt.time) ELSE @,
                 !.items = IF store THEN Append(@, pkt) ELSE @,
                 !.skipLeft = IF store THEN g.storeEvery ELSE @ - 1,
                 !.seen = @ + 1]

(* ClusterDataGroup::pushBack                                               *)
PushBack(g, pkt) ==
    LET store == g.skipLeft = 0
    IN [g EXCEPT !.expairedTime = IF g.items = <<>> THEN Plus(@, pkt.time) ELSE @,
                 !.items = IF store THEN Append(@, pkt) ELSE @,
                 !.skipLeft = IF store THEN g.storeEvery - 1 ELSE @ - 1,
                 !.seen = @ + 1]

IsTimeToSendGroup(g, time) == g.items # <<>> /\ After(time, g.expairedTime)

Pop == rawPacketsQueue # <<>> /\ rawPacketsQueue' = Tail(rawPacketsQueue)

(* Mutant: a packet that is dropped is looked at but not taken out.         *)
DropPkt_Peeks ==
    /\ rawPacketsQueue # <<>>
    /\ Head(rawPacketsQueue).id \notin Obj
    /\ UNCHANGED vars

(* serverLoop on a packet that is not JSON, has no id, or an unknown one.   *)
DropPkt ==
    /\ Pop
    /\ Head(rawPacketsQueue).id \notin Obj
    /\ UNCHANGED <<received, groupInProgress, handed>>

(* serverLoop on a packet that joins the group of its object, which is      *)
(* created with the first packet.                                           *)
AddToGroup ==
    /\ Pop
    /\ LET pkt == Head(rawPacketsQueue)
       IN /\ pkt.id \in Obj
          /\ ~IsTimeToSendGroup(groupInProgress[pkt.id], pkt.time)
          /\ groupInProgress' = [groupInProgress EXCEPT ![pkt.id] = PushBack(@, pkt)]
    /\ UNCHANGED <<received, handed>>

(* Mutant: the group is handed over and stays open.                         *)
SendGroup_KeepsGroup ==
    /\ Pop
    /\ LET pkt == Head(rawPacketsQueue)
       IN /\ pkt.id \in Obj
          /\ IsTimeToSendGroup(groupInProgress[pkt.id], pkt.time)
          /\ handed' = [handed EXCEPT ![pkt.id] = Append(@, groupInProgress[pkt.id])]
          /\ groupInProgress' = [groupInProgress EXCEPT ![pkt.id] = PushBack(@, pkt)]
    /\ UNCHANGED received

(* serverLoop on a packet later than the open group's time: the group goes  *)
(* to addToDataQueue and the packet opens the next one.                     *)
SendGroup ==
    /\ Pop
    /\ LET pkt == Head(rawPacketsQueue)
       IN /\ pkt.id \in Obj
          /\ IsTimeToSendGroup(groupInProgress[pkt.id], pkt.time)
          /\ handed' = [handed EXCEPT ![pkt.id] = Append(@, groupInProgress[pkt.id])]
          /\ groupInProgress' =
                [groupInProgress EXCEPT ![pkt.id] = PushBack(NewGroup(pkt.id), pkt)]
    /\ UNCHANGED received

(* serverLoop with nothing queued: sleep and look again.                    *)
PollEmpty == rawPacketsQueue = <<>> /\ UNCHANGED vars

serverLoop == DropPkt \/ AddToGroup \/ SendGroup \/ PollEmpty

Next ==
    \/ \E id \in Ids, time \in ClockStamps : ReceivePkt(id, time)
    \/ serverLoop

Spec == Init /\ [][Next]_vars

-----------------------------------------------------------------------------
(* Properties *)

Groups(o)   == IF groupInProgress[o].items = <<>> THEN handed[o]
               ELSE Append(handed[o], groupInProgress[o])
Interval(o) == NewGroup(o).expairedTime

(* Between the first stored packet of a group and every other one at most   *)
(* the configured interval passes, and the next group of the object starts  *)
(* later than that: an object gives the manager at most one group per       *)
(* interval (README.txt, data_processos_group_intervel), across the carry   *)
(* of += and the order of operator>.                                        *)
IntervalKept ==
    \A o \in Obj : LET gs == Groups(o) IN
       \A k \in DOMAIN gs :
          LET end == InMs(gs[k].items[1].time) + InMs(Interval(o))
          IN /\ \A j \in DOMAIN gs[k].items : InMs(gs[k].items[j].time) <= end
             /\ k < Len(gs) => InMs(gs[k + 1].items[1].time) > end

(* The groups of an object hold packets of that object in the order of      *)
(* arrival, none twice, and every packet of it is either still queued or    *)
(* was given to exactly one group (to be stored, or skipped on purpose):    *)
(* the first group starts with packet 1, each later one with the packet     *)
(* behind those the group before it was given, and the queue with the       *)
(* packet behind those of the last group.                                   *)
PacketsInOrder ==
    \A o \in Obj :
       LET gs       == Groups(o)
           q        == rawPacketsQueue
           first(k) == gs[k].items[1].n
           behind   == IF gs = <<>> THEN 1 ELSE first(Len(gs)) + gs[Len(gs)].seen
           queued   == {i \in DOMAIN q : q[i].id = o}
       IN /\ gs # <<>> => first(1) = 1
          /\ \A k \in 1..(Len(gs) - 1) : first(k + 1) = first(k) + gs[k].seen
          /\ \A k \in DOMAIN gs : \A j \in DOMAIN gs[k].items :
                /\ gs[k].items[j].id = o
                /\ gs[k].items[j].n < first(k) + gs[k].seen
                /\ \A i \in 1..(j - 1) : gs[k].items[i].n < gs[k].items[j].n
          /\ {q[i].n : i \in queued} = behind..received[o]
          /\ \A i, j \in queued : i < j => q[i].n < q[j].n

(* Within a group the 1st, (k+1)-th, (2k+1)-th... packet is stored.         *)
EveryKthOfGroup ==
    \A o \in Obj : \A k \in DOMAIN Groups(o) :
       LET g == Groups(o)[k]
       IN /\ Len(g.items) = ((g.seen - 1) \div g.storeEvery) + 1
          /\ \A j \in DOMAIN g.items :
                g.items[j].n = g.items[1].n + (j - 1) * g.storeEvery
===============================================================================
