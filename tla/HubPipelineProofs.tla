-------------------------- MODULE HubPipelineProofs ---------------------------
(***************************************************************************)
(* Proofs about the receiving half of the hub and its composition with the *)
(* message manager, for any objects, intervals, store periods, clock and   *)
(* number of packets.                                                      *)
(*                                                                         *)
(* A group says nothing of the packets that were skipped, so               *)
(* EveryKthOfGroup needs the relation of skipLeft to the packets seen; and *)
(* the order of two groups needs that of all groups before them, of the    *)
(* open one and of the queue (DataInv).  What is said of the time holds    *)
(* only for intervals whose milliseconds are less than a second (TimeInv): *)
(* operator> compares the fields of an expairedTime that operator+= has    *)
(* not brought into that range.                                            *)
(***************************************************************************)
EXTENDS HubPipeline, SequenceTheorems, TLAPS

(* A group with a stored packet: all packets it was given are accounted for *)
(* by the stored ones and the skip counter.                                 *)
Filled(o, g) ==
    /\ g.items # <<>>
    /\ g.storeEvery = NewGroup(o).storeEvery
    /\ g.skipLeft < g.storeEvery
    /\ g.seen + g.skipLeft = Len(g.items) * g.storeEvery
    /\ \A i, j \in 1..Len(g.items) : i < j => g.items[i].n < g.items[j].n

(* All of g arrived before all of h.                                        *)
Behind(g, h) == LastStored(g).n < FirstStored(h).n

(* The packets of o are numbered in the order of arrival, those that are    *)
(* queued after those of the open group.                                    *)
QueueInv(o) ==
    LET q == rawPacketsQueue
        items == groupInProgress[o].items
    IN /\ \A i \in 1..Len(q) : q[i].id = o => q[i].n <= received[o]
       /\ \A i, j \in 1..Len(q) : i < j /\ q[i].id = o /\ q[j].id = o => q[i].n < q[j].n
       /\ \A m \in 1..Len(items) :
             /\ items[m].n <= received[o]
             /\ \A i \in 1..Len(q) : q[i].id = o => items[m].n < q[i].n

GroupsInv(o) ==
    LET open == groupInProgress[o]
        done == handed[o]
    IN /\ (open = NewGroup(o) /\ done = <<>>) \/ Filled(o, open)
       /\ \A k \in 1..Len(done) : Filled(o, done[k]) /\ Behind(done[k], open)
       /\ \A k, m \in 1..Len(done) : k < m => Behind(done[k], done[m])

DataInv == TypeOK /\ \A o \in Obj : QueueInv(o) /\ GroupsInv(o)

(* Every store period of g's packets, of o all, the first one is stored.    *)
Spaced(o, g) ==
    \A j \in 1..Len(g.items) :
       /\ g.items[j].id = o
       /\ g.items[j].n = FirstStored(g).n + (j - 1) * g.storeEvery

(* The packet behind those that the groups of o were given.                 *)
NextNo(o) ==
    LET open == groupInProgress[o]
    IN IF open.items = <<>> THEN 1 ELSE FirstStored(open).n + open.seen

(* Every packet of o was given to one group or waits in the queue.          *)
AccountInv(o) ==
    LET open == groupInProgress[o]
        done == handed[o]
        q    == rawPacketsQueue
    IN /\ Spaced(o, open) /\ \A k \in 1..Len(done) : Spaced(o, done[k])
       /\ open.items # <<>> =>
             IF done = <<>> THEN FirstStored(open).n = 1
             ELSE /\ FirstStored(done[1]).n = 1
                  /\ FirstStored(open).n = FirstStored(done[Len(done)]).n + done[Len(done)].seen
       /\ \A k \in 1..(Len(done) - 1) :
             FirstStored(done[k + 1]).n = FirstStored(done[k]).n + done[k].seen
       /\ NextNo(o) <= received[o] + 1
       /\ \A n \in NextNo(o)..received[o] : \E i \in 1..Len(q) : q[i].id = o /\ q[i].n = n
       /\ \A i \in 1..Len(q) : q[i].id = o => NextNo(o) <= q[i].n

(* The time of the group is its first packet's plus the interval, and no    *)
(* stored packet is later.                                                  *)
OnTime(o, g) ==
    /\ Normal(g.expairedTime)
    /\ InMs(g.expairedTime) = InMs(FirstStored(g).time) + InMs(Interval(o))
    /\ \A j \in 1..Len(g.items) : InMs(g.items[j].time) <= InMs(g.expairedTime)

(* h starts after the time of g.                                            *)
Apart(o, g, h) ==
    InMs(FirstStored(h).time) > InMs(FirstStored(g).time) + InMs(Interval(o))

TimeInv ==
    \A o \in Obj :
      LET open == groupInProgress[o]
          done == handed[o]
      IN /\ open.items # <<>> => OnTime(o, open)
         /\ \A k \in 1..Len(done) : OnTime(o, done[k]) /\ Apart(o, done[k], open)
         /\ \A k, m \in 1..Len(done) : k < m => Apart(o, done[k], done[m])

-----------------------------------------------------------------------------

(* Times *)

(* A later second outweighs any milliseconds.                               *)
LEMMA SecondsOutweigh ==
  ASSUME NEW M \in Nat, NEW a \in Nat, NEW b \in Nat, a > b
  PROVE  a * M \in Nat /\ b * M \in Nat /\ a * M >= b * M + M
<1> DEFINE k == a - (b + 1)
<1>1. k \in Nat /\ a = (b + 1) + k
  OBVIOUS
<1> HIDE DEF k
<1>2. a * M = b * M + M + k * M
  BY <1>1
<1>3. k * M \in Nat /\ b * M \in Nat /\ a * M \in Nat
  BY <1>1
<1> QED BY <1>2, <1>3

(* operator> orders two times by their milliseconds, if those that are      *)
(* beside the seconds are less than a second in both.                       *)
LEMMA AfterIsLater ==
  ASSUME NEW t \in Time, NEW x \in Time, Normal(t), Normal(x)
  PROVE  /\ InMs(t) \in Nat /\ InMs(x) \in Nat
         /\ After(t, x) <=> InMs(t) > InMs(x)
<1>1. /\ t.s \in Nat /\ t.ms \in Nat /\ t.ms < MsPerSec
      /\ x.s \in Nat /\ x.ms \in Nat /\ x.ms < MsPerSec
      /\ MsPerSec \in Nat
  BY TimeAssumption DEF Time, Normal
<1>2. t.s * MsPerSec \in Nat /\ x.s * MsPerSec \in Nat
  BY <1>1
<1>3. CASE t.s > x.s
  <2>1. t.s * MsPerSec >= x.s * MsPerSec + MsPerSec
    BY <1>1, <1>3, SecondsOutweigh
  <2> QED BY <1>1, <1>2, <1>3, <2>1 DEF After, InMs
<1>4. CASE x.s > t.s
  <2>1. x.s * MsPerSec >= t.s * MsPerSec + MsPerSec
    BY <1>1, <1>4, SecondsOutweigh
  <2> QED BY <1>1, <1>2, <1>4, <2>1 DEF After, InMs
<1>5. CASE t.s = x.s
  BY <1>1, <1>2, <1>5 DEF After, InMs
<1> QED BY <1>1, <1>3, <1>4, <1>5

(* operator+= yields a time; and for two times whose milliseconds are less  *)
(* than a second it is the sum, in the same form.                           *)
LEMMA PlusIsSum ==
  ASSUME NEW t \in Time, NEW x \in Time
  PROVE  /\ Plus(t, x) \in Time
         /\ Normal(t) /\ Normal(x) =>
              Normal(Plus(t, x)) /\ InMs(Plus(t, x)) = InMs(t) + InMs(x)
<1> DEFINE ms == (t.ms + x.ms) % UIntMod
<1>1. /\ t.s \in Nat /\ t.ms \in Nat /\ x.s \in Nat /\ x.ms \in Nat
      /\ MsPerSec \in Nat /\ MsPerSec > 0 /\ UIntMod \in Nat
      /\ UIntMod >= 2 * MsPerSec /\ UIntMod > 0
  BY TimeAssumption DEF Time
<1>2. ms \in 0..(UIntMod - 1)
  BY <1>1
<1>3. t.ms + x.ms < UIntMod => ms = t.ms + x.ms
  BY <1>1
<1>4. Plus(t, x) = IF ms >= MsPerSec THEN [s |-> t.s + x.s + 1, ms |-> ms - MsPerSec]
                                     ELSE [s |-> t.s + x.s, ms |-> ms]
  BY DEF Plus
<1> HIDE DEF ms
<1>5. Plus(t, x) \in Time
  BY <1>1, <1>2, <1>4 DEF Time
<1>6. ASSUME Normal(t), Normal(x)
      PROVE  Normal(Plus(t, x)) /\ InMs(Plus(t, x)) = InMs(t) + InMs(x)
  <2>1. ms = t.ms + x.ms /\ t.ms < MsPerSec /\ x.ms < MsPerSec
    BY <1>1, <1>3, <1>6 DEF Normal
  <2>2. /\ (t.s + x.s + 1) * MsPerSec = t.s * MsPerSec + x.s * MsPerSec + MsPerSec
        /\ (t.s + x.s) * MsPerSec = t.s * MsPerSec + x.s * MsPerSec
        /\ t.s * MsPerSec \in Nat /\ x.s * MsPerSec \in Nat
    BY <1>1
  <2>3. CASE ms >= MsPerSec
    <3>1. Plus(t, x).s = t.s + x.s + 1 /\ Plus(t, x).ms = ms - MsPerSec
      BY <1>4, <2>3
    <3> QED BY <1>1, <2>1, <2>2, <3>1 DEF Normal, InMs
  <2>4. CASE ~(ms >= MsPerSec)
    <3>1. Plus(t, x).s = t.s + x.s /\ Plus(t, x).ms = ms
      BY <1>4, <2>4
    <3> QED BY <1>1, <2>1, <2>2, <2>4, <3>1 DEF Normal, InMs
  <2> QED BY <2>3, <2>4
<1> QED BY <1>5, <1>6

(* readUdpPkt stamps every packet with a time whose milliseconds are less   *)
(* than a second, also when round() gives 1000.                             *)
LEMMA StampsNormal ==
  ASSUME NEW t \in ClockStamps
  PROVE  t \in Time /\ Normal(t)
<1>1. PICK sec \in 0..MaxSec, nsec \in 0..(MsPerSec * NsPerMs - 1) : t = Stamp(sec, nsec)
  BY DEF ClockStamps
<1>2. /\ sec \in Nat /\ nsec \in Nat /\ NsPerMs \in Nat /\ NsPerMs > 0
      /\ MsPerSec \in Nat /\ MsPerSec > 0 /\ UIntMod \in Nat /\ UIntMod > MsPerSec
  <2>1. MsPerSec \in Nat /\ NsPerMs \in Nat /\ NsPerMs > 0 /\ MsPerSec > 0
        /\ MsPerSec * NsPerMs \in Int
    BY TimeAssumption
  <2> QED BY <2>1, TimeAssumption, ProcessorAssumption
<1> DEFINE a == 2 * nsec + NsPerMs
           b == 2 * NsPerMs
           ms == a \div b
<1>3. a \in Nat /\ b \in Nat /\ b > 0
  BY <1>2
<1>4. t = IF ms > MsPerSec - 1 THEN [s |-> sec + 1, ms |-> 0] ELSE [s |-> sec, ms |-> ms]
  BY <1>1 DEF Stamp
<1> HIDE DEF a, b
<1>5. ms \in Nat
  BY <1>3
<1> HIDE DEF ms
<1> QED BY <1>2, <1>4, <1>5 DEF Time, Normal

(* Groups *)

(* ClusterDataGroup::create makes a group without packets.                  *)
LEMMA NewGroupType ==
  ASSUME NEW o \in Obj
  PROVE  /\ NewGroup(o) \in Group /\ NewGroup(o).items = <<>>
         /\ NewGroup(o).skipLeft = 0 /\ NewGroup(o).seen = 0
         /\ Interval(o) \in Time
BY ProcessorAssumption, EmptySeq DEF NewGroup, Group, Interval

(* pushBack on a group without packets stores the packet and starts the     *)
(* group's time.                                                            *)
LEMMA PushFirst ==
  ASSUME NEW o \in Obj, NEW pkt \in Packet
  PROVE  LET h == PushBack(NewGroup(o), pkt)
         IN /\ h \in Group /\ h.items = <<pkt>> /\ Filled(o, h) /\ h.seen = 1
            /\ h.expairedTime = Plus(Interval(o), pkt.time)
<1> DEFINE g == NewGroup(o)
           h == PushBack(g, pkt)
<1>1. /\ g \in Group /\ g.items = <<>> /\ g.skipLeft = 0 /\ g.seen = 0
      /\ g.expairedTime \in Time /\ g.expairedTime = Interval(o)
      /\ g.storeEvery \in Nat \ {0}
  BY NewGroupType DEF Group, Interval
<1>2. pkt.time \in Time
  BY DEF Packet
<1> HIDE DEF g
<1>3. Plus(g.expairedTime, pkt.time) \in Time
  BY <1>1, <1>2, PlusIsSum
<1>4. Append(<<>>, pkt) = <<pkt>> /\ <<pkt>> \in Seq(Packet) /\ Len(<<pkt>>) = 1
  OBVIOUS
<1>5. h = [g EXCEPT !.expairedTime = Plus(g.expairedTime, pkt.time),
                    !.items = <<pkt>>, !.skipLeft = g.storeEvery - 1, !.seen = 1]
  BY <1>1, <1>4 DEF PushBack
<1> HIDE DEF h
<1>6. /\ h.expairedTime = Plus(g.expairedTime, pkt.time) /\ h.items = <<pkt>>
      /\ h.skipLeft = g.storeEvery - 1 /\ h.seen = 1 /\ h.storeEvery = g.storeEvery
  BY <1>1, <1>5 DEF Group
<1>7. h \in Group
  <2>1. g.storeEvery - 1 \in Nat /\ 1 \in Nat
    BY <1>1
  <2> QED BY <1>1, <1>3, <1>4, <1>5, <2>1 DEF Group
<1>8. Filled(o, h)
  <2>1. h.items # <<>> /\ Len(h.items) = 1
    BY <1>4, <1>6
  <2>2. h.storeEvery = NewGroup(o).storeEvery
    BY <1>6 DEF g
  <2>3. h.skipLeft < h.storeEvery /\ h.seen + h.skipLeft = 1 * h.storeEvery
    BY <1>1, <1>6
  <2> QED BY <2>1, <2>2, <2>3 DEF Filled
<1> QED BY <1>1, <1>6, <1>7, <1>8 DEF g, h

(* pushBack on a group with packets: the packet is stored behind them or    *)
(* skipped, and every packet stays accounted for.                           *)
LEMMA PushNext ==
  ASSUME NEW o \in Obj, NEW g \in Group, NEW pkt \in Packet, Filled(o, g),
         \A i \in 1..Len(g.items) : g.items[i].n < pkt.n
  PROVE  LET h == PushBack(g, pkt)
         IN /\ h \in Group /\ Filled(o, h) /\ h.expairedTime = g.expairedTime
            /\ h.items \in {g.items, Append(g.items, pkt)} /\ h.seen = g.seen + 1
            /\ FirstStored(h) = FirstStored(g)
<1> DEFINE h == PushBack(g, pkt)
           it == g.items
           K == g.storeEvery
           L == Len(it)
<1>1. /\ it \in Seq(Packet) /\ it # <<>> /\ L \in Nat /\ L > 0
      /\ g.skipLeft \in Nat /\ g.seen \in Nat /\ K \in Nat /\ K > 0
      /\ g.skipLeft < K /\ g.seen + g.skipLeft = L * K
      /\ K = NewGroup(o).storeEvery
      /\ \A i, j \in 1..L : i < j => it[i].n < it[j].n
  BY EmptySeq DEF Group, Filled
<1>2. CASE g.skipLeft = 0
  <2> DEFINE it2 == Append(it, pkt)
  <2>1. /\ it2 \in Seq(Packet) /\ Len(it2) = L + 1 /\ it2 # <<>>
        /\ \A i \in 1..L : it2[i] = it[i]
        /\ it2[L + 1] = pkt
    BY <1>1
  <2>2. h = [g EXCEPT !.expairedTime = g.expairedTime, !.items = it2,
                      !.skipLeft = K - 1, !.seen = g.seen + 1]
    BY <1>1, <1>2 DEF PushBack
  <2> HIDE DEF h, it2
  <2>3. /\ h.expairedTime = g.expairedTime /\ h.items = it2 /\ h.skipLeft = K - 1
        /\ h.seen = g.seen + 1 /\ h.storeEvery = K
    BY <2>2 DEF Group
  <2>4. h \in Group
    <3>1. K - 1 \in Nat /\ g.seen + 1 \in Nat
      BY <1>1
    <3> QED BY <2>1, <2>2, <3>1 DEF Group
  <2>5. (L + 1) * K = L * K + K /\ L * K \in Nat
    BY <1>1
  <2>6. h.seen + h.skipLeft = Len(h.items) * h.storeEvery /\ h.skipLeft < h.storeEvery
    <3>1. Len(h.items) * h.storeEvery = L * K + K
      BY <2>1, <2>3, <2>5
    <3>2. g.seen = L * K /\ g.seen \in Nat /\ K \in Nat
      BY <1>1, <1>2
    <3>3. h.seen + h.skipLeft = g.seen + K /\ h.skipLeft < h.storeEvery
      <4> HIDE DEF K
      <4> QED BY <2>3, <3>2
    <3> QED BY <3>1, <3>2, <3>3
  <2>7. \A i, j \in 1..(L + 1) : i < j => it2[i].n < it2[j].n
    <3> SUFFICES ASSUME NEW i \in 1..(L + 1), NEW j \in 1..(L + 1), i < j
                 PROVE  it2[i].n < it2[j].n
      OBVIOUS
    <3>1. i \in 1..L
      BY <1>1
    <3>2. CASE j \in 1..L
      BY <1>1, <2>1, <3>1, <3>2
    <3>3. CASE j = L + 1
      BY <2>1, <3>1, <3>3
    <3> QED BY <1>1, <3>2, <3>3
  <2>8. Filled(o, h)
    BY <1>1, <2>1, <2>3, <2>6, <2>7 DEF Filled
  <2>9. FirstStored(h) = FirstStored(g)
    BY <1>1, <2>1, <2>3 DEF FirstStored
  <2> QED BY <2>3, <2>4, <2>8, <2>9 DEF h, it2
<1>3. CASE g.skipLeft # 0
  <2>1. h = [g EXCEPT !.expairedTime = g.expairedTime, !.items = it,
                      !.skipLeft = g.skipLeft - 1, !.seen = g.seen + 1]
    BY <1>1, <1>3 DEF PushBack
  <2> HIDE DEF h
  <2>2. /\ h.expairedTime = g.expairedTime /\ h.items = it /\ h.skipLeft = g.skipLeft - 1
        /\ h.seen = g.seen + 1 /\ h.storeEvery = K
    BY <2>1 DEF Group
  <2>3. h \in Group
    <3>1. g.skipLeft - 1 \in Nat /\ g.seen + 1 \in Nat
      BY <1>1, <1>3
    <3> QED BY <2>1, <1>1, <3>1 DEF Group
  <2>4. h.seen + h.skipLeft = Len(h.items) * h.storeEvery /\ h.skipLeft < h.storeEvery
    BY <1>1, <1>3, <2>2
  <2>5. Filled(o, h)
    BY <1>1, <2>2, <2>4 DEF Filled
  <2> QED BY <2>2, <2>3, <2>5 DEF h, FirstStored
<1> QED BY <1>2, <1>3

(* The packet before the last of a group arrived before it, and so did the  *)
(* first: order between groups is transitive.                               *)
LEMMA BehindTransitive ==
  ASSUME NEW o \in Obj, NEW f \in Group, NEW g \in Group, NEW h \in Group,
         Filled(o, f), Filled(o, g), Filled(o, h), Behind(f, g), Behind(g, h)
  PROVE  Behind(f, h)
<1>1. /\ f.items \in Seq(Packet) /\ Len(f.items) \in 1..Len(f.items)
      /\ g.items \in Seq(Packet) /\ Len(g.items) \in 1..Len(g.items)
      /\ 1 \in 1..Len(g.items) /\ 1 \in 1..Len(h.items)
      /\ h.items \in Seq(Packet)
  <2>1. ASSUME NEW x \in Group, Filled(o, x)
        PROVE  x.items \in Seq(Packet) /\ {1, Len(x.items)} \subseteq 1..Len(x.items)
    <3>1. x.items \in Seq(Packet) /\ x.items # <<>>
      BY <2>1 DEF Filled, Group
    <3>2. Len(x.items) \in Nat \ {0}
      BY <3>1, EmptySeq, LenProperties
    <3> QED BY <3>1, <3>2
  <2> QED BY <2>1
<1>2. /\ LastStored(f).n \in Nat /\ FirstStored(g).n \in Nat /\ LastStored(g).n \in Nat
      /\ FirstStored(h).n \in Nat
  <2>1. /\ LastStored(f) \in Packet /\ FirstStored(g) \in Packet
        /\ LastStored(g) \in Packet /\ FirstStored(h) \in Packet
    BY <1>1 DEF LastStored, FirstStored
  <2> QED BY <2>1 DEF Packet
<1>3. FirstStored(g).n <= LastStored(g).n
  <2>1. Len(g.items) = 1 \/ 1 < Len(g.items)
    <3> DEFINE n == Len(g.items)
    <3>1. n \in Nat /\ 1 <= n
      BY <1>1
    <3> HIDE DEF n
    <3>2. n = 1 \/ 1 < n
      BY <3>1
    <3> QED BY <3>2 DEF n
  <2>2. CASE Len(g.items) = 1
    <3>1. LastStored(g) = FirstStored(g)
      BY <2>2 DEF FirstStored, LastStored
    <3> QED BY <1>2, <3>1
  <2>3. CASE 1 < Len(g.items)
    <3>1. g.items[1].n < g.items[Len(g.items)].n
      BY <1>1, <2>3 DEF Filled
    <3> QED BY <1>2, <3>1 DEF FirstStored, LastStored
  <2> QED BY <2>1, <2>2, <2>3
<1> QED BY <1>2, <1>3 DEF Behind

-----------------------------------------------------------------------------
(* The data processor *)

(* Nothing is queued and no group has a packet.                             *)
LEMMA DataInit == Init => DataInv
<1> SUFFICES ASSUME Init PROVE DataInv
  OBVIOUS
<1>1. /\ rawPacketsQueue = <<>> /\ Len(rawPacketsQueue) = 0
      /\ rawPacketsQueue \in Seq(Packet)
  BY DEF Init
<1>2. ASSUME NEW o \in Obj
      PROVE  /\ groupInProgress[o] = NewGroup(o) /\ groupInProgress[o] \in Group
             /\ handed[o] = <<>> /\ Len(handed[o]) = 0 /\ Len(groupInProgress[o].items) = 0
  BY NewGroupType DEF Init
<1>3. groupInProgress \in [Obj -> Group]
  BY NewGroupType DEF Init
<1>4. handed \in [Obj -> Seq(Group)]
  BY DEF Init
<1>5. TypeOK
  BY <1>1, <1>3, <1>4 DEF Init, TypeOK
<1>6. \A o \in Obj : QueueInv(o)
  BY <1>1, <1>2 DEF QueueInv
<1>7. \A o \in Obj : GroupsInv(o)
  BY <1>2 DEF GroupsInv
<1> QED BY <1>5, <1>6, <1>7 DEF DataInv

(* What the head of the queue is to what is stored and to what remains.     *)
LEMMA PopFacts ==
  ASSUME DataInv, Pop
  PROVE  LET pkt == Head(rawPacketsQueue)
             q   == rawPacketsQueue'
         IN /\ pkt \in Packet /\ q \in Seq(Packet)
            /\ \A o \in Obj :
                 /\ \A i \in 1..Len(q) : q[i].id = o => q[i].n <= received[o]
                 /\ \A i, j \in 1..Len(q) :
                       i < j /\ q[i].id = o /\ q[j].id = o => q[i].n < q[j].n
                 /\ \A m \in 1..Len(groupInProgress[o].items) :
                       /\ groupInProgress[o].items[m].n <= received[o]
                       /\ pkt.id = o => groupInProgress[o].items[m].n < pkt.n
                       /\ \A i \in 1..Len(q) :
                             q[i].id = o => groupInProgress[o].items[m].n < q[i].n
                 /\ pkt.id = o =>
                       /\ pkt.n <= received[o]
                       /\ \A i \in 1..Len(q) : q[i].id = o => pkt.n < q[i].n
<1> DEFINE r == rawPacketsQueue
           q == rawPacketsQueue'
           pkt == Head(r)
<1>1. r \in Seq(Packet) /\ r # <<>> /\ q = Tail(r)
  BY DEF DataInv, TypeOK, Pop
<1>2. /\ pkt \in Packet /\ q \in Seq(Packet) /\ pkt = r[1]
      /\ Len(r) \in Nat /\ Len(r) > 0 /\ Len(q) = Len(r) - 1
      /\ \A i \in 1..Len(q) : q[i] = r[i + 1]
  BY <1>1, HeadTailProperties, EmptySeq
<1>3. /\ 1 \in 1..Len(r)
      /\ \A i \in 1..Len(q) : i + 1 \in 1..Len(r) /\ 1 < i + 1
      /\ \A i, j \in 1..Len(q) : i < j => i + 1 < j + 1
  BY <1>2
<1> HIDE DEF q, pkt
<1>4. ASSUME NEW o \in Obj
      PROVE  /\ \A i \in 1..Len(r) : r[i].id = o => r[i].n <= received[o]
             /\ \A i, j \in 1..Len(r) :
                   i < j /\ r[i].id = o /\ r[j].id = o => r[i].n < r[j].n
             /\ \A m \in 1..Len(groupInProgress[o].items) :
                   /\ groupInProgress[o].items[m].n <= received[o]
                   /\ \A i \in 1..Len(r) :
                         r[i].id = o => groupInProgress[o].items[m].n < r[i].n
  BY DEF DataInv, QueueInv
<1> HIDE DEF r
<1>5. ASSUME NEW o \in Obj
      PROVE  /\ \A i \in 1..Len(q) : q[i].id = o => q[i].n <= received[o]
             /\ \A i, j \in 1..Len(q) :
                   i < j /\ q[i].id = o /\ q[j].id = o => q[i].n < q[j].n
  BY <1>2, <1>3, <1>4
<1>6. ASSUME NEW o \in Obj, NEW m \in 1..Len(groupInProgress[o].items)
      PROVE  /\ groupInProgress[o].items[m].n <= received[o]
             /\ pkt.id = o => groupInProgress[o].items[m].n < pkt.n
             /\ \A i \in 1..Len(q) :
                   q[i].id = o => groupInProgress[o].items[m].n < q[i].n
  BY <1>2, <1>3, <1>4
<1>7. ASSUME NEW o \in Obj, pkt.id = o
      PROVE  /\ pkt.n <= received[o]
             /\ \A i \in 1..Len(q) : q[i].id = o => pkt.n < q[i].n
  BY <1>2, <1>3, <1>4, <1>7
<1> QED BY <1>2, <1>5, <1>6, <1>7 DEF q, r, pkt

(* A packet that is received is the newest of its object.                   *)
LEMMA ReceiveKeeps ==
  ASSUME DataInv, NEW id \in Ids, NEW time \in ClockStamps, ReceivePkt(id, time)
  PROVE  DataInv'
<1> DEFINE pkt == [id |-> id, time |-> time, n |-> received[id] + 1]
           r == rawPacketsQueue
           q == rawPacketsQueue'
<1>1. /\ received' = [received EXCEPT ![id] = @ + 1]
      /\ q = Append(r, pkt)
      /\ groupInProgress' = groupInProgress /\ handed' = handed
  BY DEF ReceivePkt
<1>2. /\ received \in [Ids -> Nat] /\ r \in Seq(Packet)
      /\ groupInProgress \in [Obj -> Group] /\ handed \in [Obj -> Seq(Group)]
  BY DEF DataInv, TypeOK
<1>3. pkt \in Packet /\ pkt.id = id /\ pkt.n = received[id] + 1
  <2>1. time \in Time /\ Normal(time)
    BY StampsNormal
  <2> QED BY <1>2, <2>1 DEF Packet
<1> HIDE DEF pkt
<1>4. /\ q \in Seq(Packet) /\ Len(q) = Len(r) + 1 /\ Len(r) \in Nat
      /\ \A i \in 1..Len(r) : q[i] = r[i]
      /\ q[Len(r) + 1] = pkt
  BY <1>1, <1>2, <1>3
<1>5. \A i \in 1..Len(q) : i \in 1..Len(r) \/ i = Len(r) + 1
  BY <1>4
<1>6. /\ received' \in [Ids -> Nat]
      /\ received'[id] = received[id] + 1
      /\ \A o \in Ids : o # id => received'[o] = received[o]
  BY <1>1, <1>2
<1>7. TypeOK'
  BY <1>1, <1>2, <1>4, <1>6 DEF TypeOK
<1>8. ASSUME NEW o \in Obj
      PROVE  QueueInv(o)'
  <2> DEFINE items == groupInProgress[o].items
  <2>1. /\ \A i \in 1..Len(r) : r[i].id = o => r[i].n <= received[o]
        /\ \A i, j \in 1..Len(r) : i < j /\ r[i].id = o /\ r[j].id = o => r[i].n < r[j].n
        /\ \A m \in 1..Len(items) :
             /\ items[m].n <= received[o]
             /\ \A i \in 1..Len(r) : r[i].id = o => items[m].n < r[i].n
    BY DEF DataInv, QueueInv
  <2>2. /\ o \in Ids /\ received[o] \in Nat /\ received'[o] \in Nat
        /\ received[o] <= received'[o]
        /\ o = id => received[o] < pkt.n /\ pkt.n <= received'[o]
    BY <1>2, <1>3, <1>6 DEF Ids
  <2>3. /\ \A i \in 1..Len(r) : r[i].n \in Nat
        /\ \A m \in 1..Len(items) : items[m].n \in Nat
        /\ pkt.n \in Nat
    <3>1. items \in Seq(Packet)
      BY <1>2 DEF Group
    <3>2. /\ \A i \in 1..Len(r) : r[i] \in Packet
          /\ \A m \in 1..Len(items) : items[m] \in Packet
      BY <1>2, <3>1
    <3> QED BY <3>2, <1>3 DEF Packet
  <2> HIDE DEF items, q, r
  <2>4. \A i \in 1..Len(q) : q[i].id = o => q[i].n <= received'[o]
    BY <1>3, <1>4, <1>5, <2>1, <2>2, <2>3
  <2>5. \A i, j \in 1..Len(q) : i < j /\ q[i].id = o /\ q[j].id = o => q[i].n < q[j].n
    <3> SUFFICES ASSUME NEW i \in 1..Len(q), NEW j \in 1..Len(q), i < j,
                        q[i].id = o, q[j].id = o
                 PROVE  q[i].n < q[j].n
      OBVIOUS
    <3>1. i \in 1..Len(r)
      BY <1>4
    <3>2. CASE j \in 1..Len(r)
      BY <1>4, <2>1, <3>1, <3>2
    <3>3. CASE j = Len(r) + 1
      <4>1. o = id /\ q[j].n = pkt.n
        BY <1>3, <1>4, <3>3
      <4>2. q[i].n <= received[o] /\ q[i].n \in Nat
        BY <1>4, <2>1, <2>3, <3>1
      <4> QED BY <2>2, <2>3, <4>1, <4>2
    <3> QED BY <1>5, <3>2, <3>3
  <2>6. ASSUME NEW m \in 1..Len(items)
        PROVE  /\ items[m].n <= received'[o]
               /\ \A i \in 1..Len(q) : q[i].id = o => items[m].n < q[i].n
    <3>1. items[m].n <= received'[o]
      BY <2>1, <2>2, <2>3
    <3>2. ASSUME NEW i \in 1..Len(q), q[i].id = o PROVE items[m].n < q[i].n
      <4>1. CASE i \in 1..Len(r)
        BY <1>4, <2>1, <3>2, <4>1
      <4>2. CASE i = Len(r) + 1
        <5>1. o = id /\ q[i] = pkt
          BY <1>3, <1>4, <3>2, <4>2
        <5> QED BY <2>1, <2>2, <2>3, <5>1
      <4> QED BY <1>5, <4>1, <4>2
    <3> QED BY <3>1, <3>2
  <2>7. (groupInProgress[o].items)' = items
    BY <1>1 DEF items
  <2> QED BY <2>4, <2>5, <2>6, <2>7 DEF QueueInv, q
<1>9. ASSUME NEW o \in Obj
      PROVE  GroupsInv(o)'
  <2>1. GroupsInv(o)
    BY DEF DataInv
  <2> QED BY <1>1, <2>1 DEF GroupsInv
<1> QED BY <1>7, <1>8, <1>9 DEF DataInv

(* A packet that is dropped only leaves the queue.                          *)
LEMMA DropKeeps ==
  ASSUME DataInv, DropPkt
  PROVE  DataInv'
<1>1. /\ Pop
      /\ UNCHANGED <<received, groupInProgress, handed>>
  BY DEF DropPkt
<1>2. TypeOK'
  BY <1>1, PopFacts DEF DataInv, TypeOK
<1>3. \A o \in Obj : QueueInv(o)'
  BY <1>1, PopFacts DEF QueueInv
<1>4. ASSUME NEW o \in Obj PROVE GroupsInv(o)'
  <2>1. GroupsInv(o)
    BY DEF DataInv
  <2> QED BY <1>1, <2>1 DEF GroupsInv
<1> QED BY <1>2, <1>3, <1>4 DEF DataInv

(* A packet that joins the open group of its object.                        *)
LEMMA AddKeeps ==
  ASSUME DataInv, AddToGroup
  PROVE  DataInv'
<1> DEFINE pkt == Head(rawPacketsQueue)
           p == pkt.id
           g == groupInProgress[p]
           h == PushBack(g, pkt)
           q == rawPacketsQueue'
<1>1. /\ Pop /\ p \in Obj
      /\ groupInProgress' = [groupInProgress EXCEPT ![p] = h]
      /\ received' = received /\ handed' = handed
  BY DEF AddToGroup
<1>2. /\ received \in [Ids -> Nat]
      /\ groupInProgress \in [Obj -> Group] /\ handed \in [Obj -> Seq(Group)]
      /\ g \in Group
  BY <1>1 DEF DataInv, TypeOK
<1>3. /\ pkt \in Packet /\ q \in Seq(Packet)
      /\ \A o \in Obj :
           /\ \A i \in 1..Len(q) : q[i].id = o => q[i].n <= received[o]
           /\ \A i, j \in 1..Len(q) :
                 i < j /\ q[i].id = o /\ q[j].id = o => q[i].n < q[j].n
           /\ \A m \in 1..Len(groupInProgress[o].items) :
                 /\ groupInProgress[o].items[m].n <= received[o]
                 /\ \A i \in 1..Len(q) :
                       q[i].id = o => groupInProgress[o].items[m].n < q[i].n
      /\ pkt.n <= received[p]
      /\ \A i \in 1..Len(q) : q[i].id = p => pkt.n < q[i].n
      /\ \A m \in 1..Len(g.items) : g.items[m].n < pkt.n
  BY <1>1, PopFacts
<1>4. /\ GroupsInv(p)
      /\ (g = NewGroup(p) /\ handed[p] = <<>>) \/ Filled(p, g)
  BY <1>1 DEF DataInv, GroupsInv
<1>5. /\ h \in Group /\ Filled(p, h)
      /\ h.items \in {<<pkt>>, g.items, Append(g.items, pkt)}
      /\ Filled(p, g) => FirstStored(h) = FirstStored(g)
  <2>1. CASE Filled(p, g)
    BY <1>1, <1>2, <1>3, <2>1, PushNext
  <2>2. CASE g = NewGroup(p) /\ ~Filled(p, g)
    <3>1. h = PushBack(NewGroup(p), pkt)
      BY <2>2
    <3> HIDE DEF h, g
    <3> QED BY <1>1, <1>3, <2>2, <3>1, PushFirst
  <2> QED BY <1>4, <2>1, <2>2
<1> HIDE DEF h
<1>6. /\ groupInProgress' \in [Obj -> Group]
      /\ groupInProgress'[p] = h
      /\ \A o \in Obj : o # p => groupInProgress'[o] = groupInProgress[o]
  BY <1>1, <1>2, <1>5
<1>7. TypeOK'
  BY <1>1, <1>2, <1>3, <1>6 DEF TypeOK
<1>8. ASSUME NEW m \in 1..Len(h.items)
      PROVE  /\ h.items[m].n <= received[p]
             /\ \A i \in 1..Len(q) : q[i].id = p => h.items[m].n < q[i].n
  <2>1. g.items \in Seq(Packet)
    BY <1>2 DEF Group
  <2>2. h.items[m] = pkt \/ (m \in 1..Len(g.items) /\ h.items[m] = g.items[m])
    <3> HIDE DEF g, pkt
    <3>1. CASE h.items = <<pkt>>
      BY <3>1
    <3>2. CASE h.items = g.items
      BY <3>2
    <3>3. CASE h.items = Append(g.items, pkt)
      BY <1>3, <2>1, <3>3
    <3> QED BY <1>5, <3>1, <3>2, <3>3
  <2> QED BY <1>1, <1>3, <2>2
<1>9. ASSUME NEW o \in Obj PROVE QueueInv(o)'
  <2>1. CASE o = p
    <3>1. (groupInProgress[o].items)' = h.items
      BY <1>6, <2>1
    <3> HIDE DEF p, pkt
    <3> QED BY <1>1, <1>3, <1>8, <2>1, <3>1 DEF QueueInv
  <2>2. CASE o # p
    <3>1. (groupInProgress[o].items)' = groupInProgress[o].items
      BY <1>6, <2>2
    <3> QED BY <1>1, <1>3, <3>1 DEF QueueInv
  <2> QED BY <2>1, <2>2
<1>10. ASSUME NEW o \in Obj PROVE GroupsInv(o)'
  <2>0. GroupsInv(o)
    BY DEF DataInv
  <2>1. CASE o # p
    BY <1>1, <1>6, <2>0, <2>1 DEF GroupsInv
  <2>2. CASE o = p
    <3>1. groupInProgress'[o] = h /\ handed'[o] = handed[o] /\ Filled(o, h)
      BY <1>1, <1>5, <1>6, <2>2
    <3>2. ASSUME NEW k \in 1..Len(handed[o]) PROVE Behind(handed[o][k], h)
      <4>1. Filled(p, g)
        BY <1>4, <2>2, <3>2
      <4>2. Behind(handed[o][k], g)
        BY <2>0, <2>2 DEF GroupsInv
      <4> QED BY <1>5, <4>1, <4>2 DEF Behind
    <3> QED BY <2>0, <3>1, <3>2 DEF GroupsInv
  <2> QED BY <2>1, <2>2
<1> QED BY <1>7, <1>9, <1>10 DEF DataInv

(* A packet that closes the open group of its object and opens the next.    *)
LEMMA SendKeeps ==
  ASSUME DataInv, SendGroup
  PROVE  DataInv'
<1> DEFINE pkt == Head(rawPacketsQueue)
           p == pkt.id
           g == groupInProgress[p]
           h == PushBack(NewGroup(p), pkt)
           q == rawPacketsQueue'
           H == handed[p]
<1>1. /\ Pop /\ p \in Obj /\ g.items # <<>>
      /\ groupInProgress' = [groupInProgress EXCEPT ![p] = h]
      /\ handed' = [handed EXCEPT ![p] = Append(H, g)]
      /\ received' = received
  BY DEF SendGroup, IsTimeToSendGroup
<1>2. /\ received \in [Ids -> Nat]
      /\ groupInProgress \in [Obj -> Group] /\ handed \in [Obj -> Seq(Group)]
      /\ g \in Group /\ H \in Seq(Group)
  BY <1>1 DEF DataInv, TypeOK
<1>3. /\ pkt \in Packet /\ q \in Seq(Packet)
      /\ \A o \in Obj :
           /\ \A i \in 1..Len(q) : q[i].id = o => q[i].n <= received[o]
           /\ \A i, j \in 1..Len(q) :
                 i < j /\ q[i].id = o /\ q[j].id = o => q[i].n < q[j].n
           /\ \A m \in 1..Len(groupInProgress[o].items) :
                 /\ groupInProgress[o].items[m].n <= received[o]
                 /\ \A i \in 1..Len(q) :
                       q[i].id = o => groupInProgress[o].items[m].n < q[i].n
      /\ pkt.n <= received[p]
      /\ \A i \in 1..Len(q) : q[i].id = p => pkt.n < q[i].n
      /\ \A m \in 1..Len(g.items) : g.items[m].n < pkt.n
  BY <1>1, PopFacts
<1>4. Filled(p, g)
  <2>1. g # NewGroup(p)
    BY <1>1, NewGroupType
  <2> QED BY <1>1, <2>1 DEF DataInv, GroupsInv
<1>5. h \in Group /\ Filled(p, h) /\ h.items = <<pkt>>
  BY <1>1, <1>3, PushFirst
<1> HIDE DEF h
<1>6. /\ groupInProgress' \in [Obj -> Group] /\ groupInProgress'[p] = h
      /\ \A o \in Obj : o # p => groupInProgress'[o] = groupInProgress[o]
  BY <1>1, <1>2, <1>5
<1>7. /\ handed' \in [Obj -> Seq(Group)] /\ handed'[p] = Append(H, g)
      /\ \A o \in Obj : o # p => handed'[o] = handed[o]
  <2>1. Append(H, g) \in Seq(Group)
    BY <1>2
  <2> QED BY <1>1, <1>2, <2>1
<1>8. TypeOK'
  BY <1>1, <1>2, <1>3, <1>6, <1>7 DEF TypeOK
<1>9. ASSUME NEW o \in Obj PROVE QueueInv(o)'
  <2>1. CASE o = p
    <3>1. (groupInProgress[o].items)' = <<pkt>>
      BY <1>5, <1>6, <2>1
    <3>2. Len(<<pkt>>) = 1 /\ <<pkt>>[1] = pkt
      OBVIOUS
    <3> HIDE DEF p, pkt
    <3> QED BY <1>1, <1>3, <2>1, <3>1, <3>2 DEF QueueInv
  <2>2. CASE o # p
    <3>1. (groupInProgress[o].items)' = groupInProgress[o].items
      BY <1>6, <2>2
    <3> QED BY <1>1, <1>3, <3>1 DEF QueueInv
  <2> QED BY <2>1, <2>2
<1>10. Behind(g, h)
  <2>1. FirstStored(h) = pkt
    BY <1>5 DEF FirstStored
  <2>2. Len(g.items) \in 1..Len(g.items)
    BY <1>1, <1>2, EmptySeq DEF Group
  <2> QED BY <1>3, <2>1, <2>2 DEF Behind, LastStored
<1>11. ASSUME NEW o \in Obj PROVE GroupsInv(o)'
  <2>0. GroupsInv(o)
    BY DEF DataInv
  <2>1. CASE o # p
    BY <1>6, <1>7, <2>0, <2>1 DEF GroupsInv
  <2>2. CASE o = p
    <3> DEFINE D == Append(H, g)
    <3>1. groupInProgress'[o] = h /\ handed'[o] = D /\ Filled(o, h)
      BY <1>5, <1>6, <1>7, <2>2
    <3>2. /\ Len(D) = Len(H) + 1 /\ Len(H) \in Nat
          /\ \A k \in 1..Len(H) : D[k] = H[k] /\ H[k] \in Group
          /\ D[Len(H) + 1] = g
          /\ \A k \in 1..Len(D) : k \in 1..Len(H) \/ k = Len(H) + 1
      <4>1. Len(H) \in Nat /\ \A k \in 1..Len(H) : H[k] \in Group
        BY <1>2
      <4>2. /\ Len(D) = Len(H) + 1 /\ D[Len(H) + 1] = g
            /\ \A k \in 1..Len(H) : D[k] = H[k]
        BY <1>2, AppendProperties
      <4> HIDE DEF D, H, g
      <4>3. \A k \in 1..Len(D) : k \in 1..Len(H) \/ k = Len(H) + 1
        BY <4>1, <4>2
      <4> QED BY <4>1, <4>2, <4>3
    <3>3. /\ \A k \in 1..Len(H) : Filled(p, H[k]) /\ Behind(H[k], g)
          /\ \A k, m \in 1..Len(H) : k < m => Behind(H[k], H[m])
      BY <2>0, <2>2 DEF GroupsInv
    <3> HIDE DEF D, H, g, pkt, p
    <3>4. ASSUME NEW k \in 1..Len(D) PROVE Filled(p, D[k]) /\ Behind(D[k], h)
      <4>1. CASE k \in 1..Len(H)
        <5>1. Behind(H[k], h)
          BY <1>1, <1>2, <1>4, <1>5, <1>10, <3>2, <3>3, <4>1, BehindTransitive
        <5> QED BY <3>2, <3>3, <4>1, <5>1
      <4>2. CASE k = Len(H) + 1
        BY <1>4, <1>10, <3>2, <4>2
      <4> QED BY <3>2, <4>1, <4>2
    <3>5. ASSUME NEW k \in 1..Len(D), NEW m \in 1..Len(D), k < m
          PROVE  Behind(D[k], D[m])
      <4>1. k \in 1..Len(H)
        BY <3>2, <3>5
      <4>2. CASE m \in 1..Len(H)
        BY <3>2, <3>3, <3>5, <4>1, <4>2
      <4>3. CASE m = Len(H) + 1
        BY <3>2, <3>3, <4>1, <4>3
      <4> QED BY <3>2, <4>2, <4>3
    <3> QED BY <2>2, <3>1, <3>4, <3>5 DEF GroupsInv
  <2> QED BY <2>1, <2>2
<1> QED BY <1>8, <1>9, <1>11 DEF DataInv

(* Every step of the UDP server and of the data processor preserves it.     *)
LEMMA DataNext == DataInv /\ [Next]_vars => DataInv'
<1> SUFFICES ASSUME DataInv, [Next]_vars PROVE DataInv'
  OBVIOUS
<1>1. CASE \E id \in Ids, time \in ClockStamps : ReceivePkt(id, time)
  BY <1>1, ReceiveKeeps
<1>2. CASE DropPkt
  BY <1>2, DropKeeps
<1>3. CASE AddToGroup
  BY <1>3, AddKeeps
<1>4. CASE SendGroup
  BY <1>4, SendKeeps
<1>5. CASE UNCHANGED vars
  <2>1. TypeOK'
    BY <1>5 DEF DataInv, TypeOK, vars
  <2>2. \A o \in Obj : QueueInv(o)' /\ GroupsInv(o)'
    BY <1>5 DEF DataInv, QueueInv, GroupsInv, vars
  <2> QED BY <2>1, <2>2 DEF DataInv
<1> QED BY <1>1, <1>2, <1>3, <1>4, <1>5 DEF Next, serverLoop, PollEmpty

(* The groups of an object are those handed over and, last, the open one.   *)
LEMMA GroupsOf ==
  ASSUME DataInv, NEW o \in Obj
  PROVE  LET gs == Groups(o)
             n  == Len(handed[o])
         IN /\ gs \in Seq(Group) /\ DOMAIN gs = 1..Len(gs)
            /\ n \in Nat /\ Len(gs) \in {n, n + 1}
            /\ \A k \in 1..Len(gs) :
                 /\ Filled(o, gs[k])
                 /\ \/ k \in 1..n /\ gs[k] = handed[o][k]
                    \/ k = n + 1 /\ gs[k] = groupInProgress[o]
<1> DEFINE gs == Groups(o)
           H == handed[o]
           g == groupInProgress[o]
<1>1. g \in Group /\ H \in Seq(Group) /\ Len(H) \in Nat
  BY DEF DataInv, TypeOK
<1>2. \A k \in 1..Len(H) : Filled(o, H[k])
  BY DEF DataInv, GroupsInv
<1>3. CASE g.items = <<>>
  <2>1. gs = H
    BY <1>3 DEF Groups
  <2> QED BY <1>1, <1>2, <2>1
<1>4. CASE g.items # <<>>
  <2>1. gs = Append(H, g)
    BY <1>4 DEF Groups
  <2>2. Filled(o, g)
    <3>1. g # NewGroup(o)
      BY <1>4, NewGroupType
    <3> QED BY <3>1 DEF DataInv, GroupsInv
  <2> HIDE DEF gs, H, g
  <2>3. /\ gs \in Seq(Group) /\ DOMAIN gs = 1..Len(gs) /\ Len(gs) = Len(H) + 1
        /\ \A k \in 1..Len(H) : gs[k] = H[k]
        /\ gs[Len(H) + 1] = g
        /\ \A k \in 1..Len(gs) : k \in 1..Len(H) \/ k = Len(H) + 1
    BY <1>1, <2>1
  <2>4. ASSUME NEW k \in 1..Len(gs)
        PROVE  /\ Filled(o, gs[k])
               /\ (k \in 1..Len(H) /\ gs[k] = H[k]) \/ (k = Len(H) + 1 /\ gs[k] = g)
    BY <1>2, <2>2, <2>3
  <2> QED BY <1>1, <2>3, <2>4 DEF gs, H, g
<1> QED BY <1>3, <1>4

(* Division with remainder.                                                 *)
LEMMA DivUnique ==
  ASSUME NEW b \in Nat \ {0}, NEW q \in Nat, NEW r \in 0..(b - 1)
  PROVE  (q * b + r) \div b = q
<1> DEFINE a == q * b + r
           d == a \div b
<1>1. q * b \in Nat /\ a \in Nat /\ b > 0 /\ b \in Nat
  OBVIOUS
<1>2. d \in Int /\ b * d <= a /\ a < b * d + b
  <2> HIDE DEF a
  <2> QED BY <1>1
<1>3. ~(d > q)
  <2> SUFFICES ASSUME d > q PROVE FALSE
    OBVIOUS
  <2>1. d \in Nat
    BY <1>2
  <2> HIDE DEF d
  <2>2. d * b >= q * b + b
    BY <1>1, <2>1, SecondsOutweigh
  <2>3. d * b = b * d
    BY <1>1, <2>1
  <2> QED BY <1>1, <1>2, <2>2, <2>3
<1>4. ~(d < q)
  <2> SUFFICES ASSUME d < q PROVE FALSE
    OBVIOUS
  <2>1. d \in Nat
    BY <1>1
  <2> HIDE DEF d
  <2>2. q * b >= d * b + b
    BY <1>1, <2>1, SecondsOutweigh
  <2>3. d * b = b * d
    BY <1>1, <2>1
  <2> QED BY <1>1, <1>2, <2>2, <2>3
<1> QED BY <1>2, <1>3, <1>4

-----------------------------------------------------------------------------
(* Accounting *)

(* A group that a packet is pushed into keeps its spacing, if that packet   *)
(* is the next one of its object.                                           *)
LEMMA PushSpaced ==
  ASSUME NEW o \in Obj, NEW g \in Group, NEW pkt \in Packet,
         Filled(o, g), Spaced(o, g),
         \A i \in 1..Len(g.items) : g.items[i].n < pkt.n,
         pkt.id = o, pkt.n = FirstStored(g).n + g.seen
  PROVE  Spaced(o, PushBack(g, pkt))
<1> DEFINE h == PushBack(g, pkt)
           it == g.items
           K == g.storeEvery
           L == Len(it)
<1>1. /\ h \in Group /\ Filled(o, h) /\ h.seen = g.seen + 1
      /\ h.items \in {it, Append(it, pkt)} /\ FirstStored(h) = FirstStored(g)
  BY PushNext
<1>2. /\ it \in Seq(Packet) /\ L \in Nat /\ K \in Nat
      /\ g.skipLeft \in Nat /\ g.seen \in Nat /\ g.seen + g.skipLeft = L * K
      /\ K = NewGroup(o).storeEvery
  BY DEF Group, Filled
<1> HIDE DEF h
<1>3. /\ h.storeEvery = K /\ h.skipLeft \in Nat /\ h.skipLeft < K
      /\ h.seen + h.skipLeft = Len(h.items) * K
  BY <1>1, <1>2 DEF Group, Filled
<1>4. ASSUME h.items = it PROVE Spaced(o, h)
  <2>1. \A j \in 1..L : it[j].id = o /\ it[j].n = FirstStored(g).n + (j - 1) * K
    BY DEF Spaced
  <2> HIDE DEF K, L, it
  <2>2. \A j \in 1..Len(h.items) : j \in 1..L /\ h.items[j] = it[j]
    BY <1>4 DEF L
  <2> QED BY <1>1, <1>3, <2>1, <2>2 DEF Spaced
<1>5. ASSUME h.items = Append(it, pkt) PROVE Spaced(o, h)
  <2>1. /\ Len(h.items) = L + 1 /\ h.items[L + 1] = pkt
        /\ \A j \in 1..L : h.items[j] = it[j]
    BY <1>2, <1>5, AppendProperties
  <2>2. g.seen = L * K
    <3> DEFINE m == L * K
    <3>0. L \in Nat /\ K \in Nat
      BY <1>2
    <3> HIDE DEF K, L
    <3>1. (L + 1) * K = m + K /\ m \in Nat
      BY <3>0
    <3> HIDE DEF m
    <3>2. h.seen + h.skipLeft = m + K
      BY <1>3, <2>1, <3>1
    <3>3. g.seen + g.skipLeft = m
      BY <1>2 DEF m
    <3>4. g.seen + 1 + h.skipLeft = g.seen + g.skipLeft + K
      BY <1>1, <3>2, <3>3
    <3>5. g.skipLeft = 0
      <4>1. g.skipLeft \in Nat /\ h.skipLeft \in Nat /\ h.skipLeft < K /\ g.seen \in Nat
        BY <1>2, <1>3
      <4> QED BY <3>0, <3>4, <4>1
    <3> QED BY <1>2, <3>3, <3>5 DEF m
  <2>3. ((L + 1) - 1) * K = L * K
    BY <1>2
  <2>6. \A j \in 1..L : it[j].id = o /\ it[j].n = FirstStored(g).n + (j - 1) * K
    BY DEF Spaced
  <2> HIDE DEF K, L, it
  <2>4. \A j \in 1..(L + 1) : j \in 1..L \/ j = L + 1
    BY <1>2
  <2>5. ASSUME NEW j \in 1..(L + 1)
        PROVE  /\ h.items[j].id = o
               /\ h.items[j].n = FirstStored(h).n + (j - 1) * K
    <3>1. CASE j \in 1..L
      BY <1>1, <2>1, <2>6, <3>1
    <3>2. CASE j = L + 1
      BY <1>1, <2>1, <2>2, <2>3, <3>2
    <3> QED BY <2>4, <3>1, <3>2
  <2> QED BY <1>3, <2>1, <2>5 DEF Spaced
<1> QED BY <1>1, <1>4, <1>5 DEF h

(* A group with a single packet.                                            *)
LEMMA FirstSpaced ==
  ASSUME NEW o \in Obj, NEW h, NEW pkt \in Packet, pkt.id = o,
         h.items = <<pkt>>, h.storeEvery \in Nat
  PROVE  Spaced(o, h)
<1>1. /\ Len(h.items) = 1 /\ h.items[1] = pkt /\ FirstStored(h) = pkt
      /\ pkt.n \in Nat /\ (1 - 1) * h.storeEvery = 0
  BY DEF FirstStored, Packet
<1>2. \A j \in 1..1 : j = 1
  OBVIOUS
<1> QED BY <1>1, <1>2 DEF Spaced

(* The packets of an object are counted by natural numbers.                 *)
LEMMA GroupNumbers ==
  ASSUME NEW g \in Group, g.items # <<>>
  PROVE  FirstStored(g).n \in Nat /\ g.seen \in Nat
<1>1. FirstStored(g) \in Packet
  BY EmptySeq DEF Group, FirstStored
<1> QED BY <1>1 DEF Group, Packet

(* The number behind the groups of an object is a number.                   *)
LEMMA NextNoType ==
  ASSUME DataInv, NEW o \in Obj
  PROVE  NextNo(o) \in Nat
<1>1. groupInProgress[o] \in Group
  BY DEF DataInv, TypeOK
<1>2. CASE groupInProgress[o].items = <<>>
  BY <1>2 DEF NextNo
<1>3. CASE groupInProgress[o].items # <<>>
  BY <1>1, <1>3, GroupNumbers DEF NextNo
<1> QED BY <1>2, <1>3

(* The packet taken from the queue is the next of its object.               *)
LEMMA PopAccount ==
  ASSUME DataInv, Pop, NEW o \in Obj, AccountInv(o)
  PROVE  LET pkt == Head(rawPacketsQueue)
             q   == rawPacketsQueue'
             m   == IF pkt.id = o THEN NextNo(o) + 1 ELSE NextNo(o)
         IN /\ pkt.id = o => pkt.n = NextNo(o) /\ pkt.n <= received[o]
            /\ NextNo(o) \in Nat
            /\ \A n \in m..received[o] : \E i \in 1..Len(q) : q[i].id = o /\ q[i].n = n
            /\ \A i \in 1..Len(q) : q[i].id = o => m <= q[i].n
<1> DEFINE r == rawPacketsQueue
           q == rawPacketsQueue'
           pkt == Head(r)
           N == NextNo(o)
           R == received[o]
<1>1. r \in Seq(Packet) /\ r # <<>> /\ q = Tail(r)
  BY DEF DataInv, TypeOK, Pop
<1>2. /\ pkt \in Packet /\ pkt = r[1] /\ q \in Seq(Packet)
      /\ Len(r) \in Nat /\ Len(r) > 0 /\ Len(q) = Len(r) - 1
      /\ \A i \in 1..Len(q) : q[i] = r[i + 1]
  BY <1>1, HeadTailProperties, EmptySeq
<1>3. /\ 1 \in 1..Len(r)
      /\ \A i \in 1..Len(q) : i + 1 \in 1..Len(r)
      /\ \A i \in 1..Len(r) : i = 1 \/ (i - 1 \in 1..Len(q) /\ (i - 1) + 1 = i)
  BY <1>2
<1>4. N \in Nat /\ R \in Nat
  BY NextNoType DEF DataInv, TypeOK, Ids
<1>5. /\ \A n \in N..R : \E i \in 1..Len(r) : r[i].id = o /\ r[i].n = n
      /\ \A i \in 1..Len(r) : r[i].id = o => N <= r[i].n
  BY DEF AccountInv
<1>6. pkt.id = o => /\ pkt.n <= R
                    /\ \A i \in 1..Len(q) : q[i].id = o => pkt.n < q[i].n
  BY PopFacts
<1>7. pkt.n \in Nat /\ \A i \in 1..Len(q) : q[i].n \in Nat
  <2>1. \A i \in 1..Len(q) : q[i] \in Packet
    BY <1>2
  <2> QED BY <1>2, <2>1 DEF Packet
<1> HIDE DEF q, pkt, N, R, r
<1>8. ASSUME NEW n \in N..R, pkt.id = o => n # pkt.n
      PROVE  \E i \in 1..Len(q) : q[i].id = o /\ q[i].n = n
  <2>1. PICK i \in 1..Len(r) : r[i].id = o /\ r[i].n = n
    BY <1>5
  <2>2. i # 1
    BY <1>2, <1>8, <2>1
  <2>3. q[i - 1] = r[i]
    BY <1>2, <1>3, <2>2
  <2> QED BY <1>3, <2>1, <2>2, <2>3
<1>9. \A i \in 1..Len(q) : q[i].id = o => N <= q[i].n
  BY <1>2, <1>3, <1>5
<1>10. CASE pkt.id = o
  <2>1. N <= pkt.n
    BY <1>2, <1>3, <1>5, <1>10
  <2>2. ~(N < pkt.n)
    <3> SUFFICES ASSUME N < pkt.n PROVE FALSE
      OBVIOUS
    <3>1. N \in N..R
      BY <1>4, <1>6, <1>7, <1>10
    <3>2. PICK i \in 1..Len(q) : q[i].id = o /\ q[i].n = N
      BY <1>8, <3>1
    <3> QED BY <1>4, <1>6, <1>7, <1>10, <3>2
  <2>3. pkt.n = N
    BY <1>4, <1>7, <2>1, <2>2
  <2>4. \A n \in (N + 1)..R : n \in N..R /\ n # pkt.n
    BY <1>4, <2>3
  <2>5. \A n \in (N + 1)..R : \E i \in 1..Len(q) : q[i].id = o /\ q[i].n = n
    BY <1>8, <2>4
  <2>6. \A i \in 1..Len(q) : q[i].id = o => N + 1 <= q[i].n
    BY <1>4, <1>6, <1>7, <1>10, <2>3
  <2> QED BY <1>4, <1>6, <1>10, <2>3, <2>5, <2>6 DEF q, pkt, N, R, r
<1>11. CASE pkt.id # o
  BY <1>4, <1>8, <1>9, <1>11 DEF q, pkt, N, R, r
<1> QED BY <1>10, <1>11

(* Nothing was received and no group has a packet.                          *)
LEMMA AccountInit == Init => \A o \in Obj : AccountInv(o)
<1> SUFFICES ASSUME Init, NEW o \in Obj PROVE AccountInv(o)
  OBVIOUS
<1>1. /\ rawPacketsQueue = <<>> /\ handed[o] = <<>> /\ received[o] = 0
      /\ groupInProgress[o].items = <<>>
  BY NewGroupType DEF Init, Ids
<1>2. NextNo(o) = 1
  BY <1>1 DEF NextNo
<1> QED BY <1>1, <1>2 DEF AccountInv, Spaced

(* The account of an object whose groups and received packets stay as they  *)
(* are.                                                                     *)
LEMMA AccountUntouched ==
  ASSUME NEW o \in Obj, AccountInv(o),
         groupInProgress'[o] = groupInProgress[o], handed'[o] = handed[o],
         received'[o] = received[o],
         \A n \in NextNo(o)..received[o] :
            \E i \in 1..Len(rawPacketsQueue') :
               rawPacketsQueue'[i].id = o /\ rawPacketsQueue'[i].n = n,
         \A i \in 1..Len(rawPacketsQueue') :
            rawPacketsQueue'[i].id = o => NextNo(o) <= rawPacketsQueue'[i].n
  PROVE  AccountInv(o)'
<1>1. NextNo(o)' = NextNo(o)
  BY DEF NextNo
<1> QED BY <1>1 DEF AccountInv

(* A packet that is received gets the number behind all others.             *)
LEMMA ReceiveAccount ==
  ASSUME DataInv, NEW id \in Ids, NEW time \in ClockStamps, ReceivePkt(id, time),
         NEW o \in Obj, AccountInv(o)
  PROVE  AccountInv(o)'
<1> DEFINE pkt == [id |-> id, time |-> time, n |-> received[id] + 1]
           r == rawPacketsQueue
           q == rawPacketsQueue'
           R == received[o]
           N == NextNo(o)
<1>1. /\ received' = [received EXCEPT ![id] = @ + 1] /\ q = Append(r, pkt)
      /\ groupInProgress' = groupInProgress /\ handed' = handed
      /\ received \in [Ids -> Nat] /\ r \in Seq(Packet) /\ o \in Ids
  BY DEF ReceivePkt, DataInv, TypeOK, Ids
<1>2. pkt \in Packet /\ pkt.id = id /\ pkt.n = received[id] + 1
  <2>1. time \in Time /\ Normal(time)
    BY StampsNormal
  <2> QED BY <1>1, <2>1 DEF Packet
<1> HIDE DEF pkt
<1>3. /\ Len(q) = Len(r) + 1 /\ Len(r) \in Nat /\ q[Len(r) + 1] = pkt
      /\ \A i \in 1..Len(r) : q[i] = r[i]
  BY <1>1, <1>2, AppendProperties
<1>4. /\ Len(r) + 1 \in 1..Len(q)
      /\ \A i \in 1..Len(r) : i \in 1..Len(q)
      /\ \A i \in 1..Len(q) : i \in 1..Len(r) \/ i = Len(r) + 1
  BY <1>3
<1>5. /\ N <= R + 1
      /\ \A n \in N..R : \E i \in 1..Len(r) : r[i].id = o /\ r[i].n = n
      /\ \A i \in 1..Len(r) : r[i].id = o => N <= r[i].n
  BY DEF AccountInv
<1>6. R \in Nat /\ (o = id => pkt.n = R + 1 /\ received'[o] = R + 1)
      /\ (o # id => received'[o] = R)
  BY <1>1, <1>2
<1>7. N \in Nat
  BY <1>1, NextNoType
<1>8. NextNo(o)' = N
  BY <1>1 DEF NextNo
<1> HIDE DEF q, r, N, R
<1>9. \A n \in N..R : \E i \in 1..Len(q) : q[i].id = o /\ q[i].n = n
  BY <1>3, <1>4, <1>5
<1>10. \A i \in 1..Len(q) : q[i].id = o => N <= q[i].n
  <2> SUFFICES ASSUME NEW i \in 1..Len(q), q[i].id = o PROVE N <= q[i].n
    OBVIOUS
  <2>1. CASE i \in 1..Len(r)
    BY <1>3, <1>5, <2>1
  <2>2. CASE i = Len(r) + 1
    BY <1>2, <1>3, <1>5, <1>6, <2>2
  <2> QED BY <1>4, <2>1, <2>2
<1>11. \A n \in N..received'[o] : \E i \in 1..Len(q) : q[i].id = o /\ q[i].n = n
  <2> SUFFICES ASSUME NEW n \in N..received'[o]
               PROVE  \E i \in 1..Len(q) : q[i].id = o /\ q[i].n = n
    OBVIOUS
  <2>1. CASE n \in N..R
    BY <1>9, <2>1
  <2>2. CASE ~(n \in N..R)
    <3>1. o = id /\ n = R + 1
      BY <1>6, <1>7, <2>2
    <3>2. q[Len(r) + 1].id = o /\ q[Len(r) + 1].n = n
      BY <1>2, <1>3, <1>6, <3>1
    <3> QED BY <1>4, <3>2
  <2> QED BY <2>1, <2>2
<1>12. N <= received'[o] + 1
  BY <1>5, <1>6, <1>7
<1>13. AccountInv(o)' <=>
         LET open == groupInProgress[o]
             done == handed[o]
         IN /\ Spaced(o, open) /\ \A k \in 1..Len(done) : Spaced(o, done[k])
            /\ open.items # <<>> =>
                  IF done = <<>> THEN FirstStored(open).n = 1
                  ELSE /\ FirstStored(done[1]).n = 1
                       /\ FirstStored(open).n
                              = FirstStored(done[Len(done)]).n + done[Len(done)].seen
            /\ \A k \in 1..(Len(done) - 1) :
                  FirstStored(done[k + 1]).n = FirstStored(done[k]).n + done[k].seen
            /\ N <= received'[o] + 1
            /\ \A n \in N..received'[o] : \E i \in 1..Len(q) : q[i].id = o /\ q[i].n = n
            /\ \A i \in 1..Len(q) : q[i].id = o => N <= q[i].n
  BY <1>1, <1>8 DEF AccountInv, q
<1> QED BY <1>10, <1>11, <1>12, <1>13 DEF AccountInv

(* A packet that is dropped is of no object.                                *)
LEMMA DropAccount ==
  ASSUME DataInv, DropPkt, NEW o \in Obj, AccountInv(o)
  PROVE  AccountInv(o)'
<1>1. /\ Pop /\ Head(rawPacketsQueue).id # o
      /\ UNCHANGED <<received, groupInProgress, handed>>
  BY DEF DropPkt
<1> QED BY <1>1, PopAccount, AccountUntouched

(* A packet that joins the open group is the next of its object.            *)
LEMMA AddAccount ==
  ASSUME DataInv, AddToGroup, NEW o \in Obj, AccountInv(o)
  PROVE  AccountInv(o)'
<1> DEFINE pkt == Head(rawPacketsQueue)
           p == pkt.id
           g == groupInProgress[p]
           h == PushBack(g, pkt)
           q == rawPacketsQueue'
           D == handed[p]
           R == received[p]
           N == NextNo(p)
<1>1. /\ Pop /\ p \in Obj
      /\ groupInProgress' = [groupInProgress EXCEPT ![p] = h]
      /\ groupInProgress \in [Obj -> Group] /\ g \in Group
      /\ received' = received /\ handed' = handed
  BY DEF AddToGroup, DataInv, TypeOK
<1>2. CASE o # p
  <2>1. groupInProgress'[o] = groupInProgress[o]
    BY <1>1, <1>2
  <2> QED BY <1>1, <1>2, <2>1, PopAccount, AccountUntouched
<1>3. CASE o = p
  <2>1. /\ pkt.n = N /\ pkt.n <= R /\ N \in Nat
        /\ \A n \in (N + 1)..R : \E i \in 1..Len(q) : q[i].id = p /\ q[i].n = n
        /\ \A i \in 1..Len(q) : q[i].id = p => N + 1 <= q[i].n
    BY <1>1, <1>3, PopAccount
  <2>2. pkt \in Packet /\ \A i \in 1..Len(g.items) : g.items[i].n < pkt.n
    BY <1>1, PopFacts
  <2>3. (g = NewGroup(p) /\ D = <<>>) \/ Filled(p, g)
    BY <1>1 DEF DataInv, GroupsInv
  <2>4. /\ Spaced(p, g) /\ \A k \in 1..Len(D) : Spaced(p, D[k])
        /\ g.items # <<>> =>
              IF D = <<>> THEN FirstStored(g).n = 1
              ELSE /\ FirstStored(D[1]).n = 1
                   /\ FirstStored(g).n = FirstStored(D[Len(D)]).n + D[Len(D)].seen
        /\ \A k \in 1..(Len(D) - 1) :
              FirstStored(D[k + 1]).n = FirstStored(D[k]).n + D[k].seen
    BY <1>3 DEF AccountInv
  <2>5. /\ h.items # <<>> /\ Spaced(p, h) /\ FirstStored(h).n + h.seen = N + 1
        /\ IF D = <<>> THEN FirstStored(h).n = 1
           ELSE /\ FirstStored(D[1]).n = 1
                /\ FirstStored(h).n = FirstStored(D[Len(D)]).n + D[Len(D)].seen
    <3>1. CASE Filled(p, g)
      <4>1. /\ Filled(p, h) /\ h.seen = g.seen + 1 /\ FirstStored(h) = FirstStored(g)
        BY <1>1, <2>2, <3>1, PushNext
      <4>2. g.items # <<>> /\ h.items # <<>> /\ N = FirstStored(g).n + g.seen
        BY <3>1, <4>1 DEF Filled, NextNo
      <4>3. Spaced(p, h)
        BY <1>1, <2>1, <2>2, <2>4, <3>1, <4>2, PushSpaced
      <4>4. FirstStored(g).n \in Nat /\ g.seen \in Nat
        BY <1>1, <4>2, GroupNumbers
      <4> HIDE DEF h, g, N, D
      <4>5. FirstStored(h).n + h.seen = N + 1
        BY <4>1, <4>2, <4>4
      <4> QED BY <2>4, <4>1, <4>2, <4>3, <4>5
    <3>2. CASE g = NewGroup(p) /\ D = <<>>
      <4>1. h.items = <<pkt>> /\ Filled(p, h) /\ h.seen = 1
        <5>1. h = PushBack(NewGroup(p), pkt)
          BY <3>2
        <5> HIDE DEF h, g
        <5> QED BY <1>1, <2>2, <5>1, PushFirst
      <4>2. N = 1
        BY <1>1, <3>2, NewGroupType DEF NextNo
      <4>3. FirstStored(h) = pkt
        BY <4>1 DEF FirstStored
      <4>4. Spaced(p, h)
        <5>1. h.storeEvery \in Nat
          BY <1>1, <4>1, NewGroupType DEF Filled, Group
        <5> QED BY <1>1, <2>2, <4>1, <5>1, FirstSpaced
      <4> HIDE DEF h, g, N, D, pkt
      <4> QED BY <2>1, <3>2, <4>1, <4>2, <4>3, <4>4 DEF Filled
    <3> QED BY <2>3, <3>1, <3>2
  <2>6. R \in Nat
    BY <1>1 DEF DataInv, TypeOK, Ids
  <2> HIDE DEF h, g, N, D, R, q
  <2>7. groupInProgress'[o] = h /\ handed'[o] = D /\ received'[o] = R
    BY <1>1, <1>3 DEF D, R
  <2>8. NextNo(o)' = N + 1
    BY <2>5, <2>7 DEF NextNo
  <2>9. N + 1 <= R + 1
    BY <2>1, <2>6
  <2> QED BY <1>3, <2>1, <2>4, <2>5, <2>7, <2>8, <2>9 DEF AccountInv, q
<1> QED BY <1>2, <1>3

(* A packet that closes the open group starts the next one, and is the next *)
(* of its object.                                                           *)
LEMMA SendAccount ==
  ASSUME DataInv, SendGroup, NEW o \in Obj, AccountInv(o)
  PROVE  AccountInv(o)'
<1> DEFINE pkt == Head(rawPacketsQueue)
           p == pkt.id
           g == groupInProgress[p]
           h == PushBack(NewGroup(p), pkt)
           q == rawPacketsQueue'
           D == handed[p]
           E == Append(D, g)
           R == received[p]
           N == NextNo(p)
<1>1. /\ Pop /\ p \in Obj /\ g.items # <<>>
      /\ groupInProgress' = [groupInProgress EXCEPT ![p] = h]
      /\ handed' = [handed EXCEPT ![p] = E] /\ received' = received
      /\ groupInProgress \in [Obj -> Group] /\ g \in Group
      /\ handed \in [Obj -> Seq(Group)] /\ D \in Seq(Group)
  BY DEF SendGroup, IsTimeToSendGroup, DataInv, TypeOK
<1>2. CASE o # p
  <2>1. groupInProgress'[o] = groupInProgress[o] /\ handed'[o] = handed[o]
    BY <1>1, <1>2
  <2> QED BY <1>1, <1>2, <2>1, PopAccount, AccountUntouched
<1>3. CASE o = p
  <2>1. /\ pkt.n = N /\ pkt.n <= R /\ N \in Nat
        /\ \A n \in (N + 1)..R : \E i \in 1..Len(q) : q[i].id = p /\ q[i].n = n
        /\ \A i \in 1..Len(q) : q[i].id = p => N + 1 <= q[i].n
    BY <1>1, <1>3, PopAccount
  <2>2. pkt \in Packet
    BY <1>1, PopFacts
  <2>3. /\ h.items = <<pkt>> /\ h.seen = 1 /\ h \in Group
    BY <1>1, <2>2, PushFirst
  <2>4. FirstStored(h) = pkt /\ N = FirstStored(g).n + g.seen
    BY <1>1, <2>3 DEF FirstStored, NextNo
  <2>5. Spaced(p, h)
    <3>1. h.storeEvery \in Nat
      BY <2>3 DEF Group
    <3> QED BY <1>1, <2>2, <2>3, <3>1, FirstSpaced
  <2>6. /\ Spaced(p, g) /\ \A k \in 1..Len(D) : Spaced(p, D[k])
        /\ IF D = <<>> THEN FirstStored(g).n = 1
           ELSE /\ FirstStored(D[1]).n = 1
                /\ FirstStored(g).n = FirstStored(D[Len(D)]).n + D[Len(D)].seen
        /\ \A k \in 1..(Len(D) - 1) :
              FirstStored(D[k + 1]).n = FirstStored(D[k]).n + D[k].seen
    BY <1>1, <1>3 DEF AccountInv
  <2>7. /\ Len(E) = Len(D) + 1 /\ Len(D) \in Nat /\ E[Len(D) + 1] = g /\ E # <<>>
        /\ \A k \in 1..Len(D) : E[k] = D[k]
    BY <1>1, AppendProperties
  <2>8. D = <<>> <=> Len(D) = 0
    BY <1>1, EmptySeq
  <2>9. h.items # <<>> /\ R \in Nat
    <3>1. Filled(p, h)
      BY <1>1, <2>2, PushFirst
    <3>2. R \in Nat
      BY <1>1 DEF DataInv, TypeOK, Ids
    <3> QED BY <3>1, <3>2 DEF Filled
  <2>10. groupInProgress'[o] = h /\ handed'[o] = E /\ received'[o] = R
    BY <1>1, <1>3
  <2> HIDE DEF h, g, N, D, E, R, q, pkt
  <2>11. NextNo(o)' = N + 1
    BY <2>1, <2>3, <2>4, <2>9, <2>10 DEF NextNo
  <2> DEFINE d == Len(D)
  <2>12. /\ d \in Nat /\ Len(E) = d + 1 /\ E[d + 1] = g /\ \A k \in 1..d : E[k] = D[k]
         /\ D = <<>> <=> d = 0
         /\ \A k \in 1..d : Spaced(p, D[k])
         /\ \A k \in 1..(d - 1) : FirstStored(D[k + 1]).n = FirstStored(D[k]).n + D[k].seen
         /\ D # <<>> => /\ FirstStored(D[1]).n = 1
                        /\ FirstStored(g).n = FirstStored(D[d]).n + D[d].seen
         /\ D = <<>> => FirstStored(g).n = 1
    BY <2>6, <2>7, <2>8
  <2> HIDE DEF d
  <2>13. ASSUME NEW k \in 1..Len(E) PROVE Spaced(p, E[k])
    <3>1. k \in 1..d \/ k = d + 1
      BY <2>12
    <3> QED BY <2>6, <2>12, <3>1
  <2>14. FirstStored(E[1]).n = 1
    <3>1. CASE d = 0
      BY <2>12, <3>1
    <3>2. CASE d # 0
      <4>1. 1 \in 1..d
        BY <2>12, <3>2
      <4> QED BY <2>12, <3>2, <4>1
    <3> QED BY <3>1, <3>2
  <2>15. FirstStored(h).n = FirstStored(E[Len(E)]).n + E[Len(E)].seen
    BY <2>1, <2>4, <2>12
  <2>16. ASSUME NEW k \in 1..(Len(E) - 1)
         PROVE  FirstStored(E[k + 1]).n = FirstStored(E[k]).n + E[k].seen
    <3>1. k \in 1..d /\ (k = d \/ (k \in 1..(d - 1) /\ k + 1 \in 1..d))
      BY <2>12
    <3>2. CASE k = d
      <4>1. d # 0
        BY <2>12, <3>1
      <4> QED BY <2>12, <3>1, <3>2, <4>1
    <3>3. CASE k \in 1..(d - 1) /\ k + 1 \in 1..d
      BY <2>12, <3>1, <3>3
    <3> QED BY <3>1, <3>2, <3>3
  <2>17. N + 1 <= R + 1
    BY <2>1, <2>9
  <2> QED BY <1>3, <2>1, <2>5, <2>7, <2>9, <2>10, <2>11, <2>13, <2>14, <2>15, <2>16, <2>17
          DEF AccountInv, q
<1> QED BY <1>2, <1>3

(* Every step keeps the account of every object.                            *)
LEMMA AccountNext ==
  ASSUME DataInv, \A o \in Obj : AccountInv(o), [Next]_vars
  PROVE  \A o \in Obj : AccountInv(o)'
<1> SUFFICES ASSUME NEW o \in Obj PROVE AccountInv(o)'
  OBVIOUS
<1>1. CASE \E id \in Ids, time \in ClockStamps : ReceivePkt(id, time)
  BY <1>1, ReceiveAccount
<1>2. CASE DropPkt
  BY <1>2, DropAccount
<1>3. CASE AddToGroup
  BY <1>3, AddAccount
<1>4. CASE SendGroup
  BY <1>4, SendAccount
<1>5. CASE UNCHANGED vars
  BY <1>5 DEF AccountInv, NextNo, vars
<1> QED BY <1>1, <1>2, <1>3, <1>4, <1>5 DEF Next, serverLoop, PollEmpty

(* The variables of the data processor stay in their types: skipLeft never  *)
(* wraps below zero and no time stamp is out of range.                      *)
THEOREM GroupTypeCorrect == Spec => []TypeOK
<1>1. DataInv => TypeOK
  BY DEF DataInv
<1> QED BY DataInit, DataNext, <1>1, PTL DEF Spec

(* What a group was given, in numbers.                                      *)
LEMMA GroupCount ==
  ASSUME NEW o \in Obj, NEW g \in Group, Filled(o, g), Spaced(o, g)
  PROVE  /\ Len(g.items) = ((g.seen - 1) \div g.storeEvery) + 1
         /\ \A j \in 1..Len(g.items) :
              /\ g.items[j].id = o
              /\ g.items[j].n = g.items[1].n + (j - 1) * g.storeEvery
              /\ g.items[j].n < g.items[1].n + g.seen
<1> DEFINE K == g.storeEvery
           L == Len(g.items)
           q == L - 1
           r == (K - 1) - g.skipLeft
<1>1. /\ L \in Nat /\ L > 0 /\ K \in Nat /\ K > 0
      /\ g.skipLeft \in Nat /\ g.seen \in Nat /\ g.skipLeft < K
      /\ g.seen + g.skipLeft = L * K
  BY EmptySeq DEF Group, Filled
<1>2. g.items[1].n \in Nat
  BY <1>1, GroupNumbers DEF FirstStored, Filled
<1>3. \A j \in 1..L : g.items[j].id = o /\ g.items[j].n = g.items[1].n + (j - 1) * K
  BY DEF Spaced, FirstStored
<1>4. q \in Nat /\ r \in 0..(K - 1) /\ L = q + 1
  BY <1>1
<1> HIDE DEF K, L
<1>5. L * K = q * K + K /\ q * K \in Nat
  <2> HIDE DEF q
  <2> QED BY <1>1, <1>4
<1>6. g.seen - 1 = q * K + r
  BY <1>1, <1>5
<1>7. (q * K + r) \div K = q
  <2> HIDE DEF q, r
  <2> QED BY <1>1, <1>4, DivUnique
<1>8. L = ((g.seen - 1) \div K) + 1
  BY <1>4, <1>6, <1>7
<1>9. ASSUME NEW j \in 1..L
      PROVE  g.items[j].n < g.items[1].n + g.seen
  <2> DEFINE a == j - 1
  <2>1. a \in Nat /\ (a = q \/ q > a)
    BY <1>1
  <2> HIDE DEF a, q
  <2>2. a * K \in Nat /\ a * K <= q * K
    BY <1>1, <1>4, <1>5, <2>1, SecondsOutweigh
  <2>3. q * K < g.seen
    <3> DEFINE m == q * K
    <3>1. m \in Nat /\ g.seen + g.skipLeft = m + K
      BY <1>1, <1>5
    <3> HIDE DEF m
    <3>2. m < g.seen
      BY <1>1, <3>1
    <3> QED BY <3>2 DEF m
  <2>4. g.items[j].n = g.items[1].n + a * K
    BY <1>3 DEF a
  <2> DEFINE x == a * K
             y == q * K
  <2>5. x \in Nat /\ y \in Nat /\ x <= y /\ y < g.seen /\ g.items[j].n = g.items[1].n + x
    BY <1>5, <2>2, <2>3, <2>4
  <2> HIDE DEF x, y
  <2> QED BY <1>1, <1>2, <2>5
<1> QED BY <1>3, <1>8, <1>9 DEF K, L

(* Every group of an object is as its account says.                         *)
LEMMA GroupsSpaced ==
  ASSUME DataInv, NEW o \in Obj, AccountInv(o), NEW k \in 1..Len(Groups(o))
  PROVE  Groups(o)[k] \in Group /\ Filled(o, Groups(o)[k]) /\ Spaced(o, Groups(o)[k])
BY GroupsOf DEF AccountInv

(* Within every group, open or handed over, exactly the 1st, (k+1)-th,      *)
(* (2k+1)-th... packet it was given is stored, for any store period.        *)
THEOREM EveryKthCorrect == Spec => []EveryKthOfGroup
<1>1. DataInv /\ (\A o \in Obj : AccountInv(o)) => EveryKthOfGroup
  <2> SUFFICES ASSUME DataInv, NEW o \in Obj, AccountInv(o), NEW k \in DOMAIN Groups(o)
               PROVE  LET g == Groups(o)[k]
                      IN /\ Len(g.items) = ((g.seen - 1) \div g.storeEvery) + 1
                         /\ \A j \in DOMAIN g.items :
                               g.items[j].n = g.items[1].n + (j - 1) * g.storeEvery
    BY DEF EveryKthOfGroup
  <2> DEFINE g == Groups(o)[k]
  <2>1. g \in Group /\ Filled(o, g) /\ Spaced(o, g)
    BY GroupsOf, GroupsSpaced
  <2> HIDE DEF g
  <2>2. DOMAIN g.items = 1..Len(g.items)
    BY <2>1 DEF Group
  <2> QED BY <2>1, <2>2, GroupCount DEF g
<1>2. DataInv /\ (\A o \in Obj : AccountInv(o)) /\ [Next]_vars
         => (\A o \in Obj : AccountInv(o))'
  BY AccountNext
<1> QED BY DataInit, DataNext, AccountInit, <1>1, <1>2, PTL DEF Spec

(* Where the open group stands among the groups of its object.              *)
LEMMA OpenIsLast ==
  ASSUME DataInv, NEW o \in Obj
  PROVE  LET gs == Groups(o)
             H  == handed[o]
             g  == groupInProgress[o]
         IN /\ g.items = <<>> => gs = <<>> /\ H = <<>>
            /\ g.items # <<>> =>
                 /\ gs # <<>> /\ Len(gs) = Len(H) + 1 /\ gs[Len(H) + 1] = g
                 /\ \A k \in 1..Len(H) : gs[k] = H[k]
<1> DEFINE gs == Groups(o)
           H  == handed[o]
           g  == groupInProgress[o]
<1>1. /\ H \in Seq(Group) /\ g \in Group
      /\ (g = NewGroup(o) /\ H = <<>>) \/ Filled(o, g)
  BY DEF DataInv, TypeOK, GroupsInv
<1>2. ASSUME g.items = <<>> PROVE gs = <<>> /\ H = <<>>
  BY <1>1, <1>2 DEF Groups, Filled
<1>3. ASSUME g.items # <<>>
      PROVE  /\ gs # <<>> /\ Len(gs) = Len(H) + 1 /\ gs[Len(H) + 1] = g
             /\ \A k \in 1..Len(H) : gs[k] = H[k]
  <2>1. gs = Append(H, g)
    BY <1>3 DEF Groups
  <2> HIDE DEF gs, H, g
  <2> QED BY <1>1, <2>1, AppendProperties
<1> QED BY <1>2, <1>3

(* The packets of every object are in order and accounted for exactly once: *)
(* PacketsInOrder holds of every behaviour of the receiving half.           *)
THEOREM PacketsCorrect == Spec => []PacketsInOrder
<1>1. ASSUME DataInv, NEW o \in Obj, AccountInv(o)
      PROVE  LET gs       == Groups(o)
                 q        == rawPacketsQueue
                 first(k) == gs[k].items[1].n
                 behind   == IF gs = <<>> THEN 1 ELSE first(Len(gs)) + gs[Len(gs)].seen
                 queued   == {i \in DOMAIN q : q[i].id = o}
             IN /\ gs # <<>> => first(1) = 1
                /\ \A k \in 1..(Len(gs) - 1) : first(k + 1) = first(k) + gs[k].seen
                /\ \A k \in DOMAIN gs : \A j \in DOMAIN gs[k].items :
                      /\ gs[k].items[j].id = o
                      /\ gs[k].items[j].n < first(k) + gs[k].seen
                      /\ \A i \in 1..(j - 1) : gs[k].items[i].n < gs[k].items[j].n
                /\ {q[i].n : i \in queued} = behind..received[o]
                /\ \A i, j \in queued : i < j => q[i].n < q[j].n
  <2> DEFINE gs == Groups(o)
             q  == rawPacketsQueue
             g  == groupInProgress[o]
             H  == handed[o]
             R  == received[o]
             N  == NextNo(o)
             first(k) == gs[k].items[1].n
             behind   == IF gs = <<>> THEN 1 ELSE first(Len(gs)) + gs[Len(gs)].seen
             queued   == {i \in DOMAIN q : q[i].id = o}
  <2>1. /\ gs \in Seq(Group) /\ DOMAIN gs = 1..Len(gs) /\ H \in Seq(Group)
        /\ Len(gs) \in Nat /\ Len(H) \in Nat
    BY <1>1, GroupsOf DEF DataInv, TypeOK
  <2>2. /\ q \in Seq(Packet) /\ DOMAIN q = 1..Len(q) /\ R \in Nat /\ N \in Nat
    BY <1>1, NextNoType DEF DataInv, TypeOK, Ids
  <2>3. /\ g.items = <<>> => gs = <<>> /\ H = <<>>
        /\ g.items # <<>> =>
             /\ gs # <<>> /\ Len(gs) = Len(H) + 1 /\ gs[Len(H) + 1] = g
             /\ \A k \in 1..Len(H) : gs[k] = H[k]
    BY <1>1, OpenIsLast
  <2>4. /\ g.items # <<>> =>
             IF H = <<>> THEN g.items[1].n = 1
             ELSE /\ H[1].items[1].n = 1
                  /\ g.items[1].n = H[Len(H)].items[1].n + H[Len(H)].seen
        /\ \A k \in 1..(Len(H) - 1) : H[k + 1].items[1].n = H[k].items[1].n + H[k].seen
        /\ \A n \in N..R : \E i \in 1..Len(q) : q[i].id = o /\ q[i].n = n
        /\ \A i \in 1..Len(q) : q[i].id = o => N <= q[i].n
    BY <1>1 DEF AccountInv, FirstStored
  <2>5. H = <<>> <=> Len(H) = 0
    BY <2>1, EmptySeq
  <2>6. N = IF g.items = <<>> THEN 1 ELSE g.items[1].n + g.seen
    BY DEF NextNo, FirstStored
  <2>7. \A k \in 1..Len(gs) : gs[k] \in Group /\ Filled(o, gs[k]) /\ Spaced(o, gs[k])
    BY <1>1, GroupsSpaced
  <2>8. /\ \A i \in 1..Len(q) : q[i].id = o => q[i].n <= R
        /\ \A i, j \in 1..Len(q) : i < j /\ q[i].id = o /\ q[j].id = o => q[i].n < q[j].n
    BY <1>1 DEF DataInv, QueueInv
  <2>9. \A i \in 1..Len(q) : q[i].n \in Nat
    <3>1. \A i \in 1..Len(q) : q[i] \in Packet
      BY <2>2
    <3> QED BY <3>1 DEF Packet
  <2> HIDE DEF gs, q, g, H, R, N
  <2>10. gs # <<>> => first(1) = 1
    <3> SUFFICES ASSUME gs # <<>> PROVE first(1) = 1
      OBVIOUS
    <3>1. CASE Len(H) = 0
      BY <2>3, <2>4, <2>5, <3>1
    <3>2. CASE Len(H) # 0
      <4>1. 1 \in 1..Len(H)
        BY <2>1, <3>2
      <4> QED BY <2>3, <2>4, <2>5, <3>2, <4>1
    <3> QED BY <3>1, <3>2
  <2>11. ASSUME NEW k \in 1..(Len(gs) - 1) PROVE first(k + 1) = first(k) + gs[k].seen
    <3> DEFINE d == Len(H)
    <3>0. Len(gs) # 0
      BY <2>1, <2>11
    <3>1. gs # <<>>
      BY <2>1, <3>0, EmptySeq
    <3>2. d \in Nat /\ Len(gs) = d + 1
      BY <2>1, <2>3, <3>1
    <3>3. k \in 1..d /\ (k = d \/ (k \in 1..(d - 1) /\ k + 1 \in 1..d)) /\ d # 0
      <4> HIDE DEF d
      <4> QED BY <2>11, <3>2
    <3>4. CASE k = d
      <4>1. gs[k + 1] = g /\ gs[k] = H[d]
        BY <2>3, <3>1, <3>3, <3>4
      <4> QED BY <2>3, <2>4, <2>5, <3>1, <3>3, <3>4, <4>1
    <3>5. CASE k \in 1..(d - 1) /\ k + 1 \in 1..d
      <4>1. gs[k + 1] = H[k + 1] /\ gs[k] = H[k]
        BY <2>3, <3>1, <3>3, <3>5
      <4> QED BY <2>4, <3>5, <4>1
    <3> QED BY <3>3, <3>4, <3>5
  <2>12. ASSUME NEW k \in DOMAIN gs, NEW j \in DOMAIN gs[k].items
         PROVE  /\ gs[k].items[j].id = o
                /\ gs[k].items[j].n < first(k) + gs[k].seen
                /\ \A i \in 1..(j - 1) : gs[k].items[i].n < gs[k].items[j].n
    <3> DEFINE f == gs[k]
    <3>1. f \in Group /\ Filled(o, f) /\ Spaced(o, f)
      BY <2>1, <2>7
    <3> HIDE DEF f
    <3>2. j \in 1..Len(f.items) /\ Len(f.items) \in Nat
      BY <2>12, <3>1 DEF Group, f
    <3>3. f.items[j].id = o /\ f.items[j].n < f.items[1].n + f.seen
      BY <3>1, <3>2, GroupCount
    <3>4. \A i \in 1..(j - 1) : i \in 1..Len(f.items) /\ i < j
      <4> DEFINE l == Len(f.items)
      <4>1. l \in Nat /\ j \in 1..l
        BY <3>2
      <4> HIDE DEF l
      <4>2. \A i \in 1..(j - 1) : i \in 1..l /\ i < j
        BY <4>1
      <4> QED BY <4>2 DEF l
    <3>5. \A i \in 1..(j - 1) : f.items[i].n < f.items[j].n
      BY <3>1, <3>2, <3>4 DEF Filled
    <3> QED BY <3>3, <3>5 DEF f
  <2>13. behind = N
    <3>1. CASE g.items = <<>>
      BY <2>3, <2>6, <3>1
    <3>2. CASE g.items # <<>>
      BY <2>3, <2>6, <3>2
    <3> QED BY <3>1, <3>2
  <2>14. {q[i].n : i \in queued} = behind..R
    <3> HIDE DEF behind
    <3>1. ASSUME NEW i \in queued PROVE q[i].n \in N..R
      <4>1. i \in 1..Len(q) /\ q[i].id = o
        BY <2>2
      <4> QED BY <2>2, <2>4, <2>8, <2>9, <4>1
    <3>2. ASSUME NEW n \in N..R PROVE \E i \in queued : q[i].n = n
      BY <2>2, <2>4
    <3> HIDE DEF queued
    <3> QED BY <2>13, <3>1, <3>2
  <2>15. \A i, j \in queued : i < j => q[i].n < q[j].n
    BY <2>2, <2>8
  <2> HIDE DEF first, behind, queued
  <2> QED BY <2>10, <2>11, <2>12, <2>14, <2>15 DEF first, behind, queued, gs, q, R
<1>2. DataInv /\ (\A o \in Obj : AccountInv(o)) => PacketsInOrder
  BY <1>1 DEF PacketsInOrder
<1>3. DataInv /\ (\A o \in Obj : AccountInv(o)) /\ [Next]_vars
         => (\A o \in Obj : AccountInv(o))'
  BY AccountNext
<1> QED BY DataInit, DataNext, AccountInit, <1>2, <1>3, PTL DEF Spec

-----------------------------------------------------------------------------
(* Time *)

(* Both intervals are configured with less than 1000 milliseconds.          *)
NormalIntervals == Normal(SendInterval) /\ Normal(SendIntervalLights)

(* What the proofs about time use of a group that has packets.              *)
LEMMA GroupTimes ==
  ASSUME NormalIntervals, NEW o \in Obj
  PROVE  /\ Interval(o) \in Time /\ Normal(Interval(o)) /\ InMs(Interval(o)) \in Nat
         /\ \A pkt \in Packet :
              pkt.time \in Time /\ Normal(pkt.time) /\ InMs(pkt.time) \in Nat
         /\ \A g \in Group : g.items # <<>> =>
              FirstStored(g) \in Packet /\ InMs(FirstStored(g).time) \in Nat
<1>1. Interval(o) \in Time /\ Normal(Interval(o))
  BY NewGroupType DEF NormalIntervals, Interval, NewGroup
<1>2. InMs(Interval(o)) \in Nat
  BY <1>1, AfterIsLater
<1>3. ASSUME NEW pkt \in Packet
      PROVE  pkt.time \in Time /\ Normal(pkt.time) /\ InMs(pkt.time) \in Nat
  <2>1. pkt.time \in Time /\ Normal(pkt.time)
    BY DEF Packet
  <2> QED BY <2>1, AfterIsLater
<1>4. ASSUME NEW g \in Group, g.items # <<>>
      PROVE  FirstStored(g) \in Packet /\ InMs(FirstStored(g).time) \in Nat
  <2>1. g.items \in Seq(Packet) /\ 1 \in 1..Len(g.items)
    BY <1>4, EmptySeq DEF Group
  <2>2. FirstStored(g) \in Packet
    BY <2>1 DEF FirstStored
  <2> QED BY <1>3, <2>2
<1> QED BY <1>1, <1>2, <1>3, <1>4

(* The first packet of a group starts its time.                             *)
LEMMA FirstOnTime ==
  ASSUME NormalIntervals, NEW o \in Obj, NEW pkt \in Packet
  PROVE  OnTime(o, PushBack(NewGroup(o), pkt))
<1> DEFINE h == PushBack(NewGroup(o), pkt)
<1>1. h.items = <<pkt>> /\ h.expairedTime = Plus(Interval(o), pkt.time)
  BY PushFirst
<1> HIDE DEF h
<1>2. /\ Interval(o) \in Time /\ Normal(Interval(o)) /\ InMs(Interval(o)) \in Nat
      /\ pkt.time \in Time /\ Normal(pkt.time) /\ InMs(pkt.time) \in Nat
  BY GroupTimes
<1>3. /\ Normal(h.expairedTime)
      /\ InMs(h.expairedTime) = InMs(Interval(o)) + InMs(pkt.time)
  BY <1>1, <1>2, PlusIsSum
<1>4. FirstStored(h) = pkt /\ \A j \in 1..Len(h.items) : h.items[j] = pkt
  BY <1>1 DEF FirstStored
<1>5. InMs(pkt.time) <= InMs(h.expairedTime)
      /\ InMs(h.expairedTime) = InMs(pkt.time) + InMs(Interval(o))
  BY <1>2, <1>3
<1>6. OnTime(o, h)
  BY <1>3, <1>4, <1>5 DEF OnTime
<1> QED BY <1>6 DEF h

(* A packet that does not close the open group is not later than its time.  *)
LEMMA AddOnTime ==
  ASSUME NormalIntervals, DataInv, TimeInv, AddToGroup
  PROVE  TimeInv'
<1> DEFINE pkt == Head(rawPacketsQueue)
           p == pkt.id
           g == groupInProgress[p]
           h == PushBack(g, pkt)
<1>1. /\ Pop /\ p \in Obj /\ ~IsTimeToSendGroup(g, pkt.time)
      /\ groupInProgress' = [groupInProgress EXCEPT ![p] = h]
      /\ handed' = handed
  BY DEF AddToGroup
<1>2. /\ groupInProgress \in [Obj -> Group] /\ g \in Group /\ pkt \in Packet
      /\ g.expairedTime \in Time /\ g.items \in Seq(Packet)
  BY <1>1, PopFacts DEF DataInv, TypeOK, Group
<1>3. /\ groupInProgress'[p] = h
      /\ \A o \in Obj : o # p => groupInProgress'[o] = groupInProgress[o]
  BY <1>1, <1>2
<1>4. \A m \in 1..Len(g.items) : g.items[m].n < pkt.n
  BY <1>1, PopFacts
<1>5. (g = NewGroup(p) /\ handed[p] = <<>>) \/ Filled(p, g)
  BY <1>1 DEF DataInv, GroupsInv
<1>6. ASSUME Filled(p, g)
      PROVE  OnTime(p, h) /\ FirstStored(h) = FirstStored(g)
  <2>1. /\ h.expairedTime = g.expairedTime /\ FirstStored(h) = FirstStored(g)
        /\ h.items \in {g.items, Append(g.items, pkt)}
    BY <1>1, <1>2, <1>4, <1>6, PushNext
  <2>2. g.items # <<>> /\ OnTime(p, g)
    BY <1>1, <1>6 DEF Filled, TimeInv
  <2>3. pkt.time \in Time /\ Normal(pkt.time) /\ Normal(g.expairedTime)
    BY <1>1, <1>2, <2>2, GroupTimes DEF OnTime
  <2>4. InMs(pkt.time) <= InMs(g.expairedTime)
    <3>1. ~After(pkt.time, g.expairedTime)
      BY <1>1, <2>2 DEF IsTimeToSendGroup
    <3>2. /\ InMs(pkt.time) \in Nat /\ InMs(g.expairedTime) \in Nat
          /\ ~(InMs(pkt.time) > InMs(g.expairedTime))
      BY <1>2, <2>3, <3>1, AfterIsLater
    <3> QED BY <3>2
  <2> HIDE DEF h, g, pkt
  <2>5. ASSUME NEW j \in 1..Len(h.items)
        PROVE  h.items[j] = pkt \/ (j \in 1..Len(g.items) /\ h.items[j] = g.items[j])
    <3>1. CASE h.items = g.items
      BY <3>1
    <3>2. CASE h.items = Append(g.items, pkt)
      BY <1>2, <3>2
    <3> QED BY <2>1, <3>1, <3>2
  <2>6. \A j \in 1..Len(h.items) : InMs(h.items[j].time) <= InMs(h.expairedTime)
    BY <2>1, <2>2, <2>4, <2>5 DEF OnTime
  <2> QED BY <2>1, <2>2, <2>6 DEF OnTime
<1>7. ASSUME ~Filled(p, g)
      PROVE  OnTime(p, h) /\ Len(handed[p]) = 0
  <2>1. g = NewGroup(p) /\ handed[p] = <<>>
    BY <1>5, <1>7
  <2>2. h = PushBack(NewGroup(p), pkt)
    BY <2>1
  <2> HIDE DEF h, g
  <2> QED BY <1>1, <1>2, <2>1, <2>2, FirstOnTime
<1> HIDE DEF h
<1> SUFFICES ASSUME NEW o \in Obj
             PROVE  /\ groupInProgress'[o].items # <<>> => OnTime(o, groupInProgress'[o])
                    /\ \A k \in 1..Len(handed[o]) :
                          OnTime(o, handed[o][k]) /\ Apart(o, handed[o][k], groupInProgress'[o])
                    /\ \A k, m \in 1..Len(handed[o]) :
                          k < m => Apart(o, handed[o][k], handed[o][m])
  BY <1>1 DEF TimeInv
<1>8. /\ groupInProgress[o].items # <<>> => OnTime(o, groupInProgress[o])
      /\ \A k \in 1..Len(handed[o]) :
            OnTime(o, handed[o][k]) /\ Apart(o, handed[o][k], groupInProgress[o])
      /\ \A k, m \in 1..Len(handed[o]) : k < m => Apart(o, handed[o][k], handed[o][m])
  BY DEF TimeInv
<1>9. CASE o # p
  BY <1>3, <1>8, <1>9
<1>10. CASE o = p /\ Filled(p, g)
  BY <1>3, <1>6, <1>8, <1>10 DEF Apart
<1>11. CASE o = p /\ ~Filled(p, g)
  BY <1>3, <1>7, <1>8, <1>11
<1> QED BY <1>9, <1>10, <1>11

(* A packet that closes the open group is later than its time, and starts   *)
(* the time of the next.                                                    *)
LEMMA SendOnTime ==
  ASSUME NormalIntervals, DataInv, TimeInv, SendGroup
  PROVE  TimeInv'
<1> DEFINE pkt == Head(rawPacketsQueue)
           p == pkt.id
           g == groupInProgress[p]
           h == PushBack(NewGroup(p), pkt)
           H == handed[p]
           D == Append(H, g)
<1>1. /\ Pop /\ p \in Obj /\ g.items # <<>> /\ After(pkt.time, g.expairedTime)
      /\ groupInProgress' = [groupInProgress EXCEPT ![p] = h]
      /\ handed' = [handed EXCEPT ![p] = D]
  BY DEF SendGroup, IsTimeToSendGroup
<1>2. /\ groupInProgress \in [Obj -> Group] /\ handed \in [Obj -> Seq(Group)]
      /\ g \in Group /\ pkt \in Packet /\ H \in Seq(Group) /\ g.expairedTime \in Time
  BY <1>1, PopFacts DEF DataInv, TypeOK, Group
<1>3. /\ groupInProgress'[p] = h /\ handed'[p] = D
      /\ \A o \in Obj : o # p => groupInProgress'[o] = groupInProgress[o]
                                 /\ handed'[o] = handed[o]
  BY <1>1, <1>2
<1>4. OnTime(p, h) /\ FirstStored(h) = pkt
  <2>1. OnTime(p, h)
    BY <1>1, <1>2, FirstOnTime
  <2>2. h.items = <<pkt>>
    BY <1>1, <1>2, PushFirst
  <2> QED BY <2>1, <2>2 DEF FirstStored
<1>5. /\ OnTime(p, g)
      /\ \A k \in 1..Len(H) : OnTime(p, H[k]) /\ Apart(p, H[k], g)
      /\ \A k, m \in 1..Len(H) : k < m => Apart(p, H[k], H[m])
  BY <1>1 DEF TimeInv
<1>6. /\ InMs(Interval(p)) \in Nat /\ InMs(FirstStored(g).time) \in Nat
      /\ pkt.time \in Time /\ Normal(pkt.time) /\ InMs(pkt.time) \in Nat
  BY <1>1, <1>2, GroupTimes
<1>7. Apart(p, g, h)
  <2>1. InMs(pkt.time) > InMs(g.expairedTime)
    BY <1>1, <1>2, <1>5, <1>6, AfterIsLater DEF OnTime
  <2> QED BY <1>4, <1>5, <2>1 DEF Apart, OnTime
<1>8. \A k \in 1..Len(H) : /\ H[k] \in Group /\ H[k].items # <<>>
                           /\ InMs(FirstStored(H[k]).time) \in Nat
  <2>1. \A k \in 1..Len(H) : H[k] \in Group /\ H[k].items # <<>>
    <3>1. \A k \in 1..Len(H) : Filled(p, H[k])
      BY <1>1 DEF DataInv, GroupsInv
    <3> HIDE DEF H
    <3> QED BY <1>2, <3>1 DEF Filled
  <2> QED BY <1>1, <2>1, GroupTimes
<1>9. /\ Len(D) = Len(H) + 1 /\ Len(H) \in Nat
      /\ \A k \in 1..Len(H) : D[k] = H[k]
      /\ D[Len(H) + 1] = g
      /\ \A k \in 1..Len(D) : k \in 1..Len(H) \/ k = Len(H) + 1
  BY <1>2
<1> HIDE DEF D, H, h, g, pkt
<1>10. \A k \in 1..Len(H) : Apart(p, H[k], h)
  <2> SUFFICES ASSUME NEW k \in 1..Len(H) PROVE Apart(p, H[k], h)
    OBVIOUS
  <2> DEFINE a == InMs(FirstStored(H[k]).time)
             b == InMs(FirstStored(g).time)
             c == InMs(FirstStored(h).time)
             v == InMs(Interval(p))
  <2>1. a \in Nat /\ b \in Nat /\ c \in Nat /\ v \in Nat
    BY <1>4, <1>6, <1>8
  <2>2. b > a + v /\ c > b + v
    BY <1>5, <1>7 DEF Apart
  <2>3. c > a + v
    <3> HIDE DEF a, b, c, v
    <3> QED BY <2>1, <2>2
  <2> QED BY <2>3 DEF Apart
<1>11. \A k \in 1..Len(D) : OnTime(p, D[k]) /\ Apart(p, D[k], h)
  BY <1>5, <1>7, <1>9, <1>10
<1>12. ASSUME NEW k \in 1..Len(D), NEW m \in 1..Len(D), k < m
       PROVE  Apart(p, D[k], D[m])
  <2>1. k \in 1..Len(H)
    BY <1>9, <1>12
  <2>2. CASE m \in 1..Len(H)
    BY <1>5, <1>9, <1>12, <2>1, <2>2
  <2>3. CASE m = Len(H) + 1
    BY <1>5, <1>9, <2>1, <2>3
  <2> QED BY <1>9, <2>2, <2>3
<1> SUFFICES ASSUME NEW o \in Obj
             PROVE  /\ groupInProgress'[o].items # <<>> => OnTime(o, groupInProgress'[o])
                    /\ \A k \in 1..Len(handed'[o]) :
                          /\ OnTime(o, handed'[o][k])
                          /\ Apart(o, handed'[o][k], groupInProgress'[o])
                    /\ \A k, m \in 1..Len(handed'[o]) :
                          k < m => Apart(o, handed'[o][k], handed'[o][m])
  BY DEF TimeInv
<1>13. CASE o # p
  BY <1>3, <1>13 DEF TimeInv
<1>14. CASE o = p
  BY <1>3, <1>4, <1>11, <1>12, <1>14
<1> QED BY <1>13, <1>14

(* The times stay in order with every step.                                 *)
LEMMA TimeNext ==
  ASSUME NormalIntervals
  PROVE  DataInv /\ TimeInv /\ [Next]_vars => TimeInv'
<1> SUFFICES ASSUME DataInv, TimeInv, [Next]_vars PROVE TimeInv'
  OBVIOUS
<1>1. CASE UNCHANGED <<groupInProgress, handed>>
  BY <1>1 DEF TimeInv
<1>2. CASE AddToGroup
  BY <1>2, AddOnTime
<1>3. CASE SendGroup
  BY <1>3, SendOnTime
<1> QED BY <1>1, <1>2, <1>3 DEF Next, ReceivePkt, serverLoop, DropPkt, PollEmpty, vars

(* Between the first stored packet of a group and every other one at most   *)
(* the interval passes, and the next group starts later than that, for any  *)
(* intervals of less than 1000 milliseconds beside the seconds, however     *)
(* the clock is set between two packets.                                    *)
THEOREM IntervalCorrect ==
  ASSUME NormalIntervals
  PROVE  Spec => []IntervalKept
<1>1. Init => TimeInv
  <2> SUFFICES ASSUME Init, NEW o \in Obj
               PROVE  groupInProgress[o].items = <<>> /\ Len(handed[o]) = 0
    BY DEF TimeInv
  <2> QED BY NewGroupType DEF Init
<1>2. DataInv /\ TimeInv /\ [Next]_vars => TimeInv'
  BY TimeNext
<1>3. DataInv /\ TimeInv => IntervalKept
  <2> SUFFICES ASSUME DataInv, TimeInv, NEW o \in Obj, NEW k \in DOMAIN Groups(o)
               PROVE  LET gs == Groups(o)
                          end == InMs(gs[k].items[1].time) + InMs(Interval(o))
                      IN /\ \A j \in DOMAIN gs[k].items : InMs(gs[k].items[j].time) <= end
                         /\ k < Len(gs) => InMs(gs[k + 1].items[1].time) > end
    BY DEF IntervalKept
  <2> DEFINE gs == Groups(o)
             H == handed[o]
             g == groupInProgress[o]
  <2>1. /\ gs \in Seq(Group) /\ DOMAIN gs = 1..Len(gs) /\ Len(gs) \in Nat
        /\ Len(H) \in Nat /\ Len(gs) \in {Len(H), Len(H) + 1}
        /\ \A m \in 1..Len(gs) :
             /\ Filled(o, gs[m])
             /\ (m \in 1..Len(H) /\ gs[m] = H[m]) \/ (m = Len(H) + 1 /\ gs[m] = g)
    BY GroupsOf
  <2>2. /\ g.items # <<>> => OnTime(o, g)
        /\ \A m \in 1..Len(H) : OnTime(o, H[m]) /\ Apart(o, H[m], g)
        /\ \A m, n \in 1..Len(H) : m < n => Apart(o, H[m], H[n])
    BY DEF TimeInv
  <2>3. k \in 1..Len(gs)
    BY <2>1
  <2> HIDE DEF gs, H, g
  <2>4. OnTime(o, gs[k])
    BY <2>1, <2>2, <2>3 DEF Filled
  <2>5. \A j \in DOMAIN gs[k].items :
           InMs(gs[k].items[j].time) <= InMs(gs[k].items[1].time) + InMs(Interval(o))
    <3>0. gs \in Seq(Group)
      BY <2>1
    <3>1. gs[k] \in Group
      BY <2>3, <3>0
    <3>2. DOMAIN gs[k].items = 1..Len(gs[k].items)
      BY <3>1 DEF Group
    <3> QED BY <2>4, <3>2 DEF OnTime, FirstStored
  <2>6. ASSUME k < Len(gs) PROVE Apart(o, gs[k], gs[k + 1])
    <3>0. Len(gs) \in Nat /\ Len(H) \in Nat /\ (Len(gs) = Len(H) \/ Len(gs) = Len(H) + 1)
      BY <2>1
    <3>1. k + 1 \in 1..Len(gs) /\ k < k + 1 /\ k \in 1..Len(H) /\ k # Len(H) + 1
      BY <2>3, <2>6, <3>0
    <3>2. gs[k] = H[k]
      <4>1. (k \in 1..Len(H) /\ gs[k] = H[k]) \/ (k = Len(H) + 1 /\ gs[k] = g)
        BY <2>1, <2>3
      <4> QED BY <3>1, <4>1
    <3>3. CASE gs[k + 1] = g
      BY <2>2, <3>1, <3>2, <3>3
    <3>4. CASE k + 1 \in 1..Len(H) /\ gs[k + 1] = H[k + 1]
      BY <2>2, <3>1, <3>2, <3>4
    <3> QED BY <2>1, <3>1, <3>3, <3>4
  <2>7. k < Len(gs) => InMs(gs[k + 1].items[1].time)
                          > InMs(gs[k].items[1].time) + InMs(Interval(o))
    BY <2>6 DEF Apart, FirstStored
  <2> QED BY <2>5, <2>7 DEF gs
<1> QED BY DataInit, DataNext, <1>1, <1>2, <1>3, PTL DEF Spec

-----------------------------------------------------------------------------
(* The hub *)

(* A step of the hub is a step of the data processor or leaves it alone.    *)
LEMMA PipeStep == [PipeNext]_pipeVars => [Next]_vars
BY DEF PipeNext, Collect, Send, pipeVars

(* A step that hands over anything hands over one group of one object.      *)
LEMMA HandedIsOffered ==
  ASSUME TypeOK, [Next]_vars, handed' # handed
  PROVE  \E o \in Obj : offered' = [offered EXCEPT ![o] = @ + 1]
<1>1. SendGroup
  BY DEF Next, ReceivePkt, serverLoop, DropPkt, AddToGroup, PollEmpty, vars
<1> DEFINE o == Head(rawPacketsQueue).id
           g == groupInProgress[o]
<1>2. o \in Obj /\ handed' = [handed EXCEPT ![o] = Append(handed[o], g)]
  BY <1>1 DEF SendGroup
<1>3. g \in Group /\ handed \in [Obj -> Seq(Group)]
  BY <1>2 DEF TypeOK
<1> HIDE DEF o, g
<1>4. Len(Append(handed[o], g)) = Len(handed[o]) + 1
  BY <1>2, <1>3, AppendProperties
<1>5. offered' = [offered EXCEPT ![o] = offered[o] + 1]
  BY <1>2, <1>3, <1>4 DEF offered
<1> QED BY <1>2, <1>5

(* The composition leaves out no step of the data processor: whatever it    *)
(* gives to addToDataQueue is the next group that the manager is offered,   *)
(* so the condition of Collect never stops it.                              *)
THEOREM ProcessorUnhindered ==
    Spec => [][handed' # handed =>
                  \E o \in Obj : offered' = [offered EXCEPT ![o] = @ + 1]]_vars
<1>1. DataInv /\ [Next]_vars =>
         [handed' # handed => \E o \in Obj : offered' = [offered EXCEPT ![o] = @ + 1]]_vars
  BY HandedIsOffered DEF DataInv
<1> QED BY <1>1, DataInit, DataNext, PTL DEF Spec

(* A child is given a group that was handed over.                           *)
SentInv ==
    /\ sent \in [Obj -> Nat]
    /\ \A o \in Obj : sent[o] <= Len(handed[o])

(* Groups are only added to those handed over, and only Launch changes what *)
(* was sent, to a later one of them.                                        *)
LEMMA SentNext ==
  ASSUME DataInv, SentInv, [PipeNext]_pipeVars
  PROVE  /\ SentInv'
         /\ \A o \in Obj : sent'[o] # sent[o] =>
              /\ handed' = handed
              /\ sent'[o] \in 1..Len(handed[o]) /\ sent[o] < sent'[o]
<1>1. handed \in [Obj -> Seq(Group)] /\ handed' \in [Obj -> Seq(Group)]
  BY PipeStep, DataNext DEF DataInv, TypeOK
<1>2. CASE sent' = sent /\ Next
  <2>1. ASSUME NEW o \in Obj PROVE Len(handed[o]) <= Len(handed'[o])
    <3>1. handed'[o] = handed[o] \/ \E g \in Group : handed'[o] = Append(handed[o], g)
      <4>1. CASE handed' = handed
        BY <4>1
      <4>2. CASE SendGroup
        <5> DEFINE p == Head(rawPacketsQueue).id
        <5>1. /\ p \in Obj
              /\ handed' = [handed EXCEPT ![p] = Append(handed[p], groupInProgress[p])]
          BY <4>2 DEF SendGroup
        <5>2. groupInProgress[p] \in Group
          BY <5>1 DEF DataInv, TypeOK
        <5> HIDE DEF p
        <5> QED BY <1>1, <5>1, <5>2
      <4> QED BY <1>2, <4>1, <4>2 DEF Next, ReceivePkt, serverLoop, DropPkt, AddToGroup,
                                      PollEmpty, vars
    <3>2. handed[o] \in Seq(Group)
      BY <1>1
    <3> QED BY <3>1, <3>2
  <2>2. \A o \in Obj : sent[o] \in Nat /\ Len(handed[o]) \in Nat /\ Len(handed'[o]) \in Nat
    BY <1>1 DEF SentInv
  <2> QED BY <1>2, <2>1, <2>2 DEF SentInv
<1>3. CASE handed' = handed /\ \E o \in Obj : Slots!Launch(o)
  <2>1. PICK o \in Obj : Slots!Launch(o)
    BY <1>3
  <2>2. PICK s \in (sent[o] + 1)..offered[o] : sent' = [sent EXCEPT ![o] = s]
    BY <2>1 DEF Slots!Launch
  <2>3. offered[o] = Len(handed[o]) /\ Len(handed[o]) \in Nat /\ sent[o] \in Nat
    BY <1>1 DEF offered, SentInv
  <2>4. s \in 1..Len(handed[o]) /\ sent[o] < s /\ s \in Nat
    BY <2>2, <2>3
  <2>5. /\ sent' \in [Obj -> Nat] /\ sent'[o] = s
        /\ \A p \in Obj : p # o => sent'[p] = sent[p]
    BY <2>2, <2>4 DEF SentInv
  <2>6. ASSUME NEW p \in Obj PROVE sent'[p] <= Len(handed'[p])
    <3>1. CASE p = o
      BY <1>3, <2>4, <2>5, <3>1
    <3>2. CASE p # o
      BY <1>3, <2>5, <3>2 DEF SentInv
    <3> QED BY <3>1, <3>2
  <2>7. ASSUME NEW p \in Obj, sent'[p] # sent[p]
        PROVE  sent'[p] \in 1..Len(handed[p]) /\ sent[p] < sent'[p]
    BY <2>4, <2>5, <2>7
  <2> QED BY <1>3, <2>5, <2>6, <2>7 DEF SentInv
<1>4. CASE handed' = handed /\ sent' = sent
  BY <1>4 DEF SentInv
<1> QED BY <1>2, <1>3, <1>4 DEF PipeNext, Collect, Send, pipeVars, vars, Slots!Done

(* What a child is given for an object lies behind everything given before: *)
(* its packets arrived later, and its first packet is more than an interval *)
(* after the first of the group before, whatever groups the manager skips.  *)
THEOREM CloudCorrect ==
  ASSUME NormalIntervals
  PROVE  PipeSpec => CloudInOrder
<1> DEFINE Inv == DataInv /\ TimeInv /\ SentInv
           Ordered == \A o \in Obj : sent'[o] # sent[o] /\ sent[o] # 0 =>
                        LET old == SentGroup(o)
                            new == SentGroup(o)'
                        IN /\ LastStored(old).n < FirstStored(new).n
                           /\ InMs(FirstStored(new).time)
                                 > InMs(FirstStored(old).time) + InMs(Interval(o))
<1>1. PipeInit => Inv
  <2> SUFFICES ASSUME PipeInit PROVE Inv
    OBVIOUS
  <2>1. DataInv
    BY DataInit DEF PipeInit
  <2>2. \A o \in Obj : groupInProgress[o].items = <<>> /\ handed[o] = <<>> /\ Len(handed[o]) = 0
    BY NewGroupType DEF PipeInit, Init
  <2>3. TimeInv
    BY <2>2 DEF TimeInv
  <2>4. SentInv
    BY <2>2 DEF SentInv, PipeInit, Slots!Init
  <2> QED BY <2>1, <2>3, <2>4
<1>2. Inv /\ [PipeNext]_pipeVars => Inv'
  BY PipeStep, DataNext, TimeNext, SentNext
<1>3. Inv /\ [PipeNext]_pipeVars => Ordered
  <2> SUFFICES ASSUME Inv, [PipeNext]_pipeVars, NEW o \in Obj,
                      sent'[o] # sent[o], sent[o] # 0
               PROVE  LET old == SentGroup(o)
                          new == SentGroup(o)'
                      IN /\ LastStored(old).n < FirstStored(new).n
                         /\ InMs(FirstStored(new).time)
                               > InMs(FirstStored(old).time) + InMs(Interval(o))
    OBVIOUS
  <2> DEFINE H == handed[o]
             i == sent[o]
             j == sent'[o]
  <2>1. handed' = handed /\ j \in 1..Len(H) /\ i < j
    BY SentNext
  <2>2. i \in Nat /\ i # 0 /\ Len(H) \in Nat
    BY DEF SentInv, DataInv, TypeOK
  <2>3. i \in 1..Len(H)
    BY <2>1, <2>2
  <2>4. Behind(H[i], H[j])
    BY <2>1, <2>3 DEF DataInv, GroupsInv
  <2>5. Apart(o, H[i], H[j])
    BY <2>1, <2>3 DEF TimeInv
  <2>6. SentGroup(o) = H[i] /\ SentGroup(o)' = H[j]
    BY <2>1 DEF SentGroup
  <2> QED BY <2>4, <2>5, <2>6 DEF Behind, Apart, LastStored, FirstStored
<1>4. [Ordered]_pipeVars <=> [\A o \in Obj : sent'[o] # sent[o] /\ sent[o] # 0 =>
          LET old == SentGroup(o)
              new == SentGroup(o)'
          IN /\ LastStored(old).n < FirstStored(new).n
             /\ InMs(FirstStored(new).time)
                   > InMs(FirstStored(old).time) + InMs(Interval(o))]_pipeVars
  OBVIOUS
<1> HIDE DEF Inv, Ordered
<1> QED BY <1>1, <1>2, <1>3, <1>4, PTL DEF PipeSpec, CloudInOrder
===============================================================================
