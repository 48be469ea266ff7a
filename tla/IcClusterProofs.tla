--------------------------- MODULE IcClusterProofs ----------------------------
(***************************************************************************)
(* Proofs about the instrument cluster client, for every buffer size,      *)
(* every set of datagrams and any number of them.  What holds between two  *)
(* datagrams (PassedOn, UsableSurvives) is not inductive: ReceiverInv says *)
(* of each place of the callback how far the datagram at hand has come,    *)
(* and that the numbers in the socket, in the buffer and in the state are  *)
(* in the order of sending.                                                *)
(***************************************************************************)
EXTENDS IcCluster, SequenceTheorems, TLAPS

InCallback == {"filter", "scs", "hub", "notify", "flush"}
Zeros      == [i \in 1..BufSize |-> 0]

(* The receiver exists only after main() registered the notifier.           *)
StartInv ==
    /\ mainPc \in {"config", "register", "notifier", "run"} => rpc = "none"
    /\ mainPc = "run" \/ rpc # "none" => event_update

(* The queue of the socket keeps the order of sending, and what is handled  *)
(* is older than what waits.                                                *)
SockInv ==
    /\ rpc \in InCallback => cur \in Datagram
    /\ cur.n <= sent
    /\ \A i \in 1..Len(sock) : cur.n < sock[i].n /\ sock[i].n <= sent
    /\ \A i, j \in 1..Len(sock) : i < j => sock[i].n < sock[j].n

(* No accepted datagram is newer than the one at hand, which is not yet     *)
(* among them while filter_pkt looks at it.                                 *)
OrderInv ==
    /\ \A i \in 1..Len(accepted) :
         accepted[i] <= cur.n /\ (rpc = "filter" => accepted[i] < cur.n)
    /\ \A i, j \in 1..Len(accepted) : i < j => accepted[i] < accepted[j]

(* How far an accepted datagram has been passed on, at every place.         *)
PassInv ==
    /\ rpc \notin {"scs", "hub", "notify"} =>
         scsTried = accepted /\ hubTried = accepted /\ notified = Len(accepted)
    /\ rpc = "scs" =>
         /\ accepted = Append(scsTried, cur.n)
         /\ hubTried = scsTried /\ notified = Len(scsTried)
    /\ rpc = "hub" =>
         /\ scsTried = accepted
         /\ accepted = Append(hubTried, cur.n) /\ notified = Len(hubTried)
    /\ rpc = "notify" =>
         scsTried = accepted /\ hubTried = accepted /\ notified + 1 = Len(accepted)

FieldsInv ==
    /\ \A t \in Types : \A i \in 1..FieldCount[t] : state[t][i] <= cur.n
    /\ StateNewestFirst

(* Once a datagram was handled, the next is read into a cleared buffer.     *)
BufferInv ==
    /\ rpc \in {"none", "bind"} => handled = 0
    /\ rpc = "recv" /\ handled > 0 => recv_buffer_ = Zeros
    /\ rpc = "filter" /\ handled > 0 => recv_buffer_ = Stored(Zeros, cur)
    /\ UsableSurvives

ReceiverInv ==
    /\ TypeOK /\ StartInv /\ SockInv
    /\ OrderInv /\ PassInv /\ FieldsInv /\ BufferInv

-----------------------------------------------------------------------------

(* A datagram is a record: what its fields are.                             *)
LEMMA DatagramFields ==
  ASSUME NEW d \in Datagram
  PROVE  /\ d.n \in Nat /\ d.n > 0 /\ d.n <= MaxPkt
         /\ d.in \in Inputs /\ d.in.len \in Nat /\ d.in.present \in Nat
BY ClusterAssumption DEF Datagram, Input

(* Nothing, the value of cur before the first datagram, is older than all.  *)
LEMMA CurNumber ==
  ASSUME NEW d \in Datagram \cup {Nothing}
  PROVE  d.n \in 0..MaxPkt
BY DatagramFields, ClusterAssumption DEF Nothing

(* The initial states satisfy the invariant.                                *)
LEMMA ReceiverInit == Init => ReceiverInv
<1> SUFFICES ASSUME Init PROVE ReceiverInv
  OBVIOUS
<1>1. cur.n = 0
  BY DEF Init, Nothing
<1>2. /\ sock = <<>> /\ Len(sock) = 0 /\ sock \in Seq(Datagram)
      /\ accepted = <<>> /\ Len(accepted) = 0 /\ accepted \in Numbers
  BY DEF Init, Numbers
<1>3. /\ DOMAIN state = Types
      /\ \A t \in Types : state[t] = [i \in 1..FieldCount[t] |-> 0]
  BY DEF Init
<1>4. recv_buffer_ \in [1..BufSize -> Cell]
  <2>1. PICK c \in {0, Junk} : recv_buffer_ = [i \in 1..BufSize |-> c]
    BY DEF Init
  <2>2. c \in Cell
    BY ClusterAssumption DEF Cell, Junk
  <2> QED BY <2>1, <2>2
<1>5. TypeOK
  <2>1. /\ scsTried \in Numbers /\ hubTried \in Numbers
        /\ notified \in Nat /\ handled \in Nat
        /\ cur \in Datagram \cup {Nothing}
    BY <1>2 DEF Init
  <2>2. 0 \in 0..MaxPkt
    BY ClusterAssumption
  <2>3. \A t \in Types : state[t] \in [1..FieldCount[t] -> 0..MaxPkt]
    BY <1>3, <2>2
  <2>4. /\ mainPc \in {"config", "register", "notifier", "run", "loop", "ended"}
        /\ rpc \in {"none", "bind", "recv", "filter", "scs", "hub", "notify", "flush", "done"}
        /\ opened \in BOOLEAN /\ event_update \in BOOLEAN
        /\ sent \in 0..MaxPkt
    BY <2>2 DEF Init
  <2> QED BY <1>2, <1>3, <1>4, <2>1, <2>3, <2>4 DEF TypeOK
<1>6. StartInv
  BY DEF Init, StartInv
<1>7. SockInv
  BY <1>1, <1>2, ClusterAssumption DEF Init, SockInv, InCallback
<1>8. OrderInv
  BY <1>2 DEF OrderInv
<1>9. PassInv
  BY <1>2 DEF Init, PassInv
<1>10. FieldsInv
  BY <1>1, <1>3, ClusterAssumption DEF FieldsInv, StateNewestFirst
<1>11. BufferInv
  BY DEF Init, BufferInv, UsableSurvives, Ended
<1> QED BY <1>5, <1>6, <1>7, <1>8, <1>9, <1>10, <1>11 DEF ReceiverInv

(* Steps that touch no datagram: main(), the start and the end of the       *)
(* receiver.  Only rpc, mainPc, opened and event_update change.             *)
LEMMA QuietStep ==
  ASSUME ReceiverInv, UNCHANGED <<wireVars, pktVars>>,
         TypeOK', StartInv',
         \/ rpc' = rpc
         \/ rpc \in {"none", "bind"} /\ rpc' \in {"bind", "done"}
         \/ rpc = "bind" /\ rpc' = "recv"
         \/ rpc = "filter" /\ rpc' = "flush",
         UsableSurvives'
  PROVE  ReceiverInv'
<1> USE DEF wireVars, pktVars
<1>1. SockInv'
  BY DEF ReceiverInv, SockInv, InCallback
<1>2. OrderInv'
  BY DEF ReceiverInv, OrderInv
<1>3. PassInv'
  BY DEF ReceiverInv, PassInv
<1>4. FieldsInv'
  BY DEF ReceiverInv, FieldsInv, StateNewestFirst
<1>5. BufferInv'
  BY DEF ReceiverInv, BufferInv, Zeros, Stored
<1> QED BY <1>1, <1>2, <1>3, <1>4, <1>5 DEF ReceiverInv

(* main(), the start of the receiver and the exceptions that end it.        *)
LEMMA MainStep ==
  ASSUME ReceiverInv,
         Main \/ subscribeVwsReceiver \/ OpenFails \/ BindThrows
           \/ ReceiveError \/ SenderThrows \/ FilterThrows \/ FilterRejects
  PROVE  ReceiverInv'
<1> USE DEF ReceiverInv, Terminate, OnlyRpc, At, MainTo
<1>1. CASE MainFails
  BY <1>1, QuietStep DEF MainFails, TypeOK, StartInv, UsableSurvives, Ended, wireVars, pktVars
<1>2. CASE parse_config \/ cluster_init \/ cluster_register_notifier \/ cluster_run
  <2>1. CASE parse_config \/ cluster_init
    BY <2>1, QuietStep DEF parse_config, cluster_init, TypeOK, StartInv,
       UsableSurvives, Ended, wireVars, pktVars
  <2>2. CASE cluster_register_notifier
    BY <2>2, QuietStep DEF cluster_register_notifier, TypeOK, StartInv,
       UsableSurvives, Ended, wireVars, pktVars
  <2>3. CASE cluster_run
    <3>1. /\ UNCHANGED <<opened, event_update, wireVars, pktVars>>
          /\ mainPc = "run" /\ mainPc' = "loop" /\ rpc' = "bind"
      BY <2>3 DEF cluster_run
    <3>2. TypeOK' /\ StartInv' /\ UsableSurvives'
      BY <3>1 DEF TypeOK, StartInv, UsableSurvives, Ended, wireVars, pktVars
    <3>3. rpc = "none"
      BY <3>1 DEF StartInv
    <3> QED BY <3>1, <3>2, <3>3, QuietStep
  <2> QED BY <1>2, <2>1, <2>2, <2>3
<1>3. CASE subscribeVwsReceiver \/ OpenFails
  BY <1>3, QuietStep DEF subscribeVwsReceiver, OpenFails, TypeOK, StartInv,
     UsableSurvives, Ended, wireVars, pktVars
<1>4. CASE BindThrows \/ ReceiveError \/ SenderThrows
  BY <1>4, QuietStep DEF BindThrows, ReceiveError, SenderThrows, TypeOK, StartInv,
     UsableSurvives, Ended, wireVars, pktVars
<1>5. CASE FilterRejects
  BY <1>5, QuietStep DEF FilterRejects, TypeOK, StartInv, UsableSurvives, Ended,
     wireVars, pktVars
<1>6. CASE FilterThrows
  <2>1. UNCHANGED <<rpc, opened, event_update, wireVars, pktVars>> /\ mainPc' = "ended"
        /\ rpc = "filter"
    BY <1>6 DEF FilterThrows
  <2>2. TypeOK' /\ StartInv'
    BY <2>1 DEF TypeOK, StartInv, wireVars, pktVars
  <2>3. ASSUME handled > 0, Usable(cur.in) PROVE FALSE
    <3>1. recv_buffer_ = Stored(Zeros, cur) /\ cur \in Datagram
      BY <2>1, <2>3 DEF BufferInv, SockInv, InCallback
    <3>2. cur.in.len < BufSize /\ cur.in.len \in Nat /\ cur.n > 0 /\ cur.n \in Nat
      BY <2>3, <3>1, DatagramFields DEF Usable
    <3>3. \A i \in 1..BufSize : recv_buffer_[i] = IF i <= cur.in.len THEN cur.n ELSE 0
      BY <3>1 DEF Stored, Zeros
    <3>4. TextIsDatagram
      BY <3>2, <3>3, ClusterAssumption DEF TextIsDatagram
    <3> QED BY <1>6, <3>2, <3>4, <2>3, ClusterAssumption DEF FilterThrows, Usable
  <2>4. UsableSurvives'
    BY <2>1, <2>3 DEF UsableSurvives, pktVars, Usable, HasNeededKeys
  <2> QED BY <2>1, <2>2, <2>4, QuietStep
<1> QED BY <1>1, <1>2, <1>3, <1>4, <1>5, <1>6 DEF Main

(* VWS sends: the new datagram is the newest of the queue.                  *)
LEMMA SendStep ==
  ASSUME ReceiverInv, NEW in \in Inputs, VwsSend(in)
  PROVE  ReceiverInv'
<1> USE DEF ReceiverInv
<1> DEFINE d == [n |-> sent + 1, in |-> in]
<1>1. /\ UNCHANGED <<mainPc, rpc, opened, event_update, pktVars>>
      /\ sent \in Nat /\ sent < MaxPkt /\ sent' = sent + 1
      /\ sock' = Append(sock, d) \/ sock' = sock
  BY ClusterAssumption DEF VwsSend, TypeOK
<1>2. d \in Datagram /\ d.n = sent + 1
  BY <1>1, ClusterAssumption DEF Datagram
<1> HIDE DEF d
<1>3. sock \in Seq(Datagram) /\ sock' \in Seq(Datagram)
  BY <1>1, <1>2 DEF TypeOK
<1>4. TypeOK'
  BY <1>1, <1>3, ClusterAssumption DEF TypeOK, pktVars
<1>5. cur.n \in 0..MaxPkt /\ \A i \in 1..Len(sock) : sock[i].n \in 0..MaxPkt
  <2>1. \A i \in 1..Len(sock) : sock[i] \in Datagram
    BY <1>3
  <2> QED BY <2>1, CurNumber DEF TypeOK
<1>6. SockInv'
  <2>1. (rpc \in InCallback => cur \in Datagram)' /\ (cur.n <= sent)'
    BY <1>1, <1>5, ClusterAssumption DEF SockInv, pktVars
  <2>2. CASE sock' = sock
    BY <2>1, <2>2, <1>1, <1>5, ClusterAssumption DEF SockInv, pktVars
  <2>3. CASE sock' = Append(sock, d)
    <3>1. /\ Len(sock') = Len(sock) + 1 /\ Len(sock) \in Nat
          /\ \A i \in 1..Len(sock) : sock'[i] = sock[i]
          /\ sock'[Len(sock) + 1] = d
      BY <2>3, <1>2, <1>3
    <3>2. \A i \in 1..Len(sock') : i \in 1..Len(sock) \/ i = Len(sock) + 1
      BY <3>1
    <3>3. \A i \in 1..Len(sock) : cur.n < sock[i].n /\ sock[i].n < sent + 1
      BY <1>1, <1>5, ClusterAssumption DEF SockInv
    <3>4. cur' = cur /\ cur.n < sent + 1
      BY <1>1, <1>5, ClusterAssumption DEF SockInv, pktVars
    <3>5. \A i \in 1..Len(sock') : cur'.n < sock'[i].n /\ sock'[i].n <= sent'
      BY <1>1, <1>2, <1>5, <3>1, <3>2, <3>3, <3>4, ClusterAssumption
    <3>6. \A i, j \in 1..Len(sock') : i < j => sock'[i].n < sock'[j].n
      <4> SUFFICES ASSUME NEW i \in 1..Len(sock'), NEW j \in 1..Len(sock'), i < j
                   PROVE  sock'[i].n < sock'[j].n
        OBVIOUS
      <4>1. i \in 1..Len(sock)
        BY <3>1
      <4>2. CASE j \in 1..Len(sock)
        BY <4>1, <4>2, <3>1 DEF SockInv
      <4>3. CASE j = Len(sock) + 1
        BY <4>1, <4>3, <1>2, <3>1, <3>3
      <4> QED BY <3>2, <4>2, <4>3
    <3> QED BY <2>1, <3>5, <3>6 DEF SockInv
  <2> QED BY <1>1, <2>2, <2>3
<1>7. StartInv' /\ OrderInv' /\ PassInv'
  BY <1>1 DEF StartInv, OrderInv, PassInv, pktVars
<1>8. FieldsInv'
  BY <1>1 DEF FieldsInv, StateNewestFirst, pktVars
<1>9. BufferInv'
  BY <1>1 DEF BufferInv, UsableSurvives, Ended, Usable, HasNeededKeys, Stored, Zeros, pktVars
<1> QED BY <1>4, <1>6, <1>7, <1>8, <1>9

(* Taking the head of the queue: it is newer than what was handled before   *)
(* and older than what still waits.                                         *)
LEMMA TakeHead ==
  ASSUME ReceiverInv, sock # <<>>, sock' = Tail(sock)
  PROVE  /\ sock' \in Seq(Datagram) /\ Head(sock) \in Datagram
         /\ cur.n < Head(sock).n /\ Head(sock).n <= sent
         /\ \A i \in 1..Len(sock') :
              /\ Head(sock).n < sock'[i].n /\ cur.n < sock'[i].n
              /\ sock'[i].n <= sent
         /\ \A i, j \in 1..Len(sock') : i < j => sock'[i].n < sock'[j].n
<1>1. sock \in Seq(Datagram)
  BY DEF ReceiverInv, TypeOK
<1>2. /\ sock' \in Seq(Datagram) /\ Head(sock) \in Datagram
      /\ Head(sock) = sock[1] /\ Len(sock) \in Nat /\ Len(sock) > 0
      /\ Len(sock') = Len(sock) - 1
      /\ \A i \in 1..Len(sock') : sock'[i] = sock[i + 1]
  BY <1>1, HeadTailProperties, EmptySeq
<1>3. /\ 1 \in 1..Len(sock)
      /\ \A i \in 1..Len(sock') : i + 1 \in 1..Len(sock) /\ 1 < i + 1
  BY <1>2
<1>4. \A i, j \in 1..Len(sock') : i < j => i + 1 < j + 1
  OBVIOUS
<1>5. cur.n < sock[1].n /\ sock[1].n <= sent
  BY <1>3 DEF ReceiverInv, SockInv
<1>6. \A i \in 1..Len(sock') : /\ sock[1].n < sock[i + 1].n
                               /\ cur.n < sock[i + 1].n /\ sock[i + 1].n <= sent
  BY <1>3 DEF ReceiverInv, SockInv
<1>7. \A i, j \in 1..Len(sock') : i < j => sock[i + 1].n < sock[j + 1].n
  BY <1>3, <1>4 DEF ReceiverInv, SockInv
<1> QED BY <1>2, <1>5, <1>6, <1>7

(* A datagram is stored in the buffer and handed to the callback.           *)
LEMMA ReceiveStep ==
  ASSUME ReceiverInv, handle_receive
  PROVE  ReceiverInv'
<1> USE DEF ReceiverInv, handle_receive, At, outVars
<1> DEFINE d == Head(sock)
<1>1. /\ sock' \in Seq(Datagram) /\ d \in Datagram
      /\ cur.n < d.n /\ d.n <= sent
      /\ \A i \in 1..Len(sock') : d.n < sock'[i].n /\ sock'[i].n <= sent
      /\ \A i, j \in 1..Len(sock') : i < j => sock'[i].n < sock'[j].n
  BY TakeHead
<1>2. /\ d.n \in Nat /\ d.n \in 0..MaxPkt /\ cur.n \in 0..MaxPkt
      /\ d.in.len \in Nat
  BY <1>1, DatagramFields, CurNumber, ClusterAssumption DEF TypeOK
<1>3. /\ cur' = d /\ rpc = "recv" /\ rpc' = "filter" /\ ~Ended
      /\ recv_buffer_' = Stored(recv_buffer_, d)
      /\ UNCHANGED <<mainPc, opened, event_update, sent, state, accepted,
                     scsTried, hubTried, notified, handled>>
  OBVIOUS
<1> HIDE DEF d, handle_receive
<1>4. Stored(recv_buffer_, d) \in [1..BufSize -> Cell]
  <2>1. recv_buffer_ \in [1..BufSize -> Cell] /\ d.n \in Cell
    BY <1>2, ClusterAssumption DEF TypeOK, Cell, Junk
  <2> QED BY <2>1 DEF Stored
<1>5. TypeOK'
  BY <1>1, <1>3, <1>4 DEF TypeOK
<1>6. StartInv'
  BY <1>3 DEF StartInv
<1>7. SockInv'
  BY <1>1, <1>3 DEF SockInv
<1>8. OrderInv'
  <2>1. \A i \in 1..Len(accepted) : accepted[i] \in Nat
    BY ClusterAssumption DEF TypeOK, Numbers
  <2>2. \A i \in 1..Len(accepted) : accepted[i] < d.n /\ accepted[i] <= d.n
    BY <1>1, <1>2, <2>1 DEF OrderInv
  <2> QED BY <1>3, <2>2 DEF OrderInv
<1>9. PassInv'
  BY <1>3 DEF PassInv
<1>10. FieldsInv'
  <2>1. \A t \in Types : \A i \in 1..FieldCount[t] :
          state[t][i] \in Nat /\ state[t][i] <= cur.n
    BY ClusterAssumption DEF TypeOK, FieldsInv
  <2>2. \A t \in Types : \A i \in 1..FieldCount[t] : state[t][i] <= d.n
    BY <1>1, <1>2, <2>1
  <2> QED BY <1>3, <2>2 DEF FieldsInv, StateNewestFirst
<1>11. BufferInv'
  BY <1>3 DEF BufferInv, UsableSurvives, Ended, Zeros, Stored
<1> QED BY <1>5, <1>6, <1>7, <1>8, <1>9, <1>10, <1>11

(* An empty datagram is dropped and the receiver listens again.             *)
LEMMA EmptyStep ==
  ASSUME ReceiverInv, ReceiveEmpty
  PROVE  ReceiverInv'
<1> USE DEF ReceiverInv
<1>1. /\ sock' \in Seq(Datagram)
      /\ \A i \in 1..Len(sock') : cur.n < sock'[i].n /\ sock'[i].n <= sent
      /\ \A i, j \in 1..Len(sock') : i < j => sock'[i].n < sock'[j].n
  BY TakeHead DEF ReceiveEmpty
<1>2. UNCHANGED <<mainPc, rpc, opened, event_update, sent, pktVars>>
  BY DEF ReceiveEmpty
<1>3. TypeOK'
  BY <1>1, <1>2 DEF TypeOK, pktVars
<1>4. SockInv'
  BY <1>1, <1>2 DEF SockInv, pktVars
<1>5. StartInv' /\ OrderInv' /\ PassInv'
  BY <1>2 DEF StartInv, OrderInv, PassInv, pktVars
<1>6. FieldsInv'
  BY <1>2 DEF FieldsInv, StateNewestFirst, pktVars
<1>7. BufferInv'
  BY <1>2 DEF BufferInv, UsableSurvives, Ended, Usable, HasNeededKeys, Stored, Zeros, pktVars
<1> QED BY <1>3, <1>4, <1>5, <1>6, <1>7

(* state_parse assigns a prefix of the fields: they become the newest, and  *)
(* the order by age is kept.                                                *)
LEMMA ParseKeepsOrder ==
  ASSUME NEW k \in Nat, NEW f \in [1..k -> 0..MaxPkt], cur \in Datagram,
         \A i \in 1..k : f[i] <= cur.n,
         \A i, j \in 1..k : i < j => f[i] >= f[j]
  PROVE  /\ state_parse(f) \in [1..k -> 0..MaxPkt]
         /\ \A i \in 1..k : state_parse(f)[i] <= cur.n
         /\ \A i, j \in 1..k : i < j => state_parse(f)[i] >= state_parse(f)[j]
<1>1. /\ DOMAIN f = 1..k /\ cur.n \in 0..MaxPkt /\ cur.n \in Nat /\ cur.in.present \in Nat
      /\ \A i \in 1..k : f[i] \in Nat
  BY DatagramFields, ClusterAssumption
<1>2. state_parse(f) = [i \in 1..k |-> IF i <= cur.in.present THEN cur.n ELSE f[i]]
  BY <1>1 DEF state_parse
<1>3. \A i \in 1..k : state_parse(f)[i] = IF i <= cur.in.present THEN cur.n ELSE f[i]
  BY <1>2
<1>4. \A i, j \in 1..k : i < j => state_parse(f)[i] >= state_parse(f)[j]
  BY <1>1, <1>3
<1> QED BY <1>1, <1>2, <1>3, <1>4

(* filter_pkt accepts the datagram at hand.                                 *)
LEMMA FilterStep ==
  ASSUME ReceiverInv, filter_pkt
  PROVE  ReceiverInv'
<1> USE DEF ReceiverInv
<1>1. /\ rpc = "filter" /\ rpc' = "scs" /\ ~Ended
      /\ accepted' = Append(accepted, cur.n)
      /\ UNCHANGED <<mainPc, opened, event_update, sent, sock, recv_buffer_, cur,
                     scsTried, hubTried, notified, handled>>
  BY DEF filter_pkt, At, OnlyRpc, wireVars, outVars
<1>2. cur \in Datagram /\ cur.n \in 1..MaxPkt /\ cur.n \in Nat
  BY <1>1, DatagramFields, ClusterAssumption DEF SockInv, InCallback
<1>3. /\ accepted \in Seq(1..MaxPkt) /\ accepted' \in Seq(1..MaxPkt)
      /\ Len(accepted') = Len(accepted) + 1 /\ Len(accepted) \in Nat
      /\ \A i \in 1..Len(accepted) : accepted'[i] = accepted[i] /\ accepted[i] \in Nat
      /\ accepted'[Len(accepted) + 1] = cur.n
  BY <1>1, <1>2, ClusterAssumption DEF TypeOK, Numbers
<1>4. /\ DOMAIN state' = Types
      /\ \A t \in Types : state'[t] = state[t] \/ state'[t] = state_parse(state[t])
  BY DEF filter_pkt, TypeOK
<1>5. ASSUME NEW t \in Types
      PROVE  /\ state'[t] \in [1..FieldCount[t] -> 0..MaxPkt]
             /\ \A i \in 1..FieldCount[t] : state'[t][i] <= cur.n
             /\ \A i, j \in 1..FieldCount[t] : i < j => state'[t][i] >= state'[t][j]
  <2>1. FieldCount[t] \in Nat /\ state[t] \in [1..FieldCount[t] -> 0..MaxPkt]
    BY ClusterAssumption DEF TypeOK
  <2>2. /\ \A i \in 1..FieldCount[t] : state[t][i] <= cur.n
        /\ \A i, j \in 1..FieldCount[t] : i < j => state[t][i] >= state[t][j]
    BY <2>1 DEF FieldsInv, StateNewestFirst
  <2>3. CASE state'[t] = state[t]
    BY <2>1, <2>2, <2>3
  <2>4. CASE state'[t] = state_parse(state[t])
    <3> DEFINE f == state[t]
               g == state_parse(f)
    <3>1. cur \in Datagram /\ FieldCount[t] \in Nat /\ f \in [1..FieldCount[t] -> 0..MaxPkt]
      BY <1>2, <2>1
    <3>2. /\ \A i \in 1..FieldCount[t] : f[i] <= cur.n
          /\ \A i, j \in 1..FieldCount[t] : i < j => f[i] >= f[j]
      BY <2>2
    <3> HIDE DEF f
    <3>3. /\ g \in [1..FieldCount[t] -> 0..MaxPkt]
          /\ \A i \in 1..FieldCount[t] : g[i] <= cur.n
          /\ \A i, j \in 1..FieldCount[t] : i < j => g[i] >= g[j]
      BY <3>1, <3>2, ParseKeepsOrder
    <3>4. state'[t] = g
      BY <2>4 DEF f
    <3> HIDE DEF g
    <3> QED BY <3>3, <3>4
  <2> QED BY <1>4, <2>3, <2>4
<1>6. TypeOK'
  BY <1>1, <1>3, <1>4, <1>5 DEF TypeOK, Numbers
<1>7. StartInv' /\ SockInv'
  BY <1>1, <1>2 DEF StartInv, SockInv
<1>8. OrderInv'
  <2>1. \A i \in 1..Len(accepted) : accepted[i] < cur.n
    BY <1>1 DEF OrderInv
  <2>2. \A i \in 1..Len(accepted') : i \in 1..Len(accepted) \/ i = Len(accepted) + 1
    BY <1>3
  <2>3. \A i \in 1..Len(accepted') : accepted'[i] <= cur.n
    BY <1>2, <1>3, <2>1, <2>2
  <2>4. \A i, j \in 1..Len(accepted') : i < j => accepted'[i] < accepted'[j]
    <3> SUFFICES ASSUME NEW i \in 1..Len(accepted'), NEW j \in 1..Len(accepted'), i < j
                 PROVE  accepted'[i] < accepted'[j]
      OBVIOUS
    <3>1. i \in 1..Len(accepted)
      BY <1>3
    <3>2. CASE j \in 1..Len(accepted)
      BY <1>3, <3>1, <3>2 DEF OrderInv
    <3>3. CASE j = Len(accepted) + 1
      BY <1>3, <2>1, <3>1, <3>3
    <3> QED BY <2>2, <3>2, <3>3
  <2> QED BY <1>1, <2>3, <2>4 DEF OrderInv
<1>9. PassInv'
  BY <1>1 DEF PassInv
<1>10. FieldsInv'
  <2>1. \A t \in Types : DOMAIN state'[t] = 1..FieldCount[t]
    BY <1>5
  <2> QED BY <1>1, <1>5, <2>1 DEF FieldsInv, StateNewestFirst
<1>11. BufferInv'
  BY <1>1 DEF BufferInv, UsableSurvives
<1> QED BY <1>6, <1>7, <1>8, <1>9, <1>10, <1>11

(* The accepted datagram goes to the SCS, to the hub and to the notifier,   *)
(* then the buffer is cleared.                                              *)
LEMMA PassStep ==
  ASSUME ReceiverInv, SendScs \/ SendHub \/ Notify \/ flushInternalBuffer
  PROVE  ReceiverInv'
<1> USE DEF ReceiverInv
<1>1. /\ rpc \in InCallback \ {"filter"} /\ rpc' \in (InCallback \ {"filter"}) \cup {"recv"}
      /\ UNCHANGED <<mainPc, opened, event_update, sent, sock, cur, state, accepted>>
  BY DEF SendScs, SendHub, Notify, flushInternalBuffer, At, OnlyRpc, wireVars, outVars, InCallback
<1>2. cur \in Datagram /\ cur.n \in 1..MaxPkt
  BY <1>1, DatagramFields, ClusterAssumption DEF SockInv
<1>3. StartInv' /\ SockInv' /\ OrderInv'
  BY <1>1, <1>2 DEF StartInv, SockInv, OrderInv, InCallback
<1>4. FieldsInv'
  BY <1>1 DEF FieldsInv, StateNewestFirst
<1>5. CASE SendScs
  <2>1. /\ rpc = "scs" /\ rpc' = "hub" /\ scsTried' = Append(scsTried, cur.n)
        /\ UNCHANGED <<recv_buffer_, hubTried, notified, handled>>
    BY <1>5 DEF SendScs, At, OnlyRpc
  <2>2. TypeOK'
    BY <1>1, <1>2, <2>1 DEF TypeOK, Numbers
  <2>3. PassInv'
    BY <1>1, <2>1 DEF PassInv
  <2>4. BufferInv'
    BY <2>1 DEF BufferInv, UsableSurvives
  <2> QED BY <1>3, <1>4, <2>2, <2>3, <2>4
<1>6. CASE SendHub
  <2>1. /\ rpc = "hub" /\ rpc' = "notify" /\ hubTried' = Append(hubTried, cur.n)
        /\ UNCHANGED <<recv_buffer_, scsTried, notified, handled>>
    BY <1>6 DEF SendHub, At, OnlyRpc
  <2>2. TypeOK'
    BY <1>1, <1>2, <2>1 DEF TypeOK, Numbers
  <2>3. Len(Append(hubTried, cur.n)) = Len(hubTried) + 1
    BY <1>2 DEF TypeOK, Numbers
  <2>4. PassInv'
    BY <1>1, <2>1, <2>3 DEF PassInv
  <2>5. BufferInv'
    BY <2>1 DEF BufferInv, UsableSurvives
  <2> QED BY <1>3, <1>4, <2>2, <2>4, <2>5
<1>7. CASE Notify
  <2>1. /\ rpc = "notify" /\ rpc' = "flush" /\ event_update
        /\ notified' = notified + 1
        /\ UNCHANGED <<recv_buffer_, scsTried, hubTried, handled>>
    BY <1>7 DEF Notify, At, OnlyRpc, StartInv
  <2>2. TypeOK'
    BY <1>1, <2>1 DEF TypeOK
  <2>3. PassInv'
    BY <1>1, <2>1 DEF PassInv
  <2>4. BufferInv'
    BY <2>1 DEF BufferInv, UsableSurvives
  <2> QED BY <1>3, <1>4, <2>2, <2>3, <2>4
<1>8. CASE flushInternalBuffer
  <2>1. /\ rpc = "flush" /\ rpc' = "recv" /\ recv_buffer_' = Zeros
        /\ handled' = handled + 1
        /\ UNCHANGED <<scsTried, hubTried, notified>>
    BY <1>8 DEF flushInternalBuffer, At, OnlyRpc, outVars, Zeros
  <2>2. Zeros \in [1..BufSize -> Cell]
    BY ClusterAssumption DEF Zeros, Cell, Junk
  <2>3. TypeOK'
    BY <1>1, <2>1, <2>2 DEF TypeOK
  <2>4. PassInv'
    BY <1>1, <2>1 DEF PassInv
  <2>5. BufferInv'
    BY <2>1 DEF BufferInv, UsableSurvives, Zeros
  <2> QED BY <1>3, <1>4, <2>3, <2>4, <2>5
<1> QED BY <1>5, <1>6, <1>7, <1>8

(* Every step of the process and of VWS preserves the invariant.            *)
LEMMA ReceiverNext == ReceiverInv /\ [Next]_vars => ReceiverInv'
<1> SUFFICES ASSUME ReceiverInv, [Next]_vars PROVE ReceiverInv'
  OBVIOUS
<1>1. CASE Main \/ ReceiveError \/ SenderThrows
  BY <1>1, MainStep
<1>2. CASE \E in \in Inputs : VwsSend(in)
  BY <1>2, SendStep
<1>3. CASE Receiver
  <2>1. CASE subscribeVwsReceiver \/ OpenFails \/ BindThrows
    BY <2>1, MainStep
  <2>2. CASE handle_receive
    BY <2>2, ReceiveStep
  <2>3. CASE ReceiveEmpty
    BY <2>3, EmptyStep
  <2>4. CASE FilterThrows \/ FilterRejects
    BY <2>4, MainStep
  <2>5. CASE filter_pkt
    BY <2>5, FilterStep
  <2>6. CASE SendScs \/ SendHub \/ Notify \/ flushInternalBuffer
    BY <2>6, PassStep
  <2> QED BY <1>3, <2>1, <2>2, <2>3, <2>4, <2>5, <2>6 DEF Receiver, Callback
<1>4. CASE UNCHANGED vars
  <2>1. /\ UNCHANGED <<wireVars, pktVars>>
        /\ UNCHANGED <<mainPc, rpc, opened, event_update>>
    BY <1>4 DEF vars, wireVars, pktVars
  <2>2. TypeOK' /\ StartInv'
    BY <2>1 DEF ReceiverInv, TypeOK, StartInv, wireVars, pktVars
  <2>3. UsableSurvives'
    BY <2>1 DEF ReceiverInv, BufferInv, UsableSurvives, Ended, Usable, HasNeededKeys, pktVars
  <2> QED BY <2>1, <2>2, <2>3, QuietStep
<1> QED BY <1>1, <1>2, <1>3, <1>4 DEF Next

(* The variables of the cluster client stay in their types: the buffer is   *)
(* never written past its end.                                              *)
THEOREM ClusterTypeCorrect == Spec => []TypeOK
<1>1. ReceiverInv => TypeOK
  BY DEF ReceiverInv
<1> QED BY ReceiverInit, ReceiverNext, <1>1, PTL DEF Spec

(* Between two datagrams everything accepted has been passed on to the SCS, *)
(* to the hub and to the notifier, once and in order, for any number of     *)
(* datagrams and whatever fails.                                            *)
THEOREM PassedCorrect == Spec => []PassedOn
<1>1. ReceiverInv => PassedOn
  <2> SUFFICES ASSUME ReceiverInv PROVE PassedOn
    OBVIOUS
  <2>1. DOMAIN accepted = 1..Len(accepted)
    BY DEF ReceiverInv, TypeOK, Numbers
  <2> QED BY <2>1 DEF ReceiverInv, PassInv, OrderInv, PassedOn
<1> QED BY ReceiverInit, ReceiverNext, <1>1, PTL DEF Spec

(* A field of the shared state is never newer than one state_parse reads    *)
(* before it.                                                               *)
THEOREM StateCorrect == Spec => []StateNewestFirst
<1>1. ReceiverInv => StateNewestFirst
  BY DEF ReceiverInv, FieldsInv
<1> QED BY ReceiverInit, ReceiverNext, <1>1, PTL DEF Spec

(* No datagram that is usable by itself ends the process because of what    *)
(* was received before it.                                                  *)
THEOREM SurvivesCorrect == Spec => []UsableSurvives
<1>1. ReceiverInv => UsableSurvives
  BY DEF ReceiverInv, BufferInv
<1> QED BY ReceiverInit, ReceiverNext, <1>1, PTL DEF Spec
===============================================================================
