--------------------------- MODULE MqttPublishProofs --------------------------
(* Proofs about MqttPublish, for every set of id lengths, lights and         *)
(* commands.                                                                 *)
EXTENDS MqttPublish, SequenceTheorems, TLAPS

-----------------------------------------------------------------------------
(* The connection and the exit code.                                         *)

(* There is no session before connect and none behind exit.                  *)
SessionInv ==
    /\ pc \in {"params", "opts", "connect"} => ~connected /\ ~link
    /\ status = "exited" => ~connected /\ ~link

(* A publication that went nowhere has cost the connection, and only the     *)
(* wait for an acknowledgement makes the exit code success.                  *)
CodeInv ==
    /\ pc = "wait" /\ msg = "none" => ~connected
    /\ exitCode = "success" => pc = "disconnect" /\ msg = "acked"

(* Behind GetOpts its two tests hold.                                        *)
OptsInv == pc \notin {"params", "opts"} => GetOpts

(* Commands keep their order from the cloud to the lights.                   *)
InboxInv ==
    /\ \A i \in DOMAIN inbox : inbox[i] <= Len(cmds)
    /\ \A i, j \in DOMAIN inbox : i < j => inbox[i] < inbox[j]
    /\ \A i \in DOMAIN forwarded : forwarded[i].n <= Len(cmds)
    /\ \A i \in DOMAIN forwarded, j \in DOMAIN inbox : forwarded[i].n < inbox[j]

ChildInv == TypeOK /\ SessionInv /\ CodeInv /\ OptsInv /\ InboxInv /\ CommandsInOrder

(* The child starts without a connection.                                    *)
LEMMA ChildInit == Init => ChildInv
  <1> SUFFICES ASSUME Init PROVE ChildInv
    OBVIOUS
  <1>1. cmds \in Seq(Command) /\ inbox \in Seq(1..MaxCmd) /\ forwarded \in Seq(LightPkt)
    BY DEF Init
  <1>2. DOMAIN inbox = {} /\ DOMAIN forwarded = {}
    BY DEF Init
  <1>3. TypeOK
    BY <1>1 DEF Init, TypeOK
  <1>4. InboxInv /\ CommandsInOrder
    BY <1>2 DEF InboxInv, CommandsInOrder
  <1>5. SessionInv /\ CodeInv /\ OptsInv
    BY DEF Init, SessionInv, CodeInv, OptsInv
  <1>6. QED
    BY <1>3, <1>4, <1>5 DEF ChildInv

(* A step that has nothing to do with commands.                              *)
LEMMA CommandsSame ==
    ASSUME ChildInv, UNCHANGED <<lights, inputs>>
    PROVE  /\ InboxInv' /\ CommandsInOrder' /\ (GetOpts' <=> GetOpts)
           /\ cmds' \in Seq(Command) /\ inbox' \in Seq(1..MaxCmd) /\ forwarded' \in Seq(LightPkt)
           /\ objType' \in {"CAR", "LIGHTS"} /\ lens' \in Lens
           /\ keyUsable' \in BOOLEAN /\ cfgMutexHeld' \in BOOLEAN
  <1>1. InboxInv' /\ CommandsInOrder'
    BY DEF ChildInv, InboxInv, CommandsInOrder, lights
  <1>2. GetOpts' <=> GetOpts
    BY DEF GetOpts, TopicLen, ClientLen, DeviceLen, inputs
  <1>3. QED
    BY <1>1, <1>2 DEF ChildInv, TypeOK, lights, inputs

(* The steps of the child up to its exit.                                    *)
LEMMA ChildSession ==
    ASSUME ChildInv,
           \/ GetParams \/ sbc_mqtt_main \/ Connect \/ ConnectFails \/ Subscribe
           \/ SubscribeFails \/ PublishMessage \/ WaitForCompletion \/ Disconnect
    PROVE  ChildInv'
  <1>0. UNCHANGED <<lights, inputs>>
    BY DEF GetParams, sbc_mqtt_main, Connect, ConnectFails, Subscribe, SubscribeFails,
           PublishMessage, WaitForCompletion, Disconnect
  <1>1. /\ InboxInv' /\ CommandsInOrder' /\ (GetOpts' <=> GetOpts)
        /\ cmds' \in Seq(Command) /\ inbox' \in Seq(1..MaxCmd) /\ forwarded' \in Seq(LightPkt)
        /\ objType' \in {"CAR", "LIGHTS"} /\ lens' \in Lens
        /\ keyUsable' \in BOOLEAN /\ cfgMutexHeld' \in BOOLEAN
    BY <1>0, CommandsSame
  <1> USE DEF ChildInv, TypeOK, SessionInv, CodeInv, OptsInv, At, Goto, Exit
  <1>2. CASE GetParams
    BY <1>1, <1>2 DEF GetParams
  <1>3. CASE sbc_mqtt_main
    <2>1. \/ GetOpts /\ pc' = "connect" /\ UNCHANGED <<status, exitCode>>
          \/ status' = "exited" /\ exitCode' = "failure" /\ UNCHANGED pc
      BY <1>3, Zenon DEF sbc_mqtt_main
    <2>2. pc = "opts" /\ UNCHANGED <<connected, link, msg>>
      BY <1>3 DEF sbc_mqtt_main
    <2> HIDE DEF ChildInv
    <2>3. OptsInv'
      BY <1>1, <2>1, <2>2
    <2>4. QED
      BY <1>1, <2>1, <2>2, <2>3 DEF ChildInv
  <1>4. CASE Connect \/ ConnectFails
    <2>1. pc = "connect" /\ status = "running"
      BY <1>4 DEF Connect, ConnectFails
    <2>2. GetOpts /\ GetOpts'
      BY <1>1, <2>1
    <2>3. CASE Connect
      BY <1>1, <2>2, <2>3 DEF Connect
    <2>4. CASE ConnectFails
      BY <1>1, <2>2, <2>4 DEF ConnectFails
    <2>5. QED
      BY <1>4, <2>3, <2>4
  <1>5. CASE Subscribe \/ SubscribeFails
    BY <1>1, <1>5 DEF Subscribe, SubscribeFails
  <1>6. CASE PublishMessage
    BY <1>1, <1>6 DEF PublishMessage
  <1>7. CASE WaitForCompletion
    BY <1>1, <1>7 DEF WaitForCompletion, Completion
  <1>8. CASE Disconnect
    BY <1>1, <1>8 DEF Disconnect
  <1>9. QED
    BY <1>2, <1>3, <1>4, <1>5, <1>6, <1>7, <1>8

(* The broker and the network.                                               *)
LEMMA ChildNetwork ==
    ASSUME ChildInv, BrokerStores \/ PubAck \/ LinkLost \/ WaitLost \/ Killed
    PROVE  ChildInv'
  <1>0. UNCHANGED <<lights, inputs>>
    BY DEF BrokerStores, PubAck, LinkLost, WaitLost, Killed
  <1>1. /\ InboxInv' /\ CommandsInOrder' /\ (GetOpts' <=> GetOpts)
        /\ cmds' \in Seq(Command) /\ inbox' \in Seq(1..MaxCmd) /\ forwarded' \in Seq(LightPkt)
        /\ objType' \in {"CAR", "LIGHTS"} /\ lens' \in Lens
        /\ keyUsable' \in BOOLEAN /\ cfgMutexHeld' \in BOOLEAN
    BY <1>0, CommandsSame
  <1> USE DEF ChildInv, TypeOK, SessionInv, CodeInv, OptsInv, At
  <1>2. CASE BrokerStores
    BY <1>1, <1>2 DEF BrokerStores
  <1>3. CASE PubAck
    BY <1>1, <1>3 DEF PubAck
  <1>4. CASE LinkLost
    BY <1>1, <1>4 DEF LinkLost
  <1>5. CASE WaitLost
    BY <1>1, <1>5 DEF WaitLost
  <1>6. CASE Killed
    BY <1>1, <1>6 DEF Killed
  <1>7. QED
    BY <1>2, <1>3, <1>4, <1>5, <1>6

(* The parts of the state that the loop of a lights child leaves alone.      *)
LEMMA LoopSame ==
    ASSUME ChildInv, UNCHANGED <<inputs, pc, status, exitCode, msg>>,
           connected' \in BOOLEAN, link' \in BOOLEAN, connected' => connected, link' => link,
           cmds' \in Seq(Command), inbox' \in Seq(1..MaxCmd), forwarded' \in Seq(LightPkt)
    PROVE  TypeOK' /\ SessionInv' /\ CodeInv' /\ OptsInv'
  <1>1. GetOpts' <=> GetOpts
    BY DEF GetOpts, TopicLen, ClientLen, DeviceLen, inputs
  <1>2. OptsInv'
    BY <1>1 DEF ChildInv, OptsInv
  <1>3. SessionInv' /\ CodeInv'
    BY DEF ChildInv, SessionInv, CodeInv
  <1>4. TypeOK'
    BY DEF ChildInv, TypeOK, inputs
  <1>5. QED
    BY <1>2, <1>3, <1>4

(* Taking the oldest command out of the inbox.                               *)
LEMMA ChildReceives ==
    ASSUME ChildInv, ReceiveCommand
    PROVE  ChildInv'
  <1> DEFINE h == Head(inbox)
             n == Len(inbox)
             m == Len(forwarded)
  <1>0. UNCHANGED <<inputs, pc, status, exitCode, msg, connected, link, cmds>> /\ inbox' = Tail(inbox)
        /\ inbox # <<>>
    BY DEF ReceiveCommand
  <1>1. /\ inbox \in Seq(1..MaxCmd) /\ cmds \in Seq(Command) /\ forwarded \in Seq(LightPkt)
        /\ connected \in BOOLEAN /\ link \in BOOLEAN
    BY DEF ChildInv, TypeOK
  <1>2. n \in Nat /\ n # 0 /\ DOMAIN inbox = 1..n /\ m \in Nat /\ DOMAIN forwarded = 1..m
        /\ Len(cmds) \in Nat /\ DOMAIN cmds = 1..Len(cmds)
    <2>1. n # 0
      BY <1>0, <1>1, EmptySeq
    <2>2. QED
      BY <1>1, <2>1, LenProperties
  <1>3. /\ Tail(inbox) \in Seq(1..MaxCmd) /\ Len(Tail(inbox)) = n - 1 /\ h = inbox[1]
        /\ \A i \in 1..(n - 1) : Tail(inbox)[i] = inbox[i + 1]
        /\ h \in 1..MaxCmd
    <2>1. /\ Head(inbox) \in 1..MaxCmd /\ Tail(inbox) \in Seq(1..MaxCmd)
          /\ Len(Tail(inbox)) = Len(inbox) - 1
          /\ \A i \in 1..Len(Tail(inbox)) : Tail(inbox)[i] = inbox[i + 1]
      BY <1>0, <1>1, HeadTailProperties
    <2>2. Head(inbox) = inbox[1]
      BY <1>1
    <2>3. QED
      BY <2>1, <2>2
  <1>4. DOMAIN inbox' = 1..(n - 1) /\ inbox' \in Seq(1..MaxCmd)
    BY <1>0, <1>3, LenProperties
  <1>5. \A i \in 1..(n - 1) : i + 1 \in 1..n /\ 1 < i + 1 /\ inbox'[i] = inbox[i + 1]
    BY <1>0, <1>2, <1>3
  <1>6. 1 \in 1..n
    BY <1>2
  <1>i. InboxInv
    BY DEF ChildInv
  <1> HIDE DEF n, m, h
  <1>7. h <= Len(cmds) /\ \A i \in DOMAIN forwarded : forwarded[i].n < h
    BY <1>2, <1>3, <1>6, <1>i DEF InboxInv
  <1>8. \A i \in DOMAIN inbox' : h < inbox'[i] /\ inbox'[i] <= Len(cmds)
    BY <1>2, <1>3, <1>4, <1>5, <1>6, <1>i DEF InboxInv
  <1>9. \A i, j \in DOMAIN inbox' : i < j => inbox'[i] < inbox'[j]
    <2> SUFFICES ASSUME NEW i \in 1..(n - 1), NEW j \in 1..(n - 1), i < j
                 PROVE  inbox'[i] < inbox'[j]
      BY <1>4
    <2>1. i + 1 < j + 1
      BY <1>2
    <2>2. QED
      BY <1>2, <1>5, <1>i, <2>1 DEF InboxInv
  <1>10. \A i \in DOMAIN forwarded, j \in DOMAIN inbox' : forwarded[i].n < inbox'[j]
    BY <1>2, <1>4, <1>5, <1>i DEF InboxInv
  <1>11. CASE UNCHANGED forwarded
    <2>1. InboxInv'
      BY <1>0, <1>8, <1>9, <1>10, <1>11, <1>i DEF InboxInv
    <2>2. CommandsInOrder'
      BY <1>0, <1>11 DEF ChildInv, CommandsInOrder
    <2>3. TypeOK' /\ SessionInv' /\ CodeInv' /\ OptsInv'
      BY <1>0, <1>1, <1>4, <1>11, LoopSame
    <2>4. QED
      BY <2>1, <2>2, <2>3 DEF ChildInv
  <1>12. ASSUME cmds[h].id \in DOMAIN SbcIdOf, forwarded' = Append(forwarded, OutPkt(h))
         PROVE  ChildInv'
    <2> DEFINE o == OutPkt(h)
    <2>1. h \in DOMAIN cmds
      BY <1>2, <1>3, <1>7
    <2>2. cmds[h] \in Command
      BY <1>1, <1>2, <2>1, ElementOfSeq
    <2>3. cmds[h].status \in Status
      BY <2>2 DEF Command
    <2>4. o \in LightPkt /\ o.n = h /\ o.sbcid = SbcIdOf[cmds[h].id] /\ o.status = cmds[h].status
      BY <1>3, <1>12, <2>3 DEF OutPkt, LightPkt
    <2> HIDE DEF o
    <2>5. /\ forwarded' \in Seq(LightPkt) /\ Len(forwarded') = m + 1
          /\ \A i \in 1..m : forwarded'[i] = forwarded[i]
          /\ forwarded'[m + 1] = o
      BY <1>1, <1>12, <2>4, AppendProperties DEF m, o
    <2>6. DOMAIN forwarded' = 1..(m + 1) /\ \A i \in 1..(m + 1) : i \in 1..m \/ i = m + 1
      BY <1>2, <2>5, LenProperties
    <2>7. InboxInv'
      <3>1. \A i \in 1..(m + 1) : forwarded'[i].n <= Len(cmds)
        BY <1>2, <1>7, <1>i, <2>4, <2>5, <2>6 DEF InboxInv
      <3>2. \A i \in 1..(m + 1), j \in DOMAIN inbox' : forwarded'[i].n < inbox'[j]
        BY <1>2, <1>8, <1>10, <2>4, <2>5, <2>6
      <3>3. QED
        BY <1>0, <1>8, <1>9, <2>6, <3>1, <3>2 DEF InboxInv
    <2>8. CommandsInOrder'
      <3> SUFFICES ASSUME NEW i \in 1..(m + 1)
                   PROVE  /\ cmds[forwarded'[i].n].id \in DOMAIN SbcIdOf
                          /\ forwarded'[i].sbcid = SbcIdOf[cmds[forwarded'[i].n].id]
                          /\ forwarded'[i].status = cmds[forwarded'[i].n].status
                          /\ \A j \in 1..(i - 1) : forwarded'[j].n < forwarded'[i].n
        BY <1>0, <2>6 DEF CommandsInOrder
      <3>1. CASE i \in 1..m
        <4>1. \A j \in 1..(i - 1) : j \in 1..m
          BY <1>2, <3>1
        <4>2. QED
          BY <1>2, <2>5, <3>1, <4>1 DEF ChildInv, CommandsInOrder
      <3>2. CASE i = m + 1
        <4>1. \A j \in 1..(i - 1) : j \in 1..m
          BY <1>2, <3>2
        <4>2. QED
          BY <1>2, <1>7, <1>12, <2>4, <2>5, <3>2, <4>1
      <3>3. QED
        BY <2>6, <3>1, <3>2
    <2>9. TypeOK' /\ SessionInv' /\ CodeInv' /\ OptsInv'
      BY <1>0, <1>1, <1>4, <2>5, LoopSame
    <2>10. QED
      BY <2>7, <2>8, <2>9 DEF ChildInv
  <1>13. QED
    BY <1>11, <1>12 DEF ReceiveCommand, h

(* The cloud's next command is behind all others.                            *)
LEMMA ChildCommanded ==
    ASSUME ChildInv, NEW c \in Command, CloudCommand(c)
    PROVE  ChildInv'
  <1> DEFINE n == Len(cmds)
             k == Len(inbox)
  <1>0. /\ UNCHANGED <<inputs, pc, status, exitCode, msg, connected, link, forwarded>>
        /\ n < MaxCmd /\ cmds' = Append(cmds, c)
        /\ inbox' = inbox \/ inbox' = Append(inbox, n + 1)
    BY DEF CloudCommand
  <1>1. /\ inbox \in Seq(1..MaxCmd) /\ cmds \in Seq(Command) /\ forwarded \in Seq(LightPkt)
        /\ connected \in BOOLEAN /\ link \in BOOLEAN
    BY DEF ChildInv, TypeOK
  <1>2. n \in Nat /\ k \in Nat /\ DOMAIN inbox = 1..k /\ DOMAIN cmds = 1..n
        /\ DOMAIN forwarded = 1..Len(forwarded)
        /\ (\A i \in DOMAIN inbox : inbox[i] \in 1..MaxCmd)
        /\ \A i \in DOMAIN forwarded : forwarded[i] \in LightPkt
    BY <1>1, LenProperties, ElementOfSeq
  <1>n. \A i \in DOMAIN forwarded : forwarded[i].n \in 1..MaxCmd
    BY <1>2 DEF LightPkt
  <1>m. MaxCmd \in Nat
    BY PublishAssumption
  <1>3. /\ cmds' \in Seq(Command) /\ Len(cmds') = n + 1
        /\ \A i \in 1..n : cmds'[i] = cmds[i]
    BY <1>0, <1>1, AppendProperties
  <1>4. n + 1 \in 1..MaxCmd
    BY <1>0, <1>2, <1>m
  <1>i. InboxInv
    BY DEF ChildInv
  <1> HIDE DEF n, k
  <1>f. \A i \in DOMAIN forwarded : forwarded[i].n \in 1..n /\ forwarded[i].n < n + 1
    BY <1>2, <1>m, <1>n, <1>i DEF InboxInv, n
  <1>b. \A i \in DOMAIN inbox : inbox[i] <= n /\ inbox[i] < n + 1 /\ inbox[i] <= n + 1
    BY <1>2, <1>m, <1>i DEF InboxInv, n
  <1>5. CommandsInOrder'
    BY <1>0, <1>3, <1>f DEF ChildInv, CommandsInOrder
  <1>6. inbox' \in Seq(1..MaxCmd) /\ InboxInv'
    <2>1. CASE inbox' = inbox
      BY <1>0, <1>1, <1>2, <1>3, <1>b, <1>f, <1>i, <2>1 DEF InboxInv
    <2>2. CASE inbox' = Append(inbox, n + 1)
      <3>1. /\ inbox' \in Seq(1..MaxCmd) /\ Len(inbox') = k + 1
            /\ \A i \in 1..k : inbox'[i] = inbox[i]
            /\ inbox'[k + 1] = n + 1
        BY <1>1, <1>4, <2>2, AppendProperties DEF k
      <3>2. DOMAIN inbox' = 1..(k + 1) /\ \A i \in 1..(k + 1) : i \in 1..k \/ i = k + 1
        BY <1>2, <3>1, LenProperties
      <3>3. \A i \in DOMAIN inbox' : inbox'[i] <= n + 1
        BY <1>2, <1>b, <3>1, <3>2
      <3>4. \A i, j \in DOMAIN inbox' : i < j => inbox'[i] < inbox'[j]
        <4> SUFFICES ASSUME NEW i \in 1..(k + 1), NEW j \in 1..(k + 1), i < j
                     PROVE  inbox'[i] < inbox'[j]
          BY <3>2
        <4>1. i \in 1..k
          BY <1>2
        <4>2. CASE j \in 1..k
          BY <1>2, <1>i, <3>1, <4>1, <4>2 DEF InboxInv
        <4>3. CASE j = k + 1
          BY <1>2, <1>b, <3>1, <4>1, <4>3
        <4>4. QED
          BY <3>2, <4>2, <4>3
      <3>5. \A i \in DOMAIN forwarded, j \in DOMAIN inbox' : forwarded[i].n < inbox'[j]
        BY <1>2, <1>f, <1>i, <3>1, <3>2 DEF InboxInv
      <3>6. \A i \in DOMAIN forwarded : forwarded[i].n <= n + 1
        BY <1>2, <1>f
      <3>7. QED
        BY <1>0, <1>3, <3>1, <3>3, <3>4, <3>5, <3>6 DEF InboxInv
    <2>3. QED
      BY <1>0, <2>1, <2>2 DEF n
  <1>7. TypeOK' /\ SessionInv' /\ CodeInv' /\ OptsInv'
    BY <1>0, <1>1, <1>3, <1>6, LoopSame
  <1>8. QED
    BY <1>5, <1>6, <1>7 DEF ChildInv

(* Every step of the child and of its environment.                           *)
LEMMA ChildNext == ChildInv /\ [Next]_vars => ChildInv'
  <1> SUFFICES ASSUME ChildInv, [Next]_vars PROVE ChildInv'
    OBVIOUS
  <1>s. ASSUME UNCHANGED vars PROVE ChildInv'
    <2>1. UNCHANGED <<lights, inputs>> /\ UNCHANGED <<pc, status, exitCode, connected, link, msg>>
      BY <1>s DEF vars
    <2>2. InboxInv' /\ CommandsInOrder'
      BY <2>1, CommandsSame
    <2>3. TypeOK' /\ SessionInv' /\ CodeInv' /\ OptsInv'
      BY <2>1, LoopSame DEF ChildInv, TypeOK, lights
    <2>4. QED
      BY <2>2, <2>3 DEF ChildInv
  <1>1. CASE \/ GetParams \/ sbc_mqtt_main \/ Connect \/ ConnectFails \/ Subscribe
             \/ SubscribeFails \/ PublishMessage \/ WaitForCompletion \/ Disconnect
    BY <1>1, ChildSession
  <1>2. CASE ReceiveCommand
    BY <1>2, ChildReceives
  <1>3. CASE ReceiveLost
    <2>1. /\ UNCHANGED <<inputs, pc, status, exitCode, msg, link, cmds, forwarded>>
          /\ connected' = FALSE /\ inbox' = <<>>
      BY <1>3 DEF ReceiveLost
    <2>2. DOMAIN inbox' = {} /\ inbox' \in Seq(1..MaxCmd)
      BY <2>1
    <2>3. InboxInv' /\ CommandsInOrder'
      BY <2>1, <2>2 DEF ChildInv, InboxInv, CommandsInOrder
    <2>4. TypeOK' /\ SessionInv' /\ CodeInv' /\ OptsInv'
      BY <2>1, <2>2, LoopSame DEF ChildInv, TypeOK
    <2>5. QED
      BY <2>3, <2>4 DEF ChildInv
  <1>4. CASE ReceiveNothing
    BY <1>4, <1>s DEF ReceiveNothing
  <1>5. CASE BrokerStores \/ PubAck \/ LinkLost \/ WaitLost \/ Killed
    BY <1>5, ChildNetwork
  <1>6. ASSUME NEW c \in Command, CloudCommand(c)
        PROVE  ChildInv'
    BY <1>6, ChildCommanded
  <1>7. QED
    BY <1>s, <1>1, <1>2, <1>3, <1>4, <1>5, <1>6 DEF Next, child, environment

(* The child's state is well-typed: what it exits with is always a code it   *)
(* set, and what it forwards is a packet for a known object.                 *)
THEOREM ChildTypeCorrect == Spec => []TypeOK
  <1>1. ChildInv => TypeOK
    BY DEF ChildInv
  <1>2. QED
    BY <1>1, ChildInit, ChildNext, PTL DEF Spec

(* Although Publish ignores the result of MQTTClient_publishMessage, an exit *)
(* code of success means that the broker has acknowledged the group.         *)
THEOREM SuccessCorrect == Spec => []SuccessMeansStored
  <1>1. ChildInv => SuccessMeansStored
    BY DEF ChildInv, CodeInv, SuccessMeansStored
  <1>2. QED
    BY <1>1, ChildInit, ChildNext, PTL DEF Spec

(* A child that has exited has no open session at the broker.                *)
THEOREM DisconnectCorrect == Spec => []ExitsDisconnected
  <1>1. ChildInv => ExitsDisconnected
    BY DEF ChildInv, SessionInv, ExitsDisconnected
  <1>2. QED
    BY <1>1, ChildInit, ChildNext, PTL DEF Spec

(* GetOpts' test for the topic is off by one, but for ids of any lengths its *)
(* test for the client id refuses every topic that would have been cut.      *)
THEOREM TopicCorrect == Spec => []TopicWhole
  <1>1. ChildInv => TopicWhole
    <2> SUFFICES ASSUME ChildInv, pc \notin {"params", "opts"}
                 PROVE  TopicLen < topic_size
      BY DEF TopicWhole
    <2>1. ClientLen <= clientid_maxlen
      BY DEF ChildInv, OptsInv, GetOpts
    <2>2. lens.project \in Nat \ {0} /\ lens.region \in Nat \ {0} /\ lens.registry \in Nat \ {0}
          /\ lens.device \in Nat \ {0}
      BY PublishAssumption DEF ChildInv, TypeOK, Lens
    <2>3. DeviceLen \in Nat
      BY <2>2 DEF DeviceLen
    <2>4. QED
      BY <2>1, <2>2, <2>3 DEF ClientLen, clientid_maxlen, TopicLen, topic_size
  <1>2. QED
    BY <1>1, ChildInit, ChildNext, PTL DEF Spec

(* The lights get the cloud's commands in their order, none twice and each   *)
(* for the object it named, however often the connection breaks.             *)
THEOREM CommandsCorrect == Spec => []CommandsInOrder
  <1>1. ChildInv => CommandsInOrder
    BY DEF ChildInv
  <1>2. QED
    BY <1>1, ChildInit, ChildNext, PTL DEF Spec

===============================================================================
