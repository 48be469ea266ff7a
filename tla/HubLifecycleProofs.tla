-------------------------- MODULE HubLifecycleProofs --------------------------
(* Proofs about HubLifecycle, for a socket buffer of any size.                *)
EXTENDS HubLifecycle, TLAPS

(* Where main still is without the data processor's thread, without the UDP  *)
(* server's.                                                                 *)
BeforeProcessor == {"manager", "sigaction", "processor", "stopMgr", "joinMgr"}
BeforeServer    == BeforeProcessor \cup {"bind", "thread"}

(* Which threads there can be is known from where main is; the UDP thread    *)
(* has a processor, or main is just about to assign it.                      *)
ThreadsFollowMain ==
    /\ mainPc \in BeforeProcessor => thread["data"] = "none"
    /\ mainPc \in BeforeServer => thread["udp"] = "none"
    /\ thread["udp"] # "none" => dataProcessor_ \/ mainPc = "assign"

(* A status is returned only before the manager's thread is started, or      *)
(* behind its join.                                                          *)
FailureJoined ==
    /\ status = "failure" => \/ mainPc = "manager"
                             \/ mainPc = "joinMgr" /\ thread["mgr"] = "ended"
    /\ mainPc = "manager" => thread["mgr"] = "none"

LifeInv == TypeOK /\ ThreadsFollowMain /\ FailureJoined /\ NullOnlyDuringCreate

(* main starts alone.                                                        *)
LEMMA LifeInit == Init => LifeInv
  <1> SUFFICES ASSUME Init PROVE LifeInv
    OBVIOUS
  <1>1. inbox \in Seq(Datagram) /\ Len(inbox) <= MaxInbox
    BY InboxAssumption DEF Init
  <1>2. \A w \in Worker : thread[w] = "none"
    BY DEF Init
  <1>3. TypeOK
    BY <1>1 DEF Init, TypeOK
  <1>4. QED
    BY <1>2, <1>3 DEF Init, LifeInv, ThreadsFollowMain, FailureJoined, NullOnlyDuringCreate, Worker

(* The steps of main.                                                        *)
LEMMA LifeMain ==
    ASSUME LifeInv, main
    PROVE  LifeInv'
  <1> USE DEF LifeInv, ThreadsFollowMain, FailureJoined, NullOnlyDuringCreate, BeforeProcessor,
              BeforeServer, TypeOK, At, Goto, Die, flags, data
  <1>w. {"mgr", "data", "udp"} = Worker
    BY DEF Worker
  <1>1. CASE CreateManager
    BY <1>1, <1>w DEF CreateManager, StartThread
  <1>2. CASE RegisterHandler
    BY <1>2 DEF RegisterHandler
  <1>3. CASE CreateProcessor
    BY <1>3, <1>w DEF CreateProcessor, StartThread
  <1>4. CASE BindSocket
    BY <1>4 DEF BindSocket
  <1>5. CASE StartServer
    BY <1>5, <1>w DEF StartServer, StartThread
  <1>6. CASE AssignProcessor
    BY <1>6 DEF AssignProcessor
  <1>7. CASE LeaveLoop \/ ReleaseManager
    BY <1>7 DEF LeaveLoop, ReleaseManager
  <1>8. CASE StopServer \/ JoinServer
    BY <1>8 DEF StopServer, JoinServer
  <1>9. CASE DropProcessor
    BY <1>9 DEF DropProcessor
  <1>10. CASE StopManager \/ JoinManager
    BY <1>10 DEF StopManager, JoinManager
  <1>11. QED
    BY <1>1, <1>2, <1>3, <1>4, <1>5, <1>6, <1>7, <1>8, <1>9, <1>10 DEF main

(* The steps of the worker threads and of the network.                       *)
LEMMA LifeWorkers ==
    ASSUME LifeInv, ManagerEnds \/ TakePacket \/ udpServer \/ SocketFails
                    \/ \E d \in Datagram : Arrive(d)
    PROVE  LifeInv'
  <1> USE DEF LifeInv, ThreadsFollowMain, FailureJoined, NullOnlyDuringCreate, BeforeProcessor,
              BeforeServer, TypeOK, Running, flags, data
  <1>w. {"mgr", "data", "udp"} = Worker
    BY DEF Worker
  <1>t. inbox # <<>> => Tail(inbox) \in Seq(Datagram) /\ Len(Tail(inbox)) <= MaxInbox
    BY InboxAssumption
  <1>1. CASE ManagerEnds
    BY <1>1, <1>w DEF ManagerEnds
  <1>2. CASE TakePacket
    BY <1>2 DEF TakePacket
  <1>3. CASE ServerEnds
    BY <1>3, <1>w DEF ServerEnds
  <1>4. CASE ReadEmpty
    BY <1>4, <1>t, <1>w DEF ReadEmpty, ServerError
  <1>5. CASE ReadOther
    BY <1>5, <1>t DEF ReadOther
  <1>6. CASE ReadJson
    BY <1>6, <1>t, <1>w DEF ReadJson
  <1>7. CASE SocketFails
    BY <1>7, <1>w DEF SocketFails, ServerError
  <1>8. ASSUME NEW d \in Datagram, Arrive(d)
        PROVE  LifeInv'
    <2>1. inbox' \in Seq(Datagram) /\ Len(inbox') = Len(inbox) + 1
      BY <1>8 DEF Arrive
    <2>2. Len(inbox') <= MaxInbox
      BY <1>8, <2>1, InboxAssumption DEF Arrive
    <2>3. QED
      BY <1>8, <2>1, <2>2 DEF Arrive
  <1>9. QED
    BY <1>1, <1>2, <1>3, <1>4, <1>5, <1>6, <1>7, <1>8 DEF udpServer

(* Every step of the program.                                                *)
LEMMA LifeNext == LifeInv /\ [Next]_vars => LifeInv'
  <1> SUFFICES ASSUME LifeInv, [Next]_vars PROVE LifeInv'
    OBVIOUS
  <1>1. CASE UNCHANGED vars
    BY <1>1 DEF LifeInv, TypeOK, ThreadsFollowMain, FailureJoined, NullOnlyDuringCreate, vars,
                flags, data
  <1>2. QED
    BY <1>1, LifeMain, LifeWorkers DEF Next

(* Type correctness; in particular the processor never takes a packet from   *)
(* an empty queue and the socket holds no more than its buffer.              *)
THEOREM LifeTypeCorrect == Spec => []TypeOK
  <1>1. LifeInv => TypeOK
    BY DEF LifeInv
  <1>2. QED
    BY <1>1, LifeInit, LifeNext, PTL DEF Spec

(* readUdpPkt calls through a null processor only while UdpServer::create    *)
(* has not yet assigned it: once main is past create, never again.           *)
THEOREM NullCorrect == Spec => []NullOnlyDuringCreate
  <1>1. LifeInv => NullOnlyDuringCreate
    BY DEF LifeInv
  <1>2. QED
    BY <1>1, LifeInit, LifeNext, PTL DEF Spec

(* When main returns a status, a thread it may have started has been joined. *)
THEOREM ExitCorrect == Spec => []NoThreadOutlivesExit
  <1>1. LifeInv => NoThreadOutlivesExit
    BY DEF LifeInv, ThreadsFollowMain, FailureJoined, NoThreadOutlivesExit, BeforeProcessor,
           BeforeServer, Worker
  <1>2. QED
    BY <1>1, LifeInit, LifeNext, PTL DEF Spec

===============================================================================
