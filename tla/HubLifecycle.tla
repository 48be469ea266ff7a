----------------------------- MODULE HubLifecycle -----------------------------
(***************************************************************************)
(* How CloudHub starts and ends: main (main.cpp) creates the manager, the  *)
(* data processor and the UDP server, each with its thread, waits in its   *)
(* loop for an error of the UDP server, and then unwinds.  UdpServer       *)
(* (udpServer.cpp) is modelled whole; of the manager and the processor     *)
(* only the life of their threads.  main begins with a loaded              *)
(* configuration (HubConfig).                                              *)
(***************************************************************************)
EXTENDS Naturals, Sequences

CONSTANTS MaxInbox    \* bound: datagrams that wait in the socket

ASSUME InboxAssumption == MaxInbox \in Nat

Worker == {"mgr", "data", "udp"}
Datagram == {"json", "other", "empty"}   \* {...}, anything else, no byte at all

VARIABLES
    mainPc,            \* where main is
    thread,            \* life of each worker thread
    dataProcessor_,    \* the member of UdpServer is assigned
    loopTerminateFlag, \* of UdpServer
    terminateRequestedFlag, \* of MqttMsgManager
    errorStateFlag,    \* of UdpServer
    inbox,             \* datagrams in the socket
    rawPackets,        \* packets given to the data processor and not yet taken
    status             \* of the process: alive, or how it ended

flags == <<dataProcessor_, loopTerminateFlag, terminateRequestedFlag, errorStateFlag>>
data  == <<inbox, rawPackets>>
vars  == <<mainPc, thread, flags, data, status>>

TypeOK ==
    /\ mainPc \in {"manager", "sigaction", "processor", "bind", "thread", "assign", "loop",
                   "release", "stopUdp", "joinUdp", "dropProcessor", "stopMgr", "joinMgr"}
    /\ thread \in [Worker -> {"none", "running", "leaving", "ended"}]
    /\ dataProcessor_ \in BOOLEAN /\ loopTerminateFlag \in BOOLEAN
    /\ terminateRequestedFlag \in BOOLEAN /\ errorStateFlag \in BOOLEAN
    /\ inbox \in Seq(Datagram) /\ Len(inbox) <= MaxInbox
    /\ rawPackets \in Nat
    /\ status \in {"alive", "failure", "abort", "segv"}

Init ==
    /\ mainPc = "manager"
    /\ thread = [w \in Worker |-> "none"]
    /\ dataProcessor_ = FALSE /\ loopTerminateFlag = FALSE
    /\ terminateRequestedFlag = FALSE /\ errorStateFlag = FALSE
    /\ inbox = <<>>
    /\ rawPackets = 0
    /\ status = "alive"

At(pc) == status = "alive" /\ mainPc = pc
Goto(pc) == mainPc' = pc /\ UNCHANGED status
Die(how) == status' = how /\ UNCHANGED mainPc

(* std::thread's constructor starts the thread or throws; nobody catches.   *)
StartThread(w, next) ==
    \/ Goto(next) /\ thread' = [thread EXCEPT ![w] = "running"]
    \/ Die("abort") /\ UNCHANGED thread

-----------------------------------------------------------------------------
(* main, from MqttMsgManager::create to its loop                            *)

(* MqttMsgManager::create gives nullptr if the clock cannot be read.        *)
CreateManager ==
    /\ At("manager")
    /\ \/ StartThread("mgr", "sigaction")
       \/ Die("failure") /\ UNCHANGED thread
    /\ UNCHANGED <<flags, data>>

RegisterHandler ==
    /\ At("sigaction")
    /\ Goto("processor") \/ Goto("stopMgr")
    /\ UNCHANGED <<thread, flags, data>>

CreateProcessor == At("processor") /\ StartThread("data", "bind") /\ UNCHANGED <<flags, data>>

(* UdpServer::runInstance: socket and bind, which may fail.                 *)
BindSocket ==
    /\ At("bind")
    /\ Goto("thread") \/ Goto("dropProcessor")
    /\ UNCHANGED <<thread, flags, data>>

StartServer == At("thread") /\ StartThread("udp", "assign") /\ UNCHANGED <<flags, data>>

(* Mutant: the member is never assigned.                                    *)
AssignProcessor_Forgotten ==
    /\ At("assign")
    /\ Goto("loop")
    /\ UNCHANGED <<thread, flags, data>>

(* UdpServer::create assigns the member while its thread already runs.      *)
AssignProcessor ==
    /\ At("assign")
    /\ dataProcessor_' = TRUE
    /\ Goto("loop")
    /\ UNCHANGED <<thread, loopTerminateFlag, terminateRequestedFlag, errorStateFlag, data>>

-----------------------------------------------------------------------------
(* main's loop, as far as the end of the program is concerned               *)
LeaveLoop ==
    /\ At("loop") /\ errorStateFlag
    /\ Goto("release")
    /\ UNCHANGED <<thread, flags, data>>

(* mqttMsgManager = nullptr: the data processor still holds the manager.    *)
ReleaseManager ==
    /\ At("release")
    /\ Goto("stopUdp")
    /\ UNCHANGED <<thread, flags, data>>

(* ~UdpServer                                                               *)
StopServer ==
    /\ At("stopUdp")
    /\ loopTerminateFlag' = TRUE
    /\ Goto("joinUdp")
    /\ UNCHANGED <<thread, dataProcessor_, terminateRequestedFlag, errorStateFlag, data>>

JoinServer ==
    /\ At("joinUdp") /\ thread["udp"] = "ended"
    /\ Goto("dropProcessor")
    /\ UNCHANGED <<thread, flags, data>>

(* ClusterDataProcessor has no destructor of its own: the one of its member *)
(* th finds a thread that was not joined and calls std::terminate.          *)
DropProcessor == At("dropProcessor") /\ Die("abort") /\ UNCHANGED <<thread, flags, data>>

(* return EXIT_FAILURE after a failed sigaction: the global manager is      *)
(* destroyed, ~MqttMsgManager stops and joins its thread.                   *)
StopManager ==
    /\ At("stopMgr")
    /\ terminateRequestedFlag' = TRUE
    /\ Goto("joinMgr")
    /\ UNCHANGED <<thread, dataProcessor_, loopTerminateFlag, errorStateFlag, data>>

(* Mutant: the manager's thread is not waited for.                          *)
JoinManager_NotWaiting == At("joinMgr") /\ Die("failure") /\ UNCHANGED <<thread, flags, data>>

JoinManager ==
    /\ At("joinMgr") /\ thread["mgr"] = "ended"
    /\ Die("failure")
    /\ UNCHANGED <<thread, flags, data>>

main ==
    \/ CreateManager \/ RegisterHandler \/ CreateProcessor \/ BindSocket \/ StartServer
    \/ AssignProcessor \/ LeaveLoop \/ ReleaseManager \/ StopServer \/ JoinServer
    \/ DropProcessor \/ StopManager \/ JoinManager

-----------------------------------------------------------------------------
Running(w) == status = "alive" /\ thread[w] = "running"

(* MqttMsgManager::serverLoop sees the request.                             *)
ManagerEnds ==
    /\ Running("mgr") /\ terminateRequestedFlag
    /\ thread' = [thread EXCEPT !["mgr"] = "ended"]
    /\ UNCHANGED <<mainPc, flags, data, status>>

(* Mutant: the queue is not tested for being empty.                         *)
TakePacket_Unchecked ==
    /\ Running("data")
    /\ rawPackets' = rawPackets - 1
    /\ UNCHANGED <<mainPc, thread, flags, inbox, status>>

(* ClusterDataProcessor::serverLoop takes a packet; it is never told to end. *)
TakePacket ==
    /\ Running("data") /\ rawPackets > 0
    /\ rawPackets' = rawPackets - 1
    /\ UNCHANGED <<mainPc, thread, flags, inbox, status>>

(* UdpServer::serverLoop ends after an error, or when it is told to.        *)
ServerEnds ==
    /\ status = "alive"
    /\ thread["udp"] = "leaving" \/ (thread["udp"] = "running" /\ loopTerminateFlag)
    /\ thread' = [thread EXCEPT !["udp"] = "ended"]
    /\ UNCHANGED <<mainPc, flags, data, status>>

ServerError ==
    /\ errorStateFlag' = TRUE
    /\ thread' = [thread EXCEPT !["udp"] = "leaving"]
    /\ UNCHANGED <<mainPc, dataProcessor_, loopTerminateFlag, terminateRequestedFlag, status>>

(* select fails, or recv does on a datagram.                                *)
SocketFails ==
    /\ Running("udp") /\ ~loopTerminateFlag
    /\ ServerError
    /\ UNCHANGED data

(* Mutant: the loop is left without the error flag.                         *)
ReadEmpty_Silent ==
    /\ Running("udp") /\ ~loopTerminateFlag
    /\ inbox # <<>> /\ Head(inbox) = "empty"
    /\ inbox' = Tail(inbox)
    /\ thread' = [thread EXCEPT !["udp"] = "leaving"]
    /\ UNCHANGED <<mainPc, flags, rawPackets, status>>

(* readUdpPkt: recv returns 0.                                              *)
ReadEmpty ==
    /\ Running("udp") /\ ~loopTerminateFlag
    /\ inbox # <<>> /\ Head(inbox) = "empty"
    /\ inbox' = Tail(inbox)
    /\ ServerError
    /\ UNCHANGED rawPackets

(* readUdpPkt: only what begins and ends with a brace goes on.              *)
ReadOther ==
    /\ Running("udp") /\ ~loopTerminateFlag
    /\ inbox # <<>> /\ Head(inbox) = "other"
    /\ inbox' = Tail(inbox)
    /\ UNCHANGED <<mainPc, thread, flags, rawPackets, status>>

(* readUdpPkt: without a data processor this is a call through nullptr.     *)
ReadJson ==
    /\ Running("udp") /\ ~loopTerminateFlag
    /\ inbox # <<>> /\ Head(inbox) = "json"
    /\ inbox' = Tail(inbox)
    /\ IF dataProcessor_ THEN rawPackets' = rawPackets + 1 /\ UNCHANGED status
                         ELSE status' = "segv" /\ UNCHANGED rawPackets
    /\ UNCHANGED <<mainPc, thread, flags>>

udpServer == ServerEnds \/ ReadEmpty \/ ReadOther \/ ReadJson

(* A datagram arrives at the bound socket.                                  *)
Arrive(d) ==
    /\ status = "alive"
    /\ mainPc \notin {"manager", "sigaction", "processor", "bind", "dropProcessor",
                      "stopMgr", "joinMgr"}
    /\ Len(inbox) + rawPackets < MaxInbox
    /\ inbox' = Append(inbox, d)
    /\ UNCHANGED <<mainPc, thread, flags, rawPackets, status>>

Next ==
    \/ main
    \/ ManagerEnds
    \/ TakePacket
    \/ udpServer \/ SocketFails
    \/ \E d \in Datagram : Arrive(d)

Spec == Init /\ [][Next]_vars

(* Every thread is scheduled; datagrams and errors need not come.           *)
FairSpec ==
    /\ Spec
    /\ WF_vars(main) /\ WF_vars(udpServer) /\ WF_vars(ManagerEnds) /\ WF_vars(TakePacket)

-----------------------------------------------------------------------------
(* Properties *)

(* main.cpp, "if udp server loop error break man loop": a hub whose UDP     *)
(* thread has ended does not stay; main notices, and neither of the joins   *)
(* on the way out waits for ever.                                           *)
DeafHubEnds == thread["udp"] \in {"leaving", "ended"} ~> status # "alive"

(* UdpServer::create starts its thread before it assigns dataProcessor_;    *)
(* after create has returned no packet is given to a null processor.        *)
NullOnlyDuringCreate == status = "segv" => mainPc = "assign"

(* A program that returns a status has no thread left that could touch the  *)
(* destroyed objects.                                                       *)
NoThreadOutlivesExit ==
    status = "failure" => \A w \in Worker : thread[w] # "running"
===============================================================================
