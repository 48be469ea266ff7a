------------------------------ MODULE MsgManager ------------------------------
(***************************************************************************)
(* The sending half of CloudHub: MqttMsgManager (mqttMsgManager.cpp), the  *)
(* child processes it forks through MqttMsgInstance (mqttMsgInstance.cpp), *)
(* and the way a child's end travels back to it: the SIGCHLD handler and   *)
(* the double queue of main.cpp.                                           *)
(*                                                                         *)
(* Four threads live in the process: main, the manager's own thread, the   *)
(* UDP receiver and the data processor.  The two data threads appear here  *)
(* only as the source of addToDataQueue and as threads that a signal may   *)
(* interrupt.  A group is its object and the number of the group among     *)
(* those of that object; its payload, the child's exit code (it is only    *)
(* logged) and the wording of messages are abstracted.                     *)
(***************************************************************************)
EXTENDS Naturals, Sequences, SequencesExt, FiniteSets

CONSTANTS
    Obj,            \* object ids of the configuration
    Lights,         \* those of type MQTT_OBJ_TYPE_LIGTH
    MaxParallel,    \* maxParallelInstances_
    Pid,            \* process ids the kernel may give to a child
    NoPid,          \* the pid 0, an empty slot of waitChildPid
    HeapJunk,       \* what freshly allocated, uninitialised memory may hold
    HandlerThreads, \* threads in which the kernel may run the SIGCHLD handler
    PidReuse,       \* TRUE: a reaped pid may be given to another process
    MaxSeq          \* bound: groups produced per object

Threads == {"main", "mgr", "udp", "data"}

ASSUME ConstAssumption ==
    /\ Lights \subseteq Obj
    /\ MaxParallel \in Nat \ {0}
    /\ NoPid \notin Pid
    /\ HeapJunk # {} /\ HeapJunk \cap Pid = {}
    /\ HandlerThreads \subseteq Threads
    /\ PidReuse \in BOOLEAN
    /\ MaxSeq \in Nat

VARIABLES
    produced,          \* number of groups the data processor made, per object
    sent,              \* number of the group last given to a child, per object
    dataQueue,         \* groups handed over by addToDataQueue
    newGDataList,      \* the manager's private copy while it merges it
    internalDataQueue, \* at most one waiting group per object
    msgInProgress,     \* instances: object, child pid, timeout passed
    isLigthsPresent,   \* the static flag of mqttMsgManager.cpp
    mgrPc, it, lp,     \* control of the manager thread and its loop indices
    waitChildPid,      \* ended children reported to the manager
    gSigQueue, child_a, cnt_a, \* the double queue of main.cpp
    mainPc, mainI, mainCnt, mainPid, \* control and locals of main's loop
    hdl,               \* per thread: the SIGCHLD handler's control and locals
    procSt,            \* the kernel's view of each pid
    sigPending         \* a SIGCHLD is pending for the process

queueVars == <<produced, dataQueue, newGDataList>>
scanVars  == <<sent, internalDataQueue, isLigthsPresent, it>>
sigVars   == <<gSigQueue, child_a, cnt_a>>
mainVars  == <<mainPc, mainI, mainCnt, mainPid>>
kernVars  == <<procSt, sigPending>>
vars == <<queueVars, scanVars, msgInProgress, mgrPc, lp, waitChildPid,
          sigVars, mainVars, hdl, kernVars>>

-----------------------------------------------------------------------------
Group    == [obj: Obj, seq: Nat]
Instance == [obj: Obj, pid: Pid, late: BOOLEAN]
PidCell  == Pid \cup HeapJunk \cup {NoPid}
max_alen == 2 * MaxParallel
Idle     == [pc |-> "idle", pid |-> NoPid, q |-> 0, cnt |-> 0]
Free(t)  == hdl[t].pc = "idle"      \* thread t is not inside the handler

TypeOK ==
    /\ produced \in [Obj -> Nat]
    /\ sent \in [Obj -> Nat]
    /\ dataQueue \in Seq(Group)
    /\ newGDataList \in Seq(Group)
    /\ internalDataQueue \in Seq(Group)
    /\ msgInProgress \in Seq(Instance)
    /\ isLigthsPresent \in BOOLEAN
    /\ mgrPc \in {"take", "merge", "hangup", "clean", "scan"}
    /\ it \in Nat \ {0}
    /\ lp \in 1..MaxParallel
    /\ waitChildPid \in [1..MaxParallel -> PidCell]
    /\ gSigQueue \in {0, 1}
    /\ child_a \in [{0, 1} -> [0..(max_alen - 1) -> PidCell]]
    /\ cnt_a \in [{0, 1} -> 0..max_alen]
    /\ mainPc \in {"swap", "read", "signal", "store"}
    /\ mainI \in 0..max_alen
    /\ mainCnt \in 0..max_alen
    /\ mainI <= mainCnt /\ (mainPc = "store" => mainI < mainCnt)
    /\ mainPid \in PidCell
    /\ hdl \in [Threads -> [pc: {"idle", "wait", "pick", "cnt", "store", "sel", "count"},
                            pid: Pid \cup {NoPid}, q: {0, 1}, cnt: 0..max_alen]]
    /\ procSt \in [Pid -> {"none", "run", "zombie", "gone", "foreign"}]
    /\ sigPending \in BOOLEAN

-----------------------------------------------------------------------------
(* main() up to its loop, with MqttMsgManager::create.  The pid arrays come *)
(* from malloc and new[] and are not cleared.                               *)
Init ==
    /\ produced = [o \in Obj |-> 0]
    /\ sent = [o \in Obj |-> 0]
    /\ dataQueue = <<>>
    /\ newGDataList = <<>>
    /\ internalDataQueue = <<>>
    /\ msgInProgress = <<>>
    /\ isLigthsPresent = FALSE
    /\ mgrPc = "take" /\ it = 1 /\ lp = 1
    /\ waitChildPid \in [1..MaxParallel -> HeapJunk]
    /\ gSigQueue = 0
    /\ child_a \in [{0, 1} -> [0..(max_alen - 1) -> HeapJunk]]
    /\ cnt_a = [q \in {0, 1} |-> 0]
    /\ mainPc = "swap" /\ mainI = 0 /\ mainCnt = 0 /\ mainPid = NoPid
    /\ hdl = [t \in Threads |-> Idle]
    /\ procSt = [p \in Pid |-> "none"]
    /\ sigPending = FALSE

-----------------------------------------------------------------------------
(* The data processor hands over its next group for o.                      *)
addToDataQueue(o) ==
    /\ Free("data")
    /\ produced[o] < MaxSeq
    /\ produced' = [produced EXCEPT ![o] = @ + 1]
    /\ dataQueue' = Append(dataQueue, [obj |-> o, seq |-> produced[o] + 1])
    /\ UNCHANGED <<newGDataList, scanVars, msgInProgress, mgrPc, lp, waitChildPid,
                   sigVars, mainVars, hdl, kernVars>>

(* moveDataQueueToInternal, the part under loopControlMutex.                *)
TakeDataQueue ==
    /\ mgrPc = "take" /\ Free("mgr")
    /\ newGDataList' = dataQueue
    /\ dataQueue' = <<>>
    /\ mgrPc' = IF dataQueue = <<>> THEN "hangup" ELSE "merge"
    /\ UNCHANGED <<produced, scanVars, msgInProgress, lp, waitChildPid,
                   sigVars, mainVars, hdl, kernVars>>

(* Mutant: the search for a waiting group never finds one.                  *)
QueuedAt_Never(o) == 0

(* Index of the queued group of object o, 0 if there is none.               *)
QueuedAt(o) == SelectInSeq(internalDataQueue, LAMBDA g : g.obj = o)

(* moveDataQueueToInternal, one turn of its loop: a newer group takes the   *)
(* place of the one that waits for the same object.                         *)
MergeGroup ==
    /\ mgrPc = "merge" /\ Free("mgr")
    /\ LET g == Head(newGDataList)
           i == QueuedAt(g.obj)
       IN internalDataQueue' = IF i = 0 THEN Append(internalDataQueue, g)
                                        ELSE [internalDataQueue EXCEPT ![i] = g]
    /\ newGDataList' = Tail(newGDataList)
    /\ mgrPc' = IF Tail(newGDataList) = <<>> THEN "hangup" ELSE "merge"
    /\ UNCHANGED <<produced, dataQueue, sent, isLigthsPresent, it, msgInProgress, lp,
                   waitChildPid, sigVars, mainVars, hdl, kernVars>>

(* Mutant: the test for lights instances is inverted.                       *)
HangupPids_OnlyLights ==
    {m.pid : m \in {n \in ToSet(msgInProgress) : n.obj \in Lights /\ n.late}}

(* The pids terminateHangupInstances sends SIGKILL to.                      *)
HangupPids == {m.pid : m \in {n \in ToSet(msgInProgress) : n.obj \notin Lights /\ n.late}}

(* Mutant: the slot is freed by the kill, before the child's end is seen.   *)
terminateHangupInstances_Erases ==
    /\ mgrPc = "hangup" /\ Free("mgr")
    /\ procSt' = [p \in Pid |->
                    IF p \in HangupPids /\ procSt[p] = "run" THEN "zombie" ELSE procSt[p]]
    /\ sigPending' = (sigPending \/ \E p \in HangupPids : procSt[p] = "run")
    /\ msgInProgress' = SelectSeq(msgInProgress, LAMBDA m : m.pid \notin HangupPids)
    /\ mgrPc' = "clean"
    /\ lp' = 1
    /\ UNCHANGED <<queueVars, scanVars, waitChildPid, sigVars, mainVars, hdl>>

(* SIGKILL: a child becomes a zombie and SIGCHLD is raised; another process *)
(* that has the pid dies; a pid that names nobody gives ESRCH.              *)
terminateHangupInstances ==
    /\ mgrPc = "hangup" /\ Free("mgr")
    /\ procSt' = [p \in Pid |->
                    IF p \in HangupPids /\ procSt[p] = "run" THEN "zombie"
                    ELSE IF p \in HangupPids /\ procSt[p] = "foreign" THEN "gone"
                    ELSE procSt[p]]
    /\ sigPending' = (sigPending \/ \E p \in HangupPids : procSt[p] = "run")
    /\ mgrPc' = "clean"
    /\ lp' = 1
    /\ UNCHANGED <<queueVars, scanVars, msgInProgress, waitChildPid, sigVars, mainVars, hdl>>

(* serverLoop after cleanCompletedMsgInstances: scan if a slot is free,     *)
(* else sleep and start over.                                               *)
AfterClean(inProgress) ==
    /\ mgrPc' = IF Len(inProgress) < MaxParallel THEN "scan" ELSE "take"
    /\ it' = 1

(* cleanCompletedMsgInstances with nothing in progress.                     *)
CleanAllSlots ==
    /\ mgrPc = "clean" /\ Free("mgr")
    /\ lp = 1 /\ msgInProgress = <<>>
    /\ waitChildPid' = [s \in 1..MaxParallel |-> NoPid]
    /\ AfterClean(msgInProgress)
    /\ UNCHANGED <<queueVars, sent, internalDataQueue, isLigthsPresent, msgInProgress, lp,
                   sigVars, mainVars, hdl, kernVars>>

(* cleanCompletedMsgInstances, one slot of its loop: the first instance     *)
(* with the reported pid is erased, an unknown pid is only logged.          *)
CleanSlot ==
    /\ mgrPc = "clean" /\ Free("mgr")
    /\ lp > 1 \/ msgInProgress # <<>>
    /\ LET i == SelectInSeq(msgInProgress, LAMBDA m : m.pid = waitChildPid[lp])
       IN msgInProgress' = IF i = 0 THEN msgInProgress ELSE RemoveAt(msgInProgress, i)
    /\ waitChildPid' = [waitChildPid EXCEPT ![lp] = NoPid]
    /\ IF lp < MaxParallel
       THEN lp' = lp + 1 /\ UNCHANGED <<mgrPc, it>>
       ELSE lp' = 1 /\ AfterClean(msgInProgress')
    /\ UNCHANGED <<queueVars, sent, internalDataQueue, isLigthsPresent,
                   sigVars, mainVars, hdl, kernVars>>

-----------------------------------------------------------------------------
(* The scan of internalDataQueue in serverLoop.                             *)
InProgress(o) == \E m \in ToSet(msgInProgress) : m.obj = o

(* Mutants: one of the two conditions is missing.                           *)
MayLaunch_Twice(o) == ~(o \in Lights /\ isLigthsPresent)
MayLaunch_AnyLights(o) == ~InProgress(o)

MayLaunch(o) == ~InProgress(o) /\ ~(o \in Lights /\ isLigthsPresent)

Scanning == mgrPc = "scan" /\ Free("mgr")

ScanEnd ==
    /\ Scanning
    /\ it > Len(internalDataQueue)
    /\ mgrPc' = "take"
    /\ UNCHANGED <<queueVars, scanVars, msgInProgress, lp, waitChildPid,
                   sigVars, mainVars, hdl, kernVars>>

ScanSkip ==
    /\ Scanning
    /\ it <= Len(internalDataQueue)
    /\ ~MayLaunch(internalDataQueue[it].obj)
    /\ it' = it + 1
    /\ UNCHANGED <<queueVars, sent, internalDataQueue, isLigthsPresent, msgInProgress,
                   mgrPc, lp, waitChildPid, sigVars, mainVars, hdl, kernVars>>

(* Mutant: the group is dropped after a failed fork, as the log says.       *)
ScanForkFail_Drops ==
    /\ Scanning
    /\ it <= Len(internalDataQueue)
    /\ MayLaunch(internalDataQueue[it].obj)
    /\ internalDataQueue' = RemoveAt(internalDataQueue, it)
    /\ UNCHANGED <<queueVars, sent, isLigthsPresent, it, msgInProgress,
                   mgrPc, lp, waitChildPid, sigVars, mainVars, hdl, kernVars>>

(* MqttMsgInstance::create returns nullptr: fork failed.  The group stays.  *)
ScanForkFail ==
    /\ Scanning
    /\ it <= Len(internalDataQueue)
    /\ MayLaunch(internalDataQueue[it].obj)
    /\ it' = it + 1
    /\ UNCHANGED <<queueVars, sent, internalDataQueue, isLigthsPresent, msgInProgress,
                   mgrPc, lp, waitChildPid, sigVars, mainVars, hdl, kernVars>>

(* A pid fork may return.                                                   *)
FreshPid(p) == procSt[p] = "none" \/ (PidReuse /\ procSt[p] = "gone")

(* The erase returns the element after the launched one and the loop's it++ *)
(* steps over it; behind the last element the iterator is end(), and        *)
(* libstdc++ steps from there to the first element.                         *)
AfterErase(i, q) == IF i = Len(q) + 1 THEN 1 ELSE i + 1

(* Mutant: the launched group is not erased from the queue.                 *)
ScanLaunch_KeepsGroup(p) ==
    /\ Scanning
    /\ it <= Len(internalDataQueue)
    /\ MayLaunch(internalDataQueue[it].obj)
    /\ FreshPid(p)
    /\ LET g == internalDataQueue[it]
       IN /\ procSt' = [procSt EXCEPT ![p] = "run"]
          /\ msgInProgress' = Append(msgInProgress, [obj |-> g.obj, pid |-> p, late |-> FALSE])
          /\ isLigthsPresent' = (isLigthsPresent \/ g.obj \in Lights)
          /\ sent' = [sent EXCEPT ![g.obj] = g.seq]
    /\ mgrPc' = (IF Len(msgInProgress') >= MaxParallel THEN "take" ELSE mgrPc)
    /\ it' = (IF Len(msgInProgress') >= MaxParallel THEN 1 ELSE it + 1)
    /\ UNCHANGED <<queueVars, internalDataQueue, lp, waitChildPid, sigVars, mainVars, hdl,
                   sigPending>>

(* MqttMsgInstance::create forks a child for the group.                     *)
ScanLaunch(p) ==
    /\ Scanning
    /\ it <= Len(internalDataQueue)
    /\ MayLaunch(internalDataQueue[it].obj)
    /\ FreshPid(p)
    /\ LET g == internalDataQueue[it]
       IN /\ procSt' = [procSt EXCEPT ![p] = "run"]
          /\ msgInProgress' = Append(msgInProgress, [obj |-> g.obj, pid |-> p, late |-> FALSE])
          /\ isLigthsPresent' = (isLigthsPresent \/ g.obj \in Lights)
          /\ sent' = [sent EXCEPT ![g.obj] = g.seq]
    /\ internalDataQueue' = RemoveAt(internalDataQueue, it)
    /\ IF Len(msgInProgress') >= MaxParallel
       THEN mgrPc' = "take" /\ it' = 1
       ELSE mgrPc' = mgrPc /\ it' = AfterErase(it, internalDataQueue')
    /\ UNCHANGED <<queueVars, lp, waitChildPid, sigVars, mainVars, hdl, sigPending>>

-----------------------------------------------------------------------------
(* main's loop.  The queue it empties is the one gSigQueue does not name.   *)
MainSwap ==
    /\ mainPc = "swap" /\ Free("main")
    /\ gSigQueue' = 1 - gSigQueue
    /\ mainPc' = "read"
    /\ UNCHANGED <<queueVars, scanVars, msgInProgress, mgrPc, lp, waitChildPid,
                   child_a, cnt_a, mainI, mainCnt, mainPid, hdl, kernVars>>

MainRead ==
    /\ mainPc = "read" /\ Free("main")
    /\ mainCnt' = cnt_a[1 - gSigQueue]
    /\ mainI' = 0
    /\ mainPc' = "signal"
    /\ UNCHANGED <<queueVars, scanVars, msgInProgress, mgrPc, lp, waitChildPid,
                   sigVars, mainPid, hdl, kernVars>>

(* Mutant: the loop runs once too often.                                    *)
MainPick_OneMore ==
    /\ mainPc = "signal" /\ Free("main")
    /\ mainI <= mainCnt /\ (mainPc = "store" => mainI < mainCnt)
    /\ mainPid' = child_a[1 - gSigQueue][mainI]
    /\ mainPc' = "store"
    /\ UNCHANGED <<queueVars, scanVars, msgInProgress, mgrPc, lp, waitChildPid,
                   sigVars, mainI, mainCnt, hdl, kernVars>>

(* The argument of signalChildL2 is read before the call.                   *)
MainPick ==
    /\ mainPc = "signal" /\ Free("main")
    /\ mainI < mainCnt
    /\ mainPid' = child_a[1 - gSigQueue][mainI]
    /\ mainPc' = "store"
    /\ UNCHANGED <<queueVars, scanVars, msgInProgress, mgrPc, lp, waitChildPid,
                   sigVars, mainI, mainCnt, hdl, kernVars>>

(* Mutant: the search starts at the second slot.                            *)
EmptySlot_FromSecond ==
    LET i == SelectInSeq(Tail(waitChildPid), LAMBDA c : c = NoPid)
    IN IF i = 0 THEN 0 ELSE i + 1

(* First empty slot of waitChildPid, 0 if all are taken.                    *)
EmptySlot == SelectInSeq(waitChildPid, LAMBDA c : c = NoPid)

(* signalChildL2: waits for childPidMutex, which the manager holds from the *)
(* first slot of cleanCompletedMsgInstances to the last.                    *)
signalChildL2 ==
    /\ mainPc = "store" /\ Free("main")
    /\ ~(mgrPc = "clean" /\ lp > 1)
    /\ waitChildPid' = IF EmptySlot = 0 THEN waitChildPid
                       ELSE [waitChildPid EXCEPT ![EmptySlot] = mainPid]
    /\ mainI' = mainI + 1
    /\ mainPc' = "signal" /\ mainPid' = NoPid
    /\ UNCHANGED <<queueVars, scanVars, msgInProgress, mgrPc, lp,
                   sigVars, mainCnt, hdl, kernVars>>

(* Mutant: the count of the queue in use is reset, not the emptied one.     *)
MainReset_Active ==
    /\ mainPc = "signal" /\ Free("main")
    /\ mainI = mainCnt
    /\ cnt_a' = [cnt_a EXCEPT ![gSigQueue] = 0]
    /\ mainPc' = "swap" /\ mainI' = 0 /\ mainCnt' = 0
    /\ UNCHANGED <<queueVars, scanVars, msgInProgress, mgrPc, lp, waitChildPid,
                   gSigQueue, child_a, mainPid, hdl, kernVars>>

MainReset ==
    /\ mainPc = "signal" /\ Free("main")
    /\ mainI = mainCnt
    /\ cnt_a' = [cnt_a EXCEPT ![1 - gSigQueue] = 0]
    /\ mainPc' = "swap" /\ mainI' = 0 /\ mainCnt' = 0
    /\ UNCHANGED <<queueVars, scanVars, msgInProgress, mgrPc, lp, waitChildPid,
                   gSigQueue, child_a, mainPid, hdl, kernVars>>

-----------------------------------------------------------------------------
(* The kernel and the children.  The signal is process directed: any thread *)
(* that is not already in the handler may be interrupted by it.             *)
SigDeliver(t) ==
    /\ sigPending /\ Free(t)
    /\ sigPending' = FALSE
    /\ hdl' = [hdl EXCEPT ![t].pc = "wait"]
    /\ UNCHANGED <<queueVars, scanVars, msgInProgress, mgrPc, lp, waitChildPid,
                   sigVars, mainVars, procSt>>

(* A child ends by itself, or is ended by anything but the manager.         *)
ChildExit(p) ==
    /\ procSt[p] = "run"
    /\ procSt' = [procSt EXCEPT ![p] = "zombie"]
    /\ sigPending' = TRUE
    /\ UNCHANGED <<queueVars, scanVars, msgInProgress, mgrPc, lp, waitChildPid,
                   sigVars, mainVars, hdl>>

(* The time of isOperationTimeout is reached for an instance.  Lights       *)
(* instances have one too, but it is never looked at.                       *)
OperationTimeout(i) ==
    /\ msgInProgress[i].obj \notin Lights
    /\ ~msgInProgress[i].late
    /\ msgInProgress' = [msgInProgress EXCEPT ![i].late = TRUE]
    /\ UNCHANGED <<queueVars, scanVars, mgrPc, lp, waitChildPid,
                   sigVars, mainVars, hdl, kernVars>>

(* A process outside CloudHub gets a pid that was reaped.                   *)
ForeignFork(p) ==
    /\ PidReuse /\ procSt[p] = "gone"
    /\ procSt' = [procSt EXCEPT ![p] = "foreign"]
    /\ UNCHANGED <<queueVars, scanVars, msgInProgress, mgrPc, lp, waitChildPid,
                   sigVars, mainVars, hdl, sigPending>>

-----------------------------------------------------------------------------
(* sigchld_hdl in thread t; every shared access is a step of its own.       *)
At(t, pc) == hdl[t].pc = pc

OnlyHandler(t, h) ==
    /\ hdl' = [hdl EXCEPT ![t] = h]
    /\ UNCHANGED <<queueVars, scanVars, msgInProgress, mgrPc, lp, waitChildPid,
                   gSigQueue, mainVars, sigPending>>

(* waitpid(-1, WNOHANG) reaps a zombie.                                     *)
HandlerWaitpid(t, p) ==
    /\ At(t, "wait") /\ procSt[p] = "zombie"
    /\ procSt' = [procSt EXCEPT ![p] = "gone"]
    /\ OnlyHandler(t, [hdl[t] EXCEPT !.pc = "pick", !.pid = p])
    /\ UNCHANGED <<child_a, cnt_a>>

(* waitpid finds no ended child: the handler returns.                       *)
HandlerReturn(t) ==
    /\ At(t, "wait") /\ \A p \in Pid : procSt[p] # "zombie"
    /\ OnlyHandler(t, Idle)
    /\ UNCHANGED <<child_a, cnt_a, procSt>>

HandlerPickQueue(t) ==
    /\ At(t, "pick")
    /\ OnlyHandler(t, [hdl[t] EXCEPT !.pc = "cnt", !.q = gSigQueue])
    /\ UNCHANGED <<child_a, cnt_a, procSt>>

HandlerReadCount(t) ==
    /\ At(t, "cnt")
    /\ OnlyHandler(t, [hdl[t] EXCEPT !.pc = "store", !.cnt = cnt_a[hdl[t].q]])
    /\ UNCHANGED <<child_a, cnt_a, procSt>>

(* Mutant: the count is advanced twice.                                     *)
HandlerStore_Twice(t) ==
    /\ At(t, "store")
    /\ IF hdl[t].cnt + 1 < max_alen
       THEN /\ child_a' = [child_a EXCEPT ![hdl[t].q][hdl[t].cnt] = hdl[t].pid]
            /\ OnlyHandler(t, [hdl[t] EXCEPT !.pc = "sel", !.cnt = @ + 2])
       ELSE /\ OnlyHandler(t, [Idle EXCEPT !.pc = "wait"])
            /\ UNCHANGED child_a
    /\ UNCHANGED <<cnt_a, procSt>>

(* If the queue is full the pid is dropped ("failed to store child result"). *)
HandlerStore(t) ==
    /\ At(t, "store")
    /\ IF hdl[t].cnt < max_alen
       THEN /\ child_a' = [child_a EXCEPT ![hdl[t].q][hdl[t].cnt] = hdl[t].pid]
            /\ OnlyHandler(t, [hdl[t] EXCEPT !.pc = "sel", !.cnt = @ + 1])
       ELSE /\ OnlyHandler(t, [Idle EXCEPT !.pc = "wait"])
            /\ UNCHANGED child_a
    /\ UNCHANGED <<cnt_a, procSt>>

(* gSigQueue is read again to choose which count to write.                  *)
HandlerSelectCount(t) ==
    /\ At(t, "sel")
    /\ OnlyHandler(t, [hdl[t] EXCEPT !.pc = "count", !.q = gSigQueue])
    /\ UNCHANGED <<child_a, cnt_a, procSt>>

(* Mutant: one child per signal.                                            *)
HandlerWriteCount_Returns(t) ==
    /\ At(t, "count")
    /\ cnt_a' = [cnt_a EXCEPT ![hdl[t].q] = hdl[t].cnt]
    /\ OnlyHandler(t, Idle)
    /\ UNCHANGED <<child_a, procSt>>

HandlerWriteCount(t) ==
    /\ At(t, "count")
    /\ cnt_a' = [cnt_a EXCEPT ![hdl[t].q] = hdl[t].cnt]
    /\ OnlyHandler(t, [Idle EXCEPT !.pc = "wait"])
    /\ UNCHANGED <<child_a, procSt>>

sigchld_hdl(t) ==
    \/ \E p \in Pid : HandlerWaitpid(t, p)
    \/ HandlerReturn(t)
    \/ HandlerPickQueue(t)
    \/ HandlerReadCount(t)
    \/ HandlerStore(t)
    \/ HandlerSelectCount(t)
    \/ HandlerWriteCount(t)

-----------------------------------------------------------------------------
serverLoop ==
    \/ TakeDataQueue
    \/ MergeGroup
    \/ terminateHangupInstances
    \/ CleanAllSlots
    \/ CleanSlot
    \/ ScanEnd
    \/ ScanSkip
    \/ ScanForkFail
    \/ \E p \in Pid : ScanLaunch(p)

MainLoop == MainSwap \/ MainRead \/ MainPick \/ signalChildL2 \/ MainReset

Next ==
    \/ \E o \in Obj : addToDataQueue(o)
    \/ serverLoop
    \/ MainLoop
    \/ \E t \in HandlerThreads : SigDeliver(t) \/ sigchld_hdl(t)
    \/ \E p \in Pid : ChildExit(p) \/ ForeignFork(p)
    \/ \E i \in DOMAIN msgInProgress : OperationTimeout(i)

Spec == Init /\ [][Next]_vars

(* Threads are scheduled, a pending signal is delivered, and time passes.   *)
(* A child need not end by itself.  Fork does not fail for ever, and main   *)
(* gets childPidMutex although the manager takes it in every turn: between  *)
(* two turns the manager sleeps for 200 ms.                                 *)
Fairness ==
    /\ WF_vars(serverLoop)
    /\ SF_vars(\E p \in Pid : ScanLaunch(p))
    /\ WF_vars(MainLoop)
    /\ SF_vars(signalChildL2)
    /\ WF_vars(\E t \in HandlerThreads : SigDeliver(t))
    /\ \A t \in HandlerThreads : WF_vars(sigchld_hdl(t))
    /\ \A k \in 1..MaxParallel : WF_vars(k \in DOMAIN msgInProgress /\ OperationTimeout(k))

FairSpec == Spec /\ Fairness

-----------------------------------------------------------------------------
(* Properties *)

(* MqttMsgManager implements SendSlots: the queues, the per-slot cleaning   *)
(* and the scan refine Offer, Launch and Done, also when several threads    *)
(* run the SIGCHLD handler.                                                 *)
Slots == INSTANCE SendSlots
            WITH offered <- produced, live <- {m.obj : m \in ToSet(msgInProgress)}

ImplementsSendSlots == Slots!Spec

(* README.txt, mqtt_msg_parallel_instances: there are never more instances  *)
(* than slots, and serverLoop never starts a second instance for an object  *)
(* that is already being sent, whatever order exits are reported in.        *)
SlotsExclusive ==
    /\ Len(msgInProgress) <= MaxParallel
    /\ \A i, j \in DOMAIN msgInProgress :
          i # j => /\ msgInProgress[i].obj # msgInProgress[j].obj
                   /\ msgInProgress[i].pid # msgInProgress[j].pid

(* "run only one mqttMsgInstance for ligths": with several lights objects   *)
(* queued, only one of them ever gets a child, also after that child ended. *)
OneLightsInstance ==
    \A o1, o2 \in Lights :
       sent[o1] # 0 /\ (InProgress(o2) \/ sent[o2] # 0) => o1 = o2

(* moveDataQueueToInternal keeps one waiting group per object, and along    *)
(* sent, internalDataQueue, newGDataList, dataQueue the groups of an object *)
(* only get newer: a child never sends a group older than, or the same as,  *)
(* the one sent before it.                                                  *)
Newer(q1, q2) ==
    \A i \in DOMAIN q1, j \in DOMAIN q2 : q1[i].obj = q2[j].obj => q1[i].seq < q2[j].seq
Ascending(q) ==
    \A i, j \in DOMAIN q : i < j /\ q[i].obj = q[j].obj => q[i].seq < q[j].seq
Unsent(q) == \A i \in DOMAIN q : sent[q[i].obj] < q[i].seq

GroupsInOrder ==
    /\ \A i, j \in DOMAIN internalDataQueue :
          i # j => internalDataQueue[i].obj # internalDataQueue[j].obj
    /\ Ascending(newGDataList) /\ Ascending(dataQueue)
    /\ Newer(internalDataQueue, newGDataList)
    /\ Newer(internalDataQueue, dataQueue)
    /\ Newer(newGDataList, dataQueue)
    /\ Unsent(internalDataQueue) /\ Unsent(newGDataList) /\ Unsent(dataQueue)

(* Groups may be superseded on the way, but never the newest one: until it  *)
(* is sent it is in one of the three queues.                                *)
NewestKept ==
    \A o \in Obj : produced[o] # sent[o] =>
       [obj |-> o, seq |-> produced[o]]
          \in ToSet(internalDataQueue) \cup ToSet(newGDataList) \cup ToSet(dataQueue)

(* A child that still runs is always one the manager knows of: an instance  *)
(* is only erased once its own process was reaped, however the reports were *)
(* mixed up on the way.  With SlotsExclusive: at most MaxParallel children, *)
(* at most one per object, and none that terminateHangupInstances cannot    *)
(* reach.                                                                   *)
LiveOwned ==
    \A p \in Pid : procSt[p] \in {"run", "zombie"} =>
       \E m \in ToSet(msgInProgress) : m.pid = p

(* The handler's queue has room for the pid it is about to store, with as   *)
(* many cells to spare as there are slots.  Whether this is kept is stated  *)
(* in SignalOverlap.                                                        *)
QueueHasRoom == \A t \in Threads : At(t, "store") => hdl[t].cnt < MaxParallel

(* Where the pid of a reaped child can be on its way to the manager.        *)
InHandler(p) == \E t \in Threads : hdl[t].pid = p
InQueue(p, q, from, n) == \E k \in from..(n - 1) : child_a[q][k] = p
InActiveQueue(p) == InQueue(p, gSigQueue, 0, cnt_a[gSigQueue])
InDrainedQueue(p) ==
    \/ mainPc = "read" /\ InQueue(p, 1 - gSigQueue, 0, cnt_a[1 - gSigQueue])
    \/ mainPc = "signal" /\ InQueue(p, 1 - gSigQueue, mainI, mainCnt)
    \/ mainPc = "store" /\ (mainPid = p \/ InQueue(p, 1 - gSigQueue, mainI + 1, mainCnt))
InWaitSlot(p) == \E s \in 1..MaxParallel : waitChildPid[s] = p

(* The pid of a reaped child whose instance is in progress is still on its  *)
(* way through handler, double queue, main and waitChildPid.  SignalOverlap *)
(* states when this is kept.                                                *)
ExitReported ==
    \A m \in ToSet(msgInProgress) : procSt[m.pid] = "gone" =>
       InHandler(m.pid) \/ InActiveQueue(m.pid) \/ InDrainedQueue(m.pid) \/ InWaitSlot(m.pid)

(* README.txt, mqtt_msg_operation_timeout: "MqttMsgManager kill child       *)
(* process to free slot for a next car object".  Every car instance leaves  *)
(* its slot, by the child's own end or by the timeout.                      *)
SlotFreed == \A o \in Obj \ Lights : InProgress(o) ~> ~InProgress(o)

(* Every group of a car is sent, or superseded by a newer one that is.      *)
GroupLaunched ==
    \A o \in Obj \ Lights : \A n \in 1..MaxSeq : produced[o] >= n ~> sent[o] >= n

(* No zombie is forgotten although SIGCHLDs coalesce: while one is there,   *)
(* either a signal is still pending or a thread is in the handler, whose    *)
(* loop calls waitpid once more before it returns.                          *)
ZombieNoticed ==
    \A p \in Pid : procSt[p] = "zombie" => sigPending \/ \E t \in Threads : ~Free(t)
===============================================================================
