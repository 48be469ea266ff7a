--------------------------- MODULE MsgManagerProofs ---------------------------
(***************************************************************************)
(* Proofs about MsgManager, for every set of objects, pids, slots and      *)
(* handler threads: first the types and the queues of groups, then the     *)
(* slots (who is in one and for how long), the refinement of SendSlots,    *)
(* and how the end of a child gets back to the manager.                    *)
(***************************************************************************)
EXTENDS SignalOverlap, SequenceTheorems, FiniteSetTheorems, WellFoundedInduction, TLAPS

-----------------------------------------------------------------------------
(* A non-empty set of naturals has a least element, and Min returns it.      *)
LEMMA MinIsLeast ==
    ASSUME NEW T \in SUBSET Nat, T # {}
    PROVE  Min(T) \in T /\ \A y \in T : Min(T) <= y
  <1>1. PICK x \in T : \A y \in T : ~(<<y, x>> \in OpToRel(<, Nat))
    BY NatLessThanWellFounded, WFMin
  <1>2. \A y \in T : x <= y
    <2>1. \A y \in T : ~(y < x)
      BY <1>1, Zenon DEF OpToRel
    <2>2. QED
      BY <2>1
  <1>3. QED
    BY <1>2 DEF Min

(* RemoveAt takes exactly one element out and keeps the order of the rest.   *)
LEMMA RemoveAtProperties ==
    ASSUME NEW S, NEW s \in Seq(S), NEW i \in 1..Len(s)
    PROVE  /\ RemoveAt(s, i) \in Seq(S)
           /\ Len(RemoveAt(s, i)) = Len(s) - 1
           /\ \A j \in 1..(Len(s) - 1) :
                 RemoveAt(s, i)[j] = IF j < i THEN s[j] ELSE s[j + 1]
  <1> DEFINE a == SubSeq(s, 1, i - 1)
             b == SubSeq(s, i + 1, Len(s))
  <1>0. /\ Len(s) \in Nat /\ i \in Nat
        /\ \A j \in 1..Len(s) : s[j] \in S
    BY LenProperties, ElementOfSeq
  <1>1. /\ a \in Seq(S) /\ Len(a) = i - 1
        /\ \A j \in 1..(i - 1) : a[j] = s[j]
    BY <1>0, SubSeqProperties
  <1>2. /\ b \in Seq(S) /\ Len(b) = Len(s) - i
        /\ \A j \in 1..(Len(s) - i) : b[j] = s[i + j]
    <2>1. \A j \in (i + 1)..Len(s) : s[j] \in S
      BY <1>0
    <2>2. /\ b \in Seq(S)
          /\ Len(b) = IF i + 1 <= Len(s) THEN Len(s) - (i + 1) + 1 ELSE 0
          /\ \A j \in 1..(Len(s) - (i + 1) + 1) : b[j] = s[(i + 1) + j - 1]
      BY <1>0, <2>1, SubSeqProperties, i + 1 \in Int, Len(s) \in Int
    <2>3. QED
      BY <1>0, <2>2
  <1> HIDE DEF a, b
  <1>3. /\ a \o b \in Seq(S)
        /\ Len(a \o b) = Len(a) + Len(b)
        /\ \A j \in 1..(Len(a) + Len(b)) :
              (a \o b)[j] = IF j <= Len(a) THEN a[j] ELSE b[j - Len(a)]
    BY <1>1, <1>2, ConcatProperties
  <1>4. RemoveAt(s, i) = a \o b
    BY DEF RemoveAt, a, b
  <1>5. ASSUME NEW j \in 1..(Len(s) - 1)
        PROVE  (a \o b)[j] = IF j < i THEN s[j] ELSE s[j + 1]
    <2>1. (a \o b)[j] = IF j <= i - 1 THEN a[j] ELSE b[j - (i - 1)]
      BY <1>0, <1>1, <1>2, <1>3
    <2>2. CASE j < i
      BY <1>0, <1>1, <2>1, <2>2
    <2>3. CASE j >= i
      <3>1. j - (i - 1) \in 1..(Len(s) - i)
        BY <1>0, <2>3
      <3>2. b[j - (i - 1)] = s[i + (j - (i - 1))]
        BY <1>2, <3>1
      <3>3. i + (j - (i - 1)) = j + 1
        BY <1>0
      <3>4. (a \o b)[j] = b[j - (i - 1)]
        BY <1>0, <2>1, <2>3
      <3>5. ~(j < i)
        BY <1>0, <2>3
      <3>6. QED
        BY <3>2, <3>3, <3>4, <3>5
    <2>4. j < i \/ j >= i
      BY <1>0
    <2>5. QED
      BY <2>2, <2>3, <2>4
  <1>6. Len(a \o b) = Len(s) - 1
    BY <1>0, <1>1, <1>2, <1>3
  <1>7. QED
    BY <1>3, <1>4, <1>5, <1>6

-----------------------------------------------------------------------------
(* The manager enters its merge loop only with a group to merge.             *)
MergeHasGroup == mgrPc = "merge" => newGDataList # <<>>

TypeInv == TypeOK /\ MergeHasGroup

(* The loops that look for the first match (moveDataQueueToInternal,         *)
(* cleanCompletedMsgInstances) stop at a matching element, or find none.     *)
LEMMA FirstMatch ==
    ASSUME NEW S, NEW s \in Seq(S), NEW M \in SUBSET (1..Len(s)),
           NEW i, i = IF M # {} THEN Min(M) ELSE 0
    PROVE  /\ i = 0 => M = {}
           /\ i # 0 => i \in M /\ i \in 1..Len(s)
  <1>1. M \in SUBSET Nat
    BY LenProperties
  <1>2. CASE M = {}
    BY <1>2
  <1>3. CASE M # {}
    <2>1. i \in M
      BY <1>1, <1>3, MinIsLeast
    <2>2. i # 0
      BY <2>1, LenProperties
    <2>3. QED
      BY <2>1, <2>2
  <1>4. QED
    BY <1>2, <1>3

CleanIndex(slot) == SelectInSeq(msgInProgress, LAMBDA m : m.pid = waitChildPid[slot])

(* moveDataQueueToInternal's search yields 0 or the place of a waiting group. *)
LEMMA QueuedAtIndex ==
    ASSUME TypeOK, NEW o
    PROVE  /\ QueuedAt(o) = 0 => \A i \in 1..Len(internalDataQueue) : internalDataQueue[i].obj # o
           /\ QueuedAt(o) # 0 => /\ QueuedAt(o) \in 1..Len(internalDataQueue)
                                 /\ internalDataQueue[QueuedAt(o)].obj = o
  <1> DEFINE M == {i \in 1..Len(internalDataQueue) : internalDataQueue[i].obj = o}
  <1>1. QueuedAt(o) = IF M # {} THEN Min(M) ELSE 0
    BY DEF QueuedAt, SelectInSeq
  <1>2. internalDataQueue \in Seq(Group)
    BY DEF TypeOK
  <1>3. /\ QueuedAt(o) = 0 => M = {}
        /\ QueuedAt(o) # 0 => QueuedAt(o) \in M /\ QueuedAt(o) \in 1..Len(internalDataQueue)
    <2> HIDE DEF M
    <2>1. M \in SUBSET (1..Len(internalDataQueue))
      BY DEF M
    <2>2. QED
      BY <1>1, <1>2, <2>1, FirstMatch
  <1>4. QED
    BY <1>3

(* cleanCompletedMsgInstances' search yields 0 or the place of an instance.  *)
LEMMA CleanIndexProperties ==
    ASSUME TypeOK, NEW slot
    PROVE  /\ CleanIndex(slot) = 0 =>
                 \A i \in 1..Len(msgInProgress) : msgInProgress[i].pid # waitChildPid[slot]
           /\ CleanIndex(slot) # 0 =>
                 /\ CleanIndex(slot) \in 1..Len(msgInProgress)
                 /\ msgInProgress[CleanIndex(slot)].pid = waitChildPid[slot]
  <1> DEFINE M == {i \in 1..Len(msgInProgress) : msgInProgress[i].pid = waitChildPid[slot]}
  <1>1. CleanIndex(slot) = IF M # {} THEN Min(M) ELSE 0
    BY DEF CleanIndex, SelectInSeq
  <1>2. msgInProgress \in Seq(Instance)
    BY DEF TypeOK
  <1>3. /\ CleanIndex(slot) = 0 => M = {}
        /\ CleanIndex(slot) # 0 => CleanIndex(slot) \in M /\ CleanIndex(slot) \in 1..Len(msgInProgress)
    <2> HIDE DEF M
    <2>1. M \in SUBSET (1..Len(msgInProgress))
      BY DEF M
    <2>2. QED
      BY <1>1, <1>2, <2>1, FirstMatch
  <1>4. QED
    BY <1>3

-----------------------------------------------------------------------------
(* Type correctness.                                                         *)
LEMMA InitTypeInv == Init => TypeInv
  <1> SUFFICES ASSUME Init PROVE TypeInv
    OBVIOUS
  <1> USE DEF Init
  <1>1. dataQueue \in Seq(Group) /\ newGDataList \in Seq(Group)
        /\ internalDataQueue \in Seq(Group) /\ msgInProgress \in Seq(Instance)
    BY EmptySeq
  <1>2. waitChildPid \in [1..MaxParallel -> PidCell]
        /\ child_a \in [{0, 1} -> [0..(max_alen - 1) -> PidCell]]
    BY DEF PidCell
  <1>3. cnt_a \in [{0, 1} -> 0..max_alen] /\ 0 \in 0..max_alen /\ 1 \in 1..MaxParallel
    BY ConstAssumption DEF max_alen
  <1>4. hdl \in [Threads -> [pc: {"idle", "wait", "pick", "cnt", "store", "sel", "count"},
                             pid: Pid \cup {NoPid}, q: {0, 1}, cnt: 0..max_alen]]
    BY <1>3 DEF Idle
  <1>5. /\ produced \in [Obj -> Nat] /\ sent \in [Obj -> Nat]
        /\ procSt \in [Pid -> {"none", "run", "zombie", "gone", "foreign"}]
        /\ isLigthsPresent \in BOOLEAN /\ sigPending \in BOOLEAN
    OBVIOUS
  <1>6. QED
    BY <1>1, <1>2, <1>3, <1>4, <1>5 DEF TypeInv, TypeOK, MergeHasGroup, PidCell

(* Every step of every thread, of the handler and of the kernel keeps it.     *)
LEMMA NextTypeInv == TypeInv /\ [Next]_vars => TypeInv'
  <1> SUFFICES ASSUME TypeInv, [Next]_vars
               PROVE  TypeInv'
    OBVIOUS
  <1> USE DEF TypeInv, MergeHasGroup
  <1> USE DEF queueVars, scanVars, sigVars, mainVars, kernVars
  <1>1. ASSUME NEW o \in Obj, addToDataQueue(o)
        PROVE  TypeInv'
    <2>1. [obj |-> o, seq |-> produced[o] + 1] \in Group
      BY SMTT(30) DEF TypeOK, Group
    <2>2. dataQueue' \in Seq(Group)
      BY <1>1, <2>1 DEF TypeOK, addToDataQueue
    <2>3. produced' \in [Obj -> Nat]
      BY <1>1 DEF TypeOK, addToDataQueue
    <2>4. QED
      BY <1>1, <2>2, <2>3, SMTT(30) DEF TypeOK, addToDataQueue
  <1>2. CASE TakeDataQueue
    BY <1>2 DEF TypeOK, TakeDataQueue
  <1>3. CASE MergeGroup
    <2> DEFINE g == Head(newGDataList)
    <2>1. g \in Group /\ Tail(newGDataList) \in Seq(Group)
      BY <1>3 DEF MergeGroup, TypeOK
    <2>2. internalDataQueue' \in Seq(Group)
      <3>1. CASE QueuedAt(g.obj) = 0
        BY <1>3, <2>1, <3>1 DEF MergeGroup, TypeOK
      <3>2. CASE QueuedAt(g.obj) # 0
        <4>1. QueuedAt(g.obj) \in 1..Len(internalDataQueue)
          BY <3>2, QueuedAtIndex
        <4>2. QED
          BY <1>3, <2>1, <3>2, <4>1, ExceptSeq DEF MergeGroup, TypeOK
      <3>3. QED
        BY <3>1, <3>2
    <2>3. QED
      BY <1>3, <2>1, <2>2 DEF MergeGroup, TypeOK
  <1>4. CASE terminateHangupInstances
    <2>1. procSt' \in [Pid -> {"none", "run", "zombie", "gone", "foreign"}]
      BY <1>4 DEF terminateHangupInstances, TypeOK
    <2>2. sigPending' \in BOOLEAN
      BY <1>4 DEF terminateHangupInstances, TypeOK
    <2>3. lp' \in 1..MaxParallel
      BY <1>4, ConstAssumption DEF terminateHangupInstances
    <2>4. QED
      BY <1>4, <2>1, <2>2, <2>3 DEF terminateHangupInstances, TypeOK
  <1>5. CASE CleanAllSlots
    BY <1>5 DEF CleanAllSlots, AfterClean, TypeOK, PidCell
  <1>6. CASE CleanSlot
    <2>1. msgInProgress' = IF CleanIndex(lp) = 0 THEN msgInProgress
                                                 ELSE RemoveAt(msgInProgress, CleanIndex(lp))
      BY <1>6 DEF CleanSlot, CleanIndex
    <2>2. msgInProgress' \in Seq(Instance)
      BY <2>1, CleanIndexProperties, RemoveAtProperties DEF TypeOK
    <2>3. lp' \in 1..MaxParallel /\ it' \in Nat \ {0}
      BY <1>6, ConstAssumption DEF CleanSlot, AfterClean, TypeOK
    <2>4. QED
      BY <1>6, <2>2, <2>3 DEF CleanSlot, AfterClean, TypeOK, PidCell
  <1>7. CASE ScanEnd
    BY <1>7 DEF ScanEnd, Scanning, TypeOK
  <1>8. CASE ScanSkip
    BY <1>8 DEF ScanSkip, Scanning, TypeOK
  <1>9. CASE ScanForkFail
    BY <1>9 DEF ScanForkFail, Scanning, TypeOK
  <1>10. ASSUME NEW p \in Pid, ScanLaunch(p)
         PROVE  TypeInv'
    <2> DEFINE g == internalDataQueue[it]
               m == [obj |-> g.obj, pid |-> p, late |-> FALSE]
    <2>1. it \in 1..Len(internalDataQueue)
      BY <1>10 DEF ScanLaunch, TypeOK
    <2>2. g \in Group
      BY <2>1, ElementOfSeq DEF TypeOK
    <2>3. g.obj \in Obj /\ g.seq \in Nat
      BY <2>2 DEF Group
    <2>4. m \in Instance
      BY <2>3 DEF Instance
    <2>5. msgInProgress' \in Seq(Instance)
      BY <1>10, <2>4 DEF ScanLaunch, TypeOK
    <2>6. internalDataQueue' \in Seq(Group)
      BY <1>10, <2>1, RemoveAtProperties DEF ScanLaunch, TypeOK
    <2>7. Len(internalDataQueue') \in Nat
      BY <2>6, LenProperties
    <2>8. it' \in Nat \ {0} /\ mgrPc' \in {"take", "scan"}
      BY SMTT(30), <1>10, <2>7 DEF ScanLaunch, Scanning, AfterErase, TypeOK
    <2>9. sent' \in [Obj -> Nat]
      BY <1>10, <2>3 DEF ScanLaunch, TypeOK
    <2>10. isLigthsPresent' \in BOOLEAN
      BY <1>10 DEF ScanLaunch, TypeOK
    <2>11. procSt' \in [Pid -> {"none", "run", "zombie", "gone", "foreign"}]
      BY <1>10 DEF ScanLaunch, TypeOK
    <2>12. QED
      BY <1>10, <2>5, <2>6, <2>8, <2>9, <2>10, <2>11 DEF ScanLaunch, TypeOK
  <1>11. CASE MainSwap
    BY <1>11 DEF MainSwap, TypeOK
  <1>12. CASE MainRead
    <2>1. 1 - gSigQueue \in {0, 1}
      BY DEF TypeOK
    <2>2. mainCnt' \in 0..max_alen
      BY <1>12, <2>1 DEF MainRead, TypeOK
    <2>3. mainI' \in 0..max_alen /\ mainI' <= mainCnt'
      BY <1>12, <2>2, ConstAssumption DEF MainRead, max_alen
    <2>4. QED
      BY <1>12, <2>2, <2>3 DEF MainRead, TypeOK
  <1>p. CASE MainPick
    <2>1. mainI \in 0..(max_alen - 1)
      BY <1>p, ConstAssumption DEF MainPick, TypeOK, max_alen
    <2>2. child_a[1 - gSigQueue][mainI] \in PidCell
      <3>1. 1 - gSigQueue \in {0, 1}
        BY DEF TypeOK
      <3>2. child_a[1 - gSigQueue] \in [0..(max_alen - 1) -> PidCell]
        BY <3>1 DEF TypeOK
      <3>3. QED
        BY <2>1, <3>2
    <2>3. QED
      BY <1>p, <2>2 DEF MainPick, TypeOK
  <1>13. CASE signalChildL2
    <2>1. mainI' \in 0..max_alen /\ mainI' <= mainCnt'
      BY <1>13, ConstAssumption DEF signalChildL2, TypeOK, max_alen
    <2>2. waitChildPid' \in [1..MaxParallel -> PidCell]
      BY <1>13 DEF signalChildL2, TypeOK
    <2>3. QED
      BY <1>13, <2>1, <2>2 DEF signalChildL2, TypeOK, PidCell
  <1>14. CASE MainReset
    BY <1>14, ConstAssumption DEF MainReset, TypeOK, max_alen
  <1>15. ASSUME NEW t \in HandlerThreads, SigDeliver(t)
         PROVE  TypeInv'
    BY ZenonT(30), <1>15, ConstAssumption DEF SigDeliver, TypeOK
  <1>16. ASSUME NEW t \in HandlerThreads, sigchld_hdl(t)
         PROVE  TypeInv'
    <2> DEFINE H == [pc: {"idle", "wait", "pick", "cnt", "store", "sel", "count"},
                     pid: Pid \cup {NoPid}, q: {0, 1}, cnt: 0..max_alen]
    <2>0. t \in Threads /\ hdl \in [Threads -> H] /\ hdl[t] \in H
      BY ConstAssumption DEF TypeOK
    <2>1. ASSUME NEW h \in H, OnlyHandler(t, h)
          PROVE  hdl' \in [Threads -> H]
      BY <2>0, <2>1 DEF OnlyHandler
    <2>i. Idle \in H /\ [Idle EXCEPT !.pc = "wait"] \in H
      BY ConstAssumption DEF Idle, max_alen
    <2>2. ASSUME NEW p \in Pid, HandlerWaitpid(t, p)
          PROVE  TypeInv'
      <3>1. [hdl[t] EXCEPT !.pc = "pick", !.pid = p] \in H
        BY <2>0
      <3>2. hdl' \in [Threads -> H]
        BY <2>1, <2>2, <3>1 DEF HandlerWaitpid
      <3>3. QED
        BY <2>2, <3>2 DEF HandlerWaitpid, OnlyHandler, TypeOK
    <2>3. CASE HandlerReturn(t)
      <3>1. hdl' \in [Threads -> H]
        BY <2>1, <2>i, <2>3 DEF HandlerReturn
      <3>2. QED
        BY <2>3, <3>1 DEF HandlerReturn, OnlyHandler, TypeOK
    <2>4. CASE HandlerPickQueue(t)
      <3>1. [hdl[t] EXCEPT !.pc = "cnt", !.q = gSigQueue] \in H
        BY <2>0 DEF TypeOK
      <3>2. hdl' \in [Threads -> H]
        BY <2>1, <2>4, <3>1 DEF HandlerPickQueue
      <3>3. QED
        BY <2>4, <3>2 DEF HandlerPickQueue, OnlyHandler, TypeOK
    <2>5. CASE HandlerReadCount(t)
      <3>1. [hdl[t] EXCEPT !.pc = "store", !.cnt = cnt_a[hdl[t].q]] \in H
        BY <2>0 DEF TypeOK
      <3>2. hdl' \in [Threads -> H]
        BY <2>1, <2>5, <3>1 DEF HandlerReadCount
      <3>3. QED
        BY <2>5, <3>2 DEF HandlerReadCount, OnlyHandler, TypeOK
    <2>6. CASE HandlerStore(t) /\ hdl[t].cnt >= max_alen
      <3>0. ~(hdl[t].cnt < max_alen)
        BY <2>0, <2>6, ConstAssumption DEF max_alen
      <3>1. OnlyHandler(t, [Idle EXCEPT !.pc = "wait"]) /\ UNCHANGED <<child_a, cnt_a, procSt>>
        BY <2>6, <3>0, Zenon DEF HandlerStore
      <3>2. hdl' \in [Threads -> H]
        BY <2>1, <2>i, <3>1
      <3>3. QED
        BY <3>1, <3>2 DEF OnlyHandler, TypeOK
    <2>7. CASE HandlerStore(t) /\ hdl[t].cnt < max_alen
      <3>1. hdl[t].cnt + 1 \in 0..max_alen /\ hdl[t].cnt \in 0..(max_alen - 1)
        BY <2>0, <2>7, ConstAssumption DEF max_alen
      <3>2. [hdl[t] EXCEPT !.pc = "sel", !.cnt = hdl[t].cnt + 1] \in H
        BY <2>0, <3>1
      <3>3. hdl' \in [Threads -> H]
        BY <2>1, <2>7, <3>2 DEF HandlerStore
      <3>4. hdl[t].pid \in PidCell
        BY <2>0 DEF PidCell
      <3>5. child_a' \in [{0, 1} -> [0..(max_alen - 1) -> PidCell]]
        <4>1. child_a' = [child_a EXCEPT ![hdl[t].q][hdl[t].cnt] = hdl[t].pid]
          BY <2>7, Zenon DEF HandlerStore
        <4>2. QED
          BY <2>0, <3>4, <4>1 DEF TypeOK
      <3>6. QED
        BY <2>7, <3>3, <3>5 DEF HandlerStore, OnlyHandler, TypeOK
    <2>8. CASE HandlerSelectCount(t)
      <3>1. [hdl[t] EXCEPT !.pc = "count", !.q = gSigQueue] \in H
        BY <2>0 DEF TypeOK
      <3>2. hdl' \in [Threads -> H]
        BY <2>1, <2>8, <3>1 DEF HandlerSelectCount
      <3>3. QED
        BY <2>8, <3>2 DEF HandlerSelectCount, OnlyHandler, TypeOK
    <2>9. CASE HandlerWriteCount(t)
      <3>1. hdl' \in [Threads -> H]
        BY <2>1, <2>i, <2>9 DEF HandlerWriteCount
      <3>2. cnt_a' \in [{0, 1} -> 0..max_alen]
        BY <2>0, <2>9 DEF HandlerWriteCount, TypeOK
      <3>3. QED
        BY <2>9, <3>1, <3>2 DEF HandlerWriteCount, OnlyHandler, TypeOK
    <2>10. hdl[t].cnt < max_alen \/ hdl[t].cnt >= max_alen
      BY <2>0, ConstAssumption DEF max_alen
    <2>11. QED
      BY <1>16, <2>10, <2>2, <2>3, <2>4, <2>5, <2>6, <2>7, <2>8, <2>9 DEF sigchld_hdl
  <1>17. ASSUME NEW p \in Pid, ChildExit(p)
         PROVE  TypeInv'
    BY <1>17 DEF ChildExit, TypeOK
  <1>18. ASSUME NEW p \in Pid, ForeignFork(p)
         PROVE  TypeInv'
    BY <1>18 DEF ForeignFork, TypeOK
  <1>19. ASSUME NEW i \in DOMAIN msgInProgress, OperationTimeout(i)
         PROVE  TypeInv'
    <2>1. i \in 1..Len(msgInProgress) /\ msgInProgress[i] \in Instance
      BY LenProperties, ElementOfSeq DEF TypeOK
    <2>2. [msgInProgress[i] EXCEPT !.late = TRUE] \in Instance
      BY <2>1 DEF Instance
    <2>3. msgInProgress' = [msgInProgress EXCEPT ![i] = [msgInProgress[i] EXCEPT !.late = TRUE]]
      BY <1>19 DEF OperationTimeout
    <2>4. msgInProgress' \in Seq(Instance)
      BY <2>1, <2>2, <2>3, ExceptSeq DEF TypeOK
    <2>5. QED
      BY <1>19, <2>4 DEF OperationTimeout, TypeOK
  <1>20. CASE UNCHANGED vars
    BY <1>20 DEF vars, TypeOK
  <1>21. QED
    BY <1>1, <1>2, <1>3, <1>4, <1>5, <1>6, <1>7, <1>8, <1>9, <1>10, <1>11, <1>12, <1>p, <1>13,
       <1>14, <1>15, <1>16, <1>17, <1>18, <1>19, <1>20
    DEF Next, serverLoop, MainLoop

(* Every index the loops of main, the handler and the manager use stays in   *)
(* bounds (the counts of the double queue never exceed max_alen), and every  *)
(* value they store has its type, for any number of slots, whatever threads  *)
(* run the handler and whatever the uninitialised arrays held.               *)
THEOREM TypeCorrect == Spec => []TypeOK
  <1>1. TypeInv => TypeOK
    BY DEF TypeInv
  <1>2. QED
    BY <1>1, InitTypeInv, NextTypeInv, PTL DEF Spec

-----------------------------------------------------------------------------
(* The order of the groups of an object.                                     *)

(* What is queued or sent was produced.                                      *)
Produced(q) == \A i \in DOMAIN q : q[i].seq <= produced[q[i].obj]
OnlyProduced ==
    /\ Produced(internalDataQueue) /\ Produced(newGDataList) /\ Produced(dataQueue)
    /\ \A o \in Obj : sent[o] <= produced[o]

(* The private list is only in use while the manager merges it.              *)
MergeOwnsList == mgrPc # "merge" => newGDataList = <<>>

OrderInv == TypeInv /\ GroupsInOrder /\ OnlyProduced /\ MergeOwnsList /\ NewestKept

orderVars == <<produced, sent, dataQueue, newGDataList, internalDataQueue>>

(* The types of the queues, for the lemmas on the order of groups.            *)
LEMMA QueueFacts ==
    ASSUME NEW q \in Seq(Group)
    PROVE  /\ Len(q) \in Nat
           /\ DOMAIN q = 1..Len(q)
           /\ \A i \in 1..Len(q) : q[i] \in Group /\ q[i].obj \in Obj /\ q[i].seq \in Nat
           /\ \A g \in Group : g \in ToSet(q) <=> \E i \in 1..Len(q) : q[i] = g
  <1>1. Len(q) \in Nat /\ DOMAIN q = 1..Len(q)
    BY LenProperties
  <1>2. \A i \in 1..Len(q) : q[i] \in Group
    BY ElementOfSeq
  <1>3. \A g \in Group : g.obj \in Obj /\ g.seq \in Nat
    BY DEF Group
  <1>4. \A g \in Group : g \in ToSet(q) <=> \E i \in 1..Len(q) : q[i] = g
    BY <1>1 DEF ToSet
  <1>5. QED
    BY <1>1, <1>2, <1>3, <1>4

(* main starts with empty queues, which are in order.                         *)
LEMMA OrderInit == Init => OrderInv
  <1> SUFFICES ASSUME Init PROVE OrderInv
    OBVIOUS
  <1>1. TypeInv
    BY InitTypeInv
  <1>2. DOMAIN dataQueue = {} /\ DOMAIN newGDataList = {} /\ DOMAIN internalDataQueue = {}
    BY DEF Init
  <1>3. QED
    BY <1>1, <1>2
    DEF Init, OrderInv, GroupsInOrder, OnlyProduced, MergeOwnsList, NewestKept,
        Newer, Ascending, Unsent, Produced

(* A step that leaves the queues alone and does not enter the merge loop.    *)
LEMMA OrderStutter ==
    ASSUME OrderInv, TypeInv', UNCHANGED orderVars,
           mgrPc' = mgrPc \/ (mgrPc # "merge" /\ mgrPc' # "merge")
    PROVE  OrderInv'
  <1>1. MergeOwnsList'
    BY DEF OrderInv, MergeOwnsList, orderVars
  <1>2. QED
    BY <1>1
    DEF OrderInv, orderVars, GroupsInOrder, OnlyProduced, NewestKept, Newer, Ascending, Unsent,
        Produced

(* addToDataQueue appends a group newer than all others of its object.        *)
LEMMA OrderAdd ==
    ASSUME OrderInv, TypeInv', NEW o \in Obj, addToDataQueue(o)
    PROVE  OrderInv'
  <1> DEFINE g == [obj |-> o, seq |-> produced[o] + 1]
             d == dataQueue
             n == Len(dataQueue)
  <1>0. UNCHANGED <<sent, newGDataList, internalDataQueue, mgrPc>>
    BY DEF addToDataQueue, scanVars
  <1>1. TypeOK
    BY DEF OrderInv, TypeInv
  <1>2. g \in Group /\ g.obj = o /\ g.seq = produced[o] + 1 /\ produced[o] \in Nat
    BY <1>1 DEF TypeOK, Group
  <1>3. dataQueue' = Append(dataQueue, g) /\ produced' = [produced EXCEPT ![o] = @ + 1]
    BY DEF addToDataQueue
  <1>4. /\ dataQueue \in Seq(Group) /\ newGDataList \in Seq(Group)
        /\ internalDataQueue \in Seq(Group) /\ dataQueue' \in Seq(Group)
        /\ produced \in [Obj -> Nat] /\ sent \in [Obj -> Nat]
    BY <1>1 DEF TypeOK, TypeInv
  <1>5. /\ n \in Nat /\ Len(dataQueue') = n + 1 /\ dataQueue'[n + 1] = g
        /\ \A i \in 1..n : dataQueue'[i] = dataQueue[i]
    BY <1>2, <1>3, <1>4, AppendProperties, LenProperties
  <1>6. /\ DOMAIN dataQueue = 1..n /\ DOMAIN dataQueue' = 1..(n + 1)
        /\ \A i \in 1..n : dataQueue[i].obj \in Obj /\ dataQueue[i].seq \in Nat
    BY <1>4, <1>5, QueueFacts
  <1>7. /\ DOMAIN newGDataList = 1..Len(newGDataList)
        /\ \A i \in DOMAIN newGDataList :
              newGDataList[i].obj \in Obj /\ newGDataList[i].seq \in Nat
        /\ DOMAIN internalDataQueue = 1..Len(internalDataQueue)
        /\ \A i \in DOMAIN internalDataQueue :
              internalDataQueue[i].obj \in Obj /\ internalDataQueue[i].seq \in Nat
    BY <1>4, QueueFacts
  <1>8. \A x \in Obj : produced'[x] \in Nat /\ produced[x] <= produced'[x]
    BY <1>3, <1>4
  <1>9. produced'[o] = produced[o] + 1
    BY <1>3, <1>4
  <1> HIDE DEF g, n
  <1>i. \A i \in 1..(n + 1) : i \in 1..n \/ i = n + 1
    BY <1>5
  <1>p. \A i \in 1..n : dataQueue[i].seq <= produced[dataQueue[i].obj]
    BY <1>6 DEF OrderInv, OnlyProduced, Produced
  <1>10. OnlyProduced'
    <2>1. Produced(dataQueue)'
      <3> SUFFICES ASSUME NEW i \in 1..(n + 1)
                   PROVE  dataQueue'[i].seq <= produced'[dataQueue'[i].obj]
        BY <1>6 DEF Produced
      <3>1. CASE i \in 1..n
        BY <1>4, <1>5, <1>6, <1>8, <1>p, <3>1
      <3>2. CASE i = n + 1
        BY <1>2, <1>5, <1>9, <3>2
      <3>3. QED
        BY <1>i, <3>1, <3>2
    <2>2. Produced(newGDataList)' /\ Produced(internalDataQueue)'
      BY <1>0, <1>4, <1>7, <1>8 DEF OrderInv, OnlyProduced, Produced
    <2>3. \A x \in Obj : sent'[x] <= produced'[x]
      BY <1>0, <1>4, <1>8 DEF OrderInv, OnlyProduced
    <2>4. QED
      BY <2>1, <2>2, <2>3 DEF OnlyProduced
  <1>11. Ascending(dataQueue)'
    <2> SUFFICES ASSUME NEW i \in 1..(n + 1), NEW j \in 1..(n + 1), i < j,
                        dataQueue'[i].obj = dataQueue'[j].obj
                 PROVE  dataQueue'[i].seq < dataQueue'[j].seq
      BY <1>6 DEF Ascending
    <2>1. i \in 1..n /\ dataQueue'[i] = dataQueue[i]
      BY <1>5
    <2>2. CASE j \in 1..n
      BY <1>5, <1>6, <2>1, <2>2 DEF OrderInv, GroupsInOrder, Ascending
    <2>3. CASE j = n + 1
      BY <1>2, <1>4, <1>5, <1>6, <1>p, <2>1, <2>3
    <2>4. QED
      BY <1>i, <2>2, <2>3
  <1>12. Unsent(dataQueue)'
    <2> SUFFICES ASSUME NEW i \in 1..(n + 1)
                 PROVE  sent[dataQueue'[i].obj] < dataQueue'[i].seq
      BY <1>0, <1>6 DEF Unsent
    <2>1. CASE i \in 1..n
      BY <1>5, <1>6, <2>1 DEF OrderInv, GroupsInOrder, Unsent
    <2>2. CASE i = n + 1
      <3>1. sent[o] <= produced[o] /\ sent[o] \in Nat
        BY <1>4 DEF OrderInv, OnlyProduced
      <3>2. QED
        BY <1>2, <1>5, <2>2, <3>1
    <2>3. QED
      BY <1>i, <2>1, <2>2
  <1>13. Newer(newGDataList, dataQueue)'
    <2> SUFFICES ASSUME NEW i \in DOMAIN newGDataList, NEW j \in 1..(n + 1),
                        newGDataList[i].obj = dataQueue'[j].obj
                 PROVE  newGDataList[i].seq < dataQueue'[j].seq
      BY <1>0, <1>6 DEF Newer
    <2>1. CASE j \in 1..n
      BY <1>5, <1>6, <2>1 DEF OrderInv, GroupsInOrder, Newer
    <2>2. CASE j = n + 1
      <3>1. newGDataList[i].seq <= produced[o]
        BY <1>2, <1>5, <2>2 DEF OrderInv, OnlyProduced, Produced
      <3>2. QED
        BY <1>2, <1>5, <1>7, <2>2, <3>1
    <2>3. QED
      BY <1>i, <2>1, <2>2
  <1>14. Newer(internalDataQueue, dataQueue)'
    <2> SUFFICES ASSUME NEW i \in DOMAIN internalDataQueue, NEW j \in 1..(n + 1),
                        internalDataQueue[i].obj = dataQueue'[j].obj
                 PROVE  internalDataQueue[i].seq < dataQueue'[j].seq
      BY <1>0, <1>6 DEF Newer
    <2>1. CASE j \in 1..n
      BY <1>5, <1>6, <2>1 DEF OrderInv, GroupsInOrder, Newer
    <2>2. CASE j = n + 1
      <3>1. internalDataQueue[i].seq <= produced[o]
        BY <1>2, <1>5, <2>2 DEF OrderInv, OnlyProduced, Produced
      <3>2. QED
        BY <1>2, <1>5, <1>7, <2>2, <3>1
    <2>3. QED
      BY <1>i, <2>1, <2>2
  <1>15. GroupsInOrder'
    BY <1>0, <1>11, <1>12, <1>13, <1>14 DEF OrderInv, GroupsInOrder, Newer, Ascending, Unsent
  <1>16. NewestKept'
    <2> SUFFICES ASSUME NEW x \in Obj, produced'[x] # sent'[x]
                 PROVE  [obj |-> x, seq |-> produced'[x]]
                          \in (ToSet(internalDataQueue) \cup ToSet(newGDataList)
                                 \cup ToSet(dataQueue))'
      BY DEF NewestKept
    <2>1. CASE x = o
      <3>1. [obj |-> x, seq |-> produced'[x]] = dataQueue'[n + 1]
        BY <1>5, <1>9, <2>1 DEF g
      <3>2. QED
        BY <1>5, <1>6, <3>1 DEF ToSet
    <2>2. CASE x # o
      <3>1. produced'[x] = produced[x]
        BY <1>3, <1>4, <2>2
      <3>2. [obj |-> x, seq |-> produced[x]]
              \in ToSet(internalDataQueue) \cup ToSet(newGDataList) \cup ToSet(dataQueue)
        BY <1>0, <3>1 DEF OrderInv, NewestKept
      <3>3. ToSet(dataQueue) \subseteq ToSet(dataQueue')
        BY <1>5, <1>6 DEF ToSet
      <3>4. QED
        BY <1>0, <3>1, <3>2, <3>3
    <2>3. QED
      BY <2>1, <2>2
  <1>17. MergeOwnsList'
    BY <1>0 DEF OrderInv, MergeOwnsList
  <1>18. QED
    BY <1>10, <1>15, <1>16, <1>17 DEF OrderInv

(* Taking dataQueue over moves it whole to newGDataList, which was empty.      *)
LEMMA OrderTake ==
    ASSUME OrderInv, TypeInv', TakeDataQueue
    PROVE  OrderInv'
  <1>1. /\ newGDataList = <<>> /\ newGDataList' = dataQueue /\ dataQueue' = <<>>
        /\ UNCHANGED <<produced, sent, internalDataQueue>>
    BY DEF OrderInv, MergeOwnsList, TakeDataQueue, scanVars
  <1>2. DOMAIN newGDataList = {} /\ DOMAIN dataQueue' = {}
    BY <1>1
  <1>3. GroupsInOrder'
    BY <1>1, <1>2 DEF OrderInv, GroupsInOrder, Newer, Ascending, Unsent
  <1>4. OnlyProduced'
    BY <1>1, <1>2 DEF OrderInv, OnlyProduced, Produced
  <1>5. MergeOwnsList'
    BY <1>1 DEF TakeDataQueue, MergeOwnsList
  <1>6. NewestKept'
    BY <1>1, <1>2 DEF OrderInv, NewestKept, ToSet
  <1>7. QED
    BY <1>3, <1>4, <1>5, <1>6 DEF OrderInv

(* One turn of the merge loop of moveDataQueueToInternal: the group that is  *)
(* replaced is older than the one that takes its place.                      *)
LEMMA OrderMerge ==
    ASSUME OrderInv, TypeInv', MergeGroup
    PROVE  OrderInv'
  <1> DEFINE g == Head(newGDataList)
             q == internalDataQueue
             k == QueuedAt(g.obj)
             at == IF k = 0 THEN Len(q) + 1 ELSE k
  <1>0. UNCHANGED <<produced, sent, dataQueue>>
    BY DEF MergeGroup
  <1>1. TypeOK /\ newGDataList # <<>> /\ TypeOK'
    BY DEF OrderInv, TypeInv, MergeHasGroup, MergeGroup
  <1>2. /\ q \in Seq(Group) /\ q' \in Seq(Group)
        /\ newGDataList \in Seq(Group) /\ newGDataList' \in Seq(Group)
        /\ dataQueue \in Seq(Group)
        /\ produced \in [Obj -> Nat] /\ sent \in [Obj -> Nat]
    BY <1>1 DEF TypeOK
  <1>3. /\ newGDataList' = Tail(newGDataList)
        /\ q' = IF k = 0 THEN Append(q, g) ELSE [q EXCEPT ![k] = g]
    BY DEF MergeGroup
  <1>4. /\ g = newGDataList[1] /\ 1 \in 1..Len(newGDataList)
        /\ Len(newGDataList') = Len(newGDataList) - 1
        /\ \A i \in 1..Len(newGDataList') : newGDataList'[i] = newGDataList[i + 1]
    BY <1>1, <1>2, <1>3, HeadTailProperties, EmptySeq
  <1>5. g \in Group /\ g.obj \in Obj /\ g.seq \in Nat
    BY <1>2, <1>4, QueueFacts
  <1>6. /\ k = 0 => \A i \in 1..Len(q) : q[i].obj # g.obj
        /\ k # 0 => k \in 1..Len(q) /\ q[k].obj = g.obj
    BY <1>1, QueuedAtIndex
  <1>7. /\ at \in 1..Len(q') /\ q'[at] = g
        /\ \A i \in 1..Len(q') : i # at => i \in 1..Len(q) /\ q'[i] = q[i] /\ q[i].obj # g.obj
        /\ \A i \in 1..Len(q) : i # at => i \in 1..Len(q') /\ q'[i] = q[i]
        /\ \A i \in 1..Len(q) : i = at => q[i].obj = g.obj
    <2>1. Len(q) \in Nat
      BY <1>2, LenProperties
    <2>2. CASE k = 0
      <3>1. /\ Len(q') = Len(q) + 1 /\ q'[Len(q) + 1] = g
            /\ \A i \in 1..Len(q) : q'[i] = q[i]
        BY <1>2, <1>3, <1>5, <2>2, AppendProperties
      <3>2. at = Len(q) + 1
        BY <2>2
      <3>3. QED
        BY <1>6, <2>1, <2>2, <3>1, <3>2
    <2>3. CASE k # 0
      <3>1. k \in 1..Len(q) /\ q[k].obj = g.obj /\ at = k
        BY <1>6, <2>3
      <3>2. /\ Len(q') = Len(q)
            /\ \A i \in 1..Len(q) : q'[i] = IF i = k THEN g ELSE q[i]
        BY <1>2, <1>3, <1>5, <2>3, <3>1, ExceptSeq
      <3>3. \A i \in 1..Len(q) : i # k => q[i].obj # g.obj
        BY <1>2, <3>1, QueueFacts DEF OrderInv, GroupsInOrder
      <3>4. QED
        BY <2>1, <3>1, <3>2, <3>3
    <2>4. QED
      BY <2>2, <2>3
  <1>8. /\ DOMAIN q = 1..Len(q) /\ DOMAIN q' = 1..Len(q')
        /\ DOMAIN newGDataList = 1..Len(newGDataList)
        /\ DOMAIN newGDataList' = 1..Len(newGDataList')
        /\ Len(newGDataList) \in Nat /\ Len(q) \in Nat /\ Len(q') \in Nat
        /\ \A i \in 1..Len(newGDataList') : i + 1 \in 1..Len(newGDataList) /\ 1 < i + 1
        /\ \A i \in 1..Len(newGDataList) :
              newGDataList[i].obj \in Obj /\ newGDataList[i].seq \in Nat
        /\ \A i \in 1..Len(q) : q[i].obj \in Obj /\ q[i].seq \in Nat
    BY <1>2, <1>4, QueueFacts
  <1> HIDE DEF g, k, at, q
  <1>9. \A i, j \in 1..Len(q') : i # j => q'[i].obj # q'[j].obj
    <2> SUFFICES ASSUME NEW i \in 1..Len(q'), NEW j \in 1..Len(q'), i # j
                 PROVE  q'[i].obj # q'[j].obj
      OBVIOUS
    <2>u. \A a, b \in 1..Len(q) : a # b => q[a].obj # q[b].obj
      BY <1>8 DEF OrderInv, GroupsInOrder, q
    <2>1. CASE i = at
      BY <1>7, <2>1
    <2>2. CASE j = at
      BY <1>7, <2>2
    <2>3. CASE i # at /\ j # at
      BY <1>7, <2>u, <2>3
    <2>4. QED
      BY <2>1, <2>2, <2>3
  <1>t. \A i \in 1..Len(newGDataList') :
           i + 1 \in DOMAIN newGDataList /\ newGDataList'[i] = newGDataList[i + 1]
    BY <1>4, <1>8
  <1>10. Ascending(newGDataList)'
    <2> SUFFICES ASSUME NEW i \in 1..Len(newGDataList'), NEW j \in 1..Len(newGDataList'),
                        i < j, newGDataList'[i].obj = newGDataList'[j].obj
                 PROVE  newGDataList'[i].seq < newGDataList'[j].seq
      BY <1>8 DEF Ascending
    <2>1. i + 1 < j + 1
      BY <1>8
    <2>2. QED
      BY <1>t, <2>1 DEF OrderInv, GroupsInOrder, Ascending
  <1>11. Newer(internalDataQueue, newGDataList)'
    <2> SUFFICES ASSUME NEW i \in 1..Len(q'), NEW j \in 1..Len(newGDataList'),
                        q'[i].obj = newGDataList[j + 1].obj
                 PROVE  q'[i].seq < newGDataList[j + 1].seq
      BY <1>4, <1>8 DEF Newer, q
    <2>1. CASE i = at
      BY SMTT(30), <1>4, <1>7, <1>8, <2>1 DEF OrderInv, GroupsInOrder, Ascending
    <2>2. CASE i # at
      BY <1>7, <1>8, <2>2 DEF OrderInv, GroupsInOrder, Newer, q
    <2>3. QED
      BY <2>1, <2>2
  <1>12. Newer(internalDataQueue, dataQueue)'
    <2> SUFFICES ASSUME NEW i \in 1..Len(q'), NEW j \in DOMAIN dataQueue,
                        q'[i].obj = dataQueue[j].obj
                 PROVE  q'[i].seq < dataQueue[j].seq
      BY <1>0, <1>8 DEF Newer, q
    <2>1. CASE i = at
      BY SMTT(30), <1>4, <1>7, <1>8, <2>1 DEF OrderInv, GroupsInOrder, Newer
    <2>2. CASE i # at
      BY <1>7, <1>8, <2>2 DEF OrderInv, GroupsInOrder, Newer, q
    <2>3. QED
      BY <2>1, <2>2
  <1>13. Newer(newGDataList, dataQueue)'
    <2> SUFFICES ASSUME NEW i \in 1..Len(newGDataList'), NEW j \in DOMAIN dataQueue,
                        newGDataList'[i].obj = dataQueue[j].obj
                 PROVE  newGDataList'[i].seq < dataQueue[j].seq
      BY <1>0, <1>8 DEF Newer
    <2>1. QED
      BY <1>t DEF OrderInv, GroupsInOrder, Newer
  <1>14. Unsent(internalDataQueue)' /\ Produced(internalDataQueue)'
    <2> SUFFICES ASSUME NEW i \in 1..Len(q')
                 PROVE  sent[q'[i].obj] < q'[i].seq /\ q'[i].seq <= produced[q'[i].obj]
      BY <1>0, <1>8 DEF Unsent, Produced, q
    <2>1. CASE i = at
      BY <1>4, <1>7, <1>8, <2>1
      DEF OrderInv, GroupsInOrder, OnlyProduced, Unsent, Produced
    <2>2. CASE i # at
      BY <1>7, <1>8, <2>2 DEF OrderInv, GroupsInOrder, OnlyProduced, Unsent, Produced, q
    <2>3. QED
      BY <2>1, <2>2
  <1>15. Unsent(newGDataList)' /\ Produced(newGDataList)'
    BY <1>0, <1>8, <1>t DEF OrderInv, GroupsInOrder, OnlyProduced, Unsent, Produced
  <1>16. Ascending(dataQueue)' /\ Unsent(dataQueue)' /\ Produced(dataQueue)'
    BY <1>0 DEF OrderInv, GroupsInOrder, OnlyProduced, Ascending, Unsent, Produced
  <1>17. GroupsInOrder' /\ OnlyProduced'
    BY <1>0, <1>8, <1>9, <1>10, <1>11, <1>12, <1>13, <1>14, <1>15, <1>16
    DEF OrderInv, GroupsInOrder, OnlyProduced, q
  <1>18. MergeOwnsList'
    BY DEF MergeGroup, MergeOwnsList
  <1>19. NewestKept'
    <2> SUFFICES ASSUME NEW x \in Obj, produced[x] # sent[x],
                        NEW h, h = [obj |-> x, seq |-> produced[x]]
                 PROVE  h \in (ToSet(internalDataQueue) \cup ToSet(newGDataList)
                                 \cup ToSet(dataQueue))'
      BY <1>0 DEF NewestKept
    <2>1. h \in ToSet(internalDataQueue) \cup ToSet(newGDataList) \cup ToSet(dataQueue)
      BY DEF OrderInv, NewestKept
    <2>2. CASE h \in ToSet(dataQueue)
      BY <1>0, <2>2
    <2>3. CASE h \in ToSet(newGDataList)
      <3>1. PICK i \in 1..Len(newGDataList) : newGDataList[i] = h
        BY <1>8, <2>3 DEF ToSet
      <3>2. CASE i = 1
        BY <1>4, <1>7, <1>8, <3>1, <3>2 DEF ToSet, q
      <3>3. CASE i # 1
        <4>1. i - 1 \in 1..Len(newGDataList') /\ (i - 1) + 1 = i
          BY <1>4, <1>8, <3>3
        <4>2. newGDataList'[i - 1] = h
          BY <1>4, <3>1, <4>1
        <4>3. QED
          BY <1>8, <4>1, <4>2 DEF ToSet
      <3>4. QED
        BY <3>2, <3>3
    <2>4. CASE h \in ToSet(internalDataQueue)
      <3>1. PICK i \in 1..Len(q) : q[i] = h
        BY <1>8, <2>4 DEF ToSet, q
      <3>2. i # at
        <4>1. SUFFICES ASSUME i = at PROVE FALSE
          OBVIOUS
        <4>2. q[i].obj = g.obj /\ q[i].seq = produced[x] /\ g.obj = x
          BY <1>7, <3>1, <4>1
        <4>3. q[i].seq < g.seq
          BY <1>4, <1>8, <4>2 DEF OrderInv, GroupsInOrder, Newer, q
        <4>4. g.seq <= produced[x]
          BY <1>4, <1>8, <4>2 DEF OrderInv, OnlyProduced, Produced
        <4>5. QED
          BY <1>2, <1>5, <1>8, <4>2, <4>3, <4>4
      <3>3. q'[i] = h /\ i \in 1..Len(q')
        BY <1>7, <3>1, <3>2
      <3>4. QED
        BY <1>8, <3>3 DEF ToSet, q
    <2>5. QED
      BY <2>1, <2>2, <2>3, <2>4
  <1>20. QED
    BY <1>17, <1>18, <1>19 DEF OrderInv

(* A launch takes a group out of internalDataQueue and makes it the one last *)
(* sent.                                                                     *)
LEMMA OrderLaunch ==
    ASSUME OrderInv, TypeInv', NEW p \in Pid, ScanLaunch(p)
    PROVE  OrderInv'
  <1> DEFINE q == internalDataQueue
             g == internalDataQueue[it]
             src(i) == IF i < it THEN i ELSE i + 1
  <1>0. UNCHANGED <<produced, dataQueue, newGDataList>>
    BY DEF ScanLaunch, queueVars
  <1>1. TypeOK /\ TypeOK'
    BY DEF OrderInv, TypeInv
  <1>2. /\ q \in Seq(Group) /\ q' \in Seq(Group) /\ dataQueue \in Seq(Group)
        /\ produced \in [Obj -> Nat] /\ sent \in [Obj -> Nat]
    BY <1>1 DEF TypeOK
  <1>3. it \in 1..Len(q) /\ Len(q) \in Nat
    BY <1>1, <1>2, LenProperties DEF TypeOK, ScanLaunch
  <1>4. g \in Group /\ g.obj \in Obj /\ g.seq \in Nat
    BY <1>2, <1>3, QueueFacts
  <1>5. q' = RemoveAt(q, it) /\ sent' = [sent EXCEPT ![g.obj] = g.seq]
    BY DEF ScanLaunch
  <1>6. mgrPc = "scan" /\ mgrPc' # "merge" /\ newGDataList = <<>> /\ DOMAIN newGDataList = {}
    <2>1. mgrPc = "scan" /\ mgrPc' # "merge"
      BY DEF ScanLaunch, Scanning
    <2>2. QED
      BY <2>1 DEF OrderInv, MergeOwnsList
  <1>7. Len(q') = Len(q) - 1 /\ DOMAIN q' = 1..Len(q') /\ DOMAIN q = 1..Len(q)
    BY <1>2, <1>3, <1>5, RemoveAtProperties, QueueFacts
  <1>8. \A i \in DOMAIN q' : src(i) \in DOMAIN q /\ src(i) # it /\ q'[i] = q[src(i)]
    <2> SUFFICES ASSUME NEW i \in DOMAIN q'
                 PROVE  src(i) \in DOMAIN q /\ src(i) # it /\ q'[i] = q[src(i)]
      OBVIOUS
    <2>1. i \in 1..(Len(q) - 1)
      BY <1>7
    <2>2. q'[i] = IF i < it THEN q[i] ELSE q[i + 1]
      BY <1>2, <1>3, <1>5, <2>1, RemoveAtProperties
    <2>3. QED
      BY <1>3, <1>7, <2>1, <2>2
  <1>9. \A i \in DOMAIN q' : q'[i].obj \in Obj /\ q'[i].obj # g.obj
    <2>1. \A i \in DOMAIN q : i # it => q[i].obj \in Obj /\ q[i].obj # g.obj
      BY <1>2, <1>3, <1>7, QueueFacts DEF OrderInv, GroupsInOrder
    <2>2. QED
      BY <1>8, <2>1
  <1>10. \A o \in Obj : sent'[o] = IF o = g.obj THEN g.seq ELSE sent[o]
    BY <1>2, <1>4, <1>5
  <1>11. \A i, j \in DOMAIN q' : i # j => src(i) # src(j)
    BY <1>3, <1>7
  <1> HIDE DEF q, g, src
  <1>12. \A i, j \in DOMAIN q' : i # j => q'[i].obj # q'[j].obj
    BY <1>8, <1>11 DEF OrderInv, GroupsInOrder, q
  <1>13. Newer(internalDataQueue, dataQueue)'
    BY <1>0, <1>8 DEF OrderInv, GroupsInOrder, Newer, q
  <1>14. Unsent(internalDataQueue)' /\ Produced(internalDataQueue)'
    <2> SUFFICES ASSUME NEW i \in DOMAIN q'
                 PROVE  sent'[q'[i].obj] < q'[i].seq /\ q'[i].seq <= produced[q'[i].obj]
      BY <1>0 DEF Unsent, Produced, q
    <2>1. sent'[q'[i].obj] = sent[q'[i].obj]
      BY <1>9, <1>10
    <2>2. QED
      BY <1>8, <2>1 DEF OrderInv, GroupsInOrder, OnlyProduced, Unsent, Produced, q
  <1>15. Unsent(dataQueue)'
    <2> SUFFICES ASSUME NEW i \in DOMAIN dataQueue
                 PROVE  sent'[dataQueue[i].obj] < dataQueue[i].seq
      BY <1>0 DEF Unsent
    <2>1. dataQueue[i].obj \in Obj
      BY <1>2, QueueFacts
    <2>2. CASE dataQueue[i].obj = g.obj
      <3>1. g.seq < dataQueue[i].seq
        BY <1>3, <1>7, <2>2 DEF OrderInv, GroupsInOrder, Newer, q, g
      <3>2. QED
        BY <1>4, <1>10, <2>2, <3>1
    <2>3. CASE dataQueue[i].obj # g.obj
      BY <1>10, <2>1, <2>3 DEF OrderInv, GroupsInOrder, Unsent
    <2>4. QED
      BY <2>2, <2>3
  <1>16. GroupsInOrder'
    <2>1. /\ Ascending(newGDataList)' /\ Unsent(newGDataList)'
          /\ Newer(internalDataQueue, newGDataList)' /\ Newer(newGDataList, dataQueue)'
      BY <1>0, <1>6 DEF Ascending, Unsent, Newer
    <2>2. Ascending(dataQueue)'
      BY <1>0 DEF OrderInv, GroupsInOrder, Ascending
    <2>3. QED
      BY <1>12, <1>13, <1>14, <1>15, <2>1, <2>2 DEF GroupsInOrder, q
  <1>17. OnlyProduced'
    <2>1. Produced(newGDataList)' /\ Produced(dataQueue)'
      BY <1>0, <1>6 DEF OrderInv, OnlyProduced, Produced
    <2>2. \A o \in Obj : sent'[o] <= produced'[o]
      <3>1. g.seq <= produced[g.obj]
        BY <1>3, <1>7 DEF OrderInv, OnlyProduced, Produced, q, g
      <3>2. \A o \in Obj : sent[o] <= produced[o]
        BY DEF OrderInv, OnlyProduced
      <3>3. QED
        BY <1>0, <1>10, <3>1, <3>2
    <2>3. QED
      BY <1>14, <2>1, <2>2 DEF OnlyProduced
  <1>18. MergeOwnsList'
    BY <1>0, <1>6 DEF MergeOwnsList
  <1>19. NewestKept'
    <2> SUFFICES ASSUME NEW x \in Obj, produced[x] # sent'[x],
                        NEW h, h = [obj |-> x, seq |-> produced[x]]
                 PROVE  h \in (ToSet(internalDataQueue) \cup ToSet(newGDataList)
                                 \cup ToSet(dataQueue))'
      BY <1>0 DEF NewestKept
    <2>1. produced[x] # sent[x]
      (* If sent[x] were the newest, the group launched for x would be newer. *)
      <3>1. SUFFICES ASSUME produced[x] = sent[x] PROVE FALSE
        OBVIOUS
      <3>2. x = g.obj /\ sent'[x] = g.seq
        BY <1>10, <3>1
      <3>3. sent[x] < g.seq /\ g.seq <= produced[x]
        BY <1>3, <1>7, <3>2 DEF OrderInv, GroupsInOrder, OnlyProduced, Unsent, Produced, q, g
      <3>4. QED
        BY <1>2, <1>4, <3>1, <3>3
    <2>2. h \in ToSet(internalDataQueue) \cup ToSet(newGDataList) \cup ToSet(dataQueue)
      BY <2>1 DEF OrderInv, NewestKept
    <2>3. CASE h \in ToSet(internalDataQueue)
      <3>1. PICK i \in DOMAIN q : q[i] = h
        BY <2>3 DEF ToSet, q
      <3>2. i # it
        BY <1>10, <3>1 DEF q, g
      <3>3. PICK j \in DOMAIN q' : src(j) = i
        <4>1. CASE i < it
          <5>1. i \in DOMAIN q' /\ src(i) = i
            BY <1>3, <1>7, <4>1 DEF src
          <5>2. QED
            BY <5>1
        <4>2. CASE i > it
          <5>1. i - 1 \in DOMAIN q' /\ src(i - 1) = i
            BY <1>3, <1>7, <4>2 DEF src
          <5>2. QED
            BY <5>1
        <4>3. QED
          BY <1>3, <1>7, <3>2, <4>1, <4>2
      <3>4. QED
        BY <1>8, <3>1, <3>3 DEF ToSet, q
    <2>4. CASE h \in ToSet(newGDataList) \cup ToSet(dataQueue)
      BY <1>0, <2>4
    <2>5. QED
      BY <2>2, <2>3, <2>4
  <1>20. QED
    BY <1>16, <1>17, <1>18, <1>19 DEF OrderInv

(* The order of groups is kept by every step of the specification.            *)
LEMMA OrderNext == OrderInv /\ [Next]_vars => OrderInv'
  <1> SUFFICES ASSUME OrderInv, [Next]_vars
               PROVE  OrderInv'
    OBVIOUS
  <1>0. TypeInv'
    BY NextTypeInv DEF OrderInv
  <1> USE DEF queueVars, scanVars, sigVars, mainVars, kernVars, orderVars
  <1>1. ASSUME NEW o \in Obj, addToDataQueue(o)
        PROVE  OrderInv'
    BY <1>0, <1>1, OrderAdd
  <1>2. CASE TakeDataQueue
    BY <1>0, <1>2, OrderTake
  <1>3. CASE MergeGroup
    BY <1>0, <1>3, OrderMerge
  <1>4. CASE terminateHangupInstances \/ CleanAllSlots \/ CleanSlot
    <2>1. UNCHANGED orderVars /\ mgrPc # "merge" /\ mgrPc' # "merge"
      BY <1>4 DEF terminateHangupInstances, CleanAllSlots, CleanSlot, AfterClean
    <2>2. QED
      BY <1>0, <2>1, OrderStutter
  <1>5. CASE ScanEnd \/ ScanSkip \/ ScanForkFail
    <2>1. UNCHANGED orderVars /\ mgrPc # "merge" /\ mgrPc' # "merge"
      BY <1>5 DEF ScanEnd, ScanSkip, ScanForkFail, Scanning
    <2>2. QED
      BY <1>0, <2>1, OrderStutter
  <1>6. ASSUME NEW p \in Pid, ScanLaunch(p)
        PROVE  OrderInv'
    BY <1>0, <1>6, OrderLaunch
  <1>7. CASE MainLoop
    <2>1. UNCHANGED orderVars /\ mgrPc' = mgrPc
      BY <1>7 DEF MainLoop, MainSwap, MainRead, MainPick, signalChildL2, MainReset
    <2>2. QED
      BY <1>0, <2>1, OrderStutter
  <1>8. ASSUME NEW t \in HandlerThreads, SigDeliver(t) \/ sigchld_hdl(t)
        PROVE  OrderInv'
    <2>1. UNCHANGED orderVars /\ mgrPc' = mgrPc
      BY <1>8, Zenon
      DEF SigDeliver, sigchld_hdl, OnlyHandler, HandlerWaitpid, HandlerReturn, HandlerPickQueue,
          HandlerReadCount, HandlerStore, HandlerSelectCount, HandlerWriteCount
    <2>2. QED
      BY <1>0, <2>1, OrderStutter
  <1>9. ASSUME NEW p \in Pid, ChildExit(p) \/ ForeignFork(p)
        PROVE  OrderInv'
    <2>1. UNCHANGED orderVars /\ mgrPc' = mgrPc
      BY <1>9 DEF ChildExit, ForeignFork
    <2>2. QED
      BY <1>0, <2>1, OrderStutter
  <1>10. ASSUME NEW i \in DOMAIN msgInProgress, OperationTimeout(i)
         PROVE  OrderInv'
    <2>1. UNCHANGED orderVars /\ mgrPc' = mgrPc
      BY <1>10 DEF OperationTimeout
    <2>2. QED
      BY <1>0, <2>1, OrderStutter
  <1>11. CASE UNCHANGED vars
    <2>1. UNCHANGED orderVars /\ mgrPc' = mgrPc
      BY <1>11 DEF vars
    <2>2. QED
      BY <1>0, <2>1, OrderStutter
  <1>12. QED
    BY <1>1, <1>2, <1>3, <1>4, <1>5, <1>6, <1>7, <1>8, <1>9, <1>10, <1>11
    DEF Next, serverLoop

(* moveDataQueueToInternal and the scan of serverLoop keep the groups of     *)
(* every object in order, one waiting group per object: no child ever sends  *)
(* an older group after a newer one, for any number of objects and slots.    *)
THEOREM OrderCorrect == Spec => []GroupsInOrder
  <1>1. OrderInv => GroupsInOrder
    BY DEF OrderInv
  <1>2. QED
    BY <1>1, OrderInit, OrderNext, PTL DEF Spec

(* Replacing waiting groups loses only superseded ones: the newest group of  *)
(* an object is queued until a child has been started for it.                *)
THEOREM NewestCorrect == Spec => []NewestKept
  <1>1. OrderInv => NewestKept
    BY DEF OrderInv
  <1>2. QED
    BY <1>1, OrderInit, OrderNext, PTL DEF Spec

-----------------------------------------------------------------------------
(* Instances and objects.  None of this depends on how pids are given out or *)
(* on which threads run the SIGCHLD handler.                                 *)

ObjectsExclusive ==
    /\ Len(msgInProgress) <= MaxParallel
    /\ \A i, j \in DOMAIN msgInProgress : i # j => msgInProgress[i].obj # msgInProgress[j].obj

(* serverLoop scans only while a slot is free.                               *)
ScanHasRoom == mgrPc = "scan" => Len(msgInProgress) < MaxParallel

(* isLigthsPresent remembers that a lights object was launched.              *)
LightsOnce ==
    /\ ~isLigthsPresent => \A l \in Lights : sent[l] = 0
    /\ \A l1, l2 \in Lights : sent[l1] # 0 /\ sent[l2] # 0 => l1 = l2

(* What is in progress was sent.                                             *)
ProgressSent == \A i \in DOMAIN msgInProgress : sent[msgInProgress[i].obj] # 0

SlotInv == OrderInv /\ ObjectsExclusive /\ ScanHasRoom /\ LightsOnce /\ ProgressSent

(* The types of the instances in progress.                                   *)
LEMMA InstanceFacts ==
    ASSUME NEW s \in Seq(Instance)
    PROVE  /\ Len(s) \in Nat
           /\ DOMAIN s = 1..Len(s)
           /\ \A i \in 1..Len(s) :
                 s[i] \in Instance /\ s[i].obj \in Obj /\ s[i].pid \in Pid /\ s[i].late \in BOOLEAN
           /\ ToSet(s) = {s[i] : i \in 1..Len(s)}
  <1>1. Len(s) \in Nat /\ DOMAIN s = 1..Len(s)
    BY LenProperties
  <1>2. \A i \in 1..Len(s) : s[i] \in Instance
    BY ElementOfSeq
  <1>3. \A m \in Instance : m.obj \in Obj /\ m.pid \in Pid /\ m.late \in BOOLEAN
    BY DEF Instance
  <1>4. ToSet(s) = {s[i] : i \in 1..Len(s)}
    BY <1>1 DEF ToSet
  <1>5. QED
    BY <1>1, <1>2, <1>3, <1>4

(* The index in s of what is at place i once the element at c was removed.   *)
Before(c, i) == IF i < c THEN i ELSE i + 1

(* cleanCompletedMsgInstances erases the one instance with the reported pid, *)
(* or none if nobody has it.                                                 *)
LEMMA CleanErases ==
    ASSUME TypeOK, CleanSlot
    PROVE  \/ /\ msgInProgress' = msgInProgress
              /\ \A i \in DOMAIN msgInProgress : msgInProgress[i].pid # waitChildPid[lp]
           \/ \E c \in DOMAIN msgInProgress :
                 /\ msgInProgress[c].pid = waitChildPid[lp]
                 /\ msgInProgress' \in Seq(Instance)
                 /\ Len(msgInProgress') = Len(msgInProgress) - 1
                 /\ DOMAIN msgInProgress' = 1..(Len(msgInProgress) - 1)
                 /\ \A i \in DOMAIN msgInProgress' :
                       /\ Before(c, i) \in DOMAIN msgInProgress /\ Before(c, i) # c
                       /\ msgInProgress'[i] = msgInProgress[Before(c, i)]
                 /\ \A i \in DOMAIN msgInProgress :
                       i # c => \E j \in DOMAIN msgInProgress' : Before(c, j) = i
  <1> DEFINE s == msgInProgress
             c == CleanIndex(lp)
  <1>1. s \in Seq(Instance) /\ Len(s) \in Nat /\ DOMAIN s = 1..Len(s)
    BY InstanceFacts DEF TypeOK
  <1>2. s' = IF c = 0 THEN s ELSE RemoveAt(s, c)
    BY DEF CleanSlot, CleanIndex
  <1>3. CASE c = 0
    BY <1>1, <1>2, <1>3, CleanIndexProperties
  <1>4. CASE c # 0
    <2>1. c \in 1..Len(s) /\ s[c].pid = waitChildPid[lp]
      BY <1>4, CleanIndexProperties
    <2>2. /\ s' \in Seq(Instance) /\ Len(s') = Len(s) - 1
          /\ \A i \in 1..(Len(s) - 1) : s'[i] = IF i < c THEN s[i] ELSE s[i + 1]
      BY <1>1, <1>2, <1>4, <2>1, RemoveAtProperties
    <2>3. DOMAIN s' = 1..(Len(s) - 1)
      BY <2>2, InstanceFacts
    <2> HIDE DEF s, c
    <2>4. \A i \in DOMAIN s' : /\ Before(c, i) \in DOMAIN s /\ Before(c, i) # c
                               /\ s'[i] = s[Before(c, i)]
      BY <1>1, <2>1, <2>2, <2>3 DEF Before
    <2>5. ASSUME NEW i \in DOMAIN s, i # c
          PROVE  \E j \in DOMAIN s' : Before(c, j) = i
      <3>1. CASE i < c
        <4>1. i \in DOMAIN s' /\ Before(c, i) = i
          BY <1>1, <2>1, <2>3, <3>1 DEF Before
        <4>2. QED
          BY <4>1
      <3>2. CASE i > c
        <4>1. i - 1 \in DOMAIN s' /\ Before(c, i - 1) = i
          BY <1>1, <2>1, <2>3, <3>2 DEF Before
        <4>2. QED
          BY <4>1
      <3>3. QED
        BY <1>1, <2>1, <2>5, <3>1, <3>2
    <2>6. QED
      BY <1>1, <2>1, <2>2, <2>3, <2>4, <2>5 DEF s
  <1>5. QED
    BY <1>3, <1>4

(* A launch appends one instance.                                            *)
LEMMA LaunchAppends ==
    ASSUME TypeOK, NEW p \in Pid, ScanLaunch(p)
    PROVE  /\ it \in DOMAIN internalDataQueue /\ internalDataQueue[it] \in Group
           /\ internalDataQueue[it].obj \in Obj /\ internalDataQueue[it].seq \in Nat
           /\ Len(msgInProgress') = Len(msgInProgress) + 1
           /\ DOMAIN msgInProgress = 1..Len(msgInProgress)
           /\ DOMAIN msgInProgress' = 1..(Len(msgInProgress) + 1)
           /\ \A i \in DOMAIN msgInProgress : msgInProgress'[i] = msgInProgress[i]
           /\ msgInProgress'[Len(msgInProgress) + 1].obj = internalDataQueue[it].obj
           /\ msgInProgress'[Len(msgInProgress) + 1].pid = p
           /\ \A i \in DOMAIN msgInProgress :
                 msgInProgress[i].obj # internalDataQueue[it].obj
  <1> DEFINE g == internalDataQueue[it]
             m == [obj |-> g.obj, pid |-> p, late |-> FALSE]
             s == msgInProgress
  <1>1. s \in Seq(Instance) /\ Len(s) \in Nat /\ DOMAIN s = 1..Len(s) /\ ToSet(s) = {s[i] : i \in 1..Len(s)}
    BY InstanceFacts DEF TypeOK
  <1>2. it \in DOMAIN internalDataQueue /\ g \in Group /\ g.obj \in Obj /\ g.seq \in Nat
    BY QueueFacts DEF TypeOK, ScanLaunch
  <1>3. m \in Instance /\ m.obj = g.obj /\ m.pid = p
    BY <1>2 DEF Instance
  <1>4. s' = Append(s, m) /\ MayLaunch(g.obj)
    BY DEF ScanLaunch
  <1>5. s' \in Seq(Instance)
    BY <1>1, <1>3, <1>4, AppendProperties
  <1>6. \A i \in DOMAIN s : s[i].obj # g.obj
    BY <1>1, <1>4 DEF MayLaunch, InProgress
  <1> HIDE DEF m, s
  <1>7. /\ Len(s') = Len(s) + 1 /\ s'[Len(s) + 1] = m
        /\ \A i \in DOMAIN s : s'[i] = s[i]
    BY <1>1, <1>3, <1>4, AppendProperties
  <1>8. DOMAIN s' = 1..(Len(s) + 1)
    BY <1>5, <1>7, InstanceFacts
  <1>9. QED
    BY <1>1, <1>2, <1>3, <1>6, <1>7, <1>8 DEF s

(* The timeout only marks an instance.                                       *)
LEMMA TimeoutMarks ==
    ASSUME TypeOK, NEW k \in DOMAIN msgInProgress, OperationTimeout(k)
    PROVE  /\ Len(msgInProgress') = Len(msgInProgress)
           /\ DOMAIN msgInProgress' = DOMAIN msgInProgress
           /\ \A i \in DOMAIN msgInProgress : /\ msgInProgress'[i].obj = msgInProgress[i].obj
                                              /\ msgInProgress'[i].pid = msgInProgress[i].pid
  <1> DEFINE s == msgInProgress
             m == [s[k] EXCEPT !.late = TRUE]
  <1>1. s \in Seq(Instance) /\ Len(s) \in Nat /\ DOMAIN s = 1..Len(s)
    BY InstanceFacts DEF TypeOK
  <1>2. s[k] \in Instance
    BY <1>1, InstanceFacts
  <1>3. m \in Instance /\ m.obj = s[k].obj /\ m.pid = s[k].pid
    BY <1>2 DEF Instance
  <1>4. s' = [s EXCEPT ![k] = m]
    BY DEF OperationTimeout
  <1> HIDE DEF m
  <1>5. s' \in Seq(Instance) /\ Len(s') = Len(s) /\ DOMAIN s' = DOMAIN s
    BY <1>1, <1>3, <1>4, ExceptSeq, InstanceFacts
  <1>6. QED
    BY <1>1, <1>3, <1>4, <1>5


-----------------------------------------------------------------------------
slotVars == <<msgInProgress, sent, isLigthsPresent>>

(* A step that leaves the slots alone and does not begin a scan.             *)
LEMMA SlotStutter ==
    ASSUME SlotInv, OrderInv', UNCHANGED slotVars, mgrPc' = "scan" => mgrPc = "scan"
    PROVE  SlotInv'
  BY DEF SlotInv, slotVars, ObjectsExclusive, ScanHasRoom, LightsOnce, ProgressSent

(* main starts with free slots.                                              *)
LEMMA SlotInit == Init => SlotInv
  <1> SUFFICES ASSUME Init PROVE SlotInv
    OBVIOUS
  <1>1. OrderInv
    BY OrderInit
  <1>2. DOMAIN msgInProgress = {} /\ Len(msgInProgress) = 0
    BY DEF Init
  <1>3. \A l \in Lights : sent[l] = 0
    BY ConstAssumption DEF Init
  <1>4. ObjectsExclusive /\ ScanHasRoom /\ LightsOnce /\ ProgressSent
    BY <1>2, <1>3, ConstAssumption
    DEF Init, ObjectsExclusive, ScanHasRoom, LightsOnce, ProgressSent
  <1>5. QED
    BY <1>1, <1>4 DEF SlotInv

(* cleanCompletedMsgInstances only takes instances away.                      *)
LEMMA SlotClean ==
    ASSUME SlotInv, OrderInv', CleanSlot
    PROVE  SlotInv'
  <1> DEFINE s == msgInProgress
  <1>1. TypeOK /\ TypeOK'
    BY DEF SlotInv, OrderInv, TypeInv
  <1>2. s \in Seq(Instance) /\ Len(s) \in Nat /\ DOMAIN s = 1..Len(s)
    BY <1>1, InstanceFacts DEF TypeOK
  <1>3. UNCHANGED <<sent, isLigthsPresent>> /\ mgrPc = "clean"
    BY DEF CleanSlot
  <1>4. LightsOnce'
    BY <1>3 DEF SlotInv, LightsOnce
  <1>5. s' \in Seq(Instance) /\ Len(s') \in Nat
    BY <1>1, InstanceFacts DEF TypeOK
  <1>6. ScanHasRoom'
    BY <1>3, <1>5, ConstAssumption DEF CleanSlot, AfterClean, ScanHasRoom
  <1>7. ObjectsExclusive' /\ ProgressSent'
    <2>1. CASE s' = s
      BY <1>3, <2>1 DEF SlotInv, ObjectsExclusive, ProgressSent
    <2>2. ASSUME NEW c \in DOMAIN s,
                 Len(s') = Len(s) - 1, DOMAIN s' = 1..(Len(s) - 1),
                 \A i \in DOMAIN s' : Before(c, i) \in DOMAIN s /\ s'[i] = s[Before(c, i)]
          PROVE  ObjectsExclusive' /\ ProgressSent'
      <3>1. \A i, j \in DOMAIN s' : i # j => Before(c, i) # Before(c, j)
        BY <1>2, <2>2 DEF Before
      <3>2. Len(s') <= MaxParallel
        BY <1>2, <2>2, ConstAssumption DEF SlotInv, ObjectsExclusive
      <3>3. QED
        BY <1>3, <2>2, <3>1, <3>2 DEF SlotInv, ObjectsExclusive, ProgressSent
    <2>3. QED
      BY <1>1, <2>1, <2>2, CleanErases
  <1>8. QED
    BY <1>4, <1>6, <1>7 DEF SlotInv

(* A launch takes a free slot for an object that has none, and for a lights  *)
(* object only if there was none before.                                     *)
LEMMA SlotLaunch ==
    ASSUME SlotInv, OrderInv', NEW p \in Pid, ScanLaunch(p)
    PROVE  SlotInv'
  <1> DEFINE s == msgInProgress
             g == internalDataQueue[it]
             n == Len(msgInProgress)
  <1>1. TypeOK
    BY DEF SlotInv, OrderInv, TypeInv
  <1>2. s \in Seq(Instance) /\ n \in Nat /\ \A i \in 1..n : s[i].obj \in Obj
    BY <1>1, InstanceFacts DEF TypeOK
  <1>3. /\ it \in DOMAIN internalDataQueue /\ g.obj \in Obj /\ g.seq \in Nat
        /\ Len(s') = n + 1 /\ DOMAIN s = 1..n /\ DOMAIN s' = 1..(n + 1)
        /\ \A i \in 1..n : s'[i] = s[i] /\ s[i].obj # g.obj
        /\ s'[n + 1].obj = g.obj
    BY <1>1, LaunchAppends
  <1>4. mgrPc = "scan" /\ n < MaxParallel
    BY DEF ScanLaunch, Scanning, SlotInv, ScanHasRoom
  <1>5. sent \in [Obj -> Nat] /\ sent' = [sent EXCEPT ![g.obj] = g.seq]
    BY <1>1 DEF TypeOK, ScanLaunch
  <1>6. sent[g.obj] < g.seq /\ g.seq # 0
    <2>1. sent[g.obj] < g.seq
      BY <1>3 DEF SlotInv, OrderInv, GroupsInOrder, Unsent
    <2>2. QED
      BY <1>3, <1>5, <2>1
  <1>7. /\ isLigthsPresent' <=> isLigthsPresent \/ g.obj \in Lights
        /\ ~(g.obj \in Lights /\ isLigthsPresent)
    BY <1>1, Zenon DEF ScanLaunch, MayLaunch, TypeOK
  <1> HIDE DEF s, g, n
  <1>8. ScanHasRoom'
    <2>1. Len(s') >= MaxParallel => mgrPc' = "take"
      BY DEF ScanLaunch, s
    <2>2. QED
      BY <1>2, <1>3, <2>1, ConstAssumption DEF ScanHasRoom, s
  <1>9. ObjectsExclusive'
    <2>1. Len(s') <= MaxParallel
      BY <1>2, <1>3, <1>4, ConstAssumption
    <2>2. ASSUME NEW i \in 1..(n + 1), NEW j \in 1..(n + 1), i # j
          PROVE  s'[i].obj # s'[j].obj
      <3>1. CASE i = n + 1
        BY <1>2, <1>3, <2>2, <3>1
      <3>2. CASE j = n + 1
        BY <1>2, <1>3, <2>2, <3>2
      <3>3. CASE i \in 1..n /\ j \in 1..n
        BY <1>3, <2>2, <3>3 DEF SlotInv, ObjectsExclusive, s
      <3>4. QED
        BY <1>2, <3>1, <3>2, <3>3
    <2>3. QED
      BY <1>3, <2>1, <2>2 DEF ObjectsExclusive, s
  <1>10. \A o \in Obj : sent'[o] = IF o = g.obj THEN g.seq ELSE sent[o]
    BY <1>3, <1>5
  <1>11. ProgressSent'
    <2>1. ASSUME NEW i \in 1..(n + 1)
          PROVE  sent'[s'[i].obj] # 0
      <3>1. CASE i = n + 1
        BY <1>3, <1>6, <1>10, <3>1
      <3>2. CASE i \in 1..n
        <4>1. sent[s[i].obj] # 0
          BY <1>3, <3>2 DEF SlotInv, ProgressSent, s
        <4>2. QED
          BY <1>2, <1>3, <1>10, <3>2, <4>1
      <3>3. QED
        BY <1>2, <3>1, <3>2
    <2>2. QED
      BY <1>3, <2>1 DEF ProgressSent, s
  <1>12. LightsOnce'
    <2>0. Lights \subseteq Obj
      BY ConstAssumption
    <2>1. CASE g.obj \in Lights
      <3>1. \A l \in Lights : sent[l] = 0
        BY <1>7, <2>1 DEF SlotInv, LightsOnce
      <3>2. QED
        BY <1>7, <1>10, <2>0, <2>1, <3>1 DEF LightsOnce
    <2>2. CASE g.obj \notin Lights
      <3>1. \A l \in Lights : sent'[l] = sent[l]
        BY <1>10, <2>0, <2>2
      <3>2. QED
        BY <1>7, <2>2, <3>1 DEF SlotInv, LightsOnce
    <2>3. QED
      BY <2>1, <2>2
  <1>13. QED
    BY <1>8, <1>9, <1>11, <1>12 DEF SlotInv

(* A timeout frees no slot.                                                   *)
LEMMA SlotTimeout ==
    ASSUME SlotInv, OrderInv', NEW k \in DOMAIN msgInProgress, OperationTimeout(k)
    PROVE  SlotInv'
  <1>1. TypeOK
    BY DEF SlotInv, OrderInv, TypeInv
  <1>2. UNCHANGED <<sent, isLigthsPresent, mgrPc>>
    BY DEF OperationTimeout, scanVars
  <1>3. /\ Len(msgInProgress') = Len(msgInProgress)
        /\ DOMAIN msgInProgress' = DOMAIN msgInProgress
        /\ \A i \in DOMAIN msgInProgress : msgInProgress'[i].obj = msgInProgress[i].obj
    BY <1>1, TimeoutMarks
  <1>4. QED
    BY <1>2, <1>3 DEF SlotInv, ObjectsExclusive, ScanHasRoom, LightsOnce, ProgressSent

(* Every step of the specification keeps the slots exclusive.                 *)
LEMMA SlotNext == SlotInv /\ [Next]_vars => SlotInv'
  <1> SUFFICES ASSUME SlotInv, [Next]_vars
               PROVE  SlotInv'
    OBVIOUS
  <1>0. OrderInv'
    BY OrderNext DEF SlotInv
  <1> USE DEF queueVars, scanVars, sigVars, mainVars, kernVars, slotVars
  <1>1. ASSUME NEW o \in Obj, addToDataQueue(o)
        PROVE  SlotInv'
    BY <1>0, <1>1, SlotStutter DEF addToDataQueue
  <1>2. CASE TakeDataQueue \/ MergeGroup \/ terminateHangupInstances \/ ScanEnd \/ ScanSkip
              \/ ScanForkFail
    <2>1. UNCHANGED slotVars /\ (mgrPc' = "scan" => mgrPc = "scan")
      BY <1>2 DEF TakeDataQueue, MergeGroup, terminateHangupInstances, ScanEnd, ScanSkip,
                  ScanForkFail
    <2>2. QED
      BY <1>0, <2>1, SlotStutter
  <1>3. CASE CleanAllSlots
    <2>1. UNCHANGED slotVars /\ Len(msgInProgress) = 0
      BY <1>3 DEF CleanAllSlots
    <2>2. QED
      BY <1>0, <2>1, ConstAssumption
      DEF SlotInv, ObjectsExclusive, ScanHasRoom, LightsOnce, ProgressSent
  <1>4. CASE CleanSlot
    BY <1>0, <1>4, SlotClean
  <1>5. ASSUME NEW p \in Pid, ScanLaunch(p)
        PROVE  SlotInv'
    BY <1>0, <1>5, SlotLaunch
  <1>6. CASE MainLoop
    <2>1. UNCHANGED slotVars /\ mgrPc' = mgrPc
      BY <1>6 DEF MainLoop, MainSwap, MainRead, MainPick, signalChildL2, MainReset
    <2>2. QED
      BY <1>0, <2>1, SlotStutter
  <1>7. ASSUME NEW t \in HandlerThreads, SigDeliver(t) \/ sigchld_hdl(t)
        PROVE  SlotInv'
    <2>1. UNCHANGED slotVars /\ mgrPc' = mgrPc
      BY <1>7, Zenon
      DEF SigDeliver, sigchld_hdl, OnlyHandler, HandlerWaitpid, HandlerReturn, HandlerPickQueue,
          HandlerReadCount, HandlerStore, HandlerSelectCount, HandlerWriteCount
    <2>2. QED
      BY <1>0, <2>1, SlotStutter
  <1>8. ASSUME NEW p \in Pid, ChildExit(p) \/ ForeignFork(p)
        PROVE  SlotInv'
    <2>1. UNCHANGED slotVars /\ mgrPc' = mgrPc
      BY <1>8 DEF ChildExit, ForeignFork
    <2>2. QED
      BY <1>0, <2>1, SlotStutter
  <1>9. ASSUME NEW i \in DOMAIN msgInProgress, OperationTimeout(i)
        PROVE  SlotInv'
    BY <1>0, <1>9, SlotTimeout
  <1>10. CASE UNCHANGED vars
    <2>1. UNCHANGED slotVars /\ mgrPc' = mgrPc
      BY <1>10 DEF vars
    <2>2. QED
      BY <1>0, <2>1, SlotStutter
  <1>11. QED
    BY <1>1, <1>2, <1>3, <1>4, <1>5, <1>6, <1>7, <1>8, <1>9, <1>10 DEF Next, serverLoop

(* "run only one mqttMsgInstance for ligths": over the whole life of the hub *)
(* at most one lights object gets a child, whatever threads run the handler, *)
(* however pids are reused and however many lights objects are configured.   *)
THEOREM LightsCorrect == Spec => []OneLightsInstance
  <1>1. SlotInv => OneLightsInstance
    <2> SUFFICES ASSUME SlotInv, NEW o1 \in Lights, NEW o2 \in Lights,
                        sent[o1] # 0, InProgress(o2) \/ sent[o2] # 0
                 PROVE  o1 = o2
      BY DEF OneLightsInstance
    <2>1. ToSet(msgInProgress) = {msgInProgress[i] : i \in DOMAIN msgInProgress}
      BY DEF ToSet
    <2>2. sent[o2] # 0
      BY <2>1 DEF SlotInv, ProgressSent, InProgress
    <2>3. QED
      BY <2>2 DEF SlotInv, LightsOnce
  <1>2. QED
    BY <1>1, SlotInit, SlotNext, PTL DEF Spec

-----------------------------------------------------------------------------
(* The refinement of SendSlots.                                              *)

Objects(s) == {m.obj : m \in ToSet(s)}
Live == Objects(msgInProgress)

(* The objects in progress, by the index of their instances.                 *)
LEMMA ObjectFacts ==
    ASSUME NEW s \in Seq(Instance)
    PROVE  /\ Objects(s) = {s[i].obj : i \in DOMAIN s}
           /\ IsFiniteSet(Objects(s))
           /\ Cardinality(Objects(s)) \in Nat /\ Cardinality(Objects(s)) <= Len(s)
  <1> DEFINE n == Len(s)
             f == [i \in 1..n |-> s[i].obj]
  <1>1. n \in Nat /\ DOMAIN s = 1..n
    BY InstanceFacts
  <1>2. Objects(s) = {s[i].obj : i \in 1..n}
    BY <1>1 DEF Objects, ToSet
  <1>3. f \in Surjection(1..n, Objects(s))
    BY <1>2 DEF Surjection
  <1>4. IsFiniteSet(1..n) /\ Cardinality(1..n) = n
    <2>1. 1 \in Int /\ n \in Int
      BY <1>1
    <2>2. IsFiniteSet(1..n) /\ Cardinality(1..n) = IF 1 > n THEN 0 ELSE n - 1 + 1
      BY <2>1, FS_Interval
    <2>3. QED
      BY <1>1, <2>2
  <1>5. IsFiniteSet(Objects(s)) /\ Cardinality(Objects(s)) <= Cardinality(1..n)
    BY <1>3, <1>4, FS_Surjection
  <1>6. Cardinality(Objects(s)) \in Nat
    BY <1>5, FS_CardinalityType
  <1>7. QED
    BY <1>1, <1>2, <1>4, <1>5, <1>6

(* A step that changes neither the groups produced or sent nor the objects   *)
(* in progress is a stuttering step of SendSlots.                            *)
LEMMA LiveUnchanged ==
    ASSUME TypeOK, TypeOK',
           DOMAIN msgInProgress' = DOMAIN msgInProgress,
           \A i \in DOMAIN msgInProgress : msgInProgress'[i].obj = msgInProgress[i].obj
    PROVE  Live' = Live
  BY DEF Live, Objects, ToSet

(* addToDataQueue is Offer, ScanLaunch is Launch, and a CleanSlot that       *)
(* erases an instance is Done; every other step of any thread is invisible.  *)
LEMMA SlotsStep ==
    ASSUME SlotInv, SlotInv', [Next]_vars
    PROVE  [Slots!Next]_(Slots!slotVars)
  <1>1. TypeOK /\ TypeOK'
    BY DEF SlotInv, OrderInv, TypeInv
  <1> USE DEF queueVars, scanVars, sigVars, mainVars, kernVars
  <1>s. ASSUME UNCHANGED <<produced, sent, msgInProgress>>
        PROVE  UNCHANGED Slots!slotVars
    BY <1>s DEF Slots!slotVars
  <1>2. ASSUME NEW o \in Obj, addToDataQueue(o)
        PROVE  Slots!Offer(o)
    BY <1>2 DEF addToDataQueue, Slots!Offer
  <1>3. CASE TakeDataQueue \/ MergeGroup \/ terminateHangupInstances \/ CleanAllSlots
              \/ ScanEnd \/ ScanSkip \/ ScanForkFail
    <2>1. UNCHANGED <<produced, sent, msgInProgress>>
      BY <1>3 DEF TakeDataQueue, MergeGroup, terminateHangupInstances, CleanAllSlots, ScanEnd,
                  ScanSkip, ScanForkFail
    <2>2. QED
      BY <1>s, <2>1
  <1>4. CASE CleanSlot
    <2> DEFINE s == msgInProgress
    <2>0. UNCHANGED <<produced, sent>>
      BY <1>4 DEF CleanSlot
    <2>1. CASE s' = s
      BY <1>s, <2>0, <2>1
    <2>2. ASSUME NEW c \in DOMAIN s,
                 DOMAIN s' = 1..(Len(s) - 1),
                 \A i \in DOMAIN s' : /\ Before(c, i) \in DOMAIN s /\ Before(c, i) # c
                                      /\ s'[i] = s[Before(c, i)],
                 \A i \in DOMAIN s : i # c => \E j \in DOMAIN s' : Before(c, j) = i
          PROVE  \E o \in Obj : Slots!Done(o)
      <3>1. PICK o \in Obj : o = s[c].obj
        BY <1>1, InstanceFacts DEF TypeOK
      <3>2. Live = {s[i].obj : i \in DOMAIN s} /\ Live' = {s'[i].obj : i \in DOMAIN s'}
        BY <1>1, ObjectFacts DEF TypeOK, Live
      <3>3. \A i \in DOMAIN s : i # c => s[i].obj # o
        BY <3>1 DEF SlotInv, ObjectsExclusive
      <3>4. Live' = Live \ {o} /\ o \in Live
        BY <2>2, <3>1, <3>2, <3>3
      <3>5. Slots!Done(o)
        BY <2>0, <3>4 DEF Slots!Done, Live, Objects
      <3>6. QED
        BY <3>5
    <2>3. (\E o \in Obj : Slots!Done(o)) \/ s' = s
      BY <1>1, <1>4, <2>2, CleanErases
    <2>4. QED
      BY <2>1, <2>3 DEF Slots!Next
  <1>5. ASSUME NEW p \in Pid, ScanLaunch(p)
        PROVE  \E o \in Obj : Slots!Launch(o)
    <2> DEFINE g == internalDataQueue[it]
               s == msgInProgress
               n == Len(msgInProgress)
    <2>1. /\ it \in DOMAIN internalDataQueue /\ g.obj \in Obj /\ g.seq \in Nat
          /\ n \in Nat /\ DOMAIN s = 1..n /\ DOMAIN s' = 1..(n + 1)
          /\ \A i \in 1..n : s'[i] = s[i] /\ s[i].obj # g.obj
          /\ s'[n + 1].obj = g.obj
      BY <1>1, <1>5, LaunchAppends, InstanceFacts DEF TypeOK
    <2>2. Live = {s[i].obj : i \in DOMAIN s} /\ Live' = {s'[i].obj : i \in DOMAIN s'}
      BY <1>1, ObjectFacts DEF TypeOK, Live
    <2>3. g.obj \notin Live
      BY <2>1, <2>2
    <2>4. Live' = Live \cup {g.obj}
      <3> HIDE DEF g, s, n
      <3>1. ASSUME NEW i \in 1..(n + 1) PROVE s'[i].obj \in Live \cup {g.obj}
        <4>1. CASE i = n + 1
          BY <2>1, <4>1
        <4>2. CASE i \in 1..n
          BY <2>1, <2>2, <4>2
        <4>3. QED
          BY <2>1, <4>1, <4>2
      <3>2. ASSUME NEW i \in 1..n PROVE s[i].obj \in Live'
        <4>1. i \in 1..(n + 1)
          BY <2>1
        <4>2. QED
          BY <2>1, <2>2, <4>1
      <3>3. g.obj \in Live'
        <4>1. n + 1 \in 1..(n + 1)
          BY <2>1
        <4>2. QED
          BY <2>1, <2>2, <4>1
      <3>4. QED
        BY ZenonT(30), <2>1, <2>2, <3>1, <3>2, <3>3
    <2>5. Cardinality(Live) < MaxParallel
      <3>1. n < MaxParallel
        BY <1>5 DEF ScanLaunch, Scanning, SlotInv, ScanHasRoom
      <3>2. Cardinality(Live) \in Nat /\ Cardinality(Live) <= n
        BY <1>1, ObjectFacts DEF TypeOK, Live
      <3>3. QED
        BY <2>1, <3>1, <3>2, ConstAssumption
    <2>6. g.obj \in Lights => \A l \in Lights : sent[l] = 0
      BY <1>5 DEF ScanLaunch, MayLaunch, SlotInv, LightsOnce
    <2>7. g.seq \in (sent[g.obj] + 1)..produced[g.obj]
      <3>1. sent[g.obj] \in Nat /\ produced[g.obj] \in Nat
        BY <1>1, <2>1 DEF TypeOK
      <3>2. sent[g.obj] < g.seq /\ g.seq <= produced[g.obj]
        BY <2>1 DEF SlotInv, OrderInv, GroupsInOrder, OnlyProduced, Unsent, Produced
      <3>3. QED
        BY <2>1, <3>1, <3>2
    <2>8. sent' = [sent EXCEPT ![g.obj] = g.seq] /\ UNCHANGED produced
      BY <1>5 DEF ScanLaunch
    <2>9. PICK o \in Obj : o = g.obj
      BY <2>1
    <2>10. Slots!Launch(o)
      <3>1. \E k \in (sent[o] + 1)..produced[o] : sent' = [sent EXCEPT ![o] = k]
        BY <2>7, <2>8, <2>9
      <3>2. o \notin Live /\ Cardinality(Live) < MaxParallel /\ Live' = Live \cup {o}
        BY <2>3, <2>4, <2>5, <2>9
      <3>3. o \in Lights => \A l \in Lights : sent[l] = 0
        BY <2>6, <2>9
      <3>4. Slots!Cardinality(Live) = Cardinality(Live)
        BY DEF Slots!Cardinality, Cardinality, Slots!IsFiniteSet, IsFiniteSet
      <3>5. QED
        BY <2>8, <3>1, <3>2, <3>3, <3>4, Zenon DEF Slots!Launch, Live, Objects
    <2>11. QED
      BY <2>10
  <1>6. CASE MainLoop
    <2>1. UNCHANGED <<produced, sent, msgInProgress>>
      BY <1>6 DEF MainLoop, MainSwap, MainRead, MainPick, signalChildL2, MainReset
    <2>2. QED
      BY <1>s, <2>1
  <1>7. ASSUME NEW t \in HandlerThreads, SigDeliver(t) \/ sigchld_hdl(t)
        PROVE  UNCHANGED Slots!slotVars
    <2>1. UNCHANGED <<produced, sent, msgInProgress>>
      BY <1>7, Zenon
      DEF SigDeliver, sigchld_hdl, OnlyHandler, HandlerWaitpid, HandlerReturn, HandlerPickQueue,
          HandlerReadCount, HandlerStore, HandlerSelectCount, HandlerWriteCount
    <2>2. QED
      BY <1>s, <2>1
  <1>8. ASSUME NEW p \in Pid, ChildExit(p) \/ ForeignFork(p)
        PROVE  UNCHANGED Slots!slotVars
    <2>1. UNCHANGED <<produced, sent, msgInProgress>>
      BY <1>8 DEF ChildExit, ForeignFork
    <2>2. QED
      BY <1>s, <2>1
  <1>9. ASSUME NEW i \in DOMAIN msgInProgress, OperationTimeout(i)
        PROVE  UNCHANGED Slots!slotVars
    <2>1. UNCHANGED <<produced, sent>>
      BY <1>9 DEF OperationTimeout
    <2>2. Live' = Live
      BY <1>1, <1>9, TimeoutMarks, LiveUnchanged
    <2>3. QED
      BY <2>1, <2>2 DEF Slots!slotVars, Live, Objects
  <1>10. CASE UNCHANGED vars
    BY <1>10, <1>s DEF vars
  <1>11. QED
    BY <1>2, <1>3, <1>4, <1>5, <1>6, <1>7, <1>8, <1>9, <1>10 DEF Next, serverLoop, Slots!Next

(* MqttMsgManager, with its queues, its threads, its signal handler and the  *)
(* children, implements SendSlots: an object is never sent twice at a time,  *)
(* no more than MaxParallel are, what is sent only gets newer, and at most   *)
(* one lights object ever is, for every set of constants.                    *)
THEOREM SlotsRefined == Spec => ImplementsSendSlots
  <1>1. Init => Slots!Init
    BY DEF Init, Slots!Init, ToSet
  <1>2. SlotInv /\ SlotInv' /\ [Next]_vars => [Slots!Next]_(Slots!slotVars)
    BY SlotsStep
  <1>3. QED
    BY <1>1, <1>2, SlotInit, SlotNext, PTL DEF Spec, ImplementsSendSlots, Slots!Spec

-----------------------------------------------------------------------------
(* Children and instances.                                                   *)

PidsDistinct ==
    \A i, j \in DOMAIN msgInProgress : i # j => msgInProgress[i].pid # msgInProgress[j].pid

(* An instance is only made for a child that was forked.                     *)
InstanceForked == \A i \in DOMAIN msgInProgress : procSt[msgInProgress[i].pid] # "none"

(* A pid anywhere between the handler and the manager names a reaped child.  *)
Reported(p) ==
    \/ \E t \in Threads : hdl[t].pid = p
    \/ \E q \in {0, 1} : \E k \in 0..(max_alen - 1) : child_a[q][k] = p
    \/ mainPid = p
    \/ \E s \in 1..MaxParallel : waitChildPid[s] = p
ReportedGone == \A p \in Pid : Reported(p) => procSt[p] = "gone"

Owned(p) == \E i \in DOMAIN msgInProgress : msgInProgress[i].pid = p
LiveHasInstance == \A p \in Pid : procSt[p] \in {"run", "zombie"} => Owned(p)

OwnInv == SlotInv /\ PidsDistinct /\ InstanceForked /\ ReportedGone /\ LiveHasInstance

(* A step that leaves instances and children alone, as far as pids go, and   *)
(* reports nothing new.                                                      *)
LEMMA OwnStutter ==
    ASSUME OwnInv, SlotInv',
           DOMAIN msgInProgress' = DOMAIN msgInProgress,
           \A i \in DOMAIN msgInProgress : msgInProgress'[i].pid = msgInProgress[i].pid,
           UNCHANGED procSt,
           \A p \in Pid : Reported(p)' => Reported(p)
    PROVE  OwnInv'
  BY DEF OwnInv, PidsDistinct, InstanceForked, ReportedGone, LiveHasInstance, Owned

(* Nothing was forked or reported when main starts.                          *)
LEMMA OwnInit == Init => OwnInv
  <1> SUFFICES ASSUME Init PROVE OwnInv
    OBVIOUS
  <1>1. SlotInv
    BY SlotInit
  <1>2. DOMAIN msgInProgress = {} /\ \A p \in Pid : procSt[p] = "none"
    BY DEF Init
  <1>3. ASSUME NEW p \in Pid PROVE ~Reported(p)
    <2>1. p # NoPid /\ p \notin HeapJunk
      BY ConstAssumption
    <2>2. \A t \in Threads : hdl[t].pid = NoPid
      BY DEF Init, Idle
    <2>3. \A q \in {0, 1} : \A k \in 0..(max_alen - 1) : child_a[q][k] \in HeapJunk
      BY DEF Init
    <2>4. mainPid = NoPid /\ \A s \in 1..MaxParallel : waitChildPid[s] \in HeapJunk
      BY DEF Init
    <2>5. QED
      BY <2>1, <2>2, <2>3, <2>4 DEF Reported
  <1>4. QED
    BY <1>1, <1>2, <1>3 DEF OwnInv, PidsDistinct, InstanceForked, ReportedGone, LiveHasInstance

(* A step of the handler in thread t reports at most the pid it has reaped.  *)
LEMMA HandlerReports ==
    ASSUME TypeOK, NEW t \in HandlerThreads, SigDeliver(t) \/ sigchld_hdl(t), NEW p \in Pid,
           Reported(p)'
    PROVE  Reported(p) \/ HandlerWaitpid(t, p)
  <1> USE DEF queueVars, scanVars, sigVars, mainVars, kernVars
  <1>0. t \in Threads /\ hdl \in [Threads -> [pc: {"idle", "wait", "pick", "cnt", "store", "sel", "count"},
                            pid: Pid \cup {NoPid}, q: {0, 1}, cnt: 0..max_alen]]
    BY ConstAssumption DEF TypeOK
  <1>p. p # NoPid
    BY ConstAssumption
  <1>1. UNCHANGED <<waitChildPid, mainPid>>
    BY DEF SigDeliver, sigchld_hdl, OnlyHandler, HandlerWaitpid, HandlerReturn, HandlerPickQueue,
           HandlerReadCount, HandlerStore, HandlerSelectCount, HandlerWriteCount
  <1>2. ASSUME NEW h, hdl' = [hdl EXCEPT ![t] = h], h.pid \in {hdl[t].pid, NoPid}, UNCHANGED child_a
        PROVE  Reported(p)
    <2>1. \A u \in Threads : hdl'[u].pid = p => hdl[u].pid = p
      BY <1>0, <1>2, <1>p
    <2>2. QED
      BY <1>1, <1>2, <2>1 DEF Reported
  <1>i. Idle.pid = NoPid /\ [Idle EXCEPT !.pc = "wait"].pid = NoPid
    BY DEF Idle
  <1>3. CASE SigDeliver(t)
    <2>1. hdl' = [hdl EXCEPT ![t] = [hdl[t] EXCEPT !.pc = "wait"]] /\ UNCHANGED child_a
      BY <1>3 DEF SigDeliver
    <2>2. [hdl[t] EXCEPT !.pc = "wait"].pid = hdl[t].pid
      BY <1>0
    <2>3. QED
      BY <1>2, <2>1, <2>2
  <1>4. ASSUME NEW r \in Pid, HandlerWaitpid(t, r), r # p
        PROVE  Reported(p)
    <2>1. hdl' = [hdl EXCEPT ![t] = [hdl[t] EXCEPT !.pc = "pick", !.pid = r]] /\ UNCHANGED child_a
      BY <1>4 DEF HandlerWaitpid, OnlyHandler
    <2>2. [hdl[t] EXCEPT !.pc = "pick", !.pid = r].pid = r
      BY <1>0
    <2>3. \A u \in Threads : hdl'[u].pid = p => hdl[u].pid = p
      BY <1>0, <1>4, <2>1, <2>2
    <2>4. QED
      BY <1>1, <2>1, <2>3 DEF Reported
  <1>5. CASE HandlerReturn(t)
    BY <1>2, <1>5, <1>i DEF HandlerReturn, OnlyHandler
  <1>6. CASE HandlerPickQueue(t)
    <2>1. [hdl[t] EXCEPT !.pc = "cnt", !.q = gSigQueue].pid = hdl[t].pid
      BY <1>0
    <2>2. QED
      BY <1>2, <1>6, <2>1 DEF HandlerPickQueue, OnlyHandler
  <1>7. CASE HandlerReadCount(t)
    <2>1. [hdl[t] EXCEPT !.pc = "store", !.cnt = cnt_a[hdl[t].q]].pid = hdl[t].pid
      BY <1>0
    <2>2. QED
      BY <1>2, <1>7, <2>1 DEF HandlerReadCount, OnlyHandler
  <1>8. CASE HandlerStore(t)
    <2>1. CASE UNCHANGED child_a /\ hdl' = [hdl EXCEPT ![t] = [Idle EXCEPT !.pc = "wait"]]
      BY <1>2, <1>i, <2>1
    <2>2. ASSUME child_a' = [child_a EXCEPT ![hdl[t].q][hdl[t].cnt] = hdl[t].pid],
                 hdl' = [hdl EXCEPT ![t] = [hdl[t] EXCEPT !.pc = "sel", !.cnt = hdl[t].cnt + 1]]
          PROVE  Reported(p)
      <3>1. [hdl[t] EXCEPT !.pc = "sel", !.cnt = hdl[t].cnt + 1].pid = hdl[t].pid
        BY <1>0
      <3>2. \A u \in Threads : hdl'[u].pid = p => hdl[u].pid = p
        BY <1>0, <2>2, <3>1
      <3>3. \A q \in {0, 1} : \A k \in 0..(max_alen - 1) :
               child_a'[q][k] = child_a[q][k] \/ child_a'[q][k] = hdl[t].pid
        BY <1>0, <2>2 DEF TypeOK
      <3>4. QED
        BY <1>0, <1>1, <3>2, <3>3 DEF Reported
    <2>3. QED
      BY <1>8, <2>1, <2>2, Zenon DEF HandlerStore, OnlyHandler
  <1>9. CASE HandlerSelectCount(t)
    <2>1. [hdl[t] EXCEPT !.pc = "count", !.q = gSigQueue].pid = hdl[t].pid
      BY <1>0
    <2>2. QED
      BY <1>2, <1>9, <2>1 DEF HandlerSelectCount, OnlyHandler
  <1>10. CASE HandlerWriteCount(t)
    BY <1>2, <1>10, <1>i DEF HandlerWriteCount, OnlyHandler
  <1>11. QED
    BY <1>3, <1>4, <1>5, <1>6, <1>7, <1>8, <1>9, <1>10 DEF sigchld_hdl

(* cleanCompletedMsgInstances erases the instance of a reaped child only.    *)
LEMMA OwnClean ==
    ASSUME OwnInv, SlotInv', CleanSlot
    PROVE  OwnInv'
  <1> DEFINE s == msgInProgress
  <1>1. TypeOK /\ lp \in 1..MaxParallel
    BY DEF OwnInv, SlotInv, OrderInv, TypeInv, TypeOK
  <1>2. s \in Seq(Instance) /\ Len(s) \in Nat /\ DOMAIN s = 1..Len(s) /\ \A i \in DOMAIN s : s[i].pid \in Pid
    BY <1>1, InstanceFacts DEF TypeOK
  <1>3. UNCHANGED <<procSt, hdl, child_a, mainPid>> /\ waitChildPid' = [waitChildPid EXCEPT ![lp] = NoPid]
    BY DEF CleanSlot, kernVars, sigVars, mainVars
  <1>4. ASSUME NEW p \in Pid, Reported(p)' PROVE Reported(p)
    <2>1. p # NoPid
      BY ConstAssumption
    <2>2. \A r \in 1..MaxParallel : waitChildPid'[r] = p => waitChildPid[r] = p
      BY <1>1, <1>3, <2>1 DEF TypeOK
    <2>3. QED
      BY <1>3, <1>4, <2>2 DEF Reported
  <1>5. CASE s' = s
    BY <1>3, <1>4, <1>5, OwnStutter
  <1>6. ASSUME NEW c \in DOMAIN s, s[c].pid = waitChildPid[lp],
               DOMAIN s' = 1..(Len(s) - 1),
               \A i \in DOMAIN s' : /\ Before(c, i) \in DOMAIN s /\ Before(c, i) # c
                                    /\ s'[i] = s[Before(c, i)],
               \A i \in DOMAIN s : i # c => \E j \in DOMAIN s' : Before(c, j) = i
        PROVE  OwnInv'
    <2>1. \A i, j \in DOMAIN s' : i # j => Before(c, i) # Before(c, j)
      BY <1>2, <1>6 DEF Before
    <2>2. PidsDistinct' /\ InstanceForked'
      BY <1>3, <1>6, <2>1 DEF OwnInv, PidsDistinct, InstanceForked
    <2>3. ReportedGone'
      BY <1>3, <1>4 DEF OwnInv, ReportedGone
    <2>4. procSt[s[c].pid] = "gone"
      BY <1>1, <1>2, <1>6 DEF OwnInv, ReportedGone, Reported
    <2>5. LiveHasInstance'
      <3> SUFFICES ASSUME NEW p \in Pid, procSt[p] \in {"run", "zombie"} PROVE Owned(p)'
        BY <1>3 DEF LiveHasInstance
      <3>1. PICK i \in DOMAIN s : s[i].pid = p
        BY DEF OwnInv, LiveHasInstance, Owned
      <3>2. i # c
        BY <2>4, <3>1
      <3>3. PICK j \in DOMAIN s' : Before(c, j) = i
        BY <1>6, <3>2
      <3>4. QED
        BY <1>6, <3>1, <3>3 DEF Owned
    <2>6. QED
      BY <2>2, <2>3, <2>5 DEF OwnInv
  <1>7. QED
    BY <1>1, <1>5, <1>6, CleanErases

(* A pid that was never given out before names no instance and no report.    *)
LEMMA OwnLaunch ==
    ASSUME ~PidReuse, OwnInv, SlotInv', NEW p \in Pid, ScanLaunch(p)
    PROVE  OwnInv'
  <1> DEFINE s == msgInProgress
             n == Len(msgInProgress)
  <1>1. TypeOK /\ procSt \in [Pid -> {"none", "run", "zombie", "gone", "foreign"}]
    BY DEF OwnInv, SlotInv, OrderInv, TypeInv, TypeOK
  <1>2. n \in Nat /\ \A i \in 1..n : s[i].pid \in Pid
    BY <1>1, InstanceFacts DEF TypeOK
  <1>3. /\ DOMAIN s = 1..n /\ DOMAIN s' = 1..(n + 1)
        /\ \A i \in 1..n : s'[i] = s[i]
        /\ s'[n + 1].pid = p
    BY <1>1, LaunchAppends
  <1>4. procSt[p] = "none" /\ procSt' = [procSt EXCEPT ![p] = "run"]
    BY DEF ScanLaunch, FreshPid
  <1>5. UNCHANGED <<hdl, child_a, waitChildPid, mainPid>>
    BY DEF ScanLaunch, sigVars, mainVars
  <1>6. \A i \in 1..n : s[i].pid # p
    BY <1>3, <1>4 DEF OwnInv, InstanceForked
  <1>7. \A i \in 1..(n + 1) : i = n + 1 \/ i \in 1..n
    BY <1>2
  <1>8. \A r \in Pid : procSt'[r] = IF r = p THEN "run" ELSE procSt[r]
    BY <1>1, <1>4
  <1>9. 1..n \subseteq 1..(n + 1) /\ n + 1 \in 1..(n + 1)
    BY <1>2
  <1> HIDE DEF n
  <1>10. PidsDistinct'
    BY <1>3, <1>6, <1>7 DEF OwnInv, PidsDistinct
  <1>11. InstanceForked'
    BY <1>2, <1>3, <1>7, <1>8 DEF OwnInv, InstanceForked
  <1>12. ReportedGone'
    <2>1. \A r \in Pid : Reported(r)' <=> Reported(r)
      BY <1>5 DEF Reported
    <2>2. QED
      BY <1>4, <1>8, <2>1 DEF OwnInv, ReportedGone
  <1>13. LiveHasInstance'
    <2> SUFFICES ASSUME NEW r \in Pid, procSt'[r] \in {"run", "zombie"} PROVE Owned(r)'
      BY DEF LiveHasInstance
    <2>1. CASE r = p
      BY <1>3, <1>9, <2>1 DEF Owned
    <2>2. CASE r # p
      <3>1. PICK i \in 1..n : s[i].pid = r
        BY <1>3, <1>8, <2>2 DEF OwnInv, LiveHasInstance, Owned
      <3>2. QED
        BY <1>3, <1>9, <3>1 DEF Owned
    <2>3. QED
      BY <2>1, <2>2
  <1>14. QED
    BY <1>10, <1>11, <1>12, <1>13 DEF OwnInv

(* A child ends or is reaped: its instance stays.                            *)
LEMMA OwnKernel ==
    ASSUME OwnInv, SlotInv', UNCHANGED msgInProgress,
           \A p \in Pid : /\ procSt[p] = "none" <=> procSt'[p] = "none"
                          /\ procSt[p] = "gone" => procSt'[p] = "gone"
                          /\ procSt'[p] \in {"run", "zombie"} => procSt[p] \in {"run", "zombie"},
           \A p \in Pid : Reported(p)' => Reported(p) \/ procSt'[p] = "gone"
    PROVE  OwnInv'
  <1>1. TypeOK
    BY DEF OwnInv, SlotInv, OrderInv, TypeInv
  <1>2. \A i \in DOMAIN msgInProgress : msgInProgress[i].pid \in Pid
    BY <1>1, InstanceFacts DEF TypeOK
  <1>3. QED
    BY <1>2 DEF OwnInv, PidsDistinct, InstanceForked, ReportedGone, LiveHasInstance, Owned

(* With pids that are not given out twice, every step keeps children and     *)
(* instances together.                                                       *)
LEMMA OwnNext == ~PidReuse /\ OwnInv /\ [Next]_vars => OwnInv'
  <1> SUFFICES ASSUME ~PidReuse, OwnInv, [Next]_vars
               PROVE  OwnInv'
    OBVIOUS
  <1>0. SlotInv'
    BY SlotNext DEF OwnInv
  <1>t. TypeOK /\ procSt \in [Pid -> {"none", "run", "zombie", "gone", "foreign"}]
    BY DEF OwnInv, SlotInv, OrderInv, TypeInv, TypeOK
  <1>s. ASSUME UNCHANGED <<msgInProgress, procSt, hdl, child_a, waitChildPid, mainPid>>
        PROVE  OwnInv'
    <2>1. \A p \in Pid : Reported(p)' => Reported(p)
      BY <1>s DEF Reported
    <2>2. QED
      BY <1>0, <1>s, <2>1, OwnStutter
  <1> USE DEF queueVars, scanVars, sigVars, mainVars, kernVars
  <1>1. ASSUME NEW o \in Obj, addToDataQueue(o)
        PROVE  OwnInv'
    BY <1>1, <1>s DEF addToDataQueue
  <1>2. CASE TakeDataQueue \/ MergeGroup \/ ScanEnd \/ ScanSkip \/ ScanForkFail
    BY <1>2, <1>s DEF TakeDataQueue, MergeGroup, ScanEnd, ScanSkip, ScanForkFail
  <1>3. CASE terminateHangupInstances
    <2>1. UNCHANGED <<msgInProgress, hdl, child_a, waitChildPid, mainPid>>
      BY <1>3 DEF terminateHangupInstances
    <2>2. \A p \in Pid : /\ procSt[p] = "none" <=> procSt'[p] = "none"
                         /\ procSt[p] = "gone" => procSt'[p] = "gone"
                         /\ procSt'[p] \in {"run", "zombie"} => procSt[p] \in {"run", "zombie"}
      BY <1>3 DEF terminateHangupInstances
    <2>3. \A p \in Pid : Reported(p)' => Reported(p)
      BY <2>1 DEF Reported
    <2>4. QED
      BY <1>0, <2>1, <2>2, <2>3, OwnKernel
  <1>4. CASE CleanAllSlots
    <2>1. UNCHANGED <<msgInProgress, procSt, hdl, child_a, mainPid>>
          /\ \A r \in 1..MaxParallel : waitChildPid'[r] = NoPid
      BY <1>4 DEF CleanAllSlots
    <2>2. \A p \in Pid : Reported(p)' => Reported(p)
      BY <2>1, ConstAssumption DEF Reported
    <2>3. QED
      BY <1>0, <2>1, <2>2, OwnStutter
  <1>5. CASE CleanSlot
    BY <1>0, <1>5, OwnClean
  <1>6. ASSUME NEW p \in Pid, ScanLaunch(p)
        PROVE  OwnInv'
    BY <1>0, <1>6, OwnLaunch
  <1>7. CASE MainSwap \/ MainRead \/ MainReset
    BY <1>7, <1>s DEF MainSwap, MainRead, MainReset
  <1>p. CASE MainPick
    <2>1. UNCHANGED <<msgInProgress, procSt, hdl, child_a, waitChildPid>>
          /\ mainPid' = child_a[1 - gSigQueue][mainI]
      BY <1>p DEF MainPick
    <2>2. 1 - gSigQueue \in {0, 1} /\ mainI \in 0..(max_alen - 1)
      BY <1>p, <1>t, ConstAssumption DEF TypeOK, MainPick, max_alen
    <2>3. \A p \in Pid : Reported(p)' => Reported(p)
      BY <2>1, <2>2 DEF Reported
    <2>4. QED
      BY <1>0, <2>1, <2>3, OwnStutter
  <1>8. CASE signalChildL2
    <2>1. UNCHANGED <<msgInProgress, procSt, hdl, child_a>> /\ mainPid' = NoPid
      BY <1>8 DEF signalChildL2
    <2>2. \A r \in 1..MaxParallel : waitChildPid'[r] = waitChildPid[r] \/ waitChildPid'[r] = mainPid
      BY <1>8, <1>t DEF signalChildL2, TypeOK
    <2>3. \A p \in Pid : Reported(p)' => Reported(p)
      BY <2>1, <2>2, ConstAssumption DEF Reported
    <2>4. QED
      BY <1>0, <2>1, <2>3, OwnStutter
  <1>9. ASSUME NEW t \in HandlerThreads, SigDeliver(t) \/ sigchld_hdl(t)
        PROVE  OwnInv'
    <2>1. UNCHANGED msgInProgress
      BY <1>9, Zenon
      DEF SigDeliver, sigchld_hdl, OnlyHandler, HandlerWaitpid, HandlerReturn, HandlerPickQueue,
          HandlerReadCount, HandlerStore, HandlerSelectCount, HandlerWriteCount
    <2>2. CASE \E q \in Pid : HandlerWaitpid(t, q)
      <3>1. PICK q \in Pid : HandlerWaitpid(t, q)
        BY <2>2
      <3>2. procSt[q] = "zombie" /\ procSt' = [procSt EXCEPT ![q] = "gone"]
        BY <3>1 DEF HandlerWaitpid
      <3>3. \A p \in Pid : procSt'[p] = IF p = q THEN "gone" ELSE procSt[p]
        BY <1>t, <3>2
      <3>4. \A p \in Pid : Reported(p)' => Reported(p) \/ HandlerWaitpid(t, p)
        BY <1>9, <1>t, HandlerReports
      <3>5. \A p \in Pid : HandlerWaitpid(t, p) => procSt'[p] = "gone"
        BY <1>t DEF HandlerWaitpid
      <3>6. QED
        BY <1>0, <2>1, <3>2, <3>3, <3>4, <3>5, OwnKernel
    <2>3. CASE ~\E q \in Pid : HandlerWaitpid(t, q)
      <3>1. UNCHANGED procSt
        BY <1>9, <2>3, Zenon
        DEF SigDeliver, sigchld_hdl, HandlerReturn, HandlerPickQueue,
            HandlerReadCount, HandlerStore, HandlerSelectCount, HandlerWriteCount
      <3>2. \A p \in Pid : Reported(p)' => Reported(p)
        BY <1>9, <1>t, <2>3, HandlerReports
      <3>3. QED
        BY <1>0, <2>1, <3>1, <3>2, OwnStutter
    <2>4. QED
      BY <2>2, <2>3
  <1>10. ASSUME NEW p \in Pid, ChildExit(p)
         PROVE  OwnInv'
    <2>1. UNCHANGED <<msgInProgress, hdl, child_a, waitChildPid, mainPid>>
      BY <1>10 DEF ChildExit
    <2>2. procSt[p] = "run" /\ \A q \in Pid : procSt'[q] = IF q = p THEN "zombie" ELSE procSt[q]
      BY <1>10, <1>t DEF ChildExit
    <2>3. \A q \in Pid : Reported(q)' => Reported(q)
      BY <2>1 DEF Reported
    <2>4. QED
      BY <1>0, <2>1, <2>2, <2>3, OwnKernel
  <1>11. ASSUME NEW i \in DOMAIN msgInProgress, OperationTimeout(i)
         PROVE  OwnInv'
    <2>1. UNCHANGED <<procSt, hdl, child_a, waitChildPid, mainPid>>
      BY <1>11 DEF OperationTimeout
    <2>2. \A q \in Pid : Reported(q)' => Reported(q)
      BY <2>1 DEF Reported
    <2>3. QED
      BY <1>0, <1>t, <1>11, <2>1, <2>2, TimeoutMarks, OwnStutter
  <1>12. CASE UNCHANGED vars
    BY <1>12, <1>s DEF vars
  <1>13. ASSUME NEW p \in Pid, ForeignFork(p)
         PROVE  FALSE
    BY <1>13 DEF ForeignFork
  <1>14. QED
    BY <1>1, <1>2, <1>3, <1>4, <1>5, <1>6, <1>7, <1>p, <1>8, <1>9, <1>10, <1>11, <1>12, <1>13
    DEF Next, serverLoop, MainLoop

(* Slots are exclusive in objects and in pids, for every number of slots and *)
(* in whatever threads the handler runs, as long as the kernel does not give *)
(* a pid out twice: with reuse a stale report can name the new instance.     *)
THEOREM SlotsCorrect == ~PidReuse => (Spec => []SlotsExclusive)
  <1> SUFFICES ASSUME ~PidReuse PROVE Spec => []SlotsExclusive
    OBVIOUS
  <1>1. OwnInv => SlotsExclusive
    BY DEF OwnInv, SlotInv, ObjectsExclusive, PidsDistinct, SlotsExclusive
  <1>2. OwnInv /\ [Next]_vars => OwnInv'
    BY OwnNext
  <1>3. QED
    BY <1>1, <1>2, OwnInit, PTL DEF Spec

(* No child runs that the manager has forgotten: cleanCompletedMsgInstances  *)
(* never erases the instance of a child that was not reaped, even when the   *)
(* handler runs in several threads at once and loses or repeats reports.     *)
THEOREM LiveCorrect == ~PidReuse => (Spec => []LiveOwned)
  <1> SUFFICES ASSUME ~PidReuse PROVE Spec => []LiveOwned
    OBVIOUS
  <1>1. OwnInv => LiveOwned
    <2>1. msgInProgress \in Seq(Instance) /\ OwnInv
             => \A p \in Pid : Owned(p) => \E m \in ToSet(msgInProgress) : m.pid = p
      BY InstanceFacts DEF Owned
    <2>2. OwnInv => msgInProgress \in Seq(Instance)
      BY DEF OwnInv, SlotInv, OrderInv, TypeInv, TypeOK
    <2>3. QED
      BY <2>1, <2>2 DEF OwnInv, LiveHasInstance, LiveOwned
  <1>2. OwnInv /\ [Next]_vars => OwnInv'
    BY OwnNext
  <1>3. QED
    BY <1>1, <1>2, OwnInit, PTL DEF Spec

-----------------------------------------------------------------------------
(* Signals.                                                                  *)

(* ZombieNoticed is inductive by itself: whoever makes a zombie raises the   *)
(* signal, and the handler leaves only when waitpid found none.              *)
LEMMA ZombieNext == TypeInv /\ ZombieNoticed /\ [Next]_vars => ZombieNoticed'
  <1> SUFFICES ASSUME TypeInv, ZombieNoticed, [Next]_vars
               PROVE  ZombieNoticed'
    OBVIOUS
  <1>t. procSt \in [Pid -> {"none", "run", "zombie", "gone", "foreign"}]
    BY DEF TypeInv, TypeOK
  <1>s. ASSUME UNCHANGED <<hdl, sigPending>>, \A p \in Pid : procSt'[p] = "zombie" => procSt[p] = "zombie"
        PROVE  ZombieNoticed'
    BY <1>s DEF ZombieNoticed, Free
  <1> USE DEF queueVars, scanVars, sigVars, mainVars, kernVars
  <1>1. ASSUME NEW o \in Obj, addToDataQueue(o)
        PROVE  ZombieNoticed'
    BY <1>1, <1>s DEF addToDataQueue
  <1>2. CASE TakeDataQueue \/ MergeGroup \/ CleanAllSlots \/ CleanSlot \/ ScanEnd \/ ScanSkip
              \/ ScanForkFail
    BY <1>2, <1>s
    DEF TakeDataQueue, MergeGroup, CleanAllSlots, CleanSlot, ScanEnd, ScanSkip, ScanForkFail
  <1>3. CASE terminateHangupInstances
    <2>1. UNCHANGED hdl /\ (sigPending' <=> sigPending \/ \E p \in HangupPids : procSt[p] = "run")
      BY <1>3, Zenon DEF terminateHangupInstances, TypeInv, TypeOK
    <2>2. \A p \in Pid : procSt'[p] = "zombie" =>
             procSt[p] = "zombie" \/ (p \in HangupPids /\ procSt[p] = "run")
      BY <1>3, <1>t DEF terminateHangupInstances
    <2>3. QED
      BY <2>1, <2>2 DEF ZombieNoticed, Free
  <1>4. ASSUME NEW p \in Pid, ScanLaunch(p)
        PROVE  ZombieNoticed'
    BY <1>4, <1>s, <1>t DEF ScanLaunch
  <1>5. CASE MainLoop
    BY <1>5, <1>s DEF MainLoop, MainSwap, MainRead, MainPick, signalChildL2, MainReset
  <1>6. ASSUME NEW t \in HandlerThreads, SigDeliver(t) \/ sigchld_hdl(t)
        PROVE  ZombieNoticed'
    <2>0. t \in Threads /\ hdl \in [Threads -> [pc: {"idle", "wait", "pick", "cnt", "store", "sel", "count"},
                              pid: Pid \cup {NoPid}, q: {0, 1}, cnt: 0..max_alen]]
      BY ConstAssumption DEF TypeInv, TypeOK
    <2>1. CASE HandlerReturn(t)
      <3>1. \A p \in Pid : procSt'[p] # "zombie"
        BY <2>1 DEF HandlerReturn
      <3>2. QED
        BY <3>1 DEF ZombieNoticed
    <2>2. ASSUME NEW h, hdl' = [hdl EXCEPT ![t] = h], h.pc # "idle"
          PROVE  ZombieNoticed'
      <3>1. hdl'[t].pc # "idle"
        BY <2>0, <2>2
      <3>2. QED
        BY <2>0, <3>1 DEF ZombieNoticed, Free
    <2>3. CASE SigDeliver(t)
      <3>1. hdl' = [hdl EXCEPT ![t] = [hdl[t] EXCEPT !.pc = "wait"]]
        BY <2>3 DEF SigDeliver
      <3>2. [hdl[t] EXCEPT !.pc = "wait"].pc # "idle"
        BY <2>0
      <3>3. QED
        BY <2>2, <3>1, <3>2
    <2>4. ASSUME NEW p \in Pid, HandlerWaitpid(t, p)
          PROVE  ZombieNoticed'
      <3>1. [hdl[t] EXCEPT !.pc = "pick", !.pid = p].pc # "idle"
        BY <2>0
      <3>2. QED
        BY <2>2, <2>4, <3>1 DEF HandlerWaitpid, OnlyHandler
    <2>5. CASE HandlerPickQueue(t)
      <3>1. [hdl[t] EXCEPT !.pc = "cnt", !.q = gSigQueue].pc # "idle"
        BY <2>0
      <3>2. QED
        BY <2>2, <2>5, <3>1 DEF HandlerPickQueue, OnlyHandler
    <2>6. CASE HandlerReadCount(t)
      <3>1. [hdl[t] EXCEPT !.pc = "store", !.cnt = cnt_a[hdl[t].q]].pc # "idle"
        BY <2>0
      <3>2. QED
        BY <2>2, <2>6, <3>1 DEF HandlerReadCount, OnlyHandler
    <2>i. [Idle EXCEPT !.pc = "wait"].pc # "idle"
      BY DEF Idle
    <2>7. CASE HandlerStore(t)
      <3>1. [hdl[t] EXCEPT !.pc = "sel", !.cnt = hdl[t].cnt + 1].pc # "idle"
        BY <2>0
      <3>2. \/ hdl' = [hdl EXCEPT ![t] = [Idle EXCEPT !.pc = "wait"]]
            \/ hdl' = [hdl EXCEPT ![t] = [hdl[t] EXCEPT !.pc = "sel", !.cnt = hdl[t].cnt + 1]]
        BY <2>7, Zenon DEF HandlerStore, OnlyHandler
      <3>3. QED
        BY <2>2, <2>i, <3>1, <3>2
    <2>8. CASE HandlerSelectCount(t)
      <3>1. [hdl[t] EXCEPT !.pc = "count", !.q = gSigQueue].pc # "idle"
        BY <2>0
      <3>2. QED
        BY <2>2, <2>8, <3>1 DEF HandlerSelectCount, OnlyHandler
    <2>9. CASE HandlerWriteCount(t)
      BY <2>2, <2>9, <2>i DEF HandlerWriteCount, OnlyHandler
    <2>10. QED
      BY <1>6, <2>1, <2>3, <2>4, <2>5, <2>6, <2>7, <2>8, <2>9 DEF sigchld_hdl
  <1>7. ASSUME NEW p \in Pid, ChildExit(p)
        PROVE  ZombieNoticed'
    BY <1>7 DEF ChildExit, ZombieNoticed
  <1>8. ASSUME NEW p \in Pid, ForeignFork(p)
        PROVE  ZombieNoticed'
    BY <1>8, <1>s, <1>t DEF ForeignFork
  <1>9. ASSUME NEW i \in DOMAIN msgInProgress, OperationTimeout(i)
        PROVE  ZombieNoticed'
    BY <1>9, <1>s DEF OperationTimeout
  <1>10. CASE UNCHANGED vars
    BY <1>10, <1>s DEF vars
  <1>11. QED
    BY <1>1, <1>2, <1>3, <1>4, <1>5, <1>6, <1>7, <1>8, <1>9, <1>10 DEF Next, serverLoop

(* Coalescing SIGCHLDs lose no child: a zombie always has a pending signal   *)
(* or a running handler that will call waitpid again, for every number of    *)
(* children and handler threads, with and without reuse of pids.             *)
THEOREM ZombieCorrect == Spec => []ZombieNoticed
  <1>1. Init => ZombieNoticed
    BY DEF Init, ZombieNoticed
  <1>2. QED
    BY <1>1, ZombieNext, InitTypeInv, NextTypeInv, PTL DEF Spec

-----------------------------------------------------------------------------
(* The way of an exit from the handler to the manager, in whatever threads   *)
(* the handler runs, up to the first overlap.                                *)

(* What a handler knows while nobody swaps the queues under it and nobody    *)
(* else is between the choice of a queue and the write of its count.         *)
HandlerInv ==
    \A t \in Threads :
       /\ hdl[t].pc \in {"idle", "wait"} => hdl[t].pid = NoPid
       /\ hdl[t].pc \notin {"idle", "wait"} => hdl[t].pid \in Pid
       /\ Inside(t) => hdl[t].q = gSigQueue
       /\ hdl[t].pc = "store" => hdl[t].cnt = cnt_a[gSigQueue]
       /\ hdl[t].pc \in {"sel", "count"} =>
             /\ hdl[t].cnt = cnt_a[gSigQueue] + 1
             /\ child_a[gSigQueue][cnt_a[gSigQueue]] = hdl[t].pid
OneInside == \A t, u \in Threads : Inside(t) /\ Inside(u) => t = u

(* What main knows of the queue it empties.                                  *)
DrainInv ==
    /\ mainPc = "swap" => cnt_a[1 - gSigQueue] = 0
    /\ mainPc \in {"signal", "store"} => mainCnt = cnt_a[1 - gSigQueue]
    /\ mainPc = "store" => mainPid = child_a[1 - gSigQueue][mainI]

(* waitChildPid holds what new[] left in it only until the manager's first   *)
(* turn, before anything is launched.                                        *)
JunkInv ==
    \A s \in 1..MaxParallel : waitChildPid[s] \in Pid \cup {NoPid}
                              \/ (msgInProgress = <<>> /\ mgrPc # "scan" /\ lp = 1)

(* Without reuse of pids nobody else ever has one of ours.                    *)
NoForeign == \A p \in Pid : procSt[p] # "foreign"

ActiveIdx == 0..(cnt_a[gSigQueue] - 1)
DrainIdx  == (IF mainPc \in {"signal", "store"} THEN mainI ELSE 0)..(cnt_a[1 - gSigQueue] - 1)
WaitIdx   == {s \in 1..MaxParallel : waitChildPid[s] \in Pid}
Active(k) == child_a[gSigQueue][k]
Drain(k)  == child_a[1 - gSigQueue][k]

(* Every pid on its way belongs to an instance...                            *)
TransitOwned ==
    /\ \A t \in Threads : hdl[t].pid \in Pid => Owned(hdl[t].pid)
    /\ \A k \in ActiveIdx : Owned(Active(k))
    /\ \A k \in DrainIdx : Owned(Drain(k))
    /\ \A s \in WaitIdx : Owned(waitChildPid[s])

(* ... and is at one place only.                                             *)
TransitOnce ==
    /\ \A k, l \in ActiveIdx : k # l => Active(k) # Active(l)
    /\ \A k, l \in DrainIdx : k # l => Drain(k) # Drain(l)
    /\ \A s, r \in WaitIdx : s # r => waitChildPid[s] # waitChildPid[r]
    /\ \A t, u \in Threads : t # u /\ hdl[t].pid \in Pid => hdl[t].pid # hdl[u].pid
    /\ \A t \in Threads, k \in ActiveIdx : Active(k) # hdl[t].pid
    /\ \A t \in Threads, k \in DrainIdx : Drain(k) # hdl[t].pid
    /\ \A t \in Threads, s \in WaitIdx : waitChildPid[s] # hdl[t].pid
    /\ \A k \in ActiveIdx, l \in DrainIdx : Active(k) # Drain(l)
    /\ \A k \in ActiveIdx, s \in WaitIdx : Active(k) # waitChildPid[s]
    /\ \A k \in DrainIdx, s \in WaitIdx : Drain(k) # waitChildPid[s]

(* Conversely, the pid of a reaped instance is on its way.                   *)
InTransit(p) ==
    \/ \E t \in Threads : hdl[t].pid = p
    \/ \E k \in ActiveIdx : Active(k) = p
    \/ \E k \in DrainIdx : Drain(k) = p
    \/ \E s \in WaitIdx : waitChildPid[s] = p
GoneInTransit == \A p \in Pid : Owned(p) /\ procSt[p] = "gone" => InTransit(p)

ControlInv == TypeInv /\ HandlerInv /\ OneInside /\ DrainInv
TransitInv == TransitOwned /\ TransitOnce /\ GoneInTransit
ReportInv  == OwnInv /\ ControlInv /\ NoForeign /\ JunkInv /\ TransitInv

-----------------------------------------------------------------------------
(* A step of the handler in one thread leaves the others where they are.     *)
LEMMA OneHandler ==
    ASSUME TypeOK, NEW t \in Threads, NEW h, hdl' = [hdl EXCEPT ![t] = h]
    PROVE  hdl'[t] = h /\ \A u \in Threads \ {t} : hdl'[u] = hdl[u]
  BY DEF TypeOK

(* What one step of the handler does to its locals and to the queues.        *)
LEMMA HandlerSteps ==
    ASSUME TypeOK, NEW t \in HandlerThreads, SigDeliver(t) \/ sigchld_hdl(t)
    PROVE  /\ t \in Threads
           /\ UNCHANGED <<gSigQueue, mainPc, mainI, mainCnt, mainPid, waitChildPid, msgInProgress, mgrPc, lp>>
           /\ \A u \in Threads \ {t} : hdl'[u] = hdl[u]
           /\ SigDeliver(t) =>
                 /\ hdl[t].pc = "idle" /\ hdl'[t].pc = "wait" /\ hdl'[t].pid = hdl[t].pid
                 /\ UNCHANGED <<child_a, cnt_a, procSt>>
           /\ \A p \in Pid : HandlerWaitpid(t, p) =>
                 /\ hdl[t].pc = "wait" /\ hdl'[t].pc = "pick" /\ hdl'[t].pid = p
                 /\ procSt[p] = "zombie" /\ procSt' = [procSt EXCEPT ![p] = "gone"]
                 /\ UNCHANGED <<child_a, cnt_a>>
           /\ HandlerReturn(t) =>
                 /\ hdl[t].pc = "wait" /\ hdl'[t].pc = "idle" /\ hdl'[t].pid = NoPid
                 /\ UNCHANGED <<child_a, cnt_a, procSt>>
           /\ HandlerPickQueue(t) =>
                 /\ hdl[t].pc = "pick" /\ hdl'[t].pc = "cnt" /\ hdl'[t].pid = hdl[t].pid
                 /\ hdl'[t].q = gSigQueue
                 /\ UNCHANGED <<child_a, cnt_a, procSt>>
           /\ HandlerReadCount(t) =>
                 /\ hdl[t].pc = "cnt" /\ hdl'[t].pc = "store" /\ hdl'[t].pid = hdl[t].pid
                 /\ hdl'[t].q = hdl[t].q /\ hdl'[t].cnt = cnt_a[hdl[t].q]
                 /\ UNCHANGED <<child_a, cnt_a, procSt>>
           /\ HandlerStore(t) =>
                 /\ hdl[t].pc = "store"
                 /\ hdl[t].cnt < max_alen =>
                       /\ hdl'[t].pc = "sel" /\ hdl'[t].pid = hdl[t].pid
                       /\ hdl'[t].q = hdl[t].q /\ hdl'[t].cnt = hdl[t].cnt + 1
                       /\ child_a' = [child_a EXCEPT ![hdl[t].q][hdl[t].cnt] = hdl[t].pid]
                 /\ ~(hdl[t].cnt < max_alen) =>
                       hdl'[t].pc = "wait" /\ hdl'[t].pid = NoPid /\ UNCHANGED child_a
                 /\ UNCHANGED <<cnt_a, procSt>>
           /\ HandlerSelectCount(t) =>
                 /\ hdl[t].pc = "sel" /\ hdl'[t].pc = "count" /\ hdl'[t].pid = hdl[t].pid
                 /\ hdl'[t].q = gSigQueue /\ hdl'[t].cnt = hdl[t].cnt
                 /\ UNCHANGED <<child_a, cnt_a, procSt>>
           /\ HandlerWriteCount(t) =>
                 /\ hdl[t].pc = "count" /\ hdl'[t].pc = "wait" /\ hdl'[t].pid = NoPid
                 /\ cnt_a' = [cnt_a EXCEPT ![hdl[t].q] = hdl[t].cnt]
                 /\ UNCHANGED <<child_a, procSt>>
  <1> DEFINE H == [pc: {"idle", "wait", "pick", "cnt", "store", "sel", "count"},
                   pid: Pid \cup {NoPid}, q: {0, 1}, cnt: 0..max_alen]
  <1>0. t \in Threads /\ hdl[t] \in H
    BY ConstAssumption DEF TypeOK
  <1>1. UNCHANGED <<gSigQueue, mainPc, mainI, mainCnt, mainPid, waitChildPid, msgInProgress, mgrPc, lp>>
    BY Zenon
    DEF SigDeliver, sigchld_hdl, OnlyHandler, HandlerWaitpid, HandlerReturn, HandlerPickQueue,
        HandlerReadCount, HandlerStore, HandlerSelectCount, HandlerWriteCount, sigVars, mainVars
  <1>2. PICK h : hdl' = [hdl EXCEPT ![t] = h]
    <2>1. SigDeliver(t) => hdl' = [hdl EXCEPT ![t] = [hdl[t] EXCEPT !.pc = "wait"]]
      BY <1>0 DEF SigDeliver
    <2>2. sigchld_hdl(t) => \E h : hdl' = [hdl EXCEPT ![t] = h]
      BY <1>0, Zenon
      DEF sigchld_hdl, OnlyHandler, HandlerWaitpid, HandlerReturn, HandlerPickQueue,
          HandlerReadCount, HandlerStore, HandlerSelectCount, HandlerWriteCount
    <2>3. QED
      BY <2>1, <2>2
  <1>3. \A u \in Threads \ {t} : hdl'[u] = hdl[u]
    BY <1>2, OneHandler
  <1>o. ASSUME NEW g, OnlyHandler(t, g) PROVE hdl'[t] = g
    BY <1>0, <1>o, OneHandler DEF OnlyHandler
  <1>i. /\ Idle.pc = "idle" /\ Idle.pid = NoPid
        /\ [Idle EXCEPT !.pc = "wait"].pc = "wait" /\ [Idle EXCEPT !.pc = "wait"].pid = NoPid
    BY DEF Idle
  <1>4. ASSUME SigDeliver(t)
        PROVE  /\ hdl[t].pc = "idle" /\ hdl'[t].pc = "wait" /\ hdl'[t].pid = hdl[t].pid
               /\ UNCHANGED <<child_a, cnt_a, procSt>>
    <2>1. hdl' = [hdl EXCEPT ![t] = [hdl[t] EXCEPT !.pc = "wait"]]
      BY <1>0, <1>4 DEF SigDeliver
    <2>2. hdl'[t] = [hdl[t] EXCEPT !.pc = "wait"]
      BY <1>0, <2>1, OneHandler
    <2>3. QED
      BY <1>0, <1>4, <2>2 DEF SigDeliver, Free, sigVars
  <1>5. ASSUME NEW p \in Pid, HandlerWaitpid(t, p)
        PROVE  /\ hdl[t].pc = "wait" /\ hdl'[t].pc = "pick" /\ hdl'[t].pid = p
               /\ procSt[p] = "zombie" /\ procSt' = [procSt EXCEPT ![p] = "gone"]
               /\ UNCHANGED <<child_a, cnt_a>>
    <2>1. hdl'[t] = [hdl[t] EXCEPT !.pc = "pick", !.pid = p]
      BY <1>0, <1>5, <1>o DEF HandlerWaitpid
    <2>2. QED
      BY <1>0, <1>5, <2>1 DEF HandlerWaitpid, At
  <1>6. ASSUME HandlerReturn(t)
        PROVE  /\ hdl[t].pc = "wait" /\ hdl'[t].pc = "idle" /\ hdl'[t].pid = NoPid
               /\ UNCHANGED <<child_a, cnt_a, procSt>>
    BY <1>0, <1>6, <1>i, <1>o DEF HandlerReturn, At
  <1>7. ASSUME HandlerPickQueue(t)
        PROVE  /\ hdl[t].pc = "pick" /\ hdl'[t].pc = "cnt" /\ hdl'[t].pid = hdl[t].pid
               /\ hdl'[t].q = gSigQueue
               /\ UNCHANGED <<child_a, cnt_a, procSt>>
    <2>1. hdl'[t] = [hdl[t] EXCEPT !.pc = "cnt", !.q = gSigQueue]
      BY <1>0, <1>7, <1>o DEF HandlerPickQueue
    <2>2. QED
      BY <1>0, <1>7, <2>1 DEF HandlerPickQueue, At
  <1>8. ASSUME HandlerReadCount(t)
        PROVE  /\ hdl[t].pc = "cnt" /\ hdl'[t].pc = "store" /\ hdl'[t].pid = hdl[t].pid
               /\ hdl'[t].q = hdl[t].q /\ hdl'[t].cnt = cnt_a[hdl[t].q]
               /\ UNCHANGED <<child_a, cnt_a, procSt>>
    <2>1. hdl'[t] = [hdl[t] EXCEPT !.pc = "store", !.cnt = cnt_a[hdl[t].q]]
      BY <1>0, <1>8, <1>o DEF HandlerReadCount
    <2>2. QED
      BY <1>0, <1>8, <2>1 DEF HandlerReadCount, At
  <1>9. ASSUME HandlerStore(t)
        PROVE  /\ hdl[t].pc = "store"
               /\ hdl[t].cnt < max_alen =>
                     /\ hdl'[t].pc = "sel" /\ hdl'[t].pid = hdl[t].pid
                     /\ hdl'[t].q = hdl[t].q /\ hdl'[t].cnt = hdl[t].cnt + 1
                     /\ child_a' = [child_a EXCEPT ![hdl[t].q][hdl[t].cnt] = hdl[t].pid]
               /\ ~(hdl[t].cnt < max_alen) =>
                     hdl'[t].pc = "wait" /\ hdl'[t].pid = NoPid /\ UNCHANGED child_a
               /\ UNCHANGED <<cnt_a, procSt>>
    <2>1. hdl[t].pc = "store" /\ UNCHANGED <<cnt_a, procSt>>
      BY <1>0, <1>9 DEF HandlerStore, At
    <2>2. CASE hdl[t].cnt < max_alen
      <3>1. /\ child_a' = [child_a EXCEPT ![hdl[t].q][hdl[t].cnt] = hdl[t].pid]
            /\ OnlyHandler(t, [hdl[t] EXCEPT !.pc = "sel", !.cnt = hdl[t].cnt + 1])
        BY <1>0, <1>9, <2>2, Zenon DEF HandlerStore
      <3>2. hdl'[t] = [hdl[t] EXCEPT !.pc = "sel", !.cnt = hdl[t].cnt + 1]
        BY <1>o, <3>1
      <3>3. QED
        BY <1>0, <2>1, <2>2, <3>1, <3>2
    <2>3. CASE ~(hdl[t].cnt < max_alen)
      <3>1. OnlyHandler(t, [Idle EXCEPT !.pc = "wait"]) /\ UNCHANGED child_a
        BY <1>0, <1>9, <2>3, Zenon DEF HandlerStore
      <3>2. QED
        BY <1>i, <1>o, <2>1, <2>3, <3>1
    <2>4. QED
      BY <2>2, <2>3
  <1>10. ASSUME HandlerSelectCount(t)
         PROVE  /\ hdl[t].pc = "sel" /\ hdl'[t].pc = "count" /\ hdl'[t].pid = hdl[t].pid
                /\ hdl'[t].q = gSigQueue /\ hdl'[t].cnt = hdl[t].cnt
                /\ UNCHANGED <<child_a, cnt_a, procSt>>
    <2>1. hdl'[t] = [hdl[t] EXCEPT !.pc = "count", !.q = gSigQueue]
      BY <1>0, <1>10, <1>o DEF HandlerSelectCount
    <2>2. QED
      BY <1>0, <1>10, <2>1 DEF HandlerSelectCount, At
  <1>11. ASSUME HandlerWriteCount(t)
         PROVE  /\ hdl[t].pc = "count" /\ hdl'[t].pc = "wait" /\ hdl'[t].pid = NoPid
                /\ cnt_a' = [cnt_a EXCEPT ![hdl[t].q] = hdl[t].cnt]
                /\ UNCHANGED <<child_a, procSt>>
    <2>1. hdl'[t] = [Idle EXCEPT !.pc = "wait"]
      BY <1>11, <1>o DEF HandlerWriteCount
    <2>2. QED
      BY <1>0, <1>11, <1>i, <2>1 DEF HandlerWriteCount, At
  <1>12. QED
    BY <1>0, <1>1, <1>3, <1>4, <1>5, <1>6, <1>7, <1>8, <1>9, <1>10, <1>11

(* Until something overlaps, the queue a handler chose stays the active one  *)
(* until its last write, and the count it read stays right.                  *)
LEMMA ControlNext ==
    ASSUME ControlInv, [Next]_vars, ~Overlap
    PROVE  ControlInv'
  <1>t. TypeInv' /\ TypeOK /\ TypeOK'
    BY NextTypeInv DEF ControlInv, TypeInv
  <1>o. OneInside'
    BY DEF Overlap, OneInside
  <1>c. /\ gSigQueue \in {0, 1} /\ 1 - gSigQueue \in {0, 1} /\ 1 - gSigQueue # gSigQueue
        /\ cnt_a \in [{0, 1} -> 0..max_alen]
        /\ child_a \in [{0, 1} -> [0..(max_alen - 1) -> PidCell]]
    <2>1. gSigQueue \in {0, 1}
      BY <1>t DEF TypeOK
    <2>2. 1 - gSigQueue \in {0, 1} /\ 1 - gSigQueue # gSigQueue
      BY <2>1
    <2>3. /\ cnt_a \in [{0, 1} -> 0..max_alen]
          /\ child_a \in [{0, 1} -> [0..(max_alen - 1) -> PidCell]]
      BY <1>t DEF TypeOK
    <2>4. QED
      BY <2>1, <2>2, <2>3
  <1>m. max_alen \in Nat
    BY ConstAssumption DEF max_alen
  <1>s. ASSUME UNCHANGED <<hdl, gSigQueue, child_a, cnt_a, mainPc, mainI, mainCnt, mainPid>>
        PROVE  ControlInv'
    BY <1>s, <1>t, <1>o DEF ControlInv, HandlerInv, Inside, DrainInv
  <1> USE DEF queueVars, scanVars, sigVars, mainVars, kernVars
  <1>1. ASSUME NEW o \in Obj, addToDataQueue(o)
        PROVE  ControlInv'
    BY <1>1, <1>s DEF addToDataQueue
  <1>2. CASE TakeDataQueue \/ MergeGroup \/ terminateHangupInstances \/ CleanAllSlots \/ CleanSlot
              \/ ScanEnd \/ ScanSkip \/ ScanForkFail
    BY <1>2, <1>s
    DEF TakeDataQueue, MergeGroup, terminateHangupInstances, CleanAllSlots, CleanSlot, ScanEnd,
        ScanSkip, ScanForkFail
  <1>3. ASSUME NEW p \in Pid, ScanLaunch(p)
        PROVE  ControlInv'
    BY <1>3, <1>s DEF ScanLaunch
  <1>q. ASSUME UNCHANGED hdl, DrainInv',
               \A t \in Threads : Inside(t) => /\ gSigQueue' = gSigQueue
                                               /\ cnt_a'[gSigQueue] = cnt_a[gSigQueue]
                                               /\ UNCHANGED child_a
        PROVE  ControlInv'
    BY <1>q, <1>t, <1>o DEF ControlInv, HandlerInv, Inside
  <1>4. CASE MainSwap
    <2>1. /\ UNCHANGED <<hdl, child_a, cnt_a>> /\ mainPc' = "read" /\ gSigQueue' = 1 - gSigQueue
      BY <1>4 DEF MainSwap
    <2>2. \A t \in Threads : ~Inside(t)
      BY <1>c, <2>1 DEF Overlap
    <2>3. DrainInv'
      BY <2>1 DEF DrainInv
    <2>4. QED
      BY <1>q, <2>1, <2>2, <2>3
  <1>5. CASE MainRead
    <2>1. /\ UNCHANGED <<hdl, child_a, cnt_a, gSigQueue>>
          /\ mainPc' = "signal" /\ mainCnt' = cnt_a[1 - gSigQueue]
      BY <1>5 DEF MainRead
    <2>2. DrainInv'
      BY <2>1 DEF DrainInv
    <2>3. QED
      BY <1>q, <2>1, <2>2
  <1>6. CASE MainPick
    <2>1. /\ UNCHANGED <<hdl, child_a, cnt_a, gSigQueue, mainI, mainCnt>> /\ mainPc = "signal"
          /\ mainPc' = "store" /\ mainPid' = child_a[1 - gSigQueue][mainI]
      BY <1>6 DEF MainPick
    <2>2. DrainInv'
      BY <2>1 DEF ControlInv, DrainInv
    <2>3. QED
      BY <1>q, <2>1, <2>2
  <1>p. CASE signalChildL2
    <2>1. /\ UNCHANGED <<hdl, child_a, cnt_a, gSigQueue, mainCnt>> /\ mainPc = "store"
          /\ mainPc' = "signal"
      BY <1>p DEF signalChildL2
    <2>2. DrainInv'
      BY <2>1 DEF ControlInv, DrainInv
    <2>3. QED
      BY <1>q, <2>1, <2>2
  <1>7. CASE MainReset
    <2>1. /\ UNCHANGED <<hdl, child_a, gSigQueue>>
          /\ mainPc' = "swap" /\ cnt_a' = [cnt_a EXCEPT ![1 - gSigQueue] = 0]
      BY <1>7 DEF MainReset
    <2>2. cnt_a'[1 - gSigQueue] = 0 /\ cnt_a'[gSigQueue] = cnt_a[gSigQueue]
      BY <1>c, <2>1
    <2>3. DrainInv'
      BY <2>1, <2>2 DEF DrainInv
    <2>4. QED
      BY <1>q, <2>1, <2>2, <2>3
  <1>8. ASSUME NEW t \in HandlerThreads, SigDeliver(t) \/ sigchld_hdl(t)
        PROVE  ControlInv'
    <2>1. /\ UNCHANGED <<gSigQueue, mainPc, mainI, mainCnt, mainPid>>
          /\ t \in Threads /\ \A u \in Threads \ {t} : hdl'[u] = hdl[u]
      BY <1>8, <1>t, HandlerSteps
    <2>2. hdl[t] \in [pc: {"idle", "wait", "pick", "cnt", "store", "sel", "count"},
                      pid: Pid \cup {NoPid}, q: {0, 1}, cnt: 0..max_alen]
      BY <1>t, <2>1 DEF TypeOK
    <2> DEFINE Fits ==
            /\ hdl'[t].pc \in {"idle", "wait"} => hdl'[t].pid = NoPid
            /\ hdl'[t].pc \notin {"idle", "wait"} => hdl'[t].pid \in Pid
            /\ hdl'[t].pc \in {"cnt", "store", "sel", "count"} => hdl'[t].q = gSigQueue
            /\ hdl'[t].pc = "store" => hdl'[t].cnt = cnt_a'[gSigQueue]
            /\ hdl'[t].pc \in {"sel", "count"} =>
                  /\ hdl'[t].cnt = cnt_a'[gSigQueue] + 1
                  /\ child_a'[gSigQueue][cnt_a'[gSigQueue]] = hdl'[t].pid
    <2>a. ASSUME Fits, UNCHANGED <<child_a, cnt_a>>
          PROVE  ControlInv'
      <3>1. HandlerInv'
        BY <2>1, <2>a DEF ControlInv, HandlerInv, Inside
      <3>2. QED
        BY <1>t, <1>o, <2>1, <2>a, <3>1 DEF ControlInv, DrainInv
    <2>b. ASSUME Fits, Inside(t),
                 cnt_a'[1 - gSigQueue] = cnt_a[1 - gSigQueue],
                 child_a'[1 - gSigQueue] = child_a[1 - gSigQueue]
          PROVE  ControlInv'
      <3>1. \A u \in Threads \ {t} : ~Inside(u)
        BY <2>1, <2>b DEF ControlInv, OneInside
      <3>2. HandlerInv'
        BY <2>1, <2>b, <3>1 DEF ControlInv, HandlerInv, Inside
      <3>3. QED
        BY <1>t, <1>o, <2>1, <2>b, <3>2 DEF ControlInv, DrainInv
    <2>i. /\ hdl[t].pc \in {"idle", "wait"} => hdl[t].pid = NoPid
          /\ hdl[t].pc \notin {"idle", "wait"} => hdl[t].pid \in Pid
          /\ hdl[t].pc \in {"cnt", "store", "sel", "count"} => hdl[t].q = gSigQueue
          /\ hdl[t].pc = "store" => hdl[t].cnt = cnt_a[gSigQueue]
          /\ hdl[t].pc \in {"sel", "count"} =>
                /\ hdl[t].cnt = cnt_a[gSigQueue] + 1
                /\ child_a[gSigQueue][cnt_a[gSigQueue]] = hdl[t].pid
      BY <2>1 DEF ControlInv, HandlerInv, Inside
    <2>3. CASE SigDeliver(t)
      <3>1. /\ hdl[t].pc = "idle" /\ hdl'[t].pc = "wait" /\ hdl'[t].pid = hdl[t].pid
            /\ UNCHANGED <<child_a, cnt_a>>
        BY <1>8, <1>t, <2>3, HandlerSteps
      <3>2. QED
        BY <2>a, <2>i, <3>1
    <2>4. ASSUME NEW p \in Pid, HandlerWaitpid(t, p)
          PROVE  ControlInv'
      <3>1. /\ hdl'[t].pc = "pick" /\ hdl'[t].pid = p /\ UNCHANGED <<child_a, cnt_a>>
        BY <1>8, <1>t, <2>4, HandlerSteps
      <3>2. QED
        BY <2>a, <3>1
    <2>5. CASE HandlerReturn(t)
      <3>1. hdl'[t].pc = "idle" /\ hdl'[t].pid = NoPid /\ UNCHANGED <<child_a, cnt_a>>
        BY <1>8, <1>t, <2>5, HandlerSteps
      <3>2. QED
        BY <2>a, <3>1
    <2>6. CASE HandlerPickQueue(t)
      <3>1. /\ hdl[t].pc = "pick" /\ hdl'[t].pc = "cnt" /\ hdl'[t].pid = hdl[t].pid
            /\ hdl'[t].q = gSigQueue /\ UNCHANGED <<child_a, cnt_a>>
        BY <1>8, <1>t, <2>6, HandlerSteps
      <3>2. QED
        BY <2>a, <2>i, <3>1
    <2>7. CASE HandlerReadCount(t)
      <3>1. /\ hdl[t].pc = "cnt" /\ hdl'[t].pc = "store" /\ hdl'[t].pid = hdl[t].pid
            /\ hdl'[t].q = hdl[t].q /\ hdl'[t].cnt = cnt_a[hdl[t].q]
            /\ UNCHANGED <<child_a, cnt_a>>
        BY <1>8, <1>t, <2>7, HandlerSteps
      <3>2. QED
        BY <2>a, <2>i, <3>1
    <2>8. CASE HandlerStore(t) /\ hdl[t].cnt < max_alen
      <3>1. /\ hdl[t].pc = "store" /\ hdl'[t].pc = "sel" /\ hdl'[t].pid = hdl[t].pid
            /\ hdl'[t].q = hdl[t].q /\ hdl'[t].cnt = hdl[t].cnt + 1
            /\ child_a' = [child_a EXCEPT ![hdl[t].q][hdl[t].cnt] = hdl[t].pid]
            /\ UNCHANGED cnt_a
        BY <1>8, <1>t, <2>8, HandlerSteps
      <3>2. hdl[t].q = gSigQueue /\ hdl[t].cnt = cnt_a[gSigQueue] /\ hdl[t].pid \in Pid
        BY <2>i, <3>1
      <3>3. hdl[t].cnt \in 0..(max_alen - 1)
        BY <1>m, <2>2, <2>8
      <3>4. child_a'[gSigQueue][cnt_a[gSigQueue]] = hdl[t].pid
        BY <1>c, <3>1, <3>2, <3>3
      <3>5. child_a'[1 - gSigQueue] = child_a[1 - gSigQueue]
        BY <1>c, <3>1, <3>2
      <3>6. QED
        BY <2>b, <3>1, <3>2, <3>4, <3>5 DEF Inside
    <2>9. CASE HandlerStore(t) /\ ~(hdl[t].cnt < max_alen)
      <3>1. hdl'[t].pc = "wait" /\ hdl'[t].pid = NoPid /\ UNCHANGED <<child_a, cnt_a>>
        BY <1>8, <1>t, <2>9, HandlerSteps
      <3>2. QED
        BY <2>a, <3>1
    <2>10. CASE HandlerSelectCount(t)
      <3>1. /\ hdl[t].pc = "sel" /\ hdl'[t].pc = "count" /\ hdl'[t].pid = hdl[t].pid
            /\ hdl'[t].q = gSigQueue /\ hdl'[t].cnt = hdl[t].cnt
            /\ UNCHANGED <<child_a, cnt_a>>
        BY <1>8, <1>t, <2>10, HandlerSteps
      <3>2. QED
        BY <2>a, <2>i, <3>1
    <2>11. CASE HandlerWriteCount(t)
      <3>1. /\ hdl[t].pc = "count" /\ hdl'[t].pc = "wait" /\ hdl'[t].pid = NoPid
            /\ cnt_a' = [cnt_a EXCEPT ![hdl[t].q] = hdl[t].cnt] /\ UNCHANGED child_a
        BY <1>8, <1>t, <2>11, HandlerSteps
      <3>2. hdl[t].q = gSigQueue
        BY <2>i, <3>1
      <3>3. cnt_a'[1 - gSigQueue] = cnt_a[1 - gSigQueue]
        BY <1>c, <3>1, <3>2
      <3>4. QED
        BY <2>b, <3>1, <3>3 DEF Inside
    <2>12. QED
      BY <1>8, <2>3, <2>4, <2>5, <2>6, <2>7, <2>8, <2>9, <2>10, <2>11 DEF sigchld_hdl
  <1>9. ASSUME NEW p \in Pid, ChildExit(p) \/ ForeignFork(p)
        PROVE  ControlInv'
    BY <1>9, <1>s DEF ChildExit, ForeignFork
  <1>10. ASSUME NEW i \in DOMAIN msgInProgress, OperationTimeout(i)
         PROVE  ControlInv'
    BY <1>10, <1>s DEF OperationTimeout
  <1>11. CASE UNCHANGED vars
    BY <1>11, <1>s DEF vars
  <1>12. QED
    BY <1>1, <1>2, <1>3, <1>4, <1>5, <1>6, <1>p, <1>7, <1>8, <1>9, <1>10, <1>11
    DEF Next, serverLoop, MainLoop

-----------------------------------------------------------------------------
(* Distinct pids of instances are no more than the instances.                *)
LEMMA OwnedBound ==
    ASSUME NEW s \in Seq(Instance), NEW n \in Nat, NEW f,
           \A k \in 1..n : \E i \in 1..Len(s) : s[i].pid = f[k],
           \A k, l \in 1..n : k # l => f[k] # f[l]
    PROVE  n <= Len(s)
  <1> DEFINE g == [k \in 1..n |-> CHOOSE i \in 1..Len(s) : s[i].pid = f[k]]
  <1>1. Len(s) \in Nat
    BY InstanceFacts
  <1>2. \A k \in 1..n : g[k] \in 1..Len(s) /\ s[g[k]].pid = f[k]
    OBVIOUS
  <1>3. g \in [1..n -> 1..Len(s)]
    BY <1>2
  <1> HIDE DEF g
  <1>4. g \in Injection(1..n, 1..Len(s))
    BY <1>2, <1>3 DEF Injection, IsInjective
  <1>5. 1 \in Int /\ n \in Int /\ Len(s) \in Int
    BY <1>1
  <1>6. /\ IsFiniteSet(1..Len(s)) /\ Cardinality(1..Len(s)) = IF 1 > Len(s) THEN 0 ELSE Len(s) - 1 + 1
        /\ Cardinality(1..n) = IF 1 > n THEN 0 ELSE n - 1 + 1
    BY <1>5, FS_Interval
  <1>7. Cardinality(1..n) <= Cardinality(1..Len(s))
    BY <1>4, <1>6, FS_Injection
  <1>8. QED
    BY <1>1, <1>6, <1>7

(* main.cpp's "2*max parallel instances": a queue never fills, because the   *)
(* pids in it and the one in the handler belong to different instances.      *)
LEMMA RoomToStore ==
    ASSUME ReportInv, NEW t \in Threads, hdl[t].pc = "store"
    PROVE  hdl[t].cnt < MaxParallel
  <1>t. TypeOK
    BY DEF ReportInv, ControlInv, TypeInv
  <1>1. msgInProgress \in Seq(Instance) /\ Len(msgInProgress) \in Nat
        /\ DOMAIN msgInProgress = 1..Len(msgInProgress)
    BY <1>t, InstanceFacts DEF TypeOK
  <1>2. hdl[t].cnt = cnt_a[gSigQueue] /\ hdl[t].pid \in Pid
    BY DEF ReportInv, ControlInv, HandlerInv
  <1>3. cnt_a[gSigQueue] \in Nat
    BY <1>t, ConstAssumption DEF TypeOK, max_alen
  <1> DEFINE n == cnt_a[gSigQueue]
             f == [k \in 1..(n + 1) |-> IF k <= n THEN Active(k - 1) ELSE hdl[t].pid]
  <1> HIDE DEF n
  <1>4. n \in Nat /\ \A k \in 1..(n + 1) : IF k <= n THEN k - 1 \in ActiveIdx ELSE k = n + 1
    BY <1>3 DEF n, ActiveIdx
  <1>5. \A k \in 1..(n + 1) : f[k] = IF k <= n THEN Active(k - 1) ELSE hdl[t].pid
    OBVIOUS
  <1> HIDE DEF f
  <1>6. \A k \in 1..(n + 1) : Owned(f[k])
    BY <1>2, <1>4, <1>5 DEF ReportInv, TransitInv, TransitOwned
  <1>7. ASSUME NEW k \in 1..(n + 1), NEW l \in 1..(n + 1), k # l
        PROVE  f[k] # f[l]
    <2>1. CASE k <= n /\ l <= n
      <3>1. k - 1 \in ActiveIdx /\ l - 1 \in ActiveIdx /\ k - 1 # l - 1
        BY <1>4, <1>7, <2>1
      <3>2. QED
        BY <1>5, <2>1, <3>1 DEF ReportInv, TransitInv, TransitOnce
    <2>2. CASE k <= n /\ ~(l <= n)
      BY <1>4, <1>5, <2>2 DEF ReportInv, TransitInv, TransitOnce
    <2>3. CASE ~(k <= n) /\ l <= n
      BY <1>4, <1>5, <2>3 DEF ReportInv, TransitInv, TransitOnce
    <2>4. QED
      BY <1>4, <1>7, <2>1, <2>2, <2>3
  <1>8. n + 1 \in Nat /\ \A k \in 1..(n + 1) : \E i \in 1..Len(msgInProgress) : msgInProgress[i].pid = f[k]
    BY <1>1, <1>4, <1>6 DEF Owned
  <1>9. n + 1 <= Len(msgInProgress)
    BY <1>1, <1>7, <1>8, OwnedBound
  <1>10. Len(msgInProgress) <= MaxParallel
    BY DEF ReportInv, OwnInv, SlotInv, ObjectsExclusive
  <1>11. QED
    BY <1>1, <1>2, <1>4, <1>9, <1>10, ConstAssumption DEF n

(* signalChildL2 always finds an empty slot for the pid it hands over.       *)
LEMMA RoomToSignal ==
    ASSUME ReportInv, signalChildL2
    PROVE  /\ EmptySlot \in 1..MaxParallel /\ waitChildPid[EmptySlot] = NoPid
           /\ mainI \in DrainIdx /\ mainPid = Drain(mainI) /\ mainPid \in Pid
           /\ \A s \in 1..MaxParallel : waitChildPid[s] \in Pid \cup {NoPid}
  <1>t. TypeOK
    BY DEF ReportInv, ControlInv, TypeInv
  <1>1. msgInProgress \in Seq(Instance) /\ Len(msgInProgress) \in Nat
        /\ DOMAIN msgInProgress = 1..Len(msgInProgress)
        /\ \A i \in 1..Len(msgInProgress) : msgInProgress[i].pid \in Pid
    BY <1>t, InstanceFacts DEF TypeOK
  <1>2. mainI \in DrainIdx
    <2>1. mainPc = "store" /\ mainI < mainCnt /\ mainCnt = cnt_a[1 - gSigQueue]
      BY <1>t DEF signalChildL2, ReportInv, ControlInv, DrainInv, TypeOK
    <2>2. mainI \in Nat /\ mainCnt \in Nat
      BY <1>t, ConstAssumption DEF TypeOK, max_alen
    <2>3. QED
      BY <2>1, <2>2 DEF DrainIdx
  <1>3. Owned(Drain(mainI))
    BY <1>2 DEF ReportInv, TransitInv, TransitOwned
  <1>4. Drain(mainI) \in Pid /\ msgInProgress # <<>>
    BY <1>1, <1>3 DEF Owned
  <1>5. \A s \in 1..MaxParallel : waitChildPid[s] \in Pid \cup {NoPid}
    BY <1>4 DEF ReportInv, JunkInv
  <1>m. MaxParallel \in Nat
    BY ConstAssumption
  <1>6. \E s \in 1..MaxParallel : waitChildPid[s] = NoPid
    <2> SUFFICES ASSUME \A s \in 1..MaxParallel : waitChildPid[s] # NoPid
                 PROVE  FALSE
      OBVIOUS
    <2>1. \A s \in 1..MaxParallel : s \in WaitIdx
      BY <1>5 DEF WaitIdx
    <2> DEFINE n == MaxParallel
               f == [k \in 1..(n + 1) |-> IF k <= n THEN waitChildPid[k] ELSE Drain(mainI)]
    <2> HIDE DEF n
    <2>2. n \in Nat /\ \A k \in 1..(n + 1) : IF k <= n THEN k \in WaitIdx ELSE k = n + 1
      BY <1>m, <2>1 DEF n
    <2>3. \A k \in 1..(n + 1) : f[k] = IF k <= n THEN waitChildPid[k] ELSE Drain(mainI)
      OBVIOUS
    <2> HIDE DEF f
    <2>4. \A k \in 1..(n + 1) : Owned(f[k])
      BY <1>3, <2>2, <2>3 DEF ReportInv, TransitInv, TransitOwned
    <2>5. ASSUME NEW k \in 1..(n + 1), NEW l \in 1..(n + 1), k # l
          PROVE  f[k] # f[l]
      <3>1. CASE k <= n /\ l <= n
        BY <2>2, <2>3, <2>5, <3>1 DEF ReportInv, TransitInv, TransitOnce
      <3>2. CASE k <= n /\ ~(l <= n)
        BY <1>2, <2>2, <2>3, <3>2 DEF ReportInv, TransitInv, TransitOnce
      <3>3. CASE ~(k <= n) /\ l <= n
        BY <1>2, <2>2, <2>3, <3>3 DEF ReportInv, TransitInv, TransitOnce
      <3>4. QED
        BY <2>2, <2>5, <3>1, <3>2, <3>3
    <2>6. n + 1 \in Nat /\ \A k \in 1..(n + 1) : \E i \in 1..Len(msgInProgress) : msgInProgress[i].pid = f[k]
      BY <1>1, <2>2, <2>4 DEF Owned
    <2>7. n + 1 <= Len(msgInProgress)
      BY <1>1, <2>5, <2>6, OwnedBound
    <2>8. Len(msgInProgress) <= n
      BY DEF ReportInv, OwnInv, SlotInv, ObjectsExclusive, n
    <2>9. QED
      BY <1>1, <2>2, <2>7, <2>8
  <1>7. waitChildPid \in Seq(PidCell) /\ Len(waitChildPid) = MaxParallel
    <2>1. waitChildPid \in [1..MaxParallel -> PidCell]
      BY <1>t DEF TypeOK
    <2>2. waitChildPid \in Seq(PidCell)
      BY <1>m, <2>1
    <2>3. QED
      BY <1>m, <2>1, <2>2, LenProperties
  <1> DEFINE M == {i \in 1..Len(waitChildPid) : waitChildPid[i] = NoPid}
  <1>8. EmptySlot = IF M # {} THEN Min(M) ELSE 0
    BY DEF EmptySlot, SelectInSeq
  <1>9. M # {} /\ M \in SUBSET (1..Len(waitChildPid))
    BY <1>6, <1>7
  <1>10. EmptySlot \in M
    <2> HIDE DEF M
    <2>1. M \in SUBSET Nat
      BY <1>7, <1>9, <1>m
    <2>2. QED
      BY <1>8, <1>9, <2>1, MinIsLeast
  <1>11. QED
    BY <1>2, <1>4, <1>5, <1>7, <1>10 DEF signalChildL2, ReportInv, ControlInv, DrainInv, Drain

-----------------------------------------------------------------------------
(* A step that leaves every pid where it is.                                 *)
LEMMA TransitSame ==
    ASSUME ReportInv,
           \A t \in Threads : hdl'[t].pid = hdl[t].pid,
           ActiveIdx' = ActiveIdx, \A k \in ActiveIdx : Active(k)' = Active(k),
           DrainIdx' = DrainIdx, \A k \in DrainIdx : Drain(k)' = Drain(k),
           UNCHANGED waitChildPid,
           \A p : Owned(p)' <=> Owned(p),
           \A p \in Pid : procSt'[p] = "gone" => procSt[p] = "gone"
    PROVE  TransitInv'
  <1>1. WaitIdx' = WaitIdx
    BY DEF WaitIdx
  <1>2. TransitOwned'
    BY <1>1 DEF ReportInv, TransitInv, TransitOwned
  <1>3. TransitOnce'
    BY <1>1 DEF ReportInv, TransitInv, TransitOnce
  <1>4. \A p \in Pid : InTransit(p) => InTransit(p)'
    BY <1>1 DEF InTransit
  <1>5. GoneInTransit'
    BY <1>4 DEF ReportInv, TransitInv, GoneInTransit
  <1>6. QED
    BY <1>2, <1>3, <1>5 DEF TransitInv

(* The places of the two queues, where main and the handler leave them.      *)
LEMMA QueuesSame ==
    ASSUME UNCHANGED <<gSigQueue, child_a, cnt_a, mainI, mainPc>>
    PROVE  /\ ActiveIdx' = ActiveIdx /\ \A k \in ActiveIdx : Active(k)' = Active(k)
           /\ DrainIdx' = DrainIdx /\ \A k \in DrainIdx : Drain(k)' = Drain(k)
  BY DEF ActiveIdx, DrainIdx, Active, Drain

(* waitpid reaps a child: its pid is in the handler and nowhere else.        *)
LEMMA TransitWaitpid ==
    ASSUME ReportInv, NEW t \in HandlerThreads, NEW p \in Pid,
           HandlerWaitpid(t, p)
    PROVE  TransitInv'
  <1>t. TypeOK /\ procSt \in [Pid -> {"none", "run", "zombie", "gone", "foreign"}]
    BY DEF ReportInv, ControlInv, TypeInv, TypeOK
  <1>0. sigchld_hdl(t)
    BY DEF sigchld_hdl
  <1>1. /\ t \in Threads /\ \A u \in Threads \ {t} : hdl'[u] = hdl[u]
        /\ hdl[t].pc = "wait" /\ hdl'[t].pid = p
        /\ procSt[p] = "zombie" /\ procSt' = [procSt EXCEPT ![p] = "gone"]
        /\ UNCHANGED <<gSigQueue, child_a, cnt_a, mainI, mainPc, waitChildPid, msgInProgress>>
    BY <1>0, <1>t, HandlerSteps
  <1>2. /\ ActiveIdx' = ActiveIdx /\ \A k \in ActiveIdx : Active(k)' = Active(k)
        /\ DrainIdx' = DrainIdx /\ \A k \in DrainIdx : Drain(k)' = Drain(k)
        /\ WaitIdx' = WaitIdx
    BY <1>1, QueuesSame DEF WaitIdx
  <1>3. \A q : Owned(q)' <=> Owned(q)
    BY <1>1 DEF Owned
  <1>4. Owned(p)
    BY <1>1 DEF ReportInv, OwnInv, LiveHasInstance
  <1>5. hdl[t].pid = NoPid /\ NoPid \notin Pid
    BY <1>1, ConstAssumption DEF ReportInv, ControlInv, HandlerInv
  <1>6. ~Reported(p)
    BY <1>1 DEF ReportInv, OwnInv, ReportedGone
  <1>7. /\ \A k \in ActiveIdx : Active(k) # p
        /\ \A k \in DrainIdx : Drain(k) # p
        /\ \A s \in WaitIdx : waitChildPid[s] # p
        /\ \A u \in Threads : hdl[u].pid # p
    <2>1. gSigQueue \in {0, 1} /\ cnt_a[gSigQueue] \in 0..max_alen /\ max_alen \in Nat
      BY <1>t, ConstAssumption DEF TypeOK, max_alen
    <2>2. 1 - gSigQueue \in {0, 1}
      BY <2>1
    <2>3. cnt_a[1 - gSigQueue] \in 0..max_alen /\ mainI \in Nat
      BY <1>t, <2>1, <2>2 DEF TypeOK
    <2>4. ActiveIdx \subseteq 0..(max_alen - 1)
      BY <2>1 DEF ActiveIdx
    <2>5. DrainIdx \subseteq 0..(max_alen - 1)
      BY <2>1, <2>3 DEF DrainIdx
    <2>6. QED
      BY <1>6, <2>1, <2>2, <2>4, <2>5 DEF Reported, Active, Drain, WaitIdx
  <1>8. TransitOwned'
    BY <1>1, <1>2, <1>3, <1>4 DEF ReportInv, TransitInv, TransitOwned
  <1>9. TransitOnce'
    BY <1>1, <1>2, <1>7 DEF ReportInv, TransitInv, TransitOnce
  <1>10. GoneInTransit'
    <2> SUFFICES ASSUME NEW q \in Pid, Owned(q)', procSt'[q] = "gone"
                 PROVE  InTransit(q)'
      BY DEF GoneInTransit
    <2>1. CASE q = p
      BY <1>1, <2>1 DEF InTransit
    <2>2. CASE q # p
      <3>1. InTransit(q) /\ hdl[t].pid # q
        BY <1>t, <1>1, <1>3, <1>5, <2>2 DEF ReportInv, TransitInv, GoneInTransit
      <3>2. QED
        BY <1>1, <1>2, <3>1 DEF InTransit
    <2>3. QED
      BY <2>1, <2>2
  <1>11. QED
    BY <1>8, <1>9, <1>10 DEF TransitInv

(* Writing the count moves the pid from the handler into the active queue.   *)
LEMMA TransitCount ==
    ASSUME ReportInv, NEW t \in HandlerThreads,
           HandlerWriteCount(t)
    PROVE  TransitInv'
  <1>t. TypeOK
    BY DEF ReportInv, ControlInv, TypeInv
  <1>0. sigchld_hdl(t)
    BY DEF sigchld_hdl
  <1>1. /\ t \in Threads /\ \A u \in Threads \ {t} : hdl'[u] = hdl[u]
        /\ hdl[t].pc = "count" /\ hdl'[t].pid = NoPid
        /\ cnt_a' = [cnt_a EXCEPT ![hdl[t].q] = hdl[t].cnt]
        /\ UNCHANGED <<gSigQueue, child_a, procSt, mainI, mainPc, waitChildPid, msgInProgress>>
    BY <1>0, <1>t, HandlerSteps
  <1>2. /\ hdl[t].q = gSigQueue /\ hdl[t].cnt = cnt_a[gSigQueue] + 1 /\ hdl[t].pid \in Pid
        /\ Active(cnt_a[gSigQueue]) = hdl[t].pid
    BY <1>1 DEF ReportInv, ControlInv, HandlerInv, Inside, Active
  <1>3. gSigQueue \in {0, 1} /\ cnt_a \in [{0, 1} -> 0..max_alen] /\ max_alen \in Nat
    BY <1>t, ConstAssumption DEF TypeOK, max_alen
  <1>4. 1 - gSigQueue \in {0, 1} /\ 1 - gSigQueue # gSigQueue
    BY <1>3
  <1>5. cnt_a'[gSigQueue] = cnt_a[gSigQueue] + 1 /\ cnt_a'[1 - gSigQueue] = cnt_a[1 - gSigQueue]
    BY <1>1, <1>2, <1>3, <1>4
  <1> DEFINE n == cnt_a[gSigQueue]
  <1>6. n \in Nat /\ n \notin ActiveIdx /\ ActiveIdx' = ActiveIdx \cup {n}
    <2>1. n \in Nat
      BY <1>3
    <2>2. QED
      BY <1>1, <1>5, <2>1 DEF ActiveIdx
  <1> HIDE DEF n
  <1>7. /\ \A k \in ActiveIdx' : Active(k)' = Active(k)
        /\ DrainIdx' = DrainIdx /\ \A k \in DrainIdx : Drain(k)' = Drain(k)
        /\ WaitIdx' = WaitIdx /\ Active(n) = hdl[t].pid
    BY <1>1, <1>2, <1>5 DEF Active, Drain, DrainIdx, WaitIdx, n
  <1>8. \A q : Owned(q)' <=> Owned(q)
    BY <1>1 DEF Owned
  <1>9. NoPid \notin Pid
    BY ConstAssumption
  <1>10. TransitOwned'
    BY <1>1, <1>2, <1>6, <1>7, <1>8, <1>9 DEF ReportInv, TransitInv, TransitOwned
  <1>n. \A q : Owned(q) => q # NoPid
    <2>1. \A i \in DOMAIN msgInProgress : msgInProgress[i].pid \in Pid
      BY <1>t, InstanceFacts DEF TypeOK
    <2>2. QED
      BY <1>9, <2>1 DEF Owned
  <1>11. TransitOnce'
    <2>1. /\ \A k \in ActiveIdx' : Active(k)' # NoPid
          /\ \A k \in DrainIdx : Drain(k)' # NoPid
          /\ \A s \in WaitIdx' : waitChildPid'[s] # NoPid
      BY <1>1, <1>n, <1>7, <1>8, <1>10 DEF TransitOwned
    <2>o. TransitOnce
      BY DEF ReportInv, TransitInv
    <2>t. /\ \A k \in ActiveIdx : Active(k) # hdl[t].pid
          /\ \A k \in DrainIdx : Drain(k) # hdl[t].pid
          /\ \A s \in WaitIdx : waitChildPid[s] # hdl[t].pid
      BY <1>1, <2>o DEF TransitOnce
    <2>2. \A k, l \in ActiveIdx' : k # l => Active(k)' # Active(l)'
      BY <1>6, <1>7, <2>o, <2>t DEF TransitOnce
    <2>3. \A k \in ActiveIdx', l \in DrainIdx : Active(k)' # Drain(l)'
      BY <1>6, <1>7, <2>o, <2>t DEF TransitOnce
    <2>4. \A k \in ActiveIdx', s \in WaitIdx : Active(k)' # waitChildPid[s]
      BY <1>6, <1>7, <2>o, <2>t DEF TransitOnce
    <2>5. /\ \A u, v \in Threads : u # v /\ hdl'[u].pid \in Pid => hdl'[u].pid # hdl'[v].pid
          /\ \A k \in DrainIdx, u \in Threads : Drain(k) # hdl'[u].pid
          /\ \A s \in WaitIdx, u \in Threads : waitChildPid[s] # hdl'[u].pid
      BY <1>1, <1>7, <1>9, <2>o, <2>1 DEF TransitOnce
    <2>6. \A k \in ActiveIdx', u \in Threads : Active(k)' # hdl'[u].pid
      <3>1. \A u \in Threads \ {t} : hdl[u].pid # hdl[t].pid
        BY <1>1, <1>2, <2>o DEF TransitOnce
      <3>2. QED
        BY <1>1, <1>6, <1>7, <2>o, <2>1, <3>1 DEF TransitOnce
    <2>7. QED
      BY <1>1, <1>7, <2>1, <2>2, <2>3, <2>4, <2>5, <2>6, <2>o DEF TransitOnce
  <1>12. GoneInTransit'
    <2> SUFFICES ASSUME NEW q \in Pid, InTransit(q)
                 PROVE  InTransit(q)'
      BY <1>1, <1>8 DEF ReportInv, TransitInv, GoneInTransit
    <2>1. CASE hdl[t].pid = q
      BY <1>6, <1>7, <2>1 DEF InTransit
    <2>2. CASE hdl[t].pid # q
      BY <1>1, <1>6, <1>7, <2>2 DEF InTransit
    <2>3. QED
      BY <2>1, <2>2
  <1>13. QED
    BY <1>10, <1>11, <1>12 DEF TransitInv

(* Swapping the queues moves every reported pid from the active queue to the *)
(* one main empties, which was empty.                                        *)
LEMMA TransitSwap ==
    ASSUME ReportInv, MainSwap
    PROVE  TransitInv'
  <1>t. TypeOK
    BY DEF ReportInv, ControlInv, TypeInv
  <1>1. /\ mainPc = "swap" /\ mainPc' = "read" /\ gSigQueue' = 1 - gSigQueue
        /\ UNCHANGED <<hdl, child_a, cnt_a, procSt, waitChildPid, msgInProgress>>
    BY DEF MainSwap, kernVars
  <1>2. gSigQueue \in {0, 1} /\ 1 - (1 - gSigQueue) = gSigQueue
    <2>1. gSigQueue \in {0, 1}
      BY <1>t DEF TypeOK
    <2>2. QED
      BY <2>1
  <1>3. cnt_a[1 - gSigQueue] = 0
    BY <1>1 DEF ReportInv, ControlInv, DrainInv
  <1>4. ActiveIdx' = {} /\ DrainIdx = {}
    <2>1. ActiveIdx' = 0..(0 - 1) /\ DrainIdx = 0..(0 - 1)
      BY <1>1, <1>3 DEF ActiveIdx, DrainIdx
    <2>2. QED
      BY <2>1
  <1>5. DrainIdx' = ActiveIdx
    BY <1>1, <1>2 DEF ActiveIdx, DrainIdx
  <1>6. \A k : Drain(k)' = Active(k)
    BY <1>1, <1>2 DEF Active, Drain
  <1>7. WaitIdx' = WaitIdx /\ hdl' = hdl /\ \A q : Owned(q)' <=> Owned(q)
    BY <1>1 DEF WaitIdx, Owned
  <1>8. TransitOwned'
    BY <1>1, <1>4, <1>5, <1>6, <1>7 DEF ReportInv, TransitInv, TransitOwned
  <1>9. TransitOnce'
    BY <1>1, <1>4, <1>5, <1>6, <1>7 DEF ReportInv, TransitInv, TransitOnce
  <1>10. \A q \in Pid : InTransit(q) => InTransit(q)'
    BY <1>1, <1>4, <1>5, <1>6, <1>7 DEF InTransit
  <1>11. GoneInTransit'
    BY <1>1, <1>7, <1>10 DEF ReportInv, TransitInv, GoneInTransit
  <1>12. QED
    BY <1>8, <1>9, <1>11 DEF TransitInv

(* signalChildL2 moves one pid from main's queue into an empty slot.         *)
LEMMA TransitSignal ==
    ASSUME ReportInv, signalChildL2
    PROVE  TransitInv'
  <1>t. TypeOK
    BY DEF ReportInv, ControlInv, TypeInv
  <1> DEFINE e == EmptySlot
             d == mainPid
  <1>1. /\ e \in 1..MaxParallel /\ waitChildPid[e] = NoPid
        /\ mainI \in DrainIdx /\ d = Drain(mainI) /\ d \in Pid
    BY RoomToSignal
  <1>2. e # 0
    BY <1>1, ConstAssumption
  <1>3. /\ mainPc = "store" /\ mainPc' = "signal" /\ mainI' = mainI + 1
        /\ waitChildPid' = [waitChildPid EXCEPT ![e] = d]
        /\ UNCHANGED <<hdl, gSigQueue, child_a, cnt_a, procSt, msgInProgress>>
    BY <1>2 DEF signalChildL2, sigVars, kernVars
  <1> HIDE DEF e, d
  <1>4. DrainIdx' = DrainIdx \ {mainI}
    <2>1. mainI \in Nat /\ cnt_a[1 - gSigQueue] \in Int
      <3>1. gSigQueue \in {0, 1}
        BY <1>t DEF TypeOK
      <3>2. 1 - gSigQueue \in {0, 1}
        BY <3>1
      <3>3. QED
        BY <1>t, <3>2, ConstAssumption DEF TypeOK, max_alen
    <2>2. DrainIdx = mainI..(cnt_a[1 - gSigQueue] - 1) /\ DrainIdx' = (mainI + 1)..(cnt_a[1 - gSigQueue] - 1)
      BY <1>3 DEF DrainIdx
    <2>3. QED
      BY <2>1, <2>2
  <1>5. NoPid \notin Pid
    BY ConstAssumption
  <1>6. \A s \in 1..MaxParallel : waitChildPid'[s] = IF s = e THEN d ELSE waitChildPid[s]
    BY <1>t, <1>1, <1>3 DEF TypeOK
  <1>7. WaitIdx' = WaitIdx \cup {e} /\ e \notin WaitIdx
    BY <1>1, <1>5, <1>6 DEF WaitIdx
  <1>8. \A s \in WaitIdx : s # e /\ waitChildPid'[s] = waitChildPid[s]
    BY <1>6, <1>7 DEF WaitIdx
  <1>9. waitChildPid'[e] = d
    BY <1>1, <1>6
  <1>10. /\ ActiveIdx' = ActiveIdx /\ hdl' = hdl
         /\ \A k : Active(k)' = Active(k) /\ Drain(k)' = Drain(k)
         /\ \A q : Owned(q)' <=> Owned(q)
    BY <1>3 DEF ActiveIdx, Active, Drain, Owned
  <1>11. TransitOwned'
    BY <1>1, <1>4, <1>7, <1>8, <1>9, <1>10 DEF ReportInv, TransitInv, TransitOwned
  <1>12. TransitOnce'
    <2>1. \A s, r \in WaitIdx' : s # r => waitChildPid'[s] # waitChildPid'[r]
      BY <1>1, <1>7, <1>8, <1>9 DEF ReportInv, TransitInv, TransitOnce
    <2>2. \A t \in Threads, s \in WaitIdx' : waitChildPid'[s] # hdl[t].pid
      BY <1>1, <1>7, <1>8, <1>9 DEF ReportInv, TransitInv, TransitOnce
    <2>3. \A k \in ActiveIdx, s \in WaitIdx' : Active(k) # waitChildPid'[s]
      BY <1>1, <1>7, <1>8, <1>9 DEF ReportInv, TransitInv, TransitOnce
    <2>4. \A k \in DrainIdx', s \in WaitIdx' : Drain(k) # waitChildPid'[s]
      BY <1>1, <1>4, <1>7, <1>8, <1>9 DEF ReportInv, TransitInv, TransitOnce
    <2>5. QED
      BY <1>4, <1>10, <2>1, <2>2, <2>3, <2>4 DEF ReportInv, TransitInv, TransitOnce
  <1>13. \A q \in Pid : InTransit(q) => InTransit(q)'
    <2> SUFFICES ASSUME NEW q \in Pid, InTransit(q) PROVE InTransit(q)'
      OBVIOUS
    <2>1. CASE \E k \in DrainIdx : Drain(k) = q
      BY <1>1, <1>4, <1>7, <1>9, <1>10, <2>1 DEF InTransit
    <2>2. CASE ~\E k \in DrainIdx : Drain(k) = q
      BY <1>7, <1>8, <1>10, <2>2 DEF InTransit
    <2>3. QED
      BY <2>1, <2>2
  <1>14. GoneInTransit'
    BY <1>3, <1>10, <1>13 DEF ReportInv, TransitInv, GoneInTransit
  <1>15. QED
    BY <1>11, <1>12, <1>14 DEF TransitInv

(* cleanCompletedMsgInstances takes a pid out of its slot together with the  *)
(* instance it belongs to; no other pid on its way loses its instance.       *)
LEMMA TransitClean ==
    ASSUME ReportInv, CleanSlot
    PROVE  TransitInv'
  <1>t. TypeOK /\ lp \in 1..MaxParallel
    BY DEF ReportInv, ControlInv, TypeInv, TypeOK
  <1>1. /\ UNCHANGED <<hdl, gSigQueue, child_a, cnt_a, mainPc, mainI, procSt>>
        /\ waitChildPid' = [waitChildPid EXCEPT ![lp] = NoPid]
    BY DEF CleanSlot, sigVars, mainVars, kernVars
  <1> DEFINE w == waitChildPid[lp]
             s == msgInProgress
  <1>2. /\ ActiveIdx' = ActiveIdx /\ \A k \in ActiveIdx : Active(k)' = Active(k)
        /\ DrainIdx' = DrainIdx /\ \A k \in DrainIdx : Drain(k)' = Drain(k)
        /\ hdl' = hdl
    BY <1>1, QueuesSame
  <1>3. NoPid \notin Pid
    BY ConstAssumption
  <1>4. \A r \in 1..MaxParallel : waitChildPid'[r] = IF r = lp THEN NoPid ELSE waitChildPid[r]
    BY <1>t, <1>1 DEF TypeOK
  <1>5. WaitIdx' = WaitIdx \ {lp} /\ \A r \in WaitIdx' : waitChildPid'[r] = waitChildPid[r] /\ r # lp
    BY <1>3, <1>4 DEF WaitIdx
  <1>6. \A i \in DOMAIN s : s[i].pid \in Pid
    BY <1>t, InstanceFacts DEF TypeOK
  <1>7. \A q \in Pid : Owned(q)' <=> Owned(q) /\ q # w
    <2>1. CASE s' = s /\ \A i \in DOMAIN s : s[i].pid # w
      BY <2>1 DEF Owned
    <2>2. ASSUME NEW c \in DOMAIN s, s[c].pid = w,
                 \A i \in DOMAIN s' : /\ Before(c, i) \in DOMAIN s /\ Before(c, i) # c
                                      /\ s'[i] = s[Before(c, i)],
                 \A i \in DOMAIN s : i # c => \E j \in DOMAIN s' : Before(c, j) = i
          PROVE  \A q \in Pid : Owned(q)' <=> Owned(q) /\ q # w
      <3>1. \A i \in DOMAIN s : i # c => s[i].pid # w
        BY <2>2 DEF ReportInv, OwnInv, PidsDistinct
      <3>2. ASSUME NEW q \in Pid, Owned(q)' PROVE Owned(q) /\ q # w
        <4>1. PICK i \in DOMAIN s' : s'[i].pid = q
          BY <3>2 DEF Owned
        <4>2. Before(c, i) \in DOMAIN s /\ Before(c, i) # c /\ s[Before(c, i)].pid = q
          BY <2>2, <4>1
        <4>3. QED
          BY <3>1, <4>2 DEF Owned
      <3>3. ASSUME NEW q \in Pid, Owned(q), q # w PROVE Owned(q)'
        <4>1. PICK i \in DOMAIN s : s[i].pid = q
          BY <3>3 DEF Owned
        <4>2. PICK j \in DOMAIN s' : Before(c, j) = i
          BY <2>2, <3>3, <4>1
        <4>3. s'[j].pid = q
          BY <2>2, <4>1, <4>2
        <4>4. QED
          BY <4>3 DEF Owned
      <3>4. QED
        BY <3>2, <3>3
    <2>3. QED
      BY <1>t, <2>1, <2>2, CleanErases
  <1>8. /\ \A k \in ActiveIdx : Active(k) \in Pid /\ Owned(Active(k))
        /\ \A k \in DrainIdx : Drain(k) \in Pid /\ Owned(Drain(k))
        /\ \A r \in WaitIdx : waitChildPid[r] \in Pid /\ Owned(waitChildPid[r])
        /\ \A t \in Threads : hdl[t].pid \in Pid => Owned(hdl[t].pid)
    BY <1>6 DEF ReportInv, TransitInv, TransitOwned, Owned
  <1>9. w \in Pid => lp \in WaitIdx
    BY <1>t DEF WaitIdx
  <1>10. /\ \A k \in ActiveIdx : Active(k) # w
         /\ \A k \in DrainIdx : Drain(k) # w
         /\ \A r \in WaitIdx' : waitChildPid[r] # w
         /\ \A t \in Threads : hdl[t].pid \in Pid => hdl[t].pid # w
    BY <1>5, <1>8, <1>9 DEF ReportInv, TransitInv, TransitOnce
  <1> HIDE DEF w, s
  <1>11. TransitOwned'
    BY <1>2, <1>5, <1>7, <1>8, <1>10 DEF TransitOwned
  <1>12. TransitOnce'
    BY <1>2, <1>5 DEF ReportInv, TransitInv, TransitOnce
  <1>13. GoneInTransit'
    <2> SUFFICES ASSUME NEW q \in Pid, Owned(q), q # w, procSt[q] = "gone"
                 PROVE  InTransit(q)'
      BY <1>1, <1>7 DEF GoneInTransit
    <2>1. InTransit(q)
      BY DEF ReportInv, TransitInv, GoneInTransit
    <2>2. ASSUME NEW r \in WaitIdx, waitChildPid[r] = q PROVE r \in WaitIdx'
      BY <1>5, <2>2 DEF w
    <2>3. QED
      BY <1>2, <1>5, <2>1, <2>2 DEF InTransit
  <1>14. QED
    BY <1>11, <1>12, <1>13 DEF TransitInv

(* Without instances nothing is on its way, and the slots may be cleared.    *)
LEMMA TransitCleanAll ==
    ASSUME ReportInv, CleanAllSlots
    PROVE  TransitInv'
  <1>1. /\ msgInProgress = <<>>
        /\ UNCHANGED <<hdl, gSigQueue, child_a, cnt_a, mainPc, mainI, procSt, msgInProgress>>
        /\ \A r \in 1..MaxParallel : waitChildPid'[r] = NoPid
    BY DEF CleanAllSlots, sigVars, mainVars, kernVars
  <1>2. \A q : ~Owned(q) /\ ~Owned(q)'
    BY <1>1 DEF Owned
  <1>3. /\ ActiveIdx' = ActiveIdx /\ DrainIdx' = DrainIdx /\ hdl' = hdl
    BY <1>1, QueuesSame
  <1>4. WaitIdx' = {}
    BY <1>1, ConstAssumption DEF WaitIdx
  <1>5. ActiveIdx = {} /\ DrainIdx = {} /\ \A t \in Threads : hdl[t].pid \notin Pid
    BY <1>2 DEF ReportInv, TransitInv, TransitOwned
  <1>6. TransitOwned' /\ TransitOnce' /\ GoneInTransit'
    BY <1>2, <1>3, <1>4, <1>5 DEF TransitOwned, TransitOnce, GoneInTransit
  <1>7. QED
    BY <1>6 DEF TransitInv

(* The pid of a new child is not on its way, and need not be.                *)
LEMMA TransitLaunch ==
    ASSUME ~PidReuse, ReportInv, NEW p \in Pid, ScanLaunch(p)
    PROVE  TransitInv'
  <1>t. TypeOK /\ procSt \in [Pid -> {"none", "run", "zombie", "gone", "foreign"}]
    BY DEF ReportInv, ControlInv, TypeInv, TypeOK
  <1> DEFINE s == msgInProgress
             n == Len(msgInProgress)
  <1>1. /\ UNCHANGED <<hdl, gSigQueue, child_a, cnt_a, mainPc, mainI, waitChildPid>>
        /\ procSt' = [procSt EXCEPT ![p] = "run"]
    BY DEF ScanLaunch, sigVars, mainVars
  <1>2. /\ ActiveIdx' = ActiveIdx /\ \A k \in ActiveIdx : Active(k)' = Active(k)
        /\ DrainIdx' = DrainIdx /\ \A k \in DrainIdx : Drain(k)' = Drain(k)
        /\ hdl' = hdl /\ WaitIdx' = WaitIdx
    BY <1>1, QueuesSame DEF WaitIdx
  <1>3. /\ n \in Nat /\ DOMAIN s = 1..n /\ DOMAIN s' = 1..(n + 1)
        /\ \A i \in 1..n : s'[i] = s[i]
        /\ s'[n + 1].pid = p
    BY <1>t, LaunchAppends, InstanceFacts DEF TypeOK
  <1>4. \A i \in 1..(n + 1) : i \in 1..n \/ i = n + 1
    BY <1>3
  <1>5. 1..n \subseteq 1..(n + 1)
    BY <1>3
  <1> HIDE DEF n, s
  <1>6. \A q : Owned(q) => Owned(q)'
    BY <1>3, <1>5 DEF Owned, s
  <1>7. \A q : Owned(q)' => Owned(q) \/ q = p
    BY <1>3, <1>4 DEF Owned, s
  <1>8. TransitOwned'
    BY <1>1, <1>2, <1>6 DEF ReportInv, TransitInv, TransitOwned
  <1>9. TransitOnce'
    BY <1>1, <1>2 DEF ReportInv, TransitInv, TransitOnce
  <1>10. GoneInTransit'
    <2> SUFFICES ASSUME NEW q \in Pid, Owned(q)', procSt'[q] = "gone"
                 PROVE  InTransit(q)'
      BY DEF GoneInTransit
    <2>1. q # p /\ procSt[q] = "gone"
      BY <1>t, <1>1
    <2>2. InTransit(q)
      BY <1>7, <2>1 DEF ReportInv, TransitInv, GoneInTransit
    <2>3. QED
      BY <1>1, <1>2, <2>2 DEF InTransit
  <1>11. QED
    BY <1>8, <1>9, <1>10 DEF TransitInv

(* Storing the pid writes behind the pids of the active queue.               *)
LEMMA TransitStore ==
    ASSUME ReportInv, NEW t \in HandlerThreads, HandlerStore(t)
    PROVE  TransitInv'
  <1>t. TypeOK
    BY DEF ReportInv, ControlInv, TypeInv
  <1>0. sigchld_hdl(t)
    BY DEF sigchld_hdl
  <1>1. t \in Threads /\ hdl[t].pc = "store"
    BY <1>0, <1>t, HandlerSteps
  <1>2. hdl[t].cnt < MaxParallel /\ hdl[t].q = gSigQueue /\ hdl[t].cnt = cnt_a[gSigQueue]
    BY <1>1, RoomToStore DEF ReportInv, ControlInv, HandlerInv, Inside
  <1>3. gSigQueue \in {0, 1} /\ cnt_a[gSigQueue] \in Nat /\ hdl[t].cnt \in Nat
    BY <1>t, <1>2, ConstAssumption DEF TypeOK, max_alen
  <1>4. hdl[t].cnt < max_alen /\ hdl[t].cnt \in 0..(max_alen - 1)
    BY <1>2, <1>3, ConstAssumption DEF max_alen
  <1>5. /\ hdl'[t].pid = hdl[t].pid /\ \A u \in Threads \ {t} : hdl'[u] = hdl[u]
        /\ child_a' = [child_a EXCEPT ![hdl[t].q][hdl[t].cnt] = hdl[t].pid]
        /\ UNCHANGED <<gSigQueue, cnt_a, mainI, mainPc, procSt, waitChildPid, msgInProgress>>
    BY <1>0, <1>4, <1>t, HandlerSteps
  <1>6. 1 - gSigQueue \in {0, 1} /\ 1 - gSigQueue # gSigQueue
    BY <1>3
  <1>7. ActiveIdx' = ActiveIdx /\ DrainIdx' = DrainIdx
    BY <1>5 DEF ActiveIdx, DrainIdx
  <1>8. \A k : Drain(k)' = Drain(k)
    BY <1>2, <1>3, <1>5, <1>6, <1>t DEF Drain, TypeOK
  <1>9. \A k \in ActiveIdx : k # hdl[t].cnt /\ k \in 0..(max_alen - 1)
    <2>1. ActiveIdx = 0..(hdl[t].cnt - 1)
      BY <1>2 DEF ActiveIdx
    <2>2. max_alen \in Nat
      BY ConstAssumption DEF max_alen
    <2>3. QED
      BY <1>3, <1>4, <2>1, <2>2
  <1>10. \A k \in ActiveIdx : Active(k)' = Active(k)
    BY <1>2, <1>3, <1>5, <1>9, <1>t DEF Active, TypeOK
  <1>11. \A q : Owned(q)' <=> Owned(q)
    BY <1>5 DEF Owned
  <1>12. QED
    BY <1>5, <1>7, <1>8, <1>10, <1>11, TransitSame

(* main's count is reset only when the queue was handed over completely.     *)
LEMMA TransitReset ==
    ASSUME ReportInv, MainReset
    PROVE  TransitInv'
  <1>t. TypeOK
    BY DEF ReportInv, ControlInv, TypeInv
  <1>1. /\ mainPc = "signal" /\ mainI = mainCnt /\ mainPc' = "swap"
        /\ cnt_a' = [cnt_a EXCEPT ![1 - gSigQueue] = 0]
        /\ UNCHANGED <<hdl, gSigQueue, child_a, procSt, waitChildPid, msgInProgress>>
    BY DEF MainReset, kernVars
  <1>2. gSigQueue \in {0, 1} /\ cnt_a \in [{0, 1} -> 0..max_alen] /\ mainI \in Nat
    BY <1>t, ConstAssumption DEF TypeOK, max_alen
  <1>3. 1 - gSigQueue \in {0, 1} /\ 1 - gSigQueue # gSigQueue
    BY <1>2
  <1>4. cnt_a'[1 - gSigQueue] = 0 /\ cnt_a'[gSigQueue] = cnt_a[gSigQueue]
    BY <1>1, <1>2, <1>3
  <1>5. mainI = cnt_a[1 - gSigQueue]
    BY <1>1 DEF ReportInv, ControlInv, DrainInv
  <1>6. DrainIdx = {} /\ DrainIdx' = {}
    <2>1. DrainIdx = mainI..(mainI - 1) /\ DrainIdx' = 0..(0 - 1)
      BY <1>1, <1>4, <1>5 DEF DrainIdx
    <2>2. QED
      BY <1>2, <2>1
  <1>7. ActiveIdx' = ActiveIdx /\ \A k : Active(k)' = Active(k)
    BY <1>1, <1>4 DEF ActiveIdx, Active
  <1>8. hdl' = hdl /\ \A q : Owned(q)' <=> Owned(q)
    BY <1>1 DEF Owned
  <1>9. QED
    BY <1>1, <1>6, <1>7, <1>8, TransitSame

(* A step that touches no pid, no child and no instance.                     *)
LEMMA TransitStutter ==
    ASSUME ReportInv,
           UNCHANGED <<hdl, gSigQueue, child_a, cnt_a, mainI, mainPc, waitChildPid>>,
           \A p : Owned(p)' <=> Owned(p),
           \A p \in Pid : procSt'[p] = "gone" => procSt[p] = "gone"
    PROVE  TransitInv'
  BY QueuesSame, TransitSame

(* Every step moves a pid at most to the next place on its way.              *)
LEMMA TransitNext ==
    ASSUME ~PidReuse, ReportInv, [Next]_vars, ~Overlap
    PROVE  TransitInv'
  <1>t. TypeOK /\ procSt \in [Pid -> {"none", "run", "zombie", "gone", "foreign"}]
    BY DEF ReportInv, ControlInv, TypeInv, TypeOK
  <1>s. ASSUME UNCHANGED <<hdl, gSigQueue, child_a, cnt_a, mainI, mainPc, waitChildPid, msgInProgress>>,
               \A p \in Pid : procSt'[p] = "gone" => procSt[p] = "gone"
        PROVE  TransitInv'
    <2>1. \A p : Owned(p)' <=> Owned(p)
      BY <1>s DEF Owned
    <2>2. QED
      BY <1>s, <2>1, TransitStutter
  <1> USE DEF queueVars, scanVars, sigVars, mainVars, kernVars
  <1>1. ASSUME NEW o \in Obj, addToDataQueue(o)
        PROVE  TransitInv'
    BY <1>1, <1>s DEF addToDataQueue
  <1>2. CASE TakeDataQueue \/ MergeGroup \/ ScanEnd \/ ScanSkip \/ ScanForkFail
    BY <1>2, <1>s DEF TakeDataQueue, MergeGroup, ScanEnd, ScanSkip, ScanForkFail
  <1>3. CASE terminateHangupInstances
    <2>1. UNCHANGED <<hdl, gSigQueue, child_a, cnt_a, mainI, mainPc, waitChildPid, msgInProgress>>
      BY <1>3 DEF terminateHangupInstances
    <2>2. \A p \in Pid : procSt'[p] = "gone" => procSt[p] = "gone" \/ (p \in HangupPids /\ procSt[p] = "foreign")
      BY <1>3, <1>t DEF terminateHangupInstances
    <2>3. \A p \in Pid : procSt[p] # "foreign"
      BY DEF ReportInv, NoForeign
    <2>4. QED
      BY <1>s, <2>1, <2>2, <2>3
  <1>4. CASE CleanAllSlots
    BY <1>4, TransitCleanAll
  <1>5. CASE CleanSlot
    BY <1>5, TransitClean
  <1>6. ASSUME NEW p \in Pid, ScanLaunch(p)
        PROVE  TransitInv'
    BY <1>6, TransitLaunch
  <1>7. CASE MainSwap
    BY <1>7, TransitSwap
  <1>8. CASE MainRead
    <2>1. /\ UNCHANGED <<hdl, gSigQueue, child_a, cnt_a, procSt, waitChildPid, msgInProgress>>
          /\ mainPc = "read" /\ mainPc' = "signal" /\ mainI' = 0
      BY <1>8 DEF MainRead
    <2>2. /\ ActiveIdx' = ActiveIdx /\ DrainIdx' = DrainIdx /\ hdl' = hdl
          /\ \A k : Active(k)' = Active(k) /\ Drain(k)' = Drain(k)
          /\ \A q : Owned(q)' <=> Owned(q)
      BY <2>1 DEF ActiveIdx, DrainIdx, Active, Drain, Owned
    <2>3. QED
      BY <2>1, <2>2, TransitSame
  <1>p. CASE MainPick
    <2>1. /\ UNCHANGED <<hdl, gSigQueue, child_a, cnt_a, mainI, procSt, waitChildPid, msgInProgress>>
          /\ mainPc = "signal" /\ mainPc' = "store"
      BY <1>p DEF MainPick
    <2>2. /\ ActiveIdx' = ActiveIdx /\ DrainIdx' = DrainIdx
          /\ \A k : Active(k)' = Active(k) /\ Drain(k)' = Drain(k)
          /\ \A q : Owned(q)' <=> Owned(q)
      BY <2>1 DEF ActiveIdx, DrainIdx, Active, Drain, Owned
    <2>3. QED
      BY <2>1, <2>2, TransitSame
  <1>9. CASE signalChildL2
    BY <1>9, TransitSignal
  <1>10. CASE MainReset
    BY <1>10, TransitReset
  <1>11. ASSUME NEW t \in HandlerThreads, SigDeliver(t) \/ sigchld_hdl(t)
         PROVE  TransitInv'
    <2>s. ASSUME hdl'[t].pid = hdl[t].pid, UNCHANGED <<child_a, cnt_a, procSt>>
          PROVE  TransitInv'
      <3>1. /\ UNCHANGED <<gSigQueue, mainPc, mainI, waitChildPid, msgInProgress>>
            /\ \A u \in Threads : hdl'[u].pid = hdl[u].pid
        BY <1>11, <1>t, <2>s, HandlerSteps
      <3>2. \A q : Owned(q)' <=> Owned(q)
        BY <3>1 DEF Owned
      <3>3. QED
        BY <2>s, <3>1, <3>2, QueuesSame, TransitSame
    <2>1. CASE SigDeliver(t)
      BY <1>11, <1>t, <2>1, <2>s, HandlerSteps
    <2>2. ASSUME NEW p \in Pid, HandlerWaitpid(t, p)
          PROVE  TransitInv'
      BY <2>2, TransitWaitpid
    <2>3. CASE HandlerReturn(t)
      <3>1. /\ t \in Threads /\ hdl[t].pc = "wait" /\ hdl'[t].pid = NoPid
            /\ UNCHANGED <<child_a, cnt_a, procSt>>
        BY <1>11, <1>t, <2>3, HandlerSteps
      <3>2. hdl[t].pid = NoPid
        BY <3>1 DEF ReportInv, ControlInv, HandlerInv
      <3>3. QED
        BY <2>s, <3>1, <3>2
    <2>4. CASE HandlerPickQueue(t)
      BY <1>11, <1>t, <2>4, <2>s, HandlerSteps
    <2>5. CASE HandlerReadCount(t)
      BY <1>11, <1>t, <2>5, <2>s, HandlerSteps
    <2>6. CASE HandlerStore(t)
      BY <2>6, TransitStore
    <2>7. CASE HandlerSelectCount(t)
      BY <1>11, <1>t, <2>7, <2>s, HandlerSteps
    <2>8. CASE HandlerWriteCount(t)
      BY <2>8, TransitCount
    <2>9. QED
      BY <1>11, <2>1, <2>2, <2>3, <2>4, <2>5, <2>6, <2>7, <2>8 DEF sigchld_hdl
  <1>12. ASSUME NEW p \in Pid, ChildExit(p)
         PROVE  TransitInv'
    BY <1>12, <1>s, <1>t DEF ChildExit
  <1>13. ASSUME NEW p \in Pid, ForeignFork(p)
         PROVE  FALSE
    BY <1>13 DEF ForeignFork
  <1>14. ASSUME NEW i \in DOMAIN msgInProgress, OperationTimeout(i)
         PROVE  TransitInv'
    <2>1. UNCHANGED <<hdl, gSigQueue, child_a, cnt_a, mainI, mainPc, waitChildPid, procSt>>
      BY <1>14 DEF OperationTimeout
    <2>2. \A q : Owned(q)' <=> Owned(q)
      BY <1>14, <1>t, TimeoutMarks DEF Owned
    <2>3. QED
      BY <2>1, <2>2, TransitStutter
  <1>15. CASE UNCHANGED vars
    BY <1>15, <1>s DEF vars
  <1>16. QED
    BY <1>1, <1>2, <1>3, <1>4, <1>5, <1>6, <1>7, <1>8, <1>p, <1>9, <1>10, <1>11, <1>12, <1>13, <1>14, <1>15
    DEF Next, serverLoop, MainLoop

(* No step gives a pid to another process.                                   *)
LEMMA ForeignNext ==
    ASSUME ~PidReuse, TypeInv, NoForeign, [Next]_vars
    PROVE  NoForeign'
  <1>t. procSt \in [Pid -> {"none", "run", "zombie", "gone", "foreign"}]
    BY DEF TypeInv, TypeOK
  <1>s. ASSUME UNCHANGED procSt PROVE NoForeign'
    BY <1>s DEF NoForeign
  <1> USE DEF queueVars, scanVars, sigVars, mainVars, kernVars
  <1>1. ASSUME NEW o \in Obj, addToDataQueue(o)
        PROVE  NoForeign'
    BY <1>1, <1>s DEF addToDataQueue
  <1>2. CASE TakeDataQueue \/ MergeGroup \/ CleanAllSlots \/ CleanSlot \/ ScanEnd \/ ScanSkip
              \/ ScanForkFail
    BY <1>2, <1>s
    DEF TakeDataQueue, MergeGroup, CleanAllSlots, CleanSlot, ScanEnd, ScanSkip, ScanForkFail
  <1>m. CASE MainLoop
    BY <1>m, <1>s DEF MainLoop, MainSwap, MainRead, MainPick, signalChildL2, MainReset
  <1>3. CASE terminateHangupInstances
    BY <1>3, <1>t DEF terminateHangupInstances, NoForeign
  <1>4. ASSUME NEW p \in Pid, ScanLaunch(p)
        PROVE  NoForeign'
    BY <1>4, <1>t DEF ScanLaunch, NoForeign
  <1>5. ASSUME NEW t \in HandlerThreads, SigDeliver(t) \/ sigchld_hdl(t)
        PROVE  NoForeign'
    <2>1. ASSUME NEW p \in Pid, HandlerWaitpid(t, p)
          PROVE  NoForeign'
      BY <1>t, <2>1 DEF HandlerWaitpid, NoForeign
    <2>2. CASE ~\E p \in Pid : HandlerWaitpid(t, p)
      <3>1. UNCHANGED procSt
        BY <1>5, <2>2, Zenon
        DEF SigDeliver, sigchld_hdl, HandlerReturn, HandlerPickQueue,
            HandlerReadCount, HandlerStore, HandlerSelectCount, HandlerWriteCount
      <3>2. QED
        BY <1>s, <3>1
    <2>3. QED
      BY <2>1, <2>2
  <1>6. ASSUME NEW p \in Pid, ChildExit(p)
        PROVE  NoForeign'
    BY <1>6, <1>t DEF ChildExit, NoForeign
  <1>7. ASSUME NEW p \in Pid, ForeignFork(p)
        PROVE  FALSE
    BY <1>7 DEF ForeignFork
  <1>8. ASSUME NEW i \in DOMAIN msgInProgress, OperationTimeout(i)
        PROVE  NoForeign'
    BY <1>8, <1>s DEF OperationTimeout
  <1>9. CASE UNCHANGED vars
    BY <1>9, <1>s DEF vars
  <1>10. QED
    BY <1>1, <1>2, <1>m, <1>3, <1>4, <1>5, <1>6, <1>7, <1>8, <1>9 DEF Next, serverLoop

(* What new[] left in waitChildPid is gone before anything is launched.      *)
LEMMA JunkNext ==
    ASSUME ReportInv, [Next]_vars
    PROVE  JunkInv'
  <1>t. TypeOK /\ JunkInv
    BY DEF ReportInv, ControlInv, TypeInv
  <1> DEFINE NoJunk == \A s \in 1..MaxParallel : waitChildPid[s] \in Pid \cup {NoPid}
  <1>n. NoJunk' => JunkInv'
    BY DEF JunkInv
  <1>s. ASSUME UNCHANGED <<waitChildPid, msgInProgress>>,
               NoJunk \/ (mgrPc' # "scan" /\ lp' = lp) \/ (mgrPc' # "scan" /\ lp' = 1)
        PROVE  JunkInv'
    BY <1>s, <1>t DEF JunkInv
  <1>u. ASSUME UNCHANGED <<waitChildPid, msgInProgress, mgrPc, lp>>
        PROVE  JunkInv'
    BY <1>u, <1>t DEF JunkInv
  <1> USE DEF queueVars, scanVars, sigVars, mainVars, kernVars
  <1>1. ASSUME NEW o \in Obj, addToDataQueue(o)
        PROVE  JunkInv'
    BY <1>1, <1>u DEF addToDataQueue
  <1>2. CASE TakeDataQueue \/ MergeGroup \/ terminateHangupInstances \/ ScanEnd
    BY <1>2, <1>s DEF TakeDataQueue, MergeGroup, terminateHangupInstances, ScanEnd, Scanning
  <1>3. CASE ScanSkip \/ ScanForkFail
    BY <1>3, <1>u DEF ScanSkip, ScanForkFail
  <1>4. CASE CleanAllSlots
    <2>1. \A s \in 1..MaxParallel : waitChildPid'[s] = NoPid
      BY <1>4 DEF CleanAllSlots
    <2>2. QED
      BY <1>n, <2>1
  <1>5. CASE CleanSlot
    <2>1. lp \in 1..MaxParallel /\ MaxParallel \in Nat
      BY <1>t, ConstAssumption DEF TypeOK
    <2>2. lp # 1 \/ msgInProgress # <<>>
      BY <1>5, <2>1 DEF CleanSlot
    <2>3. NoJunk
      BY <1>t, <2>2 DEF JunkInv
    <2>4. waitChildPid' = [waitChildPid EXCEPT ![lp] = NoPid]
      BY <1>5 DEF CleanSlot
    <2>5. NoJunk'
      BY <1>t, <2>3, <2>4 DEF TypeOK
    <2>6. QED
      BY <1>n, <2>5
  <1>6. ASSUME NEW p \in Pid, ScanLaunch(p)
        PROVE  JunkInv'
    <2>1. mgrPc = "scan" /\ UNCHANGED waitChildPid
      BY <1>6 DEF ScanLaunch, Scanning
    <2>2. NoJunk'
      BY <1>t, <2>1 DEF JunkInv
    <2>3. QED
      BY <1>n, <2>2
  <1>7. CASE MainSwap \/ MainRead \/ MainPick \/ MainReset
    BY <1>7, <1>u DEF MainSwap, MainRead, MainPick, MainReset
  <1>8. CASE signalChildL2
    <2>1. EmptySlot \in 1..MaxParallel /\ mainPid \in Pid /\ NoJunk
      BY <1>8, RoomToSignal
    <2>2. waitChildPid' = [waitChildPid EXCEPT ![EmptySlot] = mainPid]
      BY <1>8, <2>1, ConstAssumption DEF signalChildL2
    <2>3. NoJunk'
      BY <1>t, <2>1, <2>2 DEF TypeOK
    <2>4. QED
      BY <1>n, <2>3
  <1>9. ASSUME NEW t \in HandlerThreads, SigDeliver(t) \/ sigchld_hdl(t)
        PROVE  JunkInv'
    BY <1>9, <1>t, <1>u, HandlerSteps
  <1>10. ASSUME NEW p \in Pid, ChildExit(p) \/ ForeignFork(p)
         PROVE  JunkInv'
    BY <1>10, <1>u DEF ChildExit, ForeignFork
  <1>11. ASSUME NEW i \in DOMAIN msgInProgress, OperationTimeout(i)
         PROVE  JunkInv'
    <2>1. msgInProgress # <<>> /\ UNCHANGED waitChildPid
      BY <1>11 DEF OperationTimeout
    <2>2. NoJunk'
      BY <1>t, <2>1 DEF JunkInv
    <2>3. QED
      BY <1>n, <2>2
  <1>12. CASE UNCHANGED vars
    BY <1>12, <1>u DEF vars
  <1>13. QED
    BY <1>1, <1>2, <1>3, <1>4, <1>5, <1>6, <1>7, <1>8, <1>9, <1>10, <1>11, <1>12
    DEF Next, serverLoop, MainLoop

-----------------------------------------------------------------------------
(* Nothing is on its way when main starts.                                   *)
LEMMA ReportInit == Init => ReportInv
  <1> SUFFICES ASSUME Init PROVE ReportInv
    OBVIOUS
  <1>1. OwnInv /\ TypeInv
    BY OwnInit, InitTypeInv
  <1>2. \A t \in Threads : hdl[t].pid = NoPid /\ hdl[t].pc = "idle"
    BY DEF Init, Idle
  <1>4. gSigQueue = 0 /\ mainPc = "swap" /\ cnt_a[0] = 0 /\ cnt_a[1] = 0 /\ 1 - gSigQueue = 1
    BY DEF Init
  <1>5. HandlerInv /\ OneInside /\ DrainInv
    BY <1>2, <1>4 DEF HandlerInv, Inside, OneInside, DrainInv
  <1>6. NoForeign /\ JunkInv
    BY DEF Init, NoForeign, JunkInv
  <1>7. ActiveIdx = {} /\ DrainIdx = {}
    <2>1. ActiveIdx = 0..(0 - 1) /\ DrainIdx = 0..(0 - 1)
      BY <1>4 DEF ActiveIdx, DrainIdx
    <2>2. QED
      BY <2>1
  <1>8. WaitIdx = {}
    BY ConstAssumption DEF Init, WaitIdx
  <1>9. TransitOwned /\ TransitOnce
    BY <1>2, <1>7, <1>8, ConstAssumption DEF TransitOwned, TransitOnce
  <1>10. GoneInTransit
    BY DEF Init, GoneInTransit
  <1>11. QED
    BY <1>1, <1>5, <1>6, <1>9, <1>10 DEF ReportInv, ControlInv, TransitInv

(* The whole way of an exit, for fresh pids: ReportInv holds until something *)
(* overlaps.                                                                 *)
LEMMA ReportNext ==
    ASSUME ~PidReuse
    PROVE  (~overlapped => ReportInv) /\ [HistoryNext]_<<vars, overlapped>>
              => (~overlapped => ReportInv)'
  <1> SUFFICES ASSUME ~overlapped => ReportInv, [HistoryNext]_<<vars, overlapped>>, ~overlapped'
               PROVE  ReportInv'
    OBVIOUS
  <1>1. ReportInv /\ [Next]_vars /\ ~Overlap
    <2>1. CASE HistoryNext
      BY <2>1 DEF HistoryNext
    <2>2. CASE UNCHANGED <<vars, overlapped>>
      <3>1. ReportInv /\ UNCHANGED vars /\ UNCHANGED <<hdl, gSigQueue>>
        BY <2>2 DEF vars, sigVars
      <3>2. ~Overlap
        BY <3>1 DEF Overlap, Inside, ReportInv, ControlInv, OneInside
      <3>3. QED
        BY <3>1, <3>2
    <2>3. QED
      BY <2>1, <2>2
  <1>2. OwnInv'
    BY <1>1, OwnNext DEF ReportInv
  <1>3. ControlInv'
    BY <1>1, ControlNext DEF ReportInv
  <1>4. NoForeign'
    BY <1>1, ForeignNext DEF ReportInv, ControlInv
  <1>5. JunkInv'
    BY <1>1, JunkNext
  <1>6. TransitInv'
    BY <1>1, TransitNext
  <1>7. QED
    BY <1>2, <1>3, <1>4, <1>5, <1>6 DEF ReportInv

(* Until main swaps the queues under a handler, or a second handler gets     *)
(* into the first one's way, the end of a child is never lost: as long as    *)
(* cleanCompletedMsgInstances has not erased the instance of a reaped child, *)
(* its pid is in a handler, the double queue, main or waitChildPid, for      *)
(* every number of slots and children and whatever threads run the handler.  *)
(* The violating run MsgManager_leak shows what an overlap does.             *)
THEOREM ExitsCorrect ==
    ASSUME ~PidReuse
    PROVE  HistorySpec => []ExitKept
  <1>1. ReportInv => ExitReported
    <2> SUFFICES ASSUME ReportInv, NEW m \in ToSet(msgInProgress), procSt[m.pid] = "gone"
                 PROVE  InHandler(m.pid) \/ InActiveQueue(m.pid) \/ InDrainedQueue(m.pid) \/ InWaitSlot(m.pid)
      BY DEF ExitReported
    <2>t. TypeOK
      BY DEF ReportInv, ControlInv, TypeInv
    <2>1. m.pid \in Pid /\ Owned(m.pid)
      <3>1. msgInProgress \in Seq(Instance)
        BY <2>t DEF TypeOK
      <3>2. PICK i \in 1..Len(msgInProgress) : m = msgInProgress[i]
        BY <3>1, InstanceFacts
      <3>3. QED
        BY <3>1, <3>2, InstanceFacts DEF Owned
    <2>2. InTransit(m.pid)
      BY <2>1 DEF ReportInv, TransitInv, GoneInTransit
    <2>3. CASE \E t \in Threads : hdl[t].pid = m.pid
      BY <2>3 DEF InHandler
    <2>4. CASE \E k \in ActiveIdx : Active(k) = m.pid
      BY <2>4 DEF InActiveQueue, InQueue, ActiveIdx, Active
    <2>5. ASSUME NEW k \in DrainIdx, Drain(k) = m.pid
          PROVE  InDrainedQueue(m.pid)
      <3>1. CASE mainPc = "signal"
        BY <2>5, <3>1 DEF InDrainedQueue, InQueue, DrainIdx, Drain, ReportInv, ControlInv, DrainInv
      <3>2. CASE mainPc = "store"
        <4>1. /\ k \in mainI..(mainCnt - 1) /\ mainPid = Drain(mainI)
              /\ mainI \in Nat /\ mainCnt \in Nat
          BY <2>t, <3>2, ConstAssumption
          DEF DrainIdx, Drain, ReportInv, ControlInv, DrainInv, TypeOK, max_alen
        <4>2. k = mainI \/ k \in (mainI + 1)..(mainCnt - 1)
          BY <4>1
        <4>3. QED
          BY <2>5, <3>2, <4>1, <4>2 DEF InDrainedQueue, InQueue, Drain
      <3>3. CASE mainPc = "read"
        BY <2>5, <3>3 DEF InDrainedQueue, InQueue, DrainIdx, Drain
      <3>4. CASE mainPc = "swap"
        <4>1. DrainIdx = 0..(0 - 1)
          BY <3>4 DEF DrainIdx, ReportInv, ControlInv, DrainInv
        <4>2. QED
          BY <2>5, <4>1
      <3>5. QED
        BY <2>t, <3>1, <3>2, <3>3, <3>4 DEF TypeOK
    <2>6. CASE \E s \in WaitIdx : waitChildPid[s] = m.pid
      BY <2>6 DEF InWaitSlot, WaitIdx
    <2>7. QED
      BY <2>2, <2>3, <2>4, <2>5, <2>6 DEF InTransit
  <1>2. (~overlapped => ReportInv) => ExitKept
    BY <1>1 DEF ExitKept
  <1>3. HistoryInit => (~overlapped => ReportInv)
    BY ReportInit DEF HistoryInit
  <1>4. (~overlapped => ReportInv) /\ [HistoryNext]_<<vars, overlapped>>
            => (~overlapped => ReportInv)'
    BY ReportNext
  <1>5. QED
    BY <1>2, <1>3, <1>4, PTL DEF HistorySpec

(* main.cpp's bound on ended children, and a better one: until something     *)
(* overlaps the handler never finds more than MaxParallel - 1 pids before    *)
(* its own in a queue of 2 * MaxParallel cells, so it never drops one.       *)
THEOREM RoomCorrect ==
    ASSUME ~PidReuse
    PROVE  HistorySpec => []RoomKept
  <1>1. (~overlapped => ReportInv) => RoomKept
    BY RoomToStore DEF RoomKept, QueueHasRoom, At
  <1>2. HistoryInit => (~overlapped => ReportInv)
    BY ReportInit DEF HistoryInit
  <1>3. (~overlapped => ReportInv) /\ [HistoryNext]_<<vars, overlapped>>
            => (~overlapped => ReportInv)'
    BY ReportNext
  <1>4. QED
    BY <1>1, <1>2, <1>3, PTL DEF HistorySpec

===============================================================================
