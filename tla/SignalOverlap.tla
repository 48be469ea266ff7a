----------------------------- MODULE SignalOverlap -----------------------------
(***************************************************************************)
(* MsgManager with a history variable.  The double queue of main.cpp is    *)
(* meant to keep main and the SIGCHLD handler apart without a lock; that   *)
(* works as long as nobody else touches it between the handler's choice of *)
(* a queue (main.cpp:45) and its last write (main.cpp:66).  overlapped     *)
(* records whether that has ever failed.  It does not influence a step:    *)
(* the behaviours are those of MsgManager.                                 *)
(***************************************************************************)
EXTENDS MsgManager

VARIABLE overlapped

(* Thread t has chosen its queue and has not written the count yet.         *)
Inside(t) == hdl[t].pc \in {"cnt", "store", "sel", "count"}

(* The step lets a second thread into the handler's critical part, or is    *)
(* main's swap while a thread is in it.                                     *)
Overlap ==
    \/ \E t, u \in Threads : t # u /\ Inside(t)' /\ Inside(u)'
    \/ gSigQueue' # gSigQueue /\ \E t \in Threads : Inside(t)

HistoryInit == Init /\ overlapped = FALSE
HistoryNext == Next /\ overlapped' = (overlapped \/ Overlap)
HistorySpec == HistoryInit /\ [][HistoryNext]_<<vars, overlapped>>

(* The end of a child is lost by an overlap and by nothing else: until one  *)
(* happens, the pid of every reaped child whose instance is in progress is  *)
(* on its way through handler, double queue, main and waitChildPid, in      *)
(* whatever threads the kernel runs the handler, however signals coalesce   *)
(* and whenever main, manager and children take their steps.                *)
ExitKept == ~overlapped => ExitReported

(* main.cpp, "max ended child process for one iteration is 2*max parallel   *)
(* instances": until an overlap happens the handler finds fewer pids than   *)
(* there are instances in the queue it writes to, and drops none.           *)
RoomKept == ~overlapped => QueueHasRoom
===============================================================================
