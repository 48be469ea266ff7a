----------------------------- MODULE MCMsgManager -----------------------------
(* Instances of MsgManager for TLC: fresh pids are interchangeable.          *)
EXTENDS MsgManager, TLC

PidSymmetry == Permutations(Pid)
===============================================================================
