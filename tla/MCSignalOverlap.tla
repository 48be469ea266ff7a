---------------------------- MODULE MCSignalOverlap ----------------------------
(* Instances of SignalOverlap for TLC: fresh pids are interchangeable.       *)
EXTENDS SignalOverlap, TLC

PidSymmetry == Permutations(Pid)
===============================================================================
