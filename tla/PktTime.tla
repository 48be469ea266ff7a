------------------------------- MODULE PktTime --------------------------------
(***************************************************************************)
(* ClusterPktTime (clusterRawPkt.h): a time as seconds and milliseconds,   *)
(* and the time stamp UdpServer::readUdpPkt makes from the clock.          *)
(***************************************************************************)
EXTENDS Naturals

CONSTANTS MsPerSec,  \* 1000 in the code
          NsPerMs,   \* 1000000 in the code
          UIntMod    \* 2^32, mseconds_ is unsigned

ASSUME TimeAssumption ==
    /\ MsPerSec \in Nat \ {0}
    /\ NsPerMs \in Nat \ {0}
    /\ UIntMod \in Nat /\ UIntMod >= 2 * MsPerSec

Time == [s: Nat, ms: 0..(UIntMod - 1)]

(* The milliseconds are a fraction of a second, as the comparisons expect.  *)
Normal(t) == t.ms < MsPerSec

InMs(t) == t.s * MsPerSec + t.ms

(* Mutant: the carry is forgotten.                                          *)
Plus_NoCarry(t, x) == [s |-> t.s + x.s, ms |-> (t.ms + x.ms) % UIntMod]

(* operator+=: at most one second is carried.                               *)
Plus(t, x) ==
    LET ms == (t.ms + x.ms) % UIntMod
    IN IF ms >= MsPerSec THEN [s |-> t.s + x.s + 1, ms |-> ms - MsPerSec]
                         ELSE [s |-> t.s + x.s, ms |-> ms]

(* operator> and operator<                                                  *)
After(t, x)  == t.s > x.s \/ (t.s = x.s /\ t.ms > x.ms)
Before(t, x) == t.s < x.s \/ (t.s = x.s /\ t.ms < x.ms)

(* Mutant: the carry is forgotten.                                          *)
Stamp_NoCarry(sec, nsec) == [s |-> sec, ms |-> (2 * nsec + NsPerMs) \div (2 * NsPerMs)]

(* readUdpPkt: round(tv_nsec / 1e6), with a carry when that gives a second. *)
Stamp(sec, nsec) ==
    LET ms == (2 * nsec + NsPerMs) \div (2 * NsPerMs)
    IN IF ms > MsPerSec - 1 THEN [s |-> sec + 1, ms |-> 0] ELSE [s |-> sec, ms |-> ms]
===============================================================================
