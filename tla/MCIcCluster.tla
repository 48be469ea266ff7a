----------------------------- MODULE MCIcCluster ------------------------------
(* Instance of IcCluster for TLC: a buffer of three cells and datagrams that *)
(* are empty, shorter, as long and longer, complete or lacking something.    *)
EXTENDS IcCluster

TwoFields == [t \in Types |-> 2]

Base(len, present) ==
    [len |-> len, json |-> "object", keys |-> Keys, stateNull |-> FALSE,
     type |-> "Car", present |-> present]
Lacking == {[Base(1, 2) EXCEPT !.keys = Keys \ {k}] : k \in Keys}
MCInputs ==
    {Base(len, 2) : len \in 0..4} \cup {Base(1, 1), Base(2, 0)} \cup Lacking
    \cup {[Base(2, 2) EXCEPT !.json = j] : j \in {"null", "other"}}
    \cup {[Base(1, 2) EXCEPT !.stateNull = TRUE, !.keys = Keys \ {"type"}],
          [Base(1, 1) EXCEPT !.type = "AirC_Box"], [Base(2, 1) EXCEPT !.type = "unknown"]}
===============================================================================
