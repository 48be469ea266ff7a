---------------------------- MODULE MCHubPipeline -----------------------------
(* Instances of HubPipeline for TLC: intervals as a configuration has them. *)
EXTENDS HubPipeline

OneMs     == [s |-> 0, ms |-> 1]
OneSecond == [s |-> 1, ms |-> 0]
===============================================================================
