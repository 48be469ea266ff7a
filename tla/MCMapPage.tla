------------------------------ MODULE MCMapPage ------------------------------
(* Instance of MapPage for TLC. *)
EXTENDS MapPage, TLC

Symmetry == Permutations(Light) \cup Permutations(Truck)
===============================================================================
