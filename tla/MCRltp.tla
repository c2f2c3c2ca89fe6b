------------------------------- MODULE MCRltp -------------------------------
(* Instances of Rltp for TLC: two hosts, and initial numbers that are equal *)
(* or differ.                                                             *)
EXTENDS RltpProperties

MCPort == [e \in End |-> IF e = "client" THEN 5000 ELSE 6000]
MCTwoHosts == [e \in End |-> e]
MCSameISN == [e \in End |-> 1]
MCISN == [e \in End |-> IF e = "client" THEN 2 ELSE 1]
=============================================================================
