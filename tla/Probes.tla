------------------------------- MODULE Probes -------------------------------
(***************************************************************************)
(* Pings and traceroutes on one host, which see each other's packets.      *)
(***************************************************************************)
EXTENDS Ping, Traceroute

CONSTANT Together   \* bound: the sets of programs that are started on one host

ASSUME ProbesConstants == Together \subseteq SUBSET Programs

vars == <<network, pinging, tracing>>

Init == IcmpInit /\ PingInit /\ TracerouteInit

Started == {p \in Pings : pc[p] # "off"} \cup {t \in Traces : at[t] # "off"}

Next ==
  /\ \/ PingNext /\ UNCHANGED tracing
     \/ TracerouteNext /\ UNCHANGED pinging
  /\ \E these \in Together : Started' \subseteq these

Spec == Init /\ [][Next]_vars
=============================================================================
