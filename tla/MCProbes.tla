------------------------------ MODULE MCProbes ------------------------------
(* Instances of Probes for TLC. *)
EXTENDS ProbesProperties, TLC

CONSTANTS p1, p2, p3, t1

\* Two hosts behind one router, one pinged and one traced.
MCPath == [h1 |-> <<"r", "h1">>, h2 |-> <<"r", "h2">>]
MCTarget == [p \in Programs |-> IF p \in Pings THEN "h2" ELSE "h1"]

\* Two pings of two requests, or a trace and a ping of one.
MCCount == [p \in Pings |-> IF p = p3 THEN 1 ELSE 2]
MCTogether == {{p1, p2}, {p3, t1}}

\* The two pings do the same.
MCSymmetry == Permutations({p1, p2})
=============================================================================
