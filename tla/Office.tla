------------------------------- MODULE Office -------------------------------
(***************************************************************************)
(* What the ticket counter of Assignment-2 promises its booking agents: a  *)
(* request gets a berth for every passenger, berths nobody has, or it is   *)
(* refused because fewer are left; nothing is booked in part.              *)
(***************************************************************************)
EXTENDS Integers, FiniteSets, Sequences

CONSTANTS Agent, Part, Place(_), Requests

VARIABLES
  sold,    \* the places of each part that are booked
  asked,   \* the request of each agent, as a sequence of at most one
  told     \* its answer, likewise

Init ==
  /\ sold = [q \in Part |-> {}]
  /\ asked = [a \in Agent |-> <<>>]
  /\ told = [a \in Agent |-> <<>>]

Ask(a) ==
  /\ asked[a] = <<>> /\ asked'[a] # <<>>
  /\ \E r \in Requests : asked' = [asked EXCEPT ![a] = <<r>>]
  /\ UNCHANGED <<sold, told>>

Left(q) == Place(q) \ sold[q]

Book(a) ==
  LET r == asked[a][1]
      n == Len(r.prefs)
  IN  \E berths \in [1 .. n -> Left(r.part)] :
        /\ \A k, m \in 1 .. n : berths[k] = berths[m] => k = m
        /\ sold' = [sold EXCEPT ![r.part] = @ \cup {berths[k] : k \in 1 .. n}]
        /\ told' = [told EXCEPT ![a] = <<[ok |-> TRUE, berths |-> berths]>>]

Refuse(a) ==
  LET r == asked[a][1]
  IN  /\ Cardinality(Left(r.part)) < Len(r.prefs)
      /\ told' = [told EXCEPT ![a] = <<[ok |-> FALSE, berths |-> <<>>]>>]
      /\ UNCHANGED sold

Decide(a) ==
  /\ asked[a] # <<>>
  /\ told[a] = <<>> /\ told'[a] # <<>>
  /\ Book(a) \/ Refuse(a)
  /\ UNCHANGED asked

Return(a) ==
  /\ told[a] # <<>>
  /\ asked' = [asked EXCEPT ![a] = <<>>]
  /\ told' = [told EXCEPT ![a] = <<>>]
  /\ UNCHANGED sold

Next == \E a \in Agent : Ask(a) \/ Decide(a) \/ Return(a)

Spec == Init /\ [][Next]_<<sold, asked, told>>
=============================================================================
