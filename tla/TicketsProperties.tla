------------------------- MODULE TicketsProperties --------------------------
(* What should hold of Tickets. *)
EXTENDS Tickets

\* Types; the allocator is at work only on a request the server has popped.
TypeOK ==
  /\ DOMAIN t1 = Part /\ \A q \in Part : t1[q] \in [Place(q) -> 0 .. 2]
  /\ step \in {"idle", "each", "coach", "fill", "any", "rest", "commit",
               "booked", "refused"}
  /\ IF step = "idle"
     THEN req = Idle
     ELSE /\ pc = "pop"
          /\ req \in Requests
          /\ person \in [Passengers -> Place(req.part) \cup {None}]
          /\ j \in Coach(req.part)
          /\ i \in 1 .. Party + 1
          /\ flag \in Nat
          /\ flg \in [Coach(req.part) -> Nat]
          /\ tried \subseteq Coach(req.part)
  /\ stuck \in BOOLEAN
  /\ pc \in {"accept", "select", "pop"}
  /\ clients \subseteq Agent /\ backlog \subseteq Agent /\ waiting \subseteq Agent
  /\ requests \subseteq Requests
  /\ agent \in [Agent -> {"away", "here", "gone", "dead"}]
  /\ inbox \in [Agent -> {"nothing", "request", "serd_disconnect"}]
  /\ request \in [Agent -> Requests \cup {Idle}]
  /\ sent \in 0 .. MaxRequests
  /\ now \in 1 .. MaxTicks

-----------------------------------------------------------------------------
(* Safety. *)

\* The allocator's berths, in the terms of Office: they are sold once the
\* marks are those of the ticket.
Sold(q) ==
  {p \in Place(q) : t1[q][p] = 1 \/ (step = "commit" /\ q = req.part /\ t1[q][p] = 2)}

Deciding(a) == step \in {"commit", "booked"} /\ req.agent = a

Desk ==
  INSTANCE Office WITH
    sold <- [q \in Part |-> Sold(q)],
    asked <- [a \in Agent |-> IF a \in waiting THEN <<request[a]>> ELSE <<>>],
    told <- [a \in Agent |-> IF Deciding(a) THEN <<Ticket(person)>> ELSE reply[a]]

\* Whatever the trials in the coaches mark and undo, a request gets one free
\* berth for each passenger or, when too few are left, none; berths are never
\* sold twice and none is lost (Assignment-2.pdf: "there is no
\* provision for partial booking").
OfficeSpec == Desk!Spec

\* The table of the other thread never falls: it does not show a berth that is
\* only being tried, though it may read the marks at any step.
TableNeverFalls == [][\A q \in Part : Counted(q)' >= Counted(q)]_t1

\* A request gets its preferences, all in one coach, when a coach can meet
\* them; the passengers without a preference must come last, as one of them
\* takes the first berth of the coach, which a later passenger may need, and the
\* types asked for must have no berth in common: in a bay of six every middle
\* berth is an upper or a side lower one too, which a later passenger may need.
NoneLast(prefs) ==
  \A n, m \in 1 .. Len(prefs) : n < m /\ prefs[n] = "NA" => prefs[m] = "NA"

Apart(bay, prefs) ==
  \A n, m \in 1 .. Len(prefs) :
    prefs[n] # prefs[m] /\ "NA" \notin {prefs[n], prefs[m]} =>
      Remainders(bay, prefs[n]) \cap Remainders(bay, prefs[m]) = {}

InOrder == NoneLast(req.prefs) /\ Apart(Bay[req.part], req.prefs)

Meets(berths) ==
  /\ \A n, m \in Passengers : berths[n][1] = berths[m][1] /\ (n # m => berths[n] # berths[m])
  /\ \A n \in Passengers : Suits(req.prefs[n], berths[n])

\* The berths of the request are marked and none of them is booked yet.
Decided == step = "commit" /\ Cardinality(In(2)) = Party

Available(q) == {p \in Place(q) : t1[q][p] # 1}

PreferencesMet ==
  Decided /\ InOrder
    /\ (\E berths \in [Passengers -> Available(req.part)] : Meets(berths))
  => Meets(person)

-----------------------------------------------------------------------------
(* Liveness. *)

\* A request on a connection the server watches is answered: the allocator
\* ends, and dead connections do not keep the server from its work.
WatchedAnswered ==
  \A a \in Agent :
    (a \in clients /\ inbox[a] = "request") ~> (reply[a] # <<>>)

-----------------------------------------------------------------------------
(* What Assignment-2.pdf says and the code does not do. *)

\* "Berth allotment in the same coach for a booking should have higher priority
\* over berth preference": a party that fits into one coach is not spread.
SameCoachFirst ==
  Decided
    /\ (\E c \in Coach(req.part) :
          Cardinality({p \in Available(req.part) : p[1] = c}) >= Party)
  => \A n, m \in Passengers : person[n][1] = person[m][1]
=============================================================================
