------------------------------- MODULE Tickets ------------------------------
(***************************************************************************)
(* The ticket counter of Assignment-2: the server (server.cpp), which      *)
(* collects the requests of its booking agents with select and serves them *)
(* from a priority queue with the allocator of Berths, and the agents      *)
(* (client.cpp), each of which sends a request and waits for the answer.   *)
(***************************************************************************)
EXTENDS Berths

CONSTANTS
  Bookings,     \* the lines of the agents' files
  MaxRequests,  \* bound: requests sent in all
  MaxTicks      \* bound: moments at which requests are sent

ASSUME TicketsConstants ==
  /\ MaxRequests \in Nat /\ MaxTicks \in Nat \ {0}
  /\ \A b \in Bookings :
       /\ b.part \in Part
       /\ b.prefs \in Seq(Preferences) \ {<<>>}
       /\ b.seniors \in 0 .. Len(b.prefs)

VARIABLES
  pc,        \* server: "accept", "select" or "pop"
  clients,   \* server: the connections it watches
  requests,  \* server: the priority queue
  backlog,   \* agents that have connected and are not accepted yet
  agent,     \* "away", "here" (connected), "gone" (after DISCONNECT), "dead"
  inbox,     \* the message of an agent the server has not read, or "nothing"
  request,   \* the request an agent has sent last
  waiting,   \* agents that have not read the answer to it
  reply,     \* the answer on its way to an agent
  now,       \* the time of the last request, in milliseconds
  sent       \* requests sent so far

counter == <<pc, clients, requests, backlog, agent, inbox, request, waiting,
             reply, now, sent>>

vars == <<allocator, counter>>

\* A request, as the server parses it.
Requests ==
  {[agent |-> a, part |-> b.part, prefs |-> b.prefs, seniors |-> b.seniors,
    t_stp |-> t] : a \in Agent, b \in Bookings, t \in 1 .. MaxTicks}

Ticket(berths) == [ok |-> TRUE, berths |-> berths]
NoBerthsAvailable == [ok |-> FALSE, berths |-> <<>>]

Init ==
  /\ BerthsInit
  /\ pc = "accept"
  /\ clients = {}
  /\ requests = {}
  /\ backlog = {}
  /\ agent = [a \in Agent |-> "away"]
  /\ inbox = [a \in Agent |-> "nothing"]
  /\ request = [a \in Agent |-> Idle]
  /\ waiting = {}
  /\ reply = [a \in Agent |-> <<>>]
  /\ now = 1
  /\ sent = 0

-----------------------------------------------------------------------------
(* Booking agents. *)

Connect(a) ==
  /\ agent[a] = "away"
  /\ agent' = [agent EXCEPT ![a] = "here"]
  /\ backlog' = backlog \cup {a}
  /\ UNCHANGED <<allocator, pc, clients, requests, inbox, request, waiting,
                 reply, now, sent>>

\* A line of the file and the time; the clock may have moved on.
Book(a, b, t) ==
  /\ agent[a] = "here"
  /\ a \notin waiting
  /\ sent < MaxRequests
  /\ sent' = sent + 1
  /\ now' = t
  /\ request' = [request EXCEPT ![a] =
       [agent |-> a, part |-> b.part, prefs |-> b.prefs,
        seniors |-> b.seniors, t_stp |-> t]]
  /\ inbox' = [inbox EXCEPT ![a] = "request"]
  /\ waiting' = waiting \cup {a}
  /\ UNCHANGED <<allocator, pc, clients, requests, backlog, agent, reply>>

Answered(a) ==
  /\ agent[a] = "here"
  /\ reply[a] # <<>>
  /\ reply' = [reply EXCEPT ![a] = <<>>]
  /\ waiting' = waiting \ {a}
  /\ UNCHANGED <<allocator, pc, clients, requests, backlog, agent, inbox,
                 request, now, sent>>

Leave(a) ==
  /\ agent[a] = "here"
  /\ a \notin waiting
  /\ agent' = [agent EXCEPT ![a] = "gone"]
  /\ inbox' = [inbox EXCEPT ![a] = "serd_disconnect"]
  /\ UNCHANGED <<allocator, pc, clients, requests, backlog, request, waiting,
                 reply, now, sent>>

\* The process ends at any moment; what it has sent stays in the stream.
Die(a) ==
  /\ agent[a] = "here"
  /\ agent' = [agent EXCEPT ![a] = "dead"]
  /\ UNCHANGED <<allocator, pc, clients, requests, backlog, inbox, request,
                 waiting, reply, now, sent>>

AgentStep(a) ==
  \/ Connect(a) \/ Answered(a) \/ Leave(a) \/ Die(a)
  \/ \E b \in Bookings, t \in now .. MaxTicks : Book(a, b, t)

-----------------------------------------------------------------------------
(* The server. *)

Accept(a) ==
  /\ pc = "accept"
  /\ a \in backlog
  /\ clients' = clients \cup {a}
  /\ backlog' = backlog \ {a}
  /\ UNCHANGED <<allocator, pc, requests, agent, inbox, request, waiting,
                 reply, now, sent>>

AllAccepted ==
  /\ pc = "accept"
  /\ backlog = {}
  /\ clients # {}
  /\ pc' = "select"
  /\ UNCHANGED <<allocator, clients, requests, backlog, agent, inbox, request,
                 waiting, reply, now, sent>>

\* A connection is ready for good once the agent at its other end has died.
Ready == {a \in clients : inbox[a] # "nothing" \/ agent[a] = "dead"}

\* select, without a timeout, and the read of every connection that is ready.
\* The end of a stream reads as "" and is passed over.
Collect ==
  /\ pc = "select"
  /\ Ready # {}
  /\ clients' = {a \in clients : inbox[a] # "serd_disconnect"}
  /\ requests' = {request[a] : a \in {b \in Ready : inbox[b] = "request"}}
  /\ inbox' = [a \in Agent |-> IF a \in Ready THEN "nothing" ELSE inbox[a]]
  /\ pc' = "pop"
  /\ UNCHANGED <<allocator, backlog, agent, request, waiting, reply, now, sent>>

\* operator<: the queue serves the latest request first, then the largest
\* party, then the one with the most seniors.
Less(l, r) ==
  \/ r.t_stp > l.t_stp
  \/ /\ r.t_stp = l.t_stp
     /\ \/ Len(r.prefs) > Len(l.prefs)
        \/ Len(r.prefs) = Len(l.prefs) /\ r.seniors > l.seniors

Pop(r) ==
  /\ pc = "pop"
  /\ r \in requests
  /\ \A s \in requests : ~Less(r, s)
  /\ requests' = requests \ {r}
  /\ Call(r)
  /\ UNCHANGED <<pc, clients, backlog, agent, inbox, request, waiting, reply,
                 now, sent>>

AllocatorStep ==
  /\ Allocate
  /\ UNCHANGED counter

Answer == IF step = "booked" THEN Ticket(person) ELSE NoBerthsAvailable

Reply ==
  /\ Return
  /\ reply' = [reply EXCEPT ![req.agent] = <<Answer>>]
  /\ UNCHANGED <<pc, clients, requests, backlog, agent, inbox, request,
                 waiting, now, sent>>

\* The queue is empty: sleep, and back to accept.
AllServed ==
  /\ pc = "pop"
  /\ step = "idle"
  /\ requests = {}
  /\ pc' = "accept"
  /\ UNCHANGED <<allocator, clients, requests, backlog, agent, inbox, request,
                 waiting, reply, now, sent>>

Server ==
  \/ \E a \in Agent : Accept(a)
  \/ AllAccepted
  \/ Collect
  \/ \E r \in requests : Pop(r)
  \/ AllocatorStep
  \/ Reply
  \/ AllServed

-----------------------------------------------------------------------------
Next == Server \/ \E a \in Agent : AgentStep(a)

Spec == Init /\ [][Next]_vars

\* The server's thread runs, and an agent reads the answer it waits for. That
\* an agent connects, asks for more or leaves is up to its user.
FairSpec ==
  /\ Spec
  /\ WF_vars(Server)
  /\ \A a \in Agent : WF_vars(Answered(a))
=============================================================================
