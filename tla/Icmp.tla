-------------------------------- MODULE Icmp --------------------------------
(***************************************************************************)
(* What ping (Assignment-6) and traceroute (Assignment-5) share on one     *)
(* host: the network that answers their echo requests, and the raw ICMP    *)
(* sockets. Every such socket of the host gets a copy of every ICMP packet *)
(* that arrives, whichever program it answers.                             *)
(***************************************************************************)
EXTENDS Naturals, Sequences, FiniteSets

CONSTANTS
  Pings, Traces,  \* the programs that run
  Hosts,          \* addresses: destinations and routers
  Target,         \* the destination of each program
  Path,           \* the hosts on the way to a destination, itself the last
  MaxAir,         \* bound: answers on their way
  QueueCap,       \* bound: packets in a socket
  MaxFaults       \* bound: packets doubled or damaged, hosts unreachable

Programs == Pings \cup Traces

ASSUME IcmpConstants ==
  /\ Pings \cap Traces = {}
  /\ Target \in [Programs -> Hosts]
  /\ \A p \in Programs :
       LET way == Path[Target[p]]
       IN  /\ way \in Seq(Hosts) /\ way # <<>>
           /\ \A k \in 1 .. Len(way) : way[k] = Target[p] <=> k = Len(way)
  /\ {MaxAir, QueueCap, MaxFaults} \subseteq Nat

VARIABLES
  air,     \* answers on their way; any of them may be next, or never come
  queue,   \* the packets in the socket of a program
  open,    \* the programs that have their socket
  faults   \* bound: the faults so far

network == <<air, queue, open, faults>>

\* Types of ICMP packets.
EchoReply == 0
Unreachable == 3
Exceeded == 11

\* An answer to request n of a program; whole tells whether its checksum holds.
\* For traceroute n is the hop, and count tells its probes apart.
Packet == [type : {EchoReply, Unreachable, Exceeded}, from : Hosts, by : Programs,
           n : Nat, count : Nat, whole : BOOLEAN]

IcmpInit ==
  /\ air = {}
  /\ queue = [p \in Programs |-> <<>>]
  /\ open = {}
  /\ faults = 0

\* How many hosts away the destination is.
Distance(p) == Len(Path[Target[p]])

-----------------------------------------------------------------------------
(* The network. *)

Answer(p, n, count, type, k) ==
  [type |-> type, from |-> Path[Target[p]][k], by |-> p, n |-> n, count |-> count,
   whole |-> TRUE]

\* The request of a program is answered by the host where its TTL ends, or by a
\* router up to there to which the rest of the way is closed; or not at all.
Send(p, n, count, ttl) ==
  LET last == IF ttl < Distance(p) THEN ttl ELSE Distance(p)
      type == IF ttl < Distance(p) THEN Exceeded ELSE EchoReply
  IN  \/ UNCHANGED network
      \/ /\ Cardinality(air) < MaxAir
         /\ air' = air \cup {Answer(p, n, count, type, last)}
         /\ UNCHANGED <<queue, open, faults>>
      \/ /\ Cardinality(air) < MaxAir /\ faults < MaxFaults
         /\ \E k \in 1 .. last :
              k < Distance(p) /\ air' = air \cup {Answer(p, n, count, Unreachable, k)}
         /\ faults' = faults + 1
         /\ UNCHANGED <<queue, open>>

\* A packet reaches the host, perhaps damaged, perhaps not for the last time.
Arrives(pk, again, damaged) ==
  /\ \A p \in open : Len(queue[p]) < QueueCap
  /\ faults + (IF again THEN 1 ELSE 0) + (IF damaged THEN 1 ELSE 0) <= MaxFaults
  /\ faults' = faults + (IF again THEN 1 ELSE 0) + (IF damaged THEN 1 ELSE 0)
  /\ air' = IF again THEN air ELSE air \ {pk}
  /\ queue' = [p \in Programs |->
       IF p \in open THEN Append(queue[p], [pk EXCEPT !.whole = ~damaged]) ELSE queue[p]]
  /\ UNCHANGED open

-----------------------------------------------------------------------------
(* The socket of a program. *)

Open(p) ==
  /\ open' = open \cup {p}
  /\ UNCHANGED <<air, queue, faults>>

Close(p) ==
  /\ open' = open \ {p}
  /\ queue' = [queue EXCEPT ![p] = <<>>]
  /\ UNCHANGED <<air, faults>>

\* select finds a packet, and recvfrom takes it.
Taken(p) == Head(queue[p])
Take(p) ==
  /\ queue[p] # <<>>
  /\ queue' = [queue EXCEPT ![p] = Tail(@)]
  /\ UNCHANGED <<air, open, faults>>

\* select finds nothing until its timeout.
Nothing(p) == queue[p] = <<>> /\ UNCHANGED network
=============================================================================
