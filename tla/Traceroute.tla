----------------------------- MODULE Traceroute -----------------------------
(***************************************************************************)
(* traceroute.c of Assignment-5: some probes to each hop, each waiting     *)
(* for the next ICMP packet, whatever it is. The first of them makes the   *)
(* line of the hop and tells whether the trace ends with it.               *)
(***************************************************************************)
EXTENDS Icmp

CONSTANTS
  MaxHops,   \* 30 in the code
  Each       \* probes to each hop, 3 in the code

ASSUME TracerouteConstants ==
  /\ MaxHops \in Nat \ {0} /\ Each \in Nat \ {0}
  /\ "*" \notin Hosts \cup Programs

VARIABLES
  at,      \* where the program is
  hop,
  count,   \* probes of the hop that are still to be sent
  flag,    \* the trace ends with this hop
  lines    \* what was printed for each hop

tracing == <<at, hop, count, flag, lines>>

Star == [type |-> Exceeded, from |-> "*", by |-> "*", n |-> 0, count |-> 0, whole |-> TRUE]

TracerouteInit ==
  /\ at = [t \in Traces |-> "off"]
  /\ hop = [t \in Traces |-> 1]
  /\ count = [t \in Traces |-> Each]
  /\ flag = [t \in Traces |-> FALSE]
  /\ lines = [t \in Traces |-> <<>>]

Goes(t, from, to) ==
  /\ at[t] = from
  /\ at' = [at EXCEPT ![t] = to]

Launch(t) ==
  /\ Goes(t, "off", "probe")
  /\ Open(t)
  /\ UNCHANGED <<hop, count, flag, lines>>

\* Mutant of SendProbe: the TTL is one more than the hop.
SendFar(t) ==
  /\ count[t] > 0
  /\ Goes(t, "probe", "wait")
  /\ count' = [count EXCEPT ![t] = @ - 1]
  /\ Send(t, hop[t], count'[t], hop[t] + 1)
  /\ UNCHANGED <<hop, flag, lines>>

SendProbe(t) ==
  /\ count[t] > 0
  /\ Goes(t, "probe", "wait")
  /\ count' = [count EXCEPT ![t] = @ - 1]
  /\ Send(t, hop[t], count'[t], hop[t])
  /\ UNCHANGED <<hop, flag, lines>>

\* Mutant of Final: anything but the end of a TTL.
NotExceeded(t, pk) == pk.type # Exceeded

\* An echo reply, or anything from the destination.
Final(t, pk) == pk.type = EchoReply \/ pk.from = Target[t]

\* What the first probe of a hop prints.
First(t) == count[t] = Each - 1
Line(t, said) == lines' = IF First(t) THEN [lines EXCEPT ![t] = Append(@, said)] ELSE lines

TakeReply(t) ==
  /\ Goes(t, "wait", "probe")
  /\ Take(t)
  /\ Line(t, Taken(t))
  /\ flag' = [flag EXCEPT ![t] = @ \/ (First(t) /\ Final(t, Taken(t)))]
  /\ UNCHANGED <<hop, count>>

NoReply(t) ==
  /\ Goes(t, "wait", "probe")
  /\ Nothing(t)
  /\ Line(t, Star)
  /\ UNCHANGED <<hop, count, flag>>

NextHop(t) ==
  /\ count[t] = 0 /\ ~flag[t] /\ hop[t] < MaxHops
  /\ Goes(t, "probe", "probe")
  /\ hop' = [hop EXCEPT ![t] = @ + 1]
  /\ count' = [count EXCEPT ![t] = Each]
  /\ UNCHANGED <<network, flag, lines>>

\* exit with the flag, or after the last hop.
End(t) ==
  /\ count[t] = 0 /\ (flag[t] \/ hop[t] = MaxHops)
  /\ Goes(t, "probe", "done")
  /\ Close(t)
  /\ UNCHANGED <<hop, count, flag, lines>>

TraceStep(t) == SendProbe(t) \/ TakeReply(t) \/ NoReply(t) \/ NextHop(t) \/ End(t)

TracerouteNext == \E t \in Traces : Launch(t) \/ TraceStep(t)
=============================================================================
