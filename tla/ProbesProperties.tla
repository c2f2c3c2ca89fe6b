-------------------------- MODULE ProbesProperties --------------------------
(* What should hold of Probes. *)
EXTENDS Probes

Times == [tsum : Nat, tsum2 : Nat, min : Nat, max : Nat]
Divided == [tsum : Nat, tsum2 : Nat]
Reports == [sent : Nat, received : Nat, error : Nat, sums : Times,
            divided : Divided]
Where == {"off", "send", "asked", "wait", "done", "failed"} \cup Counting \cup Finishing

TypeOK ==
  /\ air \subseteq Packet
  /\ queue \in [Programs -> Seq(Packet)]
  /\ open \subseteq Programs
  /\ faults \in 0 .. MaxFaults
  /\ pc \in [Pings -> Where]
  /\ sent \in [Pings -> Nat]
  /\ received \in [Pings -> Nat]
  /\ error \in [Pings -> Nat]
  /\ icmp_seqno \in [Pings -> Nat]
  /\ times \in [Pings -> 0 .. 2]
  /\ sums \in [Pings -> Times]
  /\ divided \in [Pings -> Divided]
  /\ credit \in [Pings -> SUBSET [seq : Nat, reply : Packet]]
  /\ prompt \in [Pings -> SUBSET Nat]
  /\ report \in [Pings -> Reports]
  /\ at \in [Traces -> {"off", "probe", "wait", "done"}]
  /\ hop \in [Traces -> 1 .. MaxHops]
  /\ count \in [Traces -> 0 .. Each]
  /\ flag \in [Traces -> BOOLEAN]
  /\ lines \in [Traces -> Seq(Packet \cup {Star})]

-----------------------------------------------------------------------------
(* ping. *)

\* Requests that are out: the last may not be in sent yet.
Out(p) == sent[p] + (IF pc[p] = "asked" THEN 1 ELSE 0)

\* Each reply counted answers a request of its own: the one with the number
\* waited for, sent by this ping or by another with the same identifier.
CreditIsDue ==
  \A p \in Pings :
    /\ Cardinality(credit[p]) = received[p]
    /\ \A c, d \in credit[p] : c.seq = d.seq => c = d
    /\ \A c \in credit[p] : LET q == c.reply.by
                            IN  /\ q \in Pings
                                /\ c.reply.n = c.seq
                                /\ c.reply.from = Target[q]
                                /\ c.seq <= sent[p]
                                /\ pc[q] \in {"done", "failed"} \/ c.seq <= Out(q)

\* A reply that comes within its second, behind at most two strangers, is
\* counted: late replies and the packets of other programs cost no more.
PromptIsCounted ==
  \A p \in Pings : \A n \in prompt[p] :
    n < icmp_seqno[p] => \E c \in credit[p] : c.seq = n

\* What finish prints last: counted replies and errors are no more than the
\* requests. The line of the times leaves out at most the last reply, and the
\* later statements of a turn leave it out if the earlier do (lines 269-280).
\* An average is divided by received once; or twice, when SIGINT comes in
\* finish(0) after a division (lines 332-333 and 402), and then the ping was
\* over: every request was sent, and every reply is in every sum.
ReportAddsUp ==
  \A p \in Pings :
    LET r == report[p]
        s == r.sums
        d == r.divided
    IN  /\ r.received + r.error <= r.sent
        /\ pc[p] = "done" => (d.tsum > 0 <=> r.received > 0)
        /\ d.tsum > 0 =>
             /\ r.received >= s.tsum /\ s.tsum >= s.tsum2 /\ s.tsum2 >= s.min
             /\ s.min >= s.max /\ s.max >= r.received - 1
        /\ \/ d \in {Whole, [tsum |-> 1, tsum2 |-> 1]}
           \/ /\ d.tsum = 2 /\ d.tsum2 \in {1, 2}
              /\ r.sent = Count[p] /\ s.max = r.received

-----------------------------------------------------------------------------
(* traceroute. *)

\* The line of a hop, if an answer to this trace made it, names a host that is
\* no farther than the hop: an answer may be late, never early.
LinesNotAhead ==
  \A t \in Traces : \A h \in 1 .. Len(lines[t]) :
    lines[t][h].by = t =>
      /\ lines[t][h].n <= h
      /\ \E k \in 1 .. h : k <= Distance(t) /\ lines[t][h].from = Path[Target[t]][k]

\* A trace ends with the line that names the destination, and before it only
\* when a packet of a ping was taken for an answer.
EndsForCause ==
  \A t \in Traces :
    /\ \A h \in 1 .. Len(lines[t]) - 1 : lines[t][h].from # Target[t]
    /\ flag[t] /\ hop[t] < Distance(t) => lines[t][hop[t]].by \in Programs \ {t}
=============================================================================
