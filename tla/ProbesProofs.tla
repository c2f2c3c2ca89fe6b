---------------------------- MODULE ProbesProofs ----------------------------
(* What holds of Probes for every number of programs and every network.      *)
EXTENDS ProbesProperties, SequenceTheorems, FiniteSetTheorems, TLAPS

-----------------------------------------------------------------------------
(* Types, of the network, of the pings and of the traces.                    *)

NetOK ==
  /\ air \subseteq Packet
  /\ queue \in [Programs -> Seq(Packet)]
  /\ open \subseteq Programs
  /\ faults \in 0 .. MaxFaults

PingOK ==
  /\ pc \in [Pings -> Where]
  /\ sent \in [Pings -> Nat]
  /\ received \in [Pings -> Nat]
  /\ error \in [Pings -> Nat]
  /\ icmp_seqno \in [Pings -> Nat]
  /\ times \in [Pings -> 0 .. 2]
  /\ sums \in [Pings -> Times]
  /\ divided \in [Pings -> Divided]
  /\ credit \in [Pings -> SUBSET [seq : Nat, reply : Packet]]
  /\ prompt \in [Pings -> SUBSET Nat]
  /\ report \in [Pings -> Reports]

TraceOK ==
  /\ at \in [Traces -> {"off", "probe", "wait", "done"}]
  /\ hop \in [Traces -> 1 .. MaxHops]
  /\ count \in [Traces -> 0 .. Each]
  /\ flag \in [Traces -> BOOLEAN]
  /\ lines \in [Traces -> Seq(Packet \cup {Star})]

LEMMA TypeParts == TypeOK <=> NetOK /\ PingOK /\ TraceOK
  BY DEF TypeOK, NetOK, PingOK, TraceOK

LEMMA Bounds ==
  /\ Count \in [Pings -> Nat \ {0}] /\ MaxHops \in Nat \ {0} /\ Each \in Nat \ {0}
  /\ MaxFaults \in Nat
  BY PingConstants, TracerouteConstants, IcmpConstants

\* The way to a destination.
LEMMA Way ==
  ASSUME NEW p \in Programs
  PROVE  /\ Target[p] \in Hosts
         /\ Distance(p) \in Nat \ {0}
         /\ \A k \in 1 .. Distance(p) :
              /\ Path[Target[p]][k] \in Hosts
              /\ Path[Target[p]][k] = Target[p] <=> k = Distance(p)
<1>1. Path[Target[p]] \in Seq(Hosts) /\ Path[Target[p]] # <<>> /\ Target[p] \in Hosts
  BY IcmpConstants
<1>2. Len(Path[Target[p]]) \in Nat \ {0}
  BY <1>1, EmptySeq, LenProperties
<1>3. \A k \in 1 .. Len(Path[Target[p]]) : Path[Target[p]][k] \in Hosts
  BY <1>1, ElementOfSeq
<1>4. \A k \in 1 .. Len(Path[Target[p]]) :
        Path[Target[p]][k] = Target[p] <=> k = Len(Path[Target[p]])
  BY IcmpConstants
<1> QED
  BY <1>1, <1>2, <1>3, <1>4 DEF Distance

\* The answers to a request, by a host on the way.
LEMMA AnswerType ==
  ASSUME NEW p \in Programs, NEW n \in Nat, NEW c \in Nat,
         NEW type \in {EchoReply, Unreachable, Exceeded}, NEW k \in 1 .. Distance(p)
  PROVE  Answer(p, n, c, type, k) \in Packet
<1>1. Path[Target[p]][k] \in Hosts
  BY Way
<1> QED
  BY <1>1 DEF Answer, Packet

LEMMA SendKeepsNet ==
  ASSUME NetOK, NEW p \in Programs, NEW n \in Nat, NEW c \in Nat, NEW ttl \in Nat \ {0},
         Send(p, n, c, ttl)
  PROVE  NetOK'
<1> DEFINE last == IF ttl < Distance(p) THEN ttl ELSE Distance(p)
           type == IF ttl < Distance(p) THEN Exceeded ELSE EchoReply
<1>1. last \in 1 .. Distance(p) /\ type \in {EchoReply, Unreachable, Exceeded}
  BY Way
<1>2. CASE UNCHANGED network
  BY <1>2 DEF NetOK, network
<1>3. CASE air' = air \cup {Answer(p, n, c, type, last)} /\ UNCHANGED <<queue, open, faults>>
  <2>1. Answer(p, n, c, type, last) \in Packet
    BY <1>1, AnswerType
  <2> QED
    BY <1>3, <2>1 DEF NetOK
<1>4. CASE /\ faults < MaxFaults /\ faults' = faults + 1 /\ UNCHANGED <<queue, open>>
           /\ \E k \in 1 .. last :
                k < Distance(p) /\ air' = air \cup {Answer(p, n, c, Unreachable, k)}
  <2>1. PICK k \in 1 .. last : air' = air \cup {Answer(p, n, c, Unreachable, k)}
    BY <1>4
  <2>2. k \in 1 .. Distance(p)
    BY <1>1, Way
  <2>3. Answer(p, n, c, Unreachable, k) \in Packet
    BY <2>2, AnswerType
  <2>4. faults' \in 0 .. MaxFaults
    BY <1>4, Bounds DEF NetOK
  <2> QED
    BY <1>4, <2>1, <2>3, <2>4 DEF NetOK
<1> QED
  BY <1>2, <1>3, <1>4 DEF Send

LEMMA ArrivesKeepsNet ==
  ASSUME NetOK, NEW pk \in air, NEW again \in BOOLEAN, NEW damaged \in BOOLEAN,
         Arrives(pk, again, damaged)
  PROVE  NetOK'
<1>1. pk \in Packet
  BY DEF NetOK
<1>2. [pk EXCEPT !.whole = ~damaged] \in Packet
  BY <1>1 DEF Packet
<1>3. queue' \in [Programs -> Seq(Packet)]
  BY <1>2, AppendProperties DEF Arrives, NetOK
<1>4. faults' \in 0 .. MaxFaults
  BY Bounds DEF Arrives, NetOK
<1> QED
  BY <1>3, <1>4 DEF Arrives, NetOK

LEMMA SocketKeepsNet ==
  ASSUME NetOK, NEW p \in Programs,
         Open(p) \/ Close(p) \/ Take(p) \/ Nothing(p)
  PROVE  NetOK'
<1>1. CASE Open(p)
  BY <1>1 DEF Open, NetOK
<1>2. CASE Close(p)
  <2>1. queue' \in [Programs -> Seq(Packet)]
    BY <1>2, EmptySeq DEF Close, NetOK
  <2> QED
    BY <1>2, <2>1 DEF Close, NetOK
<1>3. CASE Take(p)
  <2>1. queue[p] \in Seq(Packet) /\ queue[p] # <<>>
    BY <1>3 DEF Take, NetOK
  <2>2. Tail(queue[p]) \in Seq(Packet)
    BY <2>1, HeadTailProperties
  <2> QED
    BY <1>3, <2>2 DEF Take, NetOK
<1>4. CASE Nothing(p)
  BY <1>4 DEF Nothing, network, NetOK
<1> QED
  BY <1>1, <1>2, <1>3, <1>4

LEMMA TakenType ==
  ASSUME NetOK, NEW p \in Programs, Take(p)
  PROVE  Taken(p) \in Packet
<1>1. queue[p] \in Seq(Packet) /\ queue[p] # <<>>
  BY DEF Take, NetOK
<1> QED
  BY <1>1, HeadTailProperties DEF Taken

-----------------------------------------------------------------------------
(* Steps of a ping.                                                          *)

LEMMA ProgramsAre ==
  /\ \A p \in Pings : p \in Programs
  /\ \A t \in Traces : t \in Programs
  BY DEF Programs

\* Where a ping may go, and that nothing else of it changes.
LEMMA MovesType ==
  ASSUME PingOK, NEW p \in Pings, NEW from,
         NEW to \in Where,
         Moves(p, from, to)
  PROVE  /\ pc' \in [Pings -> Where]
         /\ prompt' \in [Pings -> SUBSET Nat]
  BY DEF Moves, PingOK

LEMMA DoneType ==
  ASSUME PingOK, NEW p \in Pings, Done(p)
  PROVE  /\ pc' \in [Pings -> Where]
         /\ prompt' \in [Pings -> SUBSET Nat]
         /\ icmp_seqno' \in [Pings -> Nat]
         /\ times' \in [Pings -> 0 .. 2]
<1>1. Moves(p, "wait", "send")
  BY DEF Done
<1>2. icmp_seqno' \in [Pings -> Nat] /\ times' \in [Pings -> 0 .. 2]
  BY DEF Done, PingOK
<1> QED
  BY <1>1, <1>2, MovesType DEF Where

\* Between two statements: of the sums, or of finish(0).
Inside(from, to) ==
  \/ from \in Counting /\ to \in Counting
  \/ from \in {"send"} \cup Finishing /\ to \in Finishing

LEMMA StepsInside ==
  ASSUME NEW p, AddTimes(p) \/ Finish(p)
  PROVE  \E from, to \in Where : Inside(from, to) /\ Computes(p, from, to)
<1>1. /\ Inside("counted", "summed") /\ Inside("summed", "squared") /\ Inside("squared", "least")
      /\ Inside("send", "printed") /\ Inside("send", "over") /\ Inside("printed", "mean")
      /\ Inside("mean", "squares") /\ Inside("squares", "over")
      /\ {"send"} \cup Counting \cup Finishing \subseteq Where
  BY DEF Inside, Counting, Finishing, Where
<1>2. \/ \E from \in Counting, to \in Counting : Inside(from, to) /\ Computes(p, from, to)
      \/ \E from \in {"send"} \cup Finishing, to \in Finishing :
           Inside(from, to) /\ Computes(p, from, to)
  BY <1>1 DEF AddTimes, AddTime, Finish, PrintCounts, Divide, PrintTimes, Counting, Finishing
<1> QED
  BY <1>1, <1>2

\* What these statements leave.
LEMMA InsideType ==
  ASSUME PingOK, NEW p \in Pings, AddTimes(p) \/ Finish(p)
  PROVE  PingOK'
<1>1. PICK from \in Where, to \in Where : Computes(p, from, to)
  BY StepsInside
<1>2. pc' \in [Pings -> Where] /\ prompt' \in [Pings -> SUBSET Nat]
  BY <1>1, MovesType DEF Computes
<1>3. UNCHANGED <<sent, received, error, icmp_seqno, times, credit>>
  BY <1>1 DEF Computes
<1>4. /\ sums[p] \in Times /\ divided[p] \in Divided
      /\ sent[p] \in Nat /\ received[p] \in Nat /\ error[p] \in Nat
  BY DEF PingOK
<1>5. ASSUME NEW sum \in {"tsum", "tsum2", "min"}, NEW f, NEW g, AddTime(p, sum, f, g)
      PROVE  sums' \in [Pings -> Times] /\ UNCHANGED <<divided, report>>
  BY <1>4, <1>5 DEF AddTime, PingOK, Times
<1>6. ASSUME NEW sum \in {"tsum", "tsum2"}, NEW f, NEW g, Divide(p, sum, f, g)
      PROVE  divided' \in [Pings -> Divided] /\ UNCHANGED <<sums, report>>
  BY <1>4, <1>6 DEF Divide, PingOK, Divided
<1>7. ASSUME PrintCounts(p) PROVE report' \in [Pings -> Reports] /\ UNCHANGED <<sums, divided>>
  <2>1. Report(p, NoTimes, Whole) \in Reports
    BY <1>4 DEF Report, Reports, NoTimes, Whole, Times, Divided
  <2> QED
    BY <1>7, <2>1 DEF PrintCounts, PingOK
<1>8. ASSUME PrintTimes(p) PROVE report' \in [Pings -> Reports] /\ UNCHANGED <<sums, divided>>
  <2>1. Report(p, sums[p], divided[p]) \in Reports
    BY <1>4 DEF Report, Reports
  <2> QED
    BY <1>8, <2>1 DEF PrintTimes, PingOK
<1>9. /\ sums' \in [Pings -> Times] /\ divided' \in [Pings -> Divided]
      /\ report' \in [Pings -> Reports]
  BY <1>5, <1>6, <1>7, <1>8 DEF AddTimes, Finish, PingOK
<1> QED
  BY <1>2, <1>3, <1>9 DEF PingOK

LEMMA ExitType ==
  ASSUME NetOK, PingOK, NEW p \in Pings, NEW from, NEW to \in {"done", "failed"},
         Exit(p, from, to),
         report' \in [Pings -> Reports]
  PROVE  NetOK' /\ PingOK'
<1>1. NetOK'
  BY ProgramsAre, SocketKeepsNet DEF Exit
<1>2. pc' \in [Pings -> Where]
  BY DEF Exit, PingOK, Where
<1>3. /\ sent' \in [Pings -> Nat] /\ received' \in [Pings -> Nat]
      /\ error' \in [Pings -> Nat]
  BY DEF Exit, PingOK
<1>6. sums' \in [Pings -> Times] /\ divided' \in [Pings -> Divided]
  BY DEF Exit, PingOK, NoTimes, Whole, Times, Divided
<1>4. icmp_seqno' \in [Pings -> Nat] /\ times' \in [Pings -> 0 .. 2]
  BY DEF Exit, PingOK
<1>5. /\ credit' \in [Pings -> SUBSET [seq : Nat, reply : Packet]]
      /\ prompt' \in [Pings -> SUBSET Nat]
  BY DEF Exit, PingOK
<1> QED
  BY <1>1, <1>2, <1>3, <1>4, <1>5, <1>6 DEF PingOK

LEMMA FinishType ==
  ASSUME NetOK, PingOK, NEW p \in Pings, finish(p)
  PROVE  NetOK' /\ PingOK'
<1>1. Report(p, sums[p], Divisions(p)) \in Reports
  <2>1. Divisions(p) \in Divided /\ sums[p] \in Times
    BY DEF Divisions, PingOK, Divided
  <2> QED
    BY <2>1 DEF Report, Reports, PingOK
<1>2. report' \in [Pings -> Reports]
  BY <1>1 DEF finish, PingOK
<1> QED
  BY <1>2, ExitType DEF finish

LEMMA PingStepType ==
  ASSUME NetOK, PingOK, NEW p \in Pings, PingStep(p)
  PROVE  NetOK' /\ PingOK'
<1>0. p \in Programs
  BY ProgramsAre
<1>1. CASE SendEcho(p)
  <2>1. icmp_seqno[p] \in Nat /\ Distance(p) \in Nat \ {0}
    BY <1>0, Way DEF PingOK
  <2>2. NetOK'
    BY <1>0, <1>1, <2>1, SendKeepsNet DEF SendEcho
  <2>3. Moves(p, "send", "asked")
    BY <1>1 DEF SendEcho
  <2> QED
    BY <1>1, <2>2, <2>3, MovesType DEF SendEcho, counters, PingOK, Where
<1>9. CASE CountSent(p)
  <2>1. Moves(p, "asked", "wait")
    BY <1>9 DEF CountSent
  <2>2. sent' \in [Pings -> Nat]
    BY <1>9 DEF CountSent, PingOK
  <2> QED
    BY <1>9, <2>1, <2>2, MovesType DEF CountSent, PingOK, NetOK, network, Where
<1>2. CASE CountReply(p)
  <2>1. NetOK' /\ Taken(p) \in Packet
    BY <1>0, <1>2, SocketKeepsNet, TakenType DEF CountReply
  <2>2. Moves(p, "wait", "counted")
    BY <1>2 DEF CountReply
  <2>3. [seq |-> icmp_seqno[p], reply |-> Taken(p)] \in [seq : Nat, reply : Packet]
    BY <2>1 DEF PingOK
  <2>4. credit' \in [Pings -> SUBSET [seq : Nat, reply : Packet]]
    BY <1>2, <2>3 DEF CountReply, PingOK
  <2>5. received' \in [Pings -> Nat]
    BY <1>2 DEF CountReply, PingOK
  <2> QED
    BY <1>2, <2>1, <2>2, <2>4, <2>5, MovesType DEF CountReply, PingOK, Where, Counting
<1>3. CASE EndReply(p)
  <2>1. Moves(p, "least", "send")
    BY <1>3 DEF EndReply
  <2>2. icmp_seqno' \in [Pings -> Nat] /\ times' \in [Pings -> 0 .. 2]
    BY <1>3 DEF EndReply, PingOK
  <2>3. sums' \in [Pings -> Times]
    BY <1>3 DEF EndReply, PingOK, Times
  <2> QED
    BY <1>3, <2>1, <2>2, <2>3, MovesType DEF EndReply, PingOK, NetOK, network, Where
<1>4. CASE CountError(p)
  <2>1. NetOK'
    BY <1>0, <1>4, SocketKeepsNet DEF CountError
  <2>2. error' \in [Pings -> Nat]
    BY <1>4 DEF CountError, PingOK
  <2> QED
    BY <1>4, <2>1, <2>2, DoneType DEF CountError, PingOK
<1>5. CASE PassOver(p)
  <2>1. NetOK'
    BY <1>0, <1>5, SocketKeepsNet DEF PassOver
  <2>2. CASE Done(p)
    BY <1>5, <2>1, <2>2, DoneType DEF PassOver, PingOK
  <2>3. CASE /\ ~Enough(times[p] + 1)
             /\ Moves(p, "wait", "wait")
             /\ times' = [times EXCEPT ![p] = @ + 1]
             /\ UNCHANGED icmp_seqno
    <3>1. times[p] \in 0 .. 2 /\ times[p] + 1 # 3
      BY <2>3 DEF Enough, PingOK
    <3>2. times[p] + 1 \in 0 .. 2
      BY <3>1
    <3>3. times' \in [Pings -> 0 .. 2]
      BY <2>3, <3>2 DEF PingOK
    <3> QED
      BY <1>5, <2>1, <2>3, <3>3, MovesType DEF PassOver, PingOK, Where
  <2> QED
    BY <1>5, <2>2, <2>3 DEF PassOver
<1>6. CASE Damaged(p)
  <2>1. NetOK'
    BY <1>0, <1>6, SocketKeepsNet DEF Damaged
  <2> QED
    BY <1>6, <2>1, DoneType DEF Damaged, PingOK
<1>7. CASE Timeout(p)
  <2>1. NetOK'
    BY <1>0, <1>7, SocketKeepsNet DEF Timeout
  <2> QED
    BY <1>7, <2>1, DoneType DEF Timeout, PingOK
<1>8. CASE AddTimes(p) \/ Finish(p)
  <2>1. NetOK'
    BY <1>8, StepsInside DEF Computes, NetOK, network
  <2> QED
    BY <1>8, <2>1, InsideType
<1>10. CASE Leave(p)
  BY <1>10, ExitType DEF Leave, PingOK
<1> QED
  BY <1>1, <1>2, <1>3, <1>4, <1>5, <1>6, <1>7, <1>8, <1>9, <1>10 DEF PingStep

LEMMA PingNextType ==
  ASSUME NetOK, PingOK, PingNext
  PROVE  NetOK' /\ PingOK'
<1>1. ASSUME NEW p \in Pings, Start(p) PROVE NetOK' /\ PingOK'
  <2>1. Moves(p, "off", "send") /\ NetOK'
    BY <1>1, ProgramsAre, SocketKeepsNet DEF Start
  <2> QED
    BY <1>1, <2>1, MovesType DEF Start, PingOK, counters, Where
<1>2. ASSUME NEW p \in Pings, Interrupt(p) PROVE NetOK' /\ PingOK'
  BY <1>2, FinishType DEF Interrupt
<1>3. ASSUME NEW p \in Pings, Quit(p) PROVE NetOK' /\ PingOK'
  BY <1>3, ExitType DEF Quit, PingOK
<1>4. ASSUME NEW pk \in air, Arrive(pk) PROVE NetOK' /\ PingOK'
  <2>1. PICK again \in BOOLEAN, damaged \in BOOLEAN :
          /\ Arrives(pk, again, damaged)
          /\ prompt' = [p \in Pings |-> IF Prompt(p, pk) /\ ~damaged
                                        THEN prompt[p] \cup {pk.n} ELSE prompt[p]]
          /\ UNCHANGED <<pc, counters, report>>
    BY <1>4 DEF Arrive
  <2>2. pk.n \in Nat
    BY DEF NetOK, Packet
  <2>3. prompt' \in [Pings -> SUBSET Nat]
    BY <2>1, <2>2 DEF PingOK
  <2>4. NetOK'
    BY <2>1, ArrivesKeepsNet
  <2> QED
    BY <2>1, <2>3, <2>4 DEF PingOK, counters
<1> QED
  BY <1>1, <1>2, <1>3, <1>4, PingStepType DEF PingNext

-----------------------------------------------------------------------------
(* Steps of a trace.                                                         *)

LEMMA GoesType ==
  ASSUME TraceOK, NEW t \in Traces, NEW from,
         NEW to \in {"off", "probe", "wait", "done"}, Goes(t, from, to)
  PROVE  at' \in [Traces -> {"off", "probe", "wait", "done"}]
  BY DEF Goes, TraceOK

LEMMA LineType ==
  ASSUME TraceOK, NEW t \in Traces, NEW said \in Packet \cup {Star}, Line(t, said)
  PROVE  lines' \in [Traces -> Seq(Packet \cup {Star})]
<1>1. Append(lines[t], said) \in Seq(Packet \cup {Star})
  BY AppendProperties DEF TraceOK
<1> QED
  BY <1>1 DEF Line, TraceOK

LEMMA TracerouteNextType ==
  ASSUME NetOK, TraceOK, TracerouteNext
  PROVE  NetOK' /\ TraceOK'
<1>0. PICK t \in Traces : Launch(t) \/ TraceStep(t)
  BY DEF TracerouteNext
<1> t \in Programs
  BY ProgramsAre
<1>1. CASE Launch(t)
  <2>1. NetOK' /\ Goes(t, "off", "probe")
    BY <1>1, SocketKeepsNet DEF Launch
  <2> QED
    BY <1>1, <2>1, GoesType DEF Launch, TraceOK
<1>2. CASE SendProbe(t)
  <2>1. count[t] \in 0 .. Each /\ count[t] > 0 /\ Goes(t, "probe", "wait")
    BY <1>2 DEF SendProbe, TraceOK
  <2>2. count[t] - 1 \in 0 .. Each
    BY <2>1, Bounds
  <2>3. count' \in [Traces -> 0 .. Each] /\ count'[t] \in Nat
    BY <1>2, <2>2 DEF SendProbe, TraceOK
  <2>4. hop[t] \in Nat \ {0}
    BY Bounds DEF TraceOK
  <2>5. NetOK'
    BY <1>2, <2>3, <2>4, SendKeepsNet DEF SendProbe
  <2> QED
    BY <1>2, <2>1, <2>3, <2>5, GoesType DEF SendProbe, TraceOK
<1>3. CASE TakeReply(t)
  <2>1. NetOK' /\ Taken(t) \in Packet /\ Goes(t, "wait", "probe")
    BY <1>3, SocketKeepsNet, TakenType DEF TakeReply
  <2>2. flag' \in [Traces -> BOOLEAN]
    BY <1>3 DEF TakeReply, TraceOK, First, Final
  <2>3. lines' \in [Traces -> Seq(Packet \cup {Star})]
    BY <1>3, <2>1, LineType DEF TakeReply
  <2> QED
    BY <1>3, <2>1, <2>2, <2>3, GoesType DEF TakeReply, TraceOK
<1>4. CASE NoReply(t)
  <2>1. NetOK' /\ Goes(t, "wait", "probe")
    BY <1>4, SocketKeepsNet DEF NoReply
  <2>2. lines' \in [Traces -> Seq(Packet \cup {Star})]
    BY <1>4, LineType DEF NoReply
  <2> QED
    BY <1>4, <2>1, <2>2, GoesType DEF NoReply, TraceOK
<1>5. CASE NextHop(t)
  <2>1. hop[t] + 1 \in 1 .. MaxHops /\ Goes(t, "probe", "probe")
    BY <1>5, Bounds DEF NextHop, TraceOK
  <2>2. hop' \in [Traces -> 1 .. MaxHops] /\ count' \in [Traces -> 0 .. Each]
    BY <1>5, <2>1, Bounds DEF NextHop, TraceOK
  <2> QED
    BY <1>5, <2>1, <2>2, GoesType DEF NextHop, TraceOK, NetOK, network
<1>6. CASE End(t)
  <2>1. NetOK' /\ Goes(t, "probe", "done")
    BY <1>6, SocketKeepsNet DEF End
  <2> QED
    BY <1>6, <2>1, GoesType DEF End, TraceOK
<1> QED
  BY <1>0, <1>1, <1>2, <1>3, <1>4, <1>5, <1>6 DEF TraceStep

-----------------------------------------------------------------------------
(* TypeOK is an invariant.                                                   *)

LEMMA InitType == Init => TypeOK
<1> SUFFICES ASSUME Init PROVE NetOK /\ PingOK /\ TraceOK
  BY TypeParts
<1>1. NetOK
  BY Bounds, EmptySeq DEF Init, IcmpInit, NetOK
<1>2. PingOK
  BY Bounds DEF Init, PingInit, PingOK, NoReport, NoTimes, Whole, Times, Divided, Reports, Where
<1>3. TraceOK
  BY Bounds, EmptySeq DEF Init, TracerouteInit, TraceOK
<1> QED
  BY <1>1, <1>2, <1>3

LEMMA StepType == TypeOK /\ [Next]_vars => TypeOK'
<1> SUFFICES ASSUME NetOK, PingOK, TraceOK, [Next]_vars PROVE NetOK' /\ PingOK' /\ TraceOK'
  BY DEF TypeOK, NetOK, PingOK, TraceOK
<1>1. CASE PingNext /\ UNCHANGED tracing
  BY <1>1, PingNextType DEF tracing, TraceOK
<1>2. CASE TracerouteNext /\ UNCHANGED pinging
  BY <1>2, TracerouteNextType DEF pinging, PingOK
<1>3. CASE UNCHANGED vars
  BY <1>3 DEF vars, network, pinging, tracing, NetOK, PingOK, TraceOK
<1> QED
  BY <1>1, <1>2, <1>3 DEF Next

\* Every behaviour of Probes is well typed (all programs, all of the network).
THEOREM TypeCorrect == Spec => []TypeOK
<1> QED
  BY InitType, StepType, PTL DEF Spec

-----------------------------------------------------------------------------
(* Where the packets come from: a step only takes them away, copies or       *)
(* damages them, or a program sends a request and they are the answer.       *)

InFlight(x) ==
  \/ x \in air
  \/ \E p \in Programs : \E k \in 1 .. Len(queue[p]) : queue[p][k] = x

\* Packets that differ in whether they are damaged.
Alike(x, o) == x.type = o.type /\ x.from = o.from /\ x.by = o.by /\ x.n = o.n

\* The answer of a host on the way, no farther than the TTL.
IsAnswer(x, p, n, ttl) ==
  /\ x.by = p /\ x.n = n
  /\ \E k \in 1 .. Distance(p) :
       /\ k <= ttl /\ x.from = Path[Target[p]][k]
       /\ x.type = EchoReply => k = Distance(p)

LEMMA SendFlight ==
  ASSUME NetOK, NEW p \in Programs, NEW n \in Nat, NEW c \in Nat, NEW ttl \in Nat \ {0},
         Send(p, n, c, ttl), NEW x \in Packet, InFlight(x)'
  PROVE  InFlight(x) \/ IsAnswer(x, p, n, ttl)
<1> DEFINE last == IF ttl < Distance(p) THEN ttl ELSE Distance(p)
           type == IF ttl < Distance(p) THEN Exceeded ELSE EchoReply
<1>0. Distance(p) \in Nat \ {0}
  BY Way
<1>1. queue' = queue /\ (x \in air' /\ x \in air => InFlight(x))
  BY DEF Send, network, InFlight
<1>2. SUFFICES ASSUME x \in air', x \notin air PROVE IsAnswer(x, p, n, ttl)
  BY <1>1 DEF InFlight
<1>3. last \in 1 .. Distance(p) /\ last <= ttl /\ (type = EchoReply => last = Distance(p))
  BY <1>0 DEF Exceeded, EchoReply
<1>4. ASSUME x = Answer(p, n, c, type, last) PROVE IsAnswer(x, p, n, ttl)
  <2>1. x.by = p /\ x.n = n /\ x.from = Path[Target[p]][last] /\ x.type = type
    BY <1>4 DEF Answer
  <2> QED
    BY <1>3, <2>1 DEF IsAnswer
<1>5. ASSUME NEW k \in 1 .. last, x = Answer(p, n, c, Unreachable, k)
      PROVE  IsAnswer(x, p, n, ttl)
  <2>1. x.by = p /\ x.n = n /\ x.from = Path[Target[p]][k] /\ x.type = Unreachable
    BY <1>5 DEF Answer
  <2>2. k \in 1 .. Distance(p) /\ k <= ttl
    BY <1>0, <1>3
  <2> QED
    BY <2>1, <2>2 DEF IsAnswer, Unreachable, EchoReply
<1> QED
  BY <1>2, <1>4, <1>5 DEF Send, network

LEMMA ArrivesFlight ==
  ASSUME NetOK, NEW pk \in air, NEW again \in BOOLEAN, NEW damaged \in BOOLEAN,
         Arrives(pk, again, damaged), NEW x \in Packet, InFlight(x)'
  PROVE  \E o \in Packet : InFlight(o) /\ Alike(x, o)
<1>0. pk \in Packet /\ InFlight(pk)
  BY DEF NetOK, InFlight
<1>1. CASE x \in air'
  BY <1>1 DEF Arrives, InFlight, Alike
<1>2. ASSUME NEW p \in Programs, NEW k \in 1 .. Len(queue'[p]), queue'[p][k] = x
      PROVE  \E o \in Packet : InFlight(o) /\ Alike(x, o)
  <2> DEFINE new == [pk EXCEPT !.whole = ~damaged]
  <2>1. queue[p] \in Seq(Packet)
    BY DEF NetOK
  <2>2. Alike(new, pk) /\ new \in Packet
    BY <1>0 DEF Alike, Packet
  <2>3. queue'[p] = queue[p] \/ queue'[p] = Append(queue[p], new)
    BY DEF Arrives
  <2> HIDE DEF new
  <2>4. CASE k \in 1 .. Len(queue[p])
    <3>1. queue'[p][k] = queue[p][k]
      BY <2>1, <2>2, <2>3, <2>4, AppendProperties
    <3> QED
      BY <1>2, <2>4, <3>1 DEF InFlight, Alike
  <2>5. CASE k \notin 1 .. Len(queue[p])
    <3>1. queue'[p] = Append(queue[p], new) /\ k = Len(queue[p]) + 1
      BY <2>1, <2>2, <2>3, <2>5, AppendProperties
    <3>2. x = new
      BY <1>2, <2>1, <2>2, <3>1, AppendProperties
    <3> QED
      BY <1>0, <2>2, <3>2
  <2> QED
    BY <2>4, <2>5
<1> QED
  BY <1>1, <1>2 DEF InFlight

LEMMA SocketFlight ==
  ASSUME NetOK, NEW p \in Programs, Open(p) \/ Close(p) \/ Take(p) \/ Nothing(p),
         NEW x, InFlight(x)'
  PROVE  InFlight(x)
<1>1. air' = air
  BY DEF Open, Close, Take, Nothing, network
<1>2. ASSUME NEW q \in Programs, NEW k \in 1 .. Len(queue'[q]), queue'[q][k] = x
      PROVE  InFlight(x)
  <2>1. queue[q] \in Seq(Packet)
    BY DEF NetOK
  <2>2. \/ queue'[q] = queue[q] \/ queue'[q] = <<>>
        \/ queue[q] # <<>> /\ queue'[q] = Tail(queue[q])
    BY DEF Open, Close, Take, Nothing, network, NetOK
  <2>3. CASE queue'[q] = queue[q]
    BY <1>2, <2>3 DEF InFlight
  <2>4. CASE queue'[q] = <<>>
    BY <1>2, <2>4
  <2>5. CASE queue[q] # <<>> /\ queue'[q] = Tail(queue[q])
    <3>1. k + 1 \in 1 .. Len(queue[q]) /\ queue[q][k + 1] = x
      BY <1>2, <2>1, <2>5, HeadTailProperties
    <3> QED
      BY <3>1 DEF InFlight
  <2> QED
    BY <2>2, <2>3, <2>4, <2>5
<1> QED
  BY <1>1, <1>2 DEF InFlight

LEMMA TakenFlew ==
  ASSUME NetOK, NEW p \in Programs, Take(p)
  PROVE  Taken(p) \in Packet /\ InFlight(Taken(p))
<1>1. queue[p] \in Seq(Packet) /\ queue[p] # <<>>
  BY DEF Take, NetOK
<1>2. Taken(p) = queue[p][1] /\ 1 \in 1 .. Len(queue[p])
  BY <1>1, EmptySeq, LenProperties DEF Taken
<1> QED
  BY <1>2, TakenType DEF InFlight

\* What is in flight after a step.
LEMMA Flight ==
  ASSUME TypeOK, [Next]_vars, NEW x \in Packet, InFlight(x)'
  PROVE  \/ \E o \in Packet : InFlight(o) /\ Alike(x, o)
         \/ \E p \in Pings : SendEcho(p) /\ IsAnswer(x, p, icmp_seqno[p], Distance(p))
         \/ \E t \in Traces : SendProbe(t) /\ IsAnswer(x, t, hop[t], hop[t])
<1> NetOK /\ PingOK /\ TraceOK
  BY TypeParts
<1>0. InFlight(x) => \E o \in Packet : InFlight(o) /\ Alike(x, o)
  BY DEF Alike
<1>1. ASSUME UNCHANGED network PROVE InFlight(x)
  BY <1>1 DEF network, InFlight
<1>2. ASSUME NEW p \in Programs, Open(p) \/ Close(p) \/ Take(p) \/ Nothing(p)
      PROVE  InFlight(x)
  BY <1>2, SocketFlight
<1>3. ASSUME NEW pk \in air, Arrive(pk)
      PROVE  \E o \in Packet : InFlight(o) /\ Alike(x, o)
  BY <1>3, ArrivesFlight DEF Arrive
<1>4. ASSUME NEW p \in Pings, SendEcho(p)
      PROVE  InFlight(x) \/ IsAnswer(x, p, icmp_seqno[p], Distance(p))
  <2>1. p \in Programs /\ Distance(p) \in Nat \ {0} /\ icmp_seqno[p] \in Nat
    BY ProgramsAre, Way DEF PingOK
  <2> QED
    BY <1>4, <2>1, SendFlight DEF SendEcho
<1>5. ASSUME NEW t \in Traces, SendProbe(t)
      PROVE  InFlight(x) \/ IsAnswer(x, t, hop[t], hop[t])
  <2>1. t \in Programs /\ hop[t] \in Nat \ {0}
    BY ProgramsAre, Bounds DEF TraceOK
  <2>2. count[t] \in Nat /\ count[t] > 0
    BY <1>5, Bounds DEF SendProbe, TraceOK
  <2>3. count'[t] = count[t] - 1
    BY <1>5 DEF SendProbe, TraceOK
  <2>4. count'[t] \in Nat
    BY <2>2, <2>3
  <2> QED
    BY <1>5, <2>1, <2>4, SendFlight DEF SendProbe
<1>6. ASSUME NEW p \in Pings, Start(p) \/ PingStep(p) \/ Interrupt(p) \/ Quit(p)
      PROVE  \/ UNCHANGED network \/ SendEcho(p)
             \/ Open(p) \/ Close(p) \/ Take(p) \/ Nothing(p)
  BY <1>6, StepsInside DEF Start, PingStep, CountSent, CountReply, EndReply, Computes, CountError,
              PassOver, Damaged, Timeout, Leave, Interrupt, Quit, finish, Exit
<1>7. ASSUME NEW t \in Traces, Launch(t) \/ TraceStep(t)
      PROVE  \/ UNCHANGED network \/ SendProbe(t)
             \/ Open(t) \/ Close(t) \/ Take(t) \/ Nothing(t)
  BY <1>7 DEF Launch, TraceStep, TakeReply, NoReply, NextHop, End
<1>8. CASE PingNext
  <2>1. CASE \E pk \in air : Arrive(pk)
    BY <1>3, <2>1
  <2>2. ASSUME NEW p \in Pings, Start(p) \/ PingStep(p) \/ Interrupt(p) \/ Quit(p)
        PROVE  \/ \E o \in Packet : InFlight(o) /\ Alike(x, o)
               \/ SendEcho(p) /\ IsAnswer(x, p, icmp_seqno[p], Distance(p))
    <3>1. CASE UNCHANGED network
      BY <1>0, <1>1, <3>1
    <3>2. CASE SendEcho(p)
      BY <1>0, <1>4, <3>2
    <3>3. CASE Open(p) \/ Close(p) \/ Take(p) \/ Nothing(p)
      <4>1. p \in Programs
        BY ProgramsAre
      <4>2. InFlight(x)
        BY <1>2, <3>3, <4>1
      <4> QED
        BY <1>0, <4>2
    <3> QED
      BY <1>6, <2>2, <3>1, <3>2, <3>3
  <2> QED
    BY <1>8, <2>1, <2>2 DEF PingNext
<1>9. CASE TracerouteNext
  <2>1. ASSUME NEW t \in Traces, Launch(t) \/ TraceStep(t)
        PROVE  \/ \E o \in Packet : InFlight(o) /\ Alike(x, o)
               \/ SendProbe(t) /\ IsAnswer(x, t, hop[t], hop[t])
    <3>1. CASE UNCHANGED network
      BY <1>0, <1>1, <3>1
    <3>2. CASE SendProbe(t)
      BY <1>0, <1>5, <3>2
    <3>3. CASE Open(t) \/ Close(t) \/ Take(t) \/ Nothing(t)
      <4>1. t \in Programs
        BY ProgramsAre
      <4>2. InFlight(x)
        BY <1>2, <3>3, <4>1
      <4> QED
        BY <1>0, <4>2
    <3> QED
      BY <1>7, <2>1, <3>1, <3>2, <3>3
  <2> QED
    BY <1>9, <2>1 DEF TracerouteNext
<1> QED
  BY <1>0, <1>1, <1>8, <1>9 DEF Next, vars

-----------------------------------------------------------------------------
(* Replies are counted when they are due.                                    *)

Ended(p) == pc[p] \in {"done", "failed"}

\* A request is counted as sent when it is, and its number is used up when the
\* wait for its reply is over.
NumberedAt(p) ==
  icmp_seqno[p] = IF pc[p] \in {"wait"} \cup Counting THEN sent[p] ELSE sent[p] + 1

Numbered == \A p \in Pings : NumberedAt(p)

\* An echo reply comes from the destination, for a request that was sent.
Genuine(x) ==
  x.by \in Pings /\ x.type = EchoReply =>
    /\ x.from = Target[x.by]
    /\ Ended(x.by) \/ x.n <= Out(x.by)

EchoesGenuine == \A x \in Packet : InFlight(x) => Genuine(x)

\* The number waited for has not been counted.
CreditsPast ==
  \A p \in Pings :
    /\ IsFiniteSet(credit[p])
    /\ pc[p] \notin Counting => \A c \in credit[p] : c.seq < icmp_seqno[p]

CreditInv == TypeOK /\ Numbered /\ EchoesGenuine /\ CreditsPast /\ CreditIsDue

\* Only some steps of p, in ping and nowhere else, change what p counts.
LEMMA NumberedStep ==
  ASSUME PingOK, Numbered, PingNext
  PROVE  Numbered'
<1> SUFFICES ASSUME NEW q \in Pings
             PROVE  NumberedAt(q)'
  BY DEF Numbered
<1>0. NumberedAt(q)
  BY DEF Numbered
<1> USE DEF PingOK, NumberedAt
<1>1. ASSUME NEW p \in Pings, Start(p)
      PROVE  NumberedAt(q)'
  BY <1>0, <1>1 DEF Start, Moves, counters, Counting
<1>2. ASSUME NEW p \in Pings, SendEcho(p)
      PROVE  NumberedAt(q)'
  BY <1>0, <1>2 DEF SendEcho, Moves, counters, Counting
<1>11. ASSUME NEW p \in Pings, CountSent(p)
       PROVE  NumberedAt(q)'
  BY <1>0, <1>11 DEF CountSent, Moves, Counting
<1>3. ASSUME NEW p \in Pings, CountReply(p)
      PROVE  NumberedAt(q)'
  BY <1>0, <1>3 DEF CountReply, Moves, Counting
<1>4. ASSUME NEW p \in Pings, EndReply(p)
      PROVE  NumberedAt(q)'
  BY <1>0, <1>4 DEF EndReply, Moves, Counting
<1>12. ASSUME NEW p \in Pings, NEW from, NEW to, Inside(from, to), Computes(p, from, to)
       PROVE  NumberedAt(q)'
  <2>1. (from \in {"wait"} \cup Counting) = (to \in {"wait"} \cup Counting)
    BY <1>12 DEF Inside, Counting, Finishing
  <2> QED
    BY <1>0, <1>12, <2>1 DEF Computes, Moves
<1>5. ASSUME NEW p \in Pings, Done(p), UNCHANGED sent
      PROVE  NumberedAt(q)'
  BY <1>0, <1>5 DEF Done, Moves, Counting
<1>6. ASSUME NEW p \in Pings, PassOver(p), ~Done(p)
      PROVE  NumberedAt(q)'
  BY <1>0, <1>6 DEF PassOver, Moves, Counting
<1>7. ASSUME NEW p \in Pings, NEW from, NEW to \in {"done", "failed"}, Exit(p, from, to)
      PROVE  NumberedAt(q)'
  BY <1>0, <1>7 DEF Exit, Counting
<1>8. ASSUME NEW pk \in air, Arrive(pk)
      PROVE  NumberedAt(q)'
  BY <1>0, <1>8 DEF Arrive, counters
<1>9. ASSUME NEW p \in Pings, PingStep(p)
      PROVE  NumberedAt(q)'
  BY <1>2, <1>3, <1>4, <1>5, <1>6, <1>7, <1>9, <1>11, <1>12, StepsInside
  DEF PingStep, CountError, PassOver, Damaged, Timeout, Leave
<1>10. ASSUME NEW p \in Pings, Interrupt(p) \/ Quit(p)
       PROVE  NumberedAt(q)'
  BY <1>7, <1>10 DEF Interrupt, Quit, finish
<1> QED
  BY <1>1, <1>8, <1>9, <1>10 DEF PingNext

\* Until a ping ends more and more requests are out, and then it stays ended.
SentGrows(q) ==
  (Ended(q) => Ended(q)') /\ (Ended(q)' \/ (sent[q] <= sent[q]' /\ Out(q) <= Out(q)'))

LEMMA SentStep ==
  ASSUME PingOK, PingNext, NEW q \in Pings
  PROVE  SentGrows(q)
<1>0. sent[q] \in Nat
  BY DEF PingOK
<1> USE DEF PingOK, SentGrows, Ended, Out
<1>1. ASSUME NEW p \in Pings, NEW from, NEW to,
             from \notin {"asked", "done", "failed"}, to \notin {"asked", "done", "failed"},
             Moves(p, from, to), UNCHANGED sent
      PROVE  SentGrows(q)
  BY <1>0, <1>1 DEF Moves
<1>2. ASSUME NEW p \in Pings, SendEcho(p) PROVE SentGrows(q)
  <2>1. /\ sent[q]' = sent[q] /\ (Ended(q) => Ended(q)')
        /\ pc'[q] = pc[q] \/ (pc[q] = "send" /\ pc'[q] = "asked")
    BY <1>2 DEF SendEcho, Moves, counters
  <2> QED
    BY <1>0, <2>1
<1>10. ASSUME NEW p \in Pings, CountSent(p) PROVE SentGrows(q)
  <2>1. /\ (Ended(q) => Ended(q)')
        /\ \/ pc'[q] = pc[q] /\ sent[q]' = sent[q]
           \/ pc[q] = "asked" /\ pc'[q] = "wait" /\ sent[q]' = sent[q] + 1
    BY <1>10 DEF CountSent, Moves
  <2> QED
    BY <1>0, <2>1
<1>3. ASSUME NEW p \in Pings, NEW from, NEW to \in {"done", "failed"}, Exit(p, from, to)
      PROVE  SentGrows(q)
  BY <1>0, <1>3 DEF Exit
<1>4. ASSUME NEW pk \in air, Arrive(pk) PROVE SentGrows(q)
  BY <1>0, <1>4 DEF Arrive, counters
<1>5. ASSUME NEW p \in Pings, Start(p) PROVE SentGrows(q)
  BY <1>1, <1>5 DEF Start, counters
<1>6. ASSUME NEW p \in Pings, CountReply(p) \/ EndReply(p) PROVE SentGrows(q)
  BY <1>1, <1>6 DEF CountReply, EndReply
<1>11. ASSUME NEW p \in Pings, AddTimes(p) \/ Finish(p) PROVE SentGrows(q)
  <2>1. PICK from, to : Inside(from, to) /\ Computes(p, from, to)
    BY <1>11, StepsInside
  <2>2. from \notin {"asked", "done", "failed"} /\ to \notin {"asked", "done", "failed"}
    BY <2>1 DEF Inside, Counting, Finishing
  <2> QED
    BY <1>1, <2>1, <2>2 DEF Computes
<1>7. ASSUME NEW p \in Pings, Done(p), UNCHANGED sent PROVE SentGrows(q)
  BY <1>1, <1>7 DEF Done
<1>8. ASSUME NEW p \in Pings, CountError(p) \/ PassOver(p) \/ Damaged(p) \/ Timeout(p)
      PROVE  SentGrows(q)
  BY <1>1, <1>7, <1>8 DEF CountError, PassOver, Damaged, Timeout
<1>9. ASSUME NEW p \in Pings, Leave(p) \/ Interrupt(p) \/ Quit(p) PROVE SentGrows(q)
  BY <1>3, <1>9 DEF Leave, Interrupt, Quit, finish
<1> QED
  BY <1>2, <1>4, <1>5, <1>6, <1>8, <1>9, <1>10, <1>11 DEF PingNext, PingStep

LEMMA SentStepNext ==
  ASSUME TypeOK, [Next]_vars, NEW q \in Pings
  PROVE  SentGrows(q)
<1> PingOK /\ sent[q] \in Nat
  BY TypeParts DEF PingOK
<1>1. ASSUME UNCHANGED pinging PROVE SentGrows(q)
  BY <1>1 DEF pinging, SentGrows, Ended, Out
<1> QED
  BY <1>1, SentStep DEF Next, vars

LEMMA EchoesStep ==
  ASSUME TypeOK, Numbered, EchoesGenuine, [Next]_vars
  PROVE  EchoesGenuine'
<1> PingOK
  BY TypeParts
<1> SUFFICES ASSUME NEW x \in Packet, InFlight(x)',
                    x.by \in Pings, x.type = EchoReply
             PROVE  x.from = Target[x.by] /\ (Ended(x.by)' \/ x.n <= Out(x.by)')
  BY DEF EchoesGenuine, Genuine
<1>0. SentGrows(x.by) /\ Out(x.by) \in Nat /\ x.n \in Nat
  BY SentStepNext DEF Packet, PingOK, Out
<1>1. CASE \E o \in Packet : InFlight(o) /\ Alike(x, o)
  <2>1. x.from = Target[x.by] /\ (Ended(x.by) \/ x.n <= Out(x.by))
    BY <1>1 DEF EchoesGenuine, Genuine, Alike
  <2>2. TypeOK'
    BY StepType
  <2>3. Out(x.by)' \in Nat
    BY <2>2 DEF TypeOK, Out
  <2> QED
    BY <1>0, <2>1, <2>3 DEF SentGrows
<1>2. ASSUME NEW p \in Pings, SendEcho(p), IsAnswer(x, p, icmp_seqno[p], Distance(p))
      PROVE  x.from = Target[x.by] /\ x.n <= Out(x.by)'
  <2>1. x.by = p /\ x.n = icmp_seqno[p] /\ x.from = Path[Target[p]][Distance(p)]
    BY <1>2 DEF IsAnswer
  <2>2. Path[Target[p]][Distance(p)] = Target[p]
    BY ProgramsAre, Way
  <2>3. pc'[p] = "asked" /\ sent'[p] = sent[p] /\ icmp_seqno[p] = sent[p] + 1
    BY <1>2 DEF SendEcho, Moves, counters, Numbered, NumberedAt, PingOK, Counting
  <2> QED
    BY <1>0, <2>1, <2>2, <2>3 DEF Out
<1>3. ASSUME NEW t \in Traces, IsAnswer(x, t, hop[t], hop[t]) PROVE FALSE
  BY <1>3, IcmpConstants DEF IsAnswer
<1> QED
  BY <1>1, <1>2, <1>3, Flight

-----------------------------------------------------------------------------
\* What is counted for p, as CreditsPast and CreditIsDue have it.
Due(p, c) ==
  LET q == c.reply.by
  IN  /\ q \in Pings
      /\ c.reply.n = c.seq
      /\ c.reply.from = Target[q]
      /\ c.seq <= sent[p]
      /\ Ended(q) \/ c.seq <= Out(q)

CreditAt(p) ==
  /\ IsFiniteSet(credit[p])
  /\ Cardinality(credit[p]) = received[p]
  /\ pc[p] \notin Counting => \A c \in credit[p] : c.seq < icmp_seqno[p]
  /\ \A c, d \in credit[p] : c.seq = d.seq => c = d
  /\ \A c \in credit[p] : Due(p, c)

LEMMA CreditParts == CreditsPast /\ CreditIsDue <=> \A p \in Pings : CreditAt(p)
  BY DEF CreditsPast, CreditIsDue, CreditAt, Due, Ended

\* A ping that counts nothing in a step keeps its credit.
LEMMA CreditKept ==
  ASSUME TypeOK, [Next]_vars, NEW p \in Pings, CreditAt(p),
         credit'[p] = credit[p], received'[p] = received[p],
         sent[p] <= sent'[p],
         pc'[p] \notin Counting => \A c \in credit[p] : c.seq < icmp_seqno'[p]
  PROVE  CreditAt(p)'
<1> PingOK
  BY TypeParts
<1> PingOK'
  BY StepType, TypeParts DEF TypeOK, PingOK
<1>1. ASSUME NEW c \in credit[p] PROVE Due(p, c)'
  <2>1. c.reply.by \in Pings /\ c.seq \in Nat
    BY <1>1 DEF CreditAt, Due, PingOK
  <2>2. SentGrows(c.reply.by)
    BY <2>1, SentStepNext
  <2>3. /\ sent[p] \in Nat /\ sent'[p] \in Nat
        /\ Out(c.reply.by) \in Nat /\ Out(c.reply.by)' \in Nat
    BY <2>1 DEF PingOK, Out
  <2>4. Due(p, c)
    BY <1>1 DEF CreditAt
  <2> QED
    BY <2>1, <2>2, <2>3, <2>4 DEF Due, SentGrows
<1> QED
  BY <1>1 DEF CreditAt

\* A ping that counts a reply counts one that is due, and not twice.
LEMMA CreditCounted ==
  ASSUME TypeOK, [Next]_vars, Numbered, EchoesGenuine,
         NEW p \in Pings, CountReply(p), CreditAt(p)
  PROVE  CreditAt(p)'
<1> PICK pk : pk = Taken(p)
  OBVIOUS
<1> PICK new : new = [seq |-> icmp_seqno[p], reply |-> pk]
  OBVIOUS
<1> PingOK /\ NetOK
  BY TypeParts
<1>1. /\ credit'[p] = credit[p] \cup {new} /\ received'[p] = received[p] + 1
      /\ pc[p] = "wait" /\ pc'[p] = "counted" /\ UNCHANGED sent
      /\ \A q \in Pings : Out(q)' = Out(q)
  BY DEF CountReply, Moves, PingOK, Out
<1>2. /\ icmp_seqno[p] = sent[p] /\ sent[p] \in Nat
      /\ \A c \in credit[p] : c.seq \in Nat /\ c.seq < icmp_seqno[p]
  BY <1>1 DEF Numbered, NumberedAt, CreditAt, PingOK, Counting
<1>3. pk \in Packet /\ InFlight(pk) /\ checkValidity(p, pk)
  BY ProgramsAre, TakenFlew DEF CountReply
<1>4. Due(p, new)'
  <2>1. Genuine(pk) /\ pk.by \in Pings /\ pk.n = icmp_seqno[p]
    BY <1>3 DEF EchoesGenuine, checkValidity
  <2>2. pk.from = Target[pk.by] /\ (Ended(pk.by) \/ pk.n <= Out(pk.by))
    BY <1>3, <2>1 DEF Genuine, checkValidity
  <2>3. Ended(pk.by) => Ended(pk.by)'
    BY <2>1, SentStepNext DEF SentGrows
  <2>4. new.seq = icmp_seqno[p] /\ new.reply = pk
    OBVIOUS
  <2>5. sent'[p] = sent[p] /\ Out(pk.by)' = Out(pk.by)
    BY <1>1, <2>1
  <2> QED
    BY <1>2, <2>1, <2>2, <2>3, <2>4, <2>5 DEF Due
<1>5. ASSUME NEW c \in credit[p] PROVE Due(p, c)'
  <2>1. Due(p, c)
    BY <1>5 DEF CreditAt
  <2>2. Ended(c.reply.by) => Ended(c.reply.by)'
    BY <2>1, SentStepNext DEF SentGrows, Due
  <2> QED
    BY <1>1, <2>1, <2>2 DEF Due
<1>6. new \notin credit[p] /\ \A c \in credit[p] : c.seq # new.seq
  BY <1>2
<1>7. IsFiniteSet(credit'[p]) /\ Cardinality(credit'[p]) = received'[p]
  <2>1. IsFiniteSet(credit[p]) /\ Cardinality(credit[p]) = received[p]
    BY DEF CreditAt
  <2>2. /\ IsFiniteSet(credit[p] \cup {new})
        /\ Cardinality(credit[p] \cup {new}) = Cardinality(credit[p]) + 1
    BY <1>6, <2>1, FS_AddElement
  <2> QED
    BY <1>1, <2>1, <2>2
<1>8. \A c, d \in credit'[p] : c.seq = d.seq => c = d
  BY <1>1, <1>6 DEF CreditAt
<1>9. \A c \in credit'[p] : Due(p, c)'
  <2> TAKE c \in credit'[p]
  <2>1. c \in credit[p] \/ c = new
    BY <1>1
  <2> QED
    BY <1>4, <1>5, <2>1
<1> QED
  BY <1>1, <1>7, <1>8, <1>9 DEF CreditAt, Counting

\* What p counts is left alone, but for a request sent or a number used up.
Keeps(p) ==
  /\ credit'[p] = credit[p] /\ received'[p] = received[p]
  /\ sent[p] <= sent'[p]
  /\ pc'[p] \notin Counting => \A c \in credit[p] : c.seq < icmp_seqno'[p]

LEMMA StepKeeps ==
  ASSUME TypeOK, Numbered, NEW p \in Pings, NEW q \in Pings, CreditAt(q),
         \/ Start(p) \/ SendEcho(p) \/ CountSent(p) \/ AddTimes(p) \/ EndReply(p)
         \/ CountError(p) \/ PassOver(p) \/ Damaged(p) \/ Timeout(p) \/ Finish(p)
         \/ p # q /\ (CountReply(p) \/ Leave(p) \/ Interrupt(p) \/ Quit(p))
  PROVE  Keeps(q)
<1> PingOK
  BY TypeParts
<1>0. /\ sent[q] \in Nat /\ icmp_seqno[q] \in Nat /\ icmp_seqno[q] >= sent[q]
      /\ \A c \in credit[q] : c.seq \in Nat /\ c.seq <= sent[q]
      /\ pc[q] \notin Counting => \A c \in credit[q] : c.seq < icmp_seqno[q]
  <2>1. sent[q] \in Nat /\ icmp_seqno[q] \in Nat /\ credit[q] \in SUBSET [seq : Nat, reply : Packet]
    BY DEF PingOK
  <2>2. icmp_seqno[q] >= sent[q]
    BY <2>1 DEF Numbered, NumberedAt
  <2> QED
    BY <2>1, <2>2 DEF CreditAt, Due
<1> USE DEF PingOK
<1>1. /\ p # q => /\ credit'[q] = credit[q] /\ received'[q] = received[q]
                  /\ sent'[q] = sent[q] /\ icmp_seqno'[q] = icmp_seqno[q]
                  /\ pc'[q] = pc[q]
  BY StepsInside
  DEF Start, SendEcho, CountSent, Computes, EndReply, CountError, PassOver, Damaged, Timeout,
      CountReply, Leave, Interrupt, Quit, finish, Exit, Done, Moves, counters
<1>2. CASE p # q
  BY <1>0, <1>1, <1>2 DEF Keeps
<1>3. CASE p = q /\ Start(p)
  BY <1>0, <1>3 DEF Keeps, Start, Moves, counters, Counting
<1>4. CASE p = q /\ SendEcho(p)
  BY <1>0, <1>4 DEF Keeps, SendEcho, Moves, counters, Counting
<1>10. CASE p = q /\ CountSent(p)
  <2>1. /\ credit'[q] = credit[q] /\ received'[q] = received[q] /\ sent'[q] = sent[q] + 1
        /\ icmp_seqno'[q] = icmp_seqno[q] /\ pc[q] = "asked"
    BY <1>10 DEF CountSent, Moves
  <2> QED
    BY <1>0, <2>1 DEF Keeps, Counting
<1>11. CASE p = q /\ (AddTimes(p) \/ Finish(p))
  <2>1. PICK from, to : Inside(from, to) /\ Computes(p, from, to)
    BY <1>11, StepsInside
  <2>2. /\ credit'[q] = credit[q] /\ received'[q] = received[q] /\ sent'[q] = sent[q]
        /\ icmp_seqno'[q] = icmp_seqno[q] /\ pc[q] = from /\ pc'[q] = to
    BY <1>11, <2>1 DEF Computes, Moves
  <2>3. to \notin Counting => from \notin Counting
    BY <2>1 DEF Inside, Counting, Finishing
  <2> QED
    BY <1>0, <2>2, <2>3 DEF Keeps
<1>5. CASE p = q /\ EndReply(p)
  <2>1. /\ credit'[q] = credit[q] /\ received'[q] = received[q] /\ sent'[q] = sent[q]
        /\ icmp_seqno'[q] = icmp_seqno[q] + 1
    BY <1>5 DEF EndReply
  <2>2. \A c \in credit[q] : c.seq < icmp_seqno[q] + 1
    BY <1>0
  <2> QED
    BY <1>0, <2>1, <2>2 DEF Keeps
<1>6. CASE p = q /\ Done(p) /\ UNCHANGED <<sent, received, credit>>
  <2>1. pc[q] = "wait" /\ icmp_seqno'[q] = icmp_seqno[q] + 1
    BY <1>6 DEF Done, Moves
  <2>2. \A c \in credit[q] : c.seq < icmp_seqno[q] + 1
    BY <1>0
  <2> QED
    BY <1>0, <1>6, <2>1, <2>2 DEF Keeps
<1>7. CASE p = q /\ PassOver(p) /\ ~Done(p)
  BY <1>0, <1>7 DEF Keeps, PassOver, Moves, Counting
<1>8. Done(p) /\ (CountError(p) \/ PassOver(p) \/ Damaged(p) \/ Timeout(p))
        => UNCHANGED <<sent, received, credit>>
  BY DEF CountError, PassOver, Damaged, Timeout
<1>9. CountError(p) \/ Damaged(p) \/ Timeout(p) => Done(p)
  BY DEF CountError, Damaged, Timeout
<1> QED
  BY <1>2, <1>3, <1>4, <1>5, <1>6, <1>7, <1>8, <1>9, <1>10, <1>11

LEMMA CreditEmpty ==
  ASSUME TypeOK, NEW p \in Pings, NEW from, NEW to, Exit(p, from, to)
  PROVE  CreditAt(p)'
<1> PingOK
  BY TypeParts
<1>1. credit'[p] = {} /\ received'[p] = 0
  BY DEF Exit, PingOK
<1>2. IsFiniteSet(credit'[p]) /\ Cardinality(credit'[p]) = received'[p]
  BY <1>1, FS_EmptySet
<1> QED
  BY <1>1, <1>2 DEF CreditAt

LEMMA CreditStep ==
  ASSUME TypeOK, Numbered, EchoesGenuine, [Next]_vars, NEW q \in Pings, CreditAt(q)
  PROVE  CreditAt(q)'
<1> PingOK
  BY TypeParts
<1>1. Keeps(q) => CreditAt(q)'
  BY CreditKept DEF Keeps
<1>2. ASSUME UNCHANGED <<pc, counters>> PROVE Keeps(q)
  BY <1>2, Bounds DEF Keeps, counters, CreditAt, PingOK
<1>3. ASSUME NEW p \in Pings,
             Start(p) \/ PingStep(p) \/ Interrupt(p) \/ Quit(p)
      PROVE  CreditAt(q)'
  <2>1. CASE p = q /\ CountReply(p)
    BY <2>1, CreditCounted
  <2>2. CASE p = q /\ (Leave(p) \/ Interrupt(p) \/ Quit(p))
    BY <2>2, CreditEmpty DEF Leave, Interrupt, Quit, finish
  <2>3. CASE ~(p = q /\ (CountReply(p) \/ Leave(p) \/ Interrupt(p) \/ Quit(p)))
    <3>1. Keeps(q)
      BY <1>3, <2>3, StepKeeps DEF PingStep
    <3> QED
      BY <1>1, <3>1
  <2> QED
    BY <2>1, <2>2, <2>3
<1>4. ASSUME NEW pk \in air, Arrive(pk) PROVE CreditAt(q)'
  BY <1>1, <1>2, <1>4 DEF Arrive
<1>5. ASSUME UNCHANGED pinging PROVE CreditAt(q)'
  BY <1>1, <1>2, <1>5 DEF pinging, counters
<1>6. PingNext => CreditAt(q)'
  BY <1>3, <1>4 DEF PingNext
<1> QED
  BY <1>5, <1>6 DEF Next, vars

LEMMA CreditInvInit == Init => CreditInv
<1> SUFFICES ASSUME Init PROVE CreditInv
  OBVIOUS
<1>1. Numbered
  BY DEF Init, PingInit, Numbered, NumberedAt, Counting
<1>2. EchoesGenuine
  <2>1. \A p \in Programs : Len(queue[p]) = 0
    BY EmptySeq DEF Init, IcmpInit
  <2>2. \A x \in Packet : ~InFlight(x)
    BY <2>1 DEF Init, IcmpInit, InFlight
  <2> QED
    BY <2>2 DEF EchoesGenuine
<1>3. ASSUME NEW p \in Pings PROVE CreditAt(p)
  <2>1. credit[p] = {} /\ received[p] = 0
    BY DEF Init, PingInit
  <2> QED
    BY <2>1, FS_EmptySet DEF CreditAt
<1> QED
  BY <1>1, <1>2, <1>3, InitType, CreditParts DEF CreditInv

LEMMA CreditInvStep == CreditInv /\ [Next]_vars => CreditInv'
<1> SUFFICES ASSUME CreditInv, [Next]_vars PROVE CreditInv'
  OBVIOUS
<1> PingOK /\ TypeOK /\ Numbered /\ EchoesGenuine
  BY TypeParts DEF CreditInv
<1>1. Numbered'
  <2>1. UNCHANGED pinging => Numbered'
    BY DEF pinging, Numbered, NumberedAt
  <2> QED
    BY <2>1, NumberedStep DEF Next, vars
<1>2. \A p \in Pings : CreditAt(p)'
  BY CreditParts, CreditStep DEF CreditInv
<1>3. CreditsPast' /\ CreditIsDue'
  BY <1>2 DEF CreditsPast, CreditIsDue, CreditAt, Due, Ended, Out
<1> QED
  BY <1>1, <1>3, StepType, EchoesStep DEF CreditInv

\* Each reply that a ping counts answers a request of its own, however many
\* pings share the identifier, the network doubles or delays packets, and
\* signals end pings (checkValidity and the counters of ping).
THEOREM RepliesAreDue == Spec => []CreditIsDue
<1>1. CreditInv => CreditIsDue
  BY DEF CreditInv
<1> QED
  BY <1>1, CreditInvInit, CreditInvStep, PTL DEF Spec

-----------------------------------------------------------------------------
(* The lines of a trace.                                                     *)

\* The first probe of the hop has not been answered yet.
NewHop(t) == count[t] = Each \/ (at[t] = "wait" /\ First(t))

\* A line for each hop, the one at hand included once its first probe is over;
\* the flag is raised by the last line.
KeptAt(t) ==
  /\ at[t] = "wait" => count[t] < Each
  /\ Len(lines[t]) = IF NewHop(t) THEN hop[t] - 1 ELSE hop[t]
  /\ flag[t] => ~NewHop(t)

LinesKept == \A t \in Traces : KeptAt(t)

\* An answer comes from a host on the way, no farther than the hop it was asked
\* for, and from the destination only when that hop reaches it.
OnTheWay(x, t) ==
  \E k \in 1 .. x.n :
    /\ k <= Distance(t) /\ x.from = Path[Target[t]][k]
    /\ x.type = EchoReply \/ x.from = Target[t] => k = Distance(t)

HopGenuine(x) == x.by \in Traces => x.n <= hop[x.by] /\ OnTheWay(x, x.by)

AnswersGenuine == \A x \in Packet : InFlight(x) => HopGenuine(x)

\* What a line says.
LineFair(t, h) ==
  LET x == lines[t][h]
  IN  /\ x.by = t => x.n <= h /\ OnTheWay(x, t)
      /\ x.from = Target[t] => h = Len(lines[t]) /\ flag[t]
      /\ flag[t] /\ h = Len(lines[t]) =>
           \/ x.by \in Programs \ {t}
           \/ hop[t] >= Distance(t)

FairAt(t) == \A h \in 1 .. Len(lines[t]) : LineFair(t, h)

LinesFair == \A t \in Traces : FairAt(t)

LineInv == TypeOK /\ LinesKept /\ AnswersGenuine /\ LinesFair

LEMMA LineInvImplies == LineInv => LinesNotAhead /\ EndsForCause
<1> SUFFICES ASSUME LineInv, NEW t \in Traces, NEW h \in 1 .. Len(lines[t])
             PROVE  /\ lines[t][h].by = t =>
                         /\ lines[t][h].n <= h
                         /\ \E k \in 1 .. h : k <= Distance(t)
                                              /\ lines[t][h].from = Path[Target[t]][k]
                    /\ h # Len(lines[t]) => lines[t][h].from # Target[t]
                    /\ flag[t] /\ hop[t] < Distance(t) =>
                         hop[t] = Len(lines[t])
                    /\ flag[t] /\ hop[t] < Distance(t) /\ h = Len(lines[t]) =>
                         lines[t][h].by \in Programs \ {t}
  <2>1. ASSUME NEW u \in Traces, flag[u], hop[u] < Distance(u), LineInv
        PROVE  hop[u] \in 1 .. Len(lines[u])
    BY <2>1, Bounds DEF LineInv, LinesKept, KeptAt, TypeOK
  <2>2. \A u \in Traces : Len(lines[u]) \in Nat
    BY DEF LineInv, TypeOK
  <2> QED
    BY <2>1, <2>2 DEF LinesNotAhead, EndsForCause, LineInv
<1>0. /\ hop[t] \in Nat /\ Distance(t) \in Nat /\ Len(lines[t]) \in Nat
      /\ lines[t][h] \in Packet \cup {Star}
  <2>1. lines[t] \in Seq(Packet \cup {Star}) /\ hop[t] \in Nat
    BY Bounds DEF LineInv, TypeOK
  <2> QED
    BY <2>1, ElementOfSeq, LenProperties, ProgramsAre, Way
<1>1. LineFair(t, h)
  BY DEF LineInv, LinesFair, FairAt
<1>2. flag[t] => hop[t] = Len(lines[t])
  BY DEF LineInv, LinesKept, KeptAt
<1>3. lines[t][h].n \in Nat
  BY <1>0 DEF Packet, Star
<1>4. ASSUME lines[t][h].by = t
      PROVE  /\ lines[t][h].n <= h
             /\ \E k \in 1 .. h : k <= Distance(t) /\ lines[t][h].from = Path[Target[t]][k]
  <2>1. PICK k \in 1 .. lines[t][h].n :
          k <= Distance(t) /\ lines[t][h].from = Path[Target[t]][k]
    BY <1>1, <1>4 DEF LineFair, OnTheWay
  <2>2. lines[t][h].n <= h
    BY <1>1, <1>4 DEF LineFair
  <2>3. k \in 1 .. h
    BY <1>3, <2>2
  <2> QED
    BY <2>1, <2>2, <2>3
<1>5. h # Len(lines[t]) => lines[t][h].from # Target[t]
  BY <1>1 DEF LineFair
<1>6. flag[t] /\ hop[t] < Distance(t) /\ h = Len(lines[t]) =>
        lines[t][h].by \in Programs \ {t}
  BY <1>0, <1>1 DEF LineFair
<1> QED
  BY <1>2, <1>4, <1>5, <1>6
LEMMA LineInvInit == Init => LineInv
<1> SUFFICES ASSUME Init PROVE LineInv
  OBVIOUS
<1>1. ASSUME NEW t \in Traces PROVE KeptAt(t) /\ FairAt(t)
  <2>1. /\ at[t] = "off" /\ count[t] = Each /\ hop[t] = 1 /\ flag[t] = FALSE
        /\ lines[t] = <<>> /\ Len(lines[t]) = 0
    BY <1>1, EmptySeq DEF Init, TracerouteInit
  <2> QED
    BY <2>1 DEF KeptAt, NewHop, FairAt
<1>2. AnswersGenuine
  <2>1. \A p \in Programs : Len(queue[p]) = 0
    BY EmptySeq DEF Init, IcmpInit
  <2>2. \A x \in Packet : ~InFlight(x)
    BY <2>1 DEF Init, IcmpInit, InFlight
  <2> QED
    BY <2>2 DEF AnswersGenuine
<1> QED
  BY <1>1, <1>2, InitType DEF LineInv, LinesKept, LinesFair

\* A trace never goes back to a nearer hop.
LEMMA HopGrows ==
  ASSUME TypeOK, [Next]_vars, NEW t \in Traces
  PROVE  hop[t] \in Nat /\ hop'[t] \in Nat /\ hop[t] <= hop'[t]
<1>0. hop[t] \in Nat
  BY Bounds DEF TypeOK
<1>1. CASE UNCHANGED tracing
  BY <1>0, <1>1 DEF tracing
<1>2. CASE TracerouteNext
  <2>1. PICK u \in Traces : Launch(u) \/ TraceStep(u)
    BY <1>2 DEF TracerouteNext
  <2>2. hop' = hop \/ hop' = [hop EXCEPT ![u] = @ + 1]
    BY <2>1 DEF Launch, TraceStep, SendProbe, TakeReply, NoReply, NextHop, End
  <2>3. hop \in [Traces -> 1 .. MaxHops]
    BY DEF TypeOK
  <2>4. hop'[t] = hop[t] \/ hop'[t] = hop[t] + 1
    BY <2>2, <2>3
  <2> QED
    BY <1>0, <2>4
<1> QED
  BY <1>1, <1>2 DEF Next, vars

LEMMA AnswersStep ==
  ASSUME TypeOK, AnswersGenuine, [Next]_vars
  PROVE  AnswersGenuine'
<1> SUFFICES ASSUME NEW x \in Packet, InFlight(x)', x.by \in Traces
             PROVE  x.n <= hop'[x.by] /\ OnTheWay(x, x.by)
  BY DEF AnswersGenuine, HopGenuine, OnTheWay, Distance
<1>0. /\ hop[x.by] \in Nat /\ hop'[x.by] \in Nat /\ hop[x.by] <= hop'[x.by]
      /\ x.n \in Nat /\ x.by \in Programs
  BY HopGrows, ProgramsAre DEF Packet
<1>1. CASE \E o \in Packet : InFlight(o) /\ Alike(x, o)
  <2>1. PICK o \in Packet : InFlight(o) /\ Alike(x, o)
    BY <1>1
  <2>2. HopGenuine(o)
    BY <2>1 DEF AnswersGenuine
  <2>3. x.n <= hop[x.by] /\ OnTheWay(x, x.by)
    BY <2>1, <2>2 DEF Alike, HopGenuine, OnTheWay
  <2> QED
    BY <1>0, <2>3
<1>2. ASSUME NEW p \in Pings, IsAnswer(x, p, icmp_seqno[p], Distance(p)) PROVE FALSE
  BY <1>2, IcmpConstants DEF IsAnswer
<1>3. ASSUME NEW t \in Traces, IsAnswer(x, t, hop[t], hop[t])
      PROVE  x.n <= hop[x.by] /\ OnTheWay(x, x.by)
  <2>1. x.by = t /\ x.n = hop[t]
    BY <1>3 DEF IsAnswer
  <2>2. PICK k \in 1 .. Distance(t) :
          /\ k <= hop[t] /\ x.from = Path[Target[t]][k]
          /\ x.type = EchoReply => k = Distance(t)
    BY <1>3 DEF IsAnswer
  <2>3. Distance(t) \in Nat /\ (x.from = Target[t] => k = Distance(t))
    BY <2>2, ProgramsAre, Way
  <2>4. k \in 1 .. x.n /\ k <= Distance(t)
    BY <1>0, <2>1, <2>2, <2>3
  <2>5. OnTheWay(x, t)
    BY <2>2, <2>3, <2>4 DEF OnTheWay
  <2> QED
    BY <1>0, <2>1, <2>5
<1>4. (\E o \in Packet : InFlight(o) /\ Alike(x, o)) \/ (x.n <= hop[x.by] /\ OnTheWay(x, x.by))
  BY <1>2, <1>3, Flight
<1> QED
  BY <1>0, <1>1, <1>4

\* A trace to which a step adds no line.
LEMMA FairKept ==
  ASSUME TypeOK, NEW t \in Traces, FairAt(t),
         lines'[t] = lines[t], flag'[t] = flag[t],
         hop[t] <= hop'[t], hop'[t] \in Nat
  PROVE  FairAt(t)'
<1> SUFFICES ASSUME NEW h \in 1 .. Len(lines[t])
             PROVE  LineFair(t, h)'
  BY DEF FairAt
<1>1. LineFair(t, h)
  BY DEF FairAt
<1>2. hop[t] \in Nat /\ Distance(t) \in Nat
  BY Bounds, ProgramsAre, Way DEF TypeOK
<1> QED
  BY <1>1, <1>2 DEF LineFair, OnTheWay, Distance

\* A trace to which a step adds the line of its hop.
LEMMA FairAdded ==
  ASSUME TypeOK, NEW t \in Traces, KeptAt(t), FairAt(t), NewHop(t),
         NEW said \in Packet \cup {Star},
         lines'[t] = Append(lines[t], said), hop'[t] = hop[t],
         said.by = t => said.n <= hop[t] /\ OnTheWay(said, t),
         said.from = Target[t] => flag'[t],
         flag'[t] => said.by \in Programs \ {t} \/ hop[t] >= Distance(t)
  PROVE  FairAt(t)'
<1>0. lines[t] \in Seq(Packet \cup {Star}) /\ hop[t] \in Nat
  BY Bounds DEF TypeOK
<1>1. Len(lines[t]) \in Nat /\ Len(lines[t]) = hop[t] - 1 /\ ~flag[t]
  BY <1>0, LenProperties DEF KeptAt
<1>2. /\ Len(lines'[t]) = Len(lines[t]) + 1
      /\ \A h \in 1 .. Len(lines[t]) : lines'[t][h] = lines[t][h]
      /\ lines'[t][Len(lines[t]) + 1] = said
  BY <1>0, AppendProperties
<1>3. ASSUME NEW h \in 1 .. Len(lines[t]) PROVE LineFair(t, h)'
  <2>1. LineFair(t, h)
    BY <1>3 DEF FairAt
  <2>2. lines'[t][h] = lines[t][h] /\ h # Len(lines'[t])
    BY <1>1, <1>2
  <2> QED
    BY <1>1, <2>1, <2>2 DEF LineFair, OnTheWay, Distance
<1>4. ASSUME NEW h, h = Len(lines[t]) + 1 PROVE LineFair(t, h)'
  <2>1. lines'[t][h] = said /\ h = Len(lines'[t]) /\ h = hop[t]
    BY <1>0, <1>1, <1>2, <1>4
  <2> QED
    BY <2>1 DEF LineFair, OnTheWay, Distance
<1>5. \A h \in 1 .. Len(lines'[t]) : h \in 1 .. Len(lines[t]) \/ h = Len(lines[t]) + 1
  BY <1>1, <1>2
<1> QED
  BY <1>3, <1>4, <1>5 DEF FairAt

\* What a step of one trace leaves alone of another.
LEMMA OtherTrace ==
  ASSUME TraceOK, NEW u \in Traces, NEW t \in Traces \ {u}, Launch(u) \/ TraceStep(u)
  PROVE  /\ at'[t] = at[t] /\ hop'[t] = hop[t] /\ count'[t] = count[t]
         /\ flag'[t] = flag[t] /\ lines'[t] = lines[t]
  BY DEF TraceOK, Launch, TraceStep, SendProbe, TakeReply, NoReply, NextHop, End, Goes, Line

\* The first probe of a hop is over, with or without an answer.
LEMMA LineMade ==
  ASSUME TypeOK, AnswersGenuine, NEW t \in Traces, KeptAt(t), FairAt(t), First(t),
         TakeReply(t) \/ NoReply(t)
  PROVE  FairAt(t)' /\ Len(lines'[t]) = hop[t]
<1> NetOK /\ TraceOK
  BY TypeParts
<1>1. at[t] = "wait" /\ NewHop(t) /\ hop'[t] = hop[t]
  BY DEF TakeReply, NoReply, Goes, NewHop
<1>2. ~flag[t] /\ Len(lines[t]) = hop[t] - 1 /\ hop[t] \in Nat
  BY <1>1, Bounds DEF KeptAt, TraceOK
<1>3. ASSUME NEW said \in Packet \cup {Star}, lines'[t] = Append(lines[t], said)
      PROVE  Len(lines'[t]) = hop[t]
  BY <1>2, <1>3, AppendProperties DEF TraceOK
<1>4. CASE TakeReply(t)
  <2> PICK pk : pk = Taken(t)
    OBVIOUS
  <2>1. pk \in Packet /\ InFlight(pk)
    BY <1>4, ProgramsAre, TakenFlew DEF TakeReply
  <2>2. HopGenuine(pk) /\ pk.by \in Programs
    BY <2>1 DEF AnswersGenuine, Packet
  <2>3. lines'[t] = Append(lines[t], pk)
    BY <1>4 DEF TakeReply, Line, TraceOK
  <2>4. flag'[t] = (pk.type = EchoReply \/ pk.from = Target[t])
    BY <1>2, <1>4 DEF TakeReply, TraceOK, Final
  <2>5. ASSUME pk.by = t PROVE pk.n <= hop[t] /\ OnTheWay(pk, t)
    BY <2>2, <2>5 DEF HopGenuine
  <2>6. ASSUME flag'[t], pk.by = t PROVE hop[t] >= Distance(t)
    <3>1. PICK k \in 1 .. pk.n : k <= Distance(t) /\ k = Distance(t)
      BY <2>4, <2>5, <2>6 DEF OnTheWay
    <3>2. pk.n \in Nat /\ Distance(t) \in Nat
      BY <2>1, ProgramsAre, Way DEF Packet
    <3> QED
      BY <1>2, <2>5, <2>6, <3>1, <3>2
  <2>7. FairAt(t)'
    BY <1>1, <2>1, <2>2, <2>3, <2>4, <2>5, <2>6, FairAdded
  <2> QED
    BY <1>3, <2>1, <2>3, <2>7
<1>5. CASE NoReply(t)
  <2>1. Star.by # t /\ Star.from # Target[t]
    BY ProgramsAre, Way, TracerouteConstants DEF Star
  <2>2. lines'[t] = Append(lines[t], Star) /\ flag'[t] = flag[t]
    BY <1>5 DEF NoReply, Line, TraceOK
  <2>3. FairAt(t)'
    BY <1>1, <1>2, <2>1, <2>2, FairAdded
  <2> QED
    BY <1>3, <2>2, <2>3
<1> QED
  BY <1>4, <1>5

LEMMA TraceStepKeeps ==
  ASSUME TypeOK, AnswersGenuine, NEW t \in Traces, KeptAt(t), FairAt(t),
         Launch(t) \/ TraceStep(t)
  PROVE  KeptAt(t)' /\ FairAt(t)'
<1> TraceOK
  BY TypeParts
<1>0. /\ count[t] \in 0 .. Each /\ Each \in Nat \ {0} /\ hop[t] \in Nat
      /\ Len(lines[t]) \in Nat
  BY Bounds, LenProperties DEF TraceOK
<1>1. ASSUME UNCHANGED <<hop, flag, lines>> PROVE FairAt(t)'
  BY <1>0, <1>1, FairKept
<1>2. CASE Launch(t)
  <2>1. at[t] = "off" /\ at'[t] = "probe" /\ UNCHANGED <<hop, count, flag, lines>>
    BY <1>2 DEF Launch, Goes, TraceOK
  <2> QED
    BY <1>1, <2>1 DEF KeptAt, NewHop
<1>3. CASE SendProbe(t)
  <2>1. /\ at[t] = "probe" /\ at'[t] = "wait" /\ UNCHANGED <<hop, flag, lines>>
        /\ count[t] > 0 /\ count'[t] = count[t] - 1
    BY <1>3 DEF SendProbe, Goes, TraceOK
  <2>2. NewHop(t)' <=> NewHop(t)
    BY <1>0, <2>1 DEF NewHop, First
  <2> QED
    BY <1>0, <1>1, <2>1, <2>2 DEF KeptAt
<1>4. CASE TakeReply(t) \/ NoReply(t)
  <2>1. /\ at[t] = "wait" /\ at'[t] = "probe" /\ UNCHANGED <<hop, count>>
        /\ count[t] < Each
    BY <1>4 DEF TakeReply, NoReply, Goes, TraceOK, KeptAt
  <2>2. ~NewHop(t)'
    BY <1>0, <2>1 DEF NewHop
  <2>3. CASE First(t)
    BY <1>4, <2>1, <2>2, <2>3, LineMade DEF KeptAt
  <2>4. CASE ~First(t)
    <3>1. lines'[t] = lines[t] /\ flag'[t] = flag[t]
      BY <1>4, <2>4 DEF TakeReply, NoReply, Line, TraceOK
    <3>2. ~NewHop(t)
      BY <1>0, <2>1, <2>4 DEF NewHop
    <3>3. FairAt(t)'
      BY <1>0, <2>1, <3>1, FairKept
    <3> QED
      BY <2>1, <2>2, <3>1, <3>2, <3>3 DEF KeptAt
  <2> QED
    BY <2>3, <2>4
<1>5. CASE NextHop(t)
  <2>1. /\ at[t] = "probe" /\ at'[t] = "probe" /\ count[t] = 0 /\ count'[t] = Each
        /\ hop'[t] = hop[t] + 1 /\ UNCHANGED <<flag, lines>> /\ ~flag[t]
    BY <1>5 DEF NextHop, Goes, TraceOK
  <2>2. ~NewHop(t) /\ NewHop(t)'
    BY <1>0, <2>1 DEF NewHop
  <2>3. FairAt(t)'
    BY <1>0, <2>1, FairKept
  <2> QED
    BY <1>0, <2>1, <2>2, <2>3 DEF KeptAt
<1>6. CASE End(t)
  <2>1. at[t] = "probe" /\ at'[t] = "done" /\ UNCHANGED <<hop, count, flag, lines>>
    BY <1>6 DEF End, Goes, TraceOK
  <2> QED
    BY <1>1, <2>1 DEF KeptAt, NewHop
<1> QED
  BY <1>2, <1>3, <1>4, <1>5, <1>6 DEF TraceStep

LEMMA LineInvStep == LineInv /\ [Next]_vars => LineInv'
<1> SUFFICES ASSUME LineInv, [Next]_vars PROVE LineInv'
  OBVIOUS
<1> TypeOK /\ TraceOK /\ AnswersGenuine
  BY TypeParts DEF LineInv
<1>1. ASSUME NEW t \in Traces PROVE KeptAt(t)' /\ FairAt(t)'
  <2>0. KeptAt(t) /\ FairAt(t) /\ hop[t] \in Nat
    BY Bounds DEF LineInv, LinesKept, LinesFair, TraceOK
  <2>1. ASSUME /\ at'[t] = at[t] /\ hop'[t] = hop[t] /\ count'[t] = count[t]
               /\ flag'[t] = flag[t] /\ lines'[t] = lines[t]
        PROVE  KeptAt(t)' /\ FairAt(t)'
    <3>1. KeptAt(t)'
      BY <2>0, <2>1 DEF KeptAt, NewHop, First
    <3> QED
      BY <2>0, <2>1, <3>1, FairKept
  <2>2. CASE UNCHANGED tracing
    BY <2>1, <2>2 DEF tracing
  <2>3. ASSUME NEW u \in Traces, Launch(u) \/ TraceStep(u) PROVE KeptAt(t)' /\ FairAt(t)'
    <3>1. CASE u = t
      BY <2>0, <2>3, <3>1, TraceStepKeeps
    <3>2. CASE u # t
      BY <2>1, <2>3, <3>2, OtherTrace
    <3> QED
      BY <3>1, <3>2
  <2> QED
    BY <2>2, <2>3 DEF Next, vars, TracerouteNext
<1>2. LinesKept' /\ LinesFair'
  BY <1>1 DEF LinesKept, LinesFair
<1> QED
  BY <1>2, AnswersStep, StepType DEF LineInv

\* An answer to a trace may be late, never early: the line it makes names a host
\* no farther than its hop (the loop over hops and probes of traceroute).
THEOREM LinesAreNotAhead == Spec => []LinesNotAhead
<1> QED
  BY LineInvInit, LineInvStep, LineInvImplies, PTL DEF Spec

\* A trace ends at its destination, or for a packet that answers another
\* program (the flag of traceroute).
THEOREM TracesEndForCause == Spec => []EndsForCause
<1> QED
  BY LineInvInit, LineInvStep, LineInvImplies, PTL DEF Spec

-----------------------------------------------------------------------------
(* What finish prints adds up.                                               *)

One(b) == IF b THEN 1 ELSE 0

\* The counters of a ping where it is: a request waited for is none of the
\* replies and errors yet, a reply enters a sum at its own statement, and the
\* sums are divided only after every request, each once.
Counted(where, n, r, e, s, d, all) ==
  /\ r + e + One(where = "wait") <= n
  /\ r = s.tsum + One(where = "counted")
  /\ r = s.tsum2 + One(where \in {"counted", "summed"})
  /\ r = s.min + One(where \in {"counted", "summed", "squared"})
  /\ r = s.max + One(where \in Counting)
  /\ where \in {"printed", "mean", "squares"} => r > 0
  /\ d.tsum = One(where \in {"mean", "squares"} \/ (where = "over" /\ r > 0))
  /\ d.tsum2 = One(where = "squares" \/ (where = "over" /\ r > 0))
  /\ where \in Finishing => n = all

\* ReportAddsUp of one report, which exit(0) finds as the last statement left it.
Printed(where, r, all) ==
  LET s == r.sums
      d == r.divided
  IN  /\ r.received + r.error <= r.sent
      /\ where \in {"over", "done"} => (d.tsum > 0 <=> r.received > 0)
      /\ d.tsum > 0 =>
           /\ r.received >= s.tsum /\ s.tsum >= s.tsum2 /\ s.tsum2 >= s.min
           /\ s.min >= s.max /\ s.max >= r.received - 1
      /\ \/ d \in {Whole, [tsum |-> 1, tsum2 |-> 1]}
         \/ /\ d.tsum = 2 /\ d.tsum2 \in {1, 2}
            /\ r.sent = all /\ s.max = r.received

SumsAt(p) == Counted(pc[p], sent[p], received[p], error[p], sums[p], divided[p], Count[p])
PrintedAt(p) == Printed(pc[p], report[p], Count[p])

SumsInv == \A p \in Pings : SumsAt(p) /\ PrintedAt(p)

\* The counters of a ping as numbers.
LEMMA CountersType ==
  ASSUME PingOK, NEW p \in Pings
  PROVE  /\ pc[p] \in Where
         /\ sent[p] \in Nat /\ received[p] \in Nat /\ error[p] \in Nat
         /\ sums[p] \in Times /\ divided[p] \in Divided /\ report[p] \in Reports
         /\ Count[p] \in Nat
BY Bounds DEF PingOK

\* finish prints what it finds: at the end, or where a signal comes.
LEMMA PrintedNow ==
  ASSUME NEW c \in Where, NEW n \in Nat, NEW r \in Nat, NEW e \in Nat, NEW s \in Times,
         NEW d \in Divided, NEW all \in Nat, Counted(c, n, r, e, s, d, all),
         NEW to \in Where, NEW new,
         \/ /\ c = "send" /\ to = (IF r > 0 THEN "printed" ELSE "over")
            /\ new = [sent |-> n, received |-> r, error |-> e, sums |-> NoTimes,
                      divided |-> Whole]
         \/ /\ c = "squares"
            /\ new = [sent |-> n, received |-> r, error |-> e, sums |-> s, divided |-> d]
         \/ new = [sent |-> n, received |-> r, error |-> e, sums |-> s, divided |->
                   IF r > 0 THEN [tsum |-> d.tsum + 1, tsum2 |-> d.tsum2 + 1] ELSE d]
  PROVE  Printed(to, new, all)
<1>0. /\ s.tsum \in Nat /\ s.tsum2 \in Nat /\ s.min \in Nat /\ s.max \in Nat
      /\ d.tsum \in Nat /\ d.tsum2 \in Nat /\ d = [tsum |-> d.tsum, tsum2 |-> d.tsum2]
      /\ r + e <= n
  BY DEF Times, Divided, Counted, One
<1>1. /\ r >= s.tsum /\ s.tsum >= s.tsum2 /\ s.tsum2 >= s.min /\ s.min >= s.max
      /\ s.max >= r - 1
  BY <1>0 DEF Counted, One, Counting
<1>2. CASE /\ c = "send" /\ to = (IF r > 0 THEN "printed" ELSE "over")
           /\ new = [sent |-> n, received |-> r, error |-> e, sums |-> NoTimes,
                     divided |-> Whole]
  BY <1>0, <1>2 DEF Printed, Whole
<1>3. CASE /\ c = "squares"
           /\ new = [sent |-> n, received |-> r, error |-> e, sums |-> s, divided |-> d]
  <2>1. d = [tsum |-> 1, tsum2 |-> 1] /\ r > 0
    BY <1>0, <1>3 DEF Counted, One
  <2> QED
    BY <1>0, <1>1, <1>3, <2>1 DEF Printed
<1>4. CASE new = [sent |-> n, received |-> r, error |-> e, sums |-> s, divided |->
                  IF r > 0 THEN [tsum |-> d.tsum + 1, tsum2 |-> d.tsum2 + 1] ELSE d]
  <2>1. CASE r = 0
    <3>1. d = Whole
      BY <1>0, <2>1 DEF Counted, One, Whole
    <3> QED
      BY <1>0, <1>4, <2>1, <3>1 DEF Printed, Whole
  <2>2. CASE r > 0
    <3>1. \/ d.tsum = 0 /\ d.tsum2 = 0
          \/ d.tsum = 1 /\ d.tsum2 \in {0, 1} /\ n = all /\ s.max = r
      BY <1>0 DEF Counted, One, Finishing, Counting
    <3> QED
      BY <1>0, <1>1, <1>4, <2>2, <3>1 DEF Printed
  <2> QED
    BY <2>1, <2>2
<1> QED
  BY <1>2, <1>3, <1>4

\* A statement of the sums, or of finish(0).
LEMMA SumsInside ==
  ASSUME PingOK, NEW p \in Pings, SumsAt(p), PrintedAt(p), AddTimes(p) \/ Finish(p)
  PROVE  SumsAt(p)' /\ PrintedAt(p)'
<1>0. /\ pc[p] \in Where
      /\ sent[p] \in Nat /\ received[p] \in Nat /\ error[p] \in Nat
      /\ sums[p] \in Times /\ divided[p] \in Divided /\ report[p] \in Reports
      /\ Count[p] \in Nat
  BY CountersType
<1>1. ASSUME NEW from, NEW to, Computes(p, from, to)
      PROVE  /\ pc[p] = from /\ pc'[p] = to /\ sent'[p] = sent[p]
             /\ received'[p] = received[p] /\ error'[p] = error[p]
  BY <1>1 DEF Computes, Moves, PingOK
<1>2. ASSUME NEW sum \in {"tsum", "tsum2", "min"}, NEW from, NEW to, AddTime(p, sum, from, to)
      PROVE  /\ sums'[p] = [sums[p] EXCEPT ![sum] = @ + 1] /\ divided'[p] = divided[p]
             /\ report'[p] = report[p] /\ Computes(p, from, to)
  BY <1>2 DEF AddTime, PingOK
<1>3. ASSUME NEW sum \in {"tsum", "tsum2"}, NEW from, NEW to, Divide(p, sum, from, to)
      PROVE  /\ divided'[p] = [divided[p] EXCEPT ![sum] = @ + 1] /\ sums'[p] = sums[p]
             /\ report'[p] = report[p] /\ Computes(p, from, to)
  BY <1>3 DEF Divide, PingOK
<1>4. ASSUME AddTimes(p) PROVE SumsAt(p)' /\ PrintedAt(p)'
  <2>1. CASE AddTime(p, "tsum", "counted", "summed")
    BY <1>0, <1>1, <1>2, <2>1 DEF SumsAt, PrintedAt, Counted, Printed, One, Times, Counting, Finishing
  <2>2. CASE AddTime(p, "tsum2", "summed", "squared")
    BY <1>0, <1>1, <1>2, <2>2 DEF SumsAt, PrintedAt, Counted, Printed, One, Times, Counting, Finishing
  <2>3. CASE AddTime(p, "min", "squared", "least")
    BY <1>0, <1>1, <1>2, <2>3 DEF SumsAt, PrintedAt, Counted, Printed, One, Times, Counting, Finishing
  <2> QED
    BY <1>4, <2>1, <2>2, <2>3 DEF AddTimes
<1>5. CASE Divide(p, "tsum", "printed", "mean")
  BY <1>0, <1>1, <1>3, <1>5 DEF SumsAt, PrintedAt, Counted, Printed, One, Divided, Counting, Finishing
<1>6. CASE Divide(p, "tsum2", "mean", "squares")
  BY <1>0, <1>1, <1>3, <1>6 DEF SumsAt, PrintedAt, Counted, Printed, One, Divided, Counting, Finishing
<1>7. CASE PrintCounts(p)
  <2>1. /\ pc[p] = "send" /\ pc'[p] = (IF received[p] > 0 THEN "printed" ELSE "over")
        /\ sent'[p] = sent[p] /\ received'[p] = received[p] /\ error'[p] = error[p]
        /\ sent[p] = Count[p] /\ sums'[p] = sums[p] /\ divided'[p] = divided[p]
        /\ report'[p] = [sent |-> sent[p], received |-> received[p], error |-> error[p],
                         sums |-> NoTimes, divided |-> Whole]
    BY <1>1, <1>7 DEF PrintCounts, Report, PingOK
  <2>2. SumsAt(p)'
    BY <1>0, <2>1 DEF SumsAt, Counted, One, Counting, Finishing
  <2>3. pc'[p] \in Where
    BY <2>1 DEF Where, Finishing
  <2>4. PrintedAt(p)'
    BY <1>0, <2>1, <2>3, PrintedNow DEF PrintedAt, SumsAt
  <2> QED
    BY <2>2, <2>4
<1>8. CASE PrintTimes(p)
  <2>1. /\ pc[p] = "squares" /\ pc'[p] = "over"
        /\ sent'[p] = sent[p] /\ received'[p] = received[p] /\ error'[p] = error[p]
        /\ sums'[p] = sums[p] /\ divided'[p] = divided[p]
        /\ report'[p] = [sent |-> sent[p], received |-> received[p], error |-> error[p],
                         sums |-> sums[p], divided |-> divided[p]]
    BY <1>1, <1>8 DEF PrintTimes, Report, PingOK
  <2>2. SumsAt(p)'
    BY <1>0, <2>1 DEF SumsAt, Counted, One, Counting, Finishing
  <2>3. pc'[p] \in Where
    BY <2>1 DEF Where, Finishing
  <2>4. PrintedAt(p)'
    BY <1>0, <2>1, <2>3, PrintedNow DEF PrintedAt, SumsAt
  <2> QED
    BY <2>2, <2>4
<1> QED
  BY <1>4, <1>5, <1>6, <1>7, <1>8 DEF Finish

LEMMA SumsStep ==
  ASSUME PingOK, SumsInv, NEW p \in Pings, NEW q \in Pings,
         Start(p) \/ PingStep(p) \/ Interrupt(p) \/ Quit(p)
  PROVE  SumsAt(q)' /\ PrintedAt(q)'
<1>0. /\ pc[q] \in Where
      /\ sent[q] \in Nat /\ received[q] \in Nat /\ error[q] \in Nat
      /\ sums[q] \in Times /\ divided[q] \in Divided /\ report[q] \in Reports
      /\ Count[q] \in Nat /\ SumsAt(q) /\ PrintedAt(q)
  BY CountersType DEF SumsInv
<1> USE DEF PingOK
<1>1. CASE p # q
  <2>1. /\ sent'[q] = sent[q] /\ received'[q] = received[q] /\ error'[q] = error[q]
        /\ sums'[q] = sums[q] /\ divided'[q] = divided[q] /\ report'[q] = report[q]
        /\ pc'[q] = pc[q]
    BY <1>1 DEF Start, PingStep, SendEcho, CountSent, CountReply, AddTimes, AddTime, EndReply,
                CountError, PassOver, Damaged, Timeout, Finish, PrintCounts, Divide, PrintTimes,
                Leave, Interrupt, Quit, finish, Exit, Computes, Done, Moves, counters
  <2> QED
    BY <1>0, <2>1 DEF SumsAt, PrintedAt
<1>2. ASSUME p = q, NEW from, NEW to \in {"done", "failed"}, Exit(q, from, to)
      PROVE  SumsAt(q)' /\ pc'[q] = to
  <2>1. /\ sent'[q] = 0 /\ received'[q] = 0 /\ error'[q] = 0 /\ sums'[q] = NoTimes
        /\ divided'[q] = Whole /\ pc'[q] = to
    BY <1>2 DEF Exit
  <2> QED
    BY <1>2, <2>1 DEF SumsAt, Counted, One, NoTimes, Whole, Counting, Finishing
<1>3. ASSUME p = q, finish(q) PROVE SumsAt(q)' /\ PrintedAt(q)'
  <2>1. SumsAt(q)' /\ pc'[q] = "done"
    BY <1>2, <1>3 DEF finish
  <2>2. report'[q] = [sent |-> sent[q], received |-> received[q], error |-> error[q],
                      sums |-> sums[q], divided |->
                        IF received[q] > 0
                        THEN [tsum |-> divided[q].tsum + 1, tsum2 |-> divided[q].tsum2 + 1]
                        ELSE divided[q]]
    BY <1>3 DEF finish, Report, Divisions
  <2>3. "done" \in Where
    BY DEF Where
  <2>4. Printed("done", report'[q], Count[q])
    BY <1>0, <2>2, <2>3, PrintedNow DEF SumsAt
  <2> QED
    BY <2>1, <2>4 DEF PrintedAt
<1>4. ASSUME p = q, Leave(q) \/ Quit(q) PROVE SumsAt(q)' /\ PrintedAt(q)'
  <2>1. SumsAt(q)' /\ report'[q] = report[q] /\ pc'[q] \in {"done", "failed"}
        /\ (pc'[q] = "done" => pc[q] = "over")
    BY <1>2, <1>4 DEF Leave, Quit, Exit
  <2> QED
    BY <1>0, <2>1 DEF PrintedAt, Printed
<1>5. ASSUME p = q, report'[q] = report[q], pc'[q] \notin {"over", "done"} PROVE PrintedAt(q)'
  BY <1>0, <1>5 DEF PrintedAt, Printed
<1>6. ASSUME p = q, Start(q) PROVE SumsAt(q)' /\ PrintedAt(q)'
  <2>1. UNCHANGED counters /\ report' = report /\ pc[q] = "off" /\ pc'[q] = "send"
    BY <1>6 DEF Start, Moves
  <2> QED
    BY <1>0, <1>5, <1>6, <2>1 DEF counters, SumsAt, Counted, One, Counting, Finishing
<1>7. ASSUME p = q, SendEcho(q) PROVE SumsAt(q)' /\ PrintedAt(q)'
  <2>1. UNCHANGED counters /\ report' = report /\ pc[q] = "send" /\ pc'[q] = "asked"
    BY <1>7 DEF SendEcho, Moves
  <2> QED
    BY <1>0, <1>5, <1>7, <2>1 DEF counters, SumsAt, Counted, One, Counting, Finishing
<1>8. ASSUME p = q, CountSent(q) PROVE SumsAt(q)' /\ PrintedAt(q)'
  <2>1. /\ pc[q] = "asked" /\ pc'[q] = "wait" /\ sent'[q] = sent[q] + 1
        /\ UNCHANGED <<received, error, sums, divided, report>>
    BY <1>8 DEF CountSent, Moves
  <2> QED
    BY <1>0, <1>5, <1>8, <2>1 DEF SumsAt, Counted, One, Counting, Finishing
<1>9. ASSUME p = q, CountReply(q) PROVE SumsAt(q)' /\ PrintedAt(q)'
  <2>1. /\ pc[q] = "wait" /\ pc'[q] = "counted" /\ received'[q] = received[q] + 1
        /\ UNCHANGED <<sent, error, sums, divided, report>>
    BY <1>9 DEF CountReply, Moves
  <2> QED
    BY <1>0, <1>5, <1>9, <2>1 DEF SumsAt, Counted, One, Times, Counting, Finishing
<1>10. ASSUME p = q, EndReply(q) PROVE SumsAt(q)' /\ PrintedAt(q)'
  <2>1. /\ pc[q] = "least" /\ pc'[q] = "send" /\ sums'[q] = [sums[q] EXCEPT !.max = @ + 1]
        /\ UNCHANGED <<sent, received, error, divided, report>>
    BY <1>10 DEF EndReply, Moves
  <2> QED
    BY <1>0, <1>5, <1>10, <2>1 DEF SumsAt, Counted, One, Times, Counting, Finishing
<1>11. ASSUME p = q, CountError(q) PROVE SumsAt(q)' /\ PrintedAt(q)'
  <2>1. /\ pc[q] = "wait" /\ pc'[q] = "send" /\ error'[q] = error[q] + 1
        /\ UNCHANGED <<sent, received, sums, divided, report>>
    BY <1>11 DEF CountError, Done, Moves
  <2> QED
    BY <1>0, <1>5, <1>11, <2>1 DEF SumsAt, Counted, One, Counting, Finishing
<1>12. ASSUME p = q, PassOver(q) \/ Damaged(q) \/ Timeout(q) PROVE SumsAt(q)' /\ PrintedAt(q)'
  <2>1. /\ pc[q] = "wait" /\ pc'[q] \in {"wait", "send"}
        /\ UNCHANGED <<sent, received, error, sums, divided, report>>
    BY <1>12 DEF PassOver, Damaged, Timeout, Done, Moves
  <2> QED
    BY <1>0, <1>5, <1>12, <2>1 DEF SumsAt, Counted, One, Counting, Finishing
<1>13. ASSUME p = q, AddTimes(q) \/ Finish(q) PROVE SumsAt(q)' /\ PrintedAt(q)'
  BY <1>0, <1>13, SumsInside
<1> QED
  BY <1>1, <1>3, <1>4, <1>6, <1>7, <1>8, <1>9, <1>10, <1>11, <1>12, <1>13
     DEF PingStep, Interrupt

LEMMA SumsInit == Init => SumsInv
<1> SUFFICES ASSUME Init, NEW p \in Pings PROVE SumsAt(p) /\ PrintedAt(p)
  BY DEF SumsInv
<1>1. /\ pc[p] = "off" /\ sent[p] = 0 /\ received[p] = 0 /\ error[p] = 0
      /\ sums[p] = NoTimes /\ divided[p] = Whole /\ report[p] = NoReport
  BY DEF Init, PingInit
<1>2. SumsAt(p)
  BY <1>1 DEF SumsAt, Counted, One, NoTimes, Whole, Counting, Finishing
<1>3. PrintedAt(p)
  BY <1>1 DEF PrintedAt, Printed, NoReport, Whole
<1> QED
  BY <1>2, <1>3

LEMMA SumsNext == TypeOK /\ SumsInv /\ [Next]_vars => SumsInv'
<1> SUFFICES ASSUME TypeOK, SumsInv, [Next]_vars PROVE SumsInv'
  OBVIOUS
<1> PingOK
  BY TypeParts
<1>1. UNCHANGED <<pc, sent, received, error, sums, divided, report>> => SumsInv'
  BY DEF SumsInv, SumsAt, PrintedAt
<1>2. UNCHANGED pinging => SumsInv'
  BY <1>1 DEF pinging
<1>3. ASSUME NEW pk \in air, Arrive(pk) PROVE SumsInv'
  BY <1>1, <1>3 DEF Arrive, counters
<1>4. ASSUME NEW p \in Pings, Start(p) \/ PingStep(p) \/ Interrupt(p) \/ Quit(p)
      PROVE  SumsInv'
  BY <1>4, SumsStep DEF SumsInv
<1>5. PingNext => SumsInv'
  BY <1>3, <1>4 DEF PingNext
<1> QED
  BY <1>2, <1>5 DEF Next, vars

\* However a ping ends, the counts it prints are within its requests, the line
\* of the times leaves out at most the last reply, and an average is divided
\* by received once, or twice when SIGINT comes in finish(0), after every
\* request (ping.c: the statements after received++, and finish).
THEOREM ReportsAddUp == Spec => []ReportAddsUp
<1>1. SumsInv => ReportAddsUp
  BY DEF SumsInv, PrintedAt, Printed, ReportAddsUp
<1>2. Init => TypeOK /\ SumsInv
  BY InitType, SumsInit
<1>3. TypeOK /\ SumsInv /\ [Next]_vars => (TypeOK /\ SumsInv)'
  BY StepType, SumsNext
<1> QED
  BY <1>1, <1>2, <1>3, PTL DEF Spec

-----------------------------------------------------------------------------
(* A reply that is in time is counted.                                       *)

Credited(p, n) == \E c \in credit[p] : c.seq = n

\* The packet ends the wait for reply n as that reply; and one that is passed over.
Valid(n, x) == x.type = EchoReply /\ x.by \in Pings /\ x.n = n
Answers(n, x) == x.whole /\ Valid(n, x)
Strange(n, x) == x.whole /\ x.type # Unreachable /\ ~Valid(n, x)

\* The reply that p waits for is in its socket, and the strangers before it are
\* not enough to end the wait.
Coming(p) ==
  /\ pc[p] \in {"asked", "wait"}
  /\ \E i \in 1 .. Len(queue[p]) :
       /\ Answers(icmp_seqno[p], queue[p][i])
       /\ times[p] + i <= 3
       /\ \A k \in 1 .. i - 1 : Strange(icmp_seqno[p], queue[p][k])

PromptAt(p) ==
  /\ pc[p] \in {"send", "asked", "wait"} \cup Counting => p \in open
  /\ \A n \in prompt[p] : n <= icmp_seqno[p]
  /\ \A n \in prompt[p] : n < icmp_seqno[p] => Credited(p, n)
  /\ icmp_seqno[p] \in prompt[p] => Coming(p) \/ Credited(p, icmp_seqno[p])

PromptInv == \A p \in Pings : PromptAt(p)

LEMMA PromptType ==
  ASSUME TypeOK, NEW p \in Pings
  PROVE  /\ icmp_seqno[p] \in Nat /\ times[p] \in Nat /\ prompt[p] \subseteq Nat
         /\ queue[p] \in Seq(Packet) /\ p \in Programs
<1> PingOK
  BY TypeParts
<1>1. p \in Programs /\ icmp_seqno[p] \in Nat
  BY ProgramsAre DEF PingOK
<1>2. times[p] \in 0 .. 2 /\ prompt[p] \in SUBSET Nat
  BY DEF PingOK
<1>3. queue[p] \in Seq(Packet)
  BY <1>1 DEF TypeOK
<1> QED
  BY <1>1, <1>2, <1>3

\* What the programs of others leave alone.
LEMMA PromptKept ==
  ASSUME NEW p \in Pings, PromptAt(p),
         pc'[p] = pc[p], times'[p] = times[p], icmp_seqno'[p] = icmp_seqno[p],
         prompt'[p] = prompt[p], credit'[p] = credit[p], queue'[p] = queue[p],
         p \in open => p \in open'
  PROVE  PromptAt(p)'
BY DEF PromptAt, Coming, Credited, Answers, Strange, checkValidity, Valid

\* A wait that ends for anything but a reply had none in time.
LEMMA PromptDone ==
  ASSUME TypeOK, NEW p \in Pings, PromptAt(p), Done(p), ~Coming(p),
         UNCHANGED credit, p \in open => p \in open'
  PROVE  PromptAt(p)'
<1> PICK n : n = icmp_seqno[p]
  OBVIOUS
<1>0. n \in Nat /\ prompt[p] \subseteq Nat
  BY PromptType
<1>1. /\ icmp_seqno'[p] = n + 1 /\ prompt'[p] = prompt[p]
      /\ credit'[p] = credit[p] /\ pc'[p] = "send" /\ pc[p] = "wait"
  BY DEF Done, Moves, TypeOK
<1>2. ASSUME NEW m \in prompt[p] PROVE m <= n /\ Credited(p, m)
  BY <1>0, <1>2 DEF PromptAt
<1>3. p \in open'
  BY <1>1 DEF PromptAt
<1>4. n + 1 \notin prompt[p]
  BY <1>0, <1>2
<1> QED
  BY <1>0, <1>1, <1>2, <1>3, <1>4 DEF PromptAt, Credited

\* The head of the socket when a reply is coming.
LEMMA ComingHead ==
  ASSUME TypeOK, NEW p \in Pings, Coming(p)
  PROVE  /\ queue[p] # <<>>
         /\ \/ Answers(icmp_seqno[p], Taken(p))
            \/ Strange(icmp_seqno[p], Taken(p)) /\ ~Enough(times[p] + 1)
<1>0. times[p] \in Nat /\ queue[p] \in Seq(Packet)
  BY PromptType
<1>1. PICK i \in 1 .. Len(queue[p]) :
        /\ Answers(icmp_seqno[p], queue[p][i]) /\ times[p] + i <= 3
        /\ \A k \in 1 .. i - 1 : Strange(icmp_seqno[p], queue[p][k])
  BY DEF Coming
<1>2. queue[p] # <<>> /\ Taken(p) = queue[p][1]
  BY <1>0, <1>1, EmptySeq DEF Taken
<1>3. CASE i = 1
  BY <1>1, <1>2, <1>3
<1>4. CASE i # 1
  <2>1. 1 \in 1 .. i - 1 /\ times[p] + 1 # 3
    BY <1>0, <1>1, <1>4
  <2> QED
    BY <1>1, <1>2, <2>1 DEF Enough
<1> QED
  BY <1>3, <1>4

\* The loop passes over a stranger: the reply comes one place nearer.
LEMMA PromptPassed ==
  ASSUME TypeOK, NEW p \in Pings, PromptAt(p), PassOver(p), ~Done(p)
  PROVE  PromptAt(p)'
<1>0. times[p] \in Nat /\ queue[p] \in Seq(Packet) /\ icmp_seqno[p] \in Nat /\ p \in Programs
  BY PromptType
<1>1. /\ queue[p] # <<>> /\ queue'[p] = Tail(queue[p]) /\ times'[p] = times[p] + 1
      /\ pc[p] = "wait" /\ pc'[p] = "wait" /\ ~checkValidity(p, Taken(p))
      /\ icmp_seqno' = icmp_seqno /\ prompt' = prompt /\ credit' = credit /\ open' = open
  <2>1. queue'[p] = Tail(queue[p]) /\ queue[p] # <<>> /\ open' = open
    BY <1>0 DEF PassOver, Take, TypeOK
  <2> QED
    BY <2>1 DEF PassOver, Moves, TypeOK
<1>2. ASSUME Coming(p) PROVE Coming(p)'
  <2>1. PICK i \in 1 .. Len(queue[p]) :
          /\ Answers(icmp_seqno[p], queue[p][i]) /\ times[p] + i <= 3
          /\ \A k \in 1 .. i - 1 : Strange(icmp_seqno[p], queue[p][k])
    BY <1>2 DEF Coming
  <2>2. Taken(p) = queue[p][1]
    BY <1>0, <1>1 DEF Taken
  <2>3. i # 1
    BY <1>1, <2>1, <2>2 DEF Answers, Valid, checkValidity
  <2>4. /\ Len(queue'[p]) = Len(queue[p]) - 1
        /\ \A k \in 1 .. Len(queue[p]) - 1 : queue'[p][k] = queue[p][k + 1]
    BY <1>0, <1>1, HeadTailProperties
  <2>5. i - 1 \in 1 .. Len(queue'[p]) /\ queue'[p][i - 1] = queue[p][i]
    BY <1>0, <2>3, <2>4, LenProperties
  <2>6. \A k \in 1 .. (i - 1) - 1 : Strange(icmp_seqno[p], queue'[p][k])
    <3> TAKE k \in 1 .. (i - 1) - 1
    <3>1. queue'[p][k] = queue[p][k + 1] /\ k + 1 \in 1 .. i - 1
      BY <1>0, <2>4, LenProperties
    <3> QED
      BY <2>1, <3>1
  <2>7. times'[p] + (i - 1) <= 3
    BY <1>0, <1>1, <2>1
  <2> QED
    BY <1>1, <2>1, <2>5, <2>6, <2>7 DEF Coming
<1> QED
  BY <1>1, <1>2 DEF PromptAt, Credited

\* A packet arrives behind those that are there.
LEMMA PromptArrives ==
  ASSUME TypeOK, NEW p \in Pings, PromptAt(p), NEW pk \in air, Arrive(pk)
  PROVE  PromptAt(p)'
<1>0. /\ times[p] \in Nat /\ queue[p] \in Seq(Packet) /\ icmp_seqno[p] \in Nat
      /\ p \in Programs /\ prompt[p] \subseteq Nat /\ pk \in Packet /\ Len(queue[p]) \in Nat
  BY PromptType, LenProperties DEF TypeOK
<1>1. PICK again \in BOOLEAN, damaged \in BOOLEAN :
        /\ Arrives(pk, again, damaged)
        /\ prompt'[p] = IF Prompt(p, pk) /\ ~damaged THEN prompt[p] \cup {pk.n} ELSE prompt[p]
  BY DEF Arrive
<1>2. UNCHANGED <<pc, counters, open>>
  BY DEF Arrive, Arrives
<1> PICK new : new = [pk EXCEPT !.whole = ~damaged]
  OBVIOUS
<1>3. /\ new \in Packet /\ new.type = pk.type /\ new.by = pk.by /\ new.n = pk.n
      /\ new.whole = ~damaged
  BY <1>0 DEF Packet
<1>4. queue'[p] = IF p \in open THEN Append(queue[p], new) ELSE queue[p]
  BY <1>0, <1>1 DEF Arrives
<1>5. ASSUME NEW k \in 1 .. Len(queue[p]) PROVE k \in 1 .. Len(queue'[p]) /\ queue'[p][k] = queue[p][k]
  BY <1>0, <1>3, <1>4, AppendProperties
<1>6. icmp_seqno'[p] = icmp_seqno[p]
  BY <1>2 DEF counters
<1>7. ASSUME Coming(p) PROVE Coming(p)'
  <2>1. PICK i \in 1 .. Len(queue[p]) :
          /\ Answers(icmp_seqno[p], queue[p][i]) /\ times[p] + i <= 3
          /\ \A k \in 1 .. i - 1 : Strange(icmp_seqno[p], queue[p][k])
    BY <1>7 DEF Coming
  <2>2. \A k \in 1 .. i - 1 : k \in 1 .. Len(queue[p])
    BY <1>0
  <2>3. i \in 1 .. Len(queue'[p]) /\ Answers(icmp_seqno[p], queue'[p][i])
    BY <1>5, <1>6, <2>1
  <2>4. \A k \in 1 .. i - 1 : Strange(icmp_seqno[p], queue'[p][k])
    BY <1>5, <1>6, <2>1, <2>2
  <2>5. pc'[p] \in {"asked", "wait"} /\ times'[p] = times[p]
    BY <1>2, <1>7 DEF Coming, counters
  <2> QED
    BY <1>6, <2>1, <2>3, <2>4, <2>5 DEF Coming
<1>8. ASSUME Prompt(p, pk), ~damaged PROVE Coming(p)'
  <2>1. /\ pc[p] \in {"asked", "wait"} /\ p \in open
        /\ pk.by = p /\ pk.n = icmp_seqno[p] /\ pk.type = EchoReply
        /\ times[p] + Len(queue[p]) < 3
    BY <1>8 DEF Prompt, PromptAt
  <2> PICK i : i = Len(queue[p]) + 1
    OBVIOUS
  <2>2. i \in 1 .. Len(queue'[p]) /\ queue'[p][i] = new
    BY <1>0, <1>3, <1>4, <2>1, AppendProperties
  <2>3. Answers(icmp_seqno[p], new)
    BY <1>3, <1>6, <1>8, <2>1 DEF Answers, checkValidity, Valid
  <2>4. ASSUME NEW k \in 1 .. i - 1 PROVE Strange(icmp_seqno[p], queue'[p][k])
    <3>1. k \in 1 .. Len(queue[p])
      BY <1>0
    <3>2. Strange(icmp_seqno[p], queue[p][k])
      BY <1>8, <3>1 DEF Prompt, Strange, checkValidity, Valid
    <3> QED
      BY <1>5, <1>6, <3>1, <3>2
  <2>5. times[p] + i <= 3
    BY <1>0, <2>1
  <2>6. pc'[p] \in {"asked", "wait"} /\ times'[p] = times[p]
    BY <1>2, <2>1 DEF counters
  <2> QED
    BY <1>6, <2>2, <2>3, <2>4, <2>5, <2>6 DEF Coming
<1>9. /\ credit'[p] = credit[p] /\ icmp_seqno'[p] = icmp_seqno[p] /\ pc'[p] = pc[p]
      /\ open' = open
  BY <1>2 DEF counters
<1>10. CASE Prompt(p, pk) /\ ~damaged
  <2>1. pk.n = icmp_seqno[p] /\ prompt'[p] = prompt[p] \cup {pk.n}
    BY <1>1, <1>10 DEF Prompt
  <2> QED
    BY <1>0, <1>8, <1>9, <1>10, <2>1 DEF PromptAt, Credited
<1>11. CASE ~(Prompt(p, pk) /\ ~damaged)
  BY <1>1, <1>7, <1>9, <1>11 DEF PromptAt, Credited
<1> QED
  BY <1>10, <1>11

\* A step of p itself.
LEMMA PromptOwn ==
  ASSUME TypeOK, NEW p \in Pings, PromptAt(p),
         Start(p) \/ PingStep(p) \/ Interrupt(p) \/ Quit(p)
  PROVE  PromptAt(p)'
<1>0. /\ times[p] \in Nat /\ queue[p] \in Seq(Packet) /\ icmp_seqno[p] \in Nat
      /\ p \in Programs /\ prompt[p] \subseteq Nat
  BY PromptType
<1>1. Answers(icmp_seqno[p], Taken(p)) => Taken(p).whole /\ Taken(p).type # Unreachable
  BY DEF Answers, Valid, EchoReply, Unreachable
<1>2. CASE Start(p)
  <2>1. /\ pc[p] = "off" /\ pc'[p] = "send" /\ p \in open'
        /\ UNCHANGED <<icmp_seqno, prompt, credit>>
    BY <1>2 DEF Start, Moves, Open, counters, TypeOK
  <2> QED
    BY <2>1 DEF PromptAt, Coming, Credited
<1>3. CASE SendEcho(p)
  <2>1. /\ pc[p] = "send" /\ pc'[p] = "asked" /\ open' = open
        /\ UNCHANGED <<icmp_seqno, prompt, credit>>
    BY <1>3 DEF SendEcho, Moves, Send, network, counters, TypeOK
  <2> QED
    BY <2>1 DEF PromptAt, Coming, Credited
<1>10. CASE CountSent(p)
  <2>1. /\ pc[p] = "asked" /\ pc'[p] = "wait" /\ UNCHANGED network
        /\ UNCHANGED <<icmp_seqno, times, prompt, credit>>
    BY <1>10 DEF CountSent, Moves, TypeOK
  <2> QED
    BY <2>1 DEF PromptAt, Coming, Credited, network
<1>11. CASE AddTimes(p) \/ Finish(p)
  <2>1. PICK from \in Where, to \in Where : Inside(from, to) /\ Computes(p, from, to)
    BY <1>11, StepsInside
  <2>2. /\ pc[p] = from /\ pc'[p] = to /\ UNCHANGED network
        /\ UNCHANGED <<icmp_seqno, prompt, credit>>
    BY <2>1 DEF Computes, Moves, TypeOK
  <2>3. /\ from \notin {"asked", "wait"}
        /\ to \in {"send", "asked", "wait"} \cup Counting => from \in Counting
    BY <2>1 DEF Inside, Counting, Finishing
  <2> QED
    BY <2>2, <2>3 DEF PromptAt, Coming, Credited, network
<1>4. CASE CountReply(p)
  <2>1. /\ pc[p] = "wait" /\ pc'[p] = "counted" /\ open' = open
        /\ icmp_seqno' = icmp_seqno /\ prompt' = prompt
        /\ credit[p] \subseteq credit'[p]
        /\ [seq |-> icmp_seqno[p], reply |-> Taken(p)] \in credit'[p]
    BY <1>4 DEF CountReply, Moves, Take, TypeOK
  <2>2. Credited(p, icmp_seqno[p])'
    BY <2>1 DEF Credited
  <2>3. \A n : Credited(p, n) => Credited(p, n)'
    BY <2>1 DEF Credited
  <2> QED
    BY <2>1, <2>2, <2>3 DEF PromptAt
<1>5. CASE EndReply(p)
  <2>1. /\ pc[p] = "least" /\ pc'[p] = "send" /\ open' = open
        /\ icmp_seqno'[p] = icmp_seqno[p] + 1
        /\ prompt'[p] = prompt[p] /\ credit'[p] = credit[p]
    BY <1>5 DEF EndReply, Moves, network, TypeOK
  <2>2. ASSUME NEW n \in prompt[p] PROVE n <= icmp_seqno[p] /\ Credited(p, n)
    BY <1>0, <2>1, <2>2 DEF PromptAt, Coming
  <2>3. icmp_seqno[p] + 1 \notin prompt[p]
    BY <1>0, <2>2
  <2> QED
    BY <1>0, <2>1, <2>2, <2>3 DEF PromptAt, Credited, Counting
<1>6. CASE CountError(p) \/ Damaged(p) \/ (PassOver(p) /\ Done(p)) \/ Timeout(p)
  <2>1. ~Coming(p)
    <3>1. SUFFICES ASSUME Coming(p) PROVE FALSE
      OBVIOUS
    <3>2. /\ queue[p] # <<>>
          /\ \/ Answers(icmp_seqno[p], Taken(p))
             \/ Strange(icmp_seqno[p], Taken(p)) /\ ~Enough(times[p] + 1)
      BY <3>1, ComingHead
    <3>3. CASE CountError(p) \/ Damaged(p)
      BY <1>1, <3>2, <3>3 DEF CountError, Damaged, Strange
    <3>4. CASE PassOver(p) /\ Done(p)
      <4>1. Enough(times[p] + 1)
        <5>1. Done(p) => pc'[p] = "send"
          BY DEF Done, Moves, TypeOK
        <5>2. Moves(p, "wait", "wait") => pc'[p] = "wait"
          BY DEF Moves, TypeOK
        <5> QED
          BY <3>4, <5>1, <5>2 DEF PassOver
      <4> QED
        BY <3>2, <3>4, <4>1 DEF PassOver, Answers, Valid, checkValidity
    <3>5. CASE Timeout(p)
      BY <3>2, <3>5 DEF Timeout, Nothing
    <3> QED
      BY <1>6, <3>3, <3>4, <3>5
  <2>2. Done(p) /\ credit' = credit /\ open' = open
    BY <1>6 DEF CountError, Damaged, PassOver, Timeout, Take, Nothing, network
  <2> QED
    BY <2>1, <2>2, PromptDone
<1>7. CASE PassOver(p) /\ ~Done(p)
  BY <1>7, PromptPassed
<1>8. ASSUME NEW from, NEW to \in {"done", "failed"}, Exit(p, from, to) PROVE PromptAt(p)'
  <2>1. pc'[p] = to /\ prompt'[p] = {}
    BY <1>8 DEF Exit, TypeOK
  <2> QED
    BY <1>8, <2>1 DEF PromptAt, Counting
<1>9. CASE Leave(p) \/ Interrupt(p) \/ Quit(p)
  BY <1>8, <1>9 DEF Leave, Interrupt, Quit, finish
<1> QED
  BY <1>2, <1>3, <1>4, <1>5, <1>6, <1>7, <1>9, <1>10, <1>11 DEF PingStep

\* A step of another program.
LEMMA PromptOther ==
  ASSUME TypeOK, NEW p \in Pings, PromptAt(p), NEW q \in Programs \ {p},
         \/ q \in Pings /\ (Start(q) \/ PingStep(q) \/ Interrupt(q) \/ Quit(q))
         \/ q \in Traces /\ (Launch(q) \/ TraceStep(q)) /\ UNCHANGED pinging
  PROVE  PromptAt(p)'
<1>0. p \in Programs
  BY PromptType
<1>1. queue'[p] = queue[p] /\ (p \in open => p \in open')
  <2>1. Open(q) \/ Close(q) \/ Take(q) \/ Nothing(q) \/ UNCHANGED network => 
          queue'[p] = queue[p] /\ (p \in open => p \in open')
    BY <1>0 DEF Open, Close, Take, Nothing, network, TypeOK
  <2>2. \A n, c, ttl : Send(q, n, c, ttl) => queue'[p] = queue[p] /\ open' = open
    BY DEF Send, network
  <2>3. \/ Open(q) \/ Close(q) \/ Take(q) \/ Nothing(q) \/ UNCHANGED network
        \/ \E n, c, ttl : Send(q, n, c, ttl)
    BY StepsInside
       DEF Computes, Start, PingStep, SendEcho, CountSent, CountReply, EndReply, CountError,
           PassOver, Damaged, Timeout, Leave, Interrupt, Quit, finish, Exit,
           Launch, TraceStep, SendProbe, TakeReply, NoReply, NextHop, End
  <2> QED
    BY <2>1, <2>2, <2>3
<1>2. CASE q \in Pings /\ (Start(q) \/ PingStep(q) \/ Interrupt(q) \/ Quit(q))
  <2>1. /\ pc'[p] = pc[p] /\ times'[p] = times[p] /\ icmp_seqno'[p] = icmp_seqno[p]
        /\ prompt'[p] = prompt[p] /\ credit'[p] = credit[p]
    BY <1>2, StepsInside
       DEF Computes, Start, PingStep, SendEcho, CountSent, CountReply, EndReply, CountError,
           PassOver, Damaged, Timeout, Leave, Interrupt, Quit, finish, Exit, Done, Moves,
           counters, TypeOK
  <2> QED
    BY <1>1, <2>1, PromptKept
<1>3. CASE UNCHANGED pinging
  BY <1>1, <1>3, PromptKept DEF pinging
<1> QED
  BY <1>2, <1>3

LEMMA PromptInit == Init => PromptInv
BY DEF Init, PingInit, PromptInv, PromptAt, Counting

LEMMA PromptNext == TypeOK /\ PromptInv /\ [Next]_vars => PromptInv'
<1> SUFFICES ASSUME TypeOK, [Next]_vars, NEW p \in Pings, PromptAt(p) PROVE PromptAt(p)'
  BY DEF PromptInv
<1>1. UNCHANGED vars => PromptAt(p)'
  BY PromptKept DEF vars, network, pinging
<1>2. ASSUME NEW q \in Pings, Start(q) \/ PingStep(q) \/ Interrupt(q) \/ Quit(q)
      PROVE  PromptAt(p)'
  BY <1>2, PromptOwn, PromptOther DEF Programs
<1>3. ASSUME NEW t \in Traces, Launch(t) \/ TraceStep(t), UNCHANGED pinging
      PROVE  PromptAt(p)'
  <2>1. t \in Programs \ {p}
    BY IcmpConstants DEF Programs
  <2> QED
    BY <1>3, <2>1, PromptOther
<1>4. ASSUME NEW pk \in air, Arrive(pk) PROVE PromptAt(p)'
  BY <1>4, PromptArrives
<1> QED
  BY <1>1, <1>2, <1>3, <1>4 DEF Next, PingNext, TracerouteNext

\* A reply that comes while ping waits for it, behind at most two strangers, is
\* counted before the next request goes out (the loop while(times < 3) of ping,
\* and checkValidity).
THEOREM PromptRepliesCount == Spec => []PromptIsCounted
<1>1. PromptInv => PromptIsCounted
  BY DEF PromptInv, PromptAt, PromptIsCounted, Credited
<1>2. Init => TypeOK /\ PromptInv
  BY InitType, PromptInit
<1>3. TypeOK /\ PromptInv /\ [Next]_vars => (TypeOK /\ PromptInv)'
  BY StepType, PromptNext
<1> QED
  BY <1>1, <1>2, <1>3, PTL DEF Spec
=============================================================================
