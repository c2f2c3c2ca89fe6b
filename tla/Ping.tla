-------------------------------- MODULE Ping --------------------------------
(***************************************************************************)
(* ping.c of Assignment-6: a request a time, and after each a wait for its *)
(* reply that passes over at most three strangers. A signal may come       *)
(* between any two statements, so each that changes what finish prints is  *)
(* a step. A request that is out but not in sent yet is a state too.       *)
(***************************************************************************)
EXTENDS Icmp

CONSTANT Count   \* the requests each ping is asked for; 0, for ever, is left out

ASSUME PingConstants == Count \in [Pings -> Nat \ {0}]

VARIABLES
  pc,
  sent, received, error,   \* as the program counts them
  icmp_seqno,
  times,     \* strangers passed over in this wait
  sums,      \* of how many replies tsum, tsum2, min and max hold the time
  divided,   \* how often tsum and tsum2 have been divided by received
  credit,    \* history: the replies counted, by the request they were counted for
  prompt,    \* history: requests whose reply came in time, as Prompt says
  report     \* what finish has printed last

pinging == <<pc, sent, received, error, icmp_seqno, times, sums, divided,
             credit, prompt, report>>

NoTimes == [tsum |-> 0, tsum2 |-> 0, min |-> 0, max |-> 0]
Whole == [tsum |-> 0, tsum2 |-> 0]
NoReport == [sent |-> 0, received |-> 0, error |-> 0, sums |-> NoTimes, divided |-> Whole]

\* Between received++ and the end of that turn of the loop, and in finish(0).
Counting == {"counted", "summed", "squared", "least"}
Finishing == {"printed", "mean", "squares", "over"}

PingInit ==
  /\ pc = [p \in Pings |-> "off"]
  /\ sent = [p \in Pings |-> 0]
  /\ received = [p \in Pings |-> 0]
  /\ error = [p \in Pings |-> 0]
  /\ icmp_seqno = [p \in Pings |-> 1]
  /\ times = [p \in Pings |-> 0]
  /\ sums = [p \in Pings |-> NoTimes]
  /\ divided = [p \in Pings |-> Whole]
  /\ credit = [p \in Pings |-> {}]
  /\ prompt = [p \in Pings |-> {}]
  /\ report = [p \in Pings |-> NoReport]

counters == <<sent, received, error, icmp_seqno, times, sums, divided, credit>>

Moves(p, from, to) ==
  /\ pc[p] = from
  /\ pc' = [pc EXCEPT ![p] = to]
  /\ UNCHANGED prompt

\* main: the socket.
Start(p) ==
  /\ Moves(p, "off", "send")
  /\ Open(p)
  /\ UNCHANGED <<counters, report>>

\* ping: the request goes out, with a TTL that reaches every host.
SendEcho(p) ==
  /\ sent[p] # Count[p]
  /\ Moves(p, "send", "asked")
  /\ Send(p, icmp_seqno[p], 0, Distance(p))
  /\ UNCHANGED <<counters, report>>

CountSent(p) ==
  /\ Moves(p, "asked", "wait")
  /\ sent' = [sent EXCEPT ![p] = @ + 1]
  /\ UNCHANGED <<network, received, error, icmp_seqno, times, sums, divided, credit, report>>

\* Mutant of checkValidity: the sequence number is not compared.
AnyReply(p, pk) == pk.type = EchoReply /\ pk.by \in Pings

\* A reply to an echo request with this sequence number and the identifier 15,
\* which every ping has.
checkValidity(p, pk) ==
  /\ pk.type = EchoReply
  /\ pk.by \in Pings
  /\ pk.n = icmp_seqno[p]

\* ping ends, and main sleeps and goes on.
Done(p) ==
  /\ Moves(p, "wait", "send")
  /\ icmp_seqno' = [icmp_seqno EXCEPT ![p] = @ + 1]
  /\ times' = [times EXCEPT ![p] = 0]

CountReply(p) ==
  /\ Moves(p, "wait", "counted")
  /\ Take(p) /\ Taken(p).whole /\ checkValidity(p, Taken(p))
  /\ received' = [received EXCEPT ![p] = @ + 1]
  /\ credit' = [credit EXCEPT ![p] = @ \cup {[seq |-> icmp_seqno[p], reply |-> Taken(p)]}]
  /\ UNCHANGED <<sent, error, icmp_seqno, times, sums, divided, report>>

\* The rest of the same turn, a statement at a time.
Computes(p, from, to) ==
  /\ Moves(p, from, to)
  /\ UNCHANGED <<network, sent, received, error, icmp_seqno, times, credit>>

AddTime(p, sum, from, to) ==
  /\ Computes(p, from, to)
  /\ sums' = [sums EXCEPT ![p][sum] = @ + 1]
  /\ UNCHANGED <<divided, report>>

AddTimes(p) ==
  \/ AddTime(p, "tsum", "counted", "summed")
  \/ AddTime(p, "tsum2", "summed", "squared")
  \/ AddTime(p, "min", "squared", "least")

\* max, the last; ping ends.
EndReply(p) ==
  /\ Moves(p, "least", "send")
  /\ sums' = [sums EXCEPT ![p].max = @ + 1]
  /\ icmp_seqno' = [icmp_seqno EXCEPT ![p] = @ + 1]
  /\ times' = [times EXCEPT ![p] = 0]
  /\ UNCHANGED <<network, sent, received, error, divided, credit, report>>

\* Mutant of CountError: the wait goes on after the report of an error.
ErrorAndOn(p) ==
  /\ Moves(p, "wait", "wait")
  /\ Take(p) /\ Taken(p).whole /\ Taken(p).type = Unreachable
  /\ error' = [error EXCEPT ![p] = @ + 1]
  /\ UNCHANGED <<sent, received, icmp_seqno, times, sums, divided, credit, report>>

CountError(p) ==
  /\ Done(p)
  /\ Take(p) /\ Taken(p).whole /\ Taken(p).type = Unreachable
  /\ error' = [error EXCEPT ![p] = @ + 1]
  /\ UNCHANGED <<sent, received, sums, divided, credit, report>>

\* Mutant of Enough: the third stranger is the last.
EnoughOfTwo(k) == k = 2

\* Mutant of Enough: times <= 3.
EnoughOfFour(k) == k = 4

\* times < 3.
Enough(k) == k = 3

PassOver(p) ==
  /\ Take(p) /\ Taken(p).whole
  /\ ~checkValidity(p, Taken(p)) /\ Taken(p).type # Unreachable
  /\ \/ Enough(times[p] + 1) /\ Done(p)
     \/ /\ ~Enough(times[p] + 1)
        /\ Moves(p, "wait", "wait")
        /\ times' = [times EXCEPT ![p] = @ + 1]
        /\ UNCHANGED icmp_seqno
  /\ UNCHANGED <<sent, received, error, sums, divided, credit, report>>

Damaged(p) ==
  /\ Done(p)
  /\ Take(p) /\ ~Taken(p).whole
  /\ UNCHANGED <<sent, received, error, sums, divided, credit, report>>

Timeout(p) ==
  /\ Done(p)
  /\ Nothing(p)
  /\ UNCHANGED <<sent, received, error, sums, divided, credit, report>>

-----------------------------------------------------------------------------
(* The end. *)

Report(p, s, d) ==
  [sent |-> sent[p], received |-> received[p], error |-> error[p], sums |-> s, divided |-> d]

\* The two divisions of finish, which needs a reply for them.
Divisions(p) ==
  IF received[p] > 0
  THEN [tsum |-> divided[p].tsum + 1, tsum2 |-> divided[p].tsum2 + 1]
  ELSE divided[p]

\* The process ends, its memory with it.
Exit(p, from, to) ==
  /\ pc[p] = from
  /\ pc' = [pc EXCEPT ![p] = to]
  /\ Close(p)
  /\ sent' = [sent EXCEPT ![p] = 0]
  /\ received' = [received EXCEPT ![p] = 0]
  /\ error' = [error EXCEPT ![p] = 0]
  /\ icmp_seqno' = [icmp_seqno EXCEPT ![p] = 1]
  /\ times' = [times EXCEPT ![p] = 0]
  /\ sums' = [sums EXCEPT ![p] = NoTimes]
  /\ divided' = [divided EXCEPT ![p] = Whole]
  /\ credit' = [credit EXCEPT ![p] = {}]
  /\ prompt' = [prompt EXCEPT ![p] = {}]

\* main calls finish(0) after the last request, and there SIGINT is not blocked.
PrintCounts(p) ==
  /\ sent[p] = Count[p]
  /\ Computes(p, "send", IF received[p] > 0 THEN "printed" ELSE "over")
  /\ report' = [report EXCEPT ![p] = Report(p, NoTimes, Whole)]
  /\ UNCHANGED <<sums, divided>>

Divide(p, sum, from, to) ==
  /\ Computes(p, from, to)
  /\ divided' = [divided EXCEPT ![p][sum] = @ + 1]
  /\ UNCHANGED <<sums, report>>

PrintTimes(p) ==
  /\ Computes(p, "squares", "over")
  /\ report' = [report EXCEPT ![p] = Report(p, sums[p], divided[p])]
  /\ UNCHANGED <<sums, divided>>

Finish(p) ==
  \/ PrintCounts(p)
  \/ Divide(p, "tsum", "printed", "mean")
  \/ Divide(p, "tsum2", "mean", "squares")
  \/ PrintTimes(p)

\* exit(0)
Leave(p) ==
  /\ Exit(p, "over", "done")
  /\ UNCHANGED report

\* SIGINT, whose handler is finish too. It runs to its end, since a second
\* SIGINT waits for it; where it finds the sums divided, it divides them again.
finish(p) ==
  /\ Exit(p, pc[p], "done")
  /\ report' = [report EXCEPT ![p] = Report(p, sums[p], Divisions(p))]

Interrupt(p) ==
  /\ pc[p] \in {"send", "asked", "wait"} \cup Counting \cup Finishing
  /\ finish(p)

\* SIGQUIT, whose handler prints the statistics so far and changes nothing: but
\* select returns -1 when a signal comes, and the program exits.
Quit(p) ==
  /\ Exit(p, "wait", "failed")
  /\ UNCHANGED report

-----------------------------------------------------------------------------
\* The reply to the request that p waits for arrives behind packets that do not
\* end the wait: strangers, of which three do.
Prompt(p, pk) ==
  /\ pc[p] \in {"asked", "wait"}
  /\ pk.by = p /\ pk.n = icmp_seqno[p] /\ pk.type = EchoReply
  /\ times[p] + Len(queue[p]) < 3
  /\ \A k \in 1 .. Len(queue[p]) :
       LET ahead == queue[p][k]
       IN  /\ ahead.whole /\ ahead.type # Unreachable
           /\ ahead.type = EchoReply => ahead.by \notin Pings \/ ahead.n # icmp_seqno[p]

Arrive(pk) ==
  \E again, damaged \in BOOLEAN :
    /\ Arrives(pk, again, damaged)
    /\ prompt' = [p \in Pings |-> IF Prompt(p, pk) /\ ~damaged
                                  THEN prompt[p] \cup {pk.n} ELSE prompt[p]]
    /\ UNCHANGED <<pc, counters, report>>

\* What the program does by itself.
PingStep(p) ==
  \/ SendEcho(p) \/ CountSent(p) \/ CountReply(p) \/ AddTimes(p) \/ EndReply(p)
  \/ CountError(p) \/ PassOver(p) \/ Damaged(p) \/ Timeout(p)
  \/ Finish(p) \/ Leave(p)

PingNext ==
  \/ \E p \in Pings : Start(p) \/ PingStep(p) \/ Interrupt(p) \/ Quit(p)
  \/ \E pk \in air : Arrive(pk)
=============================================================================
