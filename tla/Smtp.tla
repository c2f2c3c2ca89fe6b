-------------------------------- MODULE Smtp --------------------------------
(***************************************************************************)
(* Sending mail in Assignment-4 (smtp.cpp, server.cpp, client.cpp). A      *)
(* client connects to the server of its domain, which forks a session      *)
(* (env_server). For a recipient of the other domain the session connects  *)
(* to the other server as a client of its own and relays the mail there    *)
(* (s2s_conn and so on), line by line. Commands and replies alternate; the *)
(* lines of a body are not answered, so a read may return several of them. *)
(* Line breaks are left out.                                               *)
(***************************************************************************)
EXTENDS Mailboxes

CONSTANTS
  Client,    \* runs of client.cpp, each of which sends one mail
  MaxAsks,   \* bound: addresses a client types after the first
  MaxLines,  \* lines of a body
  MaxBlanks, \* bound: empty lines a session adds to a copy
  Glued      \* whether a read may return several writes

ASSUME SmtpConstants ==
  /\ MaxAsks \in Nat \ {0} /\ MaxLines \in Nat /\ MaxBlanks \in Nat
  /\ Glued \in BOOLEAN

VARIABLES
  srv,       \* session: the domain it serves
  pc,        \* session: "closed" (none yet), where it is, or "gone"
  inbox,     \* session: what has been written to it and it has not read
  reply,     \* session: its reply its peer has not read, or Nothing
  sender,
  recvr,     \* session: the relay sessions of the mail
  recvr_id,  \* session: the rows of the mail
  ask,       \* session: the RCPT or VRFY it is relaying
  work,      \* session: exchanges with relays still to be made
  user,      \* client: what it does next, or the command whose reply it awaits
  to,        \* client: the address typed last
  ok,        \* client: recipients that were accepted
  asks,      \* client: addresses typed
  typed      \* client: lines typed

sessions == <<srv, pc, inbox, reply, sender, recvr, recvr_id, ask, work>>
clients == <<user, to, ok, asks, typed>>

\* The session of a client, and those its relaying opens.
Session == Client \X (0 .. MaxAsks)
Of(c) == <<c, 0>>
Relay(s) == {r \in Session : r[1] = s[1] /\ r[2] > 0}

Nothing == "nothing"
Nobody == "nobody"
Dot == <<".", 0>>
Empty == <<"", 0>>
Line(c, n) == <<c, n>>
Body(c) == [n \in 1 .. MaxLines |-> Line(c, n)]

Command(verb, arg) == [verb |-> verb, arg |-> arg]
Text(words) == [verb |-> "text", arg |-> words]

Is(s, verb) == inbox[s] # <<>> /\ Head(inbox[s]).verb = verb
Arg(s) == Head(inbox[s]).arg

\* Session s has read a command and replies.
Answer(s, text) ==
  /\ inbox' = [inbox EXCEPT ![s] = Tail(@)]
  /\ reply' = [reply EXCEPT ![s] = text]

\* The other end of the connection is closed.
Hung(s) ==
  IF s[2] = 0 THEN user[s[1]] \in {"left", "cut", "done"} ELSE pc[Of(s[1])] = "gone"

SmtpInit ==
  /\ srv = [s \in Session |-> Nothing]
  /\ pc = [s \in Session |-> "closed"]
  /\ inbox = [s \in Session |-> <<>>]
  /\ reply = [s \in Session |-> Nothing]
  /\ sender = [s \in Session |-> Nobody]
  /\ recvr = [s \in Session |-> <<>>]
  /\ recvr_id = [s \in Session |-> <<>>]
  /\ ask = [s \in Session |-> Nothing]
  /\ work = [s \in Session |-> <<>>]
  /\ user = [c \in Client |-> "out"]
  /\ to = [c \in Client |-> Nobody]
  /\ ok = [c \in Client |-> {}]
  /\ asks = [c \in Client |-> 0]
  /\ typed = [c \in Client |-> 0]

-----------------------------------------------------------------------------
(* A session: initiate_server and the outer loop of env_server. *)

\* A client gives the domain by which it has chosen the server: it is the right
\* one.
Helo(s) ==
  /\ pc[s] = "hello"
  /\ Is(s, "HELO")
  /\ Arg(s) = srv[s]
  /\ Answer(s, "250 OK")
  /\ pc' = [pc EXCEPT ![s] = "from"]
  /\ UNCHANGED <<tables, clients, srv, sender, recvr, recvr_id, ask, work>>

\* verify: a sender of another domain passes.
Verified(s, from) == Home[from] = srv[s] => from \in Users

MailFrom(s) ==
  /\ pc[s] = "from"
  /\ Is(s, "MAIL FROM")
  /\ sender' = [sender EXCEPT ![s] = Arg(s)]
  /\ IF Verified(s, Arg(s))
     THEN Answer(s, "250 OK") /\ pc' = [pc EXCEPT ![s] = "rcpt"]
     ELSE Answer(s, "550 No such user here") /\ UNCHANGED pc
  /\ UNCHANGED <<tables, clients, srv, recvr, recvr_id, ask, work>>

Quit(s) ==
  /\ pc[s] = "from"
  /\ Is(s, "QUIT")
  /\ Answer(s, "221 service closed")
  /\ pc' = [pc EXCEPT ![s] = "gone"]
  /\ UNCHANGED <<tables, clients, srv, sender, recvr, recvr_id, ask, work>>

\* Mutant of Eof: the inner loop goes on reading.
EofOutside(s) ==
  /\ pc[s] \in {"hello", "from"} \/ (pc[s] = "data" /\ reply[s] # Nothing)
  /\ inbox[s] = <<>>
  /\ Hung(s)
  /\ pc' = [pc EXCEPT ![s] = "gone"]
  /\ UNCHANGED <<tables, clients, srv, inbox, reply, sender, recvr, recvr_id, ask, work>>

\* The stream ends. initiate_server and the two loops take "" for a command,
\* which ends the process. The loop that reads a body ends when the connection was reset
\* over a reply that was not read; otherwise it reads "" for ever.
Eof(s) ==
  /\ pc[s] \in {"hello", "from", "rcpt"} \/ (pc[s] = "data" /\ reply[s] # Nothing)
  /\ inbox[s] = <<>>
  /\ Hung(s)
  /\ pc' = [pc EXCEPT ![s] = "gone"]
  /\ UNCHANGED <<tables, clients, srv, inbox, reply, sender, recvr, recvr_id, ask, work>>

-----------------------------------------------------------------------------
(* The inner loop of env_server: recipients. VRFY differs from RCPT only in  *)
(* what the relaying client does when it is refused.                         *)

AskedFor(s) == pc[s] = "rcpt" /\ (Is(s, "RCPT TO") \/ Is(s, "VRFY"))

RcptHere(s) ==
  /\ AskedFor(s)
  /\ Home[Arg(s)] = srv[s]
  /\ IF Arg(s) \in Users
     THEN LET new == insert(srv[s], Row(s[1], sender[s], Arg(s)))
          IN  /\ data' = [data EXCEPT ![srv[s]] = new.table]
              /\ recvr_id' = [recvr_id EXCEPT ![s] = Append(@, new.key)]
              /\ Answer(s, "250 OK")
     ELSE /\ Answer(s, "550 No such user here")
          /\ UNCHANGED <<data, recvr_id>>
  /\ UNCHANGED <<removed, clients, srv, pc, sender, recvr, ask, work>>

\* s2s_conn: the session connects as a client does.
RcptThere(s) ==
  /\ AskedFor(s)
  /\ Home[Arg(s)] # srv[s]
  /\ \E r \in Relay(s) :
       /\ pc[r] = "closed"
       /\ \A q \in Relay(s) : pc[q] = "closed" => r[2] <= q[2]
       /\ pc' = [pc EXCEPT ![s] = "conn hello", ![r] = "hello"]
       /\ srv' = [srv EXCEPT ![r] = Home[Arg(s)]]
       /\ ask' = [ask EXCEPT ![s] =
            [verb |-> Head(inbox[s]).verb, to |-> Arg(s), relay |-> r]]
       /\ inbox' = [inbox EXCEPT ![s] = Tail(@)]
       /\ reply' = [reply EXCEPT ![r] = "220 service ready"]
  /\ UNCHANGED <<tables, clients, sender, recvr, recvr_id, work>>

\* s2s_conn, initiate_client.
RelayHello(s) ==
  /\ LET r == ask[s].relay
     IN  \/ /\ pc[s] = "conn hello"
            /\ reply[r] = "220 service ready"
            /\ inbox' = [inbox EXCEPT ![r] = Append(@, Command("HELO", Home[ask[s].to]))]
            /\ reply' = [reply EXCEPT ![r] = Nothing]
            /\ pc' = [pc EXCEPT ![s] = "conn helo"]
         \/ /\ pc[s] = "conn helo"
            /\ reply[r] = "250 OK"
            /\ inbox' = [inbox EXCEPT ![r] = Append(@, Command("MAIL FROM", sender[s]))]
            /\ reply' = [reply EXCEPT ![r] = Nothing]
            /\ pc' = [pc EXCEPT ![s] = "conn"]
  /\ UNCHANGED <<tables, clients, srv, sender, recvr, recvr_id, ask, work>>

\* s2s_conn, the sender taken or not.
RelayFrom(s) ==
  /\ pc[s] = "conn"
  /\ LET r == ask[s].relay
     IN  /\ reply[r] # Nothing
         /\ IF reply[r] = "250 OK"
            THEN /\ inbox' = [inbox EXCEPT ![r] =
                      Append(@, Command(ask[s].verb, ask[s].to))]
                 /\ reply' = [reply EXCEPT ![r] = Nothing]
                 /\ pc' = [pc EXCEPT ![s] = "conn to"]
            ELSE /\ reply' = [reply EXCEPT ![r] = Nothing,
                                          ![s] = "Syntax Error or Failure"]
                 /\ pc' = [pc EXCEPT ![s] = "rcpt"]
                 /\ UNCHANGED inbox
  /\ UNCHANGED <<tables, clients, srv, sender, recvr, recvr_id, ask, work>>

\* s2s_conn, the recipient taken or not.
RelayTo(s) ==
  /\ pc[s] = "conn to"
  /\ LET r == ask[s].relay
     IN  \/ /\ reply[r] = "250 OK"
            /\ recvr' = [recvr EXCEPT ![s] = Append(@, r)]
            /\ reply' = [reply EXCEPT ![r] = Nothing, ![s] = "250 OK"]
            /\ pc' = [pc EXCEPT ![s] = "rcpt"]
            /\ UNCHANGED inbox
         \/ /\ reply[r] = "550 No such user here"
            /\ ask[s].verb = "RCPT TO"
            /\ reply' = [reply EXCEPT ![r] = Nothing, ![s] = "550 No such user here"]
            /\ pc' = [pc EXCEPT ![s] = "rcpt"]
            /\ UNCHANGED <<inbox, recvr>>
         \/ /\ reply[r] = "550 No such user here"
            /\ ask[s].verb = "VRFY"
            /\ reply' = [reply EXCEPT ![r] = Nothing]
            /\ inbox' = [inbox EXCEPT ![r] = Append(@, Command("RSET", Nobody))]
            /\ pc' = [pc EXCEPT ![s] = "conn rset"]
            /\ UNCHANGED recvr
  /\ UNCHANGED <<tables, clients, srv, sender, recvr_id, ask, work>>

RelayRset(s) ==
  /\ pc[s] = "conn rset"
  /\ LET r == ask[s].relay
     IN  /\ reply[r] # Nothing
         /\ reply' = [reply EXCEPT ![r] = Nothing, ![s] = "550 No such user here"]
  /\ pc' = [pc EXCEPT ![s] = "rcpt"]
  /\ UNCHANGED <<tables, clients, srv, inbox, sender, recvr, recvr_id, ask, work>>

-----------------------------------------------------------------------------
(* Exchanges with the relays of the mail, one after the other. *)

Exchange(r, verb) == [relay |-> r, verb |-> verb, asked |-> FALSE]
ToRelays(s, verb) == [n \in 1 .. Len(recvr[s]) |-> Exchange(recvr[s][n], verb)]

RelayAsk(s) ==
  /\ work[s] # <<>>
  /\ LET x == Head(work[s])
         written == IF x.verb = "." THEN Text(<<Dot>>) ELSE Command(x.verb, Nobody)
     IN  /\ ~x.asked
         /\ inbox' = [inbox EXCEPT ![x.relay] = Append(@, written)]
         /\ work' = [work EXCEPT ![s] = <<[x EXCEPT !.asked = TRUE]>> \o Tail(@)]
  /\ UNCHANGED <<tables, clients, srv, pc, reply, sender, recvr, recvr_id, ask>>

RelayAnswered(s) ==
  /\ work[s] # <<>>
  /\ Head(work[s]).asked
  /\ reply[Head(work[s]).relay] # Nothing
  /\ reply' = [reply EXCEPT ![Head(work[s]).relay] = Nothing]
  /\ work' = [work EXCEPT ![s] = Tail(@)]
  /\ UNCHANGED <<tables, clients, srv, pc, inbox, sender, recvr, recvr_id, ask>>

\* RSET: s2s_rset of every relay, ...
Rset(s) ==
  /\ pc[s] = "rcpt"
  /\ Is(s, "RSET")
  /\ inbox' = [inbox EXCEPT ![s] = Tail(@)]
  /\ work' = [work EXCEPT ![s] = [n \in 1 .. 2 * Len(recvr[s]) |->
       Exchange(recvr[s][(n + 1) \div 2], IF n % 2 = 1 THEN "RSET" ELSE "QUIT")]]
  /\ pc' = [pc EXCEPT ![s] = "rset"]
  /\ UNCHANGED <<tables, clients, srv, reply, sender, recvr, recvr_id, ask>>

\* ... then the arrays are zeroed; their lengths are not reset, and the rows
\* inserted for the mail stay.
RsetDone(s) ==
  /\ pc[s] = "rset"
  /\ work[s] = <<>>
  /\ reply' = [reply EXCEPT ![s] = "250 OK"]
  /\ sender' = [sender EXCEPT ![s] = Nobody]
  /\ recvr' = [recvr EXCEPT ![s] = [n \in 1 .. Len(@) |-> Of(s[1])]]
  /\ recvr_id' = [recvr_id EXCEPT ![s] = [n \in 1 .. Len(@) |-> 0]]
  /\ pc' = [pc EXCEPT ![s] = "from"]
  /\ UNCHANGED <<tables, clients, srv, inbox, ask, work>>

\* The client is told to start before the relays are.
Data(s) ==
  /\ pc[s] = "rcpt"
  /\ Is(s, "DATA")
  /\ recvr[s] # <<>> \/ recvr_id[s] # <<>>
  /\ Answer(s, "354 start mail input")
  /\ work' = [work EXCEPT ![s] = ToRelays(s, "DATA")]
  /\ pc' = [pc EXCEPT ![s] = "start"]
  /\ UNCHANGED <<tables, clients, srv, sender, recvr, recvr_id, ask>>

\* Any other command: env_server begins anew, and its arrays stay as they are.
Invalid(s) ==
  /\ pc[s] = "rcpt"
  /\ inbox[s] # <<>>
  /\ Head(inbox[s]).verb \notin {"RCPT TO", "VRFY", "RSET"}
  /\ Is(s, "DATA") => recvr[s] = <<>> /\ recvr_id[s] = <<>>
  /\ Answer(s, "Invalid Command")
  /\ pc' = [pc EXCEPT ![s] = "from"]
  /\ UNCHANGED <<tables, clients, srv, sender, recvr, recvr_id, ask, work>>

StartDone(s) ==
  /\ pc[s] = "start"
  /\ work[s] = <<>>
  /\ pc' = [pc EXCEPT ![s] = "data"]
  /\ UNCHANGED <<tables, clients, srv, inbox, reply, sender, recvr, recvr_id, ask, work>>

-----------------------------------------------------------------------------
(* The loop that reads a body. *)

\* Mutant of Readable: several writes are always taken together.
ReadableTogether(s) == {n \in 1 .. Len(inbox[s]) : n = Len(inbox[s])}

\* One read returns one write or, when they lie close together, several.
Readable(s) == {n \in 1 .. Len(inbox[s]) : Glued \/ n = 1}

Words(s, n) ==
  LET first[k \in 0 .. n] == IF k = 0 THEN <<>> ELSE first[k - 1] \o inbox[s][k].arg
  IN  first[n]

Rest(s, n) == SubSeq(inbox[s], n + 1, Len(inbox[s]))

\* Mutant of ReadText: a line is relayed or written here, not both.
ReadTextOnce(s) ==
  /\ pc[s] = "data"
  /\ \E n \in Readable(s) :
       LET words == Words(s, n)
           relays == {recvr[s][k] : k \in 1 .. Len(recvr[s])}
           keys == {recvr_id[s][k] : k \in 1 .. Len(recvr_id[s])}
       IN  /\ words # <<Dot>>
           /\ inbox' = [q \in Session |->
                IF q = s THEN Rest(s, n)
                ELSE IF q \in relays THEN Append(inbox[q], Text(words)) ELSE inbox[q]]
           /\ data' = IF relays # {} THEN data
                      ELSE [data EXCEPT ![srv[s]] = update(srv[s], keys, words)]
  /\ UNCHANGED <<removed, clients, srv, pc, reply, sender, recvr, recvr_id, ask, work>>

ReadText(s) ==
  /\ pc[s] = "data"
  /\ \E n \in Readable(s) :
       LET words == Words(s, n)
           relays == {recvr[s][k] : k \in 1 .. Len(recvr[s])}
           keys == {recvr_id[s][k] : k \in 1 .. Len(recvr_id[s])}
       IN  /\ words # <<Dot>>
           /\ inbox' = [q \in Session |->
                IF q = s THEN Rest(s, n)
                ELSE IF q \in relays THEN Append(inbox[q], Text(words)) ELSE inbox[q]]
           /\ data' = [data EXCEPT ![srv[s]] = update(srv[s], keys, words)]
  /\ UNCHANGED <<removed, clients, srv, pc, reply, sender, recvr, recvr_id, ask, work>>

\* The client died in the body, and the session reads "" for ever: its own rows
\* get an empty line each time, while nothing is sent to the relays.
ReadNothing(s) ==
  /\ pc[s] = "data"
  /\ inbox[s] = <<>>
  /\ Hung(s)
  /\ reply[s] = Nothing
  /\ LET keys == {recvr_id[s][k] : k \in 1 .. Len(recvr_id[s])}
     IN  /\ \A n \in keys : Len(data[srv[s]][n].message) < MaxLines + MaxBlanks
         /\ data' = [data EXCEPT ![srv[s]] = update(srv[s], keys, <<Empty>>)]
  /\ UNCHANGED <<removed, clients, sessions>>

\* Mutant of ReadDot: the relays are not told.
ReadDotHere(s) ==
  /\ pc[s] = "data"
  /\ \E n \in Readable(s) :
       /\ Words(s, n) = <<Dot>>
       /\ inbox' = [inbox EXCEPT ![s] = Rest(s, n)]
  /\ pc' = [pc EXCEPT ![s] = "dot"]
  /\ UNCHANGED <<tables, clients, srv, reply, sender, recvr, recvr_id, ask, work>>

ReadDot(s) ==
  /\ pc[s] = "data"
  /\ \E n \in Readable(s) :
       /\ Words(s, n) = <<Dot>>
       /\ inbox' = [inbox EXCEPT ![s] = Rest(s, n)]
  /\ work' = [work EXCEPT ![s] = ToRelays(s, ".")]
  /\ pc' = [pc EXCEPT ![s] = "dot"]
  /\ UNCHANGED <<tables, clients, srv, reply, sender, recvr, recvr_id, ask>>

\* The relays have taken the mail, and so has the session; s2s_quit.
DotDone(s) ==
  /\ pc[s] = "dot"
  /\ work[s] = <<>>
  /\ reply' = [reply EXCEPT ![s] = "250 OK"]
  /\ work' = [work EXCEPT ![s] = ToRelays(s, "QUIT")]
  /\ pc' = [pc EXCEPT ![s] = "quit"]
  /\ UNCHANGED <<tables, clients, srv, inbox, sender, recvr, recvr_id, ask>>

QuitDone(s) ==
  /\ pc[s] = "quit"
  /\ work[s] = <<>>
  /\ pc' = [pc EXCEPT ![s] = "from"]
  /\ UNCHANGED <<tables, clients, srv, inbox, reply, sender, recvr, recvr_id, ask, work>>

SessionStep(s) ==
  \/ Helo(s) \/ MailFrom(s) \/ Quit(s) \/ Eof(s)
  \/ RcptHere(s) \/ RcptThere(s) \/ RelayHello(s) \/ RelayFrom(s) \/ RelayTo(s) \/ RelayRset(s)
  \/ RelayAsk(s) \/ RelayAnswered(s)
  \/ Rset(s) \/ RsetDone(s) \/ Data(s) \/ Invalid(s) \/ StartDone(s)
  \/ ReadText(s) \/ ReadNothing(s) \/ ReadDot(s) \/ DotDone(s) \/ QuitDone(s)

-----------------------------------------------------------------------------
(* The client. *)

\* Client c writes, and is then at next.
Write(c, what, next) ==
  /\ inbox' = [inbox EXCEPT ![Of(c)] = Append(@, what)]
  /\ user' = [user EXCEPT ![c] = next]

Reads(c, text) ==
  /\ reply[Of(c)] = text
  /\ reply' = [reply EXCEPT ![Of(c)] = Nothing]

\* The address typed first gives the domain, and with it the server.
Connect(c) ==
  /\ user[c] = "out"
  /\ \E a \in Address :
       /\ srv' = [srv EXCEPT ![Of(c)] = Home[a]]
       /\ to' = [to EXCEPT ![c] = a]
  /\ pc' = [pc EXCEPT ![Of(c)] = "hello"]
  /\ reply' = [reply EXCEPT ![Of(c)] = "220 service ready"]
  /\ user' = [user EXCEPT ![c] = "hello"]
  /\ UNCHANGED <<tables, inbox, sender, recvr, recvr_id, ask, work, ok, asks, typed>>

\* After a refusal another sender is typed, of whichever domain.
Retype(c) ==
  /\ user[c] = "from"
  /\ asks[c] < MaxAsks
  /\ \E a \in Address : Write(c, Command("MAIL FROM", a), "MAIL FROM")
  /\ asks' = [asks EXCEPT ![c] = @ + 1]
  /\ UNCHANGED <<tables, srv, pc, reply, sender, recvr, recvr_id, ask, work, to, ok, typed>>

\* A round of addresses begins with VRFY or not and is the last one when an
\* address was accepted.
AskTo(c) ==
  /\ user[c] = "to"
  /\ asks[c] < MaxAsks
  /\ \E a \in Address, verb \in {"RCPT TO", "VRFY"} :
       /\ verb = "VRFY" => ok[c] = {}
       /\ Write(c, Command(verb, a), verb)
       /\ to' = [to EXCEPT ![c] = a]
  /\ asks' = [asks EXCEPT ![c] = @ + 1]
  /\ UNCHANGED <<tables, srv, pc, reply, sender, recvr, recvr_id, ask, work, ok, typed>>

\* An ill-formed address to be verified makes the client quit at once, though
\* the session is waiting for a recipient.
GiveUp(c) ==
  /\ user[c] = "to"
  /\ ok[c] = {}
  /\ Write(c, Command("QUIT", Nobody), "QUIT")
  /\ UNCHANGED <<tables, srv, pc, reply, sender, recvr, recvr_id, ask, work, to, ok, asks, typed>>

StartData(c) ==
  /\ user[c] = "to"
  /\ ok[c] # {}
  /\ Write(c, Command("DATA", Nobody), "DATA")
  /\ UNCHANGED <<tables, srv, pc, reply, sender, recvr, recvr_id, ask, work, to, ok, asks, typed>>

Type(c) ==
  /\ user[c] = "body"
  /\ typed[c] < MaxLines
  /\ typed' = [typed EXCEPT ![c] = @ + 1]
  /\ Write(c, Text(<<Line(c, typed[c] + 1)>>), "body")
  /\ UNCHANGED <<tables, srv, pc, reply, sender, recvr, recvr_id, ask, work, to, ok, asks>>

TypeDot(c) ==
  /\ user[c] = "body"
  /\ typed[c] = MaxLines
  /\ Write(c, Text(<<Dot>>), ".")
  /\ UNCHANGED <<tables, srv, pc, reply, sender, recvr, recvr_id, ask, work, to, ok, asks, typed>>

\* The user closes the terminal. "cut": in the middle of a body.
Die(c) ==
  /\ user[c] \notin {"out", "left", "cut", "done"}
  /\ user' = [user EXCEPT ![c] =
       CASE @ \in {"DATA", "body"} -> "cut" [] @ = "sent" -> "done" [] OTHER -> "left"]
  /\ UNCHANGED <<tables, sessions, to, ok, asks, typed>>

\* initiate_client; then the sender.
Hello(c) ==
  /\ \/ /\ user[c] = "hello"
        /\ Reads(c, "220 service ready")
        /\ Write(c, Command("HELO", Home[to[c]]), "HELO")
     \/ /\ user[c] = "HELO"
        /\ Reads(c, "250 OK")
        /\ Write(c, Command("MAIL FROM", to[c]), "MAIL FROM")
  /\ UNCHANGED <<tables, srv, pc, sender, recvr, recvr_id, ask, work, to, ok, asks, typed>>

\* env_client_from.
FromAnswered(c) ==
  /\ user[c] = "MAIL FROM"
  /\ \/ Reads(c, "250 OK") /\ user' = [user EXCEPT ![c] = "to"]
     \/ Reads(c, "550 No such user here") /\ user' = [user EXCEPT ![c] = "from"]
  /\ UNCHANGED <<tables, srv, pc, inbox, sender, recvr, recvr_id, ask, work, to, ok, asks, typed>>

\* env_client_to.
Accepted(c) ==
  /\ user[c] \in {"RCPT TO", "VRFY"}
  /\ Reads(c, "250 OK")
  /\ ok' = [ok EXCEPT ![c] = @ \cup {to[c]}]
  /\ user' = [user EXCEPT ![c] = "to"]
  /\ UNCHANGED <<tables, srv, pc, inbox, sender, recvr, recvr_id, ask, work, to, asks, typed>>

Refused(c) ==
  /\ user[c] = "RCPT TO"
  /\ Reads(c, "550 No such user here")
  /\ user' = [user EXCEPT ![c] = "to"]
  /\ UNCHANGED <<tables, srv, pc, inbox, sender, recvr, recvr_id, ask, work, to, ok, asks, typed>>

\* A failed VRFY resets the mail and quits; any other text ends the client.
Reset(c) ==
  /\ \/ /\ user[c] = "VRFY"
        /\ Reads(c, "550 No such user here")
        /\ Write(c, Command("RSET", Nobody), "RSET")
     \/ /\ user[c] \in {"RCPT TO", "VRFY"}
        /\ Reads(c, "Syntax Error or Failure")
        /\ Write(c, Command("RSET", Nobody), "RSET and exit")
  /\ UNCHANGED <<tables, srv, pc, sender, recvr, recvr_id, ask, work, to, ok, asks, typed>>

ResetDone(c) ==
  /\ Reads(c, "250 OK")
  /\ \/ user[c] = "RSET" /\ Write(c, Command("QUIT", Nobody), "QUIT")
     \/ /\ user[c] = "RSET and exit"
        /\ user' = [user EXCEPT ![c] = "left"]
        /\ UNCHANGED inbox
  /\ UNCHANGED <<tables, srv, pc, sender, recvr, recvr_id, ask, work, to, ok, asks, typed>>

DataStarted(c) ==
  /\ user[c] = "DATA"
  /\ Reads(c, "354 start mail input")
  /\ user' = [user EXCEPT ![c] = "body"]
  /\ UNCHANGED <<tables, srv, pc, inbox, sender, recvr, recvr_id, ask, work, to, ok, asks, typed>>

\* "Mail sent successfully!"
Sent(c) ==
  /\ user[c] = "."
  /\ Reads(c, "250 OK")
  /\ Write(c, Command("QUIT", Nobody), "sent")
  /\ UNCHANGED <<tables, srv, pc, sender, recvr, recvr_id, ask, work, to, ok, asks, typed>>

Bye(c) ==
  /\ user[c] \in {"QUIT", "sent"}
  /\ Reads(c, "221 service closed")
  /\ user' = [user EXCEPT ![c] = IF @ = "sent" THEN "done" ELSE "left"]
  /\ UNCHANGED <<tables, srv, pc, inbox, sender, recvr, recvr_id, ask, work, to, ok, asks, typed>>

\* The connection stays open until the client ends.
ByeIgnored(c) ==
  /\ user[c] = "QUIT"
  /\ Reads(c, "Invalid Command")
  /\ user' = [user EXCEPT ![c] = "lingering"]
  /\ UNCHANGED <<tables, srv, pc, inbox, sender, recvr, recvr_id, ask, work, to, ok, asks, typed>>

\* What the user does, and what the client does of its own accord.
UserStep(c) ==
  \/ Connect(c) \/ Retype(c) \/ AskTo(c) \/ GiveUp(c) \/ StartData(c) \/ Type(c)
  \/ TypeDot(c) \/ Die(c)

ClientStep(c) ==
  \/ Hello(c) \/ FromAnswered(c) \/ Accepted(c) \/ Refused(c) \/ Reset(c) \/ ResetDone(c)
  \/ DataStarted(c) \/ Sent(c) \/ Bye(c) \/ ByeIgnored(c)

SmtpNext ==
  \/ \E s \in Session : SessionStep(s)
  \/ \E c \in Client : UserStep(c) \/ ClientStep(c)
=============================================================================
