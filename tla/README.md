# Networks-Lab-Assignments: a verification project

The repository holds seven independent network programs, each a server (or two),
its clients and the protocol between them. They share no code and no state, so
this project is a set of independent groups of modules, one group per program.
All of them are modelled, checked and in part proved, but for the Assignment-4A
variant of the mail client, whose server is not in the repository.

Everything here is TLA+ for TLC, and proofs for TLAPS. To check one run:

    tlc -config tickets.cfg MCTickets.tla
    tlapm MirrorProofs.tla

`PROJECT.json` maps every definition that models code to its lines, and lists
the runs, the mutants that show each property can fail, the findings, the
hazards and the theorems.

## 1. Inventory

| Program | State | Operations | What is hard about it | Status |
|---|---|---|---|---|
| **RLTP** (Assignment-3): `class rltp` in `rltp.cpp`, driven by `client_test.cpp` and `server_test.cpp` | per end: `connected`, `src_seq_no`, `dest_seq_no`, `destport`, `dest_addr`, the retry count of the wait it is in; the raw sockets' queues | `connect`, `accept_connect`, `rtlp_send_message`, `rtlp_receive_message`, `close`, `accept_close` | loss, duplication, reordering, damage, late answers, numbers that wrap, packets of an earlier connection, two wait loops that meet | modelled |
| **Mirrored database** (Lab-Test): `server_prim.cpp`, `server_back.cpp`, `client.cpp` | primary: `prod`, `buyreq`; backup: its own `prod`; a TCP stream between them; datagrams | BROWSE, BUY, the update of the backup and its acknowledgement | an acknowledgement after the timeout; messages merged in the stream; a backup that stands still or ends, and takes the primary with it | modelled |
| **Ticket counter** (Assignment-2): `server.cpp`, `allocate.cpp`, `client.cpp` | berths `t1`, the request's `person`, `flg`; the connections, the priority queue | `allocator_berth` (four phases of trial and undo), accept/select/pop, the table thread `avl` | partial failure and undo, a thread that reads without a lock, agents that die, a full train | modelled |
| **Mail** (Assignment-4): `smtp.cpp`, `server.cpp`, `client.cpp`, `POPServerSession.cpp`, `POPServer.cpp`, `POPClient.cpp`, `sql.cpp`, `sql_init.cpp` | table `data` of each domain; per session `sender`, `recvr`, `recvr_id`; per POP session `msglist`, `to_delete`, `read` | greeting, HELO, MAIL FROM, RCPT TO, VRFY, RSET, DATA, QUIT and relaying to the other server; USER/PASS, LIST, RETR, DELE, QUIT | a process per connection, a relay per foreign recipient, lines without frames, clients that die, two readers that delete while mail arrives | modelled |
| **News service** (Assignment-1): `all_server.c`, `all_client.c` | the files of two directories; per session the article at hand or the listing shown; one UDP server with one `cl_addr` and one date | list and read, report, delete what is older than a date | stale listings, two reporters in one second, a file that is open and empty, messages without frames, two administrators in one dialog | modelled |
| **ping** (Assignment-6): `ping.c` | the counters, the sequence number, the strangers passed over | send, wait, count, report | late and doubled replies, packets of other programs, signals between two statements | modelled |
| **traceroute** (Assignment-5): `traceroute.c` | the hop, the probes left, the flag | probe, wait, print, next hop | late answers counted for the next probe or hop, packets of other programs | modelled |
| **Mail client variant** (Assignment-4A) | as the mail client | as the mail client | its server is not in the repository | not modelled |

Components talk to each other only inside a program: by packets (RLTP), by UDP
datagrams and one TCP stream (Lab-Test), by TCP connections (tickets, mail,
news), by UDP (the administrators of the news), and in three places by shared
state: the array `t1` that two threads of the ticket server use, the table `data`
that the SMTP and POP sessions use, and the directories that the processes of the
news service use. One exception: ping and traceroute run on one host, and each
raw socket gets the packets of both.

What would make each correct:

- **RLTP**: two streams, in order, at most once, "sent" only if received; the
  two ends agree whether they are connected; retries end.
- **Mirror**: clients see one atomic stock; the backup follows the primary and
  never shows less stock than there is; a backup that stands still or ends does
  not block clients as long as the primary runs.
- **Tickets**: a request gets a free berth for each passenger or none; a trial
  leaves no trace; preferences are met if a coach can meet them; every watched
  request is answered.
- **Mail**: a copy of a mail is the lines typed, in order; "sent" means delivered
  to all accepted recipients on both servers; a number in a listing keeps its
  meaning; sessions end with their clients.
- **News**: a file is one article, filed under its own name and never lost
  without a date that says so; a reader gets the article it saw beside the number
  it typed; a sweep leaves nothing too old behind; a dialog does not get stuck.
- **ping**: every reply is counted once, for the request it answers, and a reply
  that is in time is counted; what is printed adds up between whichever statements
  a signal comes, but for the average that SIGINT in `finish(0)` divides again.
- **traceroute**: a line names a host no farther than its hop; a trace ends at
  its destination and only there.

## 2. Modules

| Module | What it is |
|---|---|
| `Rltp` | both ends, both programs and the network |
| `RltpChannel` | the abstract specification: two streams |
| `RltpProperties` | type invariant, safety, liveness, and `Inv`, the inductive invariant behind the safety of the data |
| `Mirror` | clients, primary, stream, backup |
| `Store` | the abstract specification: one atomic stock |
| `MirrorProperties` | properties, and the refinement mapping to `Store` |
| `Berths` | the allocator, passenger by passenger, and the table |
| `Tickets` | extends `Berths` with agents, select loop and priority queue |
| `Office` | the abstract specification: all berths or none |
| `TicketsProperties` | properties, and the refinement mapping to `Office` |
| `Mailboxes` | the table `data` of each domain and the statements of `sql.cpp` |
| `Smtp` | extends `Mailboxes`: sessions, relays and clients |
| `Pop` | extends `Mailboxes`: POP sessions and their users |
| `Mail` | composes `Smtp` and `Pop` on the same tables |
| `MailProperties` | properties |
| `Dump` | the directories of the news service: filing, listing, deleting |
| `Newsroom` | extends `Dump`: reporters and readers, with their sessions |
| `Sweep` | extends `Dump`: administrators and the UDP server |
| `News` | composes `Newsroom` and `Sweep` on the same directories, with a clock |
| `NewsProperties` | properties |
| `Icmp` | the network and the raw sockets of one host |
| `Ping` | extends `Icmp`: ping |
| `Traceroute` | extends `Icmp`: traceroute |
| `Probes` | composes pings and traceroutes on one host |
| `ProbesProperties` | properties |
| `MCRltp`, `MCMirror`, `MCTickets`, `MCMail`, `MCNews`, `MCProbes` | values for TLC |
| `RltpProofs`, `MirrorProofs`, `TicketsProofs`, `MailProofs`, `NewsProofs`, `ProbesProofs` | proofs for TLAPS, one module per program |
| `MailDeliveryProofs` | extends `MailProofs`: how the lines of a body come to the rows of the recipients |
| `RltpStreamProofs` | extends `RltpProofs`: the exchange of data, the refinement of `RltpChannel` and the first connection |

A definition with "Mutant of" in its comment is not part of a model: it is the
code with a plausible bug, and stands in place of the definition after it when a
property is tested for being able to fail.

### Rltp and the code

Every wait of the class is the loop `while (retry < MAX_RETRY) { send; select;
recv; check; retry++ }`. `pc[e]` names the call an end is blocked in; one action
is a return of select with its receive, its check and what follows up to the next
select (`ConnectRecv`, `AcceptConnectRecv`, `SendRecv`, `CloseRecv`,
`AcceptCloseRecv`, or `Timeout`). `Again` is the loop's bottom (count, test, send
the same packet again), `GiveUp` what each caller does when tries run out: all
exit but `accept_close`, which tests the wrong variable. `recv_message` stores
the sender of *whatever* arrives in `dest_addr`, so `Recv` does too, and
`Transmit` routes a packet by it; a packet reaches every raw socket of a host.
Data is a number (the request's counter); the length of a message is kept since
the sequence numbers count bytes; the checksum is the bit `valid`. `Plus` and
`Minus` are unsigned arithmetic modulo `SeqMod`; that `send_ACK` takes 0 for "no
connection" is in `ReceiveData` and `ConnectRecv`. The variables `log`, `acked`,
`delivered` and `wrapped` are history.

### Mirror and the code

`pc = "receive"` is the primary in `recvfrom`, `pc = "ack"` in `tcp_read` with
its 2 second select. `ReceiveSale` is everything from the loop over the products
to the write to the backup, in the code's order: the stock is reduced before the
backup knows. `ReadAck(k)` and `Update(k)` take `k` messages of the stream in one
read and parse the first, as the code does; `Timeout` leaves the acknowledgement
on its way. UDP messages are not lost: everything runs on 127.0.0.1, and a
datagram to a port that is not bound yet, or no longer, is dropped (`Ask`).

The backup may end at any moment (`BackupEnds`), and `backup` is what the
primary's socket then knows, with the rules of TCP on Linux. Answers that were
sent before are still read first. Afterwards a read returns 0 at once (`closed`;
`ReadEnd`): the sale is not acknowledged, and its client is answered. The first
write after the end is still accepted, and refused by the other side
(`refused`); the second fails, with SIGPIPE or `exit(1)`, and the primary ends
(`tcp_write`). A backup that leaves messages unread when it ends resets the
connection (`reset`): a read fails, and the primary ends (`ReadFails`), or else
the next write ends it. In each case the primary ends in a sale that it has committed,
`pc = "ended"`; the requests in its socket are lost with it. A backup that is
started again only waits in the queue of `listen`, since the primary accepts one
connection, so the model has no restart. The primary itself is not killed.

### Berths, Tickets and the code

`step` is the phase of `allocator_berth`: `each` (every coach, all preferences),
`coach` and `fill` (one coach), `any` and `rest` (the whole part), `commit`. One
action is one passenger, since between two of them the table thread may look.
Two of the code's peculiarities are kept on purpose: `person` is not cleared
between the coaches of the second phase, and `mod`, once set to 1 by a passenger
without a preference, stays 1 for the rest of the coach (`stuck`). `Tickets`
adds the loop accept-all, select, read-all, pop-all, with select blind to the
listening socket and without a timeout. `avl` changes nothing; `Counted` is what
it would show.

### Smtp, Pop and the code

A session is `<<client, n>>`: `n = 0` the one the client's connection is served
by, `n > 0` the ones on the other server that its relaying opens, one for each
foreign recipient (`s2s_conn`). `pc` follows `env_server`: `hello` (the greeting
is out, HELO is awaited), `from` (outer loop), `rcpt` (inner loop), `conn hello`,
`conn helo`, `conn`, `conn to`, `conn rset` (inside `s2s_conn`), `start`,
`data`, `dot`, `quit`, `rset` (loops over the relays, whose remaining exchanges
are `work`). Commands and replies alternate, so one reply per session is enough;
the lines of a body are not answered, so `inbox` is a queue, and with `Glued` one
read returns any number of them. `Eof` is how each of the loops takes the end of
a stream. A client is `user`: what it does next, or the command whose reply it
waits for; it may die at any moment, and `cut` is a death between DATA and the
dot. A session whose client died there reads the empty string for ever, and each
read appends an empty line to every copy (`ReadNothing`). The lines of a body are
those the client writes: a line left blank at the terminal makes it write the line
before once more (`client.cpp:240`), which is left out.

In `Pop` a command and its reply are one step, because the client sends nothing
else meanwhile; between two commands anything may happen to the table. Deletions
and read marks are put off until the next LIST or QUIT, as in the code. `screen`,
`deleted` and `opened` are history: what the user saw and meant. Readers name
their account, so two of them may be at one mailbox: the server takes no lock.

### Dump, Newsroom, Sweep and the code

A file is its name, the article it was made for (`inode`) and the articles whose
text it holds. `OpenFile` and `WriteFile` are `fopen` and `fclose`, between which
the file is empty, may be listed, read or unlinked, and may be opened again by a
session that makes the same name in the same second. `client` is what a
reporter's user is asked for, `session` what the server's process waits for;
`pending` are messages between them, which `ReadIdentity` alone may read together.
A reader's client and session take turns, so `reader` is both. The administrator's
server is one process: `server` is what it waits for, or the directory it goes
through; `Visit` is one turn of the `readdir` loop, and a file made during the
loop may or may not be seen. `Parsed` is what the arithmetic on the characters
makes of a message that is no date: the password `cse13` becomes a year far
ahead, the letters `y` and `n` dates long past. `filed`, `meant`, `shown`,
`swallowed`, `due` and `asked` are history. An administrator of the model is one
run of the client, so "one administrator" means one such run, not one person.

### Icmp, Ping, Traceroute and the code

`air` is a set, so answers overtake each other, and any of them may stay there for
ever, which is a loss. `Arrives` puts a copy into the socket of every program, as
a raw ICMP socket does. In `Ping` an action is what happens between two points
where a signal makes a difference: `SendEcho` and `CountSent` are `sendto` and
`sent++`, a turn of the loop `while(times < 3)` is one action, but a valid reply
takes `CountReply` (`received++`), three `AddTimes` (`tsum`, `tsum2`, `min`) and
`EndReply` (`max`). `sums` says of how many replies each of the four holds the time,
which is what a line of the times can be wrong about. The `finish(0)` of `main` is
`PrintCounts`, two `Divide`, `PrintTimes` and `Leave`, and SIGINT may come between
any two of them (`Interrupt`); its handler is `finish` too, and what `divided` says
has been divided is divided again. The handler is one action: while it runs, SIGINT
is blocked (the BSD semantics of glibc's `signal`), and SIGQUIT only prints. Stores
to the counters are taken to happen in program order, and an assignment to a
`double` at once. `Quit` is SIGQUIT while select waits: select fails, and the
program exits without printing. In `Traceroute` one action is a probe sent, or what
the select after it returns. `First` is the test that lets only the first probe of
a hop print a line and raise the flag. `credit` and `prompt` are history.

## 3. Runs

| Run | Instance | What it shows |
|---|---|---|
| `rltp_safety` | two hosts, 2 requests, 2 connections, 3 faults of any kind, lengths 1 and 2, numbers modulo 5; 519,087 states | the streams are prefixes, "sent" means received, expectations match (`NumbersAgree`), the first connection is opened and closed at both ends alike but for late copies of a connection that carried nothing (`EndsAgree`), retries run out only after a fault, the class implements `RltpChannel`; `Inv` holds until a number wraps |
| `rltp_live` | 2 requests, 2 connections, 2 faults, fairness; 19,193 states | every wait loop ends; without faults every connection is opened, used and closed |
| `mirror` | 2 clients, 2 products, 4 requests, 4 late acknowledgements, a backup that may end, fairness for the primary; 244,579 states | `Store` is implemented, the backup never shows less, late answers are owed ones, databases agree until an acknowledgement is late or the backup ends, every request is answered unless the primary ends, which takes a second write after the backup's end or a reset connection |
| `mirror_lost_update` | violation | two updates in one read leave the databases different for good |
| `tickets` | 2 agents, 3 requests, a part of 2 coaches of 3 berths and one of 1 coach of 2; 221,493 states | `Office` is implemented, preferences one coach can meet are met (of requests with no-preference passengers last), the table never falls, watched requests are answered |
| `tickets_one_coach` | violation | a party that fits one coach is spread over two |
| `mail_send` | one mail of 2 lines, up to 3 addresses out of a user and a stranger on each server, fairness; 42,767 states | copies are faithful, "sent" is true, the dot delivers and is answered, sessions end |
| `mail_read` | one domain, a user who sends himself 2 messages and is logged in twice, as two readers that do the same; 2,074,434 states up to symmetry | a message is deleted or marked as read only if its owner meant it by the number it saw, whatever the other session has deleted |
| `mail_glued` | violation | a dot read together with the line before it ends nothing |
| `news` | 2 reporters, a reader and an administrator, 2 of them at a time, 2 articles with one heading, 2 seconds; 3.1 million states up to symmetry | files are whole, articles are kept, readers get what they meant, sweeps are complete, dialogs go on |
| `news_two_admins` | violation | the password of a second administrator is read as the date of the first and deletes everything |
| `probes` | 2 pings of 2 requests, or a ping of 1 and a trace of up to 2 hops with 2 probes each, hosts behind one router, 2 answers on their way, one fault; 1,215,067 states up to symmetry | replies are counted when they are due, and are if they are prompt; reports add up; lines are not ahead of their hop; a trace ends for a cause |

**Why the bounds are enough.** RLTP: `MAX_RETRY` is the code's 3, so two faults
exhaust a loop that the peer does not help and the third meets the next phase;
numbers modulo 5 make both streams wrap within two messages, also to exactly 0;
two connections are the fewest that can disturb one another, and a socket's queue
of 3 already drops. Mirror: 4 requests and 4 timeouts allow an acknowledgement to
be three sales late, two updates and two answers to merge, and the backup to end
with sales before, during and after the write that ends the primary; `MaxLates` is not
below `MaxRequests`, so no timeout is ever ruled out by the bound and liveness is
not helped by it. Tickets: the first request takes one berth, the second needs a
preference per passenger and a passenger without one, the third fills the small
part; two rounds of the same request meet a full part. Coaches of 3 berths hold
every type of berth the bookings ask for. The arithmetic of bays (`Remainders`)
is that of the real train, only shorter. Mail: three addresses are two foreign
recipients and a local one, or a refused and an accepted one and a repetition;
two lines tell an order. One mail at a time is enough for the sessions, which
are processes that share nothing with those of another mail but the table, whose
statements are atomic and whose keys are the table's own; several mails in one
mailbox come from one client that names a recipient twice. `MaxBlanks` stops the
empty lines of a dead client's session, whose loop has no end of its own. News:
two articles are two rivals for one name, or one read while the other is filed;
two seconds are a date between them; `MaxBusy` = 2 lets every pair of users meet,
each pair in every order. Probes: a host behind one router is the nearest that
has a hop before it; the hop bound 2 is its distance, so how a trace goes on past
its destination is left to the proofs of `LinesNotAhead` and `EndsForCause`. Two
requests and two probes are the fewest for which an answer can be late,
`MaxAir` = 2 lets one answer overtake another, and `QueueCap` = 2 holds a
stranger before the reply, with the third stranger arriving while the first is
read. One fault doubles or damages a packet or closes the way; losses are not
counted. `Together` names the sets of programs started on one host: the ping beside
a trace makes one request, since a second one meets only what a second ping meets.
Pings that are asked for two requests reach every place of `finish(0)` with one or
two replies.

**Deadlock** is not checked: users may stop, the bounds end every behaviour, and
RLTP's programs exit. What must not stop is stated as liveness instead.

**Fairness.** Each `FairSpec` assumes that processes the operating system
schedules take steps (`WF` on the two RLTP processes, the primary, the ticket
server, every mail session) and that a client which waits for a reply reads it.
Nothing is assumed of the network, of the backup server, which may stand still or
end, of when users act, or of their staying alive. RLTP's server is fair as a whole, which includes its user's
answer to the prompt. `News` and `Probes` have no `FairSpec`: the users of the
news act when they like, and what a dialog must not do is a safety property
(`TalkGoesOn`); ping and traceroute end because their loops count.

## 4. Findings

The four violations are listed in `PROJECT.json` with the lines that say
otherwise. Further disagreements were seen while modelling and have no run:

- RLTP: with both programs on one host, as `server_test.cpp` is set up
  (127.0.0.1), each raw socket also receives its own packets, each of which
  costs a try; no request is ever answered. The reply is `ECHO RES n+2`, where
  the assignment has `n+1`. A damaged packet makes the receiving program exit,
  where the assignment drops it. A number that wraps to 0 makes `send_ACK` exit.
  The server opens a second connection on an ACK of the first, since the numbers
  of the old one still match. A lost ACK makes a sender report failure for a
  message that arrived. Ports from 32768 on never match (`short` against
  `unsigned`).
- Mirror: any SUCCESS clears `buyreq` of the sale at hand, also one that answers
  an earlier sale, so an unacknowledged sale can be forgotten
  (`server_prim.cpp:263`). Nothing ever resends what `buyreq` holds. A client
  whose request comes before the primary has bound its socket waits for ever.
  Once the backup has ended, the primary answers one sale without it and is ended
  by the write of the next one (`server_prim.cpp:258`; the code neither ignores
  SIGPIPE nor goes on after a failed `send`): that sale is committed, and its
  client waits for an answer for ever.
- Tickets: select has neither a timeout nor the listening socket
  (`server.cpp:132`), so a new agent waits until an old one speaks. The queue
  serves the latest request first. The second phase tries the coach that met the
  fewest preferences first. A passenger without a preference takes the first
  berth, which a later passenger may need (`PreferencesMet` says which requests
  are free of that). The table subtracts Rajdhani's bookings from 216.
- Mail: LIST deletes for good what the session has marked, before QUIT (RFC 1081
  defers it); read marks are lost at QUIT; STAT counts marked messages. VRFY adds
  the recipient to the mail. RSET and QUIT leave the rows inserted for the mail,
  empty, in the tables; RSET leaves `no_of_recv` and `curr_recvr` too. An
  ill-formed address given to VRFY ends the client with a QUIT its session does
  not accept. The POP server takes no lock on a mailbox, so one of two sessions
  deletes what the other has listed (RFC 1081 has an exclusive lock).
- News: an identity and a group that are read together leave both sides waiting
  (`swallowed`). A reader whose article is empty at that moment gets nothing and
  waits for ever (`blank`). Two administrators can hang each other, since the
  answer to one may be sent to the other. The listing and the sweep compare with
  `<`, and two articles with one heading in one second are one file.
- ping, traceroute: two pings share the identifier 15, so one counts the replies
  of the other; an echo reply to a ping ends a trace; SIGQUIT while ping waits
  ends it without its statistics; SIGINT in the `finish(0)` after the last request
  (`ping.c:332-338`) prints an average that is divided twice, as `ReportAddsUp`
  allows and no more.

## 5. Proofs

Each proof module proves its facts for every value of the constants under the
named assumptions of the models (`RltpConstants`, `MirrorConstants`,
`BerthsConstants`, `TicketsConstants`, `MailboxesConstants`, `SmtpConstants`,
`PopConstants`, `DumpConstants`, `SweepConstants`,
`IcmpConstants`, `PingConstants`, `TracerouteConstants`, `ProbesConstants`), which
only say what the constants are.

- **RltpProofs.** `TypeCorrect`: `Spec => []TypeOK`. `TypeOK` is inductive as it
  stands because it contains the two facts the steps need: a wait loop has a
  packet to send again, and the server replies only when it has received. The
  lemmas first type the helpers (`Transmit`, `Left`, `AckPacket`), then the four
  ways a loop moves (`Again`, `Exit`, `LeaveLoop`, `EnterLoop`), then one lemma
  per action.

  `SmoothRunsSucceed`: `FailsOnlyAfterFault`, for `TwoHosts`: two hosts, ports
  below 32768 and a socket that holds two packets. The first two are what the
  code needs to work at all (section 4); the third is what the programs put
  there at most: an acknowledgement and the packet sent behind it.
  Its invariant `JointInv` names where the two ends are together (`Greeting`,
  `ClientsTurn`, `ServersTurn`, `Closing`, `Parted`, and `Alone` once the server
  has been told to exit) and the one or two packets on the way to each
  (`AtServer`, `AtClient`), with the checks these packets will pass. What is read
  is therefore what was waited for, so that no try fails, and `SomethingComes`:
  a wait with nothing on the way is only that of a client whose server has gone.
  The property says nothing of the wire or the numbers and is far from inductive.
- **RltpStreamProofs.** `InvHolds`: `Spec => []Inv`. `Inv` says, as long as no
  number has wrapped, what the streams, the expected numbers, the turns of the
  two programs (`Turns`), the control of each end (`Control`) and every packet on
  the wire or kept for resending have to do with the history of messages. Its
  centre is `GenuinePackets`: the numbers of a packet are those its sender had
  after some message it sent and some message it received. An acknowledgement
  that an end accepts therefore stems from a moment when the message had arrived
  (`AckProves`), and accepted data is the next message and no other
  (`DataProves`), since the numbers of the messages grow strictly
  (`PosInjective`). Neither `StreamPrefix` nor `NumbersAgree` is inductive
  without it. `ImplementsChannel`: while no number has wrapped, each step is one
  of `RltpChannel` or leaves what the programs see alone.

  Numbers that wrap could come round to those of an old packet, and the code has
  no defence against that, so the other theorems assume constants with `Roomy`
  numbers: the messages a run can send have fewer bytes in all than there are
  numbers above the initial one. For the code's 32 bits this is a run of less
  than 4 GB. `NeverWraps` shows that under `Roomy` no number wraps, and with it
  follow `StreamsInOrder`, `AcksAreTrue` and `ConnectedEndsAgree`. The run
  `rltp_safety` checks the same properties with numbers that do wrap, in an
  instance too short for them to come round.

  `FirstConnectionAgrees` needs one more invariant, `First`: until the client
  connects, nothing but SYNs is on its way; there is no FIN before the client
  closes; and a client that has met the end of its FIN has a server that met the
  FIN. It does not hold without the exception in `EndsAgree`: a copy of the SYN
  and a copy of the third packet of a connection that carried no message open it
  again at the server after it was closed, because both numbers are still the
  initial ones.
- **MirrorProofs.** `TypeCorrect`; `BackupNeverAhead` (for quantities that are
  not negative), by strengthening `NeverAhead` with `StreamNeverBelow`: an update
  in the stream was the primary's quantity when it was sent, and quantities only
  fall (`QuantitiesFall`), so none in the stream is below the primary's;
  `EveryAckOwed`, with `NothingDown`: once the backup has ended no update is on its
  way; and `BackupInSync`, by strengthening `InSyncUnlessLate` with
  `SaleInTransit`, what holds during a sale that is not late while the backup
  runs: the update or its answer, and nothing else, is in the stream, and the
  databases differ by that update only;
  `ImplementsStore`: under the mapping of `MirrorProperties` every step of
  `Mirror` is a step of `Store` or a stutter, with the
  invariant `InOnePlace`: a client that waits has its request in the inbox, or in
  the primary's hands, or its answer on the way, and never two of them; the sale in
  which the primary has ended stays in its hands. Requests that the primary's end
  leaves undecided are to `Store` requests it has not decided yet.
- **TicketsProofs.** `TypeCorrect`, by the inductive `TypeInv`: `TypeOK` and that
  a connection with a request to read has a request (`InboxFilled`). It is proved
  in two halves, of the allocator and of the counter, so that a step of the one
  leaves the other's half alone. It needs that `First` and `NextCoach`, both
  CHOOSE expressions, choose from the set they are given: every non-empty set of
  naturals has a least element (`Smallest`, from the well-foundedness of `<`).
  `TableNeverFallsHolds`: no step of any phase turns a 1 into anything else, and
  the number of 1s is the cardinality of a finite set that only grows.

  `PreferencesAreMet` rests on `Allotted` and `Greedy`. `Allotted`: during a
  search every mark 2 is the place of one passenger (`Trial`), marks are undone
  when the search of a coach fails, and at the end each passenger has a place of
  its own (`Ticketed`). `Greedy` counts: in the coach at hand, a passenger
  without a place of its preference means that the free berths of that kind have
  been given away, each to a passenger of the same preference. This is where the
  hypothesis of `PreferencesMet` is used, that different preferences of a request
  share no berths and those without a preference come last: without it the greedy
  loop may give a berth to a passenger who had others to choose from, and the
  property is false. `ImplementsOffice` adds `Dialogue`: a request is in one place at a time,
  on its way, in the queue or at the allocator, and unanswered until then; the
  commit of a search is the office's booking of berths nobody has, since the
  marks of a trial are of free berths.
- **MailProofs.** `OnlyMeantIsDone`, by the inductive `MeantInv`: what a POP
  session puts off was meant by its user (`SessionMeans`): the keys in
  `to_delete` and `read` are of its own messages and were chosen, and the n-th
  entry of the listing the session works on is the key the user sees beside n.
  What the other programs do to the tables meanwhile is one relation, `Follows`:
  rows are added at the end, their lines grow, and nobody but a POP session marks
  one. `SmtpTables` shows it of all steps of sessions and clients at once. That a
  listing names existing messages of its reader only (`MsgList`) takes that the
  keys of a finite set can be ranked (`Ranked`).
  `MailTypes`: `Spec => []TypeOK`, for `Glued` or not. What a
  session may read depends on what its peer may have written, so the proof is
  that of the whole dialog, `Dialogs`. Its unit is `Asked(q, verb)`: session `q` has
  been asked `verb` and its caller has not read the answer; the command is in
  its inbox, or it is at work on it, or its reply is there, and nothing else is.
  `ClientTalk` says which verb the session of a client has been asked, by where
  the client is; `RelayTalk` the same of each relay, by where the session that
  opened it is and what exchanges it still has to make (`InMail`). Once a caller has
  gone, the dialog stands where it was left (`Adrift`) or has ended. `WorkOK` is
  what the loops over the relays leave to do: one exchange with each, or RSET
  and QUIT in turn; the relays of a mail are distinct. There is one lemma
  for each step and the dialog it belongs to (`MailFromAsked`, `MainTo`,
  `AcceptedKept`), and one for a dialog that a step of others leaves alone
  (`TalkSame`, `OneCircle`). To `Dialogs` the types add that rows are well formed and
  only added (`RowsOK`, `Extends`), and that a session does not change the domain it
  serves while it knows rows (`Serves`).
- **MailDeliveryProofs.** `MailIsDelivered`, for `Glued` or not, and
  `CopiesStayFaithful`, without `Glued`, where it is true: a dot that is read
  with the line before it goes into the rows. Neither follows from `Dialogs`,
  which says whose turn it is and nothing of the lines. `LinesInv` adds that.
  What lies in an inbox spells out a part of the body and its dot, cut anywhere
  or at each line (`Spelt`); a session's rows hold what came before that part
  (`Holds`); a relay has been written as many pieces as its session has read
  (`Passing`, `Flow`), and after the dot it still has the rest to read
  (`Finishing`). `Owners` follows an acceptance from the row a session inserts,
  through the reply of a relay, to the recipients the client counts: each has a
  row at its own session or at a relay of the mail. `RowsApart` is what makes
  this stay: no two sessions know the same row, so only its session writes to
  it. When the client is told, everybody has read the dot and every inbox is
  empty, so the rows hold the body (`Delivered`). The steps are sorted by who
  writes to whom (`FlowStep`, `OwnersStep`, `DeliveredStep`, `CopiesStep`).
- **NewsProofs.** `TypeCorrect`, `FilesWhole` and `DialogGoesOn` come from one
  inductive invariant, `NewsInv`. Its parts are `TypeOK`; `Talks`, which says
  where each dialog may be (client, session and messages between them, together);
  `Kept`, that a file and what it holds were filed under its name; `DeskKept`,
  the same of what a session has open; `EmptyOpen`; and `ListsKnown`, that a
  reader's listing holds only names that were filed, hence finitely many, so that
  it can be numbered. `FilesAreWhole` alone is not inductive: that a session
  writes to a file of the right name is known only from `DeskKept`, and that it
  has one at all only from `Talks`. `SweepIsClean` needs `SweepInv`: during a
  sweep, what was too old when the date came is still too old, what of it lies in
  the directory at hand is still to be returned by `readdir`, and the first
  directory is clean when the second is gone through.

  `ArticlesAreKept` and `ReadersGetWhatTheyMeant` assume `OneAdmin`, that there is
  not more than one administrator. They are false without it: the server takes
  the message of a second administrator for the answer of the first, and deletes
  by a date nobody typed (`news_two_admins`). With one administrator, its dialog
  with the server is in one of a few places (`AdminTalk`), so the date the server
  sweeps by is one that was typed (`AdminInv`); then an article that was printed
  stays alone in its file unless such a date or a rival of the same name excuses
  it (`ArticlesKept`). A reader's number still stands for the name it saw because
  a listing gives its names different numbers, and a name that was listed keeps
  a file unless a date was typed for it (`ReadersServed`).
- **ProbesProofs.** `TypeCorrect`, by three typed parts of the state (network,
  pings, traces) that leave each other alone. `RepliesAreDue` from `CreditInv`:
  every echo reply in the air or in a socket answers a request that was sent
  (`EchoesGenuine`), and what has been counted has a smaller number than the
  request waited for (`CreditsPast`), so that no reply is counted twice.
  `LinesAreNotAhead` and `TracesEndForCause` from `LineInv`: an answer comes from
  a host on the way, no farther than the hop it was asked for (`AnswersGenuine`),
  and a trace has one line for each hop behind it (`LinesKept`). `ReportsAddUp`:
  what the counters hold between the statements of a valid reply and of `finish(0)`
  (`SumsAt`) adds up for a signal at any of them, and a sum is divided only after
  every request. `PromptRepliesCount`: the reply waited for
  is in the socket behind few enough strangers (`Coming`), and each stranger read
  brings it one place nearer and costs one try.

**Only model-checked**: all liveness (out of the prover's reach, as is ENABLED).
Every safety invariant and every refinement that a run checks is stated by a
theorem. Some theorems assume more of the constants than the models do (`Roomy`,
`TwoHosts`, `~Glued`, quantities that are not negative). Of what lies outside
these, only `rltp_safety` shows anything: the streams with numbers that do wrap.

## 6. Plan

In this order:

1. Done: `Rltp` with `RltpChannel`; `Mirror` with `Store`; `Berths`, `Tickets`
   with `Office`; `Mailboxes`, `Smtp`, `Pop`, `Mail`; `Dump`, `Newsroom`, `Sweep`,
   `News`; `Icmp`, `Ping`, `Traceroute`, `Probes`; the proofs of section 5.
2. `PostOffice`, an abstract specification of mail (accept, deliver to all, read,
   delete by owner), with a refinement from `Mail`; two mails at once.
3. Restart of one RLTP end, which draws the same initial number again.
4. Quantities below zero in `Mirror`, as an instance of their own.

## 7. Not modelled

- Assignment-4A: a client for one person and a server that is not in the
  repository; what it may rely on is not written down in the code. It takes one
  `recv` for one reply (`TCPClient::receive`), so a reply of several segments
  shifts all later ones, and `checkStatus` reads an `int` that `sscanf` has not
  set when the server has closed the connection. The debug output and the POP
  test program of Assignment-4.
- RLTP: the bytes of a header and the checksum's arithmetic (a damaged packet is
  one that fails it); restart.
- Mirror: quantities below zero, which pass the test of the stock, are allowed by
  the model's constants and excluded where a property says so; the sync flag and
  the resending the assignment describes do not exist in the code.
- Tickets: parsing, files, the layout of the table, more than three parts.
- Mail: a wrong password, STAT, LIST with a number (they change nothing); the
  sizes of arrays and buffers; the crash of a server.
- News: lost datagrams (everything runs on one machine); the text of dates, of
  which only what the comparison makes of them is kept; a client that hangs up
  while its session still has messages to read is one that hangs up after it has
  read them; `asked` keeps the latest date typed, not when it was typed, so
  `EveryArticleKept` does not tell two sweeps apart; liveness.
- ping and traceroute: the times themselves; the wrap of the sequence number after
  65,535 requests; the echo requests of the host itself, which a raw socket would
  see when the target is the own host; damage to the type or the address of a
  packet.
