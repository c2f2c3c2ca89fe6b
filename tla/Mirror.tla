------------------------------- MODULE Mirror -------------------------------
(***************************************************************************)
(* The mirrored database of Lab-Test: a primary server (server_prim.cpp)   *)
(* that sells products to clients (client.cpp) over UDP and sends every    *)
(* new quantity to a backup server (server_back.cpp) over one TCP stream.  *)
(* All three run on 127.0.0.1: a datagram sent to a bound socket arrives.  *)
(* The backup may end at any moment; the primary ends when it finds out.   *)
(***************************************************************************)
EXTENDS Integers, Sequences

CONSTANTS
  Client,
  NProd,        \* number of products, 10 in the code
  Quantities,   \* quantities the user may type, any int in the code
  MaxRequests,  \* bound: requests the clients send in all
  MaxLates      \* bound: acknowledgements that miss the 2 second TIMEOUT

Index == 0 .. NProd - 1
Ids == 1 .. NProd + 1            \* NProd + 1: an id that is not in the list

ASSUME MirrorConstants ==
  /\ NProd \in Nat \ {0}
  /\ Quantities \subseteq Int
  /\ {MaxRequests, MaxLates} \subseteq Nat

VARIABLES
  prod,         \* primary: quantity of each product
  buyreq,       \* primary: the sales the backup has not acknowledged
  pc,           \* primary: "accept", "receive" (recvfrom), "ack" (tcp_read), "ended"
  serving,      \* primary: client and product of the request it is in
  mirror,       \* backup: its own prod
  backup,       \* the primary's socket to it: "running", "closed" (the backup has
                \* ended), "refused" (and been written to since) or "reset" (the
                \* backup ended with a message unread)
  down, up,     \* the TCP stream, in each direction
  inbox,        \* senders of the datagrams the primary has not received
  request,      \* the request each client has sent last
  waiting,      \* the clients that are in recvfrom
  reply,        \* the datagrams on their way to each client
  requests,     \* requests sent so far
  lates         \* timeouts so far

vars == <<prod, buyreq, pc, serving, mirror, backup, down, up, inbox, request,
          waiting, reply, requests, lates>>

Browse == [op |-> "BROWSE"]
Buys == [op : {"BUY"}, id : Ids, qt : Quantities]
Requests == Buys \cup {Browse}

Quantity == [Index -> Int]

\* The datagrams the primary answers with.
List(quantity) == [text |-> "Id: Q:", list |-> quantity]
Successful == [text |-> "Successful!!", list |-> <<>>]
Unsuccessful == [text |-> "Unsucessful!!", list |-> <<>>]
Replies == {Successful, Unsuccessful} \cup [text : {"Id: Q:"}, list : Quantity]

NoSale == [client |-> "nobody", index |-> 0]

\* initialize_data: product i + 1 with quantity i + 1.
Stock == [i \in Index |-> i + 1]

Init ==
  /\ prod = Stock
  /\ buyreq = [i \in Index |-> FALSE]
  /\ pc = "accept"
  /\ serving = NoSale
  /\ mirror = Stock
  /\ backup = "running"
  /\ down = <<>>
  /\ up = <<>>
  /\ inbox = <<>>
  /\ request = [c \in Client |-> Browse]
  /\ waiting = {}
  /\ reply = [c \in Client |-> <<>>]
  /\ requests = 0
  /\ lates = 0

\* The backup connects; the primary then binds its UDP socket.
Accept ==
  /\ pc = "accept"
  /\ pc' = "receive"
  /\ UNCHANGED <<prod, buyreq, serving, mirror, backup, down, up, inbox, request,
                 waiting, reply, requests, lates>>

-----------------------------------------------------------------------------
(* Clients. *)

\* The menu: a datagram to a port that is not bound yet, or no longer, is lost,
\* and the client waits for its answer without a timeout.
Ask(c, r) ==
  /\ c \notin waiting
  /\ requests < MaxRequests
  /\ requests' = requests + 1
  /\ request' = [request EXCEPT ![c] = r]
  /\ waiting' = waiting \cup {c}
  /\ inbox' = IF pc \in {"accept", "ended"} THEN inbox ELSE Append(inbox, c)
  /\ UNCHANGED <<prod, buyreq, pc, serving, mirror, backup, down, up, reply, lates>>

Answered(c) ==
  /\ c \in waiting
  /\ reply[c] # <<>>
  /\ waiting' = waiting \ {c}
  /\ reply' = [reply EXCEPT ![c] = Tail(@)]
  /\ UNCHANGED <<prod, buyreq, pc, serving, mirror, backup, down, up, inbox, request,
                 requests, lates>>

-----------------------------------------------------------------------------
(* The primary. *)

\* The test of the loop over the products; a negative quantity passes it.
Sells(r, i) == i + 1 = r.id /\ prod[i] >= r.qt

Send(c, message) == reply' = [reply EXCEPT ![c] = Append(@, message)]

\* recvfrom, then BROWSE or a BUY nobody can serve: answered at once.
ReceiveOther ==
  /\ pc = "receive"
  /\ inbox # <<>>
  /\ LET c == Head(inbox)
         r == request[c]
     IN  \/ /\ r = Browse
            /\ Send(c, List(prod))
         \/ /\ r # Browse
            /\ \A i \in Index : ~Sells(r, i)
            /\ Send(c, Unsuccessful)
  /\ inbox' = Tail(inbox)
  /\ UNCHANGED <<prod, buyreq, pc, serving, mirror, backup, down, up, request,
                 waiting, requests, lates>>

\* tcp_write: the first message after the backup has ended is sent into the void,
\* and the next send fails, with exit(1) or SIGPIPE. What is in the UDP socket of
\* a primary that ends is lost.
tcp_write(m) ==
  \/ /\ backup = "running"
     /\ down' = Append(down, m)
     /\ pc' = "ack" /\ inbox' = Tail(inbox)
     /\ UNCHANGED backup
  \/ /\ backup = "closed" /\ backup' = "refused"
     /\ pc' = "ack" /\ inbox' = Tail(inbox)
     /\ UNCHANGED down
  \/ /\ backup \in {"refused", "reset"}
     /\ pc' = "ended" /\ inbox' = <<>>
     /\ UNCHANGED <<backup, down>>

\* ... or a sale: note it, tell the backup the new quantity, and wait.
ReceiveSale(i) ==
  /\ pc = "receive"
  /\ inbox # <<>>
  /\ LET c == Head(inbox)
         r == request[c]
     IN  /\ r # Browse
         /\ Sells(r, i)
         /\ prod' = [prod EXCEPT ![i] = @ - r.qt]
         /\ serving' = [client |-> c, index |-> i]
  /\ buyreq' = [buyreq EXCEPT ![i] = TRUE]
  /\ tcp_write([index |-> i, qt |-> prod'[i]])
  /\ UNCHANGED <<mirror, up, request, waiting, reply, requests, lates>>

\* Mutant of SaleAnswer: a sale that is not acknowledged fails.
SaleAnswerIfAcked(i) == IF buyreq'[i] THEN Unsuccessful ELSE Successful

\* What the client is told of its sale of product i, acknowledged or not.
SaleAnswer(i) == Successful

\* Mutant of FinishSale: the primary forgets whom it has answered.
FinishSaleKept ==
  /\ Send(serving.client, SaleAnswer(serving.index))
  /\ pc' = "receive"
  /\ UNCHANGED serving

FinishSale ==
  /\ Send(serving.client, SaleAnswer(serving.index))
  /\ pc' = "receive"
  /\ serving' = NoSale

\* Mutant of Rest: the last message read stays in the stream.
RestOfOneLess(stream, k) == SubSeq(stream, k, Len(stream))

\* A stream of which a read has taken k messages.
Rest(stream, k) == SubSeq(stream, k + 1, Len(stream))

\* Mutant of Timeout: the primary waits for as long as it takes.
TimeoutNever == FALSE /\ UNCHANGED vars

\* tcp_read returns -2: the request stays in buyreq, where nothing reads it.
Timeout ==
  /\ pc = "ack" /\ backup = "running"
  /\ up = <<>>
  /\ lates < MaxLates
  /\ lates' = lates + 1
  /\ buyreq' = buyreq
  /\ FinishSale
  /\ UNCHANGED <<prod, mirror, backup, down, up, inbox, request, waiting, requests>>

\* tcp_read returns what the stream holds, up to k messages: the answer to an
\* earlier sale too, and two SUCCESS at once are not "SUCCESS".
ReadAck(k) ==
  /\ pc = "ack"
  /\ buyreq' = [buyreq EXCEPT ![serving.index] = @ /\ ~(k = 1 /\ up[1] = "SUCCESS")]
  /\ up' = Rest(up, k)
  /\ FinishSale
  /\ UNCHANGED <<prod, mirror, backup, down, inbox, request, waiting, requests, lates>>

\* tcp_read returns 0, the end of the stream, at once: nothing is acknowledged.
ReadEnd ==
  /\ pc = "ack" /\ backup \in {"closed", "refused"}
  /\ up = <<>>
  /\ FinishSale
  /\ UNCHANGED <<prod, buyreq, mirror, backup, down, up, inbox, request, waiting,
                 requests, lates>>

\* tcp_read fails: exit(1), and the client is never answered.
ReadFails ==
  /\ pc = "ack" /\ backup = "reset"
  /\ up = <<>>
  /\ pc' = "ended" /\ inbox' = <<>>
  /\ UNCHANGED <<prod, buyreq, serving, mirror, backup, down, up, request, waiting,
                 reply, requests, lates>>

-----------------------------------------------------------------------------
(* The backup. *)

\* Mutants of Stored: the message is taken for the quantity that was sold, and
\* its index for the product's id.
StoredRelative(m) == [mirror EXCEPT ![m.index] = @ - m.qt]
StoredAtId(m) == [mirror EXCEPT ![(m.index + 1) % NProd] = m.qt]

Stored(m) == [mirror EXCEPT ![m.index] = m.qt]

\* tcp_read returns up to k messages, of which only the first is parsed.
Update(k) ==
  /\ backup = "running"
  /\ mirror' = IF down[1].index < NProd THEN Stored(down[1]) ELSE mirror
  /\ up' = Append(up, IF down[1].index < NProd THEN "SUCCESS" ELSE "UNSUCCESS")
  /\ down' = Rest(down, k)
  /\ UNCHANGED <<prod, buyreq, pc, serving, backup, inbox, request, waiting, reply,
                 requests, lates>>

\* The backup is killed, perhaps between the read and the assignment. Unread
\* messages reset the connection; else it is closed after what was sent.
BackupEnds ==
  /\ pc # "accept" /\ backup = "running"
  /\ \/ backup' = "closed"
     \/ down # <<>> /\ backup' = "reset"
  /\ down' = <<>>
  /\ UNCHANGED <<prod, buyreq, pc, serving, mirror, up, inbox, request, waiting,
                 reply, requests, lates>>

-----------------------------------------------------------------------------
ClientStep(c) == Answered(c) \/ \E r \in Requests : Ask(c, r)

Primary ==
  \/ Accept
  \/ ReceiveOther
  \/ \E i \in Index : ReceiveSale(i)
  \/ Timeout
  \/ \E k \in 1 .. Len(up) : ReadAck(k)
  \/ ReadEnd
  \/ ReadFails

Backup == BackupEnds \/ \E k \in 1 .. Len(down) : Update(k)

Next == Primary \/ Backup \/ \E c \in Client : ClientStep(c)

Spec == Init /\ [][Next]_vars

\* The primary keeps running and select keeps its timeout; nothing is assumed
\* of the backup.
FairSpec == Spec /\ WF_vars(Primary)
=============================================================================
