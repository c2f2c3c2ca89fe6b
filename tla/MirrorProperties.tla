-------------------------- MODULE MirrorProperties --------------------------
(* What should hold of Mirror. *)
EXTENDS Mirror

Acks == {"SUCCESS", "UNSUCCESS"}
Update_ == [index : Index, qt : Int]

\* Types; the primary is in a sale while it waits for the backup, and ends in one.
TypeOK ==
  /\ prod \in Quantity
  /\ buyreq \in [Index -> BOOLEAN]
  /\ pc \in {"accept", "receive", "ack", "ended"}
  /\ IF pc \in {"ack", "ended"} THEN serving \in [client : Client, index : Index]
                                ELSE serving = NoSale
  /\ mirror \in Quantity
  /\ backup \in {"running", "closed", "refused", "reset"}
  /\ down \in Seq(Update_)
  /\ up \in Seq(Acks)
  /\ inbox \in Seq(Client)
  /\ request \in [Client -> Requests]
  /\ waiting \subseteq Client
  /\ reply \in [Client -> Seq(Replies)]
  /\ requests \in Nat
  /\ lates \in Nat

-----------------------------------------------------------------------------
(* Safety. *)

\* As long as the backup runs and no acknowledgement was late the two databases
\* are the same whenever the primary takes a request, and every sale is acknowledged
\* (the write, the wait and the read of lines 256-276).
InSyncUnlessLate ==
  backup = "running" /\ pc # "ack" /\ lates = 0 =>
    /\ prod = mirror
    /\ \A i \in Index : ~buyreq[i]
    /\ down = <<>> /\ up = <<>>

\* With quantities that are not negative the backup never shows less than the
\* primary, however late and however merged the updates are: each update is the
\* absolute quantity, and they are applied in order.
NeverAhead == \A i \in Index : mirror[i] >= prod[i]

\* The stream never answers more than it was asked, so a late acknowledgement
\* is always of an earlier sale.
AcksAreOwed ==
  Len(up) + Len(down) <= lates + (IF pc = "ack" THEN 1 ELSE 0)

\* What a client has asked and been told, in the terms of Store: it has its
\* answer as soon as its sale is decided, before the wait for the backup. Where
\* the primary ends in the sale, the answer is on its way for ever.
Deciding(c) == pc \in {"ack", "ended"} /\ serving.client = c
Asked == [c \in Client |-> IF c \in waiting THEN <<request[c]>> ELSE <<>>]
Told == [c \in Client |-> IF Deciding(c) THEN <<Successful>> ELSE reply[c]]

Shop == INSTANCE Store WITH stock <- prod, asked <- Asked, answer <- Told

\* Clients see one atomic store: every sale is decided against the stock at one
\* moment and answered accordingly, with or without the backup.
StoreSpec == Shop!Spec

\* Under FairSpec every request that reached the primary is answered, though
\* the backup may stand still for ever, or end: the next sale is answered at the
\* end of the stream. Only a second write to a backup that has ended, or a
\* connection reset by the messages it left unread, ends the primary
\* (server_prim.cpp:44 and 60), and with it the answers.
RequestsAnswered ==
  \A c \in Client :
    (\E n \in 1 .. Len(inbox) : inbox[n] = c)
      ~> \/ reply[c] # <<>>
         \/ pc = "ended" /\ backup \in {"refused", "reset"}

-----------------------------------------------------------------------------
(* What ClassTest.pdf says and the code does not do. *)

Quiescent == backup = "running" /\ pc # "ack" /\ down = <<>> /\ up = <<>>

\* "Both the servers should have exactly same data at all times": here, when both
\* run and nothing is on its way between them.
SameData == Quiescent => prod = mirror
=============================================================================
