---------------------------- MODULE MirrorProofs ----------------------------
(* What holds of Mirror for every number of products, clients, requests and  *)
(* late acknowledgements. Nothing here assumes that the sets are finite.     *)
EXTENDS MirrorProperties, SequenceTheorems, TLAPS

-----------------------------------------------------------------------------
(* The stream after a read, and the quantities. *)

\* A read leaves a suffix of the stream, shorter by what it took.
LEMMA RestOfStream ==
  ASSUME NEW S, NEW s \in Seq(S), NEW k \in 1 .. Len(s)
  PROVE  /\ Rest(s, k) \in Seq(S)
         /\ Len(Rest(s, k)) = Len(s) - k
         /\ \A n \in 1 .. Len(Rest(s, k)) : Rest(s, k)[n] = s[n + k]
<1>1. Len(s) \in Nat
  BY LenProperties
<1>2. /\ k + 1 \in 1 .. Len(s) + 1
      /\ Len(s) \in k .. Len(s)
  BY <1>1
<1>3. Rest(s, k) \in Seq(S)
  BY <1>1, <1>2, SubSeqProperties DEF Rest
<1>4. Len(Rest(s, k)) = Len(s) - k
  BY <1>1, <1>2, SubSeqProperties DEF Rest
<1>5. \A n \in 1 .. Len(Rest(s, k)) : Rest(s, k)[n] = s[n + k]
  BY <1>1, <1>2, <1>4, SubSeqProperties DEF Rest
<1> QED
  BY <1>3, <1>4, <1>5

\* The products are numbered from 0 and there is at least one.
LEMMA Products ==
  /\ Index \subseteq Nat
  /\ 0 \in Index
  /\ Stock \in Quantity
  /\ \A i \in Index : i < NProd
BY MirrorConstants DEF Index, Stock, Quantity

LEMMA InitTypes == Init => TypeOK
<1> SUFFICES ASSUME Init PROVE TypeOK
  OBVIOUS
<1>1. Browse \in Requests
  BY DEF Requests
<1>2. \A S : <<>> \in Seq(S)
  BY EmptySeq
<1>3. Stock \in Quantity
  BY Products
<1>4. 0 \in Nat
  OBVIOUS
<1> QED
  BY <1>1, <1>2, <1>3, <1>4 DEF Init, TypeOK

\* An answer, appended to what is on its way to the client.
LEMMA SendTypes ==
  ASSUME TypeOK, NEW c \in Client, NEW message \in Replies, Send(c, message)
  PROVE  reply' \in [Client -> Seq(Replies)]
<1>1. reply[c] \in Seq(Replies)
  BY DEF TypeOK
<1>2. Append(reply[c], message) \in Seq(Replies)
  BY <1>1, AppendProperties
<1> QED
  BY <1>2 DEF TypeOK, Send

LEMMA FinishSaleTypes ==
  ASSUME TypeOK, pc = "ack", FinishSale
  PROVE  /\ pc' = "receive"
         /\ serving' = NoSale
         /\ reply' \in [Client -> Seq(Replies)]
<1>1. serving.client \in Client
  BY DEF TypeOK
<1>2. Successful \in Replies
  BY DEF Replies
<1>3. Send(serving.client, Successful)
  BY DEF FinishSale, SaleAnswer
<1> QED
  BY <1>1, <1>2, <1>3, SendTypes DEF FinishSale

\* The write: it reaches a backup that runs, it is lost, or the primary ends.
LEMMA Written ==
  ASSUME NEW m, tcp_write(m)
  PROVE  /\ backup' \in {"running", "refused", "reset"}
         /\ backup = "running" <=> backup' = "running"
         /\ \/ pc' = "ack" /\ inbox' = Tail(inbox)
            \/ pc' = "ended" /\ inbox' = <<>> /\ down' = down /\ backup' # "running"
         /\ down' = IF backup' = "running" THEN Append(down, m) ELSE down
BY DEF tcp_write

LEMMA TypeStep == TypeOK /\ [Next]_vars => TypeOK'
<1> SUFFICES ASSUME TypeOK, [Next]_vars PROVE TypeOK'
  OBVIOUS
<1>1. CASE Accept
  BY <1>1 DEF Accept, TypeOK
<1>2. CASE ReceiveOther
  <2> DEFINE c == Head(inbox)
  <2>1. c \in Client /\ Tail(inbox) \in Seq(Client)
    BY <1>2, HeadTailProperties DEF ReceiveOther, TypeOK
  <2>2. List(prod) \in Replies /\ Unsuccessful \in Replies
    BY DEF Replies, List, TypeOK
  <2>3. Send(c, List(prod)) \/ Send(c, Unsuccessful)
    BY <1>2 DEF ReceiveOther
  <2> HIDE DEF c
  <2>4. reply' \in [Client -> Seq(Replies)]
    BY <2>1, <2>2, <2>3, SendTypes
  <2> QED
    BY <1>2, <2>1, <2>4 DEF ReceiveOther, TypeOK
<1>3. ASSUME NEW i \in Index, ReceiveSale(i) PROVE TypeOK'
  <2> DEFINE c == Head(inbox)
             m == [index |-> i, qt |-> prod'[i]]
  <2>1. c \in Client /\ Tail(inbox) \in Seq(Client)
    BY <1>3, HeadTailProperties DEF ReceiveSale, TypeOK
  <2>2. request[c].qt \in Int
    BY <1>3, <2>1, MirrorConstants DEF ReceiveSale, TypeOK, Requests, Buys
  <2>3. prod' = [prod EXCEPT ![i] = @ - request[c].qt]
    BY <1>3 DEF ReceiveSale
  <2>4. serving' = [client |-> c, index |-> i]
    BY <1>3 DEF ReceiveSale
  <2>5. serving' \in [client : Client, index : Index]
    BY <2>1, <2>4
  <2>6. prod' \in Quantity
    BY <2>2, <2>3 DEF TypeOK, Quantity
  <2>7. m \in Update_
    BY <2>6 DEF Quantity, Update_
  <2>8. tcp_write(m)
    BY <1>3 DEF ReceiveSale
  <2> HIDE DEF m, c
  <2>9. down' \in Seq(Update_)
    <3>1. down' = down \/ down' = Append(down, m)
      BY <2>8, Written
    <3>2. down \in Seq(Update_)
      BY DEF TypeOK
    <3> QED
      BY <2>7, <3>1, <3>2, AppendProperties
  <2>10. buyreq' \in [Index -> BOOLEAN]
    BY <1>3 DEF ReceiveSale, TypeOK
  <2>11. inbox' \in Seq(Client)
    BY <2>1, <2>8, Written, EmptySeq
  <2>12. pc' \in {"ack", "ended"} /\ backup' \in {"running", "refused", "reset"}
    BY <2>8, Written
  <2>13. UNCHANGED <<mirror, up, request, waiting, reply, requests, lates>>
    BY <1>3 DEF ReceiveSale
  <2> QED
    BY <2>5, <2>6, <2>9, <2>10, <2>11, <2>12, <2>13 DEF TypeOK
<1>4. CASE Timeout
  <2>1. pc' = "receive" /\ serving' = NoSale /\ reply' \in [Client -> Seq(Replies)]
    BY <1>4, FinishSaleTypes DEF Timeout
  <2>2. buyreq' = buyreq /\ lates' = lates + 1
    BY <1>4 DEF Timeout
  <2> QED
    BY <1>4, <2>1, <2>2 DEF Timeout, TypeOK
<1>5. ASSUME NEW k \in 1 .. Len(up), ReadAck(k) PROVE TypeOK'
  <2>1. pc' = "receive" /\ serving' = NoSale /\ reply' \in [Client -> Seq(Replies)]
    BY <1>5, FinishSaleTypes DEF ReadAck
  <2>2. up' \in Seq(Acks)
    BY <1>5, RestOfStream DEF ReadAck, TypeOK
  <2>3. buyreq \in [Index -> BOOLEAN]
    BY DEF TypeOK
  <2>4. PICK b : buyreq' = [buyreq EXCEPT ![serving.index] = buyreq[serving.index] /\ b]
    BY <1>5, Zenon DEF ReadAck
  <2>5. buyreq' \in [Index -> BOOLEAN]
    BY <2>3, <2>4, Zenon
  <2> QED
    BY <1>5, <2>1, <2>2, <2>5 DEF ReadAck, TypeOK
<1>6. ASSUME NEW k \in 1 .. Len(down), Update(k) PROVE TypeOK'
  <2>1. down[1] \in Update_
    BY ElementOfSeq, LenProperties DEF TypeOK
  <2>2. mirror' \in Quantity
    BY <1>6, <2>1 DEF Update, Stored, TypeOK, Quantity, Update_
  <2>3. PICK a \in Acks : up' = Append(up, a)
    BY <1>6 DEF Update, Acks
  <2>4. up' \in Seq(Acks)
    BY <2>3, AppendProperties DEF TypeOK
  <2>5. down' \in Seq(Update_)
    BY <1>6, RestOfStream DEF Update, TypeOK
  <2> QED
    BY <1>6, <2>2, <2>4, <2>5 DEF Update, TypeOK
<1>7. ASSUME NEW c \in Client, NEW r \in Requests, Ask(c, r) PROVE TypeOK'
  <2>1. Append(inbox, c) \in Seq(Client)
    BY AppendProperties DEF TypeOK
  <2>2. inbox' \in Seq(Client)
    BY <1>7, <2>1 DEF Ask, TypeOK
  <2>3. request' \in [Client -> Requests] /\ waiting' \subseteq Client
    BY <1>7 DEF Ask, TypeOK
  <2> QED
    BY <1>7, <2>2, <2>3 DEF Ask, TypeOK
<1>8. ASSUME NEW c \in Client, Answered(c) PROVE TypeOK'
  <2>1. reply[c] \in Seq(Replies) /\ reply[c] # <<>>
    BY <1>8 DEF Answered, TypeOK
  <2>2. Tail(reply[c]) \in Seq(Replies)
    BY <2>1, HeadTailProperties
  <2> QED
    BY <1>8, <2>2 DEF Answered, TypeOK
<1>9. CASE ReadEnd
  <2>1. pc' = "receive" /\ serving' = NoSale /\ reply' \in [Client -> Seq(Replies)]
    BY <1>9, FinishSaleTypes DEF ReadEnd
  <2> QED
    BY <1>9, <2>1 DEF ReadEnd, TypeOK
<1>10. CASE ReadFails
  <2>1. inbox' \in Seq(Client)
    BY <1>10, EmptySeq DEF ReadFails
  <2> QED
    BY <1>10, <2>1 DEF ReadFails, TypeOK
<1>11. CASE BackupEnds
  <2>1. down' \in Seq(Update_) /\ backup' \in {"closed", "reset"}
    BY <1>11, EmptySeq DEF BackupEnds
  <2> QED
    BY <1>11, <2>1 DEF BackupEnds, TypeOK
<1>12. CASE UNCHANGED vars
  BY <1>12 DEF vars, TypeOK
<1> QED
  BY <1>1, <1>2, <1>3, <1>4, <1>5, <1>6, <1>7, <1>8, <1>9, <1>10, <1>11, <1>12
  DEF Next, Primary, Backup, ClientStep

\* The type invariant of every run (TypeOK): the primary is in a sale while it
\* waits for the backup, or ended in one, and what it sends has the shape the backup
\* parses.
THEOREM TypeCorrect == Spec => []TypeOK
<1>1. Init => TypeOK
  BY InitTypes
<1>2. TypeOK /\ [Next]_vars => TypeOK'
  BY TypeStep
<1> QED
  BY <1>1, <1>2, PTL DEF Spec

-----------------------------------------------------------------------------
(* The backup never shows less than the primary. An update in the stream     *)
(* was the primary's quantity when it was sent, and quantities only fall: so *)
(* what the stream holds is never below what the primary has either.         *)

StreamNeverBelow == \A n \in 1 .. Len(down) : down[n].qt >= prod[down[n].index]

AheadInv == TypeOK /\ NeverAhead /\ StreamNeverBelow

\* The primary's quantities only fall, when what is bought is never negative.
LEMMA QuantitiesFall ==
  ASSUME Quantities \subseteq Nat, TypeOK, [Next]_vars
  PROVE  \A i \in Index : prod'[i] <= prod[i]
<1>1. ASSUME NEW j \in Index, ReceiveSale(j)
      PROVE  \A i \in Index : prod'[i] <= prod[i]
  <2> DEFINE c == Head(inbox)
  <2>1. c \in Client
    BY <1>1, HeadTailProperties DEF ReceiveSale, TypeOK
  <2>2. request[c].qt \in Nat
    BY <1>1, <2>1 DEF ReceiveSale, TypeOK, Requests, Buys
  <2>3. prod' = [prod EXCEPT ![j] = @ - request[c].qt]
    BY <1>1 DEF ReceiveSale
  <2> QED
    BY <2>2, <2>3 DEF TypeOK, Quantity
<1>2. prod' = prod => \A i \in Index : prod'[i] <= prod[i]
  BY DEF TypeOK, Quantity
<1> QED
  BY <1>1, <1>2 DEF Next, Primary, Backup, ClientStep, Accept, ReceiveOther,
    Timeout, ReadAck, ReadEnd, ReadFails, FinishSale, Update, BackupEnds, Ask, Answered, vars

LEMMA AheadStep ==
  ASSUME Quantities \subseteq Nat, AheadInv, [Next]_vars
  PROVE  AheadInv'
<1>1. TypeOK /\ TypeOK'
  BY TypeStep DEF AheadInv
<1>2. \A i \in Index : prod'[i] <= prod[i]
  BY QuantitiesFall DEF AheadInv
<1>3. /\ \A i \in Index : mirror[i] \in Int /\ prod[i] \in Int /\ prod'[i] \in Int
      /\ \A n \in 1 .. Len(down) : down[n] \in Update_
  BY <1>1, ElementOfSeq DEF TypeOK, Quantity
<1>4. ASSUME UNCHANGED <<mirror, down>> PROVE NeverAhead' /\ StreamNeverBelow'
  BY <1>2, <1>3, <1>4 DEF AheadInv, NeverAhead, StreamNeverBelow, Update_
<1>5. ASSUME NEW j \in Index, ReceiveSale(j) PROVE NeverAhead' /\ StreamNeverBelow'
  <2> DEFINE m == [index |-> j, qt |-> prod'[j]]
  <2>1. tcp_write(m) /\ mirror' = mirror
    BY <1>5 DEF ReceiveSale
  <2>2. m \in Update_ /\ m.qt >= prod'[m.index]
    BY <1>3 DEF Update_
  <2> HIDE DEF m
  <2>3. \/ /\ Len(down') = Len(down) + 1
           /\ \A n \in 1 .. Len(down) : down'[n] = down[n]
           /\ down'[Len(down) + 1] = m
        \/ down' = down
    <3>1. down' = down \/ down' = Append(down, m)
      BY <2>1, Written
    <3>2. down \in Seq(Update_)
      BY <1>1 DEF TypeOK
    <3> QED
      BY <2>2, <3>1, <3>2, AppendProperties
  <2>4. Len(down) \in Nat
    BY <1>1, LenProperties DEF TypeOK
  <2>5. ASSUME NEW n \in 1 .. Len(down) PROVE down[n].qt >= prod'[down[n].index]
    BY <1>2, <1>3 DEF AheadInv, StreamNeverBelow, Update_
  <2>6. ASSUME NEW n \in 1 .. Len(down') PROVE down'[n].qt >= prod'[down'[n].index]
    <3>1. CASE n \in 1 .. Len(down)
      BY <2>3, <2>5, <3>1
    <3>2. CASE n = Len(down) + 1 /\ down' # down
      BY <2>2, <2>3, <3>2
    <3> QED
      BY <2>3, <2>4, <3>1, <3>2
  <2>7. NeverAhead'
    BY <1>2, <1>3, <2>1 DEF AheadInv, NeverAhead
  <2> QED
    BY <2>6, <2>7 DEF StreamNeverBelow
<1>6. ASSUME NEW k \in 1 .. Len(down), Update(k) PROVE NeverAhead' /\ StreamNeverBelow'
  <2>1. Len(down) \in Nat /\ 1 \in 1 .. Len(down)
    BY <1>1, LenProperties DEF TypeOK
  <2>2. mirror' = [mirror EXCEPT ![down[1].index] = down[1].qt] \/ mirror' = mirror
    BY <1>6 DEF Update, Stored
  <2>3. prod' = prod /\ down' = Rest(down, k)
    BY <1>6 DEF Update
  <2>4. down[1].qt >= prod[down[1].index]
    BY <2>1 DEF AheadInv, StreamNeverBelow
  <2>5. NeverAhead'
    BY <1>1, <1>3, <2>2, <2>3, <2>4 DEF AheadInv, NeverAhead, TypeOK, Quantity
  <2>6. /\ Len(Rest(down, k)) = Len(down) - k
        /\ \A n \in 1 .. Len(Rest(down, k)) : Rest(down, k)[n] = down[n + k]
    BY <1>1, RestOfStream DEF TypeOK
  <2>7. ASSUME NEW n \in 1 .. Len(down') PROVE down'[n].qt >= prod'[down'[n].index]
    <3>1. n + k \in 1 .. Len(down) /\ down'[n] = down[n + k]
      BY <2>1, <2>3, <2>6
    <3> QED
      BY <2>3, <3>1 DEF AheadInv, StreamNeverBelow
  <2> QED
    BY <2>5, <2>7 DEF StreamNeverBelow
<1>8. ASSUME BackupEnds PROVE NeverAhead' /\ StreamNeverBelow'
  <2>1. UNCHANGED <<prod, mirror>> /\ Len(down') = 0
    BY <1>8 DEF BackupEnds
  <2> QED
    BY <2>1 DEF AheadInv, NeverAhead, StreamNeverBelow
<1>7. NeverAhead' /\ StreamNeverBelow'
  BY <1>4, <1>5, <1>6, <1>8 DEF Next, Primary, Backup, ClientStep, Accept,
    ReceiveOther, Timeout, ReadAck, ReadEnd, ReadFails, FinishSale, Ask, Answered, vars
<1> QED
  BY <1>1, <1>7 DEF AheadInv

\* NeverAhead, for every set of quantities that are not negative: the backup
\* never shows less than the primary, however the reads merge its updates.
THEOREM BackupNeverAhead ==
  ASSUME Quantities \subseteq Nat
  PROVE  Spec => []NeverAhead
<1>1. Init => AheadInv
  <2> SUFFICES ASSUME Init PROVE AheadInv
    OBVIOUS
  <2>1. TypeOK
    BY InitTypes
  <2>2. prod = mirror /\ Len(down) = 0
    BY DEF Init
  <2> QED
    BY <2>1, <2>2 DEF AheadInv, NeverAhead, StreamNeverBelow, TypeOK, Quantity
<1>2. AheadInv /\ [Next]_vars => AheadInv'
  BY AheadStep
<1>3. AheadInv => NeverAhead
  BY DEF AheadInv
<1> QED
  BY <1>1, <1>2, <1>3, PTL DEF Spec

-----------------------------------------------------------------------------
(* The stream answers at most what it was asked.                             *)

\* A backup that has ended reads no more.
NothingDown == backup # "running" => down = <<>>

LEMMA DownStep ==
  ASSUME TypeOK, NothingDown, [Next]_vars
  PROVE  NothingDown'
<1>1. ASSUME NEW i \in Index, ReceiveSale(i) PROVE NothingDown'
  <2> PICK m : m = [index |-> i, qt |-> prod'[i]]
    OBVIOUS
  <2>1. tcp_write(m)
    BY <1>1 DEF ReceiveSale
  <2> QED
    BY <2>1, Written DEF NothingDown
<1>2. ASSUME NEW k \in 1 .. Len(down), Update(k) PROVE NothingDown'
  BY <1>2 DEF Update, NothingDown
<1>3. BackupEnds => NothingDown'
  BY DEF BackupEnds, NothingDown
<1>4. UNCHANGED <<backup, down>> => NothingDown'
  BY DEF NothingDown
<1> QED
  BY <1>1, <1>2, <1>3, <1>4 DEF Next, Primary, Backup, ClientStep, Accept, ReceiveOther,
    Timeout, ReadAck, ReadEnd, ReadFails, Ask, Answered, vars

LEMMA OwedStep ==
  ASSUME TypeOK, NothingDown, AcksAreOwed, [Next]_vars
  PROVE  AcksAreOwed'
<1>1. TypeOK'
  BY TypeStep
<1>2. /\ Len(up) \in Nat /\ Len(down) \in Nat /\ lates \in Nat
      /\ Len(up') \in Nat /\ Len(down') \in Nat /\ lates' \in Nat
  BY <1>1, LenProperties DEF TypeOK
<1>3. ASSUME NEW i \in Index, ReceiveSale(i) PROVE AcksAreOwed'
  <2>1. prod'[i] \in Int
    BY <1>1 DEF TypeOK, Quantity
  <2> DEFINE m == [index |-> i, qt |-> prod'[i]]
  <2>2. m \in Update_
    BY <2>1 DEF Update_
  <2>3. tcp_write(m)
    BY <1>3 DEF ReceiveSale
  <2> HIDE DEF m
  <2>4. \/ pc' = "ack" /\ Len(down') <= Len(down) + 1
        \/ pc' = "ended" /\ Len(down') = Len(down)
    BY <1>2, <2>2, <2>3, Written, AppendProperties DEF TypeOK
  <2>5. pc = "receive" /\ up' = up /\ lates' = lates
    BY <1>3 DEF ReceiveSale
  <2> QED
    BY <1>2, <2>4, <2>5 DEF AcksAreOwed
<1>4. CASE Timeout
  BY <1>2, <1>4 DEF Timeout, FinishSale, AcksAreOwed
<1>5. ASSUME NEW k \in 1 .. Len(up), ReadAck(k) PROVE AcksAreOwed'
  <2>1. Len(up') = Len(up) - k
    BY <1>5, RestOfStream DEF ReadAck, TypeOK
  <2> QED
    BY <1>2, <1>5, <2>1 DEF ReadAck, FinishSale, AcksAreOwed
<1>6. ASSUME NEW k \in 1 .. Len(down), Update(k) PROVE AcksAreOwed'
  <2>1. Len(down') = Len(down) - k
    BY <1>6, RestOfStream DEF Update, TypeOK
  <2>2. PICK a \in Acks : up' = Append(up, a)
    BY <1>6 DEF Update, Acks
  <2>3. Len(up') = Len(up) + 1
    BY <2>2, AppendProperties DEF TypeOK
  <2> QED
    BY <1>2, <1>6, <2>1, <2>3 DEF Update, AcksAreOwed
<1>7. CASE Accept \/ ReceiveOther
  BY <1>7 DEF Accept, ReceiveOther, AcksAreOwed
<1>8. ASSUME NEW c \in Client, ClientStep(c) PROVE AcksAreOwed'
  BY <1>8 DEF ClientStep, Ask, Answered, AcksAreOwed
<1>9. CASE UNCHANGED vars
  BY <1>9 DEF vars, AcksAreOwed
<1>10. CASE ReadEnd \/ ReadFails
  <2>1. Len(up') = 0 /\ Len(down') = 0
    BY <1>10 DEF ReadEnd, ReadFails, NothingDown
  <2>3. Len(up') + Len(down') <= lates'
    BY <1>2, <2>1
  <2> QED
    BY <1>2, <2>3 DEF AcksAreOwed
<1>11. CASE BackupEnds
  <2>1. Len(down') = 0 /\ UNCHANGED <<pc, up, lates>>
    BY <1>11 DEF BackupEnds
  <2> QED
    BY <1>2, <2>1 DEF AcksAreOwed
<1> QED
  BY <1>3, <1>4, <1>5, <1>6, <1>7, <1>8, <1>9, <1>10, <1>11 DEF Next, Primary, Backup

\* AcksAreOwed: an answer the primary finds in the stream is that of the sale
\* at hand or of one whose wait had timed out, one answer each.
THEOREM EveryAckOwed == Spec => []AcksAreOwed
<1>1. Init => AcksAreOwed /\ NothingDown
  BY DEF Init, AcksAreOwed, NothingDown
<1>2. TypeOK /\ AcksAreOwed /\ NothingDown /\ [Next]_vars => AcksAreOwed' /\ NothingDown'
  BY OwedStep, DownStep
<1> QED
  BY <1>1, <1>2, TypeCorrect, PTL DEF Spec

-----------------------------------------------------------------------------
(* The two databases agree, unless an acknowledgement was late. While the    *)
(* primary waits they may differ in the product it is selling, and then its  *)
(* update is in the stream or the answer is.                                 *)

SaleInTransit ==
  LET i == serving.index
  IN  /\ \A j \in Index \ {i} : mirror[j] = prod[j] /\ ~buyreq[j]
      /\ \/ down = <<[index |-> i, qt |-> prod[i]]>> /\ up = <<>>
         \/ down = <<>> /\ up = <<"SUCCESS">> /\ mirror[i] = prod[i]

SyncInv ==
  backup = "running" /\ lates = 0 =>
    IF pc = "ack"
    THEN SaleInTransit
    ELSE /\ prod = mirror
         /\ \A i \in Index : ~buyreq[i]
         /\ down = <<>> /\ up = <<>>

LEMMA SyncStep ==
  ASSUME TypeOK, SyncInv, [Next]_vars
  PROVE  SyncInv'
<1>1. TypeOK'
  BY TypeStep
<1>2. CASE UNCHANGED <<prod, buyreq, serving, mirror, backup, down, up, lates>>
           /\ (pc = "ack" <=> pc' = "ack")
  BY <1>2 DEF SyncInv, SaleInTransit
<1>3. ASSUME NEW i \in Index, ReceiveSale(i) PROVE SyncInv'
  <2> PICK m : m = [index |-> i, qt |-> prod'[i]]
    OBVIOUS
  <2>0. tcp_write(m) /\ lates' = lates /\ pc = "receive"
    BY <1>3 DEF ReceiveSale
  <2> SUFFICES ASSUME backup = "running", lates = 0 PROVE SaleInTransit' /\ pc' = "ack"
    BY <2>0, Written DEF SyncInv
  <2>5. pc' = "ack" /\ down' = Append(down, m)
    BY <2>0, Written
  <2>1. prod = mirror /\ down = <<>> /\ up = <<>> /\ \A j \in Index : ~buyreq[j]
    BY <1>3 DEF ReceiveSale, SyncInv
  <2>2. serving'.index = i
    BY <1>3 DEF ReceiveSale
  <2>3. down' = <<[index |-> i, qt |-> prod'[i]]>> /\ up' = <<>>
    <3>1. up' = <<>>
      BY <1>3, <2>1 DEF ReceiveSale
    <3>2. Append(<<>>, m) = <<m>>
      OBVIOUS
    <3> QED
      BY <2>1, <2>5, <3>1, <3>2
  <2>4. ASSUME NEW j \in Index \ {i} PROVE mirror'[j] = prod'[j] /\ ~buyreq'[j]
    <3>1. prod'[j] = prod[j] /\ mirror' = mirror
      BY <1>3 DEF ReceiveSale, TypeOK, Quantity
    <3>2. buyreq'[j] = buyreq[j]
      BY <1>3 DEF ReceiveSale, TypeOK
    <3> QED
      BY <2>1, <3>1, <3>2
  <2> QED
    BY <2>2, <2>3, <2>4, <2>5 DEF SaleInTransit
<1>4. CASE Timeout
  BY <1>4 DEF Timeout, SyncInv, TypeOK
<1>5. ASSUME NEW k \in 1 .. Len(up), ReadAck(k) PROVE SyncInv'
  <2> SUFFICES ASSUME backup = "running", lates = 0
      PROVE  prod' = mirror' /\ (\A i \in Index : ~buyreq'[i]) /\ down' = <<>> /\ up' = <<>>
    BY <1>5 DEF ReadAck, FinishSale, SyncInv
  <2> DEFINE s == serving.index
  <2>1. s \in Index /\ SaleInTransit
    BY <1>5 DEF ReadAck, SyncInv, TypeOK
  <2>2. down = <<>> /\ up = <<"SUCCESS">> /\ mirror[s] = prod[s]
    BY <2>1 DEF SaleInTransit
  <2>3. k = 1 /\ up[1] = "SUCCESS"
    BY <2>2
  <2>4. up' = <<>>
    <3>1. Len(up) = 1 /\ up' = Rest(up, k)
      BY <1>5, <2>2 DEF ReadAck
    <3>2. Len(Rest(up, k)) = Len(up) - k
      BY RestOfStream DEF TypeOK
    <3>3. Len(up') = 0
      BY <2>3, <3>1, <3>2
    <3> QED
      BY <1>1, <3>3, EmptySeq DEF TypeOK
  <2>5. prod = mirror
    BY <2>1, <2>2 DEF SaleInTransit, TypeOK, Quantity
  <2>6. buyreq' = [buyreq EXCEPT ![s] = FALSE]
    BY <1>5, <2>3 DEF ReadAck
  <2>7. \A i \in Index : ~buyreq'[i]
    BY <2>1, <2>6 DEF SaleInTransit, TypeOK
  <2> QED
    BY <1>5, <2>2, <2>4, <2>5, <2>7 DEF ReadAck
<1>6. ASSUME NEW k \in 1 .. Len(down), Update(k) PROVE SyncInv'
  <2> SUFFICES ASSUME backup = "running", lates = 0
      PROVE  pc' = "ack" /\ SaleInTransit'
    BY <1>6 DEF Update, SyncInv
  <2> DEFINE s == serving.index
  <2>1. pc = "ack" /\ s \in Index /\ SaleInTransit
    BY <1>6 DEF SyncInv, TypeOK
  <2>2. down = <<[index |-> s, qt |-> prod[s]]>> /\ up = <<>>
    <3>1. down # <<>>
      BY <1>6
    <3> QED
      BY <2>1, <3>1 DEF SaleInTransit
  <2> HIDE DEF s
  <2>3. Len(down) = 1 /\ down[1].index = s /\ down[1].qt = prod[s] /\ s < NProd
    BY <2>1, <2>2, Products
  <2>4. mirror' = [mirror EXCEPT ![s] = prod[s]] /\ up' = <<"SUCCESS">>
    <3>1. up' = Append(<<>>, "SUCCESS")
      BY <1>6, <2>2, <2>3 DEF Update
    <3>2. up' = <<"SUCCESS">>
      BY <3>1
    <3>3. mirror' = Stored(down[1])
      BY <1>6, <2>3 DEF Update
    <3> QED
      BY <2>3, <3>2, <3>3 DEF Stored
  <2>5. down' = <<>>
    <3>1. k = 1 /\ down' = Rest(down, k)
      BY <1>6, <2>3 DEF Update
    <3>2. Len(Rest(down, k)) = Len(down) - k
      BY RestOfStream DEF TypeOK
    <3>3. Len(down') = 0
      BY <2>3, <3>1, <3>2
    <3> QED
      BY <1>1, <3>3, EmptySeq DEF TypeOK
  <2>6. mirror'[s] = prod[s] /\ \A j \in Index \ {s} : mirror'[j] = mirror[j]
    BY <2>1, <2>4 DEF TypeOK, Quantity
  <2>7. pc' = pc /\ prod' = prod /\ buyreq' = buyreq /\ serving' = serving
    BY <1>6 DEF Update
  <2>8. \A j \in Index \ {s} : mirror'[j] = prod[j] /\ ~buyreq[j]
    BY <2>1, <2>6 DEF SaleInTransit, s
  <2>9. SaleInTransit'
    BY <2>4, <2>5, <2>6, <2>7, <2>8 DEF SaleInTransit, s
  <2> QED
    BY <2>1, <2>7, <2>9
<1>7. CASE Accept \/ ReceiveOther
  BY <1>2, <1>7 DEF Accept, ReceiveOther
<1>8. ASSUME NEW c \in Client, ClientStep(c) PROVE SyncInv'
  BY <1>2, <1>8 DEF ClientStep, Ask, Answered
<1>9. CASE UNCHANGED vars
  BY <1>2, <1>9 DEF vars
<1>10. CASE ReadEnd \/ ReadFails \/ BackupEnds
  BY <1>10 DEF ReadEnd, ReadFails, BackupEnds, SyncInv
<1> QED
  BY <1>3, <1>4, <1>5, <1>6, <1>7, <1>8, <1>9, <1>10 DEF Next, Primary, Backup

\* InSyncUnlessLate: until an acknowledgement is late, or the backup ends, both
\* have the same data whenever the primary takes a request.
THEOREM BackupInSync == Spec => []InSyncUnlessLate
<1>1. Init => SyncInv
  BY DEF Init, SyncInv
<1>2. TypeOK /\ SyncInv /\ [Next]_vars => SyncInv'
  BY SyncStep
<1>3. SyncInv => InSyncUnlessLate
  BY DEF SyncInv, InSyncUnlessLate
<1> QED
  BY <1>1, <1>2, <1>3, TypeCorrect, PTL DEF Spec

-----------------------------------------------------------------------------
(* Clients see one atomic store. A client that waits is in one place at      *)
(* most: its datagram is in the inbox, the primary is serving it, or its     *)
(* answer is on the way.                                                     *)

InOnePlace ==
  /\ \A c \in Client : reply[c] # <<>> => c \in waiting /\ Len(reply[c]) = 1
  /\ \A n \in 1 .. Len(inbox) :
       /\ inbox[n] \in waiting
       /\ reply[inbox[n]] = <<>>
       /\ ~Deciding(inbox[n])
  /\ \A m, n \in 1 .. Len(inbox) : inbox[m] = inbox[n] => m = n
  /\ pc \in {"ack", "ended"} => serving.client \in waiting /\ reply[serving.client] = <<>>

\* Taking the first datagram: its sender is in no other place.
LEMMA TakenFromInbox ==
  ASSUME TypeOK, InOnePlace, inbox # <<>>
  PROVE  /\ Head(inbox) \in Client
         /\ Head(inbox) \in waiting
         /\ reply[Head(inbox)] = <<>>
         /\ ~Deciding(Head(inbox))
         /\ Tail(inbox) \in Seq(Client)
         /\ Len(Tail(inbox)) = Len(inbox) - 1
         /\ Len(inbox) \in Nat
         /\ \A n \in 1 .. Len(Tail(inbox)) :
              /\ n + 1 \in 1 .. Len(inbox)
              /\ Tail(inbox)[n] = inbox[n + 1]
              /\ Tail(inbox)[n] # Head(inbox)
<1>1. inbox \in Seq(Client)
  BY DEF TypeOK
<1>2. Len(inbox) \in Nat /\ Len(inbox) # 0
  BY <1>1, LenProperties, EmptySeq
<1>3. Head(inbox) = inbox[1] /\ 1 \in 1 .. Len(inbox)
  BY <1>2
<1>4. /\ Tail(inbox) \in Seq(Client)
      /\ Len(Tail(inbox)) = Len(inbox) - 1
      /\ \A n \in 1 .. Len(Tail(inbox)) : Tail(inbox)[n] = inbox[n + 1]
  BY <1>1, HeadTailProperties
<1>5. \A n \in 1 .. Len(Tail(inbox)) : n + 1 \in 1 .. Len(inbox) /\ n + 1 # 1
  BY <1>2, <1>4
<1>6. \A n \in 1 .. Len(Tail(inbox)) : Tail(inbox)[n] # Head(inbox)
  BY <1>3, <1>4, <1>5 DEF InOnePlace
<1>7. inbox[1] \in Client
  BY <1>1, <1>3, ElementOfSeq
<1> QED
  BY <1>2, <1>3, <1>4, <1>5, <1>6, <1>7 DEF InOnePlace

\* The only answer on its way to a client leaves none behind.
LEMMA OneAnswer ==
  ASSUME TypeOK, InOnePlace, NEW c \in Client, reply[c] # <<>>
  PROVE  Tail(reply[c]) = <<>>
<1>1. reply[c] \in Seq(Replies) /\ Len(reply[c]) = 1
  BY DEF TypeOK, InOnePlace
<1>2. Tail(reply[c]) \in Seq(Replies) /\ Len(Tail(reply[c])) = 0
  BY <1>1, HeadTailProperties
<1> QED
  BY <1>2, EmptySeq

LEMMA PlaceStep ==
  ASSUME TypeOK, InOnePlace, [Next]_vars
  PROVE  InOnePlace'
<1>1. TypeOK'
  BY TypeStep
<1>2. ASSUME UNCHANGED <<waiting, inbox, reply, serving>>,
             pc \in {"ack", "ended"} <=> pc' \in {"ack", "ended"}
      PROVE  InOnePlace'
  BY <1>2 DEF InOnePlace, Deciding
<1>3. CASE ReceiveOther
  <2> DEFINE h == Head(inbox)
  <2>1. inbox # <<>> /\ pc = "receive" /\ pc' = pc /\ waiting' = waiting /\ inbox' = Tail(inbox)
    BY <1>3 DEF ReceiveOther
  <2>2. PICK message : Send(h, message)
    BY <1>3 DEF ReceiveOther
  <2> HIDE DEF h
  <2>3. h \in Client /\ h \in waiting /\ reply[h] = <<>>
    BY <2>1, TakenFromInbox DEF h
  <2>4. reply' = [reply EXCEPT ![h] = <<message>>]
    BY <2>2, <2>3 DEF Send, TypeOK
  <2>5. \A c \in Client : reply'[c] # <<>> => c \in waiting' /\ Len(reply'[c]) = 1
    BY <2>1, <2>3, <2>4 DEF InOnePlace, TypeOK
  <2>6. ASSUME NEW n \in 1 .. Len(inbox')
        PROVE  inbox'[n] \in waiting' /\ reply'[inbox'[n]] = <<>>
    <3>1. n + 1 \in 1 .. Len(inbox) /\ inbox'[n] = inbox[n + 1] /\ inbox'[n] # h
      BY <2>1, TakenFromInbox DEF h
    <3>2. inbox[n + 1] \in waiting /\ reply[inbox[n + 1]] = <<>>
      BY <3>1 DEF InOnePlace
    <3>3. inbox[n + 1] \in Client
      BY <3>2 DEF TypeOK
    <3> QED
      BY <2>1, <2>4, <3>1, <3>2, <3>3 DEF TypeOK
  <2>7. \A m, n \in 1 .. Len(inbox') : inbox'[m] = inbox'[n] => m = n
    BY <2>1, TakenFromInbox DEF InOnePlace
  <2> QED
    BY <2>1, <2>5, <2>6, <2>7 DEF InOnePlace, Deciding
<1>4. ASSUME NEW i \in Index, ReceiveSale(i) PROVE InOnePlace'
  <2> DEFINE h == Head(inbox)
  <2> PICK m : m = [index |-> i, qt |-> prod'[i]]
    OBVIOUS
  <2>0. tcp_write(m)
    BY <1>4 DEF ReceiveSale
  <2>1. /\ inbox # <<>> /\ waiting' = waiting /\ reply' = reply
        /\ serving'.client = h
    BY <1>4 DEF ReceiveSale
  <2>5. inbox' = Tail(inbox) \/ Len(inbox') = 0
    BY <2>0, Written
  <2> HIDE DEF h
  <2>2. h \in waiting /\ reply[h] = <<>>
    BY <2>1, TakenFromInbox DEF h
  <2>3. ASSUME NEW n \in 1 .. Len(inbox')
        PROVE  inbox'[n] \in waiting' /\ reply'[inbox'[n]] = <<>> /\ ~Deciding(inbox[n])'
    <3>1. n + 1 \in 1 .. Len(inbox) /\ inbox'[n] = inbox[n + 1] /\ inbox'[n] # h
      BY <2>1, <2>5, TakenFromInbox DEF h
    <3> QED
      BY <2>1, <3>1 DEF InOnePlace, Deciding
  <2>4. \A k, n \in 1 .. Len(inbox') : inbox'[k] = inbox'[n] => k = n
    BY <2>1, <2>5, TakenFromInbox DEF InOnePlace
  <2> QED
    BY <2>1, <2>2, <2>3, <2>4 DEF InOnePlace
<1>5. ASSUME pc = "ack", FinishSale, UNCHANGED <<waiting, inbox>>
      PROVE  InOnePlace'
  <2> DEFINE s == serving.client
  <2>1. s \in Client /\ s \in waiting /\ reply[s] = <<>>
    BY <1>5 DEF TypeOK, InOnePlace
  <2>2. reply' = [reply EXCEPT ![s] = <<Successful>>] /\ pc' = "receive"
    BY <1>5, <2>1 DEF FinishSale, Send, SaleAnswer, TypeOK
  <2> HIDE DEF s
  <2>3. \A c \in Client : reply'[c] # <<>> => c \in waiting' /\ Len(reply'[c]) = 1
    BY <1>5, <2>1, <2>2 DEF InOnePlace, TypeOK
  <2>4. ASSUME NEW n \in 1 .. Len(inbox')
        PROVE  inbox'[n] \in waiting' /\ reply'[inbox'[n]] = <<>>
    <3>1. inbox[n] \in waiting /\ reply[inbox[n]] = <<>> /\ inbox[n] # s
      BY <1>5 DEF InOnePlace, Deciding, s
    <3> QED
      BY <1>5, <2>2, <3>1 DEF TypeOK
  <2> QED
    BY <1>5, <2>2, <2>3, <2>4 DEF InOnePlace, Deciding
<1>6. ASSUME NEW c \in Client, NEW r \in Requests, Ask(c, r) PROVE InOnePlace'
  <2>1. c \notin waiting /\ reply[c] = <<>> /\ ~Deciding(c)
    BY <1>6 DEF Ask, InOnePlace, Deciding
  <2>2. waiting' = waiting \cup {c} /\ UNCHANGED <<pc, serving, reply>>
    BY <1>6 DEF Ask
  <2>3. CASE inbox' = inbox
    BY <2>2, <2>3 DEF InOnePlace, Deciding
  <2>4. CASE inbox' = Append(inbox, c)
    <3>1. /\ Len(inbox) \in Nat
          /\ Len(inbox') = Len(inbox) + 1
          /\ \A n \in 1 .. Len(inbox) : inbox'[n] = inbox[n]
          /\ inbox'[Len(inbox) + 1] = c
      BY <2>4, AppendProperties, LenProperties DEF TypeOK
    <3>2. \A n \in 1 .. Len(inbox') : n \in 1 .. Len(inbox) \/ n = Len(inbox) + 1
      BY <3>1
    <3>3. \A n \in 1 .. Len(inbox) : inbox[n] # c
      BY <2>1 DEF InOnePlace
    <3>4. \A n \in 1 .. Len(inbox') :
            inbox'[n] \in waiting' /\ reply'[inbox'[n]] = <<>> /\ ~Deciding(inbox[n])'
      BY <2>1, <2>2, <3>1, <3>2 DEF InOnePlace, Deciding
    <3>5. \A m, n \in 1 .. Len(inbox') : inbox'[m] = inbox'[n] => m = n
      BY <3>1, <3>2, <3>3 DEF InOnePlace
    <3> QED
      BY <2>2, <3>4, <3>5 DEF InOnePlace
  <2> QED
    BY <1>6, <2>3, <2>4 DEF Ask
<1>7. ASSUME NEW c \in Client, Answered(c) PROVE InOnePlace'
  <2>1. waiting' = waiting \ {c} /\ UNCHANGED <<pc, serving, inbox>>
    BY <1>7 DEF Answered
  <2>2. reply[c] # <<>> /\ reply' = [reply EXCEPT ![c] = <<>>]
    BY <1>7, OneAnswer DEF Answered
  <2>3. \A n \in 1 .. Len(inbox) : inbox[n] # c
    BY <2>2 DEF InOnePlace
  <2>4. pc \in {"ack", "ended"} => serving.client # c
    BY <2>2 DEF InOnePlace
  <2> QED
    BY <2>1, <2>2, <2>3, <2>4 DEF InOnePlace, Deciding, TypeOK
<1>8. CASE Accept \/ Backup \/ UNCHANGED vars
  BY <1>2, <1>8 DEF Accept, Backup, BackupEnds, Update, vars
<1>9. CASE ReadFails
  <2>1. /\ Len(inbox') = 0 /\ pc = "ack" /\ pc' = "ended"
        /\ UNCHANGED <<waiting, reply, serving>>
    BY <1>9 DEF ReadFails
  <2> QED
    BY <2>1 DEF InOnePlace
<1> QED
  BY <1>3, <1>4, <1>5, <1>6, <1>7, <1>8, <1>9
  DEF Next, Primary, ClientStep, Timeout, ReadAck, ReadEnd

\* What Ask, the primary and Answered do to one client, in the terms of Store.
LEMMA StoreStep ==
  ASSUME TypeOK, InOnePlace, [Next]_vars
  PROVE  [Shop!Next]_<<prod, Asked, Told>>
<1> DEFINE Stutter == UNCHANGED <<prod, Asked, Told>>
<1>1. ASSUME NEW c \in Client, NEW r \in Requests, Ask(c, r) PROVE Shop!Ask(c)
  <2>1. c \notin waiting /\ Asked[c] = <<>>
    BY <1>1 DEF Ask, Asked
  <2>2. Asked' = [Asked EXCEPT ![c] = <<r>>]
    BY <1>1, <2>1 DEF Ask, Asked, TypeOK
  <2>3. prod' = prod /\ Told' = Told
    BY <1>1 DEF Ask, Told, Deciding
  <2> QED
    BY <2>1, <2>2, <2>3 DEF Shop!Ask
<1>2. ASSUME NEW c \in Client, Answered(c) PROVE Shop!Return(c)
  <2>1. reply[c] # <<>> /\ reply' = [reply EXCEPT ![c] = <<>>]
    BY <1>2, OneAnswer DEF Answered
  <2>2. ~Deciding(c) /\ ~Deciding(c)'
    BY <1>2, <2>1 DEF Answered, Deciding, InOnePlace
  <2>3. Told[c] # <<>>
    BY <2>1, <2>2 DEF Told
  <2>4. Told' = [Told EXCEPT ![c] = <<>>]
    BY <1>2, <2>1, <2>2 DEF Told, Deciding, Answered, TypeOK
  <2>5. Asked' = [Asked EXCEPT ![c] = <<>>]
    BY <1>2 DEF Answered, Asked
  <2>6. prod' = prod
    BY <1>2 DEF Answered
  <2> QED
    BY <2>3, <2>4, <2>5, <2>6 DEF Shop!Return
<1>3. CASE ReceiveOther
  <2> DEFINE h == Head(inbox)
  <2>1. /\ inbox # <<>> /\ prod' = prod /\ waiting' = waiting /\ request' = request
        /\ pc = "receive" /\ pc' = pc
    BY <1>3 DEF ReceiveOther
  <2>2. \/ request[h] = Browse /\ Send(h, List(prod))
        \/ /\ request[h] # Browse
           /\ \A i \in Index : ~Sells(request[h], i)
           /\ Send(h, Unsuccessful)
    BY <1>3 DEF ReceiveOther
  <2> HIDE DEF h
  <2>3. h \in Client /\ h \in waiting /\ reply[h] = <<>>
    BY <2>1, TakenFromInbox DEF h
  <2>4. Asked[h] = <<request[h]>> /\ Told[h] = <<>> /\ request[h] \in Requests
    BY <2>1, <2>3 DEF Asked, Told, Deciding, TypeOK
  <2>5. Told = reply /\ Told' = reply' /\ Asked' = Asked
    <3>1. reply \in [Client -> Seq(Replies)] /\ reply' \in [Client -> Seq(Replies)]
      BY TypeStep DEF TypeOK
    <3>2. Told = reply
      BY <2>1, <3>1 DEF Told, Deciding
    <3>3. Told' = reply'
      BY <2>1, <3>1 DEF Told, Deciding
    <3> QED
      BY <2>1, <3>2, <3>3 DEF Asked
  <2>6. ASSUME request[h] = Browse, Send(h, List(prod)) PROVE Shop!Decide(h)
    <3>1. Told' = [Told EXCEPT ![h] = <<List(prod)>>]
      BY <2>3, <2>5, <2>6 DEF Send, TypeOK
    <3>2. Asked[h][1].op = "BROWSE"
      BY <2>4, <2>6 DEF Browse
    <3>3. Shop!Show(h)
      BY <2>1, <3>1, <3>2 DEF Shop!Show, List
    <3> QED
      BY <2>3, <2>4, <2>5, <3>3 DEF Shop!Decide
  <2>7. ASSUME request[h] # Browse,
               \A i \in Index : ~Sells(request[h], i),
               Send(h, Unsuccessful)
        PROVE  Shop!Decide(h)
    <3>1. Told' = [Told EXCEPT ![h] = <<Unsuccessful>>]
      BY <2>3, <2>5, <2>7 DEF Send, TypeOK
    <3>2. request[h] \in Buys
      BY <2>4, <2>7 DEF Requests
    <3>3. Asked[h][1] = request[h] /\ request[h].op = "BUY" /\ request[h].qt \in Int
      <4>1. request[h].op = "BUY" /\ request[h].qt \in Quantities
        BY <3>2 DEF Buys
      <4>2. request[h].qt \in Int
        BY <4>1, MirrorConstants
      <4>3. Asked[h][1] = request[h]
        BY <2>4
      <4> QED
        BY <4>1, <4>2, <4>3
    <3>4. \A i \in Index : request[h].id = i + 1 => request[h].qt > prod[i]
      BY <2>7, <3>3 DEF Sells, TypeOK, Quantity
    <3>5. Shop!Refuse(h)
      BY <2>1, <3>1, <3>3, <3>4 DEF Shop!Refuse, Unsuccessful
    <3> QED
      BY <2>3, <2>4, <2>5, <3>5 DEF Shop!Decide
  <2>8. Shop!Decide(h)
    BY <2>2, <2>6, <2>7
  <2> QED
    BY <2>3, <2>8 DEF Shop!Next
<1>4. ASSUME NEW i \in Index, ReceiveSale(i) PROVE \E c \in Client : Shop!Decide(c)
  <2> DEFINE h == Head(inbox)
  <2> PICK m : m = [index |-> i, qt |-> prod'[i]]
    OBVIOUS
  <2>0. tcp_write(m)
    BY <1>4 DEF ReceiveSale
  <2>10. pc' \in {"ack", "ended"}
    BY <2>0, Written
  <2>1. /\ inbox # <<>> /\ waiting' = waiting /\ request' = request /\ reply' = reply
        /\ pc = "receive" /\ serving' = [client |-> h, index |-> i]
        /\ request[h] # Browse /\ Sells(request[h], i)
        /\ prod' = [prod EXCEPT ![i] = @ - request[h].qt]
    BY <1>4 DEF ReceiveSale
  <2> HIDE DEF h
  <2>2. h \in Client /\ h \in waiting /\ reply[h] = <<>>
    BY <2>1, TakenFromInbox DEF h
  <2>3. Asked[h] = <<request[h]>> /\ Told[h] = <<>> /\ request[h] \in Buys
    BY <2>1, <2>2 DEF Asked, Told, Deciding, TypeOK, Requests
  <2>4. Asked[h][1] = request[h] /\ request[h].op = "BUY" /\ request[h].qt \in Int
    <3>1. request[h].op = "BUY" /\ request[h].qt \in Quantities
      BY <2>3 DEF Buys
    <3>2. request[h].qt \in Int
      BY <3>1, MirrorConstants
    <3>3. Asked[h][1] = request[h]
      BY <2>3
    <3> QED
      BY <3>1, <3>2, <3>3
  <2>5. request[h].id = i + 1 /\ request[h].qt <= prod[i]
    BY <2>1, <2>4 DEF Sells, TypeOK, Quantity
  <2>6. Asked' = Asked
    BY <2>1 DEF Asked
  <2>7. Told' = [Told EXCEPT ![h] = <<Successful>>]
    BY <2>1, <2>2, <2>10 DEF Told, Deciding, TypeOK
  <2>8. Shop!Sell(h, i)
    BY <2>1, <2>4, <2>5, <2>7 DEF Shop!Sell, Successful
  <2>9. Shop!Decide(h)
    BY <2>3, <2>6, <2>8 DEF Shop!Decide
  <2> QED
    BY <2>2, <2>9
<1>5. ASSUME pc = "ack", FinishSale, UNCHANGED <<prod, waiting, request>>
      PROVE  Stutter
  <2> DEFINE s == serving.client
  <2>1. s \in Client /\ reply[s] = <<>>
    BY <1>5 DEF TypeOK, InOnePlace
  <2>2. reply' = [reply EXCEPT ![s] = <<Successful>>] /\ pc' = "receive"
    BY <1>5, <2>1 DEF FinishSale, Send, SaleAnswer, TypeOK
  <2>3. Told' = Told
    BY <1>5, <2>1, <2>2 DEF Told, Deciding, TypeOK
  <2> QED
    BY <1>5, <2>3 DEF Asked
<1>6. CASE Accept \/ Backup \/ UNCHANGED vars
  BY <1>6 DEF Accept, Backup, BackupEnds, Update, vars, Asked, Told, Deciding
<1>7. Timeout => Stutter
  BY <1>5 DEF Timeout
<1>8. \A k \in 1 .. Len(up) : ReadAck(k) => Stutter
  BY <1>5 DEF ReadAck
<1>9. ReadEnd => Stutter
  BY <1>5 DEF ReadEnd
<1>10. ReadFails => Stutter
  BY DEF ReadFails, Asked, Told, Deciding
<1> QED
  BY <1>1, <1>2, <1>3, <1>4, <1>6, <1>7, <1>8, <1>9, <1>10
  DEF Next, Primary, ClientStep, Shop!Next

\* StoreSpec: Mirror implements Store. Clients cannot tell the primary with its
\* backup, its waits and its timeouts from one store that decides every request
\* in one step.
THEOREM ImplementsStore == Spec => StoreSpec
<1>1. Init => InOnePlace
  BY DEF Init, InOnePlace
<1>2. TypeOK /\ InOnePlace /\ [Next]_vars => InOnePlace'
  BY PlaceStep
<1>3. Init => Shop!Init
  BY DEF Init, Shop!Init, Asked, Told, Deciding
<1>4. TypeOK /\ InOnePlace /\ [Next]_vars => [Shop!Next]_<<prod, Asked, Told>>
  BY StoreStep
<1> QED
  BY <1>1, <1>2, <1>3, <1>4, TypeCorrect, PTL DEF Spec, StoreSpec, Shop!Spec
=============================================================================
