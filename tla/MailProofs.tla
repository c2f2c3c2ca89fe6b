----------------------------- MODULE MailProofs -----------------------------
(* What holds of Mail for every number of clients, readers, messages and      *)
(* lines, and however a read joins lines: first of the readers, then of the   *)
(* dialogs of clients and sessions, who waits for whom, and for what.         *)
EXTENDS MailProperties, SequenceTheorems, FiniteSetTheorems, TLAPS

-----------------------------------------------------------------------------
(* Listings.                                                                 *)

\* Every number of a listing is that of one key.
LEMMA Ranked ==
  ASSUME NEW keys \in SUBSET Nat, IsFiniteSet(keys), NEW n \in 1 .. Cardinality(keys)
  PROVE  \E key \in keys : Cardinality({k \in keys : k >= key}) = n
<1> DEFINE From(key) == {k \in keys : k >= key}
           rank == [key \in keys |-> Cardinality(From(key))]
<1>1. Cardinality(keys) \in Nat
  BY FS_CardinalityType
<1>2. ASSUME NEW key \in keys
      PROVE  /\ IsFiniteSet(From(key)) /\ From(key) \subseteq keys /\ key \in From(key)
             /\ Cardinality(From(key)) \in 1 .. Cardinality(keys)
  <2>1. From(key) \subseteq keys /\ key \in From(key)
    OBVIOUS
  <2> HIDE DEF From
  <2>2. IsFiniteSet(From(key)) /\ Cardinality(From(key)) <= Cardinality(keys)
    BY <2>1, FS_Subset
  <2>3. Cardinality(From(key)) \in Nat /\ Cardinality(From(key)) # 0
    BY <2>1, <2>2, FS_CardinalityType, FS_EmptySet
  <2> QED
    BY <1>1, <2>1, <2>2, <2>3
<1>3. ASSUME NEW j \in keys, NEW k \in keys, j < k
      PROVE  Cardinality(From(j)) # Cardinality(From(k))
  <2>1. From(k) \subseteq From(j) /\ j \notin From(k) /\ j \in From(j)
    <3>1. j \in Nat /\ k \in Nat
      OBVIOUS
    <3>2. ~(j >= k) /\ j >= j
      BY <1>3, <3>1
    <3>3. \A m \in keys : m >= k => m >= j
      BY <1>3, <3>1
    <3> QED
      BY <3>2, <3>3
  <2> HIDE DEF From
  <2> QED
    BY <1>2, <2>1, FS_Subset
<1> HIDE DEF From
<1>4. rank \in Injection(keys, 1 .. Cardinality(keys))
  <2>1. rank \in [keys -> 1 .. Cardinality(keys)]
    BY <1>2
  <2>2. ASSUME NEW j \in keys, NEW k \in keys, rank[j] = rank[k] PROVE j = k
    <3>1. j < k \/ k < j \/ j = k
      OBVIOUS
    <3> QED
      BY <1>3, <2>2, <3>1
  <2> QED
    BY <2>1, <2>2 DEF Injection, IsInjective
<1>5. IsFiniteSet(1 .. Cardinality(keys)) /\ Cardinality(1 .. Cardinality(keys)) = Cardinality(keys)
  BY <1>1, FS_Interval
<1> HIDE DEF rank
<1>6. rank \in Surjection(keys, 1 .. Cardinality(keys))
  BY <1>4, <1>5, FS_Injection
<1>7. PICK key \in keys : rank[key] = n
  BY <1>6 DEF Surjection
<1>8. rank[key] = Cardinality({k \in keys : k >= key})
  BY DEF rank, From
<1> QED
  BY <1>7, <1>8

LEMMA Intervals == \A a, b \in Nat : 1 .. a = 1 .. b => a = b
<1> SUFFICES ASSUME NEW a \in Nat, NEW b \in Nat, 1 .. a = 1 .. b PROVE a = b
  OBVIOUS
<1>1. Cardinality(1 .. a) = a /\ Cardinality(1 .. b) = b
  BY FS_Interval
<1> QED
  BY <1>1

\* The rows that a listing can name.
Listed(table, gone, u) ==
  {n \in 1 .. Len(table) : n \notin gone /\ table[n].receiver = u}

LEMMA MsgList ==
  ASSUME NEW table, Len(table) \in Nat, NEW gone, NEW u, NEW all \in BOOLEAN,
         NEW list, list = getMsgList(table, gone, u, all)
  PROVE  /\ list \in Seq(Nat) /\ Len(list) \in Nat
         /\ \A n \in 1 .. Len(list) : list[n] \in Listed(table, gone, u)
<1> PICK keys : keys = {n \in (1 .. Len(table)) \ gone :
                          table[n].receiver = u /\ (all \/ ~table[n].isread)}
  OBVIOUS
<1>1. keys \in SUBSET Nat /\ keys \subseteq 1 .. Len(table) /\ keys \subseteq Listed(table, gone, u)
  BY DEF Listed
<1>2. IsFiniteSet(keys) /\ Cardinality(keys) \in Nat
  <2>1. IsFiniteSet(1 .. Len(table))
    BY FS_Interval
  <2> QED
    BY <1>1, <2>1, FS_Subset, FS_CardinalityType
<1>3. list = [n \in 1 .. Cardinality(keys) |->
                CHOOSE key \in keys : Cardinality({k \in keys : k >= key}) = n]
  BY DEF getMsgList
<1>4. ASSUME NEW n \in 1 .. Cardinality(keys) PROVE list[n] \in keys
  <2>1. \E key \in keys : Cardinality({k \in keys : k >= key}) = n
    BY <1>1, <1>2, Ranked
  <2>2. (CHOOSE key \in keys : Cardinality({k \in keys : k >= key}) = n) \in keys
    BY <2>1
  <2> QED
    BY <1>3, <2>2
<1>5. list \in [1 .. Cardinality(keys) -> keys] /\ list \in [1 .. Cardinality(keys) -> Nat]
  BY <1>1, <1>3, <1>4
<1>6. list \in Seq(Nat) /\ Len(list) = Cardinality(keys)
  <2>1. \A n \in Nat : \A f \in [1 .. n -> Nat] : f \in Seq(Nat)
    BY SeqDef
  <2>2. list \in Seq(Nat) /\ DOMAIN list = 1 .. Cardinality(keys)
    BY <1>2, <1>5, <2>1
  <2>3. Len(list) \in Nat /\ DOMAIN list = 1 .. Len(list)
    BY <2>2, LenProperties
  <2> QED
    BY <1>2, <2>2, <2>3, Intervals
<1> QED
  BY <1>1, <1>2, <1>4, <1>6

-----------------------------------------------------------------------------
(* The tables.                                                               *)

Table(t) == Len(t) \in Nat /\ t = [n \in 1 .. Len(t) |-> t[n]]

LEMMA SeqIsTable == ASSUME NEW S, NEW t \in Seq(S) PROVE Table(t)
  BY LenProperties DEF Table

LEMMA MapIsTable ==
  ASSUME NEW N \in Nat, NEW t, t = [n \in 1 .. N |-> t[n]]
  PROVE  Table(t) /\ Len(t) = N
<1> DEFINE S == {t[n] : n \in 1 .. N}
<1>1. t \in [1 .. N -> S]
  OBVIOUS
<1>2. t \in Seq(S)
  BY <1>1, SeqDef
<1>3. Len(t) \in Nat /\ DOMAIN t = 1 .. Len(t) /\ DOMAIN t = 1 .. N
  BY <1>1, <1>2, LenProperties
<1> QED
  BY <1>2, <1>3, SeqIsTable, Intervals

LEMMA Inserted ==
  ASSUME NEW t, Table(t), NEW row, NEW u, u = Append(t, row)
  PROVE  /\ Table(u) /\ Len(u) = Len(t) + 1 /\ u[Len(t) + 1] = row
         /\ \A n \in 1 .. Len(t) : u[n] = t[n]
<1> DEFINE S == {t[n] : n \in 1 .. Len(t)} \cup {row}
<1>1. t \in [1 .. Len(t) -> S]
  BY DEF Table
<1>2. t \in Seq(S)
  BY <1>1, SeqDef DEF Table
<1>3. row \in S
  OBVIOUS
<1> HIDE DEF S
<1> QED
  BY <1>2, <1>3, AppendProperties, SeqIsTable

WellFormed(row) ==
  row = [mail |-> row.mail, sender |-> row.sender, receiver |-> row.receiver,
         message |-> row.message, isread |-> row.isread]

TablesOK ==
  /\ DOMAIN data = Domain /\ DOMAIN removed = Domain
  /\ \A d \in Domain : /\ Table(data[d])
                       /\ removed[d] \subseteq Keys(d)
                       /\ \A n \in Keys(d) : WellFormed(data[d][n])

\* The rows of a table after a step: those that were there are of the same mail
\* and the same users; read tells which of them it marks as read.
Follows(t, u, read_keys) ==
  /\ Table(u) /\ Len(t) <= Len(u)
  /\ \A n \in 1 .. Len(u) : WellFormed(u[n])
  /\ \A n \in 1 .. Len(t) :
       /\ u[n].receiver = t[n].receiver /\ u[n].sender = t[n].sender /\ u[n].mail = t[n].mail
       /\ u[n].isread => t[n].isread \/ n \in read_keys
  /\ \A n \in 1 .. Len(u) : n > Len(t) => ~u[n].isread

LEMMA FollowsSame ==
  ASSUME TablesOK, NEW d \in Domain PROVE Follows(data[d], data[d], {})
  BY DEF TablesOK, Follows, Keys, Table

LEMMA FollowsInsert ==
  ASSUME TablesOK, NEW d \in Domain, NEW mail, NEW from, NEW rcpt
  PROVE  Follows(data[d], insert(d, Row(mail, from, rcpt)).table, {})
<1> PICK row : row = Row(mail, from, rcpt)
  OBVIOUS
<1> PICK u : u = Append(data[d], row)
  OBVIOUS
<1>1. insert(d, row).table = u
  BY DEF insert
<1>2. WellFormed(row) /\ row.isread = FALSE
  BY DEF Row, WellFormed
<1>3. /\ Table(u) /\ Len(u) = Len(data[d]) + 1 /\ u[Len(data[d]) + 1] = row
      /\ \A n \in 1 .. Len(data[d]) : u[n] = data[d][n]
      /\ Len(data[d]) \in Nat
  BY Inserted DEF TablesOK, Table
<1>4. \A n \in 1 .. Len(u) : n \in 1 .. Len(data[d]) \/ n = Len(data[d]) + 1
  BY <1>3
<1>5. \A n \in 1 .. Len(u) : WellFormed(u[n])
  BY <1>2, <1>3, <1>4 DEF TablesOK, Keys
<1>6. \A n \in 1 .. Len(u) : n > Len(data[d]) => ~u[n].isread
  BY <1>2, <1>3, <1>4
<1> QED
  BY <1>1, <1>3, <1>5, <1>6 DEF Follows

LEMMA FollowsUpdate ==
  ASSUME TablesOK, NEW d \in Domain, NEW keys, NEW words
  PROVE  /\ Follows(data[d], update(d, keys, words), {})
         /\ Len(update(d, keys, words)) = Len(data[d])
<1> PICK u : u = update(d, keys, words)
  OBVIOUS
<1>1. Len(data[d]) \in Nat /\ \A n \in 1 .. Len(data[d]) : WellFormed(data[d][n])
  BY DEF TablesOK, Table, Keys
<1>2. /\ u = [n \in 1 .. Len(data[d]) |-> u[n]]
      /\ \A n \in 1 .. Len(data[d]) :
           u[n] = data[d][n] \/ u[n] = [data[d][n] EXCEPT !.message = @ \o words]
  BY DEF update, Keys
<1>3. Table(u) /\ Len(u) = Len(data[d])
  BY <1>1, <1>2, MapIsTable
<1>4. ASSUME NEW n \in 1 .. Len(data[d])
      PROVE  /\ WellFormed(u[n]) /\ u[n].receiver = data[d][n].receiver
             /\ u[n].sender = data[d][n].sender /\ u[n].mail = data[d][n].mail
             /\ u[n].isread = data[d][n].isread
  <2>1. CASE u[n] = data[d][n]
    BY <1>1, <2>1
  <2>2. CASE u[n] = [data[d][n] EXCEPT !.message = @ \o words]
    BY <1>1, <2>2 DEF WellFormed
  <2> QED
    BY <1>2, <2>1, <2>2
<1> QED
  BY <1>1, <1>3, <1>4 DEF Follows

LEMMA FollowsMark ==
  ASSUME TablesOK, NEW d \in Domain, NEW keys
  PROVE  Follows(data[d], markread(d, keys), keys) /\ Len(markread(d, keys)) = Len(data[d])
<1> PICK u : u = markread(d, keys)
  OBVIOUS
<1>1. Len(data[d]) \in Nat /\ \A n \in 1 .. Len(data[d]) : WellFormed(data[d][n])
  BY DEF TablesOK, Table, Keys
<1>2. /\ u = [n \in 1 .. Len(data[d]) |-> u[n]]
      /\ \A n \in 1 .. Len(data[d]) :
           u[n] = data[d][n] \/ (n \in keys /\ u[n] = [data[d][n] EXCEPT !.isread = TRUE])
  BY DEF markread, Keys
<1>3. Table(u) /\ Len(u) = Len(data[d])
  BY <1>1, <1>2, MapIsTable
<1>4. ASSUME NEW n \in 1 .. Len(data[d])
      PROVE  /\ WellFormed(u[n]) /\ u[n].receiver = data[d][n].receiver
             /\ u[n].sender = data[d][n].sender /\ u[n].mail = data[d][n].mail
             /\ u[n].isread => data[d][n].isread \/ n \in keys
  <2>1. CASE u[n] = data[d][n]
    BY <1>1, <2>1
  <2>2. CASE n \in keys /\ u[n] = [data[d][n] EXCEPT !.isread = TRUE]
    BY <1>1, <2>2 DEF WellFormed
  <2> QED
    BY <1>2, <2>1, <2>2
<1> QED
  BY <1>1, <1>3, <1>4 DEF Follows

\* The sessions add rows and lines, and mark and delete nothing.
LEMMA SmtpTables ==
  ASSUME TablesOK, SmtpNext
  PROVE  /\ DOMAIN data' = Domain /\ removed' = removed
         /\ \A d \in Domain : Follows(data[d], data'[d], {})
<1>1. CASE UNCHANGED tables
  BY <1>1, FollowsSame DEF tables, TablesOK
<1>2. ASSUME NEW e, NEW t, data' = [data EXCEPT ![e] = t], removed' = removed,
             e \in Domain => Follows(data[e], t, {})
      PROVE  /\ DOMAIN data' = Domain /\ removed' = removed
             /\ \A d \in Domain : Follows(data[d], data'[d], {})
  BY <1>2, FollowsSame DEF TablesOK
<1>3. ASSUME NEW s \in Session, RcptHere(s)
      PROVE  UNCHANGED tables \/ \E mail, from, rcpt :
               /\ data' = [data EXCEPT ![srv[s]] = insert(srv[s], Row(mail, from, rcpt)).table]
               /\ removed' = removed
  <2>1. CASE Arg(s) \in Users
    <3>1. /\ data' = [data EXCEPT ![srv[s]] = insert(srv[s], Row(s[1], sender[s], Arg(s))).table]
          /\ removed' = removed
      BY <1>3, <2>1 DEF RcptHere
    <3> QED
      BY <3>1
  <2>2. CASE Arg(s) \notin Users
    BY <1>3, <2>2 DEF RcptHere, tables
  <2> QED
    BY <2>1, <2>2
<1>4. ASSUME NEW s \in Session, ReadText(s) \/ ReadNothing(s)
      PROVE  \E keys, words :
               /\ data' = [data EXCEPT ![srv[s]] = update(srv[s], keys, words)]
               /\ removed' = removed
  BY <1>4 DEF ReadText, ReadNothing
<1>5. CASE \E s \in Session : RcptHere(s) \/ ReadText(s) \/ ReadNothing(s)
  BY <1>1, <1>2, <1>3, <1>4, <1>5, FollowsInsert, FollowsUpdate
<1>6. \/ UNCHANGED tables
      \/ \E s \in Session : RcptHere(s) \/ ReadText(s) \/ ReadNothing(s)
  BY DEF SmtpNext, SessionStep, Helo, MailFrom, Quit, Eof, RcptThere, RelayHello, RelayFrom,
         RelayTo, RelayRset, RelayAsk, RelayAnswered, Rset, RsetDone, Data, Invalid, StartDone,
         ReadDot, DotDone, QuitDone, UserStep, ClientStep, Connect, Retype, AskTo, GiveUp,
         StartData, Type, TypeDot, Die, Hello, FromAnswered, Accepted, Refused, Reset, ResetDone,
         DataStarted, Sent, Bye, ByeIgnored
<1> QED
  BY <1>1, <1>5, <1>6

-----------------------------------------------------------------------------
(* Readers.                                                                  *)

Entry == [key : Nat, deleted : BOOLEAN]

\* A key of a message of the reader's own.
Mine(p, k) == k \in Keys(At(p)) /\ data[At(p)][k].receiver = Account[p]

ReadersTyped ==
  /\ msglist \in [Reader -> Seq(Entry)]
  /\ DOMAIN screen = Reader /\ DOMAIN to_delete = Reader /\ DOMAIN read = Reader
  /\ DOMAIN deleted = Reader /\ DOMAIN opened = Reader

\* What a session puts off was meant by its user, who sees the keys of the
\* listing the session works on.
SessionMeans(p) ==
  /\ \A k \in to_delete[p] : Mine(p, k) /\ k \in deleted[p]
  /\ \A k \in read[p] : Mine(p, k) /\ k \in opened[p]
  /\ Len(screen[p]) = Len(msglist[p])
  /\ \A n \in 1 .. Len(msglist[p]) :
       Mine(p, msglist[p][n].key) /\ screen[p][n] = msglist[p][n].key

MeantInv ==
  /\ TablesOK /\ ReadersTyped /\ OnlyWhatWasMeant
  /\ \A p \in Reader : SessionMeans(p)

LEMMA AtDomain ==
  ASSUME NEW p \in Reader
  PROVE  At(p) \in Domain /\ Account[p] \in Users
  BY MailboxesConstants, PopConstants DEF At

\* The tables after a step.
LEMMA TablesFollow ==
  ASSUME TablesOK, DOMAIN data' = Domain, DOMAIN removed' = Domain,
         NEW marked,
         \A d \in Domain : Follows(data[d], data'[d], marked[d]) /\ removed'[d] \subseteq Keys(d)
  PROVE  /\ TablesOK'
         /\ \A p \in Reader : \A k : Mine(p, k) => Mine(p, k)'
<1>1. \A d \in Domain : Len(data[d]) \in Nat /\ Len(data'[d]) \in Nat /\ Len(data[d]) <= Len(data'[d])
  BY DEF TablesOK, Table, Follows
<1>2. \A d \in Domain : Keys(d) \subseteq Keys(d)'
  BY <1>1 DEF Keys
<1>3. TablesOK'
  BY <1>2 DEF TablesOK, Follows, Keys
<1>4. ASSUME NEW p \in Reader, NEW k, Mine(p, k) PROVE Mine(p, k)'
  <2>1. At(p) \in Domain /\ At(p)' = At(p)
    BY AtDomain DEF At
  <2> QED
    BY <1>2, <1>4, <2>1 DEF Mine, Follows, Keys
<1> QED
  BY <1>3, <1>4

\* What a step deletes, and marks as read, is meant.
StepMeant(marked) ==
  /\ \A p \in Reader : deleted[p] \subseteq deleted'[p] /\ opened[p] \subseteq opened'[p]
  /\ \A d \in Domain : removed'[d] \subseteq Keys(d)
  /\ \A d \in Domain : \A n \in Keys(d) :
       /\ n \in removed'[d] \ removed[d] => \E p \in Reader :
            Account[p] = data[d][n].receiver /\ n \in deleted'[p]
       /\ n \in marked[d] => \E p \in Reader :
            Account[p] = data[d][n].receiver /\ n \in opened'[p]

\* What was deleted or read so far stays meant.
LEMMA StillMeant ==
  ASSUME TablesOK, OnlyWhatWasMeant, NEW marked,
         \A d \in Domain : Follows(data[d], data'[d], marked[d]), StepMeant(marked)
  PROVE  OnlyWhatWasMeant'
<1> SUFFICES ASSUME NEW d \in Domain, NEW n \in Keys(d)'
             PROVE  /\ n \in removed'[d] => \E p \in Reader :
                         Account[p] = data'[d][n].receiver /\ n \in deleted'[p]
                    /\ data'[d][n].isread => \E p \in Reader :
                         Account[p] = data'[d][n].receiver /\ n \in opened'[p]
  BY DEF OnlyWhatWasMeant
<1>1. CASE n \in Keys(d)
  <2>1. /\ data'[d][n].receiver = data[d][n].receiver
        /\ data'[d][n].isread => data[d][n].isread \/ n \in marked[d]
    BY <1>1 DEF Follows, Keys
  <2>2. n \in removed[d] => \E p \in Reader :
          Account[p] = data[d][n].receiver /\ n \in deleted'[p]
    BY <1>1 DEF OnlyWhatWasMeant, StepMeant
  <2>3. data[d][n].isread => \E p \in Reader :
          Account[p] = data[d][n].receiver /\ n \in opened'[p]
    BY <1>1 DEF OnlyWhatWasMeant, StepMeant
  <2> QED
    BY <1>1, <2>1, <2>2, <2>3 DEF StepMeant
<1>2. CASE n \notin Keys(d)
  <2>1. n > Len(data[d])
    BY <1>2 DEF Keys, TablesOK, Table, Follows
  <2> QED
    BY <1>2, <2>1 DEF Follows, Keys, StepMeant
<1> QED
  BY <1>1, <1>2

LEMMA MeantSmtp ==
  ASSUME MeantInv, SmtpNext \/ UNCHANGED tables, UNCHANGED readers
  PROVE  MeantInv'
<1>1. /\ DOMAIN data' = Domain /\ removed' = removed
      /\ \A d \in Domain : Follows(data[d], data'[d], {})
  BY SmtpTables, FollowsSame DEF MeantInv, tables, TablesOK
<1> PICK marked : marked = [d \in Domain |-> {}]
  OBVIOUS
<1>2. \A d \in Domain : Follows(data[d], data'[d], marked[d])
  BY <1>1
<1>3. TablesOK' /\ \A p \in Reader : \A k : Mine(p, k) => Mine(p, k)'
  <2>1. DOMAIN removed' = Domain /\ \A d \in Domain : removed'[d] \subseteq Keys(d)
    BY <1>1 DEF MeantInv, TablesOK
  <2> QED
    BY <1>1, <1>2, <2>1, TablesFollow DEF MeantInv
<1>4. OnlyWhatWasMeant'
  <2>1. StepMeant(marked)
    BY <1>1 DEF MeantInv, TablesOK, readers, StepMeant
  <2> QED
    BY <1>2, <2>1, StillMeant DEF MeantInv
<1>5. \A p \in Reader : SessionMeans(p)'
  BY <1>3 DEF MeantInv, SessionMeans, readers
<1> QED
  BY <1>3, <1>4, <1>5 DEF MeantInv, ReadersTyped, readers

\* A step of reader q that leaves the tables and the other readers alone.
LEMMA MeantReader ==
  ASSUME MeantInv, NEW q \in Reader, UNCHANGED tables, ReadersTyped',
         \A p \in Reader \ {q} : /\ to_delete'[p] = to_delete[p] /\ read'[p] = read[p]
                                 /\ msglist'[p] = msglist[p] /\ screen'[p] = screen[p]
                                 /\ deleted'[p] = deleted[p] /\ opened'[p] = opened[p],
         deleted[q] \subseteq deleted'[q], opened[q] \subseteq opened'[q],
         SessionMeans(q)'
  PROVE  MeantInv'
<1>1. data' = data /\ removed' = removed
  BY DEF tables
<1>2. \A p \in Reader : \A k : Mine(p, k) <=> Mine(p, k)'
  BY <1>1 DEF Mine, At, Keys
<1>3. \A p \in Reader : SessionMeans(p)'
  BY <1>2 DEF MeantInv, SessionMeans
<1>4. TablesOK'
  BY <1>1 DEF MeantInv, TablesOK, Keys
<1>5. OnlyWhatWasMeant'
  BY <1>1 DEF MeantInv, OnlyWhatWasMeant, Keys
<1> QED
  BY <1>3, <1>4, <1>5 DEF MeantInv

LEMMA MeantChosen ==
  ASSUME MeantInv, NEW p \in Reader, NEW n \in 1 .. Len(msglist[p]),
         Retrieve(p, n) \/ Delete(p, n)
  PROVE  MeantInv'
<1> PICK key : key = msglist[p][n].key
  OBVIOUS
<1>1. /\ Mine(p, key) /\ screen[p][n] = key /\ SessionMeans(p) /\ ReadersTyped
      /\ UNCHANGED tables
  BY DEF MeantInv, SessionMeans, Retrieve, Delete
<1>2. \A k : Mine(p, k) <=> Mine(p, k)'
  BY <1>1 DEF Mine, At, Keys, tables
<1>3. CASE Retrieve(p, n)
  <2>1. /\ opened' = [opened EXCEPT ![p] = @ \cup {key}]
        /\ read' = [read EXCEPT ![p] = @ \cup {key}]
        /\ UNCHANGED <<msglist, to_delete, screen, deleted>>
    BY <1>1, <1>3 DEF Retrieve
  <2>2. ReadersTyped'
    BY <1>1, <2>1 DEF ReadersTyped
  <2>3. read'[p] = read[p] \cup {key} /\ opened'[p] = opened[p] \cup {key}
    BY <1>1, <2>1 DEF ReadersTyped
  <2>4. SessionMeans(p)'
    BY <1>1, <1>2, <2>1, <2>3 DEF SessionMeans
  <2> QED
    BY <1>1, <2>1, <2>2, <2>3, <2>4, MeantReader DEF ReadersTyped
<1>4. CASE Delete(p, n)
  <2>1. /\ deleted' = [deleted EXCEPT ![p] = @ \cup {key}]
        /\ to_delete' = [to_delete EXCEPT ![p] = @ \cup {key}]
        /\ msglist' = [msglist EXCEPT ![p][n].deleted = TRUE]
        /\ UNCHANGED <<read, screen, opened>>
    BY <1>1, <1>4 DEF Delete
  <2> PICK list : list = [msglist[p] EXCEPT ![n].deleted = TRUE]
    OBVIOUS
  <2>2. /\ list \in Seq(Entry) /\ Len(list) = Len(msglist[p])
        /\ \A m \in 1 .. Len(list) : list[m].key = msglist[p][m].key
    <3>1. msglist[p] \in Seq(Entry) /\ msglist[p][n] \in Entry
      BY <1>1, ElementOfSeq DEF ReadersTyped
    <3> PICK e : e = [msglist[p][n] EXCEPT !.deleted = TRUE]
      OBVIOUS
    <3>2. e \in Entry /\ e.key = msglist[p][n].key
      BY <3>1 DEF Entry
    <3>3. list = [msglist[p] EXCEPT ![n] = e]
      OBVIOUS
    <3>4. /\ list \in Seq(Entry) /\ Len(list) = Len(msglist[p])
          /\ \A m \in 1 .. Len(list) : list[m] = IF m = n THEN e ELSE msglist[p][m]
      BY <3>1, <3>2, <3>3, ExceptSeq, LenProperties
    <3> QED
      BY <3>2, <3>4
  <2>3. /\ msglist'[p] = list /\ msglist' \in [Reader -> Seq(Entry)]
        /\ \A q \in Reader \ {p} : msglist'[q] = msglist[q]
    <3>1. msglist' = [msglist EXCEPT ![p] = list]
      BY <2>1
    <3> QED
      BY <1>1, <2>2, <3>1 DEF ReadersTyped
  <2>4. ReadersTyped'
    BY <1>1, <2>1, <2>3 DEF ReadersTyped
  <2>5. to_delete'[p] = to_delete[p] \cup {key} /\ deleted'[p] = deleted[p] \cup {key}
    BY <1>1, <2>1 DEF ReadersTyped
  <2>6. SessionMeans(p)'
    BY <1>1, <1>2, <2>1, <2>2, <2>3, <2>5 DEF SessionMeans
  <2> QED
    BY <1>1, <2>1, <2>3, <2>4, <2>5, <2>6, MeantReader DEF ReadersTyped
<1> QED
  BY <1>3, <1>4

LEMMA MeantList ==
  ASSUME MeantInv, NEW p \in Reader, NEW all \in BOOLEAN, List(p, all)
  PROVE  MeantInv'
<1> PICK d : d = At(p)
  OBVIOUS
<1> PICK table : table = markread(d, read[p])
  OBVIOUS
<1> PICK gone : gone = removed[d] \cup to_delete[p]
  OBVIOUS
<1> PICK keys : keys = getMsgList(table, gone, Account[p], all)
  OBVIOUS
<1> PICK list : list = [n \in 1 .. Len(keys) |-> [key |-> keys[n], deleted |-> FALSE]]
  OBVIOUS
<1>1. /\ data' = [data EXCEPT ![d] = table] /\ removed' = [removed EXCEPT ![d] = gone]
      /\ read' = [read EXCEPT ![p] = {}] /\ to_delete' = [to_delete EXCEPT ![p] = {}]
      /\ msglist' = [msglist EXCEPT ![p] = list] /\ screen' = [screen EXCEPT ![p] = keys]
      /\ UNCHANGED <<deleted, opened>>
  BY DEF List
<1>2. /\ d \in Domain /\ SessionMeans(p) /\ ReadersTyped /\ TablesOK /\ OnlyWhatWasMeant
      /\ Follows(data[d], table, read[p])
  BY AtDomain, FollowsMark DEF MeantInv
<1> PICK marked : marked = [e \in Domain |-> IF e = d THEN read[p] ELSE {}]
  OBVIOUS
<1>3. /\ DOMAIN data' = Domain /\ DOMAIN removed' = Domain
      /\ \A e \in Domain : Follows(data[e], data'[e], marked[e]) /\ removed'[e] \subseteq Keys(e)
  <2>1. \A k \in to_delete[p] : k \in Keys(d)
    BY <1>2 DEF SessionMeans, Mine
  <2> QED
    BY <1>1, <1>2, <2>1, FollowsSame DEF TablesOK
<1>4. TablesOK' /\ \A q \in Reader : \A k : Mine(q, k) => Mine(q, k)'
  BY <1>2, <1>3, TablesFollow
<1>5. OnlyWhatWasMeant'
  <2>1. ASSUME NEW e \in Domain, NEW n \in Keys(e)
        PROVE  /\ n \in removed'[e] \ removed[e] => \E q \in Reader :
                     Account[q] = data[e][n].receiver /\ n \in deleted'[q]
               /\ n \in marked[e] => \E q \in Reader :
                     Account[q] = data[e][n].receiver /\ n \in opened'[q]
    <3>1. \A k \in to_delete[p] : data[d][k].receiver = Account[p] /\ k \in deleted[p]
      BY <1>2 DEF SessionMeans, Mine
    <3>2. \A k \in read[p] : data[d][k].receiver = Account[p] /\ k \in opened[p]
      BY <1>2 DEF SessionMeans, Mine
    <3>3. n \in removed'[e] \ removed[e] => e = d /\ n \in to_delete[p]
      BY <1>1, <1>2 DEF TablesOK
    <3>4. n \in marked[e] => e = d /\ n \in read[p]
      OBVIOUS
    <3> QED
      BY <1>1, <3>1, <3>2, <3>3, <3>4
  <2>2. StepMeant(marked)
    BY <1>1, <1>3, <2>1 DEF StepMeant
  <2> QED
    BY <1>2, <1>3, <2>2, StillMeant
<1>6. /\ keys \in Seq(Nat) /\ Len(keys) \in Nat
      /\ \A n \in 1 .. Len(keys) : keys[n] \in Listed(table, gone, Account[p])
  BY <1>2, MsgList DEF Follows, Table
<1>7. list \in Seq(Entry) /\ Len(list) = Len(keys) /\ \A n \in 1 .. Len(list) : list[n].key = keys[n]
  <2>1. \A n \in 1 .. Len(keys) : [key |-> keys[n], deleted |-> FALSE] \in Entry
    BY <1>6, ElementOfSeq DEF Entry
  <2>2. list \in [1 .. Len(keys) -> Entry]
    BY <2>1
  <2>3. list \in Seq(Entry) /\ Len(list) = Len(keys)
    <3>1. \A m \in Nat : \A f \in [1 .. m -> Entry] : f \in Seq(Entry)
      BY SeqDef
    <3>2. list = [n \in 1 .. Len(keys) |-> list[n]]
      OBVIOUS
    <3> QED
      BY <1>6, <2>2, <3>1, <3>2, MapIsTable
  <2> QED
    BY <2>3
<1>8. ReadersTyped'
  BY <1>1, <1>2, <1>7 DEF ReadersTyped
<1>9. ASSUME NEW q \in Reader PROVE SessionMeans(q)'
  <2>1. CASE q = p
    <3>1. /\ to_delete'[p] = {} /\ read'[p] = {} /\ msglist'[p] = list /\ screen'[p] = keys
          /\ data'[d] = table
      BY <1>1, <1>2 DEF ReadersTyped, TablesOK
    <3>2. \A n \in 1 .. Len(keys) : Mine(p, keys[n])'
      BY <1>6, <3>1 DEF Listed, Mine, Keys, At
    <3> QED
      BY <1>7, <2>1, <3>1, <3>2 DEF SessionMeans
  <2>2. CASE q # p
    <3>1. /\ to_delete'[q] = to_delete[q] /\ read'[q] = read[q] /\ msglist'[q] = msglist[q]
          /\ screen'[q] = screen[q] /\ deleted'[q] = deleted[q] /\ opened'[q] = opened[q]
      BY <1>1, <1>2, <2>2 DEF ReadersTyped
    <3>2. SessionMeans(q)
      BY DEF MeantInv
    <3> QED
      BY <1>4, <3>1, <3>2 DEF SessionMeans
  <2> QED
    BY <2>1, <2>2
<1> QED
  BY <1>4, <1>5, <1>8, <1>9 DEF MeantInv

LEMMA MeantSignOff ==
  ASSUME MeantInv, NEW p \in Reader, SignOff(p)
  PROVE  MeantInv'
<1> PICK d : d = At(p)
  OBVIOUS
<1>1. /\ data' = data /\ removed' = [removed EXCEPT ![d] = @ \cup to_delete[p]]
      /\ UNCHANGED <<msglist, to_delete, read, screen, deleted, opened>>
  BY DEF SignOff
<1>2. d \in Domain /\ SessionMeans(p) /\ ReadersTyped /\ TablesOK /\ OnlyWhatWasMeant
  BY AtDomain DEF MeantInv
<1> PICK marked : marked = [e \in Domain |-> {}]
  OBVIOUS
<1>3. /\ DOMAIN data' = Domain /\ DOMAIN removed' = Domain
      /\ \A e \in Domain : Follows(data[e], data'[e], marked[e]) /\ removed'[e] \subseteq Keys(e)
  <2>1. \A k \in to_delete[p] : k \in Keys(d)
    BY <1>2 DEF SessionMeans, Mine
  <2> QED
    BY <1>1, <1>2, <2>1, FollowsSame DEF TablesOK
<1>4. TablesOK' /\ \A q \in Reader : \A k : Mine(q, k) => Mine(q, k)'
  BY <1>2, <1>3, TablesFollow
<1>5. OnlyWhatWasMeant'
  <2>1. ASSUME NEW e \in Domain, NEW n \in Keys(e)
        PROVE  /\ n \in removed'[e] \ removed[e] => \E q \in Reader :
                     Account[q] = data[e][n].receiver /\ n \in deleted'[q]
               /\ n \in marked[e] => \E q \in Reader :
                     Account[q] = data[e][n].receiver /\ n \in opened'[q]
    <3>1. \A k \in to_delete[p] : data[d][k].receiver = Account[p] /\ k \in deleted[p]
      BY <1>2 DEF SessionMeans, Mine
    <3>2. n \in removed'[e] \ removed[e] => e = d /\ n \in to_delete[p]
      BY <1>1, <1>2 DEF TablesOK
    <3> QED
      BY <1>1, <3>1, <3>2
  <2>2. StepMeant(marked)
    BY <1>1, <1>3, <2>1 DEF StepMeant
  <2> QED
    BY <1>2, <1>3, <2>2, StillMeant
<1>6. \A q \in Reader : SessionMeans(q)'
  BY <1>1, <1>4 DEF MeantInv, SessionMeans
<1> QED
  BY <1>1, <1>2, <1>4, <1>5, <1>6 DEF MeantInv, ReadersTyped

LEMMA MeantStep == MeantInv /\ [Next]_vars => MeantInv'
<1> SUFFICES ASSUME MeantInv, [Next]_vars PROVE MeantInv'
  OBVIOUS
<1>1. ASSUME NEW p \in Reader, Abort(p) PROVE MeantInv'
  <2>1. UNCHANGED <<data, removed, msglist, to_delete, read, screen, deleted, opened>>
    BY <1>1 DEF Abort, tables
  <2>2. TablesOK /\ ReadersTyped /\ OnlyWhatWasMeant /\ \A q \in Reader : SessionMeans(q)
    BY DEF MeantInv
  <2>3. TablesOK'
    BY <2>1, <2>2 DEF TablesOK, Keys
  <2>4. ReadersTyped'
    BY <2>1, <2>2 DEF ReadersTyped
  <2>5. OnlyWhatWasMeant'
    BY <2>1, <2>2 DEF OnlyWhatWasMeant, Keys
  <2>6. \A q \in Reader : SessionMeans(q)'
    <3>1. ASSUME NEW q \in Reader PROVE \A k : Mine(q, k) <=> Mine(q, k)'
      BY <2>1 DEF Mine, At, Keys
    <3> QED
      BY <2>1, <2>2, <3>1 DEF SessionMeans
  <2> QED
    BY <2>3, <2>4, <2>5, <2>6 DEF MeantInv
<1>2. ASSUME NEW p \in Reader, Login(p) \/ ListAgain(p) PROVE MeantInv'
  BY <1>2, MeantList DEF Login, ListAgain
<1>3. CASE PopNext
  BY <1>1, <1>2, <1>3, MeantSignOff, MeantChosen DEF PopNext
<1> QED
  BY <1>3, MeantSmtp DEF Next, vars

LEMMA MeantInit == Init => MeantInv
<1> SUFFICES ASSUME Init PROVE MeantInv
  OBVIOUS
<1>1. /\ data = [d \in Domain |-> <<>>] /\ removed = [d \in Domain |-> {}]
      /\ msglist = [p \in Reader |-> <<>>] /\ to_delete = [p \in Reader |-> {}]
      /\ read = [p \in Reader |-> {}] /\ screen = [p \in Reader |-> <<>>]
      /\ deleted = [p \in Reader |-> {}] /\ opened = [p \in Reader |-> {}]
  BY DEF Init, MailboxesInit, PopInit
<1>2. \A S : <<>> \in Seq(S) /\ Len(<<>>) = 0 /\ Table(<<>>)
  BY EmptySeq, SeqIsTable
<1>3. TablesOK
  BY <1>1, <1>2 DEF TablesOK, Keys
<1>4. ReadersTyped /\ \A p \in Reader : SessionMeans(p)
  BY <1>1, <1>2 DEF ReadersTyped, SessionMeans
<1>5. OnlyWhatWasMeant
  BY <1>1, <1>2 DEF OnlyWhatWasMeant, Keys
<1> QED
  BY <1>3, <1>4, <1>5 DEF MeantInv

\* Messages are deleted, and marked as read, only when their owner meant them by
\* the number it gave: the numbers stay those of the listing on its screen,
\* though other sessions of the user delete, and mail arrives, in between
\* (processDELE, processRETR and processLIST).
THEOREM OnlyMeantIsDone == Spec => []OnlyWhatWasMeant
<1>1. MeantInv => OnlyWhatWasMeant
  BY DEF MeantInv
<1> QED
  BY <1>1, MeantInit, MeantStep, PTL DEF Spec

-----------------------------------------------------------------------------
(* One dialog: what a session has been asked, and has not yet been read to    *)
(* have answered. Its caller is a client, or the session that relays to it.  *)

Says(verb) == {w \in Writes : w.verb = verb}

Conn == {"conn hello", "conn helo", "conn", "conn to", "conn rset"}

Idle(q, places) == pc[q] \in places /\ inbox[q] = <<>> /\ reply[q] = Nothing

Reading(q, verb, places) ==
  /\ pc[q] \in places /\ reply[q] = Nothing
  /\ inbox[q] # <<>> /\ inbox[q] = <<Head(inbox[q])>> /\ Head(inbox[q]) \in Says(verb)

Answered(q, places, texts) == pc[q] \in places /\ inbox[q] = <<>> /\ reply[q] \in texts

\* The session takes a body, whose lines are not answered.
Lines == {w \in Says("text") : w.arg # <<>>}
Undotted == {w \in Lines : w.arg # <<Dot>>}
Taking(q) ==
  /\ pc[q] \in {"start", "data"} /\ reply[q] = Nothing
  /\ inbox[q] \in Seq(Lines)
  /\ \A n \in 1 .. Len(inbox[q]) : n < Len(inbox[q]) => inbox[q][n].arg # <<Dot>>

\* The session has no mail yet; it has a recipient.
Fresh(q) == recvr[q] = <<>> /\ recvr_id[q] = <<>>
Addressed(q) == recvr[q] # <<>> \/ recvr_id[q] # <<>>

Asked(q, verb) ==
  \/ verb = "closed" /\ Idle(q, {"closed"}) /\ Fresh(q)
  \/ verb = "hello" /\ Answered(q, {"hello"}, {"220 service ready"}) /\ Fresh(q)
  \/ /\ verb = "HELO" /\ Fresh(q)
     /\ Reading(q, "HELO", {"hello"}) \/ Answered(q, {"from"}, {"250 OK"})
  \/ /\ verb = "MAIL FROM" /\ Fresh(q)
     /\ \/ Reading(q, "MAIL FROM", {"from"})
        \/ Answered(q, {"rcpt"}, {"250 OK"})
        \/ Answered(q, {"from"}, {"550 No such user here"})
  \/ verb = "from" /\ Idle(q, {"from"}) /\ Fresh(q)
  \/ verb = "to" /\ Idle(q, {"rcpt"})
  \/ /\ verb \in {"RCPT TO", "VRFY"}
     /\ \/ Reading(q, verb, {"rcpt"}) \/ Idle(q, Conn)
        \/ Answered(q, {"rcpt"}, {"250 OK"}) /\ Addressed(q)
        \/ Answered(q, {"rcpt"}, {"550 No such user here", "Syntax Error or Failure"})
  \/ /\ verb = "RSET"
     /\ \/ Reading(q, "RSET", {"rcpt"}) \/ Idle(q, {"rset"}) \/ Answered(q, {"from"}, {"250 OK"})
  \/ /\ verb = "DATA"
     /\ \/ Reading(q, "DATA", {"rcpt"}) /\ Addressed(q)
        \/ Answered(q, {"start", "data"}, {"354 start mail input"})
  \/ verb = "body" /\ Taking(q) /\ inbox[q] \in Seq(Undotted)
  \/ /\ verb = "."
     /\ \/ Taking(q) \/ Idle(q, {"dot"}) \/ Answered(q, {"quit", "from"}, {"250 OK"})
  \/ verb = "mailed" /\ Idle(q, {"quit", "from"})
  \/ /\ verb = "QUIT"
     /\ \/ Reading(q, "QUIT", {"rcpt", "quit", "from"})
        \/ Answered(q, {"from"}, {"Invalid Command"})
        \/ Answered(q, {"gone"}, {"221 service closed"})
  \/ verb = "over" /\ Idle(q, {"from", "gone"})

Verbs == {"closed", "hello", "HELO", "MAIL FROM", "from", "to", "RCPT TO", "VRFY", "RSET",
          "DATA", "body", ".", "mailed", "QUIT", "over"}

AskedOne(q, verbs) == \E verb \in verbs : Asked(q, verb)

\* Once the caller has gone, the session is where it was left, or has ended.
Adrift(q, verbs) == AskedOne(q, verbs) \/ (pc[q] = "gone" /\ inbox[q] = <<>>)

-----------------------------------------------------------------------------
(* A client and its session.                                                 *)

Dead == {"left", "cut", "done"}

\* What its session can have been asked last.
LeftBy(how) ==
  CASE how = "cut" -> {"DATA", "body"} [] how = "done" -> {"QUIT"}
    [] how = "left" -> Verbs \ {"DATA", "body"}

Asking(c) ==
  CASE user[c] = "out" -> "closed"
    [] user[c] = "RSET and exit" -> "RSET"
    [] user[c] = "sent" -> "QUIT"
    [] user[c] = "lingering" -> "over"
    [] OTHER -> user[c]

ClientTalk(c) ==
  /\ user[c] \in Dead \cup {"out", "hello", "HELO", "from", "MAIL FROM", "to", "RCPT TO", "VRFY",
                            "RSET", "RSET and exit", "QUIT", "DATA", "body", ".", "sent", "lingering"}
  /\ IF user[c] \in Dead THEN Adrift(Of(c), LeftBy(user[c])) ELSE AskedOne(Of(c), {Asking(c)})
  /\ user[c] \in {"out", "hello", "HELO", "from", "MAIL FROM"} => ok[c] = {}
  /\ ok[c] # {} /\ user[c] \in {"to", "RCPT TO"} => Addressed(Of(c))

-----------------------------------------------------------------------------
(* A session and its relays.                                                 *)

Busy == {"rcpt", "start", "data", "dot", "quit", "rset"} \cup Conn
Recvr(s) == {recvr[s][n] : n \in 1 .. Len(recvr[s])}

\* What a session asks the relay it connects to.
Connecting(s) ==
  CASE pc[s] = "conn hello" -> "hello"
    [] pc[s] = "conn helo" -> "HELO"
    [] pc[s] = "conn" -> "MAIL FROM"
    [] pc[s] = "conn to" -> ask[s].verb
    [] pc[s] = "conn rset" -> "RSET"

\* Where the dialog with a relay of the mail is before an exchange, and after all.
Before(verb) ==
  CASE verb = "DATA" -> "to" [] verb = "." -> "body" [] verb = "QUIT" -> "mailed"
    [] verb = "RSET" -> "to"

Between(s) ==
  CASE pc[s] \in {"rcpt"} \cup Conn -> "to"
    [] pc[s] \in {"start", "data"} -> "body"
    [] pc[s] = "dot" -> "mailed"
    [] pc[s] \in {"quit", "rset"} -> "over"

\* The exchanges with relay r still to be made, and what it has been asked.
Due(s, r) == {n \in 1 .. Len(work[s]) : work[s][n].relay = r}

InMail(s, r) ==
  {verb \in Verbs :
     \/ Due(s, r) = {} /\ verb = Between(s)
     \/ \E n \in Due(s, r) :
          /\ \A m \in Due(s, r) : n <= m
          /\ verb = IF work[s][n].asked THEN work[s][n].verb ELSE Before(work[s][n].verb)}

\* Where a session can leave its relays.
Left == {"closed", "to", "body", ".", "over"}

RelayTalk(s, r) ==
  /\ recvr[r] = <<>> /\ work[r] = <<>> /\ pc[r] \notin Conn
  /\ IF pc[s] = "gone" THEN Adrift(r, Left)
     ELSE IF pc[s] \in Conn /\ r = ask[s].relay THEN AskedOne(r, {Connecting(s)})
     ELSE IF pc[s] \in Busy /\ r \in Recvr(s) THEN AskedOne(r, InMail(s, r)) /\ recvr_id[r] # <<>>
     ELSE Idle(r, {"closed", "from", "rcpt", "gone"}) /\ (pc[r] = "closed" => Fresh(r))

Exchanges(s) ==
  CASE pc[s] = "start" -> {"DATA"} [] pc[s] = "dot" -> {"."} [] pc[s] = "quit" -> {"QUIT"}
    [] pc[s] = "rset" -> {"RSET", "QUIT"} [] OTHER -> {}

\* The exchanges of a session: one with each relay, but for RSET, which is
\* followed by QUIT.
WorkOK(s) ==
  /\ work[s] \in Seq([relay : Recvr(s), verb : Exchanges(s), asked : BOOLEAN])
  /\ \A n \in 1 .. Len(work[s]) : work[s][n].asked => n = 1
  /\ \A n, m \in 1 .. Len(work[s]) :
       n < m /\ work[s][n].relay = work[s][m].relay =>
         m = n + 1 /\ work[s][n].verb = "RSET" /\ work[s][m].verb = "QUIT"
  /\ \A n \in 1 .. Len(work[s]) : work[s][n].verb = "RSET" =>
       n < Len(work[s]) /\ work[s][n + 1].relay = work[s][n].relay

SessionOK(s) ==
  /\ pc[s] # "closed" => srv[s] \in Domain
  /\ pc[s] \in Busy => sender[s] \in Address
  /\ recvr[s] \in Seq(Relay(s) \cup {Of(s[1])})
  /\ pc[s] \in Busy =>
       /\ recvr[s] \in Seq(Relay(s))
       /\ \A n, m \in 1 .. Len(recvr[s]) : recvr[s][n] = recvr[s][m] => n = m
  /\ WorkOK(s)

\* The relay that session s connects to.
AskOK(s) ==
  pc[s] \in Conn =>
    /\ ask[s].relay \in Relay(s) \ Recvr(s)
    /\ ask[s].to \in Address /\ ask[s].verb \in {"RCPT TO", "VRFY"}
    /\ srv[ask[s].relay] = Home[ask[s].to]
    /\ pc[s] = "conn to" /\ inbox[ask[s].relay] # <<>> =>
         Head(inbox[ask[s].relay]).arg = ask[s].to

\* The variables of clients and sessions.
DialogTypes ==
  /\ srv \in [Session -> Domain \cup {Nothing}]
  /\ DOMAIN pc = Session /\ DOMAIN inbox = Session /\ DOMAIN reply = Session
  /\ sender \in [Session -> Address \cup {Nobody}]
  /\ DOMAIN recvr = Session /\ recvr_id \in [Session -> Seq(Nat)]
  /\ DOMAIN ask = Session /\ DOMAIN work = Session /\ DOMAIN user = Client
  /\ to \in [Client -> Address \cup {Nobody}]
  /\ DOMAIN ok = Client
  /\ asks \in [Client -> Nat]
  /\ typed \in [Client -> 0 .. MaxLines]
  /\ \A c \in Client : user[c] \in {"hello", "HELO"} => to[c] \in Address

\* The dialogs of client c: its own and those of its session with the relays.
Circle(c) ==
  /\ ClientTalk(c) /\ AskOK(Of(c))
  /\ \A r \in Relay(Of(c)) : RelayTalk(Of(c), r)
  /\ \A s \in Session : s[1] = c => SessionOK(s)

Dialogs == DialogTypes /\ \A c \in Client : Circle(c)

-----------------------------------------------------------------------------
(* Basic facts.                                                              *)

LEMMA One ==
  ASSUME NEW w
  PROVE  /\ <<w>> # <<>> /\ Head(<<w>>) = w /\ Tail(<<w>>) = <<>>
         /\ Append(<<>>, w) = <<w>> /\ Len(<<w>>) = 1 /\ Len(<<>>) = 0
  OBVIOUS

LEMMA Parties ==
  /\ MaxAsks \in Nat
  /\ \A c \in Client : Of(c) \in Session /\ Of(c)[1] = c /\ Of(c)[2] = 0
  /\ \A s \in Session : \A r \in Relay(s) : r \in Session /\ r[1] = s[1] /\ r # Of(r[1]) /\ r[2] # 0
  /\ \A s \in Session : s[1] \in Client /\ (s[2] = 0 => s = Of(s[1])) /\ (s[2] # 0 => s \in Relay(Of(s[1])))
<1>1. MaxAsks \in Nat
  BY SmtpConstants
<1>2. \A s \in Session : \E c \in Client, n \in 0 .. MaxAsks : s = <<c, n>>
  BY DEF Session
<1>3. \A c \in Client : Of(c) \in Session /\ Of(c)[1] = c /\ Of(c)[2] = 0
  BY <1>1 DEF Session, Of
<1> QED
  BY <1>1, <1>2, <1>3 DEF Session, Of, Relay

\* Nothing changes for session q.
Same(q) ==
  /\ srv'[q] = srv[q] /\ pc'[q] = pc[q] /\ inbox'[q] = inbox[q] /\ reply'[q] = reply[q]
  /\ sender'[q] = sender[q] /\ recvr'[q] = recvr[q] /\ recvr_id'[q] = recvr_id[q]
  /\ ask'[q] = ask[q] /\ work'[q] = work[q]

LEMMA AskedSame ==
  ASSUME NEW q, pc'[q] = pc[q], inbox'[q] = inbox[q], reply'[q] = reply[q],
         recvr'[q] = recvr[q], recvr_id'[q] = recvr_id[q]
  PROVE  /\ \A verb : Asked(q, verb)' <=> Asked(q, verb)
         /\ \A verbs : AskedOne(q, verbs)' <=> AskedOne(q, verbs)
         /\ \A verbs : Adrift(q, verbs)' <=> Adrift(q, verbs)
         /\ \A places : Idle(q, places)' <=> Idle(q, places)
         /\ Fresh(q)' <=> Fresh(q)
<1>1. \A verb : Asked(q, verb)' <=> Asked(q, verb)
  BY DEF Asked, Idle, Reading, Answered, Taking, Fresh, Addressed
<1> QED
  BY <1>1 DEF AskedOne, Adrift, Idle, Fresh

-----------------------------------------------------------------------------
(* What a session does on its own.                                           *)

Alone(s) ==
  /\ \A q \in Session \ {s} : Same(q)
  /\ UNCHANGED clients /\ DialogTypes'

\* It opens no connection, forgets no row, and, without relays, makes no exchanges.
Kept(s) ==
  /\ srv'[s] = srv[s] /\ pc'[s] \notin Conn
  /\ recvr[s] = <<>> => recvr'[s] = <<>> /\ work'[s] = <<>>
  /\ recvr[s] # <<>> => recvr'[s] # <<>>
  /\ recvr_id[s] # <<>> => recvr_id'[s] # <<>>
  /\ pc[s] # "data" => inbox'[s] \in {<<>>, inbox[s]}

-----------------------------------------------------------------------------
(* What a read returns.                                                      *)

Piece == (Client \X (1 .. MaxLines)) \cup {Dot}

LEMMA SeqOf ==
  ASSUME NEW S, NEW n \in Nat, NEW f \in [1 .. n -> S]
  PROVE  f \in Seq(S)
BY SeqDef

LEMMA NatSet ==
  ASSUME NEW S, 0 \in S, \A n \in Nat : n \in S => n + 1 \in S
  PROVE  Nat \subseteq S
<1> SUFFICES ASSUME Nat \ S # {}
             PROVE  FALSE
  OBVIOUS
<1>1. PICK R : R = OpToRel(<, Nat)
  OBVIOUS
<1>2. IsWellFoundedOn(R, Nat)
  BY <1>1, NatLessThanWellFounded
<1>3. PICK x \in Nat \ S : \A y \in Nat \ S : <<y, x>> \notin R
  BY <1>2, WFMin
<1>4. x - 1 \in Nat \ S
  BY <1>3
<1>5. <<x - 1, x>> \in R
  BY <1>1, <1>4 DEF OpToRel
<1> QED
  BY <1>3, <1>4, <1>5

\* The partial sums of a sequence of sequences.
Sums(f, a, n) == f = [k \in 0 .. n |-> IF k = 0 THEN <<>> ELSE f[k - 1] \o a[k]]

LEMMA SumsExist ==
  ASSUME NEW a
  PROVE  \A n \in Nat : \E f : Sums(f, a, n)
<1> DEFINE S == {n \in Nat : \E f : Sums(f, a, n)}
<1>1. 0 \in S
  <2>1. PICK f : f = [k \in 0 .. 0 |-> <<>>]
    OBVIOUS
  <2>2. f = [k \in 0 .. 0 |-> IF k = 0 THEN <<>> ELSE f[k - 1] \o a[k]]
    <3>1. 0 .. 0 = {0}
      OBVIOUS
    <3>2. \A k \in 0 .. 0 : k = 0
      BY <3>1
    <3> QED
      BY <2>1, <3>2
  <2> QED
    BY <2>2 DEF Sums
<1>2. ASSUME NEW n \in Nat, n \in S PROVE n + 1 \in S
  <2>1. PICK f : Sums(f, a, n)
    BY <1>2
  <2>2. PICK g : g = [k \in 0 .. n + 1 |-> IF k = n + 1 THEN f[n] \o a[n + 1] ELSE f[k]]
    OBVIOUS
  <2>3. \A k \in 0 .. n : g[k] = f[k]
    BY <2>2
  <2>4. \A k \in 0 .. n : f[k] = IF k = 0 THEN <<>> ELSE f[k - 1] \o a[k]
    BY <2>1 DEF Sums
  <2>5. ASSUME NEW k \in 0 .. n + 1
        PROVE  g[k] = IF k = 0 THEN <<>> ELSE g[k - 1] \o a[k]
    <3>1. CASE k = n + 1
      <4>1. k # 0 /\ k - 1 = n /\ n \in 0 .. n
        BY <3>1
      <4>2. g[k] = f[n] \o a[n + 1]
        BY <2>2, <3>1
      <4> QED
        BY <2>3, <3>1, <4>1, <4>2
    <3>2. CASE k # n + 1
      <4>1. k \in 0 .. n /\ (k # 0 => k - 1 \in 0 .. n)
        BY <3>2
      <4> QED
        BY <2>3, <2>4, <4>1
    <3> QED
      BY <3>1, <3>2
  <2>6. g = [k \in 0 .. n + 1 |-> g[k]]
    BY <2>2
  <2>7. Sums(g, a, n + 1)
    BY <2>5, <2>6 DEF Sums
  <2> QED
    BY <2>7
<1> HIDE DEF S
<1>3. Nat \subseteq S
  BY <1>1, <1>2, NatSet
<1> QED
  BY <1>3 DEF S

\* Words joins the texts it reads.
LEMMA WordsJoined ==
  ASSUME NEW s, NEW n \in Nat
  PROVE  \E f : /\ f[0] = <<>> /\ Words(s, n) = f[n]
                /\ \A k \in 1 .. n : f[k] = f[k - 1] \o inbox[s][k].arg
<1> PICK a : a = [k \in 1 .. n |-> inbox[s][k].arg]
  OBVIOUS
<1>1. PICK f : Sums(f, a, n)
  BY SumsExist
<1>2. \E g : g = [k \in 0 .. n |-> IF k = 0 THEN <<>> ELSE g[k - 1] \o inbox[s][k].arg]
  <2>1. \A k \in 0 .. n : k # 0 => a[k] = inbox[s][k].arg
    OBVIOUS
  <2>2. f = [k \in 0 .. n |-> IF k = 0 THEN <<>> ELSE f[k - 1] \o a[k]]
    BY <1>1 DEF Sums
  <2>3. f = [k \in 0 .. n |-> IF k = 0 THEN <<>> ELSE f[k - 1] \o inbox[s][k].arg]
    BY <2>1, <2>2
  <2> QED
    BY <2>3
<1> PICK h : h = CHOOSE g : g = [k \in 0 .. n |-> IF k = 0 THEN <<>>
                                                    ELSE g[k - 1] \o inbox[s][k].arg]
  OBVIOUS
<1>3. h = [k \in 0 .. n |-> IF k = 0 THEN <<>> ELSE h[k - 1] \o inbox[s][k].arg]
  BY <1>2
<1>4. Words(s, n) = h[n]
  BY DEF Words
<1>5. h[0] = <<>> /\ \A k \in 1 .. n : h[k] = h[k - 1] \o inbox[s][k].arg
  <2>1. \A k \in 0 .. n : h[k] = IF k = 0 THEN <<>> ELSE h[k - 1] \o inbox[s][k].arg
    BY <1>3
  <2>2. 0 \in 0 .. n /\ \A k \in 1 .. n : k \in 0 .. n /\ k # 0
    OBVIOUS
  <2> QED
    BY <2>1, <2>2
<1> QED
  BY <1>4, <1>5

LEMMA WordsTyped ==
  ASSUME NEW s, inbox[s] \in Seq(Lines), NEW n \in 1 .. Len(inbox[s])
  PROVE  /\ Words(s, n) \in Seq(Piece) /\ Words(s, n) # <<>>
         /\ Words(s, n) = <<Dot>> => inbox[s][n].arg = <<Dot>>
<1>1. PICK f : /\ f[0] = <<>> /\ Words(s, n) = f[n]
               /\ \A k \in 1 .. n : f[k] = f[k - 1] \o inbox[s][k].arg
  <2>1. n \in Nat
    OBVIOUS
  <2> QED
    BY <2>1, WordsJoined
<1>2. \A k \in 1 .. n : inbox[s][k].arg \in Seq(Piece) /\ Len(inbox[s][k].arg) >= 1
  <2>1. \A k \in 1 .. n : inbox[s][k] \in Lines
    BY ElementOfSeq
  <2>2. \A w \in Lines : w.arg \in Seq(Piece) /\ w.arg # <<>>
    BY DEF Lines, Says, Writes, Piece
  <2>3. \A a \in Seq(Piece) : a # <<>> => Len(a) >= 1
    <3> SUFFICES ASSUME NEW a \in Seq(Piece), a # <<>> PROVE Len(a) >= 1
      OBVIOUS
    <3>1. Len(a) \in Nat /\ Len(a) # 0
      BY EmptySeq, LenProperties
    <3> QED
      BY <3>1
  <2> QED
    BY <2>1, <2>2, <2>3
<1> DEFINE S == {k \in Nat : k <= n => f[k] \in Seq(Piece) /\ Len(f[k]) >= k}
<1>3. 0 \in S
  <2>1. f[0] \in Seq(Piece) /\ Len(f[0]) = 0
    BY <1>1, EmptySeq, One
  <2>2. Len(f[0]) >= 0
    BY <2>1
  <2> QED
    BY <2>1, <2>2
<1>4. ASSUME NEW k \in Nat, k \in S PROVE k + 1 \in S
  <2>0. \A a, b \in Nat : a >= k /\ b >= 1 => a + b >= k + 1
    OBVIOUS
  <2>1. CASE k + 1 <= n
    <3>1. f[k] \in Seq(Piece) /\ Len(f[k]) >= k /\ k + 1 \in 1 .. n /\ (k + 1) - 1 = k
      BY <1>4, <2>1
    <3>2. f[k + 1] = f[k] \o inbox[s][k + 1].arg
      BY <1>1, <3>1
    <3>3. f[k + 1] \in Seq(Piece) /\ Len(f[k + 1]) = Len(f[k]) + Len(inbox[s][k + 1].arg)
      BY <1>2, <3>1, <3>2, ConcatProperties
    <3>4. Len(f[k]) \in Nat /\ Len(inbox[s][k + 1].arg) \in Nat
      BY <1>2, <3>1, LenProperties
    <3>5. Len(f[k + 1]) >= k + 1
      BY <1>2, <2>0, <3>1, <3>3, <3>4
    <3>6. k + 1 \in Nat
      OBVIOUS
    <3> QED
      BY <3>3, <3>5, <3>6
  <2> QED
    BY <2>1
<1> HIDE DEF S
<1>5. Nat \subseteq S
  BY <1>3, <1>4, NatSet
<1>6. \A k \in 0 .. n : f[k] \in Seq(Piece) /\ Len(f[k]) >= k /\ Len(f[k]) \in Nat
  <2>1. \A k \in 0 .. n : k \in S /\ k <= n
    BY <1>5
  <2> QED
    BY <2>1, LenProperties DEF S
<1>7. Words(s, n) \in Seq(Piece) /\ Len(Words(s, n)) >= n
  <2>1. n \in 0 .. n
    OBVIOUS
  <2> QED
    BY <1>1, <1>6, <2>1
<1>8. ASSUME Words(s, n) = <<Dot>> PROVE inbox[s][n].arg = <<Dot>>
  <2>1. n = 1
    <3>1. Len(<<Dot>>) = 1
      BY One
    <3>2. n <= 1
      BY <1>7, <1>8, <3>1
    <3> QED
      BY <3>2
  <2>2. 1 \in 1 .. n
    BY <2>1
  <2>3. f[1] = f[1 - 1] \o inbox[s][1].arg
    BY <1>1, <2>2
  <2>4. f[1 - 1] = <<>>
    BY <1>1
  <2>5. f[1] = <<>> \o inbox[s][1].arg
    BY <2>3, <2>4
  <2>6. f[1] = inbox[s][1].arg
    BY <1>2, <2>2, <2>5, ConcatEmptySeq
  <2> QED
    BY <1>1, <1>8, <2>1, <2>6
<1>9. Words(s, n) # <<>>
  BY <1>7, One
<1> QED
  BY <1>7, <1>8, <1>9

\* The exchanges of a session that makes none.
LEMMA NoWork ==
  ASSUME NEW s, WorkOK(s), Exchanges(s) = {}
  PROVE  work[s] = <<>>
<1> DEFINE X == [relay : Recvr(s), verb : Exchanges(s), asked : BOOLEAN]
<1>1. work[s] \in Seq(X)
  BY DEF WorkOK
<1>2. \A x : x \notin X
  BY DEF X
<1> HIDE DEF X
<1>3. Len(work[s]) \in Nat /\ (Len(work[s]) # 0 => work[s][1] \in X)
  <2>1. Len(work[s]) \in Nat
    BY <1>1, LenProperties
  <2>2. Len(work[s]) # 0 => 1 \in 1 .. Len(work[s])
    BY <2>1
  <2> QED
    BY <1>1, <2>1, <2>2, ElementOfSeq
<1> QED
  BY <1>1, <1>2, <1>3, EmptySeq

LEMMA EmptyWork ==
  ASSUME NEW s, work[s] = <<>>
  PROVE  WorkOK(s)
<1>1. \A S : work[s] \in Seq(S)
  BY EmptySeq
<1>2. Len(work[s]) = 0
  BY One
<1> QED
  BY <1>1, <1>2 DEF WorkOK

\* A session stays well formed when it makes no exchanges.
LEMMA StaysOK ==
  ASSUME NEW s \in Session, SessionOK(s), work'[s] = <<>>, recvr'[s] = recvr[s],
         pc'[s] # "closed" => srv'[s] \in Domain,
         pc'[s] \in Busy => sender'[s] \in Address /\ (pc[s] \in Busy \/ recvr[s] = <<>>)
  PROVE  SessionOK(s)'
<1>1. WorkOK(s)'
  <2>1. work'[s] = <<>> => WorkOK(s)'
    <3>1. \A S : <<>> \in Seq(S)
      BY EmptySeq
    <3> QED
      BY <3>1, One DEF WorkOK
  <2> QED
    BY <2>1
<1>3. pc'[s] \in Busy =>
        /\ recvr'[s] \in Seq(Relay(s))
        /\ \A n, m \in 1 .. Len(recvr'[s]) : recvr'[s][n] = recvr'[s][m] => n = m
  BY EmptySeq, One DEF SessionOK
<1> QED
  <2>1. recvr'[s] \in Seq(Relay(s) \cup {Of(s[1])})
    BY DEF SessionOK
  <2>2. Relay(s)' = Relay(s) /\ (Relay(s) \cup {Of(s[1])})' = Relay(s) \cup {Of(s[1])}
    BY DEF Relay, Of
  <2>3. (recvr[s] \in Seq(Relay(s) \cup {Of(s[1])}))'
    BY <2>1, <2>2
  <2>4. pc'[s] \in Busy => (recvr[s] \in Seq(Relay(s)))'
    BY <1>3, <2>2
  <2>5. pc'[s] \in Busy =>
          \A n, m \in 1 .. Len(recvr'[s]) : recvr'[s][n] = recvr'[s][m] => n = m
    BY <1>3
  <2> QED
    BY <1>1, <2>3, <2>4, <2>5 DEF SessionOK

LEMMA SameOK ==
  ASSUME NEW s \in Session, SessionOK(s), pc'[s] = pc[s], work'[s] = work[s],
         recvr'[s] = recvr[s], srv'[s] = srv[s], sender'[s] = sender[s]
  PROVE  SessionOK(s)'
<1>1. Relay(s)' = Relay(s) /\ (Relay(s) \cup {Of(s[1])})' = Relay(s) \cup {Of(s[1])}
  BY DEF Relay, Of
<1>2. Recvr(s)' = Recvr(s) /\ Exchanges(s)' = Exchanges(s)
  BY DEF Recvr, Exchanges
<1>3. [relay : Recvr(s), verb : Exchanges(s), asked : BOOLEAN]'
        = [relay : Recvr(s), verb : Exchanges(s), asked : BOOLEAN]
  BY <1>2
<1>4. WorkOK(s)'
  <2> DEFINE X == [relay : Recvr(s), verb : Exchanges(s), asked : BOOLEAN]
  <2>1. (work[s] \in Seq(X))'
    BY <1>3 DEF SessionOK, WorkOK
  <2> QED
    BY <2>1 DEF SessionOK, WorkOK
<1> QED
  <2>1. (recvr[s] \in Seq(Relay(s) \cup {Of(s[1])}))'
    BY <1>1 DEF SessionOK
  <2>2. (recvr[s] \in Seq(Relay(s)))' <=> recvr[s] \in Seq(Relay(s))
    BY <1>1
  <2> QED
    BY <1>4, <2>1, <2>2 DEF SessionOK

LEMMA HeloAsked ==
  ASSUME DialogTypes, NEW s \in Session, SessionOK(s), NEW verb, Asked(s, verb), Helo(s)
  PROVE  Asked(s, verb)' /\ SessionOK(s)' /\ Alone(s) /\ Kept(s)
<1>1. /\ pc[s] = "hello" /\ pc'[s] = "from" /\ reply'[s] = "250 OK" /\ inbox'[s] = Tail(inbox[s])
      /\ UNCHANGED <<srv, sender, recvr, recvr_id, work>>
  BY DEF Helo, Answer, DialogTypes
<1>2. Alone(s)
  BY DEF Helo, Answer, DialogTypes, Alone, Same, clients
<1>3. verb = "HELO" /\ Fresh(s) /\ Reading(s, "HELO", {"hello"})
  BY DEF Helo, Is, Asked, Idle, Reading, Answered, Taking, Says
<1>4. Tail(inbox[s]) = <<>>
  BY <1>3, One DEF Reading
<1>5. work[s] = <<>>
  BY <1>1, NoWork DEF SessionOK, Exchanges
<1>6. SessionOK(s)'
  BY <1>1, <1>5, StaysOK DEF SessionOK, Busy, Conn
<1>7. Kept(s)
  BY <1>1, <1>4, <1>5 DEF Kept, Conn
<1> QED
  BY <1>7, <1>1, <1>2, <1>3, <1>4, <1>6 DEF Asked, Answered, Fresh

LEMMA MailFromAsked ==
  ASSUME DialogTypes, NEW s \in Session, SessionOK(s), NEW verb, Asked(s, verb), MailFrom(s)
  PROVE  Asked(s, verb)' /\ SessionOK(s)' /\ Alone(s) /\ Kept(s)
<1>1. verb = "MAIL FROM" /\ Fresh(s) /\ Reading(s, "MAIL FROM", {"from"})
  BY DEF MailFrom, Is, Asked, Idle, Reading, Answered, Taking, Says
<1>2. Tail(inbox[s]) = <<>> /\ Arg(s) \in Address
  BY <1>1, One DEF Reading, Says, Writes, Arg
<1>3. /\ pc[s] = "from" /\ inbox'[s] = Tail(inbox[s]) /\ sender'[s] = Arg(s)
      /\ \/ pc'[s] = "rcpt" /\ reply'[s] = "250 OK"
         \/ pc'[s] = "from" /\ reply'[s] = "550 No such user here"
      /\ UNCHANGED <<srv, recvr, recvr_id, work>>
  BY DEF MailFrom, Answer, DialogTypes
<1>4. Alone(s)
  BY <1>2 DEF MailFrom, Answer, DialogTypes, Alone, Same, clients
<1>5. work[s] = <<>>
  BY <1>3, NoWork DEF SessionOK, Exchanges
<1>6. SessionOK(s)'
  BY <1>1, <1>2, <1>3, <1>5, StaysOK DEF SessionOK, Busy, Conn, Fresh
<1>7. Kept(s)
  BY <1>2, <1>3, <1>5, <1>1 DEF Kept, Conn
<1> QED
  BY <1>7, <1>1, <1>2, <1>3, <1>4, <1>6 DEF Asked, Answered, Fresh

LEMMA QuitAsked ==
  ASSUME DialogTypes, NEW s \in Session, SessionOK(s), NEW verb, Asked(s, verb), Quit(s)
  PROVE  Asked(s, verb)' /\ SessionOK(s)' /\ Alone(s) /\ Kept(s)
<1>1. verb = "QUIT" /\ Reading(s, "QUIT", {"rcpt", "quit", "from"})
  BY DEF Quit, Is, Asked, Idle, Reading, Answered, Taking, Says
<1>2. Tail(inbox[s]) = <<>>
  BY <1>1, One DEF Reading
<1>3. /\ pc[s] = "from" /\ inbox'[s] = Tail(inbox[s])
      /\ pc'[s] = "gone" /\ reply'[s] = "221 service closed"
      /\ UNCHANGED <<srv, sender, recvr, recvr_id, work>>
  BY DEF Quit, Answer, DialogTypes
<1>4. Alone(s)
  BY DEF Quit, Answer, DialogTypes, Alone, Same, clients
<1>5. work[s] = <<>>
  BY <1>3, NoWork DEF SessionOK, Exchanges
<1>6. SessionOK(s)'
  BY <1>3, <1>5, StaysOK DEF SessionOK, Busy, Conn
<1>7. Kept(s)
  BY <1>2, <1>3, <1>5 DEF Kept, Conn
<1> QED
  BY <1>7, <1>1, <1>2, <1>3, <1>4, <1>6 DEF Asked, Answered

\* Only the end of a stream ends a session unasked.

LEMMA EofAsked ==
  ASSUME DialogTypes, NEW s \in Session, SessionOK(s), Eof(s)
  PROVE  /\ pc'[s] = "gone" /\ inbox'[s] = <<>> /\ Hung(s) /\ SessionOK(s)' /\ Alone(s) /\ Kept(s)
         /\ pc[s] \in {"hello", "from", "rcpt", "data"} /\ work[s] = <<>>
<1>1. /\ pc'[s] = "gone" /\ inbox'[s] = <<>> /\ Hung(s) /\ pc[s] \in {"hello", "from", "rcpt", "data"}
      /\ UNCHANGED <<srv, sender, recvr, recvr_id, work>>
  BY DEF Eof, DialogTypes
<1>2. Alone(s)
  BY DEF Eof, DialogTypes, Alone, Same, clients
<1>3. work[s] = <<>>
  BY <1>1, NoWork DEF SessionOK, Exchanges
<1>4. SessionOK(s)'
  BY <1>1, <1>3, StaysOK DEF SessionOK, Busy, Conn
<1>5. inbox[s] = <<>>
  BY DEF Eof
<1>6. Kept(s)
  BY <1>1, <1>3, <1>5 DEF Kept, Conn
<1> QED
  BY <1>6, <1>1, <1>2, <1>3, <1>4

LEMMA RcptHereAsked ==
  ASSUME DialogTypes, TablesOK, NEW s \in Session, SessionOK(s), NEW verb, Asked(s, verb),
         RcptHere(s)
  PROVE  Asked(s, verb)' /\ SessionOK(s)' /\ Alone(s) /\ Kept(s)
<1>0. Len(data[srv[s]]) + 1 \in Nat
  <2>1. pc[s] = "rcpt"
    BY DEF RcptHere, AskedFor
  <2>2. srv[s] \in Domain
    BY <2>1 DEF SessionOK
  <2>3. Len(data[srv[s]]) \in Nat
    BY <2>2 DEF TablesOK, Table
  <2> QED
    BY <2>3
<1>1. verb \in {"RCPT TO", "VRFY"} /\ Reading(s, verb, {"rcpt"})
  BY DEF RcptHere, AskedFor, Is, Asked, Idle, Reading, Answered, Taking, Says
<1>2. Tail(inbox[s]) = <<>>
  BY <1>1, One DEF Reading
<1>3. /\ pc[s] = "rcpt" /\ pc'[s] = "rcpt" /\ inbox'[s] = Tail(inbox[s])
      /\ \/ reply'[s] = "250 OK" /\ \E k \in Nat : recvr_id' = [recvr_id EXCEPT ![s] = Append(@, k)]
         \/ reply'[s] = "550 No such user here" /\ recvr_id' = recvr_id
      /\ UNCHANGED <<srv, sender, recvr, work>>
  <2> QED
    BY <1>0 DEF RcptHere, AskedFor, Answer, DialogTypes, insert
<1>4. Alone(s)
  <2>1. recvr_id' \in [Session -> Seq(Nat)]
    <3>1. \A k \in Nat : Append(recvr_id[s], k) \in Seq(Nat)
      BY AppendProperties DEF DialogTypes
    <3>2. recvr_id' = recvr_id \/ \E k \in Nat : recvr_id' = [recvr_id EXCEPT ![s] = Append(@, k)]
      BY <1>0 DEF RcptHere, insert
    <3> QED
      BY <3>1, <3>2 DEF DialogTypes
  <2> QED
    BY <2>1 DEF RcptHere, Answer, DialogTypes, Alone, Same, clients
<1>5. SessionOK(s)'
  BY <1>3, SameOK
<1>6. recvr_id'[s] # <<>> \/ (reply'[s] # "250 OK" /\ recvr_id'[s] = recvr_id[s])
  <2>1. \A k \in Nat : Append(recvr_id[s], k) # <<>>
    <3>1. recvr_id[s] \in Seq(Nat) /\ Len(recvr_id[s]) \in Nat
      BY LenProperties DEF DialogTypes
    <3>2. \A k \in Nat : Len(Append(recvr_id[s], k)) = Len(recvr_id[s]) + 1
      BY <3>1, AppendProperties
    <3> QED
      BY <3>1, <3>2, One
  <2> QED
    BY <1>3, <2>1 DEF DialogTypes
<1>7. work[s] = <<>>
  BY <1>3, NoWork DEF SessionOK, Exchanges
<1>8. Kept(s)
  BY <1>2, <1>3, <1>6, <1>7 DEF Kept, Conn
<1> QED
  BY <1>8, <1>1, <1>2, <1>3, <1>4, <1>5, <1>6 DEF Asked, Answered, Addressed

-----------------------------------------------------------------------------
(* A session takes the other commands of a mail.                             *)

\* One exchange with each relay.
LEMMA ToRelaysOK ==
  ASSUME NEW s, NEW S, recvr[s] \in Seq(S), NEW verb, verb # "RSET",
         \A n, m \in 1 .. Len(recvr[s]) : recvr[s][n] = recvr[s][m] => n = m,
         recvr'[s] = recvr[s], Exchanges(s)' = {verb}, work'[s] = ToRelays(s, verb)
  PROVE  /\ WorkOK(s)'
         /\ Len(work'[s]) = Len(recvr[s]) /\ Len(recvr[s]) \in Nat
         /\ \A n \in 1 .. Len(recvr[s]) : work'[s][n] = Exchange(recvr[s][n], verb)
<1> PICK N : N = Len(recvr[s])
  OBVIOUS
<1> PICK X : X = [relay : Recvr(s)', verb : {verb}, asked : BOOLEAN]
  OBVIOUS
<1>1. N \in Nat
  BY LenProperties
<1>2. work'[s] = [n \in 1 .. N |-> Exchange(recvr[s][n], verb)]
  BY DEF ToRelays
<1>3. \A n \in 1 .. N : work'[s][n] = Exchange(recvr[s][n], verb) /\ work'[s][n] \in X
  BY <1>2 DEF Exchange, Recvr
<1>4. Len(work'[s]) = N
  BY <1>1, <1>2, MapIsTable
<1>5. work'[s] \in Seq(X)
  <2>1. work'[s] \in [1 .. N -> X]
    BY <1>2, <1>3
  <2> QED
    BY <1>1, <2>1, SeqOf
<1>6. (work[s] \in Seq([relay : Recvr(s), verb : Exchanges(s), asked : BOOLEAN]))'
  <2>1. X = [relay : Recvr(s), verb : Exchanges(s), asked : BOOLEAN]'
    OBVIOUS
  <2> QED
    BY <1>5, <2>1
<1>7. \A n \in 1 .. N : /\ work'[s][n].relay = recvr[s][n] /\ work'[s][n].verb = verb
                        /\ work'[s][n].asked = FALSE
  <2>1. \A r : /\ Exchange(r, verb).relay = r /\ Exchange(r, verb).verb = verb
               /\ Exchange(r, verb).asked = FALSE
    BY DEF Exchange
  <2> HIDE DEF ToRelays
  <2> QED
    BY <1>3, <2>1
<1>8. \A n, m \in 1 .. N : work'[s][n].relay = work'[s][m].relay => n = m
  BY <1>7
<1> QED
  BY <1>1, <1>3, <1>4, <1>6, <1>7, <1>8 DEF WorkOK

LEMMA DataAsked ==
  ASSUME DialogTypes, NEW s \in Session, SessionOK(s), NEW verb, Asked(s, verb), Data(s)
  PROVE  Asked(s, verb)' /\ SessionOK(s)' /\ Alone(s) /\ Kept(s)
<1>1. verb = "DATA" /\ Reading(s, "DATA", {"rcpt"}) /\ Addressed(s)
  BY DEF Data, Is, Asked, Idle, Reading, Answered, Taking, Says
<1>2. Tail(inbox[s]) = <<>>
  BY <1>1, One DEF Reading
<1>3. /\ pc[s] = "rcpt" /\ pc'[s] = "start" /\ inbox'[s] = Tail(inbox[s])
      /\ reply'[s] = "354 start mail input" /\ work'[s] = ToRelays(s, "DATA")
      /\ UNCHANGED <<srv, sender, recvr, recvr_id>>
  BY DEF Data, Answer, DialogTypes
<1>4. Alone(s)
  BY DEF Data, Answer, DialogTypes, Alone, Same, clients
<1>5. WorkOK(s)' /\ (recvr[s] = <<>> => work'[s] = <<>>)
  <2>1. Exchanges(s)' = {"DATA"}
    BY <1>3 DEF Exchanges
  <2>2. recvr[s] \in Seq(Relay(s))
        /\ \A n, m \in 1 .. Len(recvr[s]) : recvr[s][n] = recvr[s][m] => n = m
    BY <1>3 DEF SessionOK, Busy
  <2>3. /\ WorkOK(s)'
        /\ Len(work'[s]) = Len(recvr[s])
    BY <1>3, <2>1, <2>2, ToRelaysOK
  <2>4. work'[s] \in Seq([relay : Recvr(s), verb : Exchanges(s), asked : BOOLEAN]')
    BY <2>3 DEF WorkOK
  <2> QED
    BY <2>3, <2>4, One, EmptySeq
<1>6. SessionOK(s)'
  BY <1>3, <1>5 DEF SessionOK, Busy, Conn, Relay, Of
<1>7. Kept(s)
  BY <1>2, <1>3, <1>5 DEF Kept, Conn
<1> QED
  BY <1>1, <1>2, <1>3, <1>4, <1>6, <1>7 DEF Asked, Answered

\* Two exchanges with each relay.
LEMMA Halves ==
  ASSUME NEW N \in Nat
  PROVE  /\ \A n \in 1 .. 2 * N : (n + 1) \div 2 \in 1 .. N
         /\ \A k \in 1 .. N : /\ 2 * k \in 1 .. 2 * N /\ 2 * k - 1 \in 1 .. 2 * N
                              /\ (2 * k + 1) \div 2 = k /\ (2 * k) \div 2 = k
                              /\ (2 * k) % 2 = 0 /\ (2 * k - 1) % 2 = 1
         /\ \A n \in 1 .. 2 * N : n = 2 * ((n + 1) \div 2) \/ n = 2 * ((n + 1) \div 2) - 1
OBVIOUS

RsetWork(s) ==
  [n \in 1 .. 2 * Len(recvr[s]) |->
     Exchange(recvr[s][(n + 1) \div 2], IF n % 2 = 1 THEN "RSET" ELSE "QUIT")]

LEMMA RsetWorkOK ==
  ASSUME NEW s, NEW S, recvr[s] \in Seq(S),
         \A n, m \in 1 .. Len(recvr[s]) : recvr[s][n] = recvr[s][m] => n = m,
         recvr'[s] = recvr[s], Exchanges(s)' = {"RSET", "QUIT"}, work'[s] = RsetWork(s)
  PROVE  /\ WorkOK(s)'
         /\ Len(work'[s]) = 2 * Len(recvr[s]) /\ Len(recvr[s]) \in Nat
         /\ \A n \in 1 .. Len(work'[s]) :
              work'[s][n] = Exchange(recvr[s][(n + 1) \div 2], IF n % 2 = 1 THEN "RSET" ELSE "QUIT")
<1> PICK N : N = Len(recvr[s])
  OBVIOUS
<1> PICK X : X = [relay : Recvr(s)', verb : {"RSET", "QUIT"}, asked : BOOLEAN]
  OBVIOUS
<1> PICK half : half = [n \in 1 .. 2 * N |-> (n + 1) \div 2]
  OBVIOUS
<1> PICK verb : verb = [n \in 1 .. 2 * N |-> IF n % 2 = 1 THEN "RSET" ELSE "QUIT"]
  OBVIOUS
<1>1. N \in Nat /\ 2 * N \in Nat
  BY LenProperties
<1>2. work'[s] = [n \in 1 .. 2 * N |-> Exchange(recvr[s][half[n]], verb[n])]
  BY DEF RsetWork
<1>3. \A n \in 1 .. 2 * N : /\ half[n] \in 1 .. N /\ verb[n] \in {"RSET", "QUIT"}
                            /\ n = 2 * half[n] \/ n = 2 * half[n] - 1
                            /\ verb[n] = "RSET" <=> n = 2 * half[n] - 1
  <2> SUFFICES ASSUME NEW n \in 1 .. 2 * N
               PROVE  /\ half[n] \in 1 .. N /\ verb[n] \in {"RSET", "QUIT"}
                      /\ n = 2 * half[n] \/ n = 2 * half[n] - 1
                      /\ verb[n] = "RSET" <=> n = 2 * half[n] - 1
    OBVIOUS
  <2>1. PICK k \in 1 .. N : k = (n + 1) \div 2
    BY <1>1, Halves
  <2>2. half[n] = k
    BY <2>1
  <2>3. n = 2 * k \/ n = 2 * k - 1
    BY <1>1, <2>1, Halves
  <2>4. (2 * k) % 2 = 0 /\ (2 * k - 1) % 2 = 1
    BY <1>1, Halves
  <2>5. 2 * k # 2 * k - 1
    OBVIOUS
  <2>6. verb[n] = IF n % 2 = 1 THEN "RSET" ELSE "QUIT"
    OBVIOUS
  <2>7. CASE n = 2 * k
    <3>1. verb[n] = "QUIT"
      BY <2>4, <2>6, <2>7
    <3> QED
      BY <2>2, <2>5, <2>7, <3>1
  <2>8. CASE n = 2 * k - 1
    <3>1. verb[n] = "RSET"
      BY <2>4, <2>6, <2>8
    <3> QED
      BY <2>2, <2>5, <2>8, <3>1
  <2> QED
    BY <2>3, <2>7, <2>8
<1>4. \A n \in 1 .. 2 * N : n = 2 * half[n] - 1 => n + 1 \in 1 .. 2 * N /\ half[n + 1] = half[n]
                                              /\ verb[n + 1] = "QUIT"
  <2> SUFFICES ASSUME NEW n \in 1 .. 2 * N, n = 2 * half[n] - 1
               PROVE  n + 1 \in 1 .. 2 * N /\ half[n + 1] = half[n] /\ verb[n + 1] = "QUIT"
    OBVIOUS
  <2>1. PICK k \in 1 .. N : k = half[n]
    BY <1>3
  <2>2. 2 * k \in 1 .. 2 * N /\ (2 * k + 1) \div 2 = k /\ (2 * k) % 2 = 0
    BY <1>1, Halves
  <2>3. n + 1 = 2 * k
    BY <2>1
  <2>4. half[2 * k] = k
    BY <2>2
  <2>5. verb[2 * k] = "QUIT"
    BY <2>2
  <2> QED
    BY <2>1, <2>2, <2>3, <2>4, <2>5
<1>5. \A n \in 1 .. 2 * N : /\ work'[s][n] = Exchange(recvr[s][half[n]], verb[n])
                            /\ work'[s][n].relay = recvr[s][half[n]] /\ work'[s][n].verb = verb[n]
                            /\ work'[s][n].asked = FALSE /\ work'[s][n] \in X
  <2> HIDE DEF RsetWork
  <2>1. \A r, v : /\ Exchange(r, v).relay = r /\ Exchange(r, v).verb = v
                  /\ Exchange(r, v).asked = FALSE
    BY DEF Exchange
  <2>2. \A n \in 1 .. 2 * N : Exchange(recvr[s][half[n]], verb[n]) \in X
    <3>1. \A k \in 1 .. N : recvr[s][k] \in Recvr(s)'
      BY DEF Recvr
    <3>2. \A r \in Recvr(s)', v \in {"RSET", "QUIT"} : Exchange(r, v) \in X
      BY DEF Exchange
    <3> QED
      BY <1>3, <3>1, <3>2
  <2>3. \A n \in 1 .. 2 * N : work'[s][n] = Exchange(recvr[s][half[n]], verb[n])
    BY <1>2
  <2>4. ASSUME NEW n \in 1 .. 2 * N
        PROVE  /\ work'[s][n].relay = recvr[s][half[n]] /\ work'[s][n].verb = verb[n]
               /\ work'[s][n].asked = FALSE
    <3>1. PICK x : x = work'[s][n]
      OBVIOUS
    <3>2. PICK r, v : r = recvr[s][half[n]] /\ v = verb[n]
      OBVIOUS
    <3>3. x = Exchange(r, v)
      BY <2>3, <3>1, <3>2
    <3>4. x.relay = r /\ x.verb = v /\ x.asked = FALSE
      BY <3>3 DEF Exchange
    <3> QED
      BY <3>1, <3>2, <3>4
  <2> QED
    BY <2>2, <2>3, <2>4
<1>6. Len(work'[s]) = 2 * N
  BY <1>1, <1>2, MapIsTable
<1>7. (work[s] \in Seq([relay : Recvr(s), verb : Exchanges(s), asked : BOOLEAN]))'
  <2>1. X = [relay : Recvr(s), verb : Exchanges(s), asked : BOOLEAN]'
    OBVIOUS
  <2>2. work'[s] \in [1 .. 2 * N -> X]
    BY <1>2, <1>5
  <2>3. work'[s] \in Seq(X)
    BY <1>1, <2>2, SeqOf
  <2> QED
    BY <2>1, <2>3
<1>8. \A n, m \in 1 .. 2 * N : n < m /\ half[n] = half[m] =>
        m = n + 1 /\ verb[n] = "RSET" /\ verb[m] = "QUIT"
  <2> SUFFICES ASSUME NEW n \in 1 .. 2 * N, NEW m \in 1 .. 2 * N, n < m, half[n] = half[m]
               PROVE  m = n + 1 /\ verb[n] = "RSET" /\ verb[m] = "QUIT"
    OBVIOUS
  <2>1. PICK k \in 1 .. N : k = half[n] /\ k = half[m]
    BY <1>3
  <2>2. /\ n = 2 * k \/ n = 2 * k - 1
        /\ m = 2 * k \/ m = 2 * k - 1
    BY <1>3, <2>1
  <2>3. n = 2 * k - 1 /\ m = 2 * k /\ 2 * k # 2 * k - 1
    BY <2>2
  <2>4. m = n + 1
    BY <2>3
  <2> QED
    BY <1>3, <2>1, <2>3, <2>4
<1>9. \A n, m \in 1 .. 2 * N : n < m /\ work'[s][n].relay = work'[s][m].relay =>
        m = n + 1 /\ work'[s][n].verb = "RSET" /\ work'[s][m].verb = "QUIT"
  <2> SUFFICES ASSUME NEW n \in 1 .. 2 * N, NEW m \in 1 .. 2 * N, n < m,
                      work'[s][n].relay = work'[s][m].relay
               PROVE  m = n + 1 /\ work'[s][n].verb = "RSET" /\ work'[s][m].verb = "QUIT"
    OBVIOUS
  <2>1. recvr[s][half[n]] = recvr[s][half[m]] /\ half[n] \in 1 .. N /\ half[m] \in 1 .. N
    BY <1>3, <1>5
  <2>2. half[n] = half[m]
    BY <2>1
  <2>3. m = n + 1 /\ verb[n] = "RSET" /\ verb[m] = "QUIT"
    BY <1>8, <2>2
  <2> QED
    BY <1>5, <2>3
<1>10. \A n \in 1 .. 2 * N : work'[s][n].verb = "RSET" =>
         n < 2 * N /\ work'[s][n + 1].relay = work'[s][n].relay
  <2> SUFFICES ASSUME NEW n \in 1 .. 2 * N, work'[s][n].verb = "RSET"
               PROVE  n < 2 * N /\ work'[s][n + 1].relay = work'[s][n].relay
    OBVIOUS
  <2>1. verb[n] = "RSET"
    BY <1>5
  <2>2. n = 2 * half[n] - 1
    BY <1>3, <2>1
  <2>3. n + 1 \in 1 .. 2 * N /\ half[n + 1] = half[n]
    BY <1>4, <2>2
  <2>4. n < 2 * N
    BY <1>1, <2>3
  <2>5. work'[s][n + 1].relay = recvr[s][half[n]] /\ work'[s][n].relay = recvr[s][half[n]]
    <3>1. work'[s][n + 1].relay = recvr[s][half[n + 1]]
      BY <1>5, <2>3
    <3> QED
      BY <1>5, <2>3, <3>1
  <2> QED
    BY <2>4, <2>5
<1>11. WorkOK(s)'
  <2>1. \A n \in 1 .. 2 * N : work'[s][n].asked = FALSE
    BY <1>5
  <2> QED
    BY <1>6, <1>7, <1>9, <1>10, <2>1 DEF WorkOK
<1> QED
  BY <1>1, <1>6, <1>11 DEF RsetWork

LEMMA RsetAsked ==
  ASSUME DialogTypes, NEW s \in Session, SessionOK(s), NEW verb, Asked(s, verb), Rset(s)
  PROVE  Asked(s, verb)' /\ SessionOK(s)' /\ Alone(s) /\ Kept(s)
<1>1. verb = "RSET" /\ Reading(s, "RSET", {"rcpt"})
  BY DEF Rset, Is, Asked, Idle, Reading, Answered, Taking, Says
<1>2. Tail(inbox[s]) = <<>>
  BY <1>1, One DEF Reading
<1>3. /\ pc[s] = "rcpt" /\ pc'[s] = "rset" /\ inbox'[s] = Tail(inbox[s])
      /\ work'[s] = RsetWork(s)
      /\ UNCHANGED <<srv, reply, sender, recvr, recvr_id>>
  BY DEF Rset, DialogTypes, RsetWork
<1>4. Alone(s)
  BY DEF Rset, DialogTypes, Alone, Same, clients
<1>5. WorkOK(s)' /\ (recvr[s] = <<>> => work'[s] = <<>>)
  <2>1. Exchanges(s)' = {"RSET", "QUIT"}
    BY <1>3 DEF Exchanges
  <2>2. recvr[s] \in Seq(Relay(s))
        /\ \A n, m \in 1 .. Len(recvr[s]) : recvr[s][n] = recvr[s][m] => n = m
    BY <1>3 DEF SessionOK, Busy
  <2>3. /\ WorkOK(s)'
        /\ Len(work'[s]) = 2 * Len(recvr[s])
    BY <1>3, <2>1, <2>2, RsetWorkOK
  <2>4. work'[s] \in Seq([relay : Recvr(s), verb : Exchanges(s), asked : BOOLEAN]')
    BY <2>3 DEF WorkOK
  <2>5. recvr[s] = <<>> => Len(work'[s]) = 0
    BY <2>3, One
  <2> QED
    BY <2>3, <2>4, <2>5, EmptySeq
<1>6. SessionOK(s)'
  BY <1>3, <1>5 DEF SessionOK, Busy, Conn, Relay, Of
<1>7. Kept(s)
  BY <1>2, <1>3, <1>5 DEF Kept, Conn
<1> QED
  BY <1>1, <1>2, <1>3, <1>4, <1>6, <1>7 DEF Asked, Idle, Reading

LEMMA RsetDoneAsked ==
  ASSUME DialogTypes, NEW s \in Session, SessionOK(s), NEW verb, Asked(s, verb), RsetDone(s)
  PROVE  Asked(s, verb)' /\ SessionOK(s)' /\ Alone(s) /\ Kept(s)
<1>1. verb = "RSET" /\ Idle(s, {"rset"})
  BY DEF RsetDone, Asked, Idle, Reading, Answered, Taking, Conn
<1>2. Len(recvr[s]) \in Nat /\ Len(recvr_id[s]) \in Nat
  BY LenProperties DEF SessionOK, DialogTypes
<1>3. /\ pc[s] = "rset" /\ pc'[s] = "from" /\ reply'[s] = "250 OK" /\ work[s] = <<>>
      /\ recvr'[s] = [n \in 1 .. Len(recvr[s]) |-> Of(s[1])]
      /\ recvr_id'[s] = [n \in 1 .. Len(recvr_id[s]) |-> 0]
      /\ recvr_id' = [recvr_id EXCEPT ![s] = [n \in 1 .. Len(@) |-> 0]]
      /\ UNCHANGED <<srv, inbox, work>>
  BY DEF RsetDone, DialogTypes
<1>4. recvr'[s] \in Seq({Of(s[1])}) /\ recvr_id'[s] \in Seq(Nat)
  <2>1. recvr'[s] \in [1 .. Len(recvr[s]) -> {Of(s[1])}]
    BY <1>3
  <2>2. recvr_id'[s] \in [1 .. Len(recvr_id[s]) -> Nat]
    <3>1. \A n \in Nat : [k \in 1 .. n |-> 0] \in [1 .. n -> Nat]
      OBVIOUS
    <3>2. recvr_id'[s] = [n \in 1 .. Len(recvr_id[s]) |-> 0]
      BY <1>3
    <3> QED
      BY <1>2, <3>1, <3>2
  <2> QED
    BY <1>2, <2>1, <2>2, SeqOf
<1>5. Alone(s)
  <2>1. recvr_id' \in [Session -> Seq(Nat)]
    BY <1>3, <1>4 DEF DialogTypes
  <2> QED
    BY <2>1 DEF RsetDone, DialogTypes, Alone, Same, clients
<1>6. Len(recvr'[s]) = Len(recvr[s]) /\ Len(recvr_id'[s]) = Len(recvr_id[s])
  BY <1>2, <1>3, MapIsTable
<1>7. /\ recvr[s] = <<>> <=> recvr'[s] = <<>>
      /\ recvr_id[s] # <<>> => recvr_id'[s] # <<>>
  <2>1. recvr[s] = <<>> <=> Len(recvr'[s]) = 0
    BY <1>6, One, EmptySeq DEF SessionOK
  <2>2. recvr_id[s] # <<>> => Len(recvr_id'[s]) # 0
    BY <1>6, EmptySeq DEF DialogTypes
  <2> QED
    BY <1>4, <2>1, <2>2, EmptySeq, One
<1>8. WorkOK(s)'
  <2>1. work'[s] = <<>> => WorkOK(s)'
    <3>1. \A S : <<>> \in Seq(S)
      BY EmptySeq
    <3> QED
      BY <3>1, One DEF WorkOK
  <2> QED
    BY <1>3, <2>1
<1>9. SessionOK(s)'
  <2>1. Seq({Of(s[1])}) \subseteq Seq((Relay(s) \cup {Of(s[1])})')
    BY SeqDef DEF Relay, Of
  <2>2. (recvr[s] \in Seq(Relay(s) \cup {Of(s[1])}))'
    BY <1>4, <2>1
  <2> QED
    BY <1>3, <1>8, <2>2 DEF SessionOK, Busy, Conn
<1>10. Kept(s)
  BY <1>3, <1>7 DEF Kept, Conn
<1> QED
  BY <1>1, <1>3, <1>5, <1>9, <1>10 DEF Asked, Idle, Answered

LEMMA RelaysTold ==
  ASSUME NEW s \in Session, SessionOK(s), pc[s] \in Busy, pc'[s] \in Busy,
         NEW verb, verb # "RSET", Exchanges(s)' = {verb}, work'[s] = ToRelays(s, verb),
         recvr'[s] = recvr[s], srv'[s] = srv[s], sender'[s] = sender[s]
  PROVE  /\ SessionOK(s)' /\ (recvr[s] = <<>> => work'[s] = <<>>)
         /\ Len(work'[s]) = Len(recvr[s]) /\ Len(recvr[s]) \in Nat
         /\ \A n \in 1 .. Len(recvr[s]) : work'[s][n] = Exchange(recvr[s][n], verb)
<1>1. recvr[s] \in Seq(Relay(s))
      /\ \A n, m \in 1 .. Len(recvr[s]) : recvr[s][n] = recvr[s][m] => n = m
  BY DEF SessionOK
<1>2. /\ WorkOK(s)'
      /\ Len(work'[s]) = Len(recvr[s]) /\ Len(recvr[s]) \in Nat
      /\ \A n \in 1 .. Len(recvr[s]) : work'[s][n] = Exchange(recvr[s][n], verb)
  BY <1>1, ToRelaysOK
<1>3. work'[s] \in Seq([relay : Recvr(s), verb : Exchanges(s), asked : BOOLEAN]')
  BY <1>2 DEF WorkOK
<1>4. recvr[s] = <<>> => work'[s] = <<>>
  BY <1>2, <1>3, One, EmptySeq
<1>5. SessionOK(s)'
  <2>1. (recvr[s] \in Seq(Relay(s) \cup {Of(s[1])}))' /\ (recvr[s] \in Seq(Relay(s)))'
    <3>1. recvr[s] \in Seq(Relay(s) \cup {Of(s[1])})
      BY DEF SessionOK
    <3> QED
      BY <1>1, <3>1 DEF Relay, Of
  <2>2. pc[s] # "closed"
    BY DEF Busy, Conn
  <2> QED
    BY <1>1, <1>2, <2>1, <2>2 DEF SessionOK
<1> QED
  BY <1>2, <1>4, <1>5

LEMMA InvalidAsked ==
  ASSUME DialogTypes, NEW s \in Session, SessionOK(s), NEW verb, Asked(s, verb), Invalid(s)
  PROVE  Asked(s, verb)' /\ SessionOK(s)' /\ Alone(s) /\ Kept(s)
<1>1. verb = "QUIT" /\ Reading(s, "QUIT", {"rcpt"})
  BY DEF Invalid, Is, Asked, Idle, Reading, Answered, Taking, Says, Addressed
<1>2. Tail(inbox[s]) = <<>>
  BY <1>1, One DEF Reading
<1>3. /\ pc[s] = "rcpt" /\ inbox'[s] = Tail(inbox[s])
      /\ pc'[s] = "from" /\ reply'[s] = "Invalid Command"
      /\ UNCHANGED <<srv, sender, recvr, recvr_id, work>>
  BY DEF Invalid, Answer, DialogTypes
<1>4. Alone(s)
  BY DEF Invalid, Answer, DialogTypes, Alone, Same, clients
<1>5. work[s] = <<>>
  BY <1>3, NoWork DEF SessionOK, Exchanges
<1>6. SessionOK(s)'
  BY <1>3, <1>5, StaysOK DEF SessionOK, Busy, Conn
<1>7. Kept(s)
  BY <1>2, <1>3, <1>5 DEF Kept, Conn
<1> QED
  BY <1>1, <1>2, <1>3, <1>4, <1>6, <1>7 DEF Asked, Answered

LEMMA StartDoneAsked ==
  ASSUME DialogTypes, NEW s \in Session, SessionOK(s), NEW verb, Asked(s, verb), StartDone(s)
  PROVE  Asked(s, verb)' /\ SessionOK(s)' /\ Alone(s) /\ Kept(s)
<1>1. \/ verb = "DATA" /\ Answered(s, {"start"}, {"354 start mail input"})
      \/ verb \in {"body", "."} /\ Taking(s) /\ (verb = "body" => inbox[s] \in Seq(Undotted))
  BY DEF StartDone, Asked, Idle, Reading, Answered, Taking, Conn
<1>2. /\ pc[s] = "start" /\ pc'[s] = "data" /\ work[s] = <<>>
      /\ UNCHANGED <<srv, inbox, reply, sender, recvr, recvr_id, work>>
  BY DEF StartDone, DialogTypes
<1>3. Alone(s)
  BY DEF StartDone, DialogTypes, Alone, Same, clients
<1>4. SessionOK(s)'
  BY <1>2, StaysOK DEF SessionOK, Busy, Conn
<1>5. Kept(s)
  BY <1>2 DEF Kept, Conn
<1> QED
  BY <1>1, <1>2, <1>3, <1>4, <1>5 DEF Asked, Answered, Taking

LEMMA ReadNothingAsked ==
  ASSUME DialogTypes, NEW s \in Session, SessionOK(s), NEW verb, Asked(s, verb), ReadNothing(s)
  PROVE  Asked(s, verb)' /\ SessionOK(s)' /\ Alone(s) /\ Kept(s)
<1>1. pc[s] = "data" /\ UNCHANGED <<clients, sessions>>
  BY DEF ReadNothing
<1>2. Asked(s, verb)' /\ SessionOK(s)'
  BY <1>1, AskedSame, SameOK DEF sessions
<1>3. Alone(s)
  BY <1>1 DEF Alone, Same, sessions, clients, DialogTypes
<1>4. work[s] = <<>>
  BY <1>1, NoWork DEF SessionOK, Exchanges
<1>5. Kept(s)
  BY <1>1, <1>4 DEF Kept, Conn, sessions
<1> QED
  BY <1>2, <1>3, <1>5

LEMMA DotDoneAsked ==
  ASSUME DialogTypes, NEW s \in Session, SessionOK(s), NEW verb, Asked(s, verb), DotDone(s)
  PROVE  Asked(s, verb)' /\ SessionOK(s)' /\ Alone(s) /\ Kept(s)
<1>1. verb = "." /\ Idle(s, {"dot"})
  BY DEF DotDone, Asked, Idle, Reading, Answered, Taking, Conn
<1>2. /\ pc[s] = "dot" /\ pc'[s] = "quit" /\ reply'[s] = "250 OK" /\ work'[s] = ToRelays(s, "QUIT")
      /\ UNCHANGED <<srv, inbox, sender, recvr, recvr_id>>
  BY DEF DotDone, DialogTypes
<1>3. Alone(s)
  BY DEF DotDone, DialogTypes, Alone, Same, clients
<1>4. SessionOK(s)' /\ (recvr[s] = <<>> => work'[s] = <<>>)
  <2>1. Exchanges(s)' = {"QUIT"} /\ pc[s] \in Busy /\ pc'[s] \in Busy
    BY <1>2 DEF Exchanges, Busy
  <2> QED
    BY <1>2, <2>1, RelaysTold
<1>5. Kept(s)
  BY <1>2, <1>4 DEF Kept, Conn
<1> QED
  BY <1>1, <1>2, <1>3, <1>4, <1>5 DEF Asked, Answered, Idle

LEMMA QuitDoneAsked ==
  ASSUME DialogTypes, NEW s \in Session, SessionOK(s), NEW verb, Asked(s, verb), QuitDone(s)
  PROVE  Asked(s, verb)' /\ SessionOK(s)' /\ Alone(s) /\ Kept(s)
<1>1. \/ verb = "." /\ Answered(s, {"quit"}, {"250 OK"})
      \/ verb = "mailed" /\ Idle(s, {"quit"})
      \/ verb = "QUIT" /\ Reading(s, "QUIT", {"quit"})
  BY DEF QuitDone, Asked, Idle, Reading, Answered, Taking, Conn
<1>2. /\ pc[s] = "quit" /\ pc'[s] = "from" /\ work[s] = <<>>
      /\ UNCHANGED <<srv, inbox, reply, sender, recvr, recvr_id, work>>
  BY DEF QuitDone, DialogTypes
<1>3. Alone(s)
  BY DEF QuitDone, DialogTypes, Alone, Same, clients
<1>4. SessionOK(s)'
  BY <1>2, StaysOK DEF SessionOK, Busy, Conn
<1>5. Kept(s)
  BY <1>2 DEF Kept, Conn
<1> QED
  BY <1>1, <1>2, <1>3, <1>4, <1>5 DEF Asked, Answered, Idle, Reading

-----------------------------------------------------------------------------
(* A session reads a body.                                                   *)

\* What is left of a body is a body.
LEMMA RestTaken ==
  ASSUME NEW s, Taking(s), NEW n \in 1 .. Len(inbox[s])
  PROVE  /\ Rest(s, n) \in Seq(Lines)
         /\ \A k \in 1 .. Len(Rest(s, n)) : k < Len(Rest(s, n)) => Rest(s, n)[k].arg # <<Dot>>
         /\ inbox[s] \in Seq(Undotted) => Rest(s, n) \in Seq(Undotted)
         /\ inbox[s][n].arg = <<Dot>> => Rest(s, n) = <<>>
<1> PICK q, N : q = inbox[s] /\ N = Len(q)
  OBVIOUS
<1>1. q \in Seq(Lines) /\ N \in Nat
  BY LenProperties DEF Taking
<1>2. \A S : q \in Seq(S) => \A i \in n + 1 .. N : q[i] \in S
  <2> SUFFICES ASSUME NEW S, q \in Seq(S), NEW i \in n + 1 .. N PROVE q[i] \in S
    OBVIOUS
  <2>1. i \in 1 .. Len(q)
    OBVIOUS
  <2> QED
    BY <2>1, ElementOfSeq
<1>3. \A S : q \in Seq(S) =>
        /\ Rest(s, n) \in Seq(S)
        /\ Len(Rest(s, n)) = IF n + 1 <= N THEN N - (n + 1) + 1 ELSE 0
        /\ \A i \in 1 .. N - (n + 1) + 1 : Rest(s, n)[i] = q[(n + 1) + i - 1]
  <2>1. n + 1 \in Int /\ N \in Int
    BY <1>1
  <2> QED
    BY <1>2, <2>1, SubSeqProperties DEF Rest
<1>4. n <= N /\ Len(Rest(s, n)) = N - n /\ \A i \in 1 .. N - n : Rest(s, n)[i] = q[n + i]
  <2>1. N - (n + 1) + 1 = N - n /\ \A i \in Int : (n + 1) + i - 1 = n + i
    BY <1>1
  <2>2. Len(Rest(s, n)) = IF n + 1 <= N THEN N - n ELSE 0
    BY <1>1, <1>3, <2>1
  <2>3. \A i \in 1 .. N - n : Rest(s, n)[i] = q[(n + 1) + i - 1]
    BY <1>1, <1>3, <2>1
  <2>4. n <= N
    BY <1>1
  <2>5. Len(Rest(s, n)) = N - n
    BY <1>1, <2>2, <2>4
  <2> QED
    BY <2>1, <2>3, <2>4, <2>5
<1>5. \A k \in 1 .. N - n : k < N - n => n + k \in 1 .. N /\ n + k < N
  BY <1>1, <1>4
<1>6. \A k \in 1 .. N : k < N => q[k].arg # <<Dot>>
  BY DEF Taking
<1>7. q[n].arg = <<Dot>> => Rest(s, n) = <<>>
  <2>0. n \in 1 .. N /\ (n < N \/ N - n = 0)
    BY <1>1
  <2>1. q[n].arg = <<Dot>> => N - n = 0
    BY <1>6, <2>0
  <2> QED
    BY <1>1, <1>3, <1>4, <2>1, EmptySeq
<1>8. \A k \in 1 .. Len(Rest(s, n)) : k < Len(Rest(s, n)) => Rest(s, n)[k].arg # <<Dot>>
  BY <1>4, <1>5, <1>6
<1> QED
  BY <1>1, <1>3, <1>7, <1>8

\* Session s gives each of its relays a piece of a body.
Gives(s, words) ==
  /\ inbox' = [q \in Session |-> IF q = s THEN inbox'[s]
                                 ELSE IF q \in Recvr(s) THEN Append(inbox[q], Text(words))
                                 ELSE inbox[q]]
  /\ words \in Seq(Piece) \ {<<>>, <<Dot>>}
  /\ UNCHANGED <<clients, srv, pc, reply, sender, recvr, recvr_id, ask, work>>
  /\ DialogTypes'

LEMMA ReadTextAsked ==
  ASSUME DialogTypes, NEW s \in Session, SessionOK(s), NEW verb, Asked(s, verb), ReadText(s)
  PROVE  /\ verb \in {"body", "."} /\ Asked(s, verb)' /\ SessionOK(s)'
         /\ pc[s] = "data" /\ work[s] = <<>>
         /\ \E words : Gives(s, words)
<1>0. PICK n \in Readable(s) :
        /\ Words(s, n) # <<Dot>>
        /\ inbox' = [q \in Session |->
             IF q = s THEN Rest(s, n)
             ELSE IF q \in Recvr(s) THEN Append(inbox[q], Text(Words(s, n))) ELSE inbox[q]]
  BY DEF ReadText, Recvr
<1> PICK words : words = Words(s, n)
  OBVIOUS
<1>1. /\ words = Words(s, n) /\ words # <<Dot>>
      /\ inbox' = [q \in Session |->
             IF q = s THEN Rest(s, n)
             ELSE IF q \in Recvr(s) THEN Append(inbox[q], Text(words)) ELSE inbox[q]]
  BY <1>0
<1>2. /\ pc[s] = "data" /\ inbox'[s] = Rest(s, n)
      /\ UNCHANGED <<clients, srv, pc, reply, sender, recvr, recvr_id, ask, work>>
  BY <1>1 DEF ReadText
<1>3. n \in 1 .. Len(inbox[s]) /\ inbox[s] # <<>>
  <2>1. n \in 1 .. Len(inbox[s])
    BY DEF Readable
  <2> QED
    BY <2>1, One
<1>4. verb \in {"body", "."} /\ Taking(s) /\ (verb = "body" => inbox[s] \in Seq(Undotted))
  BY <1>2, <1>3 DEF Asked, Idle, Reading, Answered, Conn
<1>5. words \in Seq(Piece) \ {<<>>, <<Dot>>}
  BY <1>1, <1>3, <1>4, WordsTyped DEF Taking
<1>6. Asked(s, verb)'
  <2>1. Taking(s)' /\ (verb = "body" => inbox'[s] \in Seq(Undotted))
    <3>1. /\ Rest(s, n) \in Seq(Lines)
          /\ \A k \in 1 .. Len(Rest(s, n)) : k < Len(Rest(s, n)) => Rest(s, n)[k].arg # <<Dot>>
          /\ inbox[s] \in Seq(Undotted) => Rest(s, n) \in Seq(Undotted)
      BY <1>3, <1>4, RestTaken
    <3> QED
      BY <1>2, <1>4, <3>1 DEF Taking, Lines, Undotted, Says, Writes
  <2>2. Seq(Undotted)' = Seq(Undotted)
    BY DEF Undotted, Lines, Says, Writes
  <2> QED
    BY <1>4, <2>1, <2>2 DEF Asked
<1>7. SessionOK(s)' /\ work[s] = <<>>
  BY <1>2, SameOK, NoWork DEF SessionOK, Exchanges
<1>8. Gives(s, words)
  <2>1. DialogTypes'
    BY <1>1, <1>2 DEF DialogTypes, clients
  <2> QED
    BY <1>1, <1>2, <1>5, <2>1 DEF Gives
<1> QED
  BY <1>2, <1>4, <1>6, <1>7, <1>8

\* A relay has no relays.
LEMMA ReadTextAlone ==
  ASSUME DialogTypes, NEW s \in Session, SessionOK(s), NEW verb, Asked(s, verb), ReadText(s),
         recvr[s] = <<>>
  PROVE  Asked(s, verb)' /\ SessionOK(s)' /\ Alone(s) /\ Kept(s)
<1>1. /\ Asked(s, verb)' /\ SessionOK(s)' /\ pc[s] = "data" /\ work[s] = <<>>
      /\ \E words : Gives(s, words)
  BY ReadTextAsked
<1>2. Recvr(s) = {}
  BY One DEF Recvr
<1>3. Alone(s) /\ Kept(s)
  BY <1>1, <1>2 DEF Gives, Alone, Kept, Same, clients, Conn
<1> QED
  BY <1>1, <1>3

LEMMA ReadDotAsked ==
  ASSUME DialogTypes, NEW s \in Session, SessionOK(s), NEW verb, Asked(s, verb), ReadDot(s)
  PROVE  Asked(s, verb)' /\ SessionOK(s)' /\ Alone(s) /\ Kept(s)
<1>1. PICK n \in Readable(s) :
        Words(s, n) = <<Dot>> /\ inbox' = [inbox EXCEPT ![s] = Rest(s, n)]
  BY DEF ReadDot
<1>2. /\ pc[s] = "data" /\ pc'[s] = "dot" /\ inbox'[s] = Rest(s, n)
      /\ work'[s] = ToRelays(s, ".")
      /\ UNCHANGED <<srv, reply, sender, recvr, recvr_id>>
  BY <1>1 DEF ReadDot, DialogTypes
<1>3. n \in 1 .. Len(inbox[s]) /\ inbox[s] # <<>>
  <2>1. n \in 1 .. Len(inbox[s])
    BY DEF Readable
  <2> QED
    BY <2>1, One
<1>4. verb \in {"body", "."} /\ Taking(s) /\ (verb = "body" => inbox[s] \in Seq(Undotted))
  BY <1>2, <1>3 DEF Asked, Idle, Reading, Answered, Conn
<1>5. inbox[s][n].arg = <<Dot>>
  BY <1>1, <1>3, <1>4, WordsTyped DEF Taking
<1>6. verb = "."
  <2>1. inbox[s] \in Seq(Undotted) => inbox[s][n] \in Undotted
    BY <1>3, ElementOfSeq
  <2> QED
    BY <1>4, <1>5, <2>1 DEF Undotted
<1>7. inbox'[s] = <<>>
  BY <1>2, <1>3, <1>4, <1>5, RestTaken
<1>8. Alone(s)
  <2>1. UNCHANGED <<srv, reply, sender, recvr, recvr_id, ask, clients>>
    BY DEF ReadDot
  <2>2. \A q \in Session \ {s} : Same(q)
    BY <1>1, <2>1 DEF ReadDot, DialogTypes, Same
  <2> QED
    BY <1>1, <2>1, <2>2 DEF ReadDot, DialogTypes, Alone, clients
<1>9. SessionOK(s)' /\ (recvr[s] = <<>> => work'[s] = <<>>)
  <2>1. Exchanges(s)' = {"."} /\ pc[s] \in Busy /\ pc'[s] \in Busy
    BY <1>2 DEF Exchanges, Busy
  <2> QED
    BY <1>2, <2>1, RelaysTold
<1>10. Kept(s)
  BY <1>2, <1>9 DEF Kept, Conn
<1> QED
  BY <1>2, <1>4, <1>6, <1>7, <1>8, <1>9, <1>10 DEF Asked, Idle, Taking

-----------------------------------------------------------------------------
(* What another session or client does leaves a dialog as it is.             *)

LEMMA TalkSame ==
  ASSUME NEW s \in Session, NEW r \in Relay(s), RelayTalk(s, r), Same(r), pc'[s] = pc[s],
         recvr'[s] = recvr[s], ask'[s] = ask[s], work'[s] = work[s]
  PROVE  RelayTalk(s, r)'
<1>1. \A verb : Asked(r, verb)' <=> Asked(r, verb)
  BY AskedSame DEF Same
<1>2. /\ Adrift(r, Left)' <=> Adrift(r, Left)
      /\ Idle(r, {"closed", "from", "rcpt", "gone"})' <=> Idle(r, {"closed", "from", "rcpt", "gone"})
      /\ Fresh(r)' <=> Fresh(r)
  BY <1>1 DEF Adrift, AskedOne, Idle, Fresh, Same, Left
<1>3. Connecting(s)' = Connecting(s) /\ Recvr(s)' = Recvr(s)
  BY DEF Connecting, Recvr
<1>4. InMail(s, r)' = InMail(s, r)
  BY DEF InMail, Due, Between, Before, Verbs
<1>5. /\ AskedOne(r, {Connecting(s)})' <=> AskedOne(r, {Connecting(s)})
      /\ AskedOne(r, InMail(s, r))' <=> AskedOne(r, InMail(s, r))
  BY <1>1, <1>3, <1>4 DEF AskedOne
<1> QED
  BY <1>2, <1>3, <1>5 DEF RelayTalk, Same

LEMMA AskSame ==
  ASSUME NEW s \in Session, AskOK(s), pc'[s] = pc[s], ask'[s] = ask[s], recvr'[s] = recvr[s],
         srv'[ask[s].relay] = srv[ask[s].relay],
         inbox'[ask[s].relay] \in {<<>>, inbox[ask[s].relay]} \/ pc[s] # "conn to"
  PROVE  AskOK(s)'
<1>1. Recvr(s)' = Recvr(s) /\ (Relay(s) \ Recvr(s))' = Relay(s) \ Recvr(s)
  BY DEF Recvr, Relay
<1> QED
  BY <1>1 DEF AskOK

LEMMA ClientSame ==
  ASSUME NEW c \in Client, ClientTalk(c), Same(Of(c)), user'[c] = user[c], ok'[c] = ok[c]
  PROVE  ClientTalk(c)'
<1>1. Asking(c)' = Asking(c)
  BY DEF Asking
<1>2. \A verb : Asked(Of(c), verb)' <=> Asked(Of(c), verb)
  BY AskedSame DEF Same
<1>3. /\ AskedOne(Of(c), {Asking(c)})' <=> AskedOne(Of(c), {Asking(c)})
      /\ Adrift(Of(c), LeftBy(user[c]))' <=> Adrift(Of(c), LeftBy(user[c]))
  <2>1. LeftBy(user[c])' = LeftBy(user[c])
    BY DEF LeftBy, Verbs
  <2> QED
    BY <1>1, <1>2, <2>1 DEF Adrift, AskedOne, Same
<1>4. Addressed(Of(c))' <=> Addressed(Of(c))
  BY DEF Addressed, Same
<1> QED
  BY <1>3, <1>4 DEF ClientTalk

LEMMA CircleSame ==
  ASSUME NEW c \in Client, Circle(c), \A s \in Session : s[1] = c => Same(s),
         user'[c] = user[c], ok'[c] = ok[c]
  PROVE  Circle(c)'
<1> PICK s : s = Of(c)
  OBVIOUS
<1>0. s \in Session /\ s[1] = c /\ Same(s) /\ Relay(s)' = Relay(s)
      /\ \A r \in Relay(s) : r \in Session /\ Same(r)
  BY Parties DEF Relay
<1>1. ClientTalk(c)'
  BY <1>0, ClientSame DEF Circle
<1>2. AskOK(s)'
  <2>1. CASE pc[s] \in Conn
    <3>1. Same(ask[s].relay)
      BY <1>0, <2>1 DEF AskOK, Circle
    <3> QED
      BY <1>0, <3>1, AskSame DEF Same, Circle
  <2>2. CASE pc[s] \notin Conn
    BY <1>0, <2>2 DEF AskOK, Same
  <2> QED
    BY <2>1, <2>2
<1>3. \A r \in Relay(s) : RelayTalk(s, r)'
  <2> SUFFICES ASSUME NEW r \in Relay(s) PROVE RelayTalk(s, r)'
    OBVIOUS
  <2>1. RelayTalk(s, r) /\ Same(r)
    BY <1>0 DEF Circle
  <2> QED
    BY <1>0, <2>1, TalkSame DEF Same
<1>4. \A q \in Session : q[1] = c => SessionOK(q)'
  <2> SUFFICES ASSUME NEW q \in Session, q[1] = c PROVE SessionOK(q)'
    OBVIOUS
  <2>1. SessionOK(q) /\ Same(q)
    BY DEF Circle
  <2> QED
    BY <2>1, SameOK DEF Same
<1> QED
  <2>1. Of(c)' = Of(c)
    BY DEF Of
  <2> QED
    BY <1>0, <1>1, <1>2, <1>3, <1>4, <2>1 DEF Circle

\* What happens in one circle leaves the others alone.
LEMMA OneCircle ==
  ASSUME Dialogs, DialogTypes', NEW c \in Client, Circle(c)',
         \A s \in Session : s[1] # c => Same(s),
         \A d \in Client : d # c => user'[d] = user[d] /\ ok'[d] = ok[d]
  PROVE  Dialogs'
<1> SUFFICES ASSUME NEW d \in Client PROVE Circle(d)'
  BY DEF Dialogs
<1>1. CASE d = c
  BY <1>1
<1>2. CASE d # c
  BY <1>2, CircleSame DEF Dialogs
<1> QED
  BY <1>1, <1>2

-----------------------------------------------------------------------------
(* A step of a relay.                                                        *)

Own(s) ==
  \/ Helo(s) \/ MailFrom(s) \/ Quit(s) \/ RcptHere(s) \/ Rset(s) \/ RsetDone(s) \/ Data(s)
  \/ Invalid(s) \/ StartDone(s) \/ ReadNothing(s) \/ ReadDot(s) \/ DotDone(s) \/ QuitDone(s)

LEMMA OwnAsked ==
  ASSUME DialogTypes, TablesOK, NEW s \in Session, SessionOK(s), NEW verb, Asked(s, verb), Own(s)
  PROVE  Asked(s, verb)' /\ SessionOK(s)' /\ Alone(s) /\ Kept(s)
BY HeloAsked, MailFromAsked, QuitAsked, RcptHereAsked, RsetAsked, RsetDoneAsked, DataAsked,
   InvalidAsked, StartDoneAsked, ReadNothingAsked, ReadDotAsked, DotDoneAsked, QuitDoneAsked
   DEF Own

\* A session without relays opens no connection and waits for none.
LEMMA RelayActs ==
  ASSUME DialogTypes, NEW r \in Session, SessionOK(r), pc[r] \notin Conn, work[r] = <<>>,
         SessionStep(r), ~RcptThere(r)
  PROVE  Own(r) \/ ReadText(r) \/ Eof(r)
BY DEF SessionStep, Own, RelayHello, RelayFrom, RelayTo, RelayRset, RelayAsk, RelayAnswered, Conn

\* A session that nothing is asked of stays until its stream ends.
LEMMA IdleStays ==
  ASSUME NEW r, inbox[r] = <<>>, pc[r] \in {"closed", "from", "rcpt", "gone"},
         Own(r) \/ ReadText(r)
  PROVE  FALSE
BY DEF Own, Helo, MailFrom, Quit, RcptHere, AskedFor, Rset, RsetDone, Data, Invalid, StartDone,
       ReadNothing, ReadDot, DotDone, QuitDone, ReadText, Is

LEMMA RelayThere ==
  ASSUME NEW s \in Session, NEW r \in Relay(s), SessionOK(s), AskOK(s), RelayTalk(s, r),
         DialogTypes, RcptThere(r)
  PROVE  FALSE
<1>1. /\ pc[r] = "rcpt" /\ inbox[r] # <<>> /\ Head(inbox[r]).verb \in {"RCPT TO", "VRFY"}
      /\ Home[Head(inbox[r]).arg] # srv[r]
  BY DEF RcptThere, AskedFor, Is, Arg
<1>2. ASSUME NEW verb, Asked(r, verb) PROVE verb \in {"RCPT TO", "VRFY"}
  BY <1>1, <1>2 DEF Asked, Idle, Reading, Answered, Taking, Says
<1>3. pc[s] \in Conn /\ r = ask[s].relay /\ Connecting(s) \in {"RCPT TO", "VRFY"}
  <2>1. ~Adrift(r, Left)
    BY <1>1, <1>2 DEF Adrift, AskedOne, Left
  <2>2. ~Idle(r, {"closed", "from", "rcpt", "gone"})
    BY <1>1 DEF Idle
  <2>3. pc[s] \in Busy => ~AskedOne(r, InMail(s, r))
    <3>1. pc[s] \in Busy => Between(s) \notin {"RCPT TO", "VRFY"}
      BY DEF Between, Busy
    <3>2. ASSUME NEW n \in Due(s, r)
          PROVE  (IF work[s][n].asked THEN work[s][n].verb ELSE Before(work[s][n].verb))
                   \notin {"RCPT TO", "VRFY"}
      <4>1. work[s][n] \in [relay : Recvr(s), verb : Exchanges(s), asked : BOOLEAN]
        <5>1. n \in 1 .. Len(work[s])
          BY DEF Due
        <5> QED
          BY <5>1, ElementOfSeq DEF SessionOK, WorkOK
      <4>2. Exchanges(s) \subseteq {"DATA", ".", "QUIT", "RSET"}
        BY DEF Exchanges
      <4>3. work[s][n].verb \in {"DATA", ".", "QUIT", "RSET"}
        BY <4>1, <4>2
      <4> QED
        BY <4>3 DEF Before
    <3> QED
      BY <1>2, <3>1, <3>2 DEF InMail, AskedOne
  <2>4. AskedOne(r, {Connecting(s)}) => Connecting(s) \in {"RCPT TO", "VRFY"}
    BY <1>2 DEF AskedOne
  <2> QED
    BY <2>1, <2>2, <2>3, <2>4 DEF RelayTalk
<1>4. pc[s] = "conn to"
  BY <1>3 DEF Connecting, Conn
<1> QED
  BY <1>1, <1>3, <1>4 DEF AskOK

\* A relay answers what its session asks of it.
LEMMA TalkKept ==
  ASSUME NEW s \in Session, NEW r \in Relay(s), RelayTalk(s, r), Same(s), Kept(r),
         pc[r] # "gone" \/ inbox[r] # <<>>,
         ~Idle(r, {"closed", "from", "rcpt", "gone"}),
         \A verb : Asked(r, verb) => Asked(r, verb)'
  PROVE  RelayTalk(s, r)'
<1>1. recvr'[r] = <<>> /\ work'[r] = <<>> /\ pc'[r] \notin Conn
  BY DEF RelayTalk, Kept
<1>2. Connecting(s)' = Connecting(s) /\ Recvr(s)' = Recvr(s) /\ InMail(s, r)' = InMail(s, r)
  BY DEF Connecting, Recvr, InMail, Due, Between, Before, Verbs, Same
<1>3. /\ AskedOne(r, Left) => AskedOne(r, Left)'
      /\ AskedOne(r, {Connecting(s)}) => AskedOne(r, {Connecting(s)})'
      /\ AskedOne(r, InMail(s, r)) => AskedOne(r, InMail(s, r))'
  BY <1>2 DEF AskedOne, Left
<1> QED
  BY <1>1, <1>2, <1>3 DEF RelayTalk, Adrift, Kept, Same

LEMMA RelayStep ==
  ASSUME Dialogs, TablesOK, NEW c \in Client, NEW r \in Relay(Of(c)), SessionStep(r)
  PROVE  Circle(c)' /\ Alone(r)
<1> PICK s : s = Of(c)
  OBVIOUS
<1>0. /\ s \in Session /\ s[1] = c /\ r \in Session /\ r[1] = c /\ r # s /\ r \in Relay(s) /\ r[2] # 0
      /\ \A q \in Relay(s) : q \in Session /\ q # s
      /\ s = Of(c) /\ Of(r[1]) = s
  BY Parties
<1>1. /\ ClientTalk(c) /\ AskOK(s) /\ RelayTalk(s, r) /\ SessionOK(s) /\ SessionOK(r)
      /\ \A q \in Relay(s) : RelayTalk(s, q)
      /\ \A q \in Session : q[1] = c => SessionOK(q)
      /\ DialogTypes
  BY <1>0 DEF Dialogs, Circle
<1>2. pc[r] \notin Conn /\ work[r] = <<>> /\ recvr[r] = <<>>
  BY <1>1 DEF RelayTalk
<1>3. Own(r) \/ ReadText(r) \/ Eof(r)
  <2>1. ~RcptThere(r)
    BY <1>0, <1>1, RelayThere
  <2> QED
    BY <1>0, <1>1, <1>2, <2>1, RelayActs
<1>4. CASE Own(r) \/ ReadText(r)
  <2>1. ASSUME NEW verb, Asked(r, verb)
        PROVE  Asked(r, verb)' /\ SessionOK(r)' /\ Alone(r) /\ Kept(r)
    BY <1>0, <1>1, <1>2, <1>4, <2>1, OwnAsked, ReadTextAlone
  <2>2. ~Idle(r, {"closed", "from", "rcpt", "gone"}) /\ (pc[r] # "gone" \/ inbox[r] # <<>>)
    BY <1>4, IdleStays DEF Idle
  <2>3. \E verb : Asked(r, verb)
    BY <1>1, <2>2 DEF RelayTalk, Adrift, AskedOne
  <2>4. SessionOK(r)' /\ Alone(r) /\ Kept(r)
    BY <2>1, <2>3
  <2>5. Same(s)
    BY <1>0, <2>4 DEF Alone
  <2>6. RelayTalk(s, r)'
    <3>1. \A verb : Asked(r, verb) => Asked(r, verb)'
      BY <2>1
    <3> QED
      BY <1>0, <1>1, <2>2, <2>4, <2>5, <3>1, TalkKept
  <2>7. AskOK(s)'
    <3>1. CASE pc[s] \notin Conn
      BY <2>5, <3>1 DEF AskOK, Same
    <3>2. CASE pc[s] \in Conn /\ ask[s].relay # r
      <4>1. Same(ask[s].relay)
        BY <1>0, <1>1, <2>4, <3>2 DEF AskOK, Alone
      <4> QED
        BY <1>0, <1>1, <2>5, <4>1, AskSame DEF Same
    <3>3. CASE pc[s] \in Conn /\ ask[s].relay = r
      <4>1. srv'[r] = srv[r]
        BY <2>4 DEF Kept
      <4>2. pc[s] = "conn to" => pc[r] # "data"
        <5>1. SUFFICES ASSUME pc[s] = "conn to" PROVE pc[r] # "data"
          OBVIOUS
        <5>2. Asked(r, ask[s].verb) /\ ask[s].verb \in {"RCPT TO", "VRFY"}
          BY <1>1, <3>3, <5>1 DEF RelayTalk, AskedOne, Connecting, AskOK, Conn
        <5> QED
          BY <5>2 DEF Asked, Idle, Reading, Answered, Conn
      <4>3. inbox'[r] \in {<<>>, inbox[r]} \/ pc[s] # "conn to"
        BY <2>4, <4>2 DEF Kept
      <4> QED
        BY <1>0, <1>1, <2>5, <3>3, <4>1, <4>3, AskSame DEF Same
    <3> QED
      BY <3>1, <3>2, <3>3
  <2> QED
    <3>1. ClientTalk(c)'
      BY <1>0, <1>1, <2>4, <2>5, ClientSame DEF Alone, clients
    <3>2. \A q \in Relay(s) : RelayTalk(s, q)'
      <4> SUFFICES ASSUME NEW q \in Relay(s), q # r PROVE RelayTalk(s, q)'
        BY <2>6
      <4>1. Same(q) /\ RelayTalk(s, q)
        BY <1>0, <1>1, <2>4 DEF Alone
      <4> QED
        BY <1>0, <2>5, <4>1, TalkSame DEF Same
    <3>3. \A q \in Session : q[1] = c => SessionOK(q)'
      <4> SUFFICES ASSUME NEW q \in Session, q[1] = c, q # r PROVE SessionOK(q)'
        BY <2>4
      <4>1. Same(q) /\ SessionOK(q)
        BY <1>1, <2>4 DEF Alone
      <4> QED
        BY <4>1, SameOK DEF Same
    <3>4. Of(c)' = s /\ Relay(s)' = Relay(s)
      BY <1>0 DEF Of, Relay
    <3> QED
      BY <1>0, <2>4, <2>7, <3>1, <3>2, <3>3, <3>4 DEF Circle
<1>5. CASE Eof(r)
  <2>1. /\ pc'[r] = "gone" /\ inbox'[r] = <<>> /\ Hung(r) /\ SessionOK(r)' /\ Alone(r) /\ Kept(r)
    BY <1>0, <1>1, <1>5, EofAsked
  <2>2. pc[s] = "gone"
    BY <1>0, <2>1 DEF Hung
  <2>3. Same(s)
    BY <1>0, <2>1 DEF Alone
  <2>4. AskOK(s)'
    BY <2>2, <2>3 DEF AskOK, Same, Conn
  <2>5. RelayTalk(s, r)'
    BY <1>2, <2>1, <2>2, <2>3 DEF RelayTalk, Adrift, Kept, Same
  <2> QED
    <3>1. ClientTalk(c)'
      BY <1>0, <1>1, <2>1, <2>3, ClientSame DEF Alone, clients
    <3>2. \A q \in Relay(s) : RelayTalk(s, q)'
      <4> SUFFICES ASSUME NEW q \in Relay(s), q # r PROVE RelayTalk(s, q)'
        BY <2>5
      <4>1. Same(q) /\ RelayTalk(s, q)
        BY <1>0, <1>1, <2>1 DEF Alone
      <4> QED
        BY <1>0, <2>3, <4>1, TalkSame DEF Same
    <3>3. \A q \in Session : q[1] = c => SessionOK(q)'
      <4> SUFFICES ASSUME NEW q \in Session, q[1] = c, q # r PROVE SessionOK(q)'
        BY <2>1
      <4>1. Same(q) /\ SessionOK(q)
        BY <1>1, <2>1 DEF Alone
      <4> QED
        BY <4>1, SameOK DEF Same
    <3>4. Of(c)' = s /\ Relay(s)' = Relay(s)
      BY <1>0 DEF Of, Relay
    <3> QED
      BY <1>0, <2>1, <2>4, <3>1, <3>2, <3>3, <3>4 DEF Circle
<1> QED
  BY <1>3, <1>4, <1>5

-----------------------------------------------------------------------------
(* A session's own steps, and its relays.                                    *)

LEMMA NothingDue ==
  ASSUME NEW s, NEW r, work[s] = <<>>
  PROVE  Due(s, r) = {} /\ InMail(s, r) \subseteq {Between(s)}
<1>1. Due(s, r) = {}
  BY One DEF Due
<1> QED
  BY <1>1 DEF InMail

LEMMA TalkAt ==
  ASSUME NEW s, NEW r, RelayTalk(s, r), work[s] = <<>>, pc[s] \in Busy \ Conn, r \in Recvr(s)
  PROVE  Asked(r, Between(s)) /\ recvr_id[r] # <<>>
<1>1. AskedOne(r, InMail(s, r)) /\ recvr_id[r] # <<>>
  BY DEF RelayTalk, Busy, Conn
<1> QED
  BY <1>1, NothingDue DEF AskedOne

\* The first exchange of a round with a relay.
LEMMA ToldTalk ==
  ASSUME NEW s, NEW r \in Recvr(s), NEW verb \in {"DATA", ".", "QUIT"}, recvr'[s] = recvr[s],
         \A n, m \in 1 .. Len(recvr[s]) : recvr[s][n] = recvr[s][m] => n = m,
         Len(work'[s]) = Len(recvr[s]), Len(recvr[s]) \in Nat,
         \A n \in 1 .. Len(recvr[s]) : work'[s][n] = Exchange(recvr[s][n], verb)
  PROVE  Before(verb) \in InMail(s, r)'
<1>1. PICK k \in 1 .. Len(recvr[s]) : r = recvr[s][k]
  BY DEF Recvr
<1>2. \A n \in 1 .. Len(recvr[s]) : /\ work'[s][n].relay = recvr[s][n]
                                    /\ work'[s][n].verb = verb /\ work'[s][n].asked = FALSE
  <2>1. \A q, v : /\ Exchange(q, v).relay = q /\ Exchange(q, v).verb = v
                  /\ Exchange(q, v).asked = FALSE
    BY DEF Exchange
  <2> QED
    BY <2>1
<1>3. Due(s, r)' = {k}
  BY <1>1, <1>2 DEF Due
<1>4. Before(verb) \in Verbs
  BY DEF Before, Verbs
<1>5. Before(verb) = Before(verb)'
  BY DEF Before
<1>6. k <= k
  BY <1>1
<1> QED
  BY <1>1, <1>2, <1>3, <1>4, <1>5, <1>6 DEF InMail, Verbs

LEMMA RsetTalk ==
  ASSUME NEW s, NEW r \in Recvr(s), recvr'[s] = recvr[s],
         \A n, m \in 1 .. Len(recvr[s]) : recvr[s][n] = recvr[s][m] => n = m,
         Len(work'[s]) = 2 * Len(recvr[s]), Len(recvr[s]) \in Nat,
         \A n \in 1 .. Len(work'[s]) :
           work'[s][n] = Exchange(recvr[s][(n + 1) \div 2], IF n % 2 = 1 THEN "RSET" ELSE "QUIT")
  PROVE  "to" \in InMail(s, r)'
<1>1. PICK k \in 1 .. Len(recvr[s]) : r = recvr[s][k]
  BY DEF Recvr
<1> PICK j : j = 2 * k - 1
  OBVIOUS
<1>2. /\ j \in 1 .. Len(work'[s]) /\ (j + 1) \div 2 = k /\ j % 2 = 1
  <2>1. j + 1 = 2 * k
    OBVIOUS
  <2>2. 2 * k - 1 \in 1 .. 2 * Len(recvr[s]) /\ (2 * k) \div 2 = k /\ (2 * k - 1) % 2 = 1
    BY Halves
  <2> QED
    BY <2>1, <2>2
<1>3. work'[s][j] = Exchange(r, "RSET")
  BY <1>1, <1>2
<1>4. work'[s][j].relay = r /\ work'[s][j].verb = "RSET" /\ work'[s][j].asked = FALSE
  BY <1>3 DEF Exchange
<1>5. \A m \in 1 .. Len(work'[s]) : work'[s][m].relay = r => j <= m
  <2> SUFFICES ASSUME NEW m \in 1 .. Len(work'[s]), work'[s][m].relay = r PROVE j <= m
    OBVIOUS
  <2>1. PICK i \in 1 .. Len(recvr[s]) : i = (m + 1) \div 2
    BY Halves
  <2>2. m = 2 * i \/ m = 2 * i - 1
    BY <2>1, Halves
  <2>3. \E v : work'[s][m] = Exchange(recvr[s][i], v)
    BY <2>1
  <2>4. work'[s][m].relay = recvr[s][i]
    BY <2>3 DEF Exchange
  <2>5. i = k
    BY <1>1, <2>4
  <2> QED
    BY <2>2, <2>5
<1>6. j \in Due(s, r)' /\ \A m \in Due(s, r)' : j <= m
  BY <1>2, <1>4, <1>5 DEF Due
<1>7. Before("RSET")' = "to"
  BY DEF Before
<1>8. "to" = (IF work[s][j].asked THEN work[s][j].verb ELSE Before(work[s][j].verb))'
  BY <1>4 DEF Before
<1> QED
  BY <1>6, <1>8 DEF InMail, Verbs

Waiting(r) == Idle(r, {"closed", "from", "rcpt", "gone"}) /\ (pc[r] = "closed" => Fresh(r))

LEMMA TalkWaiting ==
  ASSUME NEW s, NEW r, RelayTalk(s, r), pc[s] # "gone", ~(pc[s] \in Conn /\ r = ask[s].relay),
         ~(pc[s] \in Busy /\ r \in Recvr(s))
  PROVE  Waiting(r)
BY DEF RelayTalk, Waiting

LEMMA WaitingAdrift ==
  ASSUME NEW r, Waiting(r)
  PROVE  Adrift(r, Left)
BY DEF Waiting, Idle, Adrift, AskedOne, Asked, Left

\* What a relay waits for lasts while nothing happens to it.
LEMMA RelaySame ==
  ASSUME NEW r, Same(r)
  PROVE  /\ Waiting(r) => Waiting(r)'
         /\ Adrift(r, Left) => Adrift(r, Left)'
         /\ \A verb : Asked(r, verb) => Asked(r, verb)'
<1>1. \A verb : Asked(r, verb)' <=> Asked(r, verb)
  BY AskedSame DEF Same
<1>2. Adrift(r, Left) => Adrift(r, Left)'
  BY <1>1 DEF Adrift, AskedOne, Same, Left
<1>3. Waiting(r) => Waiting(r)'
  BY DEF Waiting, Idle, Fresh, Same
<1> QED
  BY <1>1, <1>2, <1>3

\* Before its mail, a session has no relays.
LEMMA BeforeMail ==
  ASSUME NEW s \in Session, NEW r \in Relay(s), RelayTalk(s, r), Same(r), DialogTypes,
         NEW verb, Asked(s, verb), Helo(s) \/ MailFrom(s) \/ Quit(s)
  PROVE  RelayTalk(s, r)'
<1>1. Waiting(r)
  BY TalkWaiting DEF Helo, MailFrom, Quit, Busy, Conn
<1>2. Waiting(r)' /\ Adrift(r, Left)'
  BY <1>1, WaitingAdrift, RelaySame
<1>3. pc'[s] \in {"from", "gone"} \/ (pc'[s] = "rcpt" /\ recvr'[s] = <<>>)
  <2>1. MailFrom(s) => Fresh(s)
    BY DEF MailFrom, Is, Asked, Idle, Reading, Answered, Taking, Says
  <2> QED
    BY <2>1 DEF Helo, MailFrom, Quit, DialogTypes, Fresh
<1>4. recvr'[s] = <<>> => Recvr(s)' = {}
  BY One DEF Recvr
<1> QED
  BY <1>2, <1>3, <1>4 DEF RelayTalk, Same, Waiting, Busy, Conn

\* The session goes on with its mail.
LEMMA GoesOn ==
  ASSUME NEW s \in Session, NEW r \in Relay(s), RelayTalk(s, r), Same(r),
         pc[s] \in Busy \ Conn, pc'[s] \in Busy \ Conn, recvr'[s] = recvr[s], work[s] = <<>>,
         r \in Recvr(s) => Between(s) \in InMail(s, r)'
  PROVE  RelayTalk(s, r)'
<1>1. Recvr(s)' = Recvr(s)
  BY DEF Recvr
<1>2. CASE r \in Recvr(s)
  <2>1. PICK verb : verb = Between(s)
    OBVIOUS
  <2>2. Asked(r, verb) /\ recvr_id[r] # <<>>
    BY <1>2, <2>1, TalkAt
  <2>3. Asked(r, verb)'
    BY <2>2, RelaySame
  <2>4. AskedOne(r, InMail(s, r))'
    BY <1>2, <2>1, <2>3 DEF AskedOne
  <2> QED
    BY <1>1, <1>2, <2>2, <2>4 DEF RelayTalk, Same, Busy, Conn
<1>3. CASE r \notin Recvr(s)
  <2>1. Waiting(r)
    BY <1>3, TalkWaiting DEF Busy, Conn
  <2>2. Waiting(r)'
    BY <2>1, RelaySame
  <2> QED
    BY <1>1, <1>3, <2>2 DEF RelayTalk, Same, Busy, Conn, Waiting
<1> QED
  BY <1>2, <1>3

\* The session is done with its mail.
LEMMA GivesUp ==
  ASSUME NEW s \in Session, NEW r \in Relay(s), RelayTalk(s, r), Same(r),
         pc[s] \in {"rcpt", "rset", "quit"}, pc'[s] = "from", work[s] = <<>>
  PROVE  RelayTalk(s, r)'
<1>1. Waiting(r)
  <2>1. CASE r \in Recvr(s)
    <3>1. Asked(r, Between(s))
      BY <2>1, TalkAt DEF Busy, Conn
    <3>2. Between(s) \in {"to", "over"}
      BY DEF Between
    <3> QED
      BY <3>1, <3>2 DEF Asked, Waiting, Idle
  <2>2. CASE r \notin Recvr(s)
    BY <2>2, TalkWaiting DEF Conn
  <2> QED
    BY <2>1, <2>2
<1>2. Waiting(r)'
  BY <1>1, RelaySame
<1> QED
  BY <1>2 DEF RelayTalk, Same, Busy, Conn, Waiting

\* The session ends.
LEMMA Ends ==
  ASSUME NEW s \in Session, NEW r \in Relay(s), RelayTalk(s, r), Same(r),
         pc[s] \in {"hello", "from", "rcpt", "data"}, pc'[s] = "gone", work[s] = <<>>
  PROVE  RelayTalk(s, r)'
<1>1. Adrift(r, Left)
  <2>1. CASE pc[s] \in Busy /\ r \in Recvr(s)
    <3>1. Asked(r, Between(s))
      BY <2>1, TalkAt DEF Busy, Conn
    <3>2. Between(s) \in {"to", "body"}
      BY <2>1 DEF Between, Busy, Conn
    <3> QED
      BY <3>1, <3>2 DEF Adrift, AskedOne, Left
  <2>2. CASE ~(pc[s] \in Busy /\ r \in Recvr(s))
    BY <2>2, TalkWaiting, WaitingAdrift DEF Conn
  <2> QED
    BY <2>1, <2>2
<1>2. Adrift(r, Left)'
  BY <1>1, RelaySame
<1> QED
  BY <1>2 DEF RelayTalk, Same

LEMMA OwnTalk ==
  ASSUME DialogTypes, NEW s \in Session, SessionOK(s), NEW r \in Relay(s), RelayTalk(s, r),
         Same(r), NEW verb, Asked(s, verb), Own(s)
  PROVE  RelayTalk(s, r)'
<1>0. pc[s] \in Busy =>
        recvr[s] \in Seq(Relay(s))
        /\ \A n, m \in 1 .. Len(recvr[s]) : recvr[s][n] = recvr[s][m] => n = m
  BY DEF SessionOK
<1>1. pc[s] \in {"rcpt", "data"} => work[s] = <<>>
  BY NoWork DEF SessionOK, Exchanges
<1>2. CASE Helo(s) \/ MailFrom(s) \/ Quit(s)
  BY <1>2, BeforeMail
<1>3. CASE Invalid(s) \/ RsetDone(s) \/ QuitDone(s)
  BY <1>1, <1>3, GivesUp DEF Invalid, RsetDone, QuitDone, DialogTypes
<1>4. CASE RcptHere(s) \/ StartDone(s) \/ ReadNothing(s)
  <2>1. /\ pc[s] \in Busy \ Conn /\ pc'[s] \in Busy \ Conn /\ recvr'[s] = recvr[s]
        /\ work[s] = <<>> /\ work'[s] = <<>> /\ Between(s)' = Between(s)
    BY <1>1, <1>4 DEF RcptHere, AskedFor, StartDone, ReadNothing, DialogTypes, Busy, Conn,
       sessions, Between
  <2>2. Between(s) \in Verbs
    BY <2>1 DEF Between, Verbs, Busy
  <2>3. Between(s) \in InMail(s, r)'
    <3>1. Due(s, r)' = {}
      BY <2>1, One DEF Due
    <3> QED
      BY <2>1, <2>2, <3>1 DEF InMail, Verbs
  <2> QED
    BY <2>1, <2>3, GoesOn
<1>5. ASSUME Data(s) \/ ReadDot(s) \/ DotDone(s), r \in Recvr(s)
      PROVE  Between(s) \in InMail(s, r)'
  <2>1. PICK v \in {"DATA", ".", "QUIT"} :
          /\ work'[s] = ToRelays(s, v) /\ Before(v) = Between(s) /\ Exchanges(s)' = {v}
    <3>1. CASE Data(s)
      BY <3>1 DEF Data, DialogTypes, Before, Between, Exchanges
    <3>2. CASE ReadDot(s)
      BY <3>2 DEF ReadDot, DialogTypes, Before, Between, Exchanges
    <3>3. CASE DotDone(s)
      <4>1. work'[s] = ToRelays(s, "QUIT") /\ Exchanges(s)' = {"QUIT"}
        BY <3>3 DEF DotDone, DialogTypes, Exchanges
      <4>2. Before("QUIT") = Between(s)
        BY <3>3 DEF DotDone, Before, Between, Conn
      <4> QED
        BY <4>1, <4>2
    <3> QED
      BY <1>5, <3>1, <3>2, <3>3
  <2>2. recvr'[s] = recvr[s] /\ pc[s] \in Busy
    BY <1>5 DEF Data, ReadDot, DotDone, Busy
  <2>3. /\ Len(work'[s]) = Len(recvr[s]) /\ Len(recvr[s]) \in Nat
        /\ \A n \in 1 .. Len(recvr[s]) : work'[s][n] = Exchange(recvr[s][n], v)
    BY <1>0, <2>1, <2>2, ToRelaysOK
  <2> QED
    BY <1>0, <1>5, <2>1, <2>2, <2>3, ToldTalk
<1>6. CASE Data(s) \/ ReadDot(s) \/ DotDone(s)
  <2>1. /\ pc[s] \in Busy \ Conn /\ pc'[s] \in Busy \ Conn /\ recvr'[s] = recvr[s]
        /\ work[s] = <<>>
    BY <1>1, <1>6 DEF Data, ReadDot, DotDone, DialogTypes, Busy, Conn
  <2> QED
    BY <1>5, <1>6, <2>1, GoesOn
<1>7. CASE Rset(s)
  <2>1. /\ pc[s] = "rcpt" /\ pc'[s] = "rset" /\ recvr'[s] = recvr[s] /\ work[s] = <<>>
        /\ work'[s] = RsetWork(s)
    BY <1>1, <1>7 DEF Rset, DialogTypes, RsetWork
  <2>2. Exchanges(s)' = {"RSET", "QUIT"} /\ pc[s] \in Busy /\ Between(s) = "to"
    BY <2>1 DEF Exchanges, Busy, Between
  <2>3. /\ Len(work'[s]) = 2 * Len(recvr[s]) /\ Len(recvr[s]) \in Nat
        /\ \A n \in 1 .. Len(work'[s]) :
             work'[s][n] = Exchange(recvr[s][(n + 1) \div 2], IF n % 2 = 1 THEN "RSET" ELSE "QUIT")
    BY <1>0, <2>1, <2>2, RsetWorkOK
  <2>4. ASSUME r \in Recvr(s) PROVE Between(s) \in InMail(s, r)'
    <3>1. "to" \in InMail(s, r)'
      BY <1>0, <2>1, <2>2, <2>3, <2>4, RsetTalk
    <3> QED
      BY <2>2, <3>1
  <2> QED
    BY <2>1, <2>4, GoesOn DEF Busy, Conn
<1> QED
  BY <1>2, <1>3, <1>4, <1>6, <1>7 DEF Own

-----------------------------------------------------------------------------
(* The steps that a client's session makes on its own.                       *)

LEMMA WholeCircle ==
  ASSUME NEW c \in Client, NEW s, s = Of(c), ClientTalk(c)', AskOK(s)',
         \A r \in Relay(s) : RelayTalk(s, r)', \A q \in Session : q[1] = c => SessionOK(q)'
  PROVE  Circle(c)'
<1>1. Of(c)' = s /\ Relay(s)' = Relay(s)
  BY DEF Of, Relay
<1> QED
  BY <1>1 DEF Circle

LEMMA OthersOK ==
  ASSUME NEW c \in Client, Circle(c), SessionOK(Of(c))', \A q \in Relay(Of(c)) : Same(q)
  PROVE  \A q \in Session : q[1] = c => SessionOK(q)'
<1> SUFFICES ASSUME NEW q \in Session, q[1] = c, q # Of(c) PROVE SessionOK(q)'
  OBVIOUS
<1>1. q \in Relay(Of(c))
  BY Parties
<1>2. SessionOK(q) /\ Same(q)
  BY <1>1 DEF Circle
<1> QED
  BY <1>2, SameOK DEF Same

LEMMA MainOwn ==
  ASSUME Dialogs, TablesOK, NEW c \in Client, Own(Of(c))
  PROVE  Circle(c)' /\ Alone(Of(c))
<1> PICK s : s = Of(c)
  OBVIOUS
<1>0. s \in Session /\ s[1] = c /\ \A q \in Relay(s) : q \in Session /\ q # s
  BY Parties
<1>1. /\ ClientTalk(c) /\ SessionOK(s) /\ DialogTypes
      /\ \A q \in Relay(s) : RelayTalk(s, q)
  BY <1>0 DEF Dialogs, Circle
<1>2. Own(s) /\ (pc[s] # "gone" \/ inbox[s] # <<>>)
  BY IdleStays
<1>3. ASSUME NEW verb, Asked(s, verb)
      PROVE  Asked(s, verb)' /\ SessionOK(s)' /\ Alone(s) /\ Kept(s)
  BY <1>0, <1>1, <1>2, <1>3, OwnAsked
<1>4. PICK verb : Asked(s, verb)
  BY <1>1, <1>2 DEF ClientTalk, Adrift, AskedOne
<1>5. SessionOK(s)' /\ Alone(s) /\ Kept(s)
  BY <1>3, <1>4
<1>6. UNCHANGED clients /\ \A q \in Relay(s) : Same(q)
  BY <1>0, <1>5 DEF Alone
<1>7. ClientTalk(c)'
  <2>1. Asking(c)' = Asking(c) /\ LeftBy(user[c])' = LeftBy(user[c])
    BY <1>6 DEF Asking, LeftBy, Verbs, clients
  <2>2. AskedOne(s, {Asking(c)}) => AskedOne(s, {Asking(c)})'
    BY <1>3, <2>1 DEF AskedOne
  <2>3. Adrift(s, LeftBy(user[c])) => Adrift(s, LeftBy(user[c]))'
    BY <1>2, <1>3, <2>1 DEF Adrift, AskedOne
  <2>4. Addressed(s) => Addressed(s)'
    BY <1>5 DEF Addressed, Kept
  <2> QED
    BY <1>1, <1>6, <2>2, <2>3, <2>4 DEF ClientTalk, clients
<1>8. \A r \in Relay(s) : RelayTalk(s, r)'
  <2> SUFFICES ASSUME NEW r \in Relay(s) PROVE RelayTalk(s, r)'
    OBVIOUS
  <2>1. RelayTalk(s, r) /\ Same(r)
    BY <1>1, <1>6
  <2> QED
    BY <1>0, <1>1, <1>2, <1>4, <2>1, OwnTalk
<1>9. AskOK(s)'
  BY <1>5 DEF AskOK, Kept
<1>10. \A q \in Session : q[1] = c => SessionOK(q)'
  BY <1>5, <1>6, OthersOK DEF Dialogs
<1>11. Circle(c)'
  BY <1>7, <1>8, <1>9, <1>10, WholeCircle
<1> QED
  BY <1>5, <1>11

LEMMA MainEof ==
  ASSUME Dialogs, NEW c \in Client, Eof(Of(c))
  PROVE  Circle(c)' /\ Alone(Of(c))
<1> PICK s : s = Of(c)
  OBVIOUS
<1>0. s \in Session /\ s[1] = c /\ s[2] = 0 /\ \A q \in Relay(s) : q \in Session /\ q # s
  BY Parties
<1>1. /\ ClientTalk(c) /\ SessionOK(s) /\ DialogTypes
      /\ \A q \in Relay(s) : RelayTalk(s, q)
  BY <1>0 DEF Dialogs, Circle
<1>2. /\ pc'[s] = "gone" /\ inbox'[s] = <<>> /\ Hung(s) /\ SessionOK(s)' /\ Alone(s)
      /\ pc[s] \in {"hello", "from", "rcpt", "data"} /\ work[s] = <<>>
  BY <1>0, <1>1, EofAsked
<1>3. UNCHANGED clients /\ \A q \in Relay(s) : Same(q)
  BY <1>0, <1>2 DEF Alone
<1>4. user[c] \in Dead
  BY <1>0, <1>2 DEF Hung, Dead
<1>5. ClientTalk(c)'
  BY <1>2, <1>3, <1>4 DEF ClientTalk, Adrift, Dead, clients
<1>6. \A r \in Relay(s) : RelayTalk(s, r)'
  <2> SUFFICES ASSUME NEW r \in Relay(s) PROVE RelayTalk(s, r)'
    OBVIOUS
  <2>1. RelayTalk(s, r) /\ Same(r)
    BY <1>1, <1>3
  <2> QED
    BY <1>0, <1>2, <2>1, Ends
<1>7. AskOK(s)'
  BY <1>2 DEF AskOK, Conn
<1>8. \A q \in Session : q[1] = c => SessionOK(q)'
  BY <1>2, <1>3, OthersOK DEF Dialogs
<1>9. Circle(c)'
  BY <1>5, <1>6, <1>7, <1>8, WholeCircle
<1> QED
  BY <1>2, <1>9

\* A relay is given a piece of a body.
LEMMA Given ==
  ASSUME NEW r, Asked(r, "body"), pc'[r] = pc[r], reply'[r] = reply[r],
         NEW words \in Seq(Piece) \ {<<>>, <<Dot>>}, inbox'[r] = Append(inbox[r], Text(words))
  PROVE  Asked(r, "body")'
<1> PICK w : w = Text(words)
  OBVIOUS
<1>1. w \in Undotted /\ w \in Lines
  BY DEF Undotted, Lines, Says, Writes, Text, Piece
<1>2. Taking(r) /\ inbox[r] \in Seq(Undotted)
  BY DEF Asked
<1>3. inbox'[r] \in Seq(Undotted) /\ inbox'[r] \in Seq(Lines)
  BY <1>1, <1>2, AppendProperties DEF Taking
<1>4. \A n \in 1 .. Len(inbox'[r]) : inbox'[r][n].arg # <<Dot>>
  <2>1. \A n \in 1 .. Len(inbox'[r]) : inbox'[r][n] \in Undotted
    BY <1>3, ElementOfSeq
  <2> QED
    BY <2>1 DEF Undotted
<1>5. Seq(Undotted)' = Seq(Undotted) /\ Seq(Lines)' = Seq(Lines)
  BY DEF Undotted, Lines, Says, Writes
<1> QED
  BY <1>2, <1>3, <1>4, <1>5 DEF Asked, Taking

LEMMA MainText ==
  ASSUME Dialogs, NEW c \in Client, ReadText(Of(c))
  PROVE  /\ Circle(c)' /\ DialogTypes' /\ UNCHANGED clients
         /\ \A q \in Session : q[1] # c => Same(q)
<1> PICK s : s = Of(c)
  OBVIOUS
<1>0. /\ s \in Session /\ s[1] = c
      /\ \A q \in Relay(s) : q \in Session /\ q # s /\ q[1] = c
  BY Parties
<1>1. /\ ClientTalk(c) /\ SessionOK(s) /\ DialogTypes
      /\ \A q \in Relay(s) : RelayTalk(s, q)
      /\ \A q \in Session : q[1] = c => SessionOK(q)
  BY <1>0 DEF Dialogs, Circle
<1>2. ReadText(s) /\ pc[s] # "gone"
  BY DEF ReadText
<1>3. PICK verb : Asked(s, verb) /\ (user[c] \in Dead => verb \in LeftBy(user[c]))
                  /\ (user[c] \notin Dead => verb = Asking(c))
  BY <1>1, <1>2 DEF ClientTalk, Adrift, AskedOne
<1>4. /\ verb \in {"body", "."} /\ Asked(s, verb)' /\ SessionOK(s)'
      /\ pc[s] = "data" /\ work[s] = <<>>
      /\ \E words : Gives(s, words)
  BY <1>0, <1>1, <1>2, <1>3, ReadTextAsked
<1>5. PICK words : Gives(s, words)
  BY <1>4
<1>6. /\ UNCHANGED <<clients, srv, pc, reply, sender, recvr, recvr_id, ask, work>>
      /\ words \in Seq(Piece) \ {<<>>, <<Dot>>} /\ DialogTypes'
      /\ \A q \in Session \ {s} :
           inbox'[q] = IF q \in Recvr(s) THEN Append(inbox[q], Text(words)) ELSE inbox[q]
  BY <1>5 DEF Gives
<1>7. Recvr(s) \subseteq Relay(s)
  <2>1. recvr[s] \in Seq(Relay(s))
    BY <1>1, <1>4 DEF SessionOK, Busy
  <2> QED
    BY <2>1, ElementOfSeq DEF Recvr
<1>8. \A q \in Session \ {s} : q \notin Recvr(s) => Same(q)
  BY <1>6 DEF Same
<1>9. ClientTalk(c)'
  <2>1. /\ LeftBy(user[c])' = LeftBy(user[c]) /\ Dead' = Dead /\ user'[c] = user[c] /\ ok'[c] = ok[c]
        /\ Asking(c)' = Asking(c)
    BY <1>6 DEF LeftBy, Verbs, Dead, Asking, clients
  <2>2. IF user[c] \in Dead THEN AskedOne(s, LeftBy(user[c]))' ELSE AskedOne(s, {Asking(c)})'
    BY <1>3, <1>4, <2>1 DEF AskedOne
  <2>3. Addressed(s)' <=> Addressed(s)
    BY <1>6 DEF Addressed
  <2> QED
    BY <1>1, <2>1, <2>2, <2>3 DEF ClientTalk, Adrift
<1>10. \A r \in Relay(s) : RelayTalk(s, r)'
  <2> SUFFICES ASSUME NEW r \in Relay(s) PROVE RelayTalk(s, r)'
    OBVIOUS
  <2>1. CASE r \notin Recvr(s)
    <3>1. Same(r) /\ RelayTalk(s, r)
      BY <1>0, <1>1, <1>8, <2>1
    <3> QED
      BY <1>0, <1>6, <3>1, TalkSame
  <2>2. CASE r \in Recvr(s)
    <3>1. Asked(r, "body") /\ recvr_id[r] # <<>>
      <4>1. Between(s) = "body" /\ pc[s] \in Busy \ Conn
        BY <1>4 DEF Between, Conn, Busy
      <4>2. RelayTalk(s, r)
        BY <1>1
      <4>3. Asked(r, Between(s)) /\ recvr_id[r] # <<>>
        BY <1>4, <2>2, <4>1, <4>2, TalkAt
      <4> QED
        BY <4>1, <4>3
    <3>2. Asked(r, "body")'
      <4>1. inbox'[r] = Append(inbox[r], Text(words))
        BY <1>0, <1>6, <2>2
      <4> QED
        BY <1>6, <3>1, <4>1, Given
    <3>3. "body" \in InMail(s, r)'
      <4>1. work'[s] = <<>> /\ pc'[s] = "data"
        BY <1>4, <1>6
      <4>2. Due(s, r)' = {}
        BY <4>1, One DEF Due
      <4>3. Between(s)' = "body"
        BY <4>1 DEF Between, Conn
      <4> QED
        BY <4>2, <4>3 DEF InMail, Verbs
    <3>4. AskedOne(r, InMail(s, r))'
      BY <3>2, <3>3 DEF AskedOne
    <3>5. Recvr(s)' = Recvr(s)
      BY <1>6 DEF Recvr
    <3>6. RelayTalk(s, r)
      BY <1>1
    <3> QED
      BY <1>4, <1>6, <2>2, <3>1, <3>4, <3>5, <3>6 DEF RelayTalk, Busy, Conn
  <2> QED
    BY <2>1, <2>2
<1>11. AskOK(s)'
  BY <1>4, <1>6 DEF AskOK, Conn
<1>12. \A q \in Session : q[1] = c => SessionOK(q)'
  <2> SUFFICES ASSUME NEW q \in Session, q[1] = c PROVE SessionOK(q)'
    OBVIOUS
  <2> QED
    BY <1>1, <1>6, SameOK
<1>13. Circle(c)'
  BY <1>9, <1>10, <1>11, <1>12, WholeCircle
<1>14. \A q \in Session : q[1] # c => Same(q)
  BY <1>0, <1>7, <1>8
<1> QED
  BY <1>6, <1>13, <1>14

-----------------------------------------------------------------------------
(* A session connects to a relay.                                            *)

LEMMA ClientStays ==
  ASSUME NEW c \in Client, ClientTalk(c), pc[Of(c)] # "gone", UNCHANGED clients,
         \A verb : Asked(Of(c), verb) => Asked(Of(c), verb)',
         Addressed(Of(c)) => Addressed(Of(c))'
  PROVE  ClientTalk(c)'
<1>1. Asking(c)' = Asking(c) /\ LeftBy(user[c])' = LeftBy(user[c])
  BY DEF Asking, LeftBy, Verbs, clients
<1>2. AskedOne(Of(c), {Asking(c)}) => AskedOne(Of(c), {Asking(c)})'
  BY <1>1 DEF AskedOne
<1>3. Adrift(Of(c), LeftBy(user[c])) => Adrift(Of(c), LeftBy(user[c]))'
  BY <1>1 DEF Adrift, AskedOne
<1> QED
  BY <1>2, <1>3 DEF ClientTalk, clients

\* It goes on with the relays of its mail.
LEMMA MovesOn ==
  ASSUME NEW s \in Session, NEW r \in Relay(s), RelayTalk(s, r), Same(r),
         pc[s] \in {"rcpt"} \cup Conn, pc'[s] \in {"rcpt"} \cup Conn,
         ~(pc[s] \in Conn /\ r = ask[s].relay), ~(pc'[s] \in Conn /\ r = ask'[s].relay),
         r \in Recvr(s)' <=> r \in Recvr(s), work[s] = <<>>, work'[s] = <<>>
  PROVE  RelayTalk(s, r)'
<1>0. pc[s] # "gone" /\ pc'[s] # "gone" /\ pc[s] \in Busy /\ pc'[s] \in Busy
  BY DEF Busy, Conn
<1>1. Between(s) = "to" /\ Between(s)' = "to"
  BY DEF Between, Conn
<1>2. Due(s, r)' = {} /\ "to" \in InMail(s, r)'
  <2>1. Due(s, r)' = {}
    BY One DEF Due
  <2> QED
    BY <1>1, <2>1 DEF InMail, Verbs
<1>3. CASE r \in Recvr(s)
  <2>1. Asked(r, "to") /\ recvr_id[r] # <<>>
    <3>1. AskedOne(r, InMail(s, r)) /\ recvr_id[r] # <<>>
      BY <1>0, <1>3 DEF RelayTalk
    <3> QED
      BY <1>1, <3>1, NothingDue DEF AskedOne
  <2>2. Asked(r, "to")'
    BY <2>1, RelaySame
  <2>3. AskedOne(r, InMail(s, r))'
    BY <1>2, <2>2 DEF AskedOne
  <2> QED
    BY <1>0, <1>3, <2>1, <2>3 DEF RelayTalk, Same
<1>4. CASE r \notin Recvr(s)
  <2>1. Waiting(r)
    BY <1>0, <1>4, TalkWaiting
  <2>2. Waiting(r)'
    BY <2>1, RelaySame
  <2> QED
    BY <1>0, <1>4, <2>2 DEF RelayTalk, Same, Waiting
<1> QED
  BY <1>3, <1>4

\* What a step with relay r brings about.
Joint(c, r) ==
  /\ Circle(c)' /\ DialogTypes' /\ UNCHANGED clients
  /\ \A q \in Session \ {Of(c), r} : Same(q)

LEMMA JointCircle ==
  ASSUME Dialogs, NEW c \in Client, NEW s, s = Of(c), NEW r \in Relay(s),
         pc[s] \in {"rcpt"} \cup Conn, pc'[s] \in {"rcpt"} \cup Conn, work'[s] = <<>>,
         pc[s] \in Conn => r = ask[s].relay, pc'[s] \in Conn => r = ask'[s].relay,
         Recvr(s)' \in {Recvr(s), Recvr(s) \cup {r}},
         DialogTypes', UNCHANGED clients, \A q \in Session \ {s, r} : Same(q),
         \A verb : Asked(s, verb) => Asked(s, verb)', Addressed(s) => Addressed(s)',
         SessionOK(s)', SessionOK(r)', AskOK(s)', RelayTalk(s, r)'
  PROVE  Joint(c, r)
<1>0. /\ s \in Session /\ s[1] = c
      /\ \A q \in Relay(s) : q \in Session /\ q # s
  BY Parties
<1>1. /\ ClientTalk(c) /\ SessionOK(s)
      /\ \A q \in Relay(s) : RelayTalk(s, q)
      /\ \A q \in Session : q[1] = c => SessionOK(q)
  BY <1>0 DEF Dialogs, Circle
<1>2. work[s] = <<>>
  BY <1>1, NoWork DEF SessionOK, Exchanges, Conn
<1>3. ClientTalk(c)'
  BY <1>1, ClientStays DEF Conn
<1>4. \A q \in Relay(s) : RelayTalk(s, q)'
  <2> SUFFICES ASSUME NEW q \in Relay(s), q # r PROVE RelayTalk(s, q)'
    OBVIOUS
  <2>1. Same(q) /\ RelayTalk(s, q)
    BY <1>0, <1>1
  <2>2. q \in Recvr(s)' <=> q \in Recvr(s)
    OBVIOUS
  <2>3. ~(pc[s] \in Conn /\ q = ask[s].relay) /\ ~(pc'[s] \in Conn /\ q = ask'[s].relay)
    OBVIOUS
  <2> QED
    BY <1>0, <1>2, <2>1, <2>2, <2>3, MovesOn
<1>5. \A q \in Session : q[1] = c => SessionOK(q)'
  <2> SUFFICES ASSUME NEW q \in Session, q[1] = c, q # s, q # r PROVE SessionOK(q)'
    OBVIOUS
  <2>1. Same(q) /\ SessionOK(q)
    BY <1>1
  <2> QED
    BY <2>1, SameOK DEF Same
<1>6. Circle(c)'
  BY <1>3, <1>4, <1>5, WholeCircle
<1> QED
  BY <1>6 DEF Joint

LEMMA MainThere ==
  ASSUME Dialogs, NEW c \in Client, RcptThere(Of(c))
  PROVE  \E r \in Relay(Of(c)) : Joint(c, r)
<1> PICK s : s = Of(c)
  OBVIOUS
<1>0. /\ s \in Session /\ s[1] = c
      /\ \A q \in Relay(s) : q \in Session /\ q # s /\ q[1] = c
  BY Parties
<1>1. /\ ClientTalk(c) /\ SessionOK(s) /\ DialogTypes
      /\ \A q \in Relay(s) : RelayTalk(s, q)
      /\ \A q \in Session : q[1] = c => SessionOK(q)
  BY <1>0 DEF Dialogs, Circle
<1>2. PICK r \in Relay(s) :
        /\ pc[r] = "closed"
        /\ pc' = [pc EXCEPT ![s] = "conn hello", ![r] = "hello"]
        /\ srv' = [srv EXCEPT ![r] = Home[Arg(s)]]
        /\ ask' = [ask EXCEPT ![s] =
             [verb |-> Head(inbox[s]).verb, to |-> Arg(s), relay |-> r]]
        /\ inbox' = [inbox EXCEPT ![s] = Tail(@)]
        /\ reply' = [reply EXCEPT ![r] = "220 service ready"]
  BY DEF RcptThere
<1>3. /\ UNCHANGED <<tables, clients, sender, recvr, recvr_id, work>>
      /\ pc[s] = "rcpt" /\ (Is(s, "RCPT TO") \/ Is(s, "VRFY"))
  BY DEF RcptThere, AskedFor
<1>4. r # s /\ r \in Session /\ r[1] = c
  BY <1>0
<1>5. /\ pc'[s] = "conn hello" /\ pc'[r] = "hello" /\ srv'[r] = Home[Arg(s)] /\ srv'[s] = srv[s]
      /\ ask'[s] = [verb |-> Head(inbox[s]).verb, to |-> Arg(s), relay |-> r]
      /\ inbox'[s] = Tail(inbox[s]) /\ inbox'[r] = inbox[r]
      /\ reply'[r] = "220 service ready" /\ reply'[s] = reply[s]
  BY <1>0, <1>1, <1>2, <1>4 DEF DialogTypes
<1>6. \A q \in Session \ {s, r} : Same(q)
  BY <1>1, <1>2, <1>3 DEF Same, DialogTypes
<1>7. ASSUME NEW verb, Asked(s, verb)
      PROVE  verb \in {"RCPT TO", "VRFY"} /\ Reading(s, verb, {"rcpt"})
  BY <1>3, <1>7 DEF Is, Asked, Idle, Reading, Answered, Taking, Says
<1>8. PICK verb : Asked(s, verb)
  BY <1>1, <1>3 DEF ClientTalk, Adrift, AskedOne
<1>9. /\ Arg(s) \in Address /\ Head(inbox[s]).verb \in {"RCPT TO", "VRFY"}
      /\ Tail(inbox[s]) = <<>> /\ reply[s] = Nothing
  BY <1>7, <1>8, One DEF Reading, Says, Writes, Arg
<1>10. Home[Arg(s)] \in Domain
  BY <1>9, MailboxesConstants
<1>11. r \notin Recvr(s) /\ Waiting(r) /\ work[s] = <<>>
  <2>1. work[s] = <<>>
    BY <1>1, <1>3, NoWork DEF SessionOK, Exchanges
  <2>2. r \notin Recvr(s)
    <3>1. r \in Recvr(s) => Asked(r, Between(s))
      BY <1>1, <1>3, <2>1, TalkAt DEF Busy, Conn
    <3>2. Between(s) = "to"
      BY <1>3 DEF Between
    <3> QED
      BY <1>2, <3>1, <3>2 DEF Asked, Idle
  <2> QED
    BY <1>1, <1>3, <2>1, <2>2, TalkWaiting DEF Conn
<1>12. Fresh(r) /\ inbox[r] = <<>> /\ recvr[r] = <<>> /\ work[r] = <<>>
  BY <1>1, <1>2, <1>11 DEF Waiting, Idle, RelayTalk
<1>21. ask'[s].relay = r /\ ask'[s].to = Arg(s) /\ ask'[s].verb = Head(inbox[s]).verb
  <2>1. PICK a : a = ask'[s]
    OBVIOUS
  <2>2. a = [verb |-> Head(inbox[s]).verb, to |-> Arg(s), relay |-> r]
    BY <1>5, <2>1
  <2>3. a.relay = r /\ a.to = Arg(s) /\ a.verb = Head(inbox[s]).verb
    BY <2>2
  <2> QED
    BY <2>1, <2>3
<1>13. RelayTalk(s, r)'
  <2>1. Asked(r, "hello")'
    BY <1>3, <1>5, <1>12 DEF Asked, Answered, Fresh
  <2>2. AskedOne(r, {Connecting(s)})'
    <3>1. Connecting(s)' = "hello"
      BY <1>5 DEF Connecting
    <3> QED
      BY <2>1, <3>1 DEF AskedOne
  <2> QED
    BY <1>3, <1>5, <1>12, <1>21, <2>2 DEF RelayTalk, Conn
<1>14. SessionOK(s)'
  BY <1>0, <1>1, <1>3, <1>5, <1>11, StaysOK DEF SessionOK, Busy, Conn
<1>15. SessionOK(r)'
  <2>1. SessionOK(r) /\ work'[r] = <<>> /\ pc'[r] \notin Busy
    BY <1>1, <1>3, <1>4, <1>5, <1>12 DEF Busy, Conn
  <2> QED
    BY <1>3, <1>4, <1>5, <1>10, <2>1, StaysOK
<1>16. Recvr(s)' = Recvr(s)
  BY <1>3 DEF Recvr
<1>17. AskOK(s)'
  <2>1. ask'[s].relay = r /\ ask'[s].to = Arg(s) /\ ask'[s].verb \in {"RCPT TO", "VRFY"}
    BY <1>9, <1>21
  <2>2. r \in Relay(s)'
    BY DEF Relay
  <2> QED
    BY <1>5, <1>9, <1>11, <1>16, <2>1, <2>2 DEF AskOK
<1>18. \A v : Asked(s, v) => Asked(s, v)'
  <2> SUFFICES ASSUME NEW v, Asked(s, v) PROVE Asked(s, v)'
    OBVIOUS
  <2>1. v \in {"RCPT TO", "VRFY"}
    BY <1>7
  <2>2. Idle(s, Conn)'
    BY <1>5, <1>9 DEF Idle, Conn
  <2> QED
    BY <2>1, <2>2 DEF Asked
<1>19. Addressed(s) => Addressed(s)'
  BY <1>3 DEF Addressed
<1>20. DialogTypes'
  <2>1. srv' \in [Session -> Domain \cup {Nothing}]
    BY <1>1, <1>2, <1>10 DEF DialogTypes
  <2> QED
    BY <1>1, <1>2, <1>3, <2>1 DEF DialogTypes, clients
<1>22. Joint(c, r)
  BY <1>3, <1>5, <1>6, <1>11, <1>13, <1>14, <1>15, <1>16, <1>17, <1>18, <1>19, <1>20, <1>21,
     JointCircle DEF Conn
<1> QED
  BY <1>22

LEMMA Connects ==
  ASSUME Dialogs, NEW c \in Client, NEW s, s = Of(c), pc[s] \in Conn, NEW r, r = ask[s].relay
  PROVE  /\ s \in Session /\ r \in Relay(s) /\ r \in Session /\ r # s
         /\ DialogTypes /\ SessionOK(s) /\ SessionOK(r) /\ AskOK(s) /\ work[s] = <<>>
         /\ Asked(r, Connecting(s)) /\ r \notin Recvr(s)
         /\ recvr[r] = <<>> /\ work[r] = <<>> /\ pc[r] \notin Conn
         /\ \A verb : Asked(s, verb) => verb \in {"RCPT TO", "VRFY"} /\ Idle(s, Conn)
<1>0. /\ s \in Session /\ s[1] = c
      /\ \A q \in Relay(s) : q \in Session /\ q # s /\ q[1] = c
  BY Parties
<1>1. /\ SessionOK(s) /\ DialogTypes /\ AskOK(s)
      /\ \A q \in Relay(s) : RelayTalk(s, q)
      /\ \A q \in Session : q[1] = c => SessionOK(q)
  BY <1>0 DEF Dialogs, Circle
<1>2. r \in Relay(s) /\ r \notin Recvr(s)
  BY <1>1 DEF AskOK
<1>3. RelayTalk(s, r) /\ SessionOK(r) /\ r \in Session /\ r # s
  BY <1>0, <1>1, <1>2
<1>4. AskedOne(r, {Connecting(s)}) /\ recvr[r] = <<>> /\ work[r] = <<>> /\ pc[r] \notin Conn
  BY <1>3 DEF RelayTalk, Conn
<1>5. work[s] = <<>>
  BY <1>1, NoWork DEF SessionOK, Exchanges, Conn
<1>6. \A verb : Asked(s, verb) => verb \in {"RCPT TO", "VRFY"} /\ Idle(s, Conn)
  BY DEF Asked, Idle, Reading, Answered, Taking, Conn
<1>7. Asked(r, Connecting(s))
  BY <1>4 DEF AskedOne
<1> QED
  BY <1>0, <1>1, <1>2, <1>3, <1>4, <1>5, <1>6, <1>7

\* A session asks for something, or has the answer it waited for.
LEMMA Asks ==
  ASSUME NEW r, NEW verb, NEW arg, Command(verb, arg) \in Writes, inbox[r] = <<>>,
         inbox'[r] = Append(inbox[r], Command(verb, arg)), reply'[r] = Nothing,
         NEW places, pc'[r] \in places
  PROVE  Reading(r, verb, places)' /\ Head(inbox'[r]).arg = arg
<1> PICK w : w = Command(verb, arg)
  OBVIOUS
<1>1. w.verb = verb /\ w.arg = arg /\ w \in Writes
  BY DEF Command
<1>2. inbox'[r] = <<w>> /\ inbox'[r] # <<>> /\ Head(inbox'[r]) = w
  BY One
<1>3. Head(inbox'[r]) \in Says(verb)'
  BY <1>1, <1>2 DEF Says, Writes
<1> QED
  BY <1>1, <1>2, <1>3 DEF Reading

LEMMA MainHello ==
  ASSUME Dialogs, NEW c \in Client, RelayHello(Of(c))
  PROVE  \E r \in Relay(Of(c)) : Joint(c, r)
<1> PICK s, r : s = Of(c) /\ r = ask[s].relay
  OBVIOUS
<1>1. \/ /\ pc[s] = "conn hello" /\ pc' = [pc EXCEPT ![s] = "conn helo"]
         /\ reply[r] = "220 service ready"
         /\ inbox' = [inbox EXCEPT ![r] = Append(@, Command("HELO", Home[ask[s].to]))]
      \/ /\ pc[s] = "conn helo" /\ pc' = [pc EXCEPT ![s] = "conn"]
         /\ reply[r] = "250 OK"
         /\ inbox' = [inbox EXCEPT ![r] = Append(@, Command("MAIL FROM", sender[s]))]
  BY DEF RelayHello
<1>2. /\ reply' = [reply EXCEPT ![r] = Nothing]
      /\ UNCHANGED <<tables, clients, srv, sender, recvr, recvr_id, ask, work>>
  BY DEF RelayHello
<1>3. pc[s] \in Conn /\ pc[s] \in Busy
  BY <1>1 DEF Conn, Busy
<1>4. /\ s \in Session /\ r \in Relay(s) /\ r \in Session /\ r # s
      /\ DialogTypes /\ SessionOK(s) /\ SessionOK(r) /\ AskOK(s) /\ work[s] = <<>>
      /\ Asked(r, Connecting(s)) /\ r \notin Recvr(s)
      /\ recvr[r] = <<>> /\ work[r] = <<>> /\ pc[r] \notin Conn
      /\ \A verb : Asked(s, verb) => verb \in {"RCPT TO", "VRFY"} /\ Idle(s, Conn)
  BY <1>3, Connects
<1>5. /\ inbox'[s] = inbox[s] /\ reply'[s] = reply[s] /\ reply'[r] = Nothing /\ pc'[r] = pc[r]
      /\ pc'[s] \in Conn /\ pc'[s] # "conn to"
  BY <1>1, <1>2, <1>4 DEF DialogTypes, Conn
<1>6. \A q \in Session \ {s, r} : Same(q)
  BY <1>1, <1>2, <1>4 DEF Same, DialogTypes
<1>7. DialogTypes'
  BY <1>1, <1>2, <1>4 DEF DialogTypes, clients
<1>8. ask[s].to \in Address /\ Home[ask[s].to] \in Domain /\ sender[s] \in Address
  BY <1>3, <1>4, MailboxesConstants DEF AskOK, SessionOK
<1>9. AskedOne(r, {Connecting(s)})'
  <2>1. CASE pc[s] = "conn hello"
    <3>1. Asked(r, "hello")
      BY <1>4, <2>1 DEF Connecting
    <3>2. pc[r] = "hello" /\ inbox[r] = <<>> /\ Fresh(r)
      BY <3>1 DEF Asked, Answered
    <3>3. inbox'[r] = Append(inbox[r], Command("HELO", Home[ask[s].to]))
      BY <1>1, <1>4, <2>1 DEF DialogTypes
    <3>4. Command("HELO", Home[ask[s].to]) \in Writes
      BY <1>8 DEF Command, Writes
    <3>5. Reading(r, "HELO", {"hello"})'
      BY <1>5, <3>2, <3>3, <3>4, Asks
    <3>6. Asked(r, "HELO")'
      BY <1>2, <3>2, <3>5 DEF Asked, Fresh
    <3>7. Connecting(s)' = "HELO"
      BY <1>1, <1>4, <2>1 DEF Connecting, DialogTypes
    <3> QED
      BY <3>6, <3>7 DEF AskedOne
  <2>2. CASE pc[s] = "conn helo"
    <3>1. Asked(r, "HELO") /\ reply[r] = "250 OK"
      BY <1>1, <1>4, <2>2 DEF Connecting
    <3>2. pc[r] = "from" /\ inbox[r] = <<>> /\ Fresh(r)
      BY <3>1 DEF Asked, Answered, Reading, Nothing
    <3>3. inbox'[r] = Append(inbox[r], Command("MAIL FROM", sender[s]))
      BY <1>1, <1>4, <2>2 DEF DialogTypes
    <3>4. Command("MAIL FROM", sender[s]) \in Writes
      BY <1>8 DEF Command, Writes
    <3>5. Reading(r, "MAIL FROM", {"from"})'
      BY <1>5, <3>2, <3>3, <3>4, Asks
    <3>6. Asked(r, "MAIL FROM")'
      BY <1>2, <3>2, <3>5 DEF Asked, Fresh
    <3>7. Connecting(s)' = "MAIL FROM"
      BY <1>1, <1>4, <2>2 DEF Connecting, DialogTypes
    <3> QED
      BY <3>6, <3>7 DEF AskedOne
  <2> QED
    BY <1>1, <2>1, <2>2
<1>10. RelayTalk(s, r)'
  BY <1>2, <1>4, <1>5, <1>9 DEF RelayTalk, Conn
<1>11. SessionOK(s)' /\ SessionOK(r)'
  <2>1. SessionOK(r)'
    BY <1>2, <1>4, <1>5, SameOK
  <2> QED
    BY <1>2, <1>3, <1>4, <1>5, <2>1, StaysOK DEF SessionOK, Conn
<1>12. Recvr(s)' = Recvr(s)
  BY <1>2 DEF Recvr
<1>13. AskOK(s)'
  BY <1>2, <1>3, <1>4, <1>5, <1>12 DEF AskOK, Relay
<1>14. \A v : Asked(s, v) => Asked(s, v)'
  <2>1. Idle(s, Conn) => Idle(s, Conn)'
    BY <1>5 DEF Idle, Conn
  <2> QED
    BY <1>4, <2>1 DEF Asked
<1>15. Addressed(s) => Addressed(s)'
  BY <1>2 DEF Addressed
<1>16. ask'[s].relay = r /\ work'[s] = <<>>
  BY <1>2, <1>4
<1> QED
  BY <1>2, <1>3, <1>4, <1>5, <1>6, <1>7, <1>10, <1>11, <1>12, <1>13, <1>14, <1>15, <1>16, JointCircle

LEMMA MainFrom ==
  ASSUME Dialogs, NEW c \in Client, RelayFrom(Of(c))
  PROVE  \E r \in Relay(Of(c)) : Joint(c, r)
<1> PICK s, r : s = Of(c) /\ r = ask[s].relay
  OBVIOUS
<1>1. /\ pc[s] = "conn" /\ reply[r] # Nothing
      /\ \/ /\ reply[r] = "250 OK"
            /\ inbox' = [inbox EXCEPT ![r] = Append(@, Command(ask[s].verb, ask[s].to))]
            /\ reply' = [reply EXCEPT ![r] = Nothing]
            /\ pc' = [pc EXCEPT ![s] = "conn to"]
         \/ /\ reply[r] # "250 OK"
            /\ reply' = [reply EXCEPT ![r] = Nothing, ![s] = "Syntax Error or Failure"]
            /\ pc' = [pc EXCEPT ![s] = "rcpt"]
            /\ UNCHANGED inbox
      /\ UNCHANGED <<tables, clients, srv, sender, recvr, recvr_id, ask, work>>
  BY DEF RelayFrom
<1>2. pc[s] \in Conn /\ pc[s] \in Busy
  BY <1>1 DEF Conn, Busy
<1>3. /\ s \in Session /\ r \in Relay(s) /\ r \in Session /\ r # s
      /\ DialogTypes /\ SessionOK(s) /\ SessionOK(r) /\ AskOK(s) /\ work[s] = <<>>
      /\ Asked(r, Connecting(s)) /\ r \notin Recvr(s)
      /\ recvr[r] = <<>> /\ work[r] = <<>> /\ pc[r] \notin Conn
      /\ \A verb : Asked(s, verb) => verb \in {"RCPT TO", "VRFY"} /\ Idle(s, Conn)
  BY <1>2, Connects
<1>4. /\ inbox'[s] = inbox[s] /\ reply'[r] = Nothing /\ pc'[r] = pc[r]
      /\ \/ /\ pc'[s] = "conn to" /\ reply'[s] = reply[s] /\ reply[r] = "250 OK"
            /\ inbox'[r] = Append(inbox[r], Command(ask[s].verb, ask[s].to))
         \/ /\ pc'[s] = "rcpt" /\ reply'[s] = "Syntax Error or Failure" /\ reply[r] # "250 OK"
            /\ inbox'[r] = inbox[r]
  BY <1>1, <1>3 DEF DialogTypes
<1>5. \A q \in Session \ {s, r} : Same(q)
  BY <1>1, <1>3 DEF Same, DialogTypes
<1>6. DialogTypes'
  BY <1>1, <1>3 DEF DialogTypes, clients
<1>7. ask[s].to \in Address /\ ask[s].verb \in {"RCPT TO", "VRFY"}
  BY <1>2, <1>3 DEF AskOK
<1>8. Asked(r, "MAIL FROM")
  <2>1. Connecting(s) = "MAIL FROM"
    BY <1>1 DEF Connecting
  <2> QED
    BY <1>3, <2>1
<1>9. /\ inbox[r] = <<>> /\ Fresh(r)
      /\ \/ pc[r] = "rcpt" /\ reply[r] = "250 OK"
         \/ pc[r] = "from" /\ reply[r] = "550 No such user here"
  BY <1>1, <1>8 DEF Asked, Answered, Reading
<1>10. Recvr(s)' = Recvr(s) /\ Relay(s)' = Relay(s) /\ ask'[s] = ask[s] /\ work'[s] = <<>>
  <2>1. Recvr(s)' = Recvr(s)
    <3>1. recvr' = recvr
      BY <1>1
    <3> QED
      BY <3>1 DEF Recvr
  <2>2. Relay(s)' = Relay(s)
    BY DEF Relay
  <2> QED
    BY <1>1, <1>3, <2>1, <2>2
<1> PICK verb : verb = ask[s].verb
  OBVIOUS
<1>11. pc'[s] = "conn to" => Head(inbox'[r]).arg = ask[s].to /\ Asked(r, verb)'
  <2> SUFFICES ASSUME pc'[s] = "conn to"
               PROVE  Head(inbox'[r]).arg = ask[s].to /\ Asked(r, verb)'
    OBVIOUS
  <2>1. Command(verb, ask[s].to) \in Writes
    BY <1>7 DEF Command, Writes
  <2>2. inbox'[r] = Append(inbox[r], Command(verb, ask[s].to)) /\ pc'[r] \in {"rcpt"}
    BY <1>4, <1>9
  <2>3. PICK arg : arg = ask[s].to
    OBVIOUS
  <2>4. inbox[r] = <<>> /\ reply'[r] = Nothing /\ Command(verb, arg) \in Writes
    BY <1>4, <1>9, <2>1, <2>3
  <2>5. inbox'[r] = Append(inbox[r], Command(verb, arg)) /\ pc'[r] \in {"rcpt"}
    BY <2>2, <2>3
  <2>6. Reading(r, verb, {"rcpt"})' /\ Head(inbox'[r]).arg = arg
    <3>1. Reading(r, verb, {"rcpt"})'
      BY <2>4, <2>5, Asks
    <3>2. PICK w : w = Command(verb, arg)
      OBVIOUS
    <3>3. inbox'[r] = Append(inbox[r], w) /\ w.arg = arg
      BY <2>5, <3>2 DEF Command
    <3>4. Head(inbox'[r]) = w
      BY <2>4, <3>3, One
    <3> QED
      BY <3>1, <3>3, <3>4
  <2>7. Asked(r, verb)'
    BY <1>7, <2>6 DEF Asked
  <2> QED
    BY <2>3, <2>6, <2>7
<1>12. RelayTalk(s, r)'
  <2>1. CASE pc'[s] = "conn to"
    <3>1. Connecting(s)' = verb
      BY <1>10, <2>1 DEF Connecting
    <3>2. AskedOne(r, {Connecting(s)})'
      BY <1>11, <2>1, <3>1 DEF AskedOne
    <3> QED
      BY <1>1, <1>3, <1>4, <1>10, <2>1, <3>2 DEF RelayTalk, Conn
  <2>2. CASE pc'[s] = "rcpt"
    <3>1. Idle(r, {"closed", "from", "rcpt", "gone"})' /\ pc'[r] = "from"
      BY <1>4, <1>9, <2>2 DEF Idle
    <3>2. r \notin Recvr(s)' /\ pc'[s] \notin Conn /\ pc'[s] # "gone"
      BY <1>3, <1>10, <2>2 DEF Conn
    <3> QED
      BY <1>1, <1>3, <1>4, <3>1, <3>2 DEF RelayTalk
  <2> QED
    BY <1>4, <2>1, <2>2
<1>13. SessionOK(s)' /\ SessionOK(r)'
  <2>1. SessionOK(r)'
    BY <1>1, <1>3, <1>4, SameOK
  <2>2. pc'[s] # "closed" /\ pc[s] # "closed"
    BY <1>1, <1>4
  <2> QED
    BY <1>1, <1>2, <1>3, <1>10, <2>1, <2>2, StaysOK DEF SessionOK
<1>14. AskOK(s)'
  <2>1. pc'[s] = "conn to" => Head(inbox'[r]).arg = ask[s].to
    BY <1>11
  <2> QED
    BY <1>1, <1>2, <1>3, <1>10, <2>1 DEF AskOK
<1>15. \A v : Asked(s, v) => Asked(s, v)'
  <2> SUFFICES ASSUME NEW v, Asked(s, v) PROVE Asked(s, v)'
    OBVIOUS
  <2>1. v \in {"RCPT TO", "VRFY"} /\ Idle(s, Conn)
    BY <1>3
  <2>2. Idle(s, Conn)' \/ Answered(s, {"rcpt"}, {"550 No such user here", "Syntax Error or Failure"})'
    BY <1>4, <2>1 DEF Idle, Answered, Conn
  <2> QED
    BY <2>1, <2>2 DEF Asked
<1>16. Addressed(s) => Addressed(s)'
  BY <1>1 DEF Addressed
<1>17. pc'[s] \in {"rcpt"} \cup Conn /\ ask'[s].relay = r
  BY <1>4, <1>10 DEF Conn
<1> QED
  BY <1>1, <1>2, <1>3, <1>5, <1>6, <1>10, <1>12, <1>13, <1>14, <1>15, <1>16, <1>17, JointCircle

LEMMA MainRset ==
  ASSUME Dialogs, NEW c \in Client, RelayRset(Of(c))
  PROVE  \E r \in Relay(Of(c)) : Joint(c, r)
<1> PICK s, r : s = Of(c) /\ r = ask[s].relay
  OBVIOUS
<1>1. /\ pc[s] = "conn rset" /\ reply[r] # Nothing
      /\ reply' = [reply EXCEPT ![r] = Nothing, ![s] = "550 No such user here"]
      /\ pc' = [pc EXCEPT ![s] = "rcpt"]
      /\ UNCHANGED <<tables, clients, srv, inbox, sender, recvr, recvr_id, ask, work>>
  BY DEF RelayRset
<1>2. pc[s] \in Conn /\ pc[s] \in Busy
  BY <1>1 DEF Conn, Busy
<1>3. /\ s \in Session /\ r \in Relay(s) /\ r \in Session /\ r # s
      /\ DialogTypes /\ SessionOK(s) /\ SessionOK(r) /\ AskOK(s) /\ work[s] = <<>>
      /\ Asked(r, Connecting(s)) /\ r \notin Recvr(s)
      /\ recvr[r] = <<>> /\ work[r] = <<>> /\ pc[r] \notin Conn
      /\ \A verb : Asked(s, verb) => verb \in {"RCPT TO", "VRFY"} /\ Idle(s, Conn)
  BY <1>2, Connects
<1>4. /\ reply'[r] = Nothing /\ pc'[r] = pc[r] /\ pc'[s] = "rcpt"
      /\ reply'[s] = "550 No such user here"
  BY <1>1, <1>3 DEF DialogTypes
<1>5. \A q \in Session \ {s, r} : Same(q)
  BY <1>1, <1>3 DEF Same, DialogTypes
<1>6. DialogTypes'
  BY <1>1, <1>3 DEF DialogTypes, clients
<1>7. pc[r] = "from" /\ inbox[r] = <<>>
  <2>1. Connecting(s) = "RSET"
    BY <1>1 DEF Connecting
  <2> QED
    BY <1>1, <1>3, <2>1 DEF Asked, Reading, Idle, Answered
<1>8. Recvr(s)' = Recvr(s) /\ work'[s] = <<>>
  BY <1>1, <1>3 DEF Recvr
<1>9. RelayTalk(s, r)'
  BY <1>1, <1>3, <1>4, <1>7, <1>8 DEF RelayTalk, Conn, Busy, Idle
<1>10. SessionOK(s)' /\ SessionOK(r)'
  <2>1. SessionOK(r)'
    BY <1>1, <1>3, <1>4, SameOK
  <2> QED
    BY <1>1, <1>2, <1>3, <1>4, <1>8, <2>1, StaysOK DEF SessionOK
<1>11. AskOK(s)'
  BY <1>4 DEF AskOK, Conn
<1>12. \A v : Asked(s, v) => Asked(s, v)'
  <2> SUFFICES ASSUME NEW v, Asked(s, v) PROVE Asked(s, v)'
    OBVIOUS
  <2>1. v \in {"RCPT TO", "VRFY"} /\ Idle(s, Conn)
    BY <1>3
  <2>2. Answered(s, {"rcpt"}, {"550 No such user here", "Syntax Error or Failure"})'
    BY <1>1, <1>4, <2>1 DEF Idle, Answered
  <2> QED
    BY <2>1, <2>2 DEF Asked
<1>13. Addressed(s) => Addressed(s)'
  BY <1>1 DEF Addressed
<1>14. pc'[s] \in {"rcpt"} \cup Conn /\ pc'[s] \notin Conn
  BY <1>4 DEF Conn
<1> QED
  BY <1>1, <1>2, <1>3, <1>5, <1>6, <1>8, <1>9, <1>10, <1>11, <1>12, <1>13, <1>14, JointCircle

LEMMA MainTo ==
  ASSUME Dialogs, NEW c \in Client, RelayTo(Of(c))
  PROVE  \E r \in Relay(Of(c)) : Joint(c, r)
<1> PICK s, r : s = Of(c) /\ r = ask[s].relay
  OBVIOUS
<1>1. /\ pc[s] = "conn to"
      /\ UNCHANGED <<tables, clients, srv, sender, recvr_id, ask, work>>
      /\ \/ /\ reply[r] = "250 OK"
            /\ recvr' = [recvr EXCEPT ![s] = Append(@, r)]
            /\ reply' = [reply EXCEPT ![r] = Nothing, ![s] = "250 OK"]
            /\ pc' = [pc EXCEPT ![s] = "rcpt"]
            /\ UNCHANGED inbox
         \/ /\ reply[r] = "550 No such user here"
            /\ ask[s].verb = "RCPT TO"
            /\ reply' = [reply EXCEPT ![r] = Nothing, ![s] = "550 No such user here"]
            /\ pc' = [pc EXCEPT ![s] = "rcpt"]
            /\ UNCHANGED <<inbox, recvr>>
         \/ /\ reply[r] = "550 No such user here"
            /\ ask[s].verb = "VRFY"
            /\ reply' = [reply EXCEPT ![r] = Nothing]
            /\ inbox' = [inbox EXCEPT ![r] = Append(@, Command("RSET", Nobody))]
            /\ pc' = [pc EXCEPT ![s] = "conn rset"]
            /\ UNCHANGED recvr
  BY DEF RelayTo
<1>2. pc[s] \in Conn /\ pc[s] \in Busy
  BY <1>1 DEF Conn, Busy
<1>3. /\ s \in Session /\ r \in Relay(s) /\ r \in Session /\ r # s
      /\ DialogTypes /\ SessionOK(s) /\ SessionOK(r) /\ AskOK(s) /\ work[s] = <<>>
      /\ Asked(r, Connecting(s)) /\ r \notin Recvr(s)
      /\ recvr[r] = <<>> /\ work[r] = <<>> /\ pc[r] \notin Conn
      /\ \A verb : Asked(s, verb) => verb \in {"RCPT TO", "VRFY"} /\ Idle(s, Conn)
  BY <1>2, Connects
<1>4. /\ inbox'[s] = inbox[s] /\ reply'[r] = Nothing /\ pc'[r] = pc[r] /\ recvr'[r] = <<>>
      /\ \/ /\ pc'[s] = "rcpt" /\ reply'[s] = "250 OK" /\ reply[r] = "250 OK"
            /\ inbox'[r] = inbox[r] /\ recvr'[s] = Append(recvr[s], r)
         \/ /\ pc'[s] = "rcpt" /\ reply'[s] = "550 No such user here"
            /\ reply[r] = "550 No such user here"
            /\ inbox'[r] = inbox[r] /\ recvr'[s] = recvr[s]
         \/ /\ pc'[s] = "conn rset" /\ reply'[s] = reply[s] /\ reply[r] = "550 No such user here"
            /\ inbox'[r] = Append(inbox[r], Command("RSET", Nobody)) /\ recvr'[s] = recvr[s]
            /\ ask[s].verb = "VRFY"
  BY <1>1, <1>3 DEF DialogTypes
<1>5. \A q \in Session \ {s, r} : Same(q)
  BY <1>1, <1>3 DEF Same, DialogTypes
<1>6. DialogTypes'
  BY <1>1, <1>3 DEF DialogTypes, clients
<1>7. Asked(r, ask[s].verb) /\ ask[s].verb \in {"RCPT TO", "VRFY"}
  <2>1. Connecting(s) = ask[s].verb
    BY <1>1 DEF Connecting
  <2> QED
    BY <1>2, <1>3, <2>1 DEF AskOK
<1>8. /\ inbox[r] = <<>> /\ pc[r] = "rcpt"
      /\ reply[r] = "250 OK" => recvr_id[r] # <<>>
  <2>1. reply[r] \in {"250 OK", "550 No such user here"}
    BY <1>1
  <2>2. reply[r] # Nothing
    BY <2>1 DEF Nothing
  <2> QED
    BY <1>3, <1>7, <2>1, <2>2 DEF Asked, Answered, Reading, Idle, Addressed
<1>9. ask'[s] = ask[s] /\ work'[s] = <<>> /\ srv'[s] = srv[s] /\ sender'[s] = sender[s]
      /\ recvr_id'[r] = recvr_id[r] /\ work'[r] = <<>> /\ recvr_id'[s] = recvr_id[s]
      /\ srv'[r] = srv[r] /\ sender'[r] = sender[r]
  BY <1>1, <1>3
<1>10. /\ recvr'[s] = Append(recvr[s], r) => Recvr(s)' = Recvr(s) \cup {r}
       /\ recvr'[s] = recvr[s] => Recvr(s)' = Recvr(s)
       /\ recvr'[s] = Append(recvr[s], r) => recvr'[s] # <<>>
       /\ recvr'[s] = Append(recvr[s], r) =>
            /\ recvr'[s] \in Seq(Relay(s))
            /\ \A n, m \in 1 .. Len(recvr'[s]) : recvr'[s][n] = recvr'[s][m] => n = m
  <2>0. recvr'[s] = recvr[s] => Recvr(s)' = Recvr(s)
    BY DEF Recvr
  <2> PICK S, q, p : S = Relay(s) /\ q = recvr[s] /\ p = Append(q, r)
    OBVIOUS
  <2>1. /\ q \in Seq(S)
        /\ \A n, m \in 1 .. Len(q) : q[n] = q[m] => n = m
        /\ \A n \in 1 .. Len(q) : q[n] # r
    BY <1>2, <1>3 DEF SessionOK, Recvr
  <2>2. /\ p \in Seq(S) /\ Len(q) \in Nat /\ Len(p) = Len(q) + 1 /\ p # <<>>
        /\ \A n \in 1 .. Len(q) : p[n] = q[n]
        /\ p[Len(q) + 1] = r
    <3>1. r \in S
      BY <1>3
    <3> QED
      BY <2>1, <3>1, AppendProperties, LenProperties
  <2>3. \A n \in 1 .. Len(p) : n \in 1 .. Len(q) \/ n = Len(q) + 1
    BY <2>2
  <2>4. \A n, m \in 1 .. Len(p) : p[n] = p[m] => n = m
    BY <2>1, <2>2, <2>3
  <2>5. {p[n] : n \in 1 .. Len(p)} = {q[n] : n \in 1 .. Len(q)} \cup {r}
    BY <2>2, <2>3
  <2>6. recvr'[s] = Append(recvr[s], r) => recvr'[s] = p
    OBVIOUS
  <2>7. recvr'[s] = p => Recvr(s)' = Recvr(s) \cup {r}
    BY <2>5 DEF Recvr
  <2>8. ASSUME recvr'[s] = Append(recvr[s], r)
        PROVE  /\ recvr'[s] # <<>> /\ recvr'[s] \in Seq(Relay(s))
               /\ \A n, m \in 1 .. Len(recvr'[s]) : recvr'[s][n] = recvr'[s][m] => n = m
    <3>1. recvr'[s] = p
      BY <2>6, <2>8
    <3>2. p # <<>> /\ p \in Seq(Relay(s))
      BY <2>2
    <3> QED
      BY <2>4, <3>1, <3>2
  <2>9. recvr'[s] = Append(recvr[s], r) => Recvr(s)' = Recvr(s) \cup {r}
    BY <2>6, <2>7
  <2> QED
    BY <2>0, <2>8, <2>9
<1>11. RelayTalk(s, r)'
  <2>1. CASE pc'[s] = "rcpt" /\ recvr'[s] = Append(recvr[s], r) /\ reply[r] = "250 OK"
    <3>1. Idle(r, {"rcpt"})' /\ Asked(r, "to")' /\ recvr_id'[r] # <<>>
      BY <1>4, <1>8, <1>9, <2>1 DEF Idle, Asked
    <3>2. r \in Recvr(s)' /\ pc'[s] \in Busy
      BY <1>10, <2>1 DEF Busy
    <3>3. "to" \in InMail(s, r)'
      <4>1. Due(s, r)' = {}
        BY <1>9, One DEF Due
      <4>2. Between(s)' = "to"
        BY <2>1 DEF Between
      <4> QED
        BY <4>1, <4>2 DEF InMail, Verbs
    <3>4. AskedOne(r, InMail(s, r))'
      BY <3>1, <3>3 DEF AskedOne
    <3> QED
      BY <1>3, <1>4, <1>9, <2>1, <3>1, <3>2, <3>4 DEF RelayTalk, Conn
  <2>2. CASE pc'[s] = "rcpt" /\ recvr'[s] = recvr[s]
    <3>1. Idle(r, {"closed", "from", "rcpt", "gone"})' /\ pc'[r] = "rcpt"
      BY <1>4, <1>8, <2>2 DEF Idle, Nothing
    <3>2. r \notin Recvr(s)' /\ pc'[s] \notin Conn /\ pc'[s] # "gone"
      BY <1>3, <1>10, <2>2 DEF Conn
    <3> QED
      BY <1>3, <1>4, <1>9, <3>1, <3>2 DEF RelayTalk
  <2>3. CASE pc'[s] = "conn rset"
    <3>1. inbox'[r] = Append(inbox[r], Command("RSET", Nobody))
      BY <1>4, <2>3
    <3>2. Command("RSET", Nobody) \in Writes
      BY DEF Command, Writes
    <3>3. Reading(r, "RSET", {"rcpt"})'
      BY <1>4, <1>8, <3>1, <3>2, Asks
    <3>4. Asked(r, "RSET")' /\ Connecting(s)' = "RSET"
      BY <2>3, <3>3 DEF Asked, Connecting
    <3>5. AskedOne(r, {Connecting(s)})'
      BY <3>4 DEF AskedOne
    <3> QED
      BY <1>3, <1>4, <1>9, <2>3, <3>5 DEF RelayTalk, Conn
  <2> QED
    BY <1>4, <2>1, <2>2, <2>3
<1>12. SessionOK(r)'
  BY <1>3, <1>4, <1>9, SameOK
<1>13. SessionOK(s)'
  <2>1. CASE recvr'[s] = recvr[s]
    <3>1. pc'[s] # "closed" /\ pc[s] # "closed"
      BY <1>1, <1>4
    <3> QED
      BY <1>2, <1>3, <1>9, <2>1, <3>1, StaysOK DEF SessionOK
  <2>2. CASE recvr'[s] = Append(recvr[s], r)
    <3>1. WorkOK(s)'
      BY <1>9, EmptyWork DEF WorkOK
    <3>2. pc[s] # "closed" /\ srv'[s] \in Domain /\ sender'[s] \in Address
      BY <1>1, <1>2, <1>3, <1>9 DEF SessionOK
    <3>3. /\ recvr'[s] \in Seq(Relay(s))'
          /\ recvr'[s] \in Seq(Relay(s) \cup {Of(s[1])})'
          /\ \A n, m \in 1 .. Len(recvr'[s]) : recvr'[s][n] = recvr'[s][m] => n = m
      <4>1. Relay(s)' = Relay(s) /\ Of(s[1])' = Of(s[1])
        BY DEF Relay, Of
      <4>2. \A q : q \in Seq(Relay(s)) => q \in Seq(Relay(s) \cup {Of(s[1])})
        OBVIOUS
      <4> QED
        BY <1>10, <2>2, <4>1, <4>2
    <3> QED
      BY <3>1, <3>2, <3>3 DEF SessionOK
  <2> QED
    BY <1>4, <2>1, <2>2
<1>14. AskOK(s)'
  <2>1. CASE pc'[s] = "rcpt"
    BY <2>1 DEF AskOK, Conn
  <2>2. CASE pc'[s] = "conn rset"
    <3>1. Recvr(s)' = Recvr(s) /\ Relay(s)' = Relay(s)
      BY <1>4, <1>10, <2>2 DEF Relay
    <3> QED
      BY <1>2, <1>3, <1>9, <2>2, <3>1 DEF AskOK
  <2> QED
    BY <1>4, <2>1, <2>2
<1>15. Addressed(s) => Addressed(s)'
  BY <1>4, <1>9, <1>10 DEF Addressed
<1>16. reply'[s] = "250 OK" /\ pc'[s] = "rcpt" => Addressed(s)'
  BY <1>3, <1>4, <1>10 DEF Addressed, Nothing
<1>17. \A v : Asked(s, v) => Asked(s, v)'
  <2> SUFFICES ASSUME NEW v, Asked(s, v) PROVE Asked(s, v)'
    OBVIOUS
  <2>1. v \in {"RCPT TO", "VRFY"} /\ Idle(s, Conn)
    BY <1>3
  <2>2. \/ Idle(s, Conn)'
        \/ Answered(s, {"rcpt"}, {"550 No such user here", "Syntax Error or Failure"})'
        \/ Answered(s, {"rcpt"}, {"250 OK"})' /\ Addressed(s)'
    BY <1>4, <1>10, <2>1 DEF Idle, Answered, Conn, Addressed
  <2> QED
    BY <2>1, <2>2 DEF Asked
<1>18. pc'[s] \in {"rcpt"} \cup Conn /\ ask'[s].relay = r
  BY <1>4, <1>9 DEF Conn
<1>19. Recvr(s)' \in {Recvr(s), Recvr(s) \cup {r}}
  BY <1>4, <1>10
<1> QED
  BY <1>1, <1>2, <1>3, <1>5, <1>6, <1>9, <1>11, <1>12, <1>13, <1>14, <1>15, <1>17, <1>18, <1>19,
     JointCircle

-----------------------------------------------------------------------------
(* A session makes the exchanges of a round.                                 *)

LEMMA FirstRest ==
  ASSUME NEW S, NEW w \in Seq(S), w # <<>>
  PROVE  /\ Len(w) \in Nat /\ 1 \in 1 .. Len(w) /\ Head(w) = w[1] /\ Head(w) \in S
         /\ Tail(w) \in Seq(S) /\ Len(Tail(w)) = Len(w) - 1
         /\ \A n \in 1 .. Len(Tail(w)) : Tail(w)[n] = w[n + 1]
         /\ \A n \in 1 .. Len(w) : w[n] \in S
<1>1. Len(w) \in Nat /\ \A n \in 1 .. Len(w) : w[n] \in S
  BY LenProperties, ElementOfSeq
<1>2. Head(w) \in S /\ Tail(w) \in Seq(S) /\ Len(Tail(w)) = Len(w) - 1
  BY HeadTailProperties
<1>3. \A n \in 1 .. Len(Tail(w)) : Tail(w)[n] = w[n + 1]
  BY HeadTailProperties
<1>4. 1 \in 1 .. Len(w) /\ Head(w) = w[1]
  BY <1>1, EmptySeq, LenProperties
<1> QED
  BY <1>1, <1>2, <1>3, <1>4

\* What is due to its relays once an exchange is begun.
LEMMA WorkAsked ==
  ASSUME NEW s, WorkOK(s), work[s] # <<>>, ~Head(work[s]).asked,
         recvr'[s] = recvr[s], pc'[s] = pc[s],
         work'[s] = <<[Head(work[s]) EXCEPT !.asked = TRUE]>> \o Tail(work[s]),
         NEW r, r = Head(work[s]).relay, NEW verb, verb = Head(work[s]).verb
  PROVE  /\ r \in Recvr(s) /\ verb \in Exchanges(s) /\ InMail(s, r) \subseteq {Before(verb)}
         /\ verb \in Verbs => verb \in InMail(s, r)'
         /\ \A q : q # r => InMail(s, q) \subseteq InMail(s, q)'
         /\ WorkOK(s)'
<1> PICK S, w, u, x, y : /\ S = [relay : Recvr(s), verb : Exchanges(s), asked : BOOLEAN]
                         /\ w = work[s] /\ u = work'[s] /\ x = Head(w)
                         /\ y = [x EXCEPT !.asked = TRUE]
  OBVIOUS
<1>1. /\ w \in Seq(S) /\ w # <<>> /\ ~x.asked /\ u = <<y>> \o Tail(w)
      /\ r = x.relay /\ verb = x.verb
  BY DEF WorkOK
<1>2. /\ Len(w) \in Nat /\ 1 \in 1 .. Len(w) /\ x = w[1] /\ x \in S
      /\ Tail(w) \in Seq(S) /\ Len(Tail(w)) = Len(w) - 1
      /\ \A n \in 1 .. Len(Tail(w)) : Tail(w)[n] = w[n + 1]
      /\ \A n \in 1 .. Len(w) : w[n] \in S
  BY <1>1, FirstRest
<1>3. /\ y \in S /\ y.relay = r /\ y.verb = verb /\ y.asked = TRUE
      /\ r \in Recvr(s) /\ verb \in Exchanges(s)
  BY <1>1, <1>2
<1>4. /\ u \in Seq(S) /\ Len(u) = Len(w) /\ u[1] = y
      /\ \A n \in 2 .. Len(w) : u[n] = w[n]
  <2>1. <<y>> \in Seq(S) /\ Len(<<y>>) = 1 /\ <<y>>[1] = y
    BY <1>3
  <2>2. /\ u \in Seq(S) /\ Len(u) = 1 + Len(Tail(w))
        /\ \A n \in 1 .. Len(u) : u[n] = IF n <= 1 THEN <<y>>[n] ELSE Tail(w)[n - 1]
    BY <1>1, <1>2, <2>1, ConcatProperties
  <2>3. Len(u) = Len(w)
    BY <1>2, <2>2
  <2>4. ASSUME NEW n \in 2 .. Len(w) PROVE u[n] = w[n]
    <3>1. n \in 1 .. Len(u) /\ ~(n <= 1) /\ n - 1 \in 1 .. Len(Tail(w)) /\ (n - 1) + 1 = n
      BY <1>2, <2>3, <2>4
    <3> QED
      BY <1>2, <2>2, <3>1
  <2>5. u[1] = y
    BY <1>2, <2>1, <2>2, <2>3
  <2> QED
    BY <2>2, <2>3, <2>4, <2>5
<1>5. \A n \in 1 .. Len(w) : n = 1 \/ n \in 2 .. Len(w)
  BY <1>2
<1>6. \A n \in 1 .. Len(w) : u[n].relay = w[n].relay /\ u[n].verb = w[n].verb
  BY <1>1, <1>2, <1>3, <1>4, <1>5
<1>7. \A n \in 1 .. Len(w) : n # 1 => u[n].asked = w[n].asked
  BY <1>4, <1>5
<1>8. \A q : Due(s, q)' = Due(s, q)
  BY <1>4, <1>6 DEF Due
<1>9. 1 \in Due(s, r) /\ \A n \in Due(s, r) : 1 <= n
  BY <1>1, <1>2 DEF Due
<1>10. InMail(s, r) \subseteq {Before(verb)}
  <2> SUFFICES ASSUME NEW v \in InMail(s, r) PROVE v = Before(verb)
    OBVIOUS
  <2>1. PICK n \in Due(s, r) :
          /\ \A m \in Due(s, r) : n <= m
          /\ v = IF work[s][n].asked THEN work[s][n].verb ELSE Before(work[s][n].verb)
    BY <1>9 DEF InMail
  <2>2. n = 1
    <3>1. n <= 1 /\ 1 <= n /\ n \in 1 .. Len(w)
      BY <1>9, <2>1 DEF Due
    <3> QED
      BY <1>2, <3>1
  <2> QED
    BY <1>1, <1>2, <2>1, <2>2
<1>11. verb \in Verbs => verb \in InMail(s, r)'
  <2>1. 1 \in Due(s, r)' /\ \A n \in Due(s, r)' : 1 <= n
    BY <1>8, <1>9
  <2>2. verb = (IF work[s][1].asked THEN work[s][1].verb ELSE Before(work[s][1].verb))'
    BY <1>3, <1>4
  <2>3. Verbs' = Verbs
    BY DEF Verbs
  <2> QED
    BY <2>1, <2>2, <2>3 DEF InMail
<1>12. ASSUME NEW q, q # r, NEW v \in InMail(s, q) PROVE v \in InMail(s, q)'
  <2>1. Verbs' = Verbs /\ Between(s)' = Between(s) /\ Due(s, q)' = Due(s, q)
    BY <1>8 DEF Verbs, Between, Conn
  <2>2. \A n \in Due(s, q) : n \in 1 .. Len(w) /\ n # 1
    BY <1>1, <1>2, <1>12 DEF Due
  <2>3. \A n \in Due(s, q) : work'[s][n].asked = work[s][n].asked /\ work'[s][n].verb = work[s][n].verb
    BY <1>6, <1>7, <2>2
  <2>4. \A z : Before(z)' = Before(z)
    BY DEF Before
  <2>5. CASE Due(s, q) = {} /\ v = Between(s)
    BY <1>12, <2>1, <2>5 DEF InMail
  <2>6. CASE \E n \in Due(s, q) :
          /\ \A m \in Due(s, q) : n <= m
          /\ v = IF work[s][n].asked THEN work[s][n].verb ELSE Before(work[s][n].verb)
    <3>1. PICK n \in Due(s, q) :
          /\ \A m \in Due(s, q) : n <= m
          /\ v = IF work[s][n].asked THEN work[s][n].verb ELSE Before(work[s][n].verb)
      BY <2>6
    <3>2. v = (IF work[s][n].asked THEN work[s][n].verb ELSE Before(work[s][n].verb))'
      BY <2>3, <2>4, <3>1
    <3>3. v \in Verbs
      BY <1>12 DEF InMail
    <3> QED
      BY <2>1, <3>1, <3>2, <3>3 DEF InMail
  <2> QED
    BY <1>12, <2>5, <2>6 DEF InMail
<1>13. WorkOK(s)'
  <2>1. S = [relay : Recvr(s)', verb : Exchanges(s)', asked : BOOLEAN]
    BY DEF Recvr, Exchanges
  <2>2. \A n \in 1 .. Len(u) : u[n].asked => n = 1
    <3>1. \A n \in 1 .. Len(w) : w[n].asked => n = 1
      BY DEF WorkOK
    <3> QED
      BY <1>4, <1>7, <3>1
  <2>3. ASSUME NEW n \in 1 .. Len(u), NEW m \in 1 .. Len(u), n < m, u[n].relay = u[m].relay
        PROVE  m = n + 1 /\ u[n].verb = "RSET" /\ u[m].verb = "QUIT"
    <3>0. /\ n \in 1 .. Len(w) /\ u[n].relay = w[n].relay /\ u[n].verb = w[n].verb
          /\ m \in 1 .. Len(w) /\ u[m].relay = w[m].relay /\ u[m].verb = w[m].verb
      BY <1>4, <1>6
    <3>1. \A j, k \in 1 .. Len(w) : j < k /\ w[j].relay = w[k].relay =>
            k = j + 1 /\ w[j].verb = "RSET" /\ w[k].verb = "QUIT"
      BY DEF WorkOK
    <3> QED
      BY <2>3, <3>0, <3>1
  <2>4. ASSUME NEW n \in 1 .. Len(u), u[n].verb = "RSET"
        PROVE  n < Len(u) /\ u[n + 1].relay = u[n].relay
    <3>0. n \in 1 .. Len(w) /\ u[n].relay = w[n].relay /\ w[n].verb = "RSET"
      BY <1>4, <1>6, <2>4
    <3>1. \A k \in 1 .. Len(w) : w[k].verb = "RSET" => k < Len(w) /\ w[k + 1].relay = w[k].relay
      BY DEF WorkOK
    <3>2. n < Len(w) /\ w[n + 1].relay = w[n].relay
      BY <3>0, <3>1
    <3>3. n + 1 \in 1 .. Len(w)
      BY <1>2, <3>2
    <3> QED
      BY <1>4, <1>6, <3>0, <3>2, <3>3
  <2> QED
    BY <1>4, <2>1, <2>2, <2>3, <2>4 DEF WorkOK
<1> QED
  BY <1>3, <1>10, <1>11, <1>12, <1>13

\* What is due to its relays once an exchange is over.
LEMMA WorkDone ==
  ASSUME NEW s, WorkOK(s), work[s] # <<>>, Head(work[s]).asked,
         recvr'[s] = recvr[s], pc'[s] = pc[s], work'[s] = Tail(work[s]),
         NEW r, r = Head(work[s]).relay, NEW verb, verb = Head(work[s]).verb
  PROVE  /\ r \in Recvr(s) /\ verb \in Exchanges(s) /\ InMail(s, r) \subseteq {verb}
         /\ verb = "RSET" => "mailed" \in InMail(s, r)'
         /\ verb # "RSET" /\ Between(s) \in Verbs => Between(s) \in InMail(s, r)'
         /\ \A q : q # r => InMail(s, q) \subseteq InMail(s, q)'
         /\ WorkOK(s)'
<1> PICK S, w, u, x : /\ S = [relay : Recvr(s), verb : Exchanges(s), asked : BOOLEAN]
                      /\ w = work[s] /\ u = work'[s] /\ x = Head(w)
  OBVIOUS
<1>1. /\ w \in Seq(S) /\ w # <<>> /\ x.asked /\ u = Tail(w)
      /\ r = x.relay /\ verb = x.verb
  BY DEF WorkOK
<1>2. /\ Len(w) \in Nat /\ 1 \in 1 .. Len(w) /\ x = w[1] /\ x \in S
      /\ u \in Seq(S) /\ Len(u) = Len(w) - 1
      /\ \A n \in 1 .. Len(u) : u[n] = w[n + 1]
      /\ \A n \in 1 .. Len(w) : w[n] \in S
  <2>1. /\ Len(w) \in Nat /\ 1 \in 1 .. Len(w) /\ x = w[1] /\ x \in S
        /\ Tail(w) \in Seq(S) /\ Len(Tail(w)) = Len(w) - 1
        /\ \A n \in 1 .. Len(Tail(w)) : Tail(w)[n] = w[n + 1]
        /\ \A n \in 1 .. Len(w) : w[n] \in S
    BY <1>1, FirstRest
  <2> QED
    BY <1>1, <2>1
<1>3. r \in Recvr(s) /\ verb \in Exchanges(s)
  BY <1>1, <1>2
<1>4. /\ \A n \in 1 .. Len(u) : n + 1 \in 1 .. Len(w) /\ n + 1 # 1
      /\ \A n \in 1 .. Len(w) : n = 1 \/ (n - 1 \in 1 .. Len(u) /\ (n - 1) + 1 = n)
  BY <1>2
<1>5. \A q, n : n \in Due(s, q)' <=> n \in 1 .. Len(u) /\ n + 1 \in Due(s, q)
  BY <1>2, <1>4 DEF Due
<1>6. 1 \in Due(s, r) /\ \A n \in Due(s, r) : 1 <= n
  BY <1>1, <1>2 DEF Due
<1>7. InMail(s, r) \subseteq {verb}
  <2> SUFFICES ASSUME NEW v \in InMail(s, r) PROVE v = verb
    OBVIOUS
  <2>1. PICK n \in Due(s, r) :
          /\ \A m \in Due(s, r) : n <= m
          /\ v = IF work[s][n].asked THEN work[s][n].verb ELSE Before(work[s][n].verb)
    BY <1>6 DEF InMail
  <2>2. n = 1
    <3>1. n <= 1 /\ 1 <= n /\ n \in 1 .. Len(w)
      BY <1>6, <2>1 DEF Due
    <3> QED
      BY <1>2, <3>1
  <2> QED
    BY <1>1, <1>2, <2>1, <2>2
<1>8. /\ \A n \in 1 .. Len(w) : w[n].asked => n = 1
      /\ \A n, m \in 1 .. Len(w) : n < m /\ w[n].relay = w[m].relay =>
           m = n + 1 /\ w[n].verb = "RSET" /\ w[m].verb = "QUIT"
      /\ \A n \in 1 .. Len(w) : w[n].verb = "RSET" => n < Len(w) /\ w[n + 1].relay = w[n].relay
  BY DEF WorkOK
<1>9. /\ Verbs' = Verbs /\ Between(s)' = Between(s)
      /\ \A z : Before(z)' = Before(z)
  BY DEF Verbs, Between, Conn, Before
<1>10. verb = "RSET" => "mailed" \in InMail(s, r)'
  <2> SUFFICES ASSUME verb = "RSET" PROVE "mailed" \in InMail(s, r)'
    OBVIOUS
  <2>1. 2 \in 1 .. Len(w) /\ w[2].relay = r /\ w[2].verb = "QUIT"
    BY <1>1, <1>2, <1>8
  <2>2. ~w[2].asked
    BY <1>8, <2>1
  <2>3. 1 \in 1 .. Len(u) /\ u[1] = w[2]
    BY <1>2, <2>1
  <2>4. 1 \in Due(s, r)' /\ \A n \in Due(s, r)' : 1 <= n
    BY <2>1, <2>3 DEF Due
  <2>5. "mailed" = (IF work[s][1].asked THEN work[s][1].verb ELSE Before(work[s][1].verb))'
    BY <2>1, <2>2, <2>3 DEF Before
  <2> QED
    BY <2>4, <2>5 DEF InMail, Verbs
<1>11. verb # "RSET" /\ Between(s) \in Verbs => Between(s) \in InMail(s, r)'
  <2> SUFFICES ASSUME verb # "RSET", Between(s) \in Verbs PROVE Between(s) \in InMail(s, r)'
    OBVIOUS
  <2>1. Due(s, r)' = {}
    <3> SUFFICES ASSUME NEW n \in Due(s, r)' PROVE FALSE
      OBVIOUS
    <3>1. n \in 1 .. Len(u) /\ n + 1 \in 1 .. Len(w) /\ w[n + 1].relay = r
      BY <1>4, <1>5 DEF Due
    <3>2. 1 < n + 1
      BY <1>2, <3>1
    <3> QED
      BY <1>1, <1>2, <1>8, <3>1, <3>2
  <2> QED
    BY <1>9, <2>1 DEF InMail
<1>12. ASSUME NEW q, q # r, NEW v \in InMail(s, q) PROVE v \in InMail(s, q)'
  <2>1. \A n \in Due(s, q) : n \in 1 .. Len(w) /\ n # 1
    BY <1>1, <1>2, <1>12 DEF Due
  <2>2. v \in Verbs
    BY <1>12 DEF InMail
  <2>3. CASE Due(s, q) = {} /\ v = Between(s)
    <3>1. Due(s, q)' = {}
      BY <1>5, <2>3
    <3> QED
      BY <1>9, <2>2, <2>3, <3>1 DEF InMail
  <2>4. CASE \E n \in Due(s, q) :
          /\ \A m \in Due(s, q) : n <= m
          /\ v = IF work[s][n].asked THEN work[s][n].verb ELSE Before(work[s][n].verb)
    <3>1. PICK n \in Due(s, q) :
          /\ \A m \in Due(s, q) : n <= m
          /\ v = IF work[s][n].asked THEN work[s][n].verb ELSE Before(work[s][n].verb)
      BY <2>4
    <3> PICK k : k = n - 1
      OBVIOUS
    <3>2. k \in 1 .. Len(u) /\ k + 1 = n /\ u[k] = w[n] /\ n \in Int
      BY <1>2, <1>4, <2>1
    <3>3. k \in Due(s, q)'
      BY <1>5, <3>2
    <3>4. ASSUME NEW m \in Due(s, q)' PROVE k <= m
      <4>1. m \in 1 .. Len(u) /\ n <= m + 1
        BY <1>5, <3>1
      <4> QED
        BY <1>2, <3>2, <4>1
    <3>5. v = (IF work[s][k].asked THEN work[s][k].verb ELSE Before(work[s][k].verb))'
      BY <1>9, <3>1, <3>2
    <3> QED
      BY <1>9, <2>2, <3>3, <3>4, <3>5 DEF InMail
  <2> QED
    BY <1>12, <2>3, <2>4 DEF InMail
<1>13. WorkOK(s)'
  <2>1. S = [relay : Recvr(s)', verb : Exchanges(s)', asked : BOOLEAN]
    BY DEF Recvr, Exchanges
  <2>2. \A n \in 1 .. Len(u) : u[n].asked => n = 1
    BY <1>2, <1>4, <1>8
  <2>3. ASSUME NEW n \in 1 .. Len(u), NEW m \in 1 .. Len(u), n < m, u[n].relay = u[m].relay
        PROVE  m = n + 1 /\ u[n].verb = "RSET" /\ u[m].verb = "QUIT"
    <3>1. n + 1 < m + 1 /\ n + 1 \in 1 .. Len(w) /\ m + 1 \in 1 .. Len(w)
      BY <1>2, <1>4, <2>3
    <3>2. m + 1 = (n + 1) + 1 /\ w[n + 1].verb = "RSET" /\ w[m + 1].verb = "QUIT"
      BY <1>2, <1>8, <2>3, <3>1
    <3> QED
      BY <1>2, <3>2
  <2>4. ASSUME NEW n \in 1 .. Len(u), u[n].verb = "RSET"
        PROVE  n < Len(u) /\ u[n + 1].relay = u[n].relay
    <3>1. n + 1 \in 1 .. Len(w) /\ w[n + 1].verb = "RSET"
      BY <1>2, <1>4, <2>4
    <3>2. n + 1 < Len(w) /\ w[(n + 1) + 1].relay = w[n + 1].relay
      BY <1>8, <3>1
    <3>3. n < Len(u) /\ n + 1 \in 1 .. Len(u)
      BY <1>2, <3>2
    <3> QED
      BY <1>2, <3>2, <3>3
  <2> QED
    BY <1>2, <2>1, <2>2, <2>3, <2>4 DEF WorkOK
<1> QED
  BY <1>3, <1>7, <1>10, <1>11, <1>12, <1>13

\* A round goes on with relay r.
LEMMA RoundCircle ==
  ASSUME Dialogs, NEW c \in Client, NEW s, s = Of(c), NEW r \in Relay(s),
         pc[s] \in {"start", "dot", "quit", "rset"}, r \in Recvr(s),
         UNCHANGED <<clients, srv, pc, sender, recvr, recvr_id, ask>>,
         \A q \in Session \ {r} : inbox'[q] = inbox[q] /\ reply'[q] = reply[q],
         \A q \in Session \ {s} : work'[q] = work[q],
         DialogTypes', WorkOK(s)', \A q : q # r => InMail(s, q) \subseteq InMail(s, q)',
         NEW verb, Asked(r, verb)', verb \in InMail(s, r)'
  PROVE  Joint(c, r)
<1>0. /\ s \in Session /\ s[1] = c /\ r \in Session /\ r # s
      /\ \A q \in Relay(s) : q \in Session /\ q # s /\ q[1] = c
  BY Parties
<1>1. /\ ClientTalk(c) /\ SessionOK(s) /\ AskOK(s)
      /\ \A q \in Relay(s) : RelayTalk(s, q)
      /\ \A q \in Session : q[1] = c => SessionOK(q)
  BY <1>0 DEF Dialogs, Circle
<1>2. pc[s] \in Busy \ Conn /\ pc[s] # "gone" /\ pc'[s] = pc[s] /\ Recvr(s)' = Recvr(s)
  <2>1. recvr' = recvr
    OBVIOUS
  <2>2. Recvr(s)' = Recvr(s)
    BY <2>1 DEF Recvr
  <2> QED
    BY <2>2 DEF Busy, Conn
<1>3. \A q \in Session \ {s, r} : Same(q)
  BY DEF Same
<1>4. ClientTalk(c)'
  <2>1. \A v : Asked(s, v) => Asked(s, v)'
    BY <1>0, AskedSame
  <2>2. Addressed(s) => Addressed(s)'
    BY DEF Addressed
  <2> QED
    BY <1>1, <1>2, <2>1, <2>2, ClientStays
<1>5. \A q \in Relay(s) : RelayTalk(s, q)'
  <2> SUFFICES ASSUME NEW q \in Relay(s) PROVE RelayTalk(s, q)'
    OBVIOUS
  <2>1. RelayTalk(s, q) /\ q \in Session /\ q # s
    BY <1>0, <1>1
  <2>2. /\ recvr'[q] = <<>> /\ work'[q] = <<>> /\ pc'[q] \notin Conn
        /\ pc'[s] \in Busy \ Conn /\ pc'[s] # "gone"
    BY <1>2, <2>1 DEF RelayTalk
  <2>3. CASE q \in Recvr(s)
    <3>1. AskedOne(q, InMail(s, q)) /\ recvr_id[q] # <<>>
      BY <1>2, <2>1, <2>3 DEF RelayTalk
    <3>2. AskedOne(q, InMail(s, q))'
      <4>1. CASE q = r
        BY <4>1 DEF AskedOne
      <4>2. CASE q # r
        <5>1. PICK v \in InMail(s, q) : Asked(q, v)
          BY <3>1 DEF AskedOne
        <5>2. Asked(q, v)'
          BY <1>3, <2>1, <4>2, <5>1, RelaySame
        <5> QED
          BY <4>2, <5>1, <5>2 DEF AskedOne
      <4> QED
        BY <4>1, <4>2
    <3> QED
      BY <1>2, <2>2, <2>3, <3>1, <3>2 DEF RelayTalk
  <2>4. CASE q \notin Recvr(s)
    <3>1. Waiting(q) /\ q # r
      BY <1>2, <2>1, <2>4, TalkWaiting
    <3>2. Waiting(q)'
      BY <1>3, <2>1, <3>1, RelaySame
    <3> QED
      BY <1>2, <2>2, <2>4, <3>2 DEF RelayTalk, Waiting
  <2> QED
    BY <2>3, <2>4
<1>6. AskOK(s)'
  BY <1>2 DEF AskOK
<1>7. \A q \in Session : q[1] = c => SessionOK(q)'
  <2> SUFFICES ASSUME NEW q \in Session, q[1] = c PROVE SessionOK(q)'
    OBVIOUS
  <2>1. SessionOK(q)
    BY <1>1
  <2>2. CASE q # s
    <3>1. /\ pc'[q] = pc[q] /\ work'[q] = work[q] /\ recvr'[q] = recvr[q]
          /\ srv'[q] = srv[q] /\ sender'[q] = sender[q]
      BY <2>2
    <3> QED
      BY <2>1, <3>1, SameOK
  <2>3. CASE q = s
    <3>1. /\ pc'[s] = pc[s] /\ recvr'[s] = recvr[s] /\ srv'[s] = srv[s] /\ sender'[s] = sender[s]
          /\ Relay(s)' = Relay(s) /\ Of(s[1])' = Of(s[1]) /\ Busy' = Busy
      BY DEF Relay, Of, Busy, Conn
    <3>2. WorkOK(s)'
      OBVIOUS
    <3> QED
      BY <2>1, <2>3, <3>1, <3>2 DEF SessionOK
  <2> QED
    BY <2>2, <2>3
<1>8. Circle(c)'
  BY <1>4, <1>5, <1>6, <1>7, WholeCircle
<1> QED
  BY <1>3, <1>8 DEF Joint

\* What a relay waits for once it is asked, and has answered.
LEMMA Begun ==
  ASSUME NEW r, NEW verb \in {"DATA", ".", "QUIT", "RSET"}, Asked(r, Before(verb)),
         Addressed(r) \/ verb # "DATA", pc'[r] = pc[r], reply'[r] = reply[r],
         recvr'[r] = recvr[r], recvr_id'[r] = recvr_id[r],
         inbox'[r] = Append(inbox[r], IF verb = "." THEN Text(<<Dot>>) ELSE Command(verb, Nobody))
  PROVE  Asked(r, verb)'
<1>1. CASE verb = "."
  <2>1. Asked(r, "body")
    BY <1>1 DEF Before
  <2>2. Taking(r) /\ inbox[r] \in Seq(Undotted)
    BY <2>1 DEF Asked
  <2> PICK w : w = Text(<<Dot>>)
    OBVIOUS
  <2>3. w \in Lines
    <3>1. <<Dot>> \in Seq((Client \X (1 .. MaxLines)) \cup {Dot}) /\ <<Dot>> # <<>>
      OBVIOUS
    <3>2. PICK arg : arg = <<Dot>>
      OBVIOUS
    <3>3. w.verb = "text" /\ w.arg = arg /\ w = [verb |-> "text", arg |-> arg]
      BY <3>2 DEF Text
    <3> QED
      BY <3>1, <3>2, <3>3 DEF Lines, Says, Writes
  <2>4. /\ inbox'[r] = Append(inbox[r], w) /\ inbox[r] \in Seq(Lines)
        /\ pc'[r] \in {"start", "data"} /\ reply'[r] = Nothing
    BY <1>1, <2>2 DEF Taking
  <2>5. /\ inbox'[r] \in Seq(Lines) /\ Len(inbox'[r]) = Len(inbox[r]) + 1 /\ Len(inbox[r]) \in Nat
        /\ \A n \in 1 .. Len(inbox[r]) : inbox'[r][n] = inbox[r][n]
    BY <2>3, <2>4, AppendProperties, LenProperties
  <2>6. \A n \in 1 .. Len(inbox'[r]) : n < Len(inbox'[r]) => inbox'[r][n].arg # <<Dot>>
    <3>1. \A n \in 1 .. Len(inbox[r]) : inbox[r][n].arg # <<Dot>>
      BY <2>2, ElementOfSeq DEF Undotted
    <3> QED
      BY <2>5, <3>1
  <2>7. Seq(Lines)' = Seq(Lines)
    BY DEF Lines, Says, Writes
  <2>8. Taking(r)'
    BY <2>4, <2>5, <2>6, <2>7 DEF Taking
  <2> QED
    BY <1>1, <2>8 DEF Asked
<1>2. CASE verb # "."
  <2>1. inbox'[r] = Append(inbox[r], Command(verb, Nobody))
    BY <1>2
  <2>2. Command(verb, Nobody) \in Writes
    BY <1>2 DEF Command, Writes
  <2>3. /\ inbox[r] = <<>> /\ reply[r] = Nothing
        /\ pc[r] \in IF verb = "QUIT" THEN {"quit", "from"} ELSE {"rcpt"}
    BY <1>2 DEF Before, Asked, Idle
  <2>4. Reading(r, verb, IF verb = "QUIT" THEN {"quit", "from"} ELSE {"rcpt"})'
    <3> PICK places : places = IF verb = "QUIT" THEN {"quit", "from"} ELSE {"rcpt"}
      OBVIOUS
    <3>1. pc'[r] \in places /\ reply'[r] = Nothing
      BY <2>3
    <3>2. Reading(r, verb, places)'
      BY <2>1, <2>2, <2>3, <3>1, Asks
    <3> QED
      BY <3>2
  <2> QED
    BY <1>2, <2>4 DEF Asked, Addressed, Reading
<1> QED
  BY <1>1, <1>2

After(verb) == CASE verb = "DATA" -> "body" [] verb \in {".", "RSET"} -> "mailed" [] verb = "QUIT" -> "over"

LEMMA Over ==
  ASSUME NEW r, NEW verb \in {"DATA", ".", "QUIT", "RSET"}, Asked(r, verb), reply[r] # Nothing,
         pc'[r] = pc[r], reply'[r] = Nothing, inbox'[r] = inbox[r]
  PROVE  Asked(r, After(verb))'
<1>1. CASE verb = "DATA"
  <2>1. pc[r] \in {"start", "data"} /\ inbox[r] = <<>>
    BY <1>1 DEF Asked, Reading, Answered
  <2>2. Taking(r)' /\ (inbox[r] \in Seq(Undotted))'
    BY <2>1 DEF Taking
  <2> QED
    BY <1>1, <2>2 DEF Asked, After
<1>2. CASE verb = "."
  <2>1. pc[r] \in {"quit", "from"} /\ inbox[r] = <<>>
    BY <1>2 DEF Asked, Taking, Idle, Answered
  <2> QED
    BY <1>2, <2>1 DEF Asked, After, Idle
<1>3. CASE verb = "RSET"
  <2>1. pc[r] = "from" /\ inbox[r] = <<>>
    BY <1>3 DEF Asked, Reading, Idle, Answered
  <2> QED
    BY <1>3, <2>1 DEF Asked, After, Idle
<1>4. CASE verb = "QUIT"
  <2>1. pc[r] \in {"from", "gone"} /\ inbox[r] = <<>>
    BY <1>4 DEF Asked, Reading, Answered
  <2> QED
    BY <1>4, <2>1 DEF Asked, After, Idle
<1> QED
  BY <1>1, <1>2, <1>3, <1>4

LEMMA Round ==
  ASSUME Dialogs, NEW c \in Client, NEW s, s = Of(c), work[s] # <<>>,
         NEW r, r = Head(work[s]).relay, r \in Recvr(s),
         NEW verb, verb = Head(work[s]).verb, verb \in Exchanges(s)
  PROVE  /\ s \in Session /\ r \in Relay(s) /\ r \in Session /\ r # s
         /\ pc[s] \in {"start", "dot", "quit", "rset"}
         /\ DialogTypes /\ SessionOK(s) /\ WorkOK(s)
         /\ verb \in {"DATA", ".", "QUIT", "RSET"} /\ verb \in Verbs
         /\ verb # "RSET" => After(verb) = Between(s) /\ Between(s) \in Verbs
         /\ AskedOne(r, InMail(s, r)) /\ recvr_id[r] # <<>> /\ work[r] = <<>>
<1>0. /\ s \in Session /\ s[1] = c
      /\ \A q \in Relay(s) : q \in Session /\ q # s /\ q[1] = c
  BY Parties
<1>1. /\ SessionOK(s) /\ DialogTypes
      /\ \A q \in Relay(s) : RelayTalk(s, q)
  BY <1>0 DEF Dialogs, Circle
<1>2. pc[s] \in {"start", "dot", "quit", "rset"} /\ verb \in {"DATA", ".", "QUIT", "RSET"}
  BY DEF Exchanges
<1>3. verb # "RSET" => After(verb) = Between(s)
  BY <1>2 DEF Exchanges, After, Between, Conn
<1>4. r \in Relay(s)
  <2>1. recvr[s] \in Seq(Relay(s))
    BY <1>1, <1>2 DEF SessionOK, Busy
  <2> QED
    BY <2>1, ElementOfSeq DEF Recvr
<1>5. RelayTalk(s, r)
  BY <1>1, <1>4
<1>6. AskedOne(r, InMail(s, r)) /\ recvr_id[r] # <<>> /\ work[r] = <<>>
  BY <1>2, <1>5 DEF RelayTalk, Busy, Conn
<1>7. verb \in Verbs /\ (verb # "RSET" => After(verb) \in Verbs)
  BY <1>2 DEF Verbs, After
<1> QED
  BY <1>0, <1>1, <1>2, <1>3, <1>4, <1>6, <1>7 DEF SessionOK

LEMMA MainAsk ==
  ASSUME Dialogs, NEW c \in Client, RelayAsk(Of(c))
  PROVE  \E r \in Relay(Of(c)) : Joint(c, r)
<1> PICK s, x, r, verb : s = Of(c) /\ x = Head(work[s]) /\ r = x.relay /\ verb = x.verb
  OBVIOUS
<1>1. /\ work[s] # <<>> /\ ~Head(work[s]).asked /\ ~x.asked
      /\ inbox' = [inbox EXCEPT ![r] =
           Append(@, IF verb = "." THEN Text(<<Dot>>) ELSE Command(verb, Nobody))]
      /\ work' = [work EXCEPT ![s] = <<[Head(work[s]) EXCEPT !.asked = TRUE]>> \o Tail(work[s])]
      /\ UNCHANGED <<tables, clients, srv, pc, reply, sender, recvr, recvr_id, ask>>
  BY DEF RelayAsk
<1>2. s \in Session /\ DialogTypes /\ WorkOK(s)
  BY Parties DEF Dialogs, Circle, SessionOK
<1>3. /\ work'[s] = <<[Head(work[s]) EXCEPT !.asked = TRUE]>> \o Tail(work[s])
      /\ recvr'[s] = recvr[s] /\ pc'[s] = pc[s]
  BY <1>1, <1>2 DEF DialogTypes
<1>4. /\ r \in Recvr(s) /\ verb \in Exchanges(s) /\ InMail(s, r) \subseteq {Before(verb)}
      /\ verb \in Verbs => verb \in InMail(s, r)'
      /\ \A q : q # r => InMail(s, q) \subseteq InMail(s, q)'
      /\ WorkOK(s)'
  BY <1>1, <1>2, <1>3, WorkAsked
<1>5. /\ r \in Relay(s) /\ r \in Session /\ r # s
      /\ pc[s] \in {"start", "dot", "quit", "rset"}
      /\ verb \in {"DATA", ".", "QUIT", "RSET"} /\ verb \in Verbs
      /\ AskedOne(r, InMail(s, r)) /\ recvr_id[r] # <<>>
  BY <1>1, <1>4, Round
<1>6. Asked(r, Before(verb))
  BY <1>4, <1>5 DEF AskedOne
<1>7. /\ inbox'[r] = Append(inbox[r], IF verb = "." THEN Text(<<Dot>>) ELSE Command(verb, Nobody))
      /\ pc'[r] = pc[r] /\ reply'[r] = reply[r]
      /\ recvr'[r] = recvr[r] /\ recvr_id'[r] = recvr_id[r]
  BY <1>1, <1>2, <1>5 DEF DialogTypes
<1>8. Asked(r, verb)'
  BY <1>5, <1>6, <1>7, Begun DEF Addressed
<1>9. DialogTypes'
  BY <1>1, <1>2 DEF DialogTypes, clients
<1>10. /\ \A q \in Session \ {r} : inbox'[q] = inbox[q] /\ reply'[q] = reply[q]
       /\ \A q \in Session \ {s} : work'[q] = work[q]
       /\ UNCHANGED <<clients, srv, pc, sender, recvr, recvr_id, ask>>
  BY <1>1, <1>2 DEF DialogTypes
<1>11. Joint(c, r)
  BY <1>4, <1>5, <1>8, <1>9, <1>10, RoundCircle
<1> QED
  BY <1>5, <1>11

LEMMA MainAnswered ==
  ASSUME Dialogs, NEW c \in Client, RelayAnswered(Of(c))
  PROVE  \E r \in Relay(Of(c)) : Joint(c, r)
<1> PICK s, x, r, verb : s = Of(c) /\ x = Head(work[s]) /\ r = x.relay /\ verb = x.verb
  OBVIOUS
<1>1. /\ work[s] # <<>> /\ Head(work[s]).asked /\ reply[r] # Nothing
      /\ reply' = [reply EXCEPT ![r] = Nothing]
      /\ work' = [work EXCEPT ![s] = Tail(work[s])]
      /\ UNCHANGED <<tables, clients, srv, pc, inbox, sender, recvr, recvr_id, ask>>
  BY DEF RelayAnswered
<1>2. s \in Session /\ DialogTypes /\ WorkOK(s)
  BY Parties DEF Dialogs, Circle, SessionOK
<1>3. work'[s] = Tail(work[s]) /\ recvr'[s] = recvr[s] /\ pc'[s] = pc[s]
  BY <1>1, <1>2 DEF DialogTypes
<1>4. /\ r \in Recvr(s) /\ verb \in Exchanges(s) /\ InMail(s, r) \subseteq {verb}
      /\ verb = "RSET" => "mailed" \in InMail(s, r)'
      /\ verb # "RSET" /\ Between(s) \in Verbs => Between(s) \in InMail(s, r)'
      /\ \A q : q # r => InMail(s, q) \subseteq InMail(s, q)'
      /\ WorkOK(s)'
  BY <1>1, <1>2, <1>3, WorkDone
<1>5. /\ r \in Relay(s) /\ r \in Session /\ r # s
      /\ pc[s] \in {"start", "dot", "quit", "rset"}
      /\ verb \in {"DATA", ".", "QUIT", "RSET"}
      /\ verb # "RSET" => After(verb) = Between(s) /\ Between(s) \in Verbs
      /\ AskedOne(r, InMail(s, r))
  BY <1>1, <1>4, Round
<1>6. Asked(r, verb)
  BY <1>4, <1>5 DEF AskedOne
<1>7. reply'[r] = Nothing /\ pc'[r] = pc[r] /\ inbox'[r] = inbox[r]
  BY <1>1, <1>2, <1>5 DEF DialogTypes
<1> PICK next : next = After(verb)
  OBVIOUS
<1>8. Asked(r, next)'
  <2>1. Asked(r, After(verb))'
    BY <1>1, <1>5, <1>6, <1>7, Over
  <2>2. After(verb)' = After(verb)
    BY DEF After
  <2> QED
    BY <2>1
<1>9. next \in InMail(s, r)'
  <2>1. CASE verb = "RSET"
    BY <1>4, <2>1 DEF After
  <2>2. CASE verb # "RSET"
    BY <1>4, <1>5, <2>2
  <2> QED
    BY <2>1, <2>2
<1>10. DialogTypes'
  BY <1>1, <1>2 DEF DialogTypes, clients
<1>11. /\ \A q \in Session \ {r} : inbox'[q] = inbox[q] /\ reply'[q] = reply[q]
       /\ \A q \in Session \ {s} : work'[q] = work[q]
       /\ UNCHANGED <<clients, srv, pc, sender, recvr, recvr_id, ask>>
  BY <1>1, <1>2 DEF DialogTypes
<1>12. Joint(c, r)
  BY <1>4, <1>5, <1>8, <1>9, <1>10, <1>11, RoundCircle
<1> QED
  BY <1>5, <1>12

-----------------------------------------------------------------------------
(* The client.                                                               *)

LEMMA Counted ==
  ASSUME NEW S, NEW n \in S, NEW f \in [S -> Nat], NEW g, g = [f EXCEPT ![n] = @ + 1]
  PROVE  g \in [S -> Nat]
<1>1. f[n] \in Nat /\ f[n] + 1 \in Nat
  OBVIOUS
<1> QED
  BY <1>1

\* A step of client c leaves its session and the others where they are.
Acts(c) ==
  /\ UNCHANGED <<srv, pc, sender, recvr, recvr_id, ask, work>>
  /\ \A q \in Session \ {Of(c)} : inbox'[q] = inbox[q] /\ reply'[q] = reply[q]
  /\ \A d \in Client \ {c} : user'[d] = user[d] /\ ok'[d] = ok[d]
  /\ DialogTypes'

LEMMA ActsKept ==
  ASSUME Dialogs, NEW c \in Client, Acts(c), ClientTalk(c)'
  PROVE  Dialogs'
<1> PICK s : s = Of(c)
  OBVIOUS
<1>0. /\ s \in Session /\ s[1] = c
      /\ \A q \in Relay(s) : q \in Session /\ q # s /\ q[1] = c
  BY Parties
<1>1. /\ AskOK(s)
      /\ \A q \in Relay(s) : RelayTalk(s, q)
      /\ \A q \in Session : q[1] = c => SessionOK(q)
  BY <1>0 DEF Dialogs, Circle
<1>2. \A q \in Session \ {s} : Same(q)
  BY DEF Same, Acts
<1>3. /\ pc'[s] = pc[s] /\ recvr'[s] = recvr[s] /\ ask'[s] = ask[s] /\ work'[s] = work[s]
      /\ srv'[ask[s].relay] = srv[ask[s].relay]
  BY DEF Acts
<1>4. \A q \in Relay(s) : RelayTalk(s, q)'
  BY <1>0, <1>1, <1>2, <1>3, TalkSame
<1>5. AskOK(s)'
  <2>1. pc[s] = "conn to" => ask[s].relay \in Session \ {s}
    BY <1>0, <1>1 DEF AskOK, Conn
  <2>2. pc[s] = "conn to" => inbox'[ask[s].relay] = inbox[ask[s].relay]
    BY <2>1 DEF Acts
  <2> QED
    BY <1>0, <1>1, <1>3, <2>2, AskSame
<1>6. \A q \in Session : q[1] = c => SessionOK(q)'
  <2> SUFFICES ASSUME NEW q \in Session, q[1] = c PROVE SessionOK(q)'
    OBVIOUS
  <2>1. /\ pc'[q] = pc[q] /\ work'[q] = work[q] /\ recvr'[q] = recvr[q]
        /\ srv'[q] = srv[q] /\ sender'[q] = sender[q]
    BY DEF Acts
  <2> QED
    BY <1>1, <2>1, SameOK
<1>7. Circle(c)'
  BY <1>4, <1>5, <1>6, WholeCircle
<1>8. \A q \in Session : q[1] # c => Same(q)
  BY <1>0, <1>2
<1> QED
  BY <1>7, <1>8, OneCircle DEF Acts

LEMMA ActsTyped ==
  ASSUME DialogTypes, NEW c \in Client,
         UNCHANGED <<srv, pc, sender, recvr, recvr_id, ask, work>>,
         DOMAIN inbox' = Session, DOMAIN reply' = Session, DOMAIN user' = Client, DOMAIN ok' = Client,
         \A q \in Session \ {Of(c)} : inbox'[q] = inbox[q] /\ reply'[q] = reply[q],
         \A d \in Client \ {c} : user'[d] = user[d] /\ ok'[d] = ok[d] /\ to'[d] = to[d],
         to' \in [Client -> Address \cup {Nobody}], asks' \in [Client -> Nat],
         typed' \in [Client -> 0 .. MaxLines],
         user'[c] \in {"hello", "HELO"} => user[c] = "hello" /\ to'[c] = to[c]
  PROVE  Acts(c)
<1>1. ASSUME NEW d \in Client, user'[d] \in {"hello", "HELO"} PROVE to'[d] \in Address
  <2>1. user[d] \in {"hello", "HELO"} /\ to'[d] = to[d]
    BY <1>1
  <2> QED
    BY <2>1 DEF DialogTypes
<1>2. DialogTypes'
  BY <1>1 DEF DialogTypes
<1> QED
  BY <1>2 DEF Acts

\* Client c is then at next.
Steps(c, next) ==
  /\ UNCHANGED <<srv, pc, sender, recvr, recvr_id, ask, work>>
  /\ DOMAIN inbox' = DOMAIN inbox /\ \A q \in Session \ {Of(c)} : inbox'[q] = inbox[q]
  /\ reply' \in {reply, [reply EXCEPT ![Of(c)] = Nothing]}
  /\ user' = [user EXCEPT ![c] = next]
  /\ DOMAIN ok' = DOMAIN ok /\ \A d \in Client \ {c} : ok'[d] = ok[d]
  /\ \/ to' = to
     \/ /\ next # "HELO" /\ to' \in [Client -> Address \cup {Nobody}]
        /\ \A d \in Client \ {c} : to'[d] = to[d]
  /\ asks' \in {asks, [asks EXCEPT ![c] = @ + 1]}
  /\ \/ typed' = typed
     \/ typed[c] < MaxLines /\ typed' = [typed EXCEPT ![c] = @ + 1]
  /\ next # "hello" /\ (next = "HELO" => user[c] = "hello")

LEMMA StepsAct ==
  ASSUME DialogTypes, NEW c \in Client, NEW next, Steps(c, next)
  PROVE  Acts(c) /\ user'[c] = next
<1>1. asks' \in [Client -> Nat]
  <2>1. asks \in [Client -> Nat]
    BY DEF DialogTypes
  <2>2. asks' = asks \/ asks' = [asks EXCEPT ![c] = @ + 1]
    BY DEF Steps
  <2> QED
    BY <2>1, <2>2, Counted
<1>2. typed' \in [Client -> 0 .. MaxLines]
  <2>1. MaxLines \in Nat /\ typed \in [Client -> 0 .. MaxLines]
    BY SmtpConstants DEF DialogTypes
  <2>2. typed[c] \in 0 .. MaxLines
    BY <2>1
  <2>3. typed[c] < MaxLines => typed[c] + 1 \in 0 .. MaxLines
    BY <2>1, <2>2
  <2> QED
    BY <2>1, <2>3 DEF Steps
<1>3. /\ to' \in [Client -> Address \cup {Nobody}]
      /\ \A d \in Client \ {c} : to'[d] = to[d]
      /\ to'[c] = to[c] \/ next # "HELO"
  BY DEF DialogTypes, Steps
<1>4. /\ DOMAIN user' = Client /\ DOMAIN ok' = Client /\ user'[c] = next
      /\ \A d \in Client \ {c} : user'[d] = user[d] /\ ok'[d] = ok[d]
  BY DEF DialogTypes, Steps
<1>5. DOMAIN inbox' = Session /\ \A q \in Session \ {Of(c)} : inbox'[q] = inbox[q]
  BY DEF DialogTypes, Steps
<1>6. DOMAIN reply' = Session /\ \A q \in Session \ {Of(c)} : reply'[q] = reply[q]
  BY DEF DialogTypes, Steps
<1>7. user'[c] \in {"hello", "HELO"} => user[c] = "hello" /\ to'[c] = to[c]
  BY <1>3, <1>4 DEF Steps
<1>8. UNCHANGED <<srv, pc, sender, recvr, recvr_id, ask, work>>
  BY DEF Steps
<1> QED
  BY <1>1, <1>2, <1>3, <1>4, <1>5, <1>6, <1>7, <1>8, ActsTyped

Awaits(next) ==
  CASE next = "RSET and exit" -> "RSET" [] next = "sent" -> "QUIT" [] next = "lingering" -> "over"
    [] OTHER -> next

\* The client goes on, and asks verb of its session.
LEMMA Goes ==
  ASSUME Dialogs, NEW c \in Client, NEW next, Steps(c, next),
         next \in {"HELO", "from", "MAIL FROM", "to", "RCPT TO", "VRFY", "RSET", "RSET and exit",
                   "QUIT", "DATA", "body", ".", "sent", "lingering"},
         Asked(Of(c), Awaits(next))',
         next \in {"HELO", "from", "MAIL FROM"} => ok'[c] = {},
         ok'[c] # {} /\ next \in {"to", "RCPT TO"} => Addressed(Of(c))'
  PROVE  Dialogs'
<1>1. Acts(c) /\ user'[c] = next
  BY StepsAct DEF Dialogs
<1>2. Asking(c)' = Awaits(next)'
  BY <1>1 DEF Asking, Awaits
<1>3. AskedOne(Of(c), {Asking(c)})'
  BY <1>2 DEF AskedOne
<1>4. ClientTalk(c)'
  BY <1>1, <1>3 DEF ClientTalk, Dead
<1> QED
  BY <1>1, <1>4, ActsKept

\* It has gone.
LEMMA Leaves ==
  ASSUME Dialogs, NEW c \in Client, NEW next \in Dead, Steps(c, next), Adrift(Of(c), LeftBy(next))'
  PROVE  Dialogs'
<1>1. Acts(c) /\ user'[c] = next
  BY StepsAct DEF Dialogs
<1>2. ClientTalk(c)'
  BY <1>1 DEF ClientTalk, Dead
<1> QED
  BY <1>1, <1>2, ActsKept

LEMMA Talks ==
  ASSUME Dialogs, NEW c \in Client, user[c] \notin Dead, user[c] # "out", NEW s, s = Of(c)
  PROVE  /\ s \in Session /\ DialogTypes /\ Asked(s, Awaits(user[c])) /\ Awaits(user[c]) \in Verbs
         /\ user[c] \in {"out", "hello", "HELO", "from", "MAIL FROM"} => ok[c] = {}
         /\ ok[c] # {} /\ user[c] \in {"to", "RCPT TO"} => Addressed(s)
<1>1. ClientTalk(c) /\ Of(c) \in Session /\ DialogTypes
  BY Parties DEF Dialogs, Circle
<1>2. Asking(c) = Awaits(user[c])
  BY DEF Asking, Awaits
<1>3. Asked(Of(c), Asking(c))
  BY <1>1 DEF ClientTalk, AskedOne
<1>4. Asking(c) \in Verbs
  BY <1>1 DEF ClientTalk, Asking, Verbs, Dead
<1> QED
  BY <1>1, <1>2, <1>3, <1>4 DEF ClientTalk

\* What is then written.
LEMMA Said ==
  ASSUME NEW c \in Client, NEW s, s = Of(c), s \in Session, DOMAIN inbox = Session,
         inbox[s] = <<>>, NEW places, pc[s] \in places, pc' = pc, reply'[s] = Nothing,
         NEW verb, NEW arg, Command(verb, arg) \in Writes,
         NEW next, Write(c, Command(verb, arg), next)
  PROVE  Reading(s, verb, places)'
<1>1. inbox'[s] = Append(inbox[s], Command(verb, arg))
  BY DEF Write
<1>2. pc'[s] \in places
  OBVIOUS
<1> QED
  BY <1>1, <1>2, Asks

LEMMA RetypeKept ==
  ASSUME Dialogs, NEW c \in Client, Retype(c)
  PROVE  Dialogs'
<1> PICK s : s = Of(c)
  OBVIOUS
<1>1. user[c] = "from" /\ UNCHANGED <<pc, reply, recvr, recvr_id, ok>>
  BY DEF Retype
<1>2. s \in Session /\ DialogTypes /\ Asked(s, "from") /\ ok[c] = {}
  BY <1>1, Talks DEF Awaits, Dead
<1>3. PICK a \in Address : Write(c, Command("MAIL FROM", a), "MAIL FROM")
  BY DEF Retype
<1>4. Steps(c, "MAIL FROM")
  BY <1>2, <1>3 DEF Retype, Write, Steps, DialogTypes
<1>5. inbox[s] = <<>> /\ reply[s] = Nothing /\ pc[s] = "from" /\ Fresh(s)
  BY <1>2 DEF Asked, Idle
<1>6. Command("MAIL FROM", a) \in Writes
  BY DEF Command, Writes
<1>7. Reading(s, "MAIL FROM", {"from"})'
  <2>1. DOMAIN inbox = Session /\ reply'[s] = Nothing /\ pc[s] \in {"from"}
    BY <1>1, <1>2, <1>5 DEF DialogTypes
  <2> QED
    BY <1>1, <1>2, <1>3, <1>5, <1>6, <2>1, Said
<1>8. Asked(s, "MAIL FROM")'
  BY <1>1, <1>5, <1>7 DEF Asked, Fresh
<1> QED
  BY <1>1, <1>2, <1>4, <1>8, Goes DEF Awaits

LEMMA AskToKept ==
  ASSUME Dialogs, NEW c \in Client, AskTo(c)
  PROVE  Dialogs'
<1> PICK s : s = Of(c)
  OBVIOUS
<1>1. user[c] = "to" /\ UNCHANGED <<pc, reply, recvr, recvr_id, ok>>
  BY DEF AskTo
<1>2. s \in Session /\ DialogTypes /\ Asked(s, "to") /\ (ok[c] # {} => Addressed(s))
  BY <1>1, Talks DEF Awaits, Dead
<1>3. PICK a \in Address, verb \in {"RCPT TO", "VRFY"} :
        /\ Write(c, Command(verb, a), verb)
        /\ to' = [to EXCEPT ![c] = a]
  BY DEF AskTo
<1>4. Steps(c, verb)
  <2>1. to' \in [Client -> Address \cup {Nobody}] /\ \A d \in Client \ {c} : to'[d] = to[d]
    BY <1>2, <1>3 DEF DialogTypes
  <2> QED
    BY <1>2, <1>3, <2>1 DEF AskTo, Write, Steps, DialogTypes
<1>5. inbox[s] = <<>> /\ reply[s] = Nothing /\ pc[s] = "rcpt"
  BY <1>2 DEF Asked, Idle
<1>6. Command(verb, a) \in Writes
  BY DEF Command, Writes
<1>7. Reading(s, verb, {"rcpt"})'
  <2>1. DOMAIN inbox = Session /\ reply'[s] = Nothing /\ pc[s] \in {"rcpt"}
    BY <1>1, <1>2, <1>5 DEF DialogTypes
  <2> QED
    BY <1>1, <1>2, <1>3, <1>5, <1>6, <2>1, Said
<1>8. Asked(s, verb)' /\ (ok'[c] # {} => Addressed(s)')
  BY <1>1, <1>2, <1>7 DEF Asked, Addressed
<1>9. Awaits(verb)' = verb
  BY DEF Awaits
<1> QED
  BY <1>4, <1>8, <1>9, Goes DEF Awaits

LEMMA GiveUpKept ==
  ASSUME Dialogs, NEW c \in Client, GiveUp(c)
  PROVE  Dialogs'
<1> PICK s : s = Of(c)
  OBVIOUS
<1>1. user[c] = "to" /\ Write(c, Command("QUIT", Nobody), "QUIT") /\ UNCHANGED <<pc, reply>>
  BY DEF GiveUp
<1>2. s \in Session /\ DialogTypes /\ Asked(s, "to")
  BY <1>1, Talks DEF Awaits, Dead
<1>3. Steps(c, "QUIT")
  BY <1>2 DEF GiveUp, Write, Steps, DialogTypes
<1>4. inbox[s] = <<>> /\ reply[s] = Nothing /\ pc[s] \in {"rcpt", "quit", "from"}
  BY <1>2 DEF Asked, Idle
<1>5. Command("QUIT", Nobody) \in Writes
  BY DEF Command, Writes
<1>6. Reading(s, "QUIT", {"rcpt", "quit", "from"})'
  BY <1>1, <1>2, <1>4, <1>5, Said DEF DialogTypes
<1>7. Asked(s, "QUIT")'
  BY <1>6 DEF Asked
<1> QED
  BY <1>3, <1>7, Goes DEF Awaits

LEMMA StartDataKept ==
  ASSUME Dialogs, NEW c \in Client, StartData(c)
  PROVE  Dialogs'
<1> PICK s : s = Of(c)
  OBVIOUS
<1>1. /\ user[c] = "to" /\ ok[c] # {} /\ Write(c, Command("DATA", Nobody), "DATA")
      /\ UNCHANGED <<pc, reply, recvr, recvr_id>>
  BY DEF StartData
<1>2. s \in Session /\ DialogTypes /\ Asked(s, "to") /\ Addressed(s)
  BY <1>1, Talks DEF Awaits, Dead
<1>3. Steps(c, "DATA")
  BY <1>2 DEF StartData, Write, Steps, DialogTypes
<1>4. inbox[s] = <<>> /\ reply[s] = Nothing /\ pc[s] \in {"rcpt"}
  BY <1>2 DEF Asked, Idle
<1>5. Command("DATA", Nobody) \in Writes
  BY DEF Command, Writes
<1>6. Reading(s, "DATA", {"rcpt"})'
  BY <1>1, <1>2, <1>4, <1>5, Said DEF DialogTypes
<1>7. Asked(s, "DATA")'
  BY <1>1, <1>2, <1>6 DEF Asked, Addressed
<1> QED
  BY <1>3, <1>7, Goes DEF Awaits

LEMMA TypeKept ==
  ASSUME Dialogs, NEW c \in Client, Type(c)
  PROVE  Dialogs'
<1> PICK s : s = Of(c)
  OBVIOUS
<1> PICK words : words = <<Line(c, typed[c] + 1)>>
  OBVIOUS
<1>1. /\ user[c] = "body" /\ typed[c] < MaxLines /\ Write(c, Text(words), "body")
      /\ UNCHANGED <<pc, reply>>
  BY DEF Type
<1>2. s \in Session /\ DialogTypes /\ Asked(s, "body")
  BY <1>1, Talks DEF Awaits, Dead
<1>3. Steps(c, "body")
  BY <1>1, <1>2 DEF Type, Write, Steps, DialogTypes
<1>4. words \in Seq(Piece) \ {<<>>, <<Dot>>}
  <2>1. typed[c] + 1 \in 1 .. MaxLines
    <3>1. MaxLines \in Nat /\ typed[c] \in 0 .. MaxLines
      BY <1>2, SmtpConstants DEF DialogTypes
    <3> QED
      BY <1>1, <3>1
  <2> PICK line : line = Line(c, typed[c] + 1)
    OBVIOUS
  <2>2. line \in Client \X (1 .. MaxLines) /\ line[2] # 0
    BY <2>1 DEF Line
  <2>3. line # Dot /\ line \in Piece
    BY <2>2 DEF Dot, Piece
  <2>4. <<line>> \in Seq(Piece) /\ <<line>> # <<>> /\ <<line>> # <<Dot>>
    BY <2>3
  <2> QED
    BY <2>4
<1>5. Asked(s, "body")'
  <2>1. inbox'[s] = Append(inbox[s], Text(words)) /\ pc'[s] = pc[s] /\ reply'[s] = reply[s]
    BY <1>1, <1>2 DEF Write, DialogTypes
  <2> QED
    BY <1>2, <1>4, <2>1, Given
<1> QED
  BY <1>3, <1>5, Goes DEF Awaits

LEMMA TypeDotKept ==
  ASSUME Dialogs, NEW c \in Client, TypeDot(c)
  PROVE  Dialogs'
<1> PICK s : s = Of(c)
  OBVIOUS
<1>1. /\ user[c] = "body" /\ Write(c, Text(<<Dot>>), ".")
      /\ UNCHANGED <<pc, reply, recvr, recvr_id>>
  BY DEF TypeDot
<1>2. s \in Session /\ DialogTypes /\ Asked(s, "body")
  BY <1>1, Talks DEF Awaits, Dead
<1>3. Steps(c, ".")
  BY <1>2 DEF TypeDot, Write, Steps, DialogTypes
<1>4. Asked(s, ".")'
  <2>1. Asked(s, Before("."))
    BY <1>2 DEF Before
  <2>2. /\ pc'[s] = pc[s] /\ reply'[s] = reply[s]
        /\ recvr'[s] = recvr[s] /\ recvr_id'[s] = recvr_id[s]
        /\ inbox'[s] = Append(inbox[s], Text(<<Dot>>))
    BY <1>1, <1>2 DEF Write, DialogTypes
  <2> QED
    BY <2>1, <2>2, Begun
<1> QED
  BY <1>3, <1>4, Goes DEF Awaits

LEMMA DieKept ==
  ASSUME Dialogs, NEW c \in Client, Die(c)
  PROVE  Dialogs'
<1> PICK s : s = Of(c)
  OBVIOUS
<1>1. user[c] \notin Dead /\ user[c] # "out" /\ UNCHANGED sessions
  BY DEF Die, Dead
<1>2. s \in Session /\ DialogTypes /\ Asked(s, Awaits(user[c])) /\ Awaits(user[c]) \in Verbs
  BY <1>1, Talks
<1>3. PICK next : next = CASE user[c] \in {"DATA", "body"} -> "cut" [] user[c] = "sent" -> "done"
                           [] OTHER -> "left"
  OBVIOUS
<1>4. next \in Dead /\ user' = [user EXCEPT ![c] = next]
  <2>1. user' = [user EXCEPT ![c] = CASE user[c] \in {"DATA", "body"} -> "cut"
                                      [] user[c] = "sent" -> "done" [] OTHER -> "left"]
    BY DEF Die
  <2> QED
    BY <1>3, <2>1 DEF Dead
<1>5. Steps(c, next)
  BY <1>1, <1>4 DEF Die, Steps, sessions, Dead
<1>6. Adrift(s, LeftBy(next))'
  <2>1. Awaits(user[c]) \in LeftBy(next)
    BY <1>2, <1>3 DEF LeftBy, Awaits
  <2>2. Adrift(s, LeftBy(next))
    BY <1>2, <2>1 DEF Adrift, AskedOne
  <2> QED
    BY <1>1, <2>1, <2>2, AskedSame DEF sessions
<1> QED
  BY <1>4, <1>5, <1>6, Leaves

LEMMA HelloKept ==
  ASSUME Dialogs, NEW c \in Client, Hello(c)
  PROVE  Dialogs'
<1> PICK s : s = Of(c)
  OBVIOUS
<1>1. /\ UNCHANGED <<pc, recvr, recvr_id, ok>>
      /\ \/ /\ user[c] = "hello" /\ Reads(c, "220 service ready")
            /\ Write(c, Command("HELO", Home[to[c]]), "HELO")
         \/ /\ user[c] = "HELO" /\ Reads(c, "250 OK")
            /\ Write(c, Command("MAIL FROM", to[c]), "MAIL FROM")
  BY DEF Hello
<1>2. s \in Session /\ DialogTypes /\ ok[c] = {} /\ Asked(s, user[c])
  BY <1>1, Talks DEF Awaits, Dead
<1>3. to[c] \in Address /\ Home[to[c]] \in Domain
  BY <1>1, <1>2, MailboxesConstants DEF DialogTypes
<1>4. reply'[s] = Nothing /\ DOMAIN inbox = Session /\ pc' = pc
  BY <1>1, <1>2 DEF Reads, DialogTypes
<1>5. CASE user[c] = "hello"
  <2>1. Reads(c, "220 service ready") /\ Write(c, Command("HELO", Home[to[c]]), "HELO")
    BY <1>1, <1>5
  <2>2. Steps(c, "HELO")
    BY <1>2, <1>5, <2>1 DEF Hello, Write, Reads, Steps, DialogTypes
  <2>3. inbox[s] = <<>> /\ pc[s] \in {"hello"} /\ Fresh(s)
    BY <1>2, <1>5 DEF Asked, Answered
  <2>4. Command("HELO", Home[to[c]]) \in Writes
    BY <1>3 DEF Command, Writes
  <2>5. Reading(s, "HELO", {"hello"})'
    BY <1>2, <1>4, <2>1, <2>3, <2>4, Said
  <2>6. Asked(s, "HELO")'
    BY <1>1, <2>3, <2>5 DEF Asked, Fresh
  <2> QED
    BY <1>1, <1>2, <2>2, <2>6, Goes DEF Awaits
<1>6. CASE user[c] = "HELO"
  <2>1. Reads(c, "250 OK") /\ Write(c, Command("MAIL FROM", to[c]), "MAIL FROM")
    BY <1>1, <1>6
  <2>2. Steps(c, "MAIL FROM")
    BY <1>2, <1>6, <2>1 DEF Hello, Write, Reads, Steps, DialogTypes
  <2>3. inbox[s] = <<>> /\ pc[s] \in {"from"} /\ Fresh(s)
    BY <1>2, <1>6, <2>1 DEF Asked, Answered, Reading, Reads, Nothing
  <2>4. Command("MAIL FROM", to[c]) \in Writes
    BY <1>3 DEF Command, Writes
  <2>5. Reading(s, "MAIL FROM", {"from"})'
    BY <1>2, <1>4, <2>1, <2>3, <2>4, Said
  <2>6. Asked(s, "MAIL FROM")'
    BY <1>1, <2>3, <2>5 DEF Asked, Fresh
  <2> QED
    BY <1>1, <1>2, <2>2, <2>6, Goes DEF Awaits
<1> QED
  BY <1>1, <1>5, <1>6

LEMMA FromAnsweredKept ==
  ASSUME Dialogs, NEW c \in Client, FromAnswered(c)
  PROVE  Dialogs'
<1> PICK s : s = Of(c)
  OBVIOUS
<1>1. /\ user[c] = "MAIL FROM" /\ UNCHANGED <<pc, inbox, recvr, recvr_id, ok>>
      /\ \/ reply[s] = "250 OK" /\ user' = [user EXCEPT ![c] = "to"]
         \/ reply[s] = "550 No such user here" /\ user' = [user EXCEPT ![c] = "from"]
      /\ reply' = [reply EXCEPT ![s] = Nothing]
  BY DEF FromAnswered, Reads
<1>2. s \in Session /\ DialogTypes /\ ok[c] = {} /\ Asked(s, "MAIL FROM")
  BY <1>1, Talks DEF Awaits, Dead
<1>3. inbox[s] = <<>> /\ Fresh(s) /\ reply'[s] = Nothing
  BY <1>1, <1>2 DEF Asked, Answered, Reading, Nothing, DialogTypes
<1>4. CASE reply[s] = "250 OK" /\ user' = [user EXCEPT ![c] = "to"]
  <2>1. Steps(c, "to")
    BY <1>1, <1>2, <1>4 DEF FromAnswered, Reads, Steps, DialogTypes
  <2>2. pc[s] = "rcpt"
    BY <1>2, <1>4 DEF Asked, Answered, Reading, Nothing
  <2>3. Asked(s, "to")'
    BY <1>1, <1>3, <2>2 DEF Asked, Idle
  <2> QED
    BY <1>1, <1>2, <2>1, <2>3, Goes DEF Awaits
<1>5. CASE reply[s] = "550 No such user here" /\ user' = [user EXCEPT ![c] = "from"]
  <2>1. Steps(c, "from")
    BY <1>1, <1>2, <1>5 DEF FromAnswered, Reads, Steps, DialogTypes
  <2>2. pc[s] = "from"
    BY <1>2, <1>5 DEF Asked, Answered, Reading, Nothing
  <2>3. Asked(s, "from")'
    BY <1>1, <1>3, <2>2 DEF Asked, Idle, Fresh
  <2> QED
    BY <1>1, <1>2, <2>1, <2>3, Goes DEF Awaits
<1> QED
  BY <1>1, <1>4, <1>5

\* Where a session is that has answered RCPT or VRFY.
LEMMA ToAnswered ==
  ASSUME NEW s, NEW verb \in {"RCPT TO", "VRFY"}, Asked(s, verb), reply[s] # Nothing
  PROVE  inbox[s] = <<>> /\ pc[s] = "rcpt" /\ (reply[s] = "250 OK" => Addressed(s))
BY DEF Asked, Reading, Idle, Answered

LEMMA AcceptedKept ==
  ASSUME Dialogs, NEW c \in Client, Accepted(c)
  PROVE  Dialogs'
<1> PICK s : s = Of(c)
  OBVIOUS
<1>1. /\ user[c] \in {"RCPT TO", "VRFY"} /\ UNCHANGED <<pc, inbox, recvr, recvr_id>>
      /\ reply[s] = "250 OK" /\ reply' = [reply EXCEPT ![s] = Nothing]
  BY DEF Accepted, Reads
<1>2. s \in Session /\ DialogTypes /\ Asked(s, user[c])
  BY <1>1, Talks DEF Awaits, Dead
<1>3. inbox[s] = <<>> /\ pc[s] = "rcpt" /\ reply'[s] = Nothing /\ Addressed(s)
  BY <1>1, <1>2, ToAnswered DEF Nothing, DialogTypes
<1>4. Steps(c, "to")
  BY <1>1, <1>2 DEF Accepted, Reads, Steps, DialogTypes
<1>5. Asked(s, "to")' /\ Addressed(s)'
  BY <1>1, <1>3 DEF Asked, Idle, Addressed
<1> QED
  BY <1>4, <1>5, Goes DEF Awaits

LEMMA RefusedKept ==
  ASSUME Dialogs, NEW c \in Client, Refused(c)
  PROVE  Dialogs'
<1> PICK s : s = Of(c)
  OBVIOUS
<1>1. /\ user[c] = "RCPT TO" /\ UNCHANGED <<pc, inbox, recvr, recvr_id, ok>>
      /\ reply[s] = "550 No such user here" /\ reply' = [reply EXCEPT ![s] = Nothing]
  BY DEF Refused, Reads
<1>2. s \in Session /\ DialogTypes /\ Asked(s, "RCPT TO") /\ (ok[c] # {} => Addressed(s))
  BY <1>1, Talks DEF Awaits, Dead
<1>3. inbox[s] = <<>> /\ pc[s] = "rcpt" /\ reply'[s] = Nothing
  BY <1>1, <1>2, ToAnswered DEF Nothing, DialogTypes
<1>4. Steps(c, "to")
  BY <1>1, <1>2 DEF Refused, Reads, Steps, DialogTypes
<1>5. Asked(s, "to")' /\ (ok'[c] # {} => Addressed(s)')
  BY <1>1, <1>2, <1>3 DEF Asked, Idle, Addressed
<1> QED
  BY <1>4, <1>5, Goes DEF Awaits

LEMMA ResetKept ==
  ASSUME Dialogs, NEW c \in Client, Reset(c)
  PROVE  Dialogs'
<1> PICK s : s = Of(c)
  OBVIOUS
<1>1. /\ user[c] \in {"RCPT TO", "VRFY"} /\ UNCHANGED <<pc, recvr, recvr_id, ok>>
      /\ reply[s] \in {"550 No such user here", "Syntax Error or Failure"}
      /\ reply' = [reply EXCEPT ![s] = Nothing]
  BY DEF Reset, Reads
<1>2. PICK next \in {"RSET", "RSET and exit"} : Write(c, Command("RSET", Nobody), next)
  BY DEF Reset
<1>3. s \in Session /\ DialogTypes /\ Asked(s, user[c])
  BY <1>1, Talks DEF Awaits, Dead
<1>4. inbox[s] = <<>> /\ pc[s] \in {"rcpt"} /\ reply'[s] = Nothing
  BY <1>1, <1>3, ToAnswered DEF Nothing, DialogTypes
<1>5. Steps(c, next)
  BY <1>1, <1>2, <1>3 DEF Reset, Write, Steps, DialogTypes
<1>6. Command("RSET", Nobody) \in Writes
  BY DEF Command, Writes
<1>7. Reading(s, "RSET", {"rcpt"})'
  BY <1>1, <1>2, <1>3, <1>4, <1>6, Said DEF DialogTypes
<1>8. Asked(s, "RSET")'
  BY <1>7 DEF Asked
<1>9. Awaits(next) = "RSET"
  BY DEF Awaits
<1> QED
  BY <1>5, <1>8, <1>9, Goes

LEMMA ResetDoneKept ==
  ASSUME Dialogs, NEW c \in Client, ResetDone(c)
  PROVE  Dialogs'
<1> PICK s : s = Of(c)
  OBVIOUS
<1>1. /\ UNCHANGED pc /\ reply[s] = "250 OK" /\ reply' = [reply EXCEPT ![s] = Nothing]
      /\ \/ user[c] = "RSET" /\ Write(c, Command("QUIT", Nobody), "QUIT")
         \/ /\ user[c] = "RSET and exit" /\ user' = [user EXCEPT ![c] = "left"]
            /\ UNCHANGED inbox
  BY DEF ResetDone, Reads
<1>2. s \in Session /\ DialogTypes /\ Asked(s, "RSET")
  BY <1>1, Talks DEF Awaits, Dead
<1>3. inbox[s] = <<>> /\ pc[s] = "from" /\ reply'[s] = Nothing
  BY <1>1, <1>2 DEF Asked, Answered, Reading, Idle, Nothing, DialogTypes
<1>4. CASE user[c] = "RSET" /\ Write(c, Command("QUIT", Nobody), "QUIT")
  <2>1. Steps(c, "QUIT")
    BY <1>1, <1>2, <1>4 DEF ResetDone, Write, Steps, DialogTypes
  <2>2. Command("QUIT", Nobody) \in Writes
    BY DEF Command, Writes
  <2>3. pc[s] \in {"rcpt", "quit", "from"}
    BY <1>3
  <2>4. Reading(s, "QUIT", {"rcpt", "quit", "from"})'
    BY <1>1, <1>2, <1>3, <1>4, <2>2, <2>3, Said DEF DialogTypes
  <2>5. Asked(s, "QUIT")'
    BY <2>4 DEF Asked
  <2> QED
    BY <2>1, <2>5, Goes DEF Awaits
<1>5. CASE user[c] = "RSET and exit" /\ user' = [user EXCEPT ![c] = "left"] /\ UNCHANGED inbox
  <2>1. Steps(c, "left")
    BY <1>1, <1>2, <1>5 DEF ResetDone, Steps, DialogTypes
  <2>2. Asked(s, "mailed")'
    BY <1>1, <1>3, <1>5 DEF Asked, Idle
  <2>3. Adrift(s, LeftBy("left"))'
    BY <2>2 DEF Adrift, AskedOne, LeftBy, Verbs
  <2> QED
    BY <2>1, <2>3, Leaves DEF Dead
<1> QED
  BY <1>1, <1>4, <1>5

LEMMA DataStartedKept ==
  ASSUME Dialogs, NEW c \in Client, DataStarted(c)
  PROVE  Dialogs'
<1> PICK s : s = Of(c)
  OBVIOUS
<1>1. /\ user[c] = "DATA" /\ UNCHANGED <<pc, inbox>>
      /\ reply[s] = "354 start mail input" /\ reply' = [reply EXCEPT ![s] = Nothing]
  BY DEF DataStarted, Reads
<1>2. s \in Session /\ DialogTypes /\ Asked(s, "DATA")
  BY <1>1, Talks DEF Awaits, Dead
<1>3. Steps(c, "body")
  BY <1>1, <1>2 DEF DataStarted, Reads, Steps, DialogTypes
<1>4. Asked(s, "body")'
  <2>1. reply[s] # Nothing /\ reply'[s] = Nothing /\ pc'[s] = pc[s] /\ inbox'[s] = inbox[s]
    BY <1>1, <1>2 DEF DialogTypes, Nothing
  <2>2. Asked(s, After("DATA"))'
    BY <1>2, <2>1, Over
  <2>3. After("DATA")' = "body"
    BY DEF After
  <2> QED
    BY <2>2, <2>3
<1> QED
  BY <1>3, <1>4, Goes DEF Awaits

LEMMA SentKept ==
  ASSUME Dialogs, NEW c \in Client, Sent(c)
  PROVE  Dialogs'
<1> PICK s : s = Of(c)
  OBVIOUS
<1>1. /\ user[c] = "." /\ UNCHANGED pc /\ Write(c, Command("QUIT", Nobody), "sent")
      /\ reply[s] = "250 OK" /\ reply' = [reply EXCEPT ![s] = Nothing]
  BY DEF Sent, Reads
<1>2. s \in Session /\ DialogTypes /\ Asked(s, ".")
  BY <1>1, Talks DEF Awaits, Dead
<1>3. Steps(c, "sent")
  BY <1>1, <1>2 DEF Sent, Write, Steps, DialogTypes
<1>4. inbox[s] = <<>> /\ pc[s] \in {"rcpt", "quit", "from"} /\ reply'[s] = Nothing
  BY <1>1, <1>2 DEF Asked, Answered, Taking, Idle, Nothing, DialogTypes
<1>5. Command("QUIT", Nobody) \in Writes
  BY DEF Command, Writes
<1>6. Reading(s, "QUIT", {"rcpt", "quit", "from"})'
  BY <1>1, <1>2, <1>4, <1>5, Said DEF DialogTypes
<1>7. Asked(s, "QUIT")'
  BY <1>6 DEF Asked
<1> QED
  BY <1>3, <1>7, Goes DEF Awaits

LEMMA ByeKept ==
  ASSUME Dialogs, NEW c \in Client, Bye(c)
  PROVE  Dialogs'
<1> PICK s : s = Of(c)
  OBVIOUS
<1>1. /\ user[c] \in {"QUIT", "sent"} /\ UNCHANGED <<pc, inbox>>
      /\ reply[s] = "221 service closed" /\ reply' = [reply EXCEPT ![s] = Nothing]
  BY DEF Bye, Reads
<1>2. s \in Session /\ DialogTypes /\ Asked(s, "QUIT")
  BY <1>1, Talks DEF Awaits, Dead
<1>3. PICK next \in {"done", "left"} : user' = [user EXCEPT ![c] = next]
  BY DEF Bye
<1>4. Steps(c, next)
  BY <1>1, <1>2, <1>3 DEF Bye, Reads, Steps, DialogTypes
<1>5. inbox[s] = <<>> /\ pc[s] = "gone"
  BY <1>1, <1>2 DEF Asked, Answered, Reading, Nothing
<1>6. Adrift(s, LeftBy(next))'
  BY <1>1, <1>5 DEF Adrift
<1> QED
  BY <1>4, <1>6, Leaves DEF Dead

LEMMA ByeIgnoredKept ==
  ASSUME Dialogs, NEW c \in Client, ByeIgnored(c)
  PROVE  Dialogs'
<1> PICK s : s = Of(c)
  OBVIOUS
<1>1. /\ user[c] = "QUIT" /\ UNCHANGED <<pc, inbox>>
      /\ reply[s] = "Invalid Command" /\ reply' = [reply EXCEPT ![s] = Nothing]
  BY DEF ByeIgnored, Reads
<1>2. s \in Session /\ DialogTypes /\ Asked(s, "QUIT")
  BY <1>1, Talks DEF Awaits, Dead
<1>3. Steps(c, "lingering")
  BY <1>1, <1>2 DEF ByeIgnored, Reads, Steps, DialogTypes
<1>4. inbox[s] = <<>> /\ pc[s] = "from" /\ reply'[s] = Nothing
  BY <1>1, <1>2 DEF Asked, Answered, Reading, Nothing, DialogTypes
<1>5. Asked(s, "over")'
  BY <1>1, <1>4 DEF Asked, Idle
<1> QED
  BY <1>3, <1>5, Goes DEF Awaits

\* A connection opens a dialog.
LEMMA ConnectKept ==
  ASSUME Dialogs, NEW c \in Client, Connect(c)
  PROVE  Dialogs'
<1> PICK s : s = Of(c)
  OBVIOUS
<1>0. /\ s \in Session /\ s[1] = c
      /\ \A q \in Relay(s) : q \in Session /\ q # s /\ q[1] = c
  BY Parties
<1>1. /\ user[c] = "out"
      /\ pc' = [pc EXCEPT ![s] = "hello"]
      /\ reply' = [reply EXCEPT ![s] = "220 service ready"]
      /\ user' = [user EXCEPT ![c] = "hello"]
      /\ UNCHANGED <<tables, inbox, sender, recvr, recvr_id, ask, work, ok, asks, typed>>
  BY DEF Connect
<1>2. PICK a \in Address : srv' = [srv EXCEPT ![s] = Home[a]] /\ to' = [to EXCEPT ![c] = a]
  BY DEF Connect
<1>3. /\ ClientTalk(c) /\ SessionOK(s) /\ DialogTypes
      /\ \A q \in Relay(s) : RelayTalk(s, q)
      /\ \A q \in Session : q[1] = c => SessionOK(q)
  BY <1>0 DEF Dialogs, Circle
<1>4. Home[a] \in Domain
  BY MailboxesConstants
<1>5. Idle(s, {"closed"}) /\ Fresh(s) /\ ok[c] = {}
  <2>1. Asking(c) = "closed" /\ user[c] \notin Dead
    BY <1>1 DEF Asking, Dead
  <2>2. Asked(s, "closed")
    BY <1>3, <2>1 DEF ClientTalk, AskedOne
  <2> QED
    BY <1>1, <1>3, <2>2 DEF Asked, ClientTalk
<1>6. \A q \in Session \ {s} : Same(q)
  BY <1>1, <1>2, <1>3 DEF Same, DialogTypes
<1>7. /\ srv'[s] = Home[a] /\ pc'[s] = "hello" /\ reply'[s] = "220 service ready"
      /\ user'[c] = "hello" /\ \A d \in Client \ {c} : user'[d] = user[d] /\ to'[d] = to[d]
  BY <1>0, <1>1, <1>2, <1>3 DEF DialogTypes
<1>8. DialogTypes'
  <2>1. srv' \in [Session -> Domain \cup {Nothing}] /\ to' \in [Client -> Address \cup {Nobody}]
    BY <1>2, <1>3, <1>4 DEF DialogTypes
  <2>2. ASSUME NEW d \in Client, user'[d] \in {"hello", "HELO"} PROVE to'[d] \in Address
    <3>1. CASE d = c
      BY <1>2, <1>3, <3>1 DEF DialogTypes
    <3>2. CASE d # c
      BY <1>3, <1>7, <2>2, <3>2 DEF DialogTypes
    <3> QED
      BY <3>1, <3>2
  <2> QED
    BY <1>1, <1>3, <2>1, <2>2 DEF DialogTypes
<1>9. ClientTalk(c)'
  <2>1. Asked(s, "hello")'
    BY <1>1, <1>5, <1>7 DEF Asked, Idle, Answered, Fresh
  <2>2. Asking(c)' = "hello"
    BY <1>7 DEF Asking
  <2>3. AskedOne(s, {Asking(c)})'
    BY <2>1, <2>2 DEF AskedOne
  <2> QED
    BY <1>1, <1>5, <1>7, <2>3 DEF ClientTalk, Dead
<1>10. ASSUME NEW q \in Relay(s) PROVE RelayTalk(s, q)'
  <2>1. Same(q) /\ RelayTalk(s, q)
    BY <1>0, <1>3, <1>6
  <2>2. Waiting(q)
    BY <1>5, <2>1, TalkWaiting DEF Idle, Conn, Busy
  <2>3. Waiting(q)'
    BY <2>1, <2>2, RelaySame
  <2> QED
    BY <1>7, <2>1, <2>3 DEF RelayTalk, Waiting, Same, Conn, Busy
<1>11. SessionOK(s)'
  <2>1. work[s] = <<>>
    BY <1>3, <1>5, NoWork DEF SessionOK, Exchanges, Idle
  <2>2. pc'[s] \notin Busy /\ work'[s] = <<>> /\ recvr'[s] = recvr[s] /\ srv'[s] \in Domain
    BY <1>1, <1>4, <1>7, <2>1 DEF Busy, Conn
  <2> QED
    BY <1>0, <1>3, <2>2, StaysOK
<1>12. AskOK(s)'
  BY <1>7 DEF AskOK, Conn
<1>13. ASSUME NEW q \in Session, q[1] = c PROVE SessionOK(q)'
  <2>1. CASE q = s
    BY <1>11, <2>1
  <2>2. CASE q # s
    BY <1>3, <1>6, <1>13, <2>2, SameOK DEF Same
  <2> QED
    BY <2>1, <2>2
<1>14. Circle(c)'
  BY <1>9, <1>10, <1>12, <1>13, WholeCircle
<1>15. \A q \in Session : q[1] # c => Same(q)
  BY <1>0, <1>6
<1>16. \A d \in Client : d # c => user'[d] = user[d] /\ ok'[d] = ok[d]
  BY <1>1, <1>7
<1> QED
  BY <1>8, <1>14, <1>15, <1>16, OneCircle

-----------------------------------------------------------------------------
(* Every step keeps the dialogs.                                             *)

LEMMA JointKept ==
  ASSUME Dialogs, NEW c \in Client, \E r \in Relay(Of(c)) : Joint(c, r)
  PROVE  Dialogs'
<1>1. PICK r \in Relay(Of(c)) : Joint(c, r)
  OBVIOUS
<1>2. Circle(c)' /\ DialogTypes' /\ UNCHANGED clients
  BY <1>1 DEF Joint
<1>3. \A q \in Session : q[1] # c => Same(q)
  BY <1>1, Parties DEF Joint
<1> QED
  BY <1>2, <1>3, OneCircle DEF clients

LEMMA AloneKept ==
  ASSUME Dialogs, NEW c \in Client, NEW s \in Session, s[1] = c, Circle(c)', Alone(s)
  PROVE  Dialogs'
<1>1. \A q \in Session : q[1] # c => Same(q)
  BY DEF Alone
<1> QED
  BY <1>1, OneCircle DEF clients, Alone

LEMMA SessionKept ==
  ASSUME Dialogs, TablesOK, NEW s \in Session, SessionStep(s)
  PROVE  Dialogs'
<1> PICK c \in Client : c = s[1]
  BY Parties
<1>1. CASE s # Of(c)
  <2>1. s \in Relay(Of(c))
    BY <1>1, Parties
  <2>2. Circle(c)' /\ Alone(s)
    BY <2>1, RelayStep
  <2> QED
    BY <2>2, AloneKept
<1>2. CASE s = Of(c)
  <2>1. CASE Own(s)
    BY <1>2, <2>1, MainOwn, AloneKept
  <2>2. CASE Eof(s)
    BY <1>2, <2>2, MainEof, AloneKept
  <2>3. CASE ReadText(s)
    <3>1. /\ Circle(c)' /\ DialogTypes' /\ UNCHANGED clients
          /\ \A q \in Session : q[1] # c => Same(q)
      BY <1>2, <2>3, MainText
    <3> QED
      BY <3>1, OneCircle DEF clients
  <2>4. CASE RcptThere(s)
    BY <1>2, <2>4, MainThere, JointKept
  <2>5. CASE RelayHello(s)
    BY <1>2, <2>5, MainHello, JointKept
  <2>6. CASE RelayFrom(s)
    BY <1>2, <2>6, MainFrom, JointKept
  <2>7. CASE RelayTo(s)
    BY <1>2, <2>7, MainTo, JointKept
  <2>8. CASE RelayRset(s)
    BY <1>2, <2>8, MainRset, JointKept
  <2>9. CASE RelayAsk(s)
    BY <1>2, <2>9, MainAsk, JointKept
  <2>10. CASE RelayAnswered(s)
    BY <1>2, <2>10, MainAnswered, JointKept
  <2> QED
    BY <2>1, <2>2, <2>3, <2>4, <2>5, <2>6, <2>7, <2>8, <2>9, <2>10 DEF SessionStep, Own
<1> QED
  BY <1>1, <1>2

LEMMA ClientKept ==
  ASSUME Dialogs, NEW c \in Client, UserStep(c) \/ ClientStep(c)
  PROVE  Dialogs'
<1>1. CASE UserStep(c)
  BY <1>1, ConnectKept, RetypeKept, AskToKept, GiveUpKept, StartDataKept, TypeKept, TypeDotKept,
     DieKept DEF UserStep
<1>2. CASE ClientStep(c)
  BY <1>2, HelloKept, FromAnsweredKept, AcceptedKept, RefusedKept, ResetKept, ResetDoneKept,
     DataStartedKept, SentKept, ByeKept, ByeIgnoredKept DEF ClientStep
<1> QED
  BY <1>1, <1>2

LEMMA DialogsSame ==
  ASSUME Dialogs, UNCHANGED <<sessions, clients>>
  PROVE  Dialogs'
<1>1. \A s \in Session : Same(s)
  BY DEF Same, sessions
<1>2. DialogTypes'
  BY DEF Dialogs, DialogTypes, sessions, clients
<1>3. \A c \in Client : Circle(c)'
  BY <1>1, CircleSame DEF Dialogs, clients
<1> QED
  BY <1>2, <1>3 DEF Dialogs

LEMMA DialogsStep == Dialogs /\ TablesOK /\ [Next]_vars => Dialogs'
<1> SUFFICES ASSUME Dialogs, TablesOK, [Next]_vars PROVE Dialogs'
  OBVIOUS
<1>1. CASE SmtpNext
  BY <1>1, SessionKept, ClientKept DEF SmtpNext
<1>2. CASE UNCHANGED <<sessions, clients>>
  BY <1>2, DialogsSame
<1> QED
  BY <1>1, <1>2 DEF Next, vars

LEMMA DialogsInit == Init => Dialogs
<1> SUFFICES ASSUME Init PROVE Dialogs
  OBVIOUS
<1>1. /\ srv = [s \in Session |-> Nothing] /\ pc = [s \in Session |-> "closed"]
      /\ inbox = [s \in Session |-> <<>>] /\ reply = [s \in Session |-> Nothing]
      /\ sender = [s \in Session |-> Nobody] /\ recvr = [s \in Session |-> <<>>]
      /\ recvr_id = [s \in Session |-> <<>>] /\ ask = [s \in Session |-> Nothing]
      /\ work = [s \in Session |-> <<>>]
  BY DEF Init, SmtpInit
<1>2. /\ user = [c \in Client |-> "out"] /\ to = [c \in Client |-> Nobody]
      /\ ok = [c \in Client |-> {}] /\ asks = [c \in Client |-> 0]
      /\ typed = [c \in Client |-> 0]
  BY DEF Init, SmtpInit
<1>3. \A S : <<>> \in Seq(S)
  BY EmptySeq
<1>4. DialogTypes
  <2>1. typed \in [Client -> 0 .. MaxLines] /\ asks \in [Client -> Nat]
    BY <1>2, SmtpConstants
  <2> QED
    BY <1>1, <1>2, <1>3, <2>1 DEF DialogTypes
<1>5. \A s \in Session : Idle(s, {"closed"}) /\ Fresh(s)
  BY <1>1 DEF Idle, Fresh
<1>6. \A s \in Session : SessionOK(s)
  <2> SUFFICES ASSUME NEW s \in Session PROVE SessionOK(s)
    OBVIOUS
  <2>1. pc[s] = "closed" /\ recvr[s] = <<>> /\ work[s] = <<>>
    BY <1>1
  <2>2. WorkOK(s)
    BY <2>1, EmptyWork
  <2> QED
    BY <1>3, <2>1, <2>2 DEF SessionOK, Busy, Conn
<1>7. ASSUME NEW c \in Client PROVE Circle(c)
  <2> PICK s : s = Of(c)
    OBVIOUS
  <2>0. s \in Session /\ \A r \in Relay(s) : r \in Session
    BY Parties
  <2>1. ClientTalk(c)
    <3>1. Asked(s, "closed")
      BY <1>5, <2>0 DEF Asked
    <3>2. Asking(c) = "closed" /\ user[c] = "out" /\ ok[c] = {}
      BY <1>2 DEF Asking
    <3>3. AskedOne(s, {Asking(c)})
      BY <3>1, <3>2 DEF AskedOne
    <3> QED
      BY <3>2, <3>3 DEF ClientTalk, Dead
  <2>2. pc[s] = "closed"
    BY <1>1, <2>0
  <2>3. AskOK(s)
    BY <2>2 DEF AskOK, Conn
  <2>4. \A r \in Relay(s) : RelayTalk(s, r)
    <3> SUFFICES ASSUME NEW r \in Relay(s) PROVE RelayTalk(s, r)
      OBVIOUS
    <3>1. Idle(r, {"closed", "from", "rcpt", "gone"}) /\ Fresh(r) /\ pc[r] = "closed"
      BY <1>1, <1>5, <2>0 DEF Idle
    <3>2. recvr[r] = <<>> /\ work[r] = <<>>
      BY <1>1, <2>0
    <3> QED
      BY <2>2, <3>1, <3>2 DEF RelayTalk, Busy, Conn
  <2> QED
    BY <1>6, <2>1, <2>3, <2>4 DEF Circle
<1> QED
  BY <1>4, <1>7 DEF Dialogs

LEMMA DialogsHold == Spec => []Dialogs
<1>1. MeantInv => TablesOK
  BY DEF MeantInv
<1> QED
  BY <1>1, DialogsInit, DialogsStep, MeantInit, MeantStep, PTL DEF Spec

-----------------------------------------------------------------------------
(* Types. What has been written, and what is answered.                       *)

LEMMA AskedInbox ==
  ASSUME NEW q \in Session, NEW verb \in Verbs, Asked(q, verb)
  PROVE  \A n \in 1 .. Len(inbox[q]) : inbox[q][n] \in Writes
<1>1. ASSUME inbox[q] = <<>> PROVE \A n \in 1 .. Len(inbox[q]) : inbox[q][n] \in Writes
  BY <1>1
<1>2. ASSUME inbox[q] = <<Head(inbox[q])>>, NEW v, Head(inbox[q]) \in Says(v)
      PROVE  \A n \in 1 .. Len(inbox[q]) : inbox[q][n] \in Writes
  <2>1. PICK w : w = Head(inbox[q])
    OBVIOUS
  <2>2. inbox[q] = <<w>> /\ w \in Writes
    BY <1>2, <2>1 DEF Says
  <2> QED
    BY <2>2
<1>3. ASSUME Taking(q) PROVE \A n \in 1 .. Len(inbox[q]) : inbox[q][n] \in Writes
  <2>1. Lines \subseteq Writes
    BY DEF Lines, Says
  <2>2. inbox[q] \in Seq(Lines)
    BY <1>3 DEF Taking
  <2> QED
    BY <2>1, <2>2, ElementOfSeq
<1>4. \/ inbox[q] = <<>>
      \/ inbox[q] = <<Head(inbox[q])>> /\ \E v : Head(inbox[q]) \in Says(v)
      \/ Taking(q)
  BY DEF Asked, Idle, Reading, Answered
<1> QED
  BY <1>1, <1>2, <1>3, <1>4

LEMMA AskedClosed ==
  ASSUME NEW q \in Session, NEW verb \in Verbs, Asked(q, verb), pc[q] = "closed"
  PROVE  Fresh(q)
  BY DEF Asked, Idle, Reading, Answered, Taking, Conn

\* What a session has been asked, wherever its caller is.
LEMMA AskedWhat ==
  ASSUME Dialogs, NEW q \in Session
  PROVE  \/ \E verb \in Verbs : Asked(q, verb)
         \/ inbox[q] = <<>> /\ (pc[q] = "closed" => Fresh(q))
<1> PICK c \in Client : c = q[1]
  BY Parties
<1> PICK s : s = Of(c)
  OBVIOUS
<1>1. ClientTalk(c) /\ \A r \in Relay(s) : RelayTalk(s, r)
  BY DEF Dialogs, Circle
<1>2. ASSUME NEW verbs, Adrift(q, verbs), verbs \subseteq Verbs
      PROVE  (\E verb \in Verbs : Asked(q, verb)) \/ (inbox[q] = <<>> /\ (pc[q] = "closed" => Fresh(q)))
  BY <1>2 DEF Adrift, AskedOne
<1>3. CASE q = s
  <2>1. CASE user[c] \in Dead
    <3>1. LeftBy(user[c]) \subseteq Verbs
      BY <2>1 DEF LeftBy, Verbs, Dead
    <3> QED
      BY <1>1, <1>2, <1>3, <2>1, <3>1 DEF ClientTalk
  <2>2. CASE user[c] \notin Dead
    <3>1. Asked(q, Asking(c))
      BY <1>1, <1>3, <2>2 DEF ClientTalk, AskedOne
    <3>2. Asking(c) \in Verbs
      BY <1>1, <2>2 DEF ClientTalk, Asking, Verbs
    <3> QED
      BY <3>1, <3>2
  <2> QED
    BY <2>1, <2>2
<1>4. CASE q # s
  <2>1. RelayTalk(s, q)
    BY <1>1, <1>4, Parties
  <2>2. CASE pc[s] = "gone"
    <3>1. Left \subseteq Verbs
      BY DEF Left, Verbs
    <3> QED
      BY <1>2, <2>1, <2>2, <3>1 DEF RelayTalk
  <2>3. CASE pc[s] \in Conn /\ q = ask[s].relay
    <3>1. AskOK(s)
      BY DEF Dialogs, Circle
    <3>2. Asked(q, Connecting(s))
      BY <2>1, <2>3 DEF RelayTalk, AskedOne, Conn
    <3>3. Connecting(s) \in Verbs
      BY <2>3, <3>1 DEF Connecting, Verbs, Conn, AskOK
    <3> QED
      BY <3>2, <3>3
  <2>4. CASE pc[s] \in Busy /\ q \in Recvr(s) /\ ~(pc[s] \in Conn /\ q = ask[s].relay)
    <3>1. AskedOne(q, InMail(s, q))
      BY <2>1, <2>4 DEF RelayTalk, Busy, Conn
    <3>2. InMail(s, q) \subseteq Verbs
      BY DEF InMail
    <3> QED
      BY <3>1, <3>2 DEF AskedOne
  <2>5. CASE pc[s] # "gone" /\ ~(pc[s] \in Busy /\ q \in Recvr(s))
             /\ ~(pc[s] \in Conn /\ q = ask[s].relay)
    BY <2>1, <2>5 DEF RelayTalk, Idle
  <2> QED
    BY <2>2, <2>3, <2>4, <2>5
<1> QED
  BY <1>3, <1>4

LEMMA Written ==
  ASSUME Dialogs, NEW q \in Session
  PROVE  /\ \A n \in 1 .. Len(inbox[q]) : inbox[q][n] \in Writes
         /\ pc[q] = "closed" => Fresh(q)
<1>1. CASE \E verb \in Verbs : Asked(q, verb)
  BY <1>1, AskedInbox, AskedClosed
<1>2. CASE inbox[q] = <<>> /\ (pc[q] = "closed" => Fresh(q))
  BY <1>2
<1> QED
  BY <1>1, <1>2, AskedWhat

RepliesOK == reply \in [Session -> Replies]

LEMMA RepliesStep == RepliesOK /\ [Next]_vars => RepliesOK'
<1> SUFFICES ASSUME RepliesOK, [Next]_vars PROVE RepliesOK'
  OBVIOUS
<1>1. CASE UNCHANGED reply
  BY <1>1 DEF RepliesOK
<1>2. ASSUME NEW s, NEW t \in Replies, reply' = [reply EXCEPT ![s] = t] PROVE RepliesOK'
  BY <1>2 DEF RepliesOK
<1>3. ASSUME NEW r, NEW s, NEW t \in Replies, reply' = [reply EXCEPT ![r] = Nothing, ![s] = t]
      PROVE  RepliesOK'
  BY <1>3 DEF RepliesOK, Replies
<1>4. ASSUME NEW s \in Session, SessionStep(s) PROVE RepliesOK'
  <2>1. CASE Helo(s) \/ MailFrom(s) \/ Quit(s) \/ Data(s) \/ Invalid(s)
    <3>1. \E t \in Replies : Answer(s, t)
      BY <2>1 DEF Helo, MailFrom, Quit, Data, Invalid, Replies
    <3> QED
      BY <1>2, <3>1 DEF Answer
  <2>2. CASE RcptHere(s)
    <3>1. \E t \in Replies : Answer(s, t)
      BY <2>2 DEF RcptHere, Replies
    <3> QED
      BY <1>2, <3>1 DEF Answer
  <2>3. CASE RcptThere(s) \/ RelayHello(s) \/ RelayAnswered(s) \/ RsetDone(s) \/ DotDone(s)
    <3>1. \E r : \E t \in Replies : reply' = [reply EXCEPT ![r] = t]
      BY <2>3 DEF RcptThere, RelayHello, RelayAnswered, RsetDone, DotDone, Replies
    <3> QED
      BY <1>2, <3>1
  <2>4. CASE RelayFrom(s) \/ RelayTo(s) \/ RelayRset(s)
    <3>1. \/ \E r : \E t \in Replies : reply' = [reply EXCEPT ![r] = t]
          \/ \E r : \E t \in Replies : reply' = [reply EXCEPT ![r] = Nothing, ![s] = t]
      BY <2>4 DEF RelayFrom, RelayTo, RelayRset, Replies
    <3> QED
      BY <1>2, <1>3, <3>1
  <2>5. CASE \/ Eof(s) \/ RelayAsk(s) \/ Rset(s) \/ StartDone(s) \/ ReadText(s) \/ ReadNothing(s)
             \/ ReadDot(s) \/ QuitDone(s)
    BY <1>1, <2>5 DEF Eof, RelayAsk, Rset, StartDone, ReadText, ReadNothing, ReadDot, QuitDone,
       sessions
  <2> QED
    BY <1>4, <2>1, <2>2, <2>3, <2>4, <2>5 DEF SessionStep
<1>5. ASSUME NEW c \in Client, UserStep(c) \/ ClientStep(c) PROVE RepliesOK'
  <2>1. \/ UNCHANGED reply
        \/ reply' = [reply EXCEPT ![Of(c)] = "220 service ready"]
        \/ reply' = [reply EXCEPT ![Of(c)] = Nothing]
    BY <1>5 DEF UserStep, ClientStep, Connect, Retype, AskTo, GiveUp, StartData, Type, TypeDot, Die,
       Hello, FromAnswered, Accepted, Refused, Reset, ResetDone, DataStarted, Sent, Bye, ByeIgnored,
       Reads, sessions
  <2>2. {"220 service ready", Nothing} \subseteq Replies
    BY DEF Replies
  <2> QED
    BY <1>1, <1>2, <2>1, <2>2
<1>6. CASE SmtpNext
  BY <1>4, <1>5, <1>6 DEF SmtpNext
<1>7. CASE UNCHANGED <<sessions, clients>>
  BY <1>1, <1>7 DEF sessions
<1> QED
  BY <1>6, <1>7 DEF Next, vars

-----------------------------------------------------------------------------
(* The rows, and the sessions' knowledge of them.                            *)

RowOK(d, row) ==
  row.receiver \in Users /\ Home[row.receiver] = d /\ row.sender \in Address /\ row.mail \in Client

RowsOK == \A d \in Domain : \A n \in Keys(d) : RowOK(d, data[d][n])

\* The rows that table u has besides those of t are well formed, and empty.
Extends(d, t, u) ==
  /\ \E marked : Follows(t, u, marked)
  /\ \A n \in 1 .. Len(u) : n > Len(t) => RowOK(d, u[n]) /\ u[n].message = <<>>

LEMMA ExtendsSame ==
  ASSUME NEW d, NEW t, NEW u, NEW marked, Follows(t, u, marked), Len(u) = Len(t)
  PROVE  Extends(d, t, u)
  BY DEF Extends, Follows, Table

LEMMA RowsKept ==
  ASSUME TablesOK, RowsOK, \A d \in Domain : Extends(d, data[d], data'[d])
  PROVE  RowsOK' /\ \A d \in Domain : Keys(d) \subseteq Keys(d)'
<1> SUFFICES ASSUME NEW d \in Domain
             PROVE  /\ \A n \in 1 .. Len(data'[d]) : RowOK(d, data'[d][n])
                    /\ 1 .. Len(data[d]) \subseteq 1 .. Len(data'[d])
  BY DEF RowsOK, Keys
<1>1. PICK marked : Follows(data[d], data'[d], marked)
  BY DEF Extends
<1>2. Len(data[d]) \in Nat /\ Len(data'[d]) \in Nat /\ Len(data[d]) <= Len(data'[d])
  BY <1>1 DEF Follows, TablesOK, Table
<1>3. ASSUME NEW n \in 1 .. Len(data'[d]) PROVE RowOK(d, data'[d][n])
  <2>1. CASE n > Len(data[d])
    BY <2>1 DEF Extends
  <2>2. CASE n \in 1 .. Len(data[d])
    <3>1. RowOK(d, data[d][n])
      BY <2>2 DEF RowsOK, Keys
    <3> QED
      BY <1>1, <2>2, <3>1 DEF Follows, RowOK
  <2> QED
    BY <1>2, <2>1, <2>2
<1> QED
  BY <1>2, <1>3

LEMMA SameExtends ==
  ASSUME TablesOK, NEW d \in Domain PROVE Extends(d, data[d], data[d])
  BY FollowsSame, ExtendsSame

LEMMA OneExtends ==
  ASSUME TablesOK, NEW e, NEW t, data' = [data EXCEPT ![e] = t],
         e \in Domain => Extends(e, data[e], t)
  PROVE  \A d \in Domain : Extends(d, data[d], data'[d])
  BY SameExtends DEF TablesOK

LEMMA InsertExtends ==
  ASSUME TablesOK, NEW d \in Domain, NEW c \in Client, NEW from \in Address, NEW a \in Users, Home[a] = d
  PROVE  /\ Extends(d, data[d], insert(d, Row(c, from, a)).table)
         /\ Len(insert(d, Row(c, from, a)).table) = Len(data[d]) + 1
         /\ insert(d, Row(c, from, a)).key = Len(data[d]) + 1
         /\ Len(data[d]) \in Nat
<1> PICK row : row = Row(c, from, a)
  OBVIOUS
<1> PICK u : u = Append(data[d], row)
  OBVIOUS
<1>1. insert(d, row).table = u /\ insert(d, row).key = Len(data[d]) + 1
  BY DEF insert
<1>2. /\ Len(u) = Len(data[d]) + 1 /\ u[Len(data[d]) + 1] = row /\ Len(data[d]) \in Nat
  BY Inserted DEF TablesOK, Table
<1>3. \A n \in 1 .. Len(u) : n > Len(data[d]) => n = Len(data[d]) + 1
  BY <1>2
<1>4. RowOK(d, row) /\ row.message = <<>>
  BY DEF RowOK, Row
<1>5. Follows(data[d], u, {})
  BY <1>1, FollowsInsert
<1> QED
  BY <1>1, <1>2, <1>3, <1>4, <1>5 DEF Extends

LEMMA RcptRows ==
  ASSUME Dialogs, TablesOK, NEW s \in Session, RcptHere(s), Arg(s) \in Users
  PROVE  /\ \A d \in Domain : Extends(d, data[d], data'[d])
         /\ srv[s] \in Domain /\ data'[srv[s]] = insert(srv[s], Row(s[1], sender[s], Arg(s))).table
         /\ recvr_id' = [recvr_id EXCEPT ![s] = Append(@, Len(data[srv[s]]) + 1)]
         /\ Len(data'[srv[s]]) = Len(data[srv[s]]) + 1 /\ Len(data[srv[s]]) \in Nat
<1>1. s[1] \in Client /\ SessionOK(s)
  BY Parties DEF Dialogs, Circle
<1>2. pc[s] = "rcpt" /\ Home[Arg(s)] = srv[s]
  BY DEF RcptHere, AskedFor
<1>3. srv[s] \in Domain /\ sender[s] \in Address
  BY <1>1, <1>2 DEF SessionOK, Busy
<1> PICK new : new = insert(srv[s], Row(s[1], sender[s], Arg(s)))
  OBVIOUS
<1>4. /\ Extends(srv[s], data[srv[s]], new.table) /\ Len(new.table) = Len(data[srv[s]]) + 1
      /\ new.key = Len(data[srv[s]]) + 1 /\ Len(data[srv[s]]) \in Nat
  BY <1>1, <1>2, <1>3, InsertExtends
<1>5. /\ data' = [data EXCEPT ![srv[s]] = new.table]
      /\ recvr_id' = [recvr_id EXCEPT ![s] = Append(@, new.key)]
  BY DEF RcptHere
<1>6. \A d \in Domain : Extends(d, data[d], data'[d])
  BY <1>4, <1>5, OneExtends
<1>7. data'[srv[s]] = new.table
  BY <1>3, <1>5 DEF TablesOK
<1>8. recvr_id' = [recvr_id EXCEPT ![s] = Append(@, Len(data[srv[s]]) + 1)]
  BY <1>4, <1>5
<1> QED
  BY <1>3, <1>4, <1>6, <1>7, <1>8

\* Whatever a step does to the tables, it only adds rows, and good ones.
LEMMA AllExtend ==
  ASSUME Dialogs, MeantInv, [Next]_vars
  PROVE  \A d \in Domain : Extends(d, data[d], data'[d])
<1>0. TablesOK
  BY DEF MeantInv
<1>1. CASE UNCHANGED data
  BY <1>0, <1>1, SameExtends
<1>2. ASSUME NEW s \in Session, RcptHere(s) PROVE UNCHANGED data \/ Arg(s) \in Users
  BY <1>2 DEF RcptHere
<1>3. ASSUME NEW s \in Session, ReadText(s) \/ ReadNothing(s)
      PROVE  \A d \in Domain : Extends(d, data[d], data'[d])
  <2>1. PICK keys, words : data' = [data EXCEPT ![srv[s]] = update(srv[s], keys, words)]
    BY <1>3 DEF ReadText, ReadNothing
  <2>2. srv[s] \in Domain => Extends(srv[s], data[srv[s]], update(srv[s], keys, words))
    BY <1>0, FollowsUpdate, ExtendsSame
  <2> QED
    BY <1>0, <2>1, <2>2, OneExtends
<1>4. ASSUME NEW p \in Reader, NEW all \in BOOLEAN, List(p, all)
      PROVE  \A d \in Domain : Extends(d, data[d], data'[d])
  <2>1. data' = [data EXCEPT ![At(p)] = markread(At(p), read[p])]
    BY <1>4 DEF List
  <2>2. Extends(At(p), data[At(p)], markread(At(p), read[p]))
    BY <1>0, AtDomain, FollowsMark, ExtendsSame
  <2> QED
    BY <1>0, <2>1, <2>2, OneExtends
<1>5. CASE SmtpNext
  <2>1. \/ UNCHANGED data
        \/ \E s \in Session : RcptHere(s) \/ ReadText(s) \/ ReadNothing(s)
    BY <1>5 DEF SmtpNext, SessionStep, Helo, MailFrom, Quit, Eof, RcptThere, RelayHello, RelayFrom,
       RelayTo, RelayRset, RelayAsk, RelayAnswered, Rset, RsetDone, Data, Invalid, StartDone,
       ReadDot, DotDone, QuitDone, UserStep, ClientStep, Connect, Retype, AskTo, GiveUp,
       StartData, Type, TypeDot, Die, Hello, FromAnswered, Accepted, Refused, Reset, ResetDone,
       DataStarted, Sent, Bye, ByeIgnored, tables
  <2> QED
    BY <1>0, <1>1, <1>2, <1>3, <2>1, RcptRows
<1>6. CASE PopNext
  <2>1. \/ UNCHANGED data
        \/ \E p \in Reader : \E all \in BOOLEAN : List(p, all)
    BY <1>6 DEF PopNext, Login, ListAgain, SignOff, Abort, Retrieve, Delete, tables
  <2> QED
    BY <1>1, <1>4, <2>1
<1> QED
  BY <1>1, <1>5, <1>6 DEF Next, vars, tables

\* A session knows rows of its own table; RSET zeroes what it knows.
IdsOK ==
  \A s \in Session : \A n \in 1 .. Len(recvr_id[s]) : recvr_id[s][n] \in Keys(srv[s]) \cup {0}

\* A session serves its domain as long as it has rows.
LEMMA Serves ==
  ASSUME Dialogs, [Next]_vars, NEW s \in Session
  PROVE  Fresh(s) \/ (srv[s] \in Domain /\ srv'[s] = srv[s])
<1>1. pc[s] = "closed" => Fresh(s)
  BY Written
<1>2. pc[s] # "closed" => srv[s] \in Domain
  <2>1. SessionOK(s)
    BY Parties DEF Dialogs, Circle
  <2> QED
    BY <2>1 DEF SessionOK
<1>3. DOMAIN srv = Session
  BY DEF Dialogs, DialogTypes
<1>4. ASSUME NEW q \in Session, RcptThere(q), pc[s] # "closed" PROVE srv'[s] = srv[s]
  <2>1. PICK r \in Relay(q) : pc[r] = "closed" /\ srv' = [srv EXCEPT ![r] = Home[Arg(q)]]
    BY <1>4 DEF RcptThere
  <2> QED
    BY <1>3, <1>4, <2>1
<1>5. ASSUME NEW c \in Client, Connect(c), pc[s] # "closed" PROVE srv'[s] = srv[s]
  <2>1. pc[Of(c)] = "closed"
    <3>1. ClientTalk(c) /\ user[c] = "out"
      BY <1>5 DEF Dialogs, Circle, Connect
    <3>2. Asked(Of(c), "closed")
      BY <3>1 DEF ClientTalk, Dead, Asking, AskedOne
    <3> QED
      BY <3>2 DEF Asked, Idle
  <2>2. \E a \in Address : srv' = [srv EXCEPT ![Of(c)] = Home[a]]
    BY <1>5 DEF Connect
  <2> QED
    BY <1>3, <1>5, <2>1, <2>2
<1>6. \/ UNCHANGED srv
      \/ \E q \in Session : RcptThere(q)
      \/ \E c \in Client : Connect(c)
  BY DEF Next, vars, sessions, SmtpNext, SessionStep, Helo, MailFrom, Quit, Eof, RcptHere, RelayHello,
     RelayFrom, RelayTo, RelayRset, RelayAsk, RelayAnswered, Rset, RsetDone, Data, Invalid, StartDone,
     ReadText, ReadNothing, ReadDot, DotDone, QuitDone, UserStep, ClientStep, Retype, AskTo, GiveUp,
     StartData, Type, TypeDot, Die, Hello, FromAnswered, Accepted, Refused, Reset, ResetDone,
     DataStarted, Sent, Bye, ByeIgnored
<1> QED
  BY <1>1, <1>2, <1>4, <1>5, <1>6

LEMMA IdsStep ==
  ASSUME Dialogs, MeantInv, RowsOK, IdsOK, [Next]_vars
  PROVE  RowsOK' /\ IdsOK'
<1>1. RowsOK' /\ \A d \in Domain : Keys(d) \subseteq Keys(d)'
  BY AllExtend, RowsKept DEF MeantInv
<1> SUFFICES ASSUME NEW s \in Session, NEW n \in 1 .. Len(recvr_id'[s])
             PROVE  recvr_id'[s][n] \in Keys(srv[s])' \cup {0}
  BY <1>1 DEF IdsOK
<1>2. recvr_id \in [Session -> Seq(Nat)] /\ recvr_id[s] \in Seq(Nat) /\ Len(recvr_id[s]) \in Nat
  BY LenProperties DEF Dialogs, DialogTypes
<1>3. ASSUME NEW m \in 1 .. Len(recvr_id[s]) PROVE recvr_id[s][m] \in Keys(srv[s])' \cup {0}
  <2>1. ~Fresh(s)
    BY <1>2, <1>3 DEF Fresh
  <2>2. srv[s] \in Domain /\ srv'[s] = srv[s]
    BY <2>1, Serves
  <2>3. recvr_id[s][m] \in Keys(srv[s]) \cup {0}
    BY <1>3 DEF IdsOK
  <2>4. Keys(srv[s]) \subseteq 1 .. Len(data'[srv[s]])
    BY <1>1, <2>2 DEF Keys
  <2> QED
    BY <2>2, <2>3, <2>4 DEF Keys
<1>4. CASE recvr_id'[s] = recvr_id[s]
  BY <1>3, <1>4
<1>5. CASE RcptHere(s) /\ Arg(s) \in Users
  <2>1. /\ srv[s] \in Domain /\ Len(data'[srv[s]]) = Len(data[srv[s]]) + 1 /\ Len(data[srv[s]]) \in Nat
        /\ recvr_id'[s] = Append(recvr_id[s], Len(data[srv[s]]) + 1)
    BY <1>2, <1>5, RcptRows DEF MeantInv
  <2>2. srv' = srv
    BY <1>5 DEF RcptHere
  <2>3. PICK key : key = Len(data[srv[s]]) + 1
    OBVIOUS
  <2>4. key \in Nat /\ key \in 1 .. Len(data'[srv[s]])
    BY <2>1, <2>3
  <2>5. /\ Len(recvr_id'[s]) = Len(recvr_id[s]) + 1
        /\ recvr_id'[s][n] = IF n \in 1 .. Len(recvr_id[s]) THEN recvr_id[s][n] ELSE key
    BY <1>2, <2>1, <2>3, <2>4, AppendProperties
  <2> QED
    BY <1>3, <2>2, <2>4, <2>5 DEF Keys
<1>6. CASE RsetDone(s)
  <2>1. recvr_id'[s] = [m \in 1 .. Len(recvr_id[s]) |-> 0]
    BY <1>2, <1>6 DEF RsetDone
  <2>2. Len(recvr_id'[s]) = Len(recvr_id[s])
    BY <1>2, <2>1
  <2> QED
    BY <2>1, <2>2
<1>7. \/ recvr_id'[s] = recvr_id[s]
      \/ RcptHere(s) /\ Arg(s) \in Users
      \/ RsetDone(s)
  <2>1. \/ UNCHANGED recvr_id
        \/ \E q \in Session : RcptHere(q) \/ RsetDone(q)
    BY DEF Next, vars, sessions, SmtpNext, SessionStep, Helo, MailFrom, Quit, Eof, RcptThere, RelayHello,
       RelayFrom, RelayTo, RelayRset, RelayAsk, RelayAnswered, Rset, Data, Invalid, StartDone,
       ReadText, ReadNothing, ReadDot, DotDone, QuitDone, UserStep, ClientStep, Connect, Retype,
       AskTo, GiveUp, StartData, Type, TypeDot, Die, Hello, FromAnswered, Accepted, Refused, Reset,
       ResetDone, DataStarted, Sent, Bye, ByeIgnored
  <2>2. ASSUME NEW q \in Session, RcptHere(q)
        PROVE  UNCHANGED recvr_id \/ (recvr_id' = [recvr_id EXCEPT ![q] = recvr_id'[q]] /\ Arg(q) \in Users)
    <3>1. CASE Arg(q) \in Users
      <4>1. \E new : recvr_id' = [recvr_id EXCEPT ![q] = new]
        BY <2>2, <3>1 DEF RcptHere
      <4> QED
        BY <1>2, <3>1, <4>1
    <3>2. CASE Arg(q) \notin Users
      BY <2>2, <3>2 DEF RcptHere
    <3> QED
      BY <3>1, <3>2
  <2>3. ASSUME NEW q \in Session, RsetDone(q) PROVE \E new : recvr_id' = [recvr_id EXCEPT ![q] = new]
    BY <2>3 DEF RsetDone
  <2>4. ASSUME NEW q \in Session, RcptHere(q), q # s PROVE recvr_id'[s] = recvr_id[s]
    BY <1>2, <2>2, <2>4
  <2>5. ASSUME NEW q \in Session, RsetDone(q), q # s PROVE recvr_id'[s] = recvr_id[s]
    BY <1>2, <2>3, <2>5
  <2>6. RcptHere(s) => recvr_id'[s] = recvr_id[s] \/ Arg(s) \in Users
    BY <2>2
  <2> QED
    BY <2>1, <2>4, <2>5, <2>6
<1> QED
  BY <1>4, <1>5, <1>6, <1>7

TypesInv == MeantInv /\ Dialogs /\ RepliesOK /\ RowsOK /\ IdsOK

LEMMA TypesStep == TypesInv /\ [Next]_vars => TypesInv'
<1> SUFFICES ASSUME TypesInv, [Next]_vars PROVE TypesInv'
  OBVIOUS
<1>1. MeantInv /\ Dialogs /\ RepliesOK /\ RowsOK /\ IdsOK /\ TablesOK
  BY DEF TypesInv, MeantInv
<1> QED
  BY <1>1, MeantStep, DialogsStep, RepliesStep, IdsStep DEF TypesInv

LEMMA TypesInit == Init => TypesInv
<1> SUFFICES ASSUME Init PROVE TypesInv
  OBVIOUS
<1>1. RepliesOK
  BY DEF Init, SmtpInit, RepliesOK, Replies
<1>2. \A d \in Domain : Keys(d) = {}
  <2>1. data = [d \in Domain |-> <<>>]
    BY DEF Init, MailboxesInit
  <2> QED
    BY <2>1 DEF Keys
<1>3. RowsOK
  BY <1>2 DEF RowsOK
<1>4. IdsOK
  <2>1. recvr_id = [s \in Session |-> <<>>]
    BY DEF Init, SmtpInit
  <2>2. \A s \in Session : 1 .. Len(recvr_id[s]) = {}
    BY <2>1
  <2> QED
    BY <2>2 DEF IdsOK
<1> QED
  BY <1>1, <1>3, <1>4, MeantInit, DialogsInit DEF TypesInv

LEMMA TypesOK == TypesInv => TypeOK
<1> SUFFICES ASSUME TypesInv PROVE TypeOK
  OBVIOUS
<1>0. MeantInv /\ TablesOK /\ Dialogs /\ RepliesOK /\ RowsOK /\ IdsOK
  BY DEF TypesInv, MeantInv
<1>1. ASSUME NEW d \in Domain
      PROVE  /\ removed[d] \subseteq Keys(d)
             /\ \A n \in Keys(d) :
                  /\ data[d][n].receiver \in Users /\ Home[data[d][n].receiver] = d
                  /\ data[d][n].sender \in Address
                  /\ data[d][n].mail \in Client
  BY <1>0 DEF TablesOK, RowsOK, RowOK
<1>2. ASSUME NEW s \in Session
      PROVE  /\ srv[s] \in Domain \cup {Nothing}
             /\ reply[s] \in Replies
             /\ sender[s] \in Address \cup {Nobody}
             /\ \A n \in 1 .. Len(inbox[s]) : inbox[s][n] \in Writes
             /\ \A n \in 1 .. Len(recvr_id[s]) : recvr_id[s][n] \in Keys(srv[s]) \cup {0}
  <2>1. \A n \in 1 .. Len(inbox[s]) : inbox[s][n] \in Writes
    BY <1>0, Written
  <2>2. \A n \in 1 .. Len(recvr_id[s]) : recvr_id[s][n] \in Keys(srv[s]) \cup {0}
    BY <1>0 DEF IdsOK
  <2> QED
    BY <1>0, <2>1, <2>2 DEF RepliesOK, Dialogs, DialogTypes
<1>3. ASSUME NEW s \in Session
      PROVE  /\ \A n \in 1 .. Len(recvr[s]) : recvr[s][n] \in Relay(s) \cup {Of(s[1])}
             /\ \A n \in 1 .. Len(work[s]) : work[s][n].relay \in Relay(s)
             /\ pc[s] \in Conn => ask[s].relay \in Relay(s)
  <2> PICK c \in Client : c = s[1]
    BY Parties
  <2>1. SessionOK(s) /\ Circle(c)
    BY <1>0 DEF Dialogs, Circle
  <2>2. \A n \in 1 .. Len(recvr[s]) : recvr[s][n] \in Relay(s) \cup {Of(s[1])}
    BY <2>1, ElementOfSeq DEF SessionOK
  <2>3. ASSUME NEW n \in 1 .. Len(work[s]) PROVE work[s][n].relay \in Relay(s)
    <3>1. work[s] \in Seq([relay : Recvr(s), verb : Exchanges(s), asked : BOOLEAN])
      BY <2>1 DEF SessionOK, WorkOK
    <3>2. work[s][n] \in [relay : Recvr(s), verb : Exchanges(s), asked : BOOLEAN]
      BY <2>3, <3>1, ElementOfSeq
    <3>3. work[s][n].relay \in Recvr(s) /\ work[s][n].verb \in Exchanges(s)
      BY <3>2
    <3>4. pc[s] \in Busy
      BY <3>3 DEF Exchanges, Busy
    <3>5. \A m \in 1 .. Len(recvr[s]) : recvr[s][m] \in Relay(s)
      BY <2>1, <3>4, ElementOfSeq DEF SessionOK
    <3> QED
      BY <3>3, <3>5 DEF Recvr
  <2>4. pc[s] \in Conn => ask[s].relay \in Relay(s)
    <3>1. CASE s = Of(c)
      BY <2>1, <3>1 DEF Circle, AskOK
    <3>2. CASE s # Of(c)
      <4>1. s \in Relay(Of(c))
        BY <3>2, Parties
      <4> QED
        BY <2>1, <4>1 DEF Circle, RelayTalk
    <3> QED
      BY <3>1, <3>2
  <2> QED
    BY <2>2, <2>3, <2>4
<1>4. ASSUME NEW p \in Reader
      PROVE  /\ to_delete[p] \cup read[p] \subseteq Keys(At(p))
             /\ Len(screen[p]) = Len(msglist[p])
  BY <1>0 DEF MeantInv, SessionMeans, Mine
<1> QED
  BY <1>1, <1>2, <1>3, <1>4 DEF TypeOK, Conn

\* Whatever is written, read, relayed, delivered or lost on the way, a session
\* reads only commands and lines, is answered only with a reply of the protocol,
\* knows only rows of its own table, and works only for relays it has opened;
\* every row is of a user of the domain of its table (env_server, s2s_conn,
\* insert and processLIST).
THEOREM MailTypes == Spec => []TypeOK
  BY TypesInit, TypesStep, TypesOK, PTL DEF Spec
=============================================================================
