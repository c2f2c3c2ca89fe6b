----------------------------- MODULE NewsProofs -----------------------------
(* What holds of News for every number of users, articles and seconds.       *)
EXTENDS NewsProperties, SequenceTheorems, FiniteSetTheorems, TLAPS

\* Messages of a dialog that have not been read: none, one or two.
LEMMA Short ==
  ASSUME NEW a, NEW b
  PROVE  /\ <<a>> # <<>> /\ Len(<<a>>) = 1 /\ Head(<<a>>) = a /\ Tail(<<a>>) = <<>>
         /\ <<a, b>> # <<>> /\ Len(<<a, b>>) = 2 /\ Head(<<a, b>>) = a /\ Tail(<<a, b>>) = <<b>>
         /\ Append(<<>>, a) = <<a>> /\ Append(<<a>>, b) = <<a, b>>
         /\ SubSeq(<<a>>, 2, 1) = <<>>
         /\ SubSeq(<<a, b>>, 2, 2) = <<b>> /\ SubSeq(<<a, b>>, 3, 2) = <<>>
<1>1. <<a>> # <<>> /\ Len(<<a>>) = 1 /\ <<a, b>> # <<>> /\ Len(<<a, b>>) = 2
  OBVIOUS
<1>2. Head(<<a>>) = a /\ Head(<<a, b>>) = a
  OBVIOUS
<1>3. Tail(<<a>>) = <<>>
  OBVIOUS
<1>4. Tail(<<a, b>>) = <<b>>
  OBVIOUS
<1>5. Append(<<>>, a) = <<a>> 
  OBVIOUS
<1>6. Append(<<a>>, b) = <<a, b>>
  <2>1. <<a>> \in Seq({a, b}) /\ <<a, b>> \in Seq({a, b})
    OBVIOUS
  <2>2. /\ Append(<<a>>, b) \in Seq({a, b}) /\ Len(Append(<<a>>, b)) = 2
        /\ Append(<<a>>, b)[1] = a /\ Append(<<a>>, b)[2] = b
    BY <2>1, AppendProperties
  <2>3. Len(<<a, b>>) = 2 /\ \A i \in 1 .. 2 : <<a, b>>[i] = Append(<<a>>, b)[i]
    <3>1. \A i \in 1 .. 2 : i = 1 \/ i = 2
      OBVIOUS
    <3>2. <<a, b>>[1] = a /\ <<a, b>>[2] = b
      OBVIOUS
    <3> QED
      BY <2>2, <3>1, <3>2
  <2> QED
    BY <2>1, <2>2, <2>3, SeqEqual, Zenon
<1>7. SubSeq(<<a>>, 2, 1) = <<>> /\ SubSeq(<<a, b>>, 3, 2) = <<>>
  BY SubSeqEmpty
<1>8. SubSeq(<<a, b>>, 2, 2) = <<b>>
  <2>1. <<b>> \in Seq({a, b}) /\ \A i \in 2 .. 2 : <<a, b>>[i] \in {a, b}
    OBVIOUS
  <2>2. /\ SubSeq(<<a, b>>, 2, 2) \in Seq({a, b}) /\ Len(SubSeq(<<a, b>>, 2, 2)) = 1
        /\ SubSeq(<<a, b>>, 2, 2)[1] = <<a, b>>[2]
    BY <2>1, SubSeqProperties
  <2>3. Len(<<b>>) = 1 /\ \A i \in 1 .. 1 : <<b>>[i] = SubSeq(<<a, b>>, 2, 2)[i]
    <3>1. \A i \in 1 .. 1 : i = 1
      OBVIOUS
    <3>2. <<b>>[1] = b /\ <<a, b>>[2] = b
      OBVIOUS
    <3> QED
      BY <2>2, <3>1, <3>2
  <2> QED
    BY <2>1, <2>2, <2>3, SeqEqual, Zenon
<1> QED
  BY <1>1, <1>2, <1>3, <1>4, <1>5, <1>6, <1>7, <1>8

-----------------------------------------------------------------------------
(* The parts of the invariant.                                               *)

LibOK == now \in Seconds /\ dump \subseteq File /\ filed \in Seq(Name)

ReportOK ==
  /\ client \in [Reporters -> {"away", "waits"} \cup Fields]
  /\ typed \in [Reporters -> [group : Groups \cup {Other}, heading : Headings \cup {0}]]
  /\ pending \in [Reporters -> Seq({"identity", "y", "n"} \cup Fields)]
  /\ session \in [Reporters -> {"none", "identity", "open", "write"} \cup Fields]
  /\ desk \in [Reporters -> [name : Name \cup {NoName}, article : Nat, inode : Nat]]
  /\ swallowed \subseteq Reporters

ReadOK ==
  /\ reader \in [Readers -> {"away", "choose", "choice", "number", "article", "blank"}]
  /\ choice \in [Readers -> Groups \cup {Other}]
  /\ file_list \in [Readers -> SUBSET Name]
  /\ meant \in [Readers -> Name \cup {NoName}]
  /\ number \in [Readers -> Nat]
  /\ shown \in [Readers -> [kind : {"nothing", "text", "gone", "no such"}, text : SUBSET Articles]]

SweepOK ==
  /\ admin \in [Admins -> {"off", "password", "denied", "date", "prompt", "more", "done"}]
  /\ replies \in [Admins -> Seq({"y", "n", "more?"})]
  /\ inbox \in Seq(Message)
  /\ server \in {"password", "date", "more"} \cup Groups
  /\ cl_addr \in Admins \cup {Nobody}
  /\ date \in Dates
  /\ left \subseteq Articles
  /\ due \subseteq Articles
  /\ asked \in Dates

LEMMA TypeParts == TypeOK <=> LibOK /\ ReportOK /\ ReadOK /\ SweepOK
  BY DEF TypeOK, LibOK, ReportOK, ReadOK, SweepOK

\* A file has the name under which its article was filed, and its own name; what
\* it holds was filed under that name.
Kept ==
  /\ \A f \in dump : f.inode \in Filed /\ filed[f.inode] = f.name
  /\ \A f, g \in dump : f.name = g.name => f = g
  /\ \A f \in dump : \A n \in f.text : n \in Filed /\ filed[n] = f.name

-----------------------------------------------------------------------------
(* What filing, writing and deleting do to the library.                      *)

\* Articles filed before keep their names.
LEMMA FiledGrows ==
  ASSUME LibOK, NEW nm \in Name, filed' = Append(filed, nm)
  PROVE  /\ filed' \in Seq(Name)
         /\ NewArticle \in Filed' /\ NewArticle \notin Filed /\ NewArticle \in Articles
         /\ filed'[NewArticle] = nm
         /\ \A n \in Filed : n \in Filed' /\ filed'[n] = filed[n]
<1>1. filed \in Seq(Name) /\ Len(filed) \in Nat
  BY LenProperties DEF LibOK
<1>2. /\ filed' \in Seq(Name) /\ Len(filed') = Len(filed) + 1
      /\ \A n \in 1 .. Len(filed) : filed'[n] = filed[n]
      /\ filed'[Len(filed) + 1] = nm
  BY <1>1, AppendProperties
<1> QED
  BY <1>1, <1>2 DEF Filed, NewArticle, Articles

LEMMA TruncateKeeps ==
  ASSUME LibOK, Kept, NEW nm \in Name, Truncate(nm)
  PROVE  dump' \subseteq File /\ Kept'
<1>1. /\ NewArticle \in Filed' /\ NewArticle \notin Filed /\ NewArticle \in Articles
      /\ filed'[NewArticle] = nm
      /\ \A n \in Filed : n \in Filed' /\ filed'[n] = filed[n]
  BY FiledGrows DEF Truncate
<1>2. CASE Named(nm) = {}
  <2> PICK new : new = [name |-> nm, inode |-> NewArticle, text |-> {}]
    OBVIOUS
  <2>1. new \in File /\ new.name = nm /\ new.inode = NewArticle /\ new.text = {}
    BY <1>1 DEF File
  <2>2. dump' = dump \cup {new}
    BY <1>2 DEF Truncate
  <2>3. \A f \in dump : f.name # nm
    BY <1>2 DEF Named
  <2>4. dump' \subseteq File
    BY <2>1, <2>2 DEF LibOK
  <2>5. \A f \in dump' : f.inode \in Filed' /\ filed'[f.inode] = f.name
    BY <1>1, <2>1, <2>2 DEF Kept
  <2>6. \A f, g \in dump' : f.name = g.name => f = g
    BY <2>1, <2>2, <2>3 DEF Kept
  <2>7. \A f \in dump' : \A n \in f.text : n \in Filed' /\ filed'[n] = f.name
    BY <1>1, <2>1, <2>2 DEF Kept
  <2> QED
    BY <2>4, <2>5, <2>6, <2>7 DEF Kept
<1>3. CASE Named(nm) # {}
  <2>1. \A f \in dump' : \E o \in dump :
          /\ f = o \/ f = [o EXCEPT !.text = {}]
          /\ f \in File /\ f.name = o.name /\ f.inode = o.inode /\ f.text \subseteq o.text
          /\ o.name # nm => f = o
          /\ o.name = nm => f.text = {}
    BY <1>3 DEF Truncate, LibOK, File
  <2>2. dump' \subseteq File
    BY <2>1
  <2>3. \A f \in dump' : f.inode \in Filed' /\ filed'[f.inode] = f.name
    BY <1>1, <2>1 DEF Kept
  <2>4. ASSUME NEW f \in dump', NEW g \in dump', f.name = g.name PROVE f = g
    <3>1. dump' = {IF f1.name = nm THEN [f1 EXCEPT !.text = {}] ELSE f1 : f1 \in dump}
      BY <1>3 DEF Truncate
    <3>2. PICK o \in dump : f = IF o.name = nm THEN [o EXCEPT !.text = {}] ELSE o
      BY <3>1
    <3>3. PICK q \in dump : g = IF q.name = nm THEN [q EXCEPT !.text = {}] ELSE q
      BY <3>1
    <3>4. f.name = o.name /\ g.name = q.name
      BY <3>2, <3>3 DEF LibOK, File
    <3> QED
      BY <2>4, <3>2, <3>3, <3>4 DEF Kept
  <2>5. \A f \in dump' : \A n \in f.text : n \in Filed' /\ filed'[n] = f.name
    BY <1>1, <2>1 DEF Kept
  <2> QED
    BY <2>2, <2>3, <2>4, <2>5 DEF Kept
<1> QED
  BY <1>2, <1>3

LEMMA WriteKeeps ==
  ASSUME LibOK, Kept, UNCHANGED filed, NEW n \in Filed, NEW inode \in Filed,
         filed[n] = filed[inode], Write(n, inode)
  PROVE  dump' \subseteq File /\ Kept'
<1>0. PICK leftover \in BOOLEAN :
        dump' = {IF f.inode = inode
                 THEN [f EXCEPT !.text = {n} \cup (IF leftover THEN @ ELSE {})]
                 ELSE f : f \in dump}
  BY DEF Write
<1> DEFINE Written(f) == IF f.inode = inode
                         THEN [f EXCEPT !.text = {n} \cup (IF leftover THEN f.text ELSE {})]
                         ELSE f
<1>1. dump' = {Written(f) : f \in dump}
  BY <1>0 DEF LibOK, File
<1>2. n \in Articles
  BY LenProperties DEF Filed, Articles, LibOK
<1>3. ASSUME NEW f \in dump
      PROVE  /\ Written(f) \in File /\ Written(f).name = f.name
             /\ Written(f).inode = f.inode
             /\ Written(f).text \subseteq f.text \cup {n}
             /\ f.inode # inode => Written(f) = f
  BY <1>2 DEF LibOK, File
<1> HIDE DEF Written
<1>4. dump' \subseteq File
  BY <1>1, <1>3
<1>5. \A f \in dump' : f.inode \in Filed' /\ filed'[f.inode] = f.name
  BY <1>1, <1>3 DEF Kept, Filed
<1>6. \A f, g \in dump' : f.name = g.name => f = g
  BY <1>1, <1>3 DEF Kept
<1>7. ASSUME NEW f \in dump, NEW m \in Written(f).text
      PROVE  m \in Filed /\ filed[m] = f.name
  <2>1. CASE m \in f.text
    BY <2>1 DEF Kept
  <2>2. CASE m = n /\ f.inode = inode
    BY <2>2 DEF Kept
  <2> QED
    BY <1>3, <2>1, <2>2
<1>8. \A f \in dump' : \A m \in f.text : m \in Filed' /\ filed'[m] = f.name
  BY <1>1, <1>3, <1>7 DEF Filed
<1> QED
  BY <1>4, <1>5, <1>6, <1>8 DEF Kept

LEMMA FewerKeeps ==
  ASSUME LibOK, Kept, UNCHANGED filed, dump' \subseteq dump
  PROVE  dump' \subseteq File /\ Kept'
  BY DEF LibOK, Kept, Filed

-----------------------------------------------------------------------------
(* A reporter and its session.                                               *)

At(r, c, s, p) == client[r] = c /\ session[r] = s /\ pending[r] = p
GroupGiven(r) == typed[r].group \in Groups
HeadingGiven(r) == typed[r].heading \in Headings

\* Where the dialog of a reporter with its session may be. The last line is the
\* dialog that is stuck, since the group was read with the identity.
Talk(r) ==
  \/ client[r] = "away" /\ session[r] = "none"
  \/ At(r, "away", "more", <<"n">>)
  \/ At(r, "group", "identity", <<"identity">>)
  \/ At(r, "group", "group", <<>>)
  \/ At(r, "group", "more", <<"y">>)
  \/ /\ GroupGiven(r)
     /\ \/ At(r, "waits", "identity", <<"identity", "group">>)
        \/ At(r, "waits", "group", <<"group">>)
        \/ At(r, "waits", "more", <<"y", "group">>)
        \/ At(r, "date", "date", <<>>)
        \/ At(r, "waits", "date", <<"date">>)
        \/ At(r, "heading", "heading", <<>>)
  \/ /\ GroupGiven(r) /\ HeadingGiven(r)
     /\ \/ At(r, "waits", "heading", <<"heading">>)
        \/ At(r, "content", "content", <<>>)
        \/ At(r, "waits", "content", <<"content">>)
  \/ At(r, "waits", "open", <<>>) /\ desk[r].name \in Name
  \/ At(r, "waits", "write", <<>>)
  \/ At(r, "more", "more", <<>>)
  \/ At(r, "waits", "group", <<>>) /\ r \in swallowed

Talks == \A r \in Reporters : Talk(r)

\* The file a session has open is one of the name it was given.
DeskAt(r) == session[r] = "write" =>
  /\ desk[r].article \in Filed /\ filed[desk[r].article] = desk[r].name
  /\ desk[r].inode \in Filed /\ filed[desk[r].inode] = desk[r].name

DeskKept == \A r \in Reporters : DeskAt(r)

\* Types of what a message leaves in a dialog.
Says == {"identity", "y", "n"} \cup Fields

LEMMA PendingType ==
  ASSUME ReportOK, NEW r \in Reporters
  PROVE  /\ \A s \in Says : Append(pending[r], s) \in Seq(Says)
         /\ pending[r] # <<>> => Tail(pending[r]) \in Seq(Says)
         /\ \A k \in 1 .. Len(pending[r]) :
              SubSeq(pending[r], k + 1, Len(pending[r])) \in Seq(Says)
<1>1. pending[r] \in Seq(Says)
  BY DEF ReportOK, Says
<1>2. Len(pending[r]) \in Nat /\ \A i \in 1 .. Len(pending[r]) : pending[r][i] \in Says
  BY <1>1, ElementOfSeq, LenProperties
<1>3. \A s \in Says : Append(pending[r], s) \in Seq(Says)
  BY <1>1, AppendProperties
<1>4. pending[r] # <<>> => Tail(pending[r]) \in Seq(Says)
  BY <1>1, HeadTailProperties
<1>5. ASSUME NEW k \in 1 .. Len(pending[r])
      PROVE  SubSeq(pending[r], k + 1, Len(pending[r])) \in Seq(Says)
  <2>1. \A i \in k + 1 .. Len(pending[r]) : pending[r][i] \in Says
    BY <1>2
  <2> QED
    BY <1>2, <2>1, SubSeqProperties
<1> QED
  BY <1>3, <1>4, <1>5

\* Steps of the client.
LEMMA TypesType ==
  ASSUME ReportOK, NEW r \in Reporters, NEW field, NEW says \in Says,
         NEW next \in {"away", "waits"} \cup Fields, Types(r, field, says, next),
         typed' \in [Reporters -> [group : Groups \cup {Other}, heading : Headings \cup {0}]]
  PROVE  ReportOK'
<1>1. client' \in [Reporters -> {"away", "waits"} \cup Fields]
  BY DEF Types, ReportOK
<1>2. pending' \in [Reporters -> Seq(Says)]
  BY PendingType DEF Types, ReportOK, Says
<1> QED
  BY <1>1, <1>2 DEF Types, ReportOK, Says

LEMMA ClientStepType ==
  ASSUME ReportOK, NEW r \in Reporters, ClientStep(r)
  PROVE  ReportOK'
<1> USE DEF Fields, Says
<1>1. CASE Connect(r)
  <2>1. /\ client' \in [Reporters -> {"away", "waits"} \cup Fields]
        /\ session' \in [Reporters -> {"none", "identity", "open", "write"} \cup Fields]
    BY <1>1 DEF Connect, ReportOK
  <2>2. Untyped \in [group : Groups \cup {Other}, heading : Headings \cup {0}]
    BY DEF Untyped
  <2>3. typed' \in [Reporters -> [group : Groups \cup {Other}, heading : Headings \cup {0}]]
    BY <1>1, <2>2 DEF Connect, ReportOK
  <2>4. <<"identity">> \in Seq(Says)
    OBVIOUS
  <2>5. pending' \in [Reporters -> Seq(Says)]
    BY <1>1, <2>4 DEF Connect, ReportOK
  <2> QED
    BY <1>1, <2>1, <2>3, <2>5 DEF Connect, ReportOK
<1>2. CASE \E g \in Groups : TypeGroup(r, g)
  <2>1. PICK g \in Groups : TypeGroup(r, g)
    BY <1>2
  <2>2. typed' \in [Reporters -> [group : Groups \cup {Other}, heading : Headings \cup {0}]]
    BY <2>1 DEF TypeGroup, ReportOK
  <2> QED
    BY <2>1, <2>2, TypesType DEF TypeGroup
<1>3. CASE \E h \in Headings : TypeHeading(r, h)
  <2>1. PICK h \in Headings : TypeHeading(r, h)
    BY <1>3
  <2>2. typed' \in [Reporters -> [group : Groups \cup {Other}, heading : Headings \cup {0}]]
    BY <2>1 DEF TypeHeading, ReportOK
  <2> QED
    BY <2>1, <2>2, TypesType DEF TypeHeading
<1>4. CASE TypeDate(r) \/ TypeContent(r) \/ TypeMore(r)
  <2>1. typed' \in [Reporters -> [group : Groups \cup {Other}, heading : Headings \cup {0}]]
    BY <1>4 DEF TypeDate, TypeContent, TypeMore, ReportOK
  <2>2. \/ Types(r, "date", "date", "waits") \/ Types(r, "content", "content", "waits")
        \/ Types(r, "more", "y", "group") \/ Types(r, "more", "n", "away")
    BY <1>4 DEF TypeDate, TypeContent, TypeMore
  <2> QED
    BY <2>1, <2>2, TypesType
<1>5. CASE HangUp(r)
  BY <1>5 DEF HangUp, ReportOK
<1> QED
  BY <1>1, <1>2, <1>3, <1>4, <1>5 DEF ClientStep

LEMMA ClientStepTalks ==
  ASSUME ReportOK, NEW r \in Reporters, Talk(r), ClientStep(r)
  PROVE  Talk(r)'
<1> USE DEF At, GroupGiven, HeadingGiven
<1>1. CASE Connect(r)
  <2>1. /\ client'[r] = "group" /\ session'[r] = "identity" /\ pending'[r] = <<"identity">>
    BY <1>1 DEF Connect, ReportOK
  <2> QED
    BY <2>1 DEF Talk
<1>2. CASE \E g \in Groups : TypeGroup(r, g)
  <2>1. PICK g \in Groups : TypeGroup(r, g)
    BY <1>2
  <2>2. /\ client[r] = "group" /\ client'[r] = "waits" /\ session'[r] = session[r]
        /\ pending'[r] = Append(pending[r], "group") /\ typed'[r].group = g
    BY <2>1 DEF TypeGroup, Types, ReportOK
  <2>3. \/ session[r] = "identity" /\ pending[r] = <<"identity">>
        \/ session[r] = "group" /\ pending[r] = <<>>
        \/ session[r] = "more" /\ pending[r] = <<"y">>
    BY <2>2 DEF Talk
  <2>4. \/ session[r] = "identity" /\ pending'[r] = <<"identity", "group">>
        \/ session[r] = "group" /\ pending'[r] = <<"group">>
        \/ session[r] = "more" /\ pending'[r] = <<"y", "group">>
    <3>1. /\ Append(<<"identity">>, "group") = <<"identity", "group">>
          /\ Append(<<>>, "group") = <<"group">>
          /\ Append(<<"y">>, "group") = <<"y", "group">>
      BY Short
    <3> QED
      BY <2>2, <2>3, <3>1, Zenon
  <2> QED
    BY <2>2, <2>4 DEF Talk
<1>3. CASE TypeDate(r)
  <2>1. /\ client[r] = "date" /\ client'[r] = "waits" /\ session'[r] = session[r]
        /\ pending'[r] = Append(pending[r], "date") /\ typed'[r] = typed[r]
    BY <1>3 DEF TypeDate, Types, ReportOK
  <2>2. session[r] = "date" /\ pending[r] = <<>> /\ GroupGiven(r)
    BY <2>1 DEF Talk
  <2>3. pending'[r] = <<"date">>
    BY <2>1, <2>2, Short
  <2> QED
    BY <2>1, <2>2, <2>3 DEF Talk
<1>4. CASE \E h \in Headings : TypeHeading(r, h)
  <2>1. PICK h \in Headings : TypeHeading(r, h)
    BY <1>4
  <2>2. /\ client[r] = "heading" /\ client'[r] = "waits" /\ session'[r] = session[r]
        /\ pending'[r] = Append(pending[r], "heading")
        /\ typed'[r].heading = h /\ typed'[r].group = typed[r].group
    BY <2>1 DEF TypeHeading, Types, ReportOK
  <2>3. session[r] = "heading" /\ pending[r] = <<>> /\ GroupGiven(r)
    BY <2>2 DEF Talk
  <2>4. pending'[r] = <<"heading">>
    BY <2>2, <2>3, Short
  <2> QED
    BY <2>2, <2>3, <2>4 DEF Talk
<1>5. CASE TypeContent(r)
  <2>1. /\ client[r] = "content" /\ client'[r] = "waits" /\ session'[r] = session[r]
        /\ pending'[r] = Append(pending[r], "content") /\ typed'[r] = typed[r]
    BY <1>5 DEF TypeContent, Types, ReportOK
  <2>2. session[r] = "content" /\ pending[r] = <<>> /\ GroupGiven(r) /\ HeadingGiven(r)
    BY <2>1 DEF Talk
  <2>3. pending'[r] = <<"content">>
    BY <2>1, <2>2, Short
  <2> QED
    BY <2>1, <2>2, <2>3 DEF Talk
<1>6. CASE TypeMore(r)
  <2>1. /\ client[r] = "more" /\ session'[r] = session[r]
        /\ \/ client'[r] = "group" /\ pending'[r] = Append(pending[r], "y")
           \/ client'[r] = "away" /\ pending'[r] = Append(pending[r], "n")
    BY <1>6 DEF TypeMore, Types, ReportOK
  <2>2. session[r] = "more" /\ pending[r] = <<>>
    BY <2>1 DEF Talk
  <2>3. Append(pending[r], "y") = <<"y">> /\ Append(pending[r], "n") = <<"n">>
    BY <2>2, Short
  <2> QED
    BY <2>1, <2>2, <2>3 DEF Talk
<1>7. CASE HangUp(r)
  BY <1>7 DEF HangUp, ReportOK, Talk
<1> QED
  BY <1>1, <1>2, <1>3, <1>4, <1>5, <1>6, <1>7 DEF ClientStep

\* Steps of the session that leave the library alone.
LEMMA ReadsType ==
  ASSUME ReportOK, NEW r \in Reporters, NEW field, NEW says,
         NEW next \in {"none", "identity", "open", "write"} \cup Fields,
         Reads(r, field, says, next)
  PROVE  /\ session' \in [Reporters -> {"none", "identity", "open", "write"} \cup Fields]
         /\ pending' \in [Reporters -> Seq(Says)]
<1>1. Tail(pending[r]) \in Seq(Says)
  BY PendingType DEF Reads
<1> QED
  BY <1>1 DEF Reads, ReportOK, Says

ReadStep(r) == ReadIdentity(r) \/ ReadGroup(r) \/ ReadDate(r) \/ ReadHeading(r)
                 \/ ReadContent(r) \/ ReadMore(r)

LEMMA ReadStepType ==
  ASSUME LibOK, ReportOK, NEW r \in Reporters, Talk(r), ReadStep(r)
  PROVE  ReportOK'
<1>1. CASE ReadIdentity(r)
  <2>1. pending' \in [Reporters -> Seq(Says)]
    BY <1>1, PendingType DEF ReadIdentity, ReportOK, Says
  <2>2. session' \in [Reporters -> {"none", "identity", "open", "write"} \cup Fields]
    BY <1>1 DEF ReadIdentity, ReportOK, Fields
  <2> QED
    BY <1>1, <2>1, <2>2 DEF ReadIdentity, ReportOK, Says
<1>2. CASE ReadGroup(r) \/ ReadDate(r) \/ ReadHeading(r)
  <2>1. \/ Reads(r, "group", "group", "date") /\ Prompts(r, "date")
        \/ Reads(r, "date", "date", "heading") /\ Prompts(r, "heading")
        \/ Reads(r, "heading", "heading", "content") /\ Prompts(r, "content")
    BY <1>2 DEF ReadGroup, ReadDate, ReadHeading
  <2>2. /\ session' \in [Reporters -> {"none", "identity", "open", "write"} \cup Fields]
        /\ pending' \in [Reporters -> Seq(Says)]
    BY <2>1, ReadsType DEF Fields
  <2>3. client' \in [Reporters -> {"away", "waits"} \cup Fields]
    BY <2>1 DEF Prompts, ReportOK, Fields
  <2> QED
    BY <1>2, <2>2, <2>3 DEF ReadGroup, ReadDate, ReadHeading, ReportOK, Says
<1>3. CASE ReadContent(r)
  <2>1. /\ session' \in [Reporters -> {"none", "identity", "open", "write"} \cup Fields]
        /\ pending' \in [Reporters -> Seq(Says)]
    BY <1>3, ReadsType DEF ReadContent
  <2>2. Untyped \in [group : Groups \cup {Other}, heading : Headings \cup {0}]
    BY DEF Untyped
  <2>3. typed' \in [Reporters -> [group : Groups \cup {Other}, heading : Headings \cup {0}]]
    BY <1>3, <2>2 DEF ReadContent, ReportOK
  <2>4. session[r] = "content" /\ pending[r] # <<>>
    BY <1>3 DEF ReadContent, Reads
  <2>5. GroupGiven(r) /\ HeadingGiven(r)
    BY <2>4 DEF Talk, At
  <2>6. [group |-> typed[r].group, time |-> now, heading |-> typed[r].heading] \in Name
    BY <2>5 DEF GroupGiven, HeadingGiven, Name, LibOK
  <2>7. desk' \in [Reporters -> [name : Name \cup {NoName}, article : Nat, inode : Nat]]
    BY <1>3, <2>6 DEF ReadContent, ReportOK
  <2> QED
    BY <1>3, <2>1, <2>3, <2>7 DEF ReadContent, ReportOK, Says
<1>4. CASE ReadMore(r)
  <2>1. Reads(r, "more", "y", "group") \/ Reads(r, "more", "n", "none")
    BY <1>4 DEF ReadMore
  <2>2. /\ session' \in [Reporters -> {"none", "identity", "open", "write"} \cup Fields]
        /\ pending' \in [Reporters -> Seq(Says)]
    BY <2>1, ReadsType DEF Fields
  <2> QED
    BY <1>4, <2>2 DEF ReadMore, ReportOK, Says
<1> QED
  BY <1>1, <1>2, <1>3, <1>4 DEF ReadStep

LEMMA ReadStepTalks ==
  ASSUME LibOK, ReportOK, NEW r \in Reporters, Talk(r), ReadStep(r)
  PROVE  Talk(r)'
<1> USE DEF At, GroupGiven, HeadingGiven
<1>1. CASE ReadIdentity(r)
  <2>1. PICK k \in 1 .. Len(pending[r]) :
          /\ pending'[r] = SubSeq(pending[r], k + 1, Len(pending[r]))
          /\ swallowed' = IF k > 1 THEN swallowed \cup {r} ELSE swallowed
    BY <1>1 DEF ReadIdentity, ReportOK
  <2>2. /\ session[r] = "identity" /\ session'[r] = "group" /\ pending[r] # <<>>
        /\ client'[r] = client[r] /\ typed'[r] = typed[r]
    BY <1>1 DEF ReadIdentity, ReportOK
  <2>3. \/ client[r] = "group" /\ pending[r] = <<"identity">>
        \/ client[r] = "waits" /\ pending[r] = <<"identity", "group">> /\ GroupGiven(r)
    BY <2>2 DEF Talk
  <2>4. CASE client[r] = "group" /\ pending[r] = <<"identity">>
    <3>1. Len(pending[r]) = 1 /\ SubSeq(<<"identity">>, 2, 1) = <<>>
      BY <2>4, Short
    <3>2. k = 1
      BY <3>1
    <3>3. pending'[r] = <<>>
      BY <2>1, <2>4, <3>1, <3>2
    <3> QED
      BY <2>2, <2>4, <3>3 DEF Talk
  <2>5. CASE client[r] = "waits" /\ pending[r] = <<"identity", "group">> /\ GroupGiven(r)
    <3>1. /\ Len(pending[r]) = 2 /\ SubSeq(<<"identity", "group">>, 2, 2) = <<"group">>
          /\ SubSeq(<<"identity", "group">>, 3, 2) = <<>>
      BY <2>5, Short
    <3>2. k = 1 \/ k = 2
      BY <3>1
    <3>3. CASE k = 1
      <4>1. pending'[r] = <<"group">>
        BY <2>1, <2>5, <3>1, <3>3
      <4> QED
        BY <2>2, <2>5, <4>1 DEF Talk
    <3>4. CASE k = 2
      <4>1. pending'[r] = <<>> /\ r \in swallowed'
        BY <2>1, <2>5, <3>1, <3>4
      <4> QED
        BY <2>2, <2>5, <4>1 DEF Talk
    <3> QED
      BY <3>2, <3>3, <3>4
  <2> QED
    BY <2>3, <2>4, <2>5
<1>2. CASE ReadGroup(r)
  <2>1. /\ session[r] = "group" /\ pending[r] # <<>> /\ session'[r] = "date"
        /\ client'[r] = "date" /\ typed'[r] = typed[r] /\ pending'[r] = Tail(pending[r])
    BY <1>2 DEF ReadGroup, Reads, Prompts, ReportOK
  <2>2. pending[r] = <<"group">> /\ GroupGiven(r)
    BY <2>1 DEF Talk
  <2>3. pending'[r] = <<>>
    BY <2>1, <2>2, Short
  <2> QED
    BY <2>1, <2>2, <2>3 DEF Talk
<1>3. CASE ReadDate(r)
  <2>1. /\ session[r] = "date" /\ pending[r] # <<>> /\ session'[r] = "heading"
        /\ client'[r] = "heading" /\ typed'[r] = typed[r] /\ pending'[r] = Tail(pending[r])
    BY <1>3 DEF ReadDate, Reads, Prompts, ReportOK
  <2>2. pending[r] = <<"date">> /\ GroupGiven(r)
    BY <2>1 DEF Talk
  <2>3. pending'[r] = <<>>
    BY <2>1, <2>2, Short
  <2> QED
    BY <2>1, <2>2, <2>3 DEF Talk
<1>4. CASE ReadHeading(r)
  <2>1. /\ session[r] = "heading" /\ pending[r] # <<>> /\ session'[r] = "content"
        /\ client'[r] = "content" /\ typed'[r] = typed[r] /\ pending'[r] = Tail(pending[r])
    BY <1>4 DEF ReadHeading, Reads, Prompts, ReportOK
  <2>2. pending[r] = <<"heading">> /\ GroupGiven(r) /\ HeadingGiven(r)
    BY <2>1 DEF Talk
  <2>3. pending'[r] = <<>>
    BY <2>1, <2>2, Short
  <2> QED
    BY <2>1, <2>2, <2>3 DEF Talk
<1>5. CASE ReadContent(r)
  <2>1. /\ session[r] = "content" /\ pending[r] # <<>> /\ session'[r] = "open"
        /\ client'[r] = client[r] /\ pending'[r] = Tail(pending[r])
        /\ desk'[r].name = [group |-> typed[r].group, time |-> now, heading |-> typed[r].heading]
    BY <1>5 DEF ReadContent, Reads, ReportOK
  <2>2. pending[r] = <<"content">> /\ client[r] = "waits" /\ GroupGiven(r) /\ HeadingGiven(r)
    BY <2>1 DEF Talk
  <2>3. pending'[r] = <<>>
    BY <2>1, <2>2, Short
  <2>4. desk'[r].name \in Name
    BY <2>1, <2>2 DEF Name, LibOK
  <2> QED
    BY <2>1, <2>2, <2>3, <2>4 DEF Talk, Name
<1>6. CASE ReadMore(r)
  <2>1. /\ session[r] = "more" /\ pending[r] # <<>>
        /\ client'[r] = client[r] /\ typed'[r] = typed[r] /\ pending'[r] = Tail(pending[r])
        /\ \/ Head(pending[r]) = "y" /\ session'[r] = "group"
           \/ Head(pending[r]) = "n" /\ session'[r] = "none"
    BY <1>6 DEF ReadMore, Reads, ReportOK
  <2>2. \/ client[r] = "away" /\ pending[r] = <<"n">>
        \/ client[r] = "group" /\ pending[r] = <<"y">>
        \/ client[r] = "waits" /\ pending[r] = <<"y", "group">> /\ GroupGiven(r)
    BY <2>1 DEF Talk
  <2>3. /\ Head(<<"n">>) = "n" /\ Tail(<<"n">>) = <<>>
        /\ Head(<<"y">>) = "y" /\ Tail(<<"y">>) = <<>>
        /\ Head(<<"y", "group">>) = "y" /\ Tail(<<"y", "group">>) = <<"group">>
    BY Short
  <2>4. \/ client'[r] = "away" /\ session'[r] = "none"
        \/ client'[r] = "group" /\ session'[r] = "group" /\ pending'[r] = <<>>
        \/ client'[r] = "waits" /\ session'[r] = "group" /\ pending'[r] = <<"group">>
           /\ GroupGiven(r)
    BY <2>1, <2>2, <2>3
  <2> QED
    BY <2>1, <2>4 DEF Talk
<1> QED
  BY <1>1, <1>2, <1>3, <1>4, <1>5, <1>6 DEF ReadStep

-----------------------------------------------------------------------------
(* The session opens and writes its file.                                    *)

\* The file is opened, or fopen fails.
Opened(r) ==
  /\ session[r] = "open" /\ Truncate(desk[r].name)
  /\ session' = [session EXCEPT ![r] = "write"]
  /\ desk' = [desk EXCEPT ![r].article = NewArticle,
                          ![r].inode = IF Named(desk[r].name) = {} THEN NewArticle
                                       ELSE (CHOOSE f \in Named(desk[r].name) : TRUE).inode]
  /\ UNCHANGED <<client, typed, pending, swallowed>>

NotOpened(r) ==
  /\ session[r] = "open"
  /\ session' = [session EXCEPT ![r] = "none"]
  /\ client' = [client EXCEPT ![r] = "away"]
  /\ desk' = [desk EXCEPT ![r] = NoDesk]
  /\ UNCHANGED <<typed, pending, swallowed, library>>

LEMMA OpenFileIs ==
  ASSUME NEW r \in Reporters, OpenFile(r)
  PROVE  Opened(r) \/ NotOpened(r)
  BY DEF OpenFile, Opened, NotOpened

\* A file that is empty is open.
EmptyOpen == \A f \in dump : f.text = {} =>
  \E r \in Reporters : session[r] = "write" /\ desk[r].inode = f.inode

\* What a session that opens a file gets: the file of that name.
LEMMA OpenedDesk ==
  ASSUME LibOK, ReportOK, Kept, NEW r \in Reporters, Talk(r), Opened(r)
  PROVE  /\ desk[r].name \in Name /\ desk'[r].name = desk[r].name
         /\ desk'[r].article = NewArticle
         /\ IF Named(desk[r].name) = {} THEN desk'[r].inode = NewArticle
            ELSE /\ desk'[r].inode \in Filed /\ filed[desk'[r].inode] = desk[r].name
                 /\ \A f \in Named(desk[r].name) : f.inode = desk'[r].inode
         /\ desk'[r].inode \in Nat /\ NewArticle \in Nat
         /\ \A q \in Reporters \ {r} : desk'[q] = desk[q]
<1>1. desk[r].name \in Name
  BY DEF Opened, Talk, At
<1> PICK nm : nm = desk[r].name
  OBVIOUS
<1>2. Len(filed) \in Nat
  BY LenProperties DEF LibOK
<1>3. NewArticle \in Nat
  BY <1>2 DEF NewArticle
<1>4. /\ desk'[r].name = nm /\ desk'[r].article = NewArticle
      /\ desk'[r].inode = IF Named(nm) = {} THEN NewArticle
                          ELSE (CHOOSE f \in Named(nm) : TRUE).inode
      /\ \A q \in Reporters \ {r} : desk'[q] = desk[q]
  BY DEF Opened, ReportOK
<1>5. ASSUME Named(nm) # {}
      PROVE  /\ desk'[r].inode \in Filed /\ filed[desk'[r].inode] = nm
             /\ \A f \in Named(nm) : f.inode = desk'[r].inode
  <2> PICK g : g = CHOOSE f \in Named(nm) : TRUE
    OBVIOUS
  <2>1. g \in Named(nm)
    BY <1>5
  <2>2. desk'[r].inode = g.inode
    BY <1>4, <1>5
  <2>3. g \in dump /\ g.name = nm /\ \A f \in Named(nm) : f = g
    BY <2>1 DEF Named, Kept
  <2> QED
    BY <2>2, <2>3 DEF Kept
<1>6. \A n \in Filed : n \in Nat
  BY <1>2 DEF Filed
<1> QED
  BY <1>1, <1>3, <1>4, <1>5, <1>6

LEMMA OpenedStep ==
  ASSUME LibOK, ReportOK, Kept, DeskKept, EmptyOpen, NEW r \in Reporters, Talk(r), Opened(r)
  PROVE  ReportOK' /\ Talk(r)' /\ Kept' /\ DeskKept' /\ EmptyOpen' /\ dump' \subseteq File
         /\ filed' \in Seq(Name)
<1> PICK nm \in Name : nm = desk[r].name
  BY OpenedDesk
<1>1. Truncate(nm) /\ filed' = Append(filed, nm)
  BY DEF Opened, Truncate
<1>2. /\ filed' \in Seq(Name)
      /\ NewArticle \in Filed' /\ NewArticle \notin Filed /\ NewArticle \in Articles
      /\ filed'[NewArticle] = nm
      /\ \A n \in Filed : n \in Filed' /\ filed'[n] = filed[n]
  BY <1>1, FiledGrows
<1>3. Kept' /\ dump' \subseteq File
  BY <1>1, TruncateKeeps
<1>4. /\ session'[r] = "write" /\ client'[r] = client[r] /\ pending'[r] = pending[r]
      /\ \A q \in Reporters \ {r} : session'[q] = session[q]
  BY DEF Opened, ReportOK
<1>5. ReportOK'
  <2>1. session' \in [Reporters -> {"none", "identity", "open", "write"} \cup Fields]
    BY DEF Opened, ReportOK
  <2>2. desk'[r] \in [name : Name \cup {NoName}, article : Nat, inode : Nat]
    <3>1. desk[r] \in [name : Name \cup {NoName}, article : Nat, inode : Nat]
      BY DEF ReportOK
    <3>2. desk'[r] = [desk[r] EXCEPT !.article = NewArticle, !.inode = desk'[r].inode]
      BY <3>1 DEF Opened, ReportOK
    <3>3. desk'[r].inode \in Nat /\ NewArticle \in Nat
      BY OpenedDesk
    <3> QED
      BY <3>1, <3>2, <3>3
  <2>3. desk' \in [Reporters -> [name : Name \cup {NoName}, article : Nat, inode : Nat]]
    BY <2>2, OpenedDesk DEF Opened, ReportOK
  <2> QED
    BY <2>1, <2>3 DEF Opened, ReportOK
<1>6. Talk(r)'
  <2>1. session[r] = "open"
    BY DEF Opened
  <2>2. client[r] = "waits" /\ pending[r] = <<>>
    BY <2>1 DEF Talk, At
  <2> QED
    BY <1>4, <2>2 DEF Talk, At
<1>7. DeskKept'
  <2>1. DeskAt(r)'
    BY <1>2, OpenedDesk DEF DeskAt
  <2>2. ASSUME NEW q \in Reporters \ {r} PROVE DeskAt(q)'
    <3>1. desk'[q] = desk[q] /\ DeskAt(q)
      BY OpenedDesk DEF DeskKept
    <3> QED
      BY <1>2, <1>4, <3>1 DEF DeskAt
  <2> QED
    BY <2>1, <2>2 DEF DeskKept
<1>8. EmptyOpen'
  <2> SUFFICES ASSUME NEW f \in dump', f.text = {}
               PROVE  \E q \in Reporters : session'[q] = "write" /\ desk'[q].inode = f.inode
    BY DEF EmptyOpen
  <2>1. CASE f.inode = desk'[r].inode
    BY <1>4, <2>1
  <2>2. CASE f.inode # desk'[r].inode
    <3>1. f \in dump /\ f.name # nm
      <4>1. CASE Named(nm) = {}
        <5>1. dump' = dump \cup {[name |-> nm, inode |-> NewArticle, text |-> {}]}
          BY <1>1, <4>1 DEF Truncate
        <5>2. desk'[r].inode = NewArticle
          BY <4>1, OpenedDesk
        <5> QED
          BY <2>2, <4>1, <5>1, <5>2 DEF Named
      <4>2. CASE Named(nm) # {}
        <5>1. PICK o \in dump : f = IF o.name = nm THEN [o EXCEPT !.text = {}] ELSE o
          BY <1>1, <4>2 DEF Truncate
        <5>2. o.name = nm => f.inode = desk'[r].inode
          BY <4>2, <5>1, OpenedDesk DEF Named, LibOK, File
        <5> QED
          BY <2>2, <5>1, <5>2
      <4> QED
        BY <4>1, <4>2
    <3>2. PICK q \in Reporters : session[q] = "write" /\ desk[q].inode = f.inode
      BY <3>1 DEF EmptyOpen
    <3>3. q # r
      BY <3>2 DEF Opened
    <3> QED
      BY <1>4, <3>2, <3>3, OpenedDesk
  <2> QED
    BY <2>1, <2>2
<1> QED
  BY <1>2, <1>3, <1>5, <1>6, <1>7, <1>8

LEMMA NotOpenedStep ==
  ASSUME LibOK, ReportOK, Kept, DeskKept, EmptyOpen, NEW r \in Reporters, Talk(r), NotOpened(r)
  PROVE  ReportOK' /\ Talk(r)' /\ DeskKept' /\ EmptyOpen'
<1>1. /\ session[r] = "open" /\ session'[r] = "none" /\ client'[r] = "away"
      /\ \A q \in Reporters \ {r} : session'[q] = session[q] /\ desk'[q] = desk[q]
  BY DEF NotOpened, ReportOK
<1>2. ReportOK'
  <2>1. NoDesk \in [name : Name \cup {NoName}, article : Nat, inode : Nat]
    BY DEF NoDesk
  <2> QED
    BY <2>1 DEF NotOpened, ReportOK
<1>3. Talk(r)'
  BY <1>1 DEF Talk
<1>4. DeskKept'
  BY <1>1 DEF DeskKept, DeskAt, NotOpened, library, Filed
<1>5. EmptyOpen'
  <2>1. \A q \in Reporters : session[q] = "write" => q # r
    BY <1>1
  <2> QED
    BY <1>1, <2>1 DEF EmptyOpen, NotOpened, library
<1> QED
  BY <1>2, <1>3, <1>4, <1>5

LEMMA WriteFileStep ==
  ASSUME LibOK, ReportOK, Kept, DeskKept, EmptyOpen, NEW r \in Reporters, Talk(r), WriteFile(r)
  PROVE  ReportOK' /\ Talk(r)' /\ Kept' /\ DeskKept' /\ EmptyOpen' /\ dump' \subseteq File
<1>1. /\ session[r] = "write" /\ session'[r] = "more" /\ client'[r] = "more"
      /\ pending'[r] = pending[r] /\ UNCHANGED filed
      /\ \A q \in Reporters \ {r} : session'[q] = session[q] /\ desk'[q] = desk[q]
  BY DEF WriteFile, Prompts, ReportOK
<1>2. Write(desk[r].article, desk[r].inode)
  BY DEF WriteFile
<1>3. /\ desk[r].article \in Filed /\ desk[r].inode \in Filed
      /\ filed[desk[r].article] = filed[desk[r].inode]
  BY <1>1 DEF DeskKept, DeskAt
<1>4. Kept' /\ dump' \subseteq File
  BY <1>1, <1>2, <1>3, WriteKeeps
<1>5. ReportOK'
  <2>1. NoDesk \in [name : Name \cup {NoName}, article : Nat, inode : Nat]
    BY DEF NoDesk
  <2> QED
    BY <2>1 DEF WriteFile, Prompts, ReportOK, Fields
<1>6. Talk(r)'
  <2>1. pending[r] = <<>>
    BY <1>1 DEF Talk, At
  <2> QED
    BY <1>1, <2>1 DEF Talk, At
<1>7. DeskKept'
  BY <1>1 DEF DeskKept, DeskAt, Filed
<1>8. EmptyOpen'
  <2> SUFFICES ASSUME NEW f \in dump', f.text = {}
               PROVE  \E q \in Reporters : session'[q] = "write" /\ desk'[q].inode = f.inode
    BY DEF EmptyOpen
  <2>1. f \in dump /\ f.inode # desk[r].inode
    <3>1. PICK leftover \in BOOLEAN :
            dump' = {IF g.inode = desk[r].inode
                     THEN [g EXCEPT !.text = {desk[r].article} \cup (IF leftover THEN @ ELSE {})]
                     ELSE g : g \in dump}
      BY <1>2 DEF Write
    <3>2. PICK g \in dump :
            f = IF g.inode = desk[r].inode
                THEN [g EXCEPT !.text = {desk[r].article} \cup (IF leftover THEN @ ELSE {})]
                ELSE g
      BY <3>1
    <3>3. g.inode = desk[r].inode => desk[r].article \in f.text
      BY <3>2 DEF LibOK, File
    <3> QED
      BY <3>2, <3>3
  <2>2. PICK q \in Reporters : session[q] = "write" /\ desk[q].inode = f.inode
    BY <2>1 DEF EmptyOpen
  <2> QED
    BY <1>1, <2>1, <2>2
<1> QED
  BY <1>4, <1>5, <1>6, <1>7, <1>8

-----------------------------------------------------------------------------
(* A reader and its session.                                                 *)

\* What a reader sees listed are names under which articles were filed.
ListsKnown == \A r \in Readers : \A nm \in file_list[r] : \E n \in Filed : filed[n] = nm

LEMMA NamesFinite ==
  ASSUME LibOK, NEW S, \A nm \in S : \E n \in Filed : filed[n] = nm
  PROVE  IsFiniteSet(S)
<1> DEFINE T == {filed[n] : n \in Filed}
           f == [n \in Filed |-> filed[n]]
<1>1. Len(filed) \in Nat
  BY LenProperties DEF LibOK
<1>2. IsFiniteSet(Filed)
  BY <1>1, FS_Interval DEF Filed
<1>3. f \in Surjection(Filed, T)
  BY DEF Surjection
<1>4. IsFiniteSet(T)
  BY <1>2, <1>3, FS_Surjection
<1>5. S \subseteq T
  OBVIOUS
<1> QED
  BY <1>4, <1>5, FS_Subset

LEMMA NumberType ==
  ASSUME LibOK, ListsKnown, NEW r \in Readers
  PROVE  /\ \A nm : Number(file_list[r], nm) \in Nat
         /\ Cardinality(file_list[r]) + 1 \in Nat
<1>1. IsFiniteSet(file_list[r])
  BY NamesFinite DEF ListsKnown
<1>2. ASSUME NEW nm PROVE Number(file_list[r], nm) \in Nat
  <2> DEFINE S == {om \in file_list[r] : Later(om, nm)}
  <2>1. IsFiniteSet(S)
    BY <1>1, FS_Subset
  <2>2. Cardinality(S) \in Nat
    BY <2>1, FS_CardinalityType
  <2> QED
    BY <2>2 DEF Number
<1>3. Cardinality(file_list[r]) \in Nat
  BY <1>1, FS_CardinalityType
<1> QED
  BY <1>2, <1>3

LEMMA ReaderStepType ==
  ASSUME LibOK, ReadOK, Kept, ListsKnown, NEW r \in Readers, UserStep(r) \/ ServeStep(r)
  PROVE  ReadOK' /\ ListsKnown' /\ UNCHANGED library
<1>0. NoName \in Name \cup {NoName}
  OBVIOUS
<1>1. ASSUME NEW from, NEW to \in {"away", "choose", "choice", "number", "article", "blank"},
             Moves(r, from, to)
      PROVE  /\ reader' \in [Readers -> {"away", "choose", "choice", "number", "article", "blank"}]
             /\ UNCHANGED library /\ Filed' = Filed /\ filed' = filed
  BY <1>1 DEF Moves, ReadOK, library, Filed
<1>2. CASE Enter(r)
  <2>1. Moves(r, "away", "choose")
    BY <1>2 DEF Enter
  <2> QED
    BY <1>1, <1>2, <2>1 DEF Enter, ReadOK, ListsKnown
<1>3. ASSUME NEW c \in Groups \cup {Other}, TypeChoice(r, c)
      PROVE  ReadOK' /\ ListsKnown' /\ UNCHANGED library
  <2>1. Moves(r, "choose", "choice")
    BY <1>3 DEF TypeChoice
  <2>2. Nothing \in [kind : {"nothing", "text", "gone", "no such"}, text : SUBSET Articles]
    BY DEF Nothing
  <2> QED
    BY <1>1, <1>3, <2>1, <2>2 DEF TypeChoice, ReadOK, ListsKnown
<1>4. CASE write_article_list(r)
  <2>1. Moves(r, "choice", "number")
    BY <1>4 DEF write_article_list
  <2>2. /\ file_list'[r] \subseteq {f.name : f \in dump}
        /\ \A q \in Readers \ {r} : file_list'[q] = file_list[q]
    BY <1>4 DEF write_article_list, Listing, ReadOK
  <2>3. \A f \in dump : f.name \in Name /\ \E n \in Filed : filed[n] = f.name
    BY DEF LibOK, File, Kept
  <2>4. file_list' \in [Readers -> SUBSET Name]
    <3>1. file_list'[r] \in SUBSET Name
      BY <2>2, <2>3
    <3>2. file_list' = [file_list EXCEPT ![r] = file_list'[r]]
      BY <1>4 DEF write_article_list, ReadOK
    <3> QED
      BY <3>1, <3>2 DEF ReadOK
  <2>5. ListsKnown'
    <3>1. \A nm \in file_list'[r] : \E n \in Filed : filed[n] = nm
      BY <2>2, <2>3
    <3> QED
      BY <1>1, <2>1, <2>2, <3>1 DEF ListsKnown
  <2> QED
    BY <1>1, <1>4, <2>1, <2>4, <2>5 DEF write_article_list, ReadOK
<1>5. CASE TypeNumber(r)
  <2>1. Moves(r, "number", "article")
    BY <1>5 DEF TypeNumber
  <2>2. /\ number' \in [Readers -> Nat] /\ meant' \in [Readers -> Name \cup {NoName}]
    <3>1. file_list[r] \subseteq Name
      BY DEF ReadOK
    <3>2. ASSUME NEW nm \in Name \cup {NoName}, NEW n \in Nat,
                 meant' = [meant EXCEPT ![r] = nm], number' = [number EXCEPT ![r] = n]
          PROVE  /\ number' \in [Readers -> Nat] /\ meant' \in [Readers -> Name \cup {NoName}]
      BY <3>2 DEF ReadOK
    <3>3. CASE \E nm \in file_list[r] :
                 /\ meant' = [meant EXCEPT ![r] = nm]
                 /\ number' = [number EXCEPT ![r] = Number(file_list[r], nm)]
      <4>1. PICK nm \in file_list[r] :
              /\ meant' = [meant EXCEPT ![r] = nm]
              /\ number' = [number EXCEPT ![r] = Number(file_list[r], nm)]
        BY <3>3
      <4>2. Number(file_list[r], nm) \in Nat
        BY NumberType
      <4> QED
        BY <3>1, <3>2, <4>1, <4>2
    <3>4. CASE /\ meant' = [meant EXCEPT ![r] = NoName]
               /\ number' = [number EXCEPT ![r] = Cardinality(file_list[r]) + 1]
      <4>1. Cardinality(file_list[r]) + 1 \in Nat
        BY NumberType
      <4> QED
        BY <3>2, <3>4, <4>1
    <3> QED
      BY <1>5, <3>3, <3>4 DEF TypeNumber
  <2> QED
    BY <1>1, <1>5, <2>1, <2>2 DEF TypeNumber, ReadOK, ListsKnown
<1>6. CASE transfer_news(r)
  <2> DEFINE listed == {nm \in file_list[r] : Number(file_list[r], nm) = number[r]}
             answer == IF listed = {} THEN [kind |-> "no such", text |-> {}]
                       ELSE Contents({f \in dump : f.name \in listed})
  <2>1. Moves(r, "article",
              IF answer.kind = "text" /\ answer.text = {} THEN "blank" ELSE "choose")
    BY <1>6 DEF transfer_news
  <2>2. answer \in [kind : {"nothing", "text", "gone", "no such"}, text : SUBSET Articles]
    BY DEF Contents, LibOK, File
  <2>3. shown' = [shown EXCEPT ![r] = answer]
    BY <1>6 DEF transfer_news
  <2> HIDE DEF answer
  <2>4. shown' \in [Readers ->
          [kind : {"nothing", "text", "gone", "no such"}, text : SUBSET Articles]]
    BY <2>2, <2>3 DEF ReadOK
  <2>5. /\ file_list' \in [Readers -> SUBSET Name] /\ file_list'[r] = {}
        /\ \A q \in Readers \ {r} : file_list'[q] = file_list[q]
    BY <1>6 DEF transfer_news, ReadOK
  <2>6. choice' \in [Readers -> Groups \cup {Other}] /\ number' \in [Readers -> Nat]
    BY <1>6 DEF transfer_news, ReadOK
  <2>7. /\ reader' \in [Readers -> {"away", "choose", "choice", "number", "article", "blank"}]
        /\ UNCHANGED library /\ Filed' = Filed /\ filed' = filed
    BY <1>1, <2>1
  <2>8. ListsKnown'
    BY <2>5, <2>7 DEF ListsKnown
  <2> QED
    BY <1>6, <2>4, <2>5, <2>6, <2>7, <2>8 DEF transfer_news, ReadOK
<1>7. CASE Leave(r)
  <2>1. Moves(r, reader[r], "away")
    BY <1>7 DEF Leave
  <2>2. Nothing \in [kind : {"nothing", "text", "gone", "no such"}, text : SUBSET Articles]
    BY DEF Nothing
  <2>3. /\ file_list' \in [Readers -> SUBSET Name]
        /\ \A q \in Readers : file_list'[q] \subseteq file_list[q]
    BY <1>7 DEF Leave, ReadOK
  <2>4. /\ choice' \in [Readers -> Groups \cup {Other}] /\ number' \in [Readers -> Nat]
        /\ meant' \in [Readers -> Name \cup {NoName}]
        /\ shown' \in [Readers ->
             [kind : {"nothing", "text", "gone", "no such"}, text : SUBSET Articles]]
    BY <1>7, <2>2 DEF Leave, ReadOK
  <2> QED
    BY <1>1, <2>1, <2>3, <2>4 DEF ReadOK, ListsKnown
<1> QED
  BY <1>2, <1>3, <1>4, <1>5, <1>6, <1>7 DEF UserStep, ServeStep

-----------------------------------------------------------------------------
(* The administrators and their server.                                      *)

LEMMA DatesAre ==
  /\ Always \in Dates /\ Forever \in Dates /\ Dates \subseteq Nat
  BY DumpConstants DEF Dates, Always, Forever

LEMMA SendToType ==
  ASSUME SweepOK, NEW a \in Admins, NEW says \in {"password", "wrong", "date", "y", "n"},
         NEW when \in Dates,
         NEW next \in {"off", "password", "denied", "date", "prompt", "more", "done"},
         SendTo(a, says, when, next), asked' \in Dates
  PROVE  SweepOK'
<1>1. [from |-> a, says |-> says, date |-> when] \in Message
  BY DEF Message
<1>2. inbox' \in Seq(Message)
  BY <1>1, AppendProperties DEF SendTo, SweepOK
<1> QED
  BY <1>2 DEF SendTo, SweepOK

LEMMA ReceiveType ==
  ASSUME SweepOK, NEW state, Receive(state)
  PROVE  Received \in Message /\ inbox' \in Seq(Message) /\ cl_addr' \in Admins
<1>1. inbox \in Seq(Message) /\ inbox # <<>>
  BY DEF Receive, SweepOK
<1>2. Head(inbox) \in Message /\ Tail(inbox) \in Seq(Message)
  BY <1>1, HeadTailProperties
<1> QED
  BY <1>2 DEF Receive, Received, Message

LEMMA ReplyType ==
  ASSUME SweepOK, NEW a, NEW says \in {"y", "n", "more?"}, Reply(a, says)
  PROVE  replies' \in [Admins -> Seq({"y", "n", "more?"})]
<1>1. CASE a \in Admins
  <2>1. Append(replies[a], says) \in Seq({"y", "n", "more?"})
    BY <1>1, AppendProperties DEF SweepOK
  <2> QED
    BY <2>1 DEF Reply, SweepOK
<1> QED
  BY <1>1 DEF Reply, SweepOK

LEMMA AdminType ==
  ASSUME SweepOK, NEW a \in Admins, AdminStep(a) \/ ClientReads(a)
  PROVE  SweepOK'
<1>0. asked \in Dates
  BY DEF SweepOK
<1>1. CASE TypePassword(a) \/ TypeAgain(a)
  <2>1. /\ \/ SendTo(a, "password", Always, "password")
           \/ SendTo(a, "wrong", Always, "password")
           \/ SendTo(a, "y", Always, "date")
           \/ SendTo(a, "n", Always, "done")
        /\ asked' \in Dates
    BY <1>0, <1>1 DEF TypePassword, TypeAgain
  <2> QED
    BY <2>1, DatesAre, SendToType
<1>2. CASE TypeDeadline(a)
  <2>1. PICK d \in Dates : /\ SendTo(a, "date", d, "prompt")
                           /\ asked' = IF d > asked THEN d ELSE asked
    BY <1>2 DEF TypeDeadline
  <2>2. asked' \in Dates
    BY <1>0, <2>1
  <2> QED
    BY <2>1, <2>2, SendToType
<1>3. CASE Admitted(a) \/ Prompted(a)
  <2>1. Tail(replies[a]) \in Seq({"y", "n", "more?"})
    BY <1>3, HeadTailProperties DEF Admitted, Prompted, SweepOK
  <2>2. replies' \in [Admins -> Seq({"y", "n", "more?"})]
    BY <1>3, <2>1 DEF Admitted, Prompted, SweepOK
  <2>3. admin' \in [Admins -> {"off", "password", "denied", "date", "prompt", "more", "done"}]
    BY <1>3 DEF Admitted, Prompted, SweepOK
  <2> QED
    BY <1>3, <2>2, <2>3 DEF Admitted, Prompted, SweepOK
<1>4. CASE Interrupt(a)
  BY <1>4 DEF Interrupt, SweepOK
<1> QED
  BY <1>1, <1>2, <1>3, <1>4 DEF AdminStep, ClientReads

LEMMA InodesAre ==
  ASSUME LibOK
  PROVE  (\A f \in dump : f.inode \in Articles) /\ \A g : FilesOf(g) \subseteq Articles
  BY DEF LibOK, File, FilesOf

LEMMA ParsedType ==
  ASSUME NEW message \in Message
  PROVE  Parsed(message) \subseteq Dates
<1>1. message.says \in {"password", "wrong", "date", "y", "n"} /\ message.date \in Dates
  BY DEF Message
<1>2. CASE message.says = "date"
  BY <1>1, <1>2 DEF Parsed
<1>3. CASE message.says = "password"
  BY <1>3, DatesAre DEF Parsed
<1>4. CASE message.says = "y" \/ message.says = "n"
  BY <1>4, DatesAre DEF Parsed
<1>5. CASE message.says = "wrong"
  BY <1>5 DEF Parsed
<1> QED
  BY <1>1, <1>2, <1>3, <1>4, <1>5

LEMMA ServerType ==
  ASSUME LibOK, SweepOK, ServerStep
  PROVE  SweepOK'
<1>1. CASE CheckPassword
  <2>1. /\ inbox' \in Seq(Message) /\ cl_addr' \in Admins
    BY <1>1, ReceiveType DEF CheckPassword
  <2>2. replies' \in [Admins -> Seq({"y", "n", "more?"})]
    BY <1>1, ReplyType DEF CheckPassword
  <2> QED
    BY <1>1, <2>1, <2>2 DEF CheckPassword, SweepOK
<1>2. CASE ReadDeadline
  <2>1. inbox' \in Seq(Message) /\ cl_addr' \in Admins /\ Received \in Message
    BY <1>2, ReceiveType DEF ReadDeadline
  <2>2. date' \in Dates
    BY <1>2, <2>1, ParsedType DEF ReadDeadline
  <2>3. left' \subseteq Articles /\ due' \subseteq Articles
    BY <1>2, InodesAre DEF ReadDeadline, OpenDir
  <2>4. server' \in Groups
    BY <1>2 DEF ReadDeadline, OpenDir, Groups
  <2> QED
    BY <1>2, <2>1, <2>2, <2>3, <2>4 DEF ReadDeadline, SweepOK
<1>3. CASE ReadAgain
  <2>1. inbox' \in Seq(Message) /\ cl_addr' \in Admins
    BY <1>3, ReceiveType DEF ReadAgain
  <2>2. server' \in {"password", "date"}
    BY <1>3 DEF ReadAgain
  <2> QED
    BY <1>3, <2>1, <2>2 DEF ReadAgain, SweepOK
<1>4. CASE NextDir
  <2>1. left' \subseteq Articles /\ server' \in Groups
    BY <1>4, InodesAre DEF NextDir, OpenDir, Groups
  <2> QED
    BY <1>4, <2>1 DEF NextDir, CloseDir, SweepOK
<1>5. CASE Finish
  <2>1. replies' \in [Admins -> Seq({"y", "n", "more?"})]
    BY <1>5, ReplyType DEF Finish
  <2> QED
    BY <1>5, <2>1, DatesAre DEF Finish, CloseDir, SweepOK
<1>6. CASE \E f \in dump : Visit(f)
  BY <1>6 DEF Visit, SweepOK
<1> QED
  BY <1>1, <1>2, <1>3, <1>4, <1>5, <1>6 DEF ServerStep

-----------------------------------------------------------------------------
(* All steps.                                                                *)

NewsInv == TypeOK /\ Talks /\ Kept /\ DeskKept /\ EmptyOpen /\ ListsKnown

\* What a step of one reporter, or of its session, leaves alone of another.
LEMMA OtherReporter ==
  ASSUME ReportOK, NEW r \in Reporters, NEW q \in Reporters \ {r}, Talk(q),
         \/ ClientStep(r) \/ ReadStep(r) \/ Opened(r) \/ NotOpened(r) \/ WriteFile(r)
  PROVE  Talk(q)'
<1>1. CASE ClientStep(r)
  <2>1. /\ client'[q] = client[q] /\ session'[q] = session[q] /\ pending'[q] = pending[q]
        /\ typed'[q] = typed[q] /\ desk'[q] = desk[q]
        /\ q \in swallowed => q \in swallowed'
    BY <1>1 DEF ReportOK, ClientStep, Connect, TypeGroup, TypeDate, TypeHeading, TypeContent,
                TypeMore, Types, HangUp
  <2> QED
    BY <2>1 DEF Talk, At, GroupGiven, HeadingGiven
<1>2. CASE ReadStep(r)
  <2>1. /\ client'[q] = client[q] /\ session'[q] = session[q] /\ pending'[q] = pending[q]
        /\ typed'[q] = typed[q] /\ desk'[q] = desk[q]
        /\ q \in swallowed => q \in swallowed'
    BY <1>2 DEF ReportOK, ReadStep, ReadIdentity, ReadGroup, ReadDate, ReadHeading, ReadContent,
                ReadMore, Reads, Prompts
  <2> QED
    BY <2>1 DEF Talk, At, GroupGiven, HeadingGiven
<1>3. CASE Opened(r) \/ NotOpened(r) \/ WriteFile(r)
  <2>1. /\ client'[q] = client[q] /\ session'[q] = session[q] /\ pending'[q] = pending[q]
        /\ typed'[q] = typed[q] /\ desk'[q] = desk[q]
        /\ q \in swallowed => q \in swallowed'
    BY <1>3 DEF ReportOK, Opened, NotOpened, WriteFile, Prompts
  <2> QED
    BY <2>1 DEF Talk, At, GroupGiven, HeadingGiven
<1> QED
  BY <1>1, <1>2, <1>3

\* Who writes is changed by opening and writing only.
LEMMA SameWriting ==
  ASSUME ReportOK, NEW r \in Reporters, ClientStep(r) \/ ReadStep(r), NEW q \in Reporters
  PROVE  /\ session'[q] = "write" <=> session[q] = "write"
         /\ session[q] = "write" => desk'[q] = desk[q]
<1>1. CASE ClientStep(r)
  BY <1>1 DEF ReportOK, ClientStep, Connect, TypeGroup, TypeDate, TypeHeading, TypeContent,
              TypeMore, Types, HangUp
<1>2. CASE ReadStep(r)
  BY <1>2 DEF ReportOK, ReadStep, ReadIdentity, ReadGroup, ReadDate, ReadHeading, ReadContent,
              ReadMore, Reads, Prompts
<1> QED
  BY <1>1, <1>2

LEMMA SameWriters ==
  ASSUME ReportOK, NEW r \in Reporters, ClientStep(r) \/ ReadStep(r), UNCHANGED library,
         DeskKept, EmptyOpen
  PROVE  DeskKept' /\ EmptyOpen'
<1>1. \A q \in Reporters : /\ session'[q] = "write" <=> session[q] = "write"
                           /\ session[q] = "write" => desk'[q] = desk[q]
  BY SameWriting
<1> QED
  BY <1>1 DEF DeskKept, DeskAt, EmptyOpen, library, Filed

LEMMA ReporterStep ==
  ASSUME NewsInv, NEW r \in Reporters, UNCHANGED <<now, reading, sweeping>>,
         (ClientStep(r) /\ UNCHANGED library) \/ SessionStep(r)
  PROVE  NewsInv'
<1> LibOK /\ ReportOK /\ ReadOK /\ SweepOK /\ Talk(r)
  BY TypeParts DEF NewsInv, Talks
<1> Talks /\ Kept /\ DeskKept /\ EmptyOpen /\ ListsKnown
  BY DEF NewsInv
<1>1. \/ UNCHANGED library /\ (ClientStep(r) \/ ReadStep(r))
      \/ Opened(r) \/ NotOpened(r) \/ WriteFile(r)
  BY OpenFileIs DEF SessionStep, ReadStep
<1>2. ReadOK' /\ SweepOK' /\ file_list' = file_list
  BY DEF ReadOK, SweepOK, reading, sweeping
<1>3. \A q \in Reporters \ {r} : Talk(q)'
  BY <1>1, OtherReporter DEF Talks
<1>4. CASE UNCHANGED library /\ (ClientStep(r) \/ ReadStep(r))
  <2>1. ReportOK' /\ Talk(r)'
    BY <1>4, ClientStepType, ClientStepTalks, ReadStepType, ReadStepTalks
  <2>2. DeskKept' /\ EmptyOpen'
    BY <1>4, SameWriters
  <2>3. LibOK' /\ Kept' /\ ListsKnown'
    BY <1>2, <1>4 DEF library, LibOK, Kept, ListsKnown, Filed
  <2>4. Talks'
    BY <1>3, <2>1 DEF Talks
  <2> QED
    BY <1>2, <2>1, <2>2, <2>3, <2>4 DEF NewsInv, TypeOK, LibOK, ReportOK, ReadOK, SweepOK
<1>5. CASE Opened(r)
  <2>1. /\ ReportOK' /\ Talk(r)' /\ Kept' /\ DeskKept' /\ EmptyOpen' /\ dump' \subseteq File
        /\ filed' \in Seq(Name)
    BY <1>5, OpenedStep
  <2>2. \A n \in Filed : n \in Filed' /\ filed'[n] = filed[n]
    BY <1>5, FiledGrows, OpenedDesk DEF Opened, Truncate
  <2>3. ListsKnown'
    BY <1>2, <2>2 DEF ListsKnown
  <2>4. LibOK' /\ Talks'
    BY <1>3, <2>1 DEF LibOK, Talks
  <2> QED
    BY <1>2, <2>1, <2>3, <2>4 DEF NewsInv, TypeOK, LibOK, ReportOK, ReadOK, SweepOK
<1>6. CASE NotOpened(r)
  <2>1. ReportOK' /\ Talk(r)' /\ DeskKept' /\ EmptyOpen'
    BY <1>6, NotOpenedStep
  <2>2. LibOK' /\ Kept' /\ ListsKnown'
    BY <1>2, <1>6 DEF NotOpened, library, LibOK, Kept, ListsKnown, Filed
  <2>3. Talks'
    BY <1>3, <2>1 DEF Talks
  <2> QED
    BY <1>2, <2>1, <2>2, <2>3 DEF NewsInv, TypeOK, LibOK, ReportOK, ReadOK, SweepOK
<1>7. CASE WriteFile(r)
  <2>1. ReportOK' /\ Talk(r)' /\ Kept' /\ DeskKept' /\ EmptyOpen' /\ dump' \subseteq File
    BY <1>7, WriteFileStep
  <2>2. filed' = filed
    BY <1>7 DEF WriteFile
  <2>3. LibOK' /\ Talks' /\ ListsKnown'
    BY <1>2, <1>3, <2>1, <2>2 DEF LibOK, Talks, ListsKnown, Filed
  <2> QED
    BY <1>2, <2>1, <2>3 DEF NewsInv, TypeOK, LibOK, ReportOK, ReadOK, SweepOK
<1> QED
  BY <1>1, <1>4, <1>5, <1>6, <1>7

LEMMA ReaderStep ==
  ASSUME NewsInv, NEW r \in Readers, UNCHANGED <<now, reporting, sweeping>>,
         UserStep(r) \/ ServeStep(r)
  PROVE  NewsInv'
<1>1. LibOK /\ ReportOK /\ ReadOK /\ SweepOK /\ Kept /\ ListsKnown
  BY TypeParts DEF NewsInv
<1>2. ReadOK' /\ ListsKnown' /\ UNCHANGED library
  BY <1>1, ReaderStepType
<1>3. LibOK' /\ ReportOK' /\ SweepOK'
  BY <1>1, <1>2 DEF LibOK, ReportOK, SweepOK, library, reporting, sweeping
<1>4. Talks'
  BY DEF NewsInv, reporting, Talks, Talk, At, GroupGiven, HeadingGiven
<1>5. Kept' /\ DeskKept' /\ EmptyOpen'
  BY <1>2 DEF NewsInv, reporting, library, Kept, DeskKept, DeskAt, EmptyOpen, Filed
<1> QED
  BY <1>2, <1>3, <1>4, <1>5 DEF NewsInv, TypeOK, LibOK, ReportOK, ReadOK, SweepOK

LEMMA SweepStep ==
  ASSUME NewsInv, UNCHANGED <<now, newsroom>>, SweepNext
  PROVE  NewsInv'
<1>1. LibOK /\ ReportOK /\ ReadOK /\ SweepOK /\ Kept
  BY TypeParts DEF NewsInv
<1>2. SweepOK'
  BY <1>1, AdminType, ServerType DEF SweepNext
<1>3. dump' \subseteq dump /\ filed' = filed
  BY DEF SweepNext, ServerStep, Visit, library
<1>4. Kept' /\ LibOK'
  BY <1>1, <1>3, FewerKeeps DEF LibOK
<1>5. ReportOK' /\ ReadOK'
  BY <1>1 DEF ReportOK, ReadOK, newsroom, reporting, reading
<1>6. Talks'
  BY DEF NewsInv, newsroom, reporting, Talks, Talk, At, GroupGiven, HeadingGiven
<1>7. DeskKept' /\ EmptyOpen' /\ ListsKnown'
  BY <1>3 DEF NewsInv, newsroom, reporting, reading, DeskKept, DeskAt, EmptyOpen, ListsKnown, Filed
<1> QED
  BY <1>2, <1>4, <1>5, <1>6, <1>7 DEF NewsInv, TypeOK, LibOK, ReportOK, ReadOK, SweepOK

LEMMA TimeStep ==
  ASSUME NewsInv, UNCHANGED <<library, newsroom, sweeping>>, now' \in Seconds
  PROVE  NewsInv'
<1>1. TypeOK'
  BY DEF NewsInv, TypeOK, library, newsroom, reporting, reading, sweeping
<1>2. Talks'
  BY DEF NewsInv, newsroom, reporting, Talks, Talk, At, GroupGiven, HeadingGiven
<1>3. Kept' /\ DeskKept' /\ EmptyOpen' /\ ListsKnown'
  BY DEF NewsInv, library, newsroom, reporting, reading, Kept, DeskKept, DeskAt, EmptyOpen,
         ListsKnown, Filed
<1> QED
  BY <1>1, <1>2, <1>3 DEF NewsInv

LEMMA NewsInvInit == Init => NewsInv
<1> SUFFICES ASSUME Init PROVE NewsInv
  OBVIOUS
<1>1. LibOK /\ dump = {} /\ filed = <<>>
  BY DumpConstants, EmptySeq DEF Init, DumpInit, LibOK, Seconds
<1>2. ReportOK
  <2>1. Untyped \in [group : Groups \cup {Other}, heading : Headings \cup {0}]
    BY DEF Untyped
  <2>2. NoDesk \in [name : Name \cup {NoName}, article : Nat, inode : Nat]
    BY DEF NoDesk
  <2>3. <<>> \in Seq({"identity", "y", "n"} \cup Fields)
    BY EmptySeq
  <2> QED
    BY <2>1, <2>2, <2>3 DEF Init, NewsroomInit, ReportOK
<1>3. ReadOK
  <2>1. Nothing \in [kind : {"nothing", "text", "gone", "no such"}, text : SUBSET Articles]
    BY DEF Nothing
  <2> QED
    BY <2>1 DEF Init, NewsroomInit, ReadOK
<1>4. SweepOK
  <2>1. <<>> \in Seq(Message) /\ <<>> \in Seq({"y", "n", "more?"})
    BY EmptySeq
  <2> QED
    BY <2>1, DatesAre DEF Init, SweepInit, SweepOK
<1>5. Talks /\ DeskKept /\ ListsKnown
  BY DEF Init, NewsroomInit, Talks, Talk, DeskKept, DeskAt, ListsKnown
<1>6. Kept /\ EmptyOpen
  BY <1>1 DEF Kept, EmptyOpen
<1> QED
  BY <1>1, <1>2, <1>3, <1>4, <1>5, <1>6, TypeParts DEF NewsInv

LEMMA NewsInvStep == NewsInv /\ [Next]_vars => NewsInv'
<1> SUFFICES ASSUME NewsInv, [Next]_vars PROVE NewsInv'
  OBVIOUS
<1>0. now \in Seconds
  BY DEF NewsInv, TypeOK
<1>1. CASE Tick /\ UNCHANGED <<newsroom, sweeping>>
  <2>1. now' \in Seconds
    BY <1>0, <1>1, DumpConstants DEF Tick, Seconds
  <2> QED
    BY <1>1, <2>1, TimeStep DEF Tick
<1>2. CASE NewsroomNext /\ UNCHANGED <<now, sweeping>>
  <2>1. ASSUME NEW r \in Reporters,
               \/ ClientStep(r) /\ UNCHANGED <<library, reading>>
               \/ SessionStep(r) /\ UNCHANGED reading
        PROVE  NewsInv'
    BY <1>2, <2>1, ReporterStep
  <2>2. ASSUME NEW r \in Readers, (UserStep(r) \/ ServeStep(r)) /\ UNCHANGED reporting
        PROVE  NewsInv'
    BY <1>2, <2>2, ReaderStep
  <2> QED
    BY <1>2, <2>1, <2>2 DEF NewsroomNext
<1>3. CASE SweepNext /\ UNCHANGED <<now, newsroom>>
  BY <1>3, SweepStep
<1>4. CASE UNCHANGED vars
  BY <1>0, <1>4, TimeStep DEF vars
<1> QED
  BY <1>1, <1>2, <1>3, <1>4 DEF Next

LEMMA NewsAlways == Spec => []NewsInv
<1> QED
  BY NewsInvInit, NewsInvStep, PTL DEF Spec

\* Every state of the news service has its types, for every number of users,
\* articles and seconds.
THEOREM TypeCorrect == Spec => []TypeOK
<1>1. NewsInv => TypeOK
  BY DEF NewsInv
<1> QED
  BY <1>1, NewsAlways, PTL

\* A name stands for one file, what it holds was filed under that name, and it is
\* empty only while a session has it open (fopen, fprintf and fclose of reporter),
\* whatever administrators delete and however reporters meet in one second.
THEOREM FilesWhole == Spec => []FilesAreWhole
<1>1. NewsInv => FilesAreWhole
  BY DEF NewsInv, Kept, EmptyOpen, FilesAreWhole
<1> QED
  BY <1>1, NewsAlways, PTL

\* A reporter and its session never wait for each other, unless the group was
\* read with the identity (the recv and send calls of reporter on both sides).
THEOREM DialogGoesOn == Spec => []TalkGoesOn
<1>1. NewsInv => TalkGoesOn
  <2>1. \A r \in Reporters : pending[r] = <<"identity", "group">> \/ pending[r] = <<"group">>
          \/ pending[r] = <<"y", "group">> \/ pending[r] = <<"date">>
          \/ pending[r] = <<"heading">> \/ pending[r] = <<"content">> => pending[r] # <<>>
    BY Short
  <2> QED
    BY <2>1 DEF NewsInv, Talks, Talk, At, TalkGoesOn
<1> QED
  BY <1>1, NewsAlways, PTL

-----------------------------------------------------------------------------
(* A sweep leaves nothing behind.                                            *)

Overdue(f) == f.inode \in due

\* While the server goes through a directory, the files that were too old when
\* the date came are still too old; those of this directory are still to be
\* returned by readdir, and the first directory has none of them left when the
\* second is gone through.
SweepInv ==
  /\ due \subseteq Filed
  /\ server \in Groups => \A f \in dump : Overdue(f) =>
       /\ Older(f, date)
       /\ f.name.group = server => f.inode \in left
       /\ server = NonAcademic => f.name.group = NonAcademic
  /\ SweptClean

\* A file that a step leaves is one that was there, under the name it had, or
\* the one of a new article.
LEMMA FilesStay ==
  ASSUME NewsInv, NewsroomNext
  PROVE  /\ \A f \in dump' : \/ f.inode \notin Filed
                            \/ \E o \in dump : o.name = f.name /\ o.inode = f.inode
         /\ Filed \subseteq Filed'
<1> LibOK /\ ReportOK /\ Kept /\ Talks
  BY TypeParts DEF NewsInv
<1>1. CASE UNCHANGED library
  BY <1>1 DEF library, Filed
<1>2. ASSUME NEW r \in Reporters, Opened(r)
      PROVE  /\ \A f \in dump' : \/ f.inode \notin Filed
                                \/ \E o \in dump : o.name = f.name /\ o.inode = f.inode
             /\ Filed \subseteq Filed'
  <2> PICK nm \in Name : nm = desk[r].name
    BY <1>2, OpenedDesk DEF Talks
  <2>1. Truncate(nm) /\ filed' = Append(filed, nm)
    BY <1>2 DEF Opened, Truncate
  <2>2. NewArticle \notin Filed /\ \A n \in Filed : n \in Filed'
    BY <2>1, FiledGrows
  <2>3. \A f \in dump' : \/ f.inode = NewArticle
                         \/ \E o \in dump : o.name = f.name /\ o.inode = f.inode
    BY <2>1 DEF Truncate, LibOK, File
  <2> QED
    BY <2>2, <2>3
<1>3. ASSUME NEW r \in Reporters, WriteFile(r)
      PROVE  /\ \A f \in dump' : \/ f.inode \notin Filed
                                \/ \E o \in dump : o.name = f.name /\ o.inode = f.inode
             /\ Filed \subseteq Filed'
  <2>1. PICK leftover \in BOOLEAN :
          dump' = {IF f.inode = desk[r].inode
                   THEN [f EXCEPT !.text = {desk[r].article} \cup (IF leftover THEN @ ELSE {})]
                   ELSE f : f \in dump}
    BY <1>3 DEF WriteFile, Write
  <2>2. ASSUME NEW f \in dump'
        PROVE  \E o \in dump : o.name = f.name /\ o.inode = f.inode
    <3>1. PICK o \in dump :
            f = IF o.inode = desk[r].inode
                THEN [o EXCEPT !.text = {desk[r].article} \cup (IF leftover THEN @ ELSE {})]
                ELSE o
      BY <2>1, <2>2
    <3> QED
      BY <3>1 DEF LibOK, File
  <2> QED
    BY <1>3, <2>2 DEF WriteFile, Filed
<1>4. ASSUME NEW r \in Readers, UserStep(r) \/ ServeStep(r) PROVE UNCHANGED library
  BY <1>4 DEF UserStep, ServeStep, Enter, TypeChoice, TypeNumber, Leave, write_article_list,
              transfer_news, Moves
<1>5. ASSUME NEW r \in Reporters, SessionStep(r)
      PROVE  UNCHANGED library \/ Opened(r) \/ WriteFile(r)
  BY <1>5, OpenFileIs DEF SessionStep, NotOpened
<1> QED
  BY <1>1, <1>2, <1>3, <1>4, <1>5 DEF NewsroomNext

LEMMA SweepInvNewsroom ==
  ASSUME NewsInv, SweepInv, NewsroomNext, UNCHANGED sweeping
  PROVE  SweepInv'
<1>1. due' = due /\ server' = server /\ date' = date /\ left' = left
  BY DEF sweeping
<1>2. ASSUME NEW f \in dump', f.inode \in due
      PROVE  \E o \in dump : o.name = f.name /\ o.inode = f.inode
  BY <1>2, FilesStay DEF SweepInv
<1>3. due' \subseteq Filed'
  BY <1>1, FilesStay DEF SweepInv
<1>4. ASSUME server \in Groups, NEW f \in dump', f.inode \in due
      PROVE  /\ Older(f, date)
             /\ f.name.group = server => f.inode \in left
             /\ server = NonAcademic => f.name.group = NonAcademic
  BY <1>2, <1>4 DEF SweepInv, Overdue, Older
<1>5. SweptClean'
  BY <1>1, <1>2 DEF SweepInv, SweptClean
<1> QED
  BY <1>1, <1>3, <1>4, <1>5 DEF SweepInv, Overdue, Older

LEMMA SweepInvServer ==
  ASSUME NewsInv, SweepInv, ServerStep
  PROVE  SweepInv'
<1>0. /\ \A f \in dump : f.inode \in Filed /\ f.name.group \in Groups
      /\ \A f, g \in dump : f.inode = g.inode => f = g
  <2>1. \A f \in dump : f.inode \in Filed /\ filed[f.inode] = f.name /\ f \in File
    BY DEF NewsInv, Kept, TypeOK
  <2>2. \A f \in File : f.name \in Name /\ f.name.group \in Groups
    BY DEF File, Name
  <2>3. \A f, g \in dump : f.name = g.name => f = g
    BY DEF NewsInv, Kept
  <2> QED
    BY <2>1, <2>2, <2>3
<1>1. Academic # NonAcademic /\ Groups = {Academic, NonAcademic}
  BY DumpConstants DEF Groups
<1>2. "password" \notin Groups /\ "date" \notin Groups /\ "more" \notin Groups
  BY SweepConstants
<1>3. CASE CheckPassword /\ UNCHANGED library
  <2>1. /\ server' \in {"password", "date"} /\ UNCHANGED <<due, dump, filed>>
    BY <1>3 DEF CheckPassword, library
  <2> QED
    BY <1>2, <2>1 DEF SweepInv, SweptClean, Filed
<1>4. CASE ReadDeadline /\ UNCHANGED library
  <2>1. /\ server' = Academic /\ left' = FilesOf(Academic)
        /\ due' = {f.inode : f \in {f \in dump : Older(f, date')}}
        /\ dump' = dump /\ filed' = filed
    BY <1>4 DEF ReadDeadline, OpenDir, library
  <2>2. ASSUME NEW f \in dump, f.inode \in due'
        PROVE  Older(f, date') /\ (f.name.group = Academic => f.inode \in left')
    <3>1. PICK g \in dump : g.inode = f.inode /\ Older(g, date')
      BY <2>1, <2>2
    <3>2. f = g
      BY <1>0, <3>1
    <3> QED
      BY <2>1, <3>1, <3>2 DEF FilesOf
  <2>3. due' \subseteq Filed'
    BY <1>0, <2>1 DEF Filed
  <2>4. server' # NonAcademic /\ server' # "more"
    BY <1>1, <1>2, <2>1
  <2> QED
    BY <2>1, <2>2, <2>3, <2>4 DEF SweepInv, SweptClean, Overdue, Older
<1>5. CASE ReadAgain /\ UNCHANGED library
  <2>1. server' \in {"password", "date"} /\ due' = {}
    BY <1>5 DEF ReadAgain
  <2> QED
    BY <1>2, <2>1 DEF SweepInv, SweptClean
<1>6. CASE NextDir /\ UNCHANGED library
  <2>1. /\ server = Academic /\ left = {} /\ server' = NonAcademic
        /\ left' = FilesOf(NonAcademic) /\ UNCHANGED <<due, date, dump, filed>>
    BY <1>6 DEF NextDir, CloseDir, OpenDir, library
  <2>2. ASSUME NEW f \in dump, f.inode \in due
        PROVE  f.name.group = NonAcademic /\ f.inode \in left' /\ Older(f, date)
    <3>1. f.name.group # Academic /\ Older(f, date)
      BY <1>1, <2>1, <2>2 DEF SweepInv, Overdue
    <3> QED
      BY <1>0, <1>1, <2>1, <3>1 DEF FilesOf
  <2>3. server' # "more"
    BY <1>1, <1>2, <2>1
  <2> QED
    BY <2>1, <2>2, <2>3 DEF SweepInv, SweptClean, Overdue, Older, Filed
<1>7. CASE Finish /\ UNCHANGED library
  <2>1. /\ server = NonAcademic /\ left = {} /\ server' = "more"
        /\ UNCHANGED <<due, dump, filed>>
    BY <1>7 DEF Finish, CloseDir, library
  <2>2. \A f \in dump : f.inode \notin due
    BY <1>1, <2>1 DEF SweepInv, Overdue
  <2> QED
    BY <1>2, <2>1, <2>2 DEF SweepInv, SweptClean, Filed
<1>8. ASSUME NEW f \in dump, Visit(f) PROVE SweepInv'
  <2>1. /\ server \in Groups /\ UNCHANGED <<filed, server, date, due>>
        /\ left' = left \ {f.inode}
        /\ dump' = IF Older(f, date) THEN dump \ {f} ELSE dump
    BY <1>8 DEF Visit
  <2>2. ASSUME NEW g \in dump', g.inode \in due
        PROVE  /\ Older(g, date)
               /\ g.name.group = server => g.inode \in left'
               /\ server = NonAcademic => g.name.group = NonAcademic
    <3>1. /\ g \in dump /\ Older(g, date)
          /\ g.name.group = server => g.inode \in left
          /\ server = NonAcademic => g.name.group = NonAcademic
      BY <2>1, <2>2 DEF SweepInv, Overdue
    <3>2. g # f
      BY <2>1, <2>2, <3>1
    <3>3. g.inode # f.inode
      BY <1>0, <3>1, <3>2
    <3> QED
      BY <2>1, <3>1, <3>3
  <2>3. server' # "more"
    BY <1>2, <2>1
  <2> QED
    BY <2>1, <2>2, <2>3 DEF SweepInv, SweptClean, Overdue, Older, Filed
<1> QED
  BY <1>3, <1>4, <1>5, <1>6, <1>7, <1>8 DEF ServerStep

LEMMA SweepInvSame ==
  ASSUME SweepInv, UNCHANGED <<library, server, date, left, due>>
  PROVE  SweepInv'
  BY DEF SweepInv, SweptClean, Overdue, Older, library, Filed

LEMMA SweepInvStep == NewsInv /\ SweepInv /\ [Next]_vars => SweepInv'
<1> SUFFICES ASSUME NewsInv, SweepInv, [Next]_vars PROVE SweepInv'
  OBVIOUS
<1>1. CASE Tick /\ UNCHANGED <<newsroom, sweeping>>
  BY <1>1, SweepInvSame DEF Tick, sweeping
<1>2. CASE NewsroomNext /\ UNCHANGED <<now, sweeping>>
  BY <1>2, SweepInvNewsroom
<1>3. CASE SweepNext
  <2>1. ASSUME NEW a \in Admins, AdminStep(a) \/ ClientReads(a), UNCHANGED library
        PROVE  SweepInv'
    BY <2>1, SweepInvSame DEF AdminStep, ClientReads, TypePassword, TypeDeadline, TypeAgain,
                              Interrupt, Admitted, Prompted, SendTo
  <2> QED
    BY <1>3, <2>1, SweepInvServer DEF SweepNext
<1>4. CASE UNCHANGED vars
  BY <1>4, SweepInvSame DEF vars, sweeping
<1> QED
  BY <1>1, <1>2, <1>3, <1>4 DEF Next

LEMMA SweepInvInit == Init => SweepInv
<1> SUFFICES ASSUME Init PROVE SweepInv
  OBVIOUS
<1>1. due = {} /\ dump = {}
  BY DEF Init, DumpInit, SweepInit
<1> QED
  BY <1>1 DEF SweepInv, SweptClean

\* When the server asks whether to go on, neither directory holds a file that was
\* too old when the date came, though files appear and are overwritten while it
\* goes through them, and however many administrators talk at once (the two
\* readdir loops of UDPServer).
THEOREM SweepIsClean == Spec => []SweptClean
<1>1. SweepInv => SweptClean
  BY DEF SweepInv
<1>2. NewsInv /\ SweepInv /\ [Next]_vars => (NewsInv /\ SweepInv)'
  BY NewsInvStep, SweepInvStep
<1> QED
  BY <1>1, <1>2, NewsInvInit, SweepInvInit, PTL DEF Spec

-----------------------------------------------------------------------------
(* Of one administrator at a time, the server takes as a date what was typed *)
(* as one. Two of them can mix their messages, and a password read as a date *)
(* is later than all.                                                        *)

OneAdmin == \A a, b \in Admins : a = b

AdminAt(a, step, states, answers) ==
  admin[a] = step /\ server \in states /\ replies[a] = answers

Sent(k, says) == inbox[k].says = says
DateSent(k) == Sent(k, "date") /\ inbox[k].date <= asked

\* Where the dialog of the administrator with the server may be.
AdminTalk(a) ==
  \/ /\ inbox = <<>>
     /\ \/ AdminAt(a, "off", {"password"}, <<>>)
        \/ AdminAt(a, "denied", {"password"}, <<>>)
        \/ AdminAt(a, "password", {"date"}, <<"y">>)
        \/ AdminAt(a, "password", {"password"}, <<"n">>)
        \/ AdminAt(a, "date", {"date"}, <<>>)
        \/ AdminAt(a, "prompt", Groups, <<>>) /\ cl_addr = a
        \/ AdminAt(a, "prompt", {"more"}, <<"more?">>)
        \/ AdminAt(a, "more", {"more"}, <<>>)
        \/ AdminAt(a, "done", {"password", "date", "more"}, <<>>)
  \/ /\ Len(inbox) = 1
     /\ \/ AdminAt(a, "password", {"password"}, <<>>) /\ (Sent(1, "password") \/ Sent(1, "wrong"))
        \/ AdminAt(a, "date", {"more"}, <<>>) /\ Sent(1, "y")
        \/ AdminAt(a, "prompt", {"date"}, <<>>) /\ DateSent(1)
        \/ AdminAt(a, "done", {"more"}, <<>>) /\ Sent(1, "n")
  \/ /\ Len(inbox) = 2
     /\ AdminAt(a, "prompt", {"more"}, <<>>) /\ Sent(1, "y") /\ DateSent(2)

DateTyped == server \in Groups => date <= asked

AdminInv == DateTyped /\ \A a \in Admins : AdminTalk(a)

LEMMA InboxIs ==
  ASSUME SweepOK
  PROVE  /\ inbox \in Seq(Message) /\ Len(inbox) \in Nat
         /\ inbox = <<>> <=> Len(inbox) = 0
         /\ \A k \in 1 .. Len(inbox) : inbox[k] \in Message
BY LenProperties, EmptySeq, ElementOfSeq DEF SweepOK

LEMMA SentGrows ==
  ASSUME SweepOK, NEW a \in Admins, NEW says, NEW when, NEW next,
         SendTo(a, says, when, next),
         [from |-> a, says |-> says, date |-> when] \in Message
  PROVE  /\ Len(inbox') = Len(inbox) + 1
         /\ \A k \in 1 .. Len(inbox) : inbox'[k] = inbox[k]
         /\ inbox'[Len(inbox) + 1].says = says /\ inbox'[Len(inbox) + 1].date = when
         /\ admin'[a] = next
         /\ UNCHANGED <<replies, server, cl_addr, date>>
<1> PICK m : m = [from |-> a, says |-> says, date |-> when]
  OBVIOUS
<1>1. inbox' = Append(inbox, m) /\ m \in Message /\ m.says = says /\ m.date = when
  BY DEF SendTo
<1>2. /\ Len(inbox') = Len(inbox) + 1
      /\ \A k \in 1 .. Len(inbox) : inbox'[k] = inbox[k]
      /\ inbox'[Len(inbox) + 1] = m
  BY <1>1, InboxIs, AppendProperties
<1> QED
  BY <1>1, <1>2 DEF SendTo, SweepOK

LEMMA AdminTalks ==
  ASSUME SweepOK, OneAdmin, AdminInv, NEW a \in Admins, AdminStep(a) \/ ClientReads(a)
  PROVE  AdminInv'
<1>1. AdminTalk(a) /\ DateTyped
  BY DEF AdminInv
<1>2. asked \in Nat /\ date \in Nat /\ Len(inbox) \in Nat
      /\ (inbox = <<>> <=> Len(inbox) = 0) /\ (inbox' = <<>> => Len(inbox') = 0)
      /\ \A k \in 1 .. Len(inbox) : inbox[k].date \in Nat
  BY InboxIs, DatesAre, EmptySeq DEF SweepOK, Message
<1>3. /\ Always \in Dates
      /\ \A says \in {"password", "wrong", "date", "y", "n"} : \A d \in Dates :
           [from |-> a, says |-> says, date |-> d] \in Message
  BY DatesAre DEF Message
<1>4. "password" \notin Groups /\ "date" \notin Groups /\ "more" \notin Groups
  BY SweepConstants
<1>5. Len(<<>>) = 0
  BY EmptySeq
<1> SUFFICES DateTyped' /\ AdminTalk(a)'
  BY DEF AdminInv, OneAdmin
<1>6. CASE TypePassword(a)
  <2>1. PICK says \in {"password", "wrong"} :
          SendTo(a, says, Always, "password") /\ asked' = asked
    BY <1>6 DEF TypePassword
  <2>2. admin[a] \in {"off", "denied"}
    BY <1>6 DEF TypePassword
  <2>3. inbox = <<>> /\ server = "password" /\ replies[a] = <<>>
    BY <1>1, <2>2 DEF AdminTalk, AdminAt
  <2>4. /\ Len(inbox') = 1 /\ inbox'[1].says = says /\ admin'[a] = "password"
        /\ UNCHANGED <<replies, server, cl_addr, date>>
    <3>1. [from |-> a, says |-> says, date |-> Always] \in Message
      BY <1>3
    <3>2. /\ Len(inbox') = Len(inbox) + 1
          /\ inbox'[Len(inbox) + 1].says = says
          /\ admin'[a] = "password"
          /\ UNCHANGED <<replies, server, cl_addr, date>>
      BY <2>1, <3>1, SentGrows
    <3>3. Len(inbox) + 1 = 1
      BY <1>2, <2>3
    <3> QED
      BY <3>2, <3>3
  <2> QED
    BY <1>1, <2>1, <2>3, <2>4 DEF AdminTalk, AdminAt, Sent, DateTyped
<1>7. CASE TypeDeadline(a)
  <2>1. PICK d \in Dates : /\ SendTo(a, "date", d, "prompt")
                           /\ asked' = IF d > asked THEN d ELSE asked
    BY <1>7 DEF TypeDeadline
  <2>2. d \in Nat /\ asked <= asked' /\ d <= asked' /\ asked' \in Nat
    BY <1>2, <2>1, DatesAre
  <2>3. admin[a] = "date" /\ replies[a] = <<>>
        /\ (\/ Len(inbox) = 0 /\ server = "date"
            \/ Len(inbox) = 1 /\ server = "more" /\ inbox[1].says = "y")
    BY <1>1, <1>2, <1>7 DEF TypeDeadline, AdminTalk, AdminAt, Sent
  <2>4. /\ Len(inbox') = Len(inbox) + 1
        /\ \A k \in 1 .. Len(inbox) : inbox'[k] = inbox[k]
        /\ inbox'[Len(inbox) + 1].says = "date" /\ inbox'[Len(inbox) + 1].date = d
        /\ admin'[a] = "prompt"
        /\ UNCHANGED <<replies, server, cl_addr, date>>
    BY <1>3, <2>1, SentGrows
  <2>5. DateTyped'
    BY <1>2, <1>1, <2>2, <2>4 DEF DateTyped
  <2>6. AdminTalk(a)'
    <3>1. CASE Len(inbox) = 0
      BY <2>2, <2>3, <2>4, <3>1 DEF AdminTalk, AdminAt, Sent, DateSent
    <3>2. CASE Len(inbox) = 1
      <4>1. inbox'[1] = inbox[1] /\ Len(inbox') = 2
        BY <2>4, <3>2
      <4> QED
        BY <2>2, <2>3, <2>4, <3>2, <4>1 DEF AdminTalk, AdminAt, Sent, DateSent
    <3> QED
      BY <2>3, <3>1, <3>2
  <2> QED
    BY <2>5, <2>6
<1>8. CASE TypeAgain(a)
  <2>1. PICK says \in {"y", "n"} :
          /\ SendTo(a, says, Always, IF says = "y" THEN "date" ELSE "done")
          /\ asked' = asked
    BY <1>8 DEF TypeAgain
  <2>2. inbox = <<>> /\ server = "more" /\ replies[a] = <<>>
    BY <1>1, <1>8 DEF TypeAgain, AdminTalk, AdminAt
  <2>3. /\ Len(inbox') = 1 /\ inbox'[1].says = says
        /\ admin'[a] = IF says = "y" THEN "date" ELSE "done"
        /\ UNCHANGED <<replies, server, cl_addr, date>>
    <3> PICK next : next = IF says = "y" THEN "date" ELSE "done"
      OBVIOUS
    <3>1. [from |-> a, says |-> says, date |-> Always] \in Message /\ SendTo(a, says, Always, next)
      BY <1>3, <2>1
    <3>2. /\ Len(inbox') = Len(inbox) + 1
          /\ inbox'[Len(inbox) + 1].says = says
          /\ admin'[a] = next
          /\ UNCHANGED <<replies, server, cl_addr, date>>
      BY <3>1, SentGrows
    <3>3. Len(inbox) + 1 = 1
      BY <1>2, <2>2
    <3> QED
      BY <3>2, <3>3
  <2> QED
    BY <1>1, <2>1, <2>2, <2>3 DEF AdminTalk, AdminAt, Sent, DateTyped
<1>9. CASE Admitted(a) \/ Prompted(a)
  <2>1. /\ admin[a] \in {"password", "prompt"} /\ replies[a] # <<>>
        /\ admin'[a] = IF admin[a] = "prompt" THEN "more"
                       ELSE IF Head(replies[a]) = "n" THEN "denied" ELSE "date"
        /\ replies'[a] = Tail(replies[a])
        /\ UNCHANGED <<inbox, server, cl_addr, date, asked>>
    BY <1>9 DEF Admitted, Prompted, SweepOK
  <2>2. inbox = <<>> /\ \/ admin[a] = "password" /\ server = "date" /\ replies[a] = <<"y">>
                        \/ admin[a] = "password" /\ server = "password" /\ replies[a] = <<"n">>
                        \/ admin[a] = "prompt" /\ server = "more" /\ replies[a] = <<"more?">>
    BY <1>1, <2>1 DEF AdminTalk, AdminAt
  <2>3. \A x : Head(<<x>>) = x /\ Tail(<<x>>) = <<>>
    OBVIOUS
  <2> QED
    BY <1>1, <2>1, <2>2, <2>3 DEF AdminTalk, AdminAt, DateTyped
<1>10. CASE Interrupt(a)
  <2>1. /\ server \in {"password", "date", "more"} /\ replies[a] = <<>>
        /\ \A n \in 1 .. Len(inbox) : inbox[n].from # a
        /\ admin'[a] = "done" /\ UNCHANGED <<replies, inbox, server, cl_addr, date, asked>>
    BY <1>10 DEF Interrupt, SweepOK
  <2>2. \A k \in 1 .. Len(inbox) : inbox[k].from \in Admins
    BY InboxIs DEF Message
  <2>3. Len(inbox) = 0
    <3>1. \A k \in 1 .. Len(inbox) : FALSE
      BY <2>1, <2>2 DEF OneAdmin
    <3> QED
      BY <1>2, <3>1
  <2> QED
    BY <1>1, <1>2, <2>1, <2>3 DEF AdminTalk, AdminAt, DateTyped
<1> QED
  BY <1>6, <1>7, <1>8, <1>9, <1>10 DEF AdminStep, ClientReads

LEMMA Received1 ==
  ASSUME SweepOK, NEW state, Receive(state)
  PROVE  /\ server = state /\ Received = inbox[1] /\ Received \in Message
         /\ cl_addr' = Received.from /\ Len(inbox) \in Nat \ {0}
         /\ Len(inbox') = Len(inbox) - 1
         /\ \A k \in 1 .. Len(inbox) - 1 : inbox'[k] = inbox[k + 1]
         /\ Len(inbox) = 1 => inbox' = <<>>
<1>1. inbox \in Seq(Message) /\ inbox # <<>> /\ inbox' = Tail(inbox)
  BY DEF Receive, SweepOK
<1>2. /\ Head(inbox) = inbox[1] /\ Head(inbox) \in Message
      /\ Len(Tail(inbox)) = Len(inbox) - 1 /\ Tail(inbox) \in Seq(Message)
      /\ \A k \in 1 .. Len(inbox) - 1 : Tail(inbox)[k] = inbox[k + 1]
  BY <1>1, HeadTailProperties
<1>3. Len(inbox) \in Nat \ {0}
  BY <1>1, InboxIs
<1>4. ASSUME Len(inbox) = 1 PROVE Tail(inbox) = <<>>
  <2>1. Len(Tail(inbox)) = 0
    BY <1>2, <1>4
  <2> QED
    BY <1>2, <2>1, EmptySeq
<1> QED
  BY <1>1, <1>2, <1>3, <1>4 DEF Receive, Received

LEMMA ServerTalks ==
  ASSUME SweepOK, OneAdmin, AdminInv, ServerStep
  PROVE  AdminInv'
<1>2. /\ asked \in Nat /\ date \in Nat /\ Len(inbox) \in Nat
      /\ inbox = <<>> <=> Len(inbox) = 0
  BY InboxIs, DatesAre DEF SweepOK
<1>4. "password" \notin Groups /\ "date" \notin Groups /\ "more" \notin Groups
  BY SweepConstants
<1>5. \A a \in Admins : admin' = admin /\ asked' = asked
  BY DEF ServerStep, CheckPassword, ReadDeadline, ReadAgain, NextDir, Finish, CloseDir, Visit
<1>6. CASE CheckPassword
  <2>1. Receive("password") /\ UNCHANGED <<date, asked, admin>>
    BY <1>6 DEF CheckPassword
  <2> PICK a \in Admins : a = Received.from
    BY <2>1, Received1 DEF Message
  <2>2. AdminTalk(a) /\ server = "password" /\ Len(inbox) # 0
    BY <2>1, Received1 DEF AdminInv
  <2>3. /\ Len(inbox) = 1 /\ admin[a] = "password" /\ replies[a] = <<>>
        /\ inbox[1].says \in {"password", "wrong"}
    BY <1>2, <2>2 DEF AdminTalk, AdminAt, Sent
  <2>4. inbox' = <<>> /\ Received = inbox[1]
    BY <2>1, <2>3, Received1
  <2>5. \A x : Append(<<>>, x) = <<x>>
    OBVIOUS
  <2>6. IF inbox[1].says = "password" THEN server' = "date" /\ replies'[a] = <<"y">>
        ELSE server' = "password" /\ replies'[a] = <<"n">>
    BY <1>6, <2>3, <2>4, <2>5 DEF CheckPassword, Reply, SweepOK
  <2>7. AdminTalk(a)'
    BY <2>1, <2>3, <2>4, <2>6 DEF AdminTalk, AdminAt
  <2>8. DateTyped'
    BY <1>4, <2>6 DEF DateTyped
  <2> QED
    BY <2>7, <2>8 DEF AdminInv, OneAdmin
<1>7. CASE ReadDeadline
  <2>1. /\ Receive("date") /\ UNCHANGED <<asked, admin, replies>>
        /\ server' = Academic /\ date' \in Parsed(Received)
    BY <1>7 DEF ReadDeadline, OpenDir
  <2> PICK a \in Admins : a = Received.from
    BY <2>1, Received1 DEF Message
  <2>2. AdminTalk(a) /\ server = "date" /\ Len(inbox) # 0
    BY <2>1, Received1 DEF AdminInv
  <2>3. /\ Len(inbox) = 1 /\ admin[a] = "prompt" /\ replies[a] = <<>>
        /\ inbox[1].says = "date" /\ inbox[1].date <= asked
    BY <1>2, <1>4, <2>2 DEF AdminTalk, AdminAt, Sent, DateSent
  <2>4. inbox' = <<>> /\ Received = inbox[1] /\ cl_addr' = a
    BY <2>1, <2>3, Received1
  <2>5. date' <= asked
    BY <2>1, <2>3, <2>4 DEF Parsed
  <2>6. AdminTalk(a)'
    BY <2>1, <2>3, <2>4 DEF AdminTalk, AdminAt, Groups
  <2> QED
    BY <2>1, <2>5, <2>6 DEF AdminInv, OneAdmin, DateTyped
<1>8. CASE ReadAgain
  <2>1. /\ Receive("more") /\ UNCHANGED <<asked, admin, replies, date>>
        /\ server' \in CASE Received.says = "n" -> {"password"}
                         [] Received.says = "wrong" -> {"password", "date"}
                         [] OTHER -> {"date"}
    BY <1>8 DEF ReadAgain
  <2> PICK a \in Admins : a = Received.from
    BY <2>1, Received1 DEF Message
  <2>2. AdminTalk(a) /\ server = "more" /\ Len(inbox) # 0
    BY <2>1, Received1 DEF AdminInv
  <2>3. /\ Received = inbox[1] /\ Len(inbox') = Len(inbox) - 1
        /\ \A k \in 1 .. Len(inbox) - 1 : inbox'[k] = inbox[k + 1]
        /\ Len(inbox) = 1 => inbox' = <<>>
    BY <2>1, Received1
  <2>4. CASE Len(inbox) = 1 /\ inbox[1].says = "y" /\ admin[a] = "date" /\ replies[a] = <<>>
    <3>1. server' = "date" /\ inbox' = <<>>
      BY <2>1, <2>3, <2>4
    <3>2. AdminTalk(a)'
      BY <2>1, <2>4, <3>1 DEF AdminTalk, AdminAt
    <3> QED
      BY <1>4, <3>1, <3>2 DEF AdminInv, OneAdmin, DateTyped
  <2>5. CASE Len(inbox) = 1 /\ inbox[1].says = "n" /\ admin[a] = "done" /\ replies[a] = <<>>
    <3>1. server' = "password" /\ inbox' = <<>>
      BY <2>1, <2>3, <2>5
    <3>2. AdminTalk(a)'
      BY <2>1, <2>5, <3>1 DEF AdminTalk, AdminAt
    <3> QED
      BY <1>4, <3>1, <3>2 DEF AdminInv, OneAdmin, DateTyped
  <2>6. CASE /\ Len(inbox) = 2 /\ inbox[1].says = "y" /\ admin[a] = "prompt" /\ replies[a] = <<>>
             /\ inbox[2].says = "date" /\ inbox[2].date <= asked
    <3>1. server' = "date" /\ Len(inbox') = 1 /\ inbox'[1] = inbox[2]
      BY <2>1, <2>3, <2>6
    <3>2. AdminTalk(a)'
      BY <2>1, <2>6, <3>1 DEF AdminTalk, AdminAt, Sent, DateSent
    <3> QED
      BY <1>4, <3>1, <3>2 DEF AdminInv, OneAdmin, DateTyped
  <2> QED
    BY <1>2, <1>4, <2>2, <2>4, <2>5, <2>6 DEF AdminTalk, AdminAt, Sent, DateSent
<1>9. CASE NextDir
  <2>1. /\ UNCHANGED <<admin, inbox, replies, cl_addr, date, asked>>
        /\ server = Academic /\ server' = NonAcademic
    BY <1>9 DEF NextDir, CloseDir, OpenDir
  <2>2. server \in Groups /\ server' \in Groups
    BY <2>1 DEF Groups
  <2>3. ASSUME NEW a \in Admins PROVE AdminTalk(a)'
    <3>1. inbox = <<>> /\ AdminAt(a, "prompt", Groups, <<>>) /\ cl_addr = a
      BY <1>2, <1>4, <2>2 DEF AdminInv, AdminTalk, AdminAt
    <3> QED
      BY <2>1, <2>2, <3>1 DEF AdminTalk, AdminAt
  <2> QED
    BY <2>1, <2>2, <2>3 DEF AdminInv, DateTyped
<1>10. CASE Finish
  <2>1. /\ UNCHANGED <<admin, inbox, asked>> /\ Reply(cl_addr, "more?")
        /\ server = NonAcademic /\ server' = "more"
    BY <1>10 DEF Finish, CloseDir
  <2>2. server \in Groups
    BY <2>1 DEF Groups
  <2>3. ASSUME NEW a \in Admins PROVE AdminTalk(a)'
    <3>1. inbox = <<>> /\ AdminAt(a, "prompt", Groups, <<>>) /\ cl_addr = a
      BY <1>2, <1>4, <2>2 DEF AdminInv, AdminTalk, AdminAt
    <3>2. replies'[a] = Append(replies[a], "more?")
      BY <2>1, <3>1 DEF Reply, AdminAt, SweepOK
    <3>3. Append(<<>>, "more?") = <<"more?">>
      OBVIOUS
    <3> QED
      BY <2>1, <3>1, <3>2, <3>3 DEF AdminTalk, AdminAt
  <2> QED
    BY <1>4, <2>1, <2>3 DEF AdminInv, DateTyped
<1>11. CASE \E f \in dump : Visit(f)
  <2>1. UNCHANGED <<admin, replies, inbox, server, cl_addr, date, asked>>
    BY <1>11 DEF Visit
  <2> QED
    BY <2>1 DEF AdminInv, DateTyped, AdminTalk, AdminAt, Sent, DateSent
<1> QED
  BY <1>6, <1>7, <1>8, <1>9, <1>10, <1>11 DEF ServerStep

LEMMA AdminStays ==
  ASSUME AdminInv, UNCHANGED sweeping
  PROVE  AdminInv'
BY DEF AdminInv, sweeping, DateTyped, AdminTalk, AdminAt, Sent, DateSent

LEMMA InitAdmin == Init => AdminInv
<1> SUFFICES ASSUME Init PROVE AdminInv
  OBVIOUS
<1>1. server = "password" /\ "password" \notin Groups
  BY SweepConstants DEF Init, SweepInit
<1> QED
  BY <1>1 DEF Init, SweepInit, AdminInv, DateTyped, AdminTalk, AdminAt

-----------------------------------------------------------------------------
(* Articles that are kept.                                                   *)

\* A file that the article fills alone; or a reason why there need not be one.
Printed(n) == \E f \in dump : f.name = filed[n] /\ f.text = {n}
Excused(n) == AskedFor(filed[n]) \/ Rivals(n)

ArticlesKept ==
  /\ \A n \in Filed :
       \/ Printed(n) \/ Excused(n)
       \/ \E r \in Reporters : session[r] = "write" /\ desk[r].article = n
  /\ \A r \in Reporters : session[r] = "write" =>
       Excused(desk[r].article) \/ \E f \in dump : f.inode = desk[r].inode

LEMMA OpenedFiles ==
  ASSUME LibOK, ReportOK, Kept, NEW r \in Reporters, Talk(r), Opened(r)
  PROVE  /\ \A n \in Filed : n \in Filed' /\ filed'[n] = filed[n]
         /\ NewArticle \in Filed' /\ NewArticle \notin Filed
         /\ \A n \in Filed' : n \in Filed \/ n = NewArticle
         /\ filed'[NewArticle] = desk[r].name
         /\ \A f \in dump : f.name # desk[r].name => f \in dump'
         /\ \A f \in dump : \E g \in dump' : g.name = f.name /\ g.inode = f.inode
         /\ \E f \in dump' : f.inode = desk'[r].inode
<1> PICK nm \in Name : nm = desk[r].name
  BY OpenedDesk
<1>1. Truncate(nm) /\ filed' = Append(filed, nm)
  BY DEF Opened, Truncate
<1>2. /\ NewArticle \in Filed' /\ NewArticle \notin Filed
      /\ filed'[NewArticle] = nm
      /\ \A n \in Filed : n \in Filed' /\ filed'[n] = filed[n]
  BY <1>1, FiledGrows
<1>3. \A n \in Filed' : n \in Filed \/ n = NewArticle
  <2>1. filed \in Seq(Name) /\ Len(filed) \in Nat
    BY LenProperties DEF LibOK
  <2>2. Len(filed') = Len(filed) + 1
    BY <1>1, <2>1, AppendProperties
  <2> QED
    BY <2>1, <2>2 DEF Filed, NewArticle
<1>4. CASE Named(nm) = {}
  <2> PICK new : new = [name |-> nm, inode |-> NewArticle, text |-> {}]
    OBVIOUS
  <2>1. dump' = dump \cup {new} /\ new.inode = NewArticle
    BY <1>1, <1>4 DEF Truncate
  <2>2. desk'[r].inode = NewArticle
    BY <1>4, OpenedDesk
  <2> QED
    BY <1>2, <1>3, <2>1, <2>2
<1>5. CASE Named(nm) # {}
  <2>1. ASSUME NEW f \in dump
        PROVE  \E g \in dump' : /\ g.name = f.name /\ g.inode = f.inode
                                /\ f.name # nm => g = f
    <3>1. (IF f.name = nm THEN [f EXCEPT !.text = {}] ELSE f) \in dump'
      BY <1>1, <1>5 DEF Truncate
    <3> QED
      BY <3>1 DEF LibOK, File
  <2>2. PICK f \in dump : f.name = nm
    BY <1>5 DEF Named
  <2>3. f.inode = desk'[r].inode
    BY <1>5, <2>2, OpenedDesk DEF Named
  <2> QED
    BY <1>2, <1>3, <2>1, <2>2, <2>3
<1> QED
  BY <1>4, <1>5

LEMMA WrittenFiles ==
  ASSUME LibOK, NEW n, NEW inode, Write(n, inode)
  PROVE  \A f \in dump : \E g \in dump' :
           /\ g.name = f.name /\ g.inode = f.inode
           /\ f.inode # inode => g = f
           /\ f.inode = inode => n \in g.text /\ g.text \subseteq f.text \cup {n}
<1>1. PICK leftover \in BOOLEAN :
        dump' = {IF f.inode = inode
                 THEN [f EXCEPT !.text = {n} \cup (IF leftover THEN @ ELSE {})]
                 ELSE f : f \in dump}
  BY DEF Write
<1> TAKE f \in dump
<1>2. f \in File
  BY DEF LibOK
<1> PICK g : g = IF f.inode = inode
                 THEN [f EXCEPT !.text = {n} \cup (IF leftover THEN f.text ELSE {})]
                 ELSE f
  OBVIOUS
<1>3. g \in dump'
  BY <1>1, <1>2 DEF File
<1>4. /\ g.name = f.name /\ g.inode = f.inode
      /\ f.inode # inode => g = f
      /\ f.inode = inode => g.text = {n} \cup (IF leftover THEN f.text ELSE {})
  BY <1>2 DEF File
<1> QED
  BY <1>3, <1>4

\* The latest date that was typed only grows.
LEMMA AskedGrows ==
  ASSUME SweepOK, SweepNext
  PROVE  asked \in Nat /\ asked' \in Nat /\ asked <= asked'
<1>1. asked \in Nat
  BY DatesAre DEF SweepOK
<1>2. asked' = asked \/ \E d \in Dates : asked' = IF d > asked THEN d ELSE asked
  BY DEF SweepNext, AdminStep, ClientReads, TypePassword, TypeDeadline, TypeAgain, Interrupt,
         Admitted, Prompted, ServerStep, CheckPassword, ReadDeadline, ReadAgain, NextDir, Finish,
         CloseDir, Visit
<1> QED
  BY <1>1, <1>2, DatesAre

LEMMA StillExcused ==
  ASSUME LibOK, NEW n \in Filed, Excused(n),
         \A m \in Filed : m \in Filed' /\ filed'[m] = filed[m],
         asked \in Nat, asked' \in Nat, asked <= asked'
  PROVE  Excused(n)'
<1>0. filed[n] \in Name
  BY ElementOfSeq DEF LibOK, Filed
<1>1. filed[n].time \in Nat
  BY <1>0, DumpConstants DEF Name, Seconds
<1>2. CASE AskedFor(filed[n])
  BY <1>1, <1>2 DEF AskedFor, Excused
<1>3. CASE Rivals(n)
  BY <1>3 DEF Rivals, Excused
<1> QED
  BY <1>2, <1>3 DEF Excused

\* What is to be shown of a step, each article taken for itself.
LEMMA ArticlesKeptThen ==
  ASSUME \A n \in Filed' :
           \/ Printed(n)' \/ Excused(n)'
           \/ \E q \in Reporters : session'[q] = "write" /\ desk'[q].article = n,
         \A q \in Reporters : session'[q] = "write" =>
           \/ \E n \in Filed : n = desk'[q].article /\ Excused(n)'
           \/ \E f \in dump' : f.inode = desk'[q].inode
  PROVE  ArticlesKept'
<1>1. ASSUME NEW q \in Reporters, NEW n, n = desk'[q].article, Excused(n)'
      PROVE  Excused(desk[q].article)'
  BY <1>1 DEF Excused, AskedFor, Rivals
<1> QED
  BY <1>1 DEF ArticlesKept

LEMMA ArticlesOpened ==
  ASSUME LibOK, ReportOK, SweepOK, Kept, DeskKept, ArticlesKept, asked' = asked,
         NEW r \in Reporters, Talk(r), Opened(r)
  PROVE  ArticlesKept'
<1>1. asked \in Nat /\ asked' \in Nat /\ asked <= asked'
  BY DatesAre DEF SweepOK
<1>2. /\ session[r] = "open" /\ session'[r] = "write" /\ desk'[r].article = NewArticle
      /\ \A q \in Reporters \ {r} : session'[q] = session[q] /\ desk'[q] = desk[q]
  BY OpenedDesk DEF Opened, ReportOK
<1>3. \A n \in Filed : n \in Filed' /\ filed'[n] = filed[n]
  BY OpenedFiles
<1>4. \A n \in Filed : Excused(n) => Excused(n)'
  BY <1>1, <1>3, StillExcused
<1>5. ASSUME NEW n \in Filed'
      PROVE  \/ Printed(n)' \/ Excused(n)'
             \/ \E q \in Reporters : session'[q] = "write" /\ desk'[q].article = n
  <2>1. CASE n = NewArticle
    BY <1>2, <2>1
  <2>2. CASE n \in Filed /\ Excused(n)
    BY <1>4, <2>2
  <2>3. CASE n \in Filed /\ \E q \in Reporters : session[q] = "write" /\ desk[q].article = n
    BY <1>2, <2>3
  <2>4. CASE n \in Filed /\ Printed(n)
    <3>1. PICK f \in dump : f.name = filed[n] /\ f.text = {n}
      BY <2>4 DEF Printed
    <3>2. CASE f.name # desk[r].name
      BY <1>3, <2>4, <3>1, <3>2, OpenedFiles DEF Printed
    <3>3. CASE f.name = desk[r].name
      <4>1. NewArticle \in Filed' \ {n} /\ filed'[NewArticle] = filed'[n]
        BY <1>3, <2>4, <3>1, <3>3, OpenedFiles
      <4> QED
        BY <4>1 DEF Excused, Rivals
    <3> QED
      BY <3>2, <3>3
  <2> QED
    BY <2>1, <2>2, <2>3, <2>4, OpenedFiles DEF ArticlesKept
<1>6. ASSUME NEW q \in Reporters, session'[q] = "write"
      PROVE  \/ \E n \in Filed : n = desk'[q].article /\ Excused(n)'
             \/ \E f \in dump' : f.inode = desk'[q].inode
  <2>1. CASE q = r
    BY <2>1, OpenedFiles
  <2>2. CASE q # r
    <3>1. /\ session[q] = "write" /\ desk'[q] = desk[q] /\ desk[q].article \in Filed
          /\ Excused(desk[q].article) \/ \E f \in dump : f.inode = desk[q].inode
      BY <1>2, <1>6, <2>2 DEF ArticlesKept, DeskKept, DeskAt
    <3> QED
      BY <1>4, <3>1, OpenedFiles
  <2> QED
    BY <2>1, <2>2
<1> QED
  BY <1>5, <1>6, ArticlesKeptThen

LEMMA ArticlesWritten ==
  ASSUME LibOK, ReportOK, SweepOK, Kept, DeskKept, ArticlesKept, asked' = asked,
         NEW r \in Reporters, WriteFile(r)
  PROVE  ArticlesKept'
<1>1. asked \in Nat /\ asked' \in Nat /\ asked <= asked'
  BY DatesAre DEF SweepOK
<1>2. /\ session[r] = "write" /\ session'[r] = "more" /\ filed' = filed /\ Filed' = Filed
      /\ \A q \in Reporters \ {r} : session'[q] = session[q] /\ desk'[q] = desk[q]
  BY DEF WriteFile, Prompts, ReportOK, Filed
<1> PICK w, inode : w = desk[r].article /\ inode = desk[r].inode
  OBVIOUS
<1>3. Write(w, inode)
  BY DEF WriteFile
<1>4. /\ w \in Filed /\ inode \in Filed /\ filed[w] = filed[inode]
      /\ Excused(w) \/ \E f \in dump : f.inode = inode
  BY <1>2 DEF DeskKept, DeskAt, ArticlesKept
<1>5. \A n \in Filed : Excused(n) => Excused(n)'
  BY <1>1, <1>2, StillExcused
<1>6. ASSUME NEW n \in Filed', ~Excused(n)'
      PROVE  \/ Printed(n)'
             \/ \E q \in Reporters : session'[q] = "write" /\ desk'[q].article = n
  <2>0. n \in Filed /\ ~Excused(n)
    BY <1>2, <1>5, <1>6
  <2>1. \A m \in Filed : filed[m] = filed[n] => m = n
    BY <2>0 DEF Excused, Rivals
  <2>2. CASE n = w
    <3>1. PICK f \in dump : f.inode = inode
      BY <1>4, <2>0, <2>2
    <3>2. PICK g \in dump' : g.name = f.name /\ n \in g.text /\ g.text \subseteq f.text \cup {n}
      BY <1>3, <2>2, <3>1, WrittenFiles
    <3>3. f.name = filed[n] /\ \A m \in f.text : m = n
      BY <1>4, <2>1, <2>2, <3>1 DEF Kept
    <3>4. g.text = {n} /\ g.name = filed'[n]
      BY <1>2, <3>2, <3>3
    <3> QED
      BY <3>4 DEF Printed
  <2>3. CASE n # w /\ Printed(n)
    <3>1. PICK f \in dump : f.name = filed[n] /\ f.text = {n}
      BY <2>3 DEF Printed
    <3>2. f.inode # inode
      BY <1>4, <2>1, <2>3, <3>1 DEF Kept
    <3>3. f \in dump'
      BY <1>3, <3>2, WrittenFiles
    <3> QED
      BY <1>2, <3>1, <3>3 DEF Printed
  <2>4. CASE n # w /\ \E q \in Reporters : session[q] = "write" /\ desk[q].article = n
    BY <1>2, <2>4
  <2> QED
    BY <2>0, <2>2, <2>3, <2>4 DEF ArticlesKept
<1>7. ASSUME NEW q \in Reporters, session'[q] = "write"
      PROVE  \/ \E n \in Filed : n = desk'[q].article /\ Excused(n)'
             \/ \E f \in dump' : f.inode = desk'[q].inode
  <2>1. /\ session[q] = "write" /\ desk'[q] = desk[q] /\ desk[q].article \in Filed
        /\ Excused(desk[q].article) \/ \E f \in dump : f.inode = desk[q].inode
    BY <1>2, <1>7 DEF ArticlesKept, DeskKept, DeskAt
  <2> QED
    BY <1>3, <1>5, <2>1, WrittenFiles
<1> QED
  BY <1>6, <1>7, ArticlesKeptThen

\* A step that opens and writes nothing, and deletes a file only if it is older
\* than a date that was typed.
LEMMA ArticlesStay ==
  ASSUME LibOK, ReportOK, SweepOK, DeskKept, ArticlesKept, UNCHANGED filed,
         asked \in Nat, asked' \in Nat, asked <= asked',
         Kept, dump' \subseteq dump, \A f \in dump \ dump' : f.name.time < asked',
         \A q \in Reporters : /\ session'[q] = "write" <=> session[q] = "write"
                              /\ session[q] = "write" => desk'[q] = desk[q]
  PROVE  ArticlesKept'
<1>1. filed' = filed /\ Filed' = Filed
  BY DEF Filed
<1>2. \A n \in Filed : Excused(n) => Excused(n)'
  BY <1>1, StillExcused
<1>3. ASSUME NEW n \in Filed, NEW f \in dump, f.name = filed[n]
      PROVE  f \in dump' \/ Excused(n)'
  BY <1>1, <1>3 DEF Excused, AskedFor
<1>4. ASSUME NEW n \in Filed'
      PROVE  \/ Printed(n)' \/ Excused(n)'
             \/ \E q \in Reporters : session'[q] = "write" /\ desk'[q].article = n
  <2>1. CASE Printed(n)
    <3>1. PICK f \in dump : f.name = filed[n] /\ f.text = {n}
      BY <2>1 DEF Printed
    <3> QED
      BY <1>1, <1>3, <3>1 DEF Printed
  <2>2. CASE Excused(n) \/ \E q \in Reporters : session[q] = "write" /\ desk[q].article = n
    BY <1>1, <1>2, <2>2
  <2> QED
    BY <1>1, <2>1, <2>2 DEF ArticlesKept
<1>5. ASSUME NEW q \in Reporters, session'[q] = "write"
      PROVE  \/ \E n \in Filed : n = desk'[q].article /\ Excused(n)'
             \/ \E f \in dump' : f.inode = desk'[q].inode
  <2>1. /\ session[q] = "write" /\ desk'[q] = desk[q] /\ desk[q].article \in Filed
        /\ filed[desk[q].article] = filed[desk[q].inode]
        /\ Excused(desk[q].article) \/ \E f \in dump : f.inode = desk[q].inode
    BY <1>5 DEF ArticlesKept, DeskKept, DeskAt
  <2>2. CASE Excused(desk[q].article)
    BY <1>2, <2>1, <2>2
  <2>3. ASSUME NEW f \in dump, f.inode = desk[q].inode
        PROVE  \/ \E n \in Filed : n = desk'[q].article /\ Excused(n)'
               \/ \E g \in dump' : g.inode = desk'[q].inode
    <3>1. f.name = filed[desk[q].article]
      BY <2>1, <2>3 DEF Kept
    <3> QED
      BY <1>3, <2>1, <2>3, <3>1
  <2> QED
    BY <2>1, <2>2, <2>3
<1> QED
  BY <1>4, <1>5, ArticlesKeptThen

\* A sweep deletes only what is older than a date that was typed.
LEMMA SweepsWhatWasAsked ==
  ASSUME LibOK, SweepOK, AdminInv, SweepNext
  PROVE  \A f \in dump \ dump' : f.name.time < asked'
<1>1. CASE \E f \in dump : Visit(f)
  <2>1. PICK f \in dump : Visit(f)
    BY <1>1
  <2>2. /\ server \in Groups /\ asked' = asked
        /\ dump' = IF Older(f, date) THEN dump \ {f} ELSE dump
    BY <2>1 DEF Visit
  <2>3. f.name.time \in Nat
    BY DumpConstants DEF LibOK, File, Name, Seconds
  <2>4. date <= asked /\ date \in Nat /\ asked \in Nat
    BY <2>2, DatesAre DEF AdminInv, DateTyped, SweepOK
  <2> QED
    BY <2>2, <2>3, <2>4 DEF Older
<1>2. CASE UNCHANGED library
  BY <1>2 DEF library
<1> QED
  BY <1>1, <1>2 DEF SweepNext, ServerStep

LEMMA AdminInvStep ==
  ASSUME OneAdmin, NewsInv, AdminInv, [Next]_vars
  PROVE  AdminInv'
<1>1. SweepOK
  BY TypeParts DEF NewsInv
<1> QED
  BY <1>1, AdminTalks, ServerTalks, AdminStays DEF Next, SweepNext, vars

LEMMA ArticlesKeptStep ==
  ASSUME OneAdmin, NewsInv, AdminInv, ArticlesKept, [Next]_vars
  PROVE  ArticlesKept'
<1> LibOK /\ ReportOK /\ ReadOK /\ SweepOK /\ Kept /\ Talks /\ DeskKept
  BY TypeParts DEF NewsInv
<1>1. asked \in Nat
  BY DatesAre DEF SweepOK
<1>2. ASSUME NEW r \in Reporters, ClientStep(r) \/ ReadStep(r), UNCHANGED <<library, sweeping>>
      PROVE  ArticlesKept'
  <2>1. ASSUME NEW q \in Reporters
        PROVE  /\ session'[q] = "write" <=> session[q] = "write"
               /\ session[q] = "write" => desk'[q] = desk[q]
    BY <1>2, <2>1, SameWriting
  <2> QED
    BY <1>1, <1>2, <2>1, ArticlesStay DEF library, sweeping
<1>3. ASSUME NEW r \in Reporters, NotOpened(r), UNCHANGED sweeping
      PROVE  ArticlesKept'
  <2>1. \A q \in Reporters : /\ session'[q] = "write" <=> session[q] = "write"
                             /\ session[q] = "write" => desk'[q] = desk[q]
    BY <1>3 DEF NotOpened, ReportOK
  <2> QED
    BY <1>1, <1>3, <2>1, ArticlesStay DEF NotOpened, library, sweeping
<1>4. ASSUME NEW r \in Reporters, UNCHANGED sweeping,
             (ClientStep(r) /\ UNCHANGED library) \/ SessionStep(r)
      PROVE  ArticlesKept'
  <2>1. \/ UNCHANGED library /\ (ClientStep(r) \/ ReadStep(r))
        \/ Opened(r) \/ NotOpened(r) \/ WriteFile(r)
    BY <1>4, OpenFileIs DEF SessionStep, ReadStep
  <2>2. asked' = asked /\ Talk(r)
    BY <1>4 DEF sweeping, Talks
  <2> QED
    BY <1>2, <1>3, <1>4, <2>1, <2>2, ArticlesOpened, ArticlesWritten
<1>5. CASE UNCHANGED <<library, reporting, sweeping>>
  BY <1>1, <1>5, ArticlesStay DEF library, reporting, sweeping
<1>6. CASE SweepNext /\ UNCHANGED newsroom
  <2>1. asked' \in Nat /\ asked <= asked'
    BY <1>6, AskedGrows
  <2>2. filed' = filed /\ dump' \subseteq dump
    BY <1>6 DEF SweepNext, ServerStep, Visit, library
  <2>3. \A f \in dump \ dump' : f.name.time < asked'
    BY <1>6, SweepsWhatWasAsked
  <2> QED
    BY <1>1, <1>6, <2>1, <2>2, <2>3, ArticlesStay DEF newsroom, reporting
<1>7. CASE NewsroomNext /\ UNCHANGED <<now, sweeping>>
  <2>1. ASSUME NEW r \in Readers, (UserStep(r) \/ ServeStep(r)) /\ UNCHANGED reporting
        PROVE  ArticlesKept'
    <3>1. UNCHANGED library
      BY <2>1, ReaderStepType DEF NewsInv
    <3> QED
      BY <1>5, <1>7, <2>1, <3>1
  <2> QED
    BY <1>4, <1>7, <2>1 DEF NewsroomNext
<1> QED
  BY <1>5, <1>6, <1>7 DEF Next, Tick, vars, newsroom

LEMMA InitArticlesKept == Init => ArticlesKept
  BY EmptySeq DEF Init, DumpInit, NewsroomInit, ArticlesKept, Filed

\* All that holds with one administrator.
LEMMA KeptAlways == ASSUME OneAdmin PROVE Spec => [](NewsInv /\ AdminInv /\ ArticlesKept)
<1>1. NewsInv /\ AdminInv /\ ArticlesKept /\ [Next]_vars => (NewsInv /\ AdminInv /\ ArticlesKept)'
  BY NewsInvStep, AdminInvStep, ArticlesKeptStep
<1>2. Init => NewsInv /\ AdminInv /\ ArticlesKept
  BY NewsInvInit, InitAdmin, InitArticlesKept
<1> QED
  BY <1>1, <1>2, PTL DEF Spec

\* With one administrator, an article that was filed is in the library, alone in
\* its file, unless a later date was typed or another article came with the same
\* heading in the same second: however sessions and sweep meet, no step of theirs
\* loses one (reporter and UDPServer). With two administrators it is false, as the
\* run news_two_admins shows.
THEOREM ArticlesAreKept == ASSUME OneAdmin PROVE Spec => []EveryArticleKept
<1>1. ArticlesKept => EveryArticleKept
  BY DEF ArticlesKept, EveryArticleKept, InHand, Printed, Excused
<1> QED
  BY <1>1, KeptAlways, PTL

-----------------------------------------------------------------------------
(* Readers and their listings.                                               *)

Stands(nm) == (\E f \in dump : f.name = nm) \/ AskedFor(nm)

\* What the number typed stands for.
Picked(r) ==
  \/ meant[r] \in file_list[r] /\ number[r] = Number(file_list[r], meant[r])
  \/ meant[r] = NoName /\ number[r] = Cardinality(file_list[r]) + 1

ReaderAt(r) ==
  /\ reader[r] \in {"choice", "number", "article"} => shown[r].kind = "nothing"
  /\ \A nm \in file_list[r] : Stands(nm)
  /\ \A nm, om \in file_list[r] : nm.group = om.group
  /\ reader[r] = "article" => Picked(r)
  /\ shown[r].kind = "text" => \A n \in shown[r].text : n \in Filed /\ filed[n] = meant[r]
  /\ shown[r].kind = "gone" => AskedFor(meant[r])
  /\ shown[r].kind = "no such" => meant[r] = NoName

ReadersServed == \A r \in Readers : ReaderAt(r)

\* In a listing of one group each name has a number of its own, of the first so
\* many as there are names (strverscmp orders them all).
LEMMA NumbersDiffer ==
  ASSUME NEW list \in SUBSET Name, IsFiniteSet(list),
         \A nm, om \in list : nm.group = om.group,
         NEW a \in list
  PROVE  /\ \A b \in list : Number(list, a) = Number(list, b) => a = b
         /\ Number(list, a) \in Nat /\ Cardinality(list) \in Nat
         /\ Number(list, a) <= Cardinality(list)
<1> DEFINE Before(nm) == {om \in list : Later(om, nm)}
<1>1. \A nm \in list : /\ nm.time \in Nat /\ nm.heading \in Nat
                       /\ nm = [group |-> nm.group, time |-> nm.time, heading |-> nm.heading]
  <2> SUFFICES ASSUME NEW nm \in Name
               PROVE  /\ nm.time \in Nat /\ nm.heading \in Nat
                      /\ nm = [group |-> nm.group, time |-> nm.time, heading |-> nm.heading]
    OBVIOUS
  <2>1. nm.time \in Seconds /\ nm.heading \in Headings
    BY DEF Name
  <2>2. nm = [group |-> nm.group, time |-> nm.time, heading |-> nm.heading]
    BY DEF Name
  <2> QED
    BY <2>1, <2>2, DumpConstants DEF Seconds
<1>2. ASSUME NEW nm \in list
      PROVE  /\ Before(nm) \subseteq list /\ nm \notin Before(nm)
             /\ IsFiniteSet(Before(nm)) /\ Cardinality(Before(nm)) \in Nat
             /\ Number(list, nm) = Cardinality(Before(nm)) + 1
  <2>1. Before(nm) \subseteq list /\ nm \notin Before(nm)
    BY <1>1 DEF Later
  <2>2. Number(list, nm) = Cardinality(Before(nm)) + 1
    BY DEF Number
  <2> HIDE DEF Before
  <2>3. IsFiniteSet(Before(nm))
    BY <2>1, FS_Subset
  <2> QED
    BY <2>1, <2>2, <2>3, FS_CardinalityType
<1>3. ASSUME NEW nm \in list, NEW om \in list, Later(nm, om)
      PROVE  Before(nm) \subseteq Before(om) /\ nm \in Before(om)
  BY <1>1, <1>3 DEF Later
<1>4. ASSUME NEW nm \in list, NEW om \in list, nm # om
      PROVE  Later(nm, om) \/ Later(om, nm)
  <2>1. nm.time # om.time \/ nm.heading # om.heading
    BY <1>1, <1>4
  <2> QED
    BY <1>1, <2>1 DEF Later
<1> HIDE DEF Before
<1>5. ASSUME NEW nm \in list, NEW om \in list, Later(nm, om)
      PROVE  Cardinality(Before(nm)) < Cardinality(Before(om))
  <2>1. /\ Before(nm) \subseteq Before(om) /\ Before(nm) # Before(om)
        /\ IsFiniteSet(Before(om))
    BY <1>2, <1>3, <1>5
  <2>2. /\ Cardinality(Before(nm)) <= Cardinality(Before(om))
        /\ Cardinality(Before(nm)) # Cardinality(Before(om))
    BY <2>1, FS_Subset
  <2> QED
    BY <1>2, <2>2
<1>6. ASSUME NEW b \in list, Number(list, a) = Number(list, b) PROVE a = b
  <2>1. Cardinality(Before(a)) = Cardinality(Before(b))
    BY <1>2, <1>6
  <2> QED
    BY <1>2, <1>4, <1>5, <2>1
<1>7. Cardinality(Before(a)) + 1 <= Cardinality(list) /\ Cardinality(list) \in Nat
  <2>1. Before(a) \subseteq list /\ Before(a) # list /\ Cardinality(Before(a)) \in Nat
    BY <1>2
  <2>2. /\ Cardinality(Before(a)) <= Cardinality(list)
        /\ Cardinality(Before(a)) # Cardinality(list)
        /\ Cardinality(list) \in Nat
    BY <2>1, FS_Subset, FS_CardinalityType
  <2> QED
    BY <2>1, <2>2
<1> QED
  BY <1>2, <1>6, <1>7

\* Another process of the service has moved.
LEMMA ReadersStay ==
  ASSUME LibOK, ReadOK, ReadersServed, UNCHANGED reading,
         asked \in Nat, asked' \in Nat, asked <= asked',
         \A n \in Filed : n \in Filed' /\ filed'[n] = filed[n],
         \A f \in dump : f.name.time < asked' \/ \E g \in dump' : g.name = f.name
  PROVE  ReadersServed'
<1>1. ASSUME NEW nm \in Name \cup {NoName}, AskedFor(nm) PROVE AskedFor(nm)'
  <2>1. nm.time \in Nat
    BY DumpConstants DEF Name, Seconds, NoName
  <2> QED
    BY <1>1, <2>1 DEF AskedFor
<1>2. ASSUME NEW nm \in Name, Stands(nm) PROVE Stands(nm)'
  BY <1>1, <1>2 DEF Stands, AskedFor
<1> SUFFICES ASSUME NEW r \in Readers PROVE ReaderAt(r)'
  BY DEF ReadersServed
<1>3. /\ reader'[r] = reader[r] /\ file_list'[r] = file_list[r] /\ meant'[r] = meant[r]
      /\ number'[r] = number[r] /\ shown'[r] = shown[r]
  BY DEF reading
<1>4. /\ file_list[r] \subseteq Name /\ meant[r] \in Name \cup {NoName}
  BY DEF ReadOK
<1>5. ReaderAt(r)
  BY DEF ReadersServed
<1>6. \A nm \in file_list'[r] : Stands(nm)'
  BY <1>2, <1>3, <1>4, <1>5 DEF ReaderAt
<1>7. reader'[r] = "article" => Picked(r)'
  BY <1>3, <1>5 DEF ReaderAt, Picked
<1>8. shown'[r].kind = "text" => \A n \in shown'[r].text : n \in Filed' /\ filed'[n] = meant'[r]
  BY <1>3, <1>5 DEF ReaderAt
<1>9. shown'[r].kind = "gone" => AskedFor(meant[r])'
  BY <1>1, <1>3, <1>4, <1>5 DEF ReaderAt, AskedFor
<1> QED
  BY <1>3, <1>5, <1>6, <1>7, <1>8, <1>9 DEF ReaderAt

LEMMA NotMore == \A m, c \in Nat : m <= c => m # c + 1
  OBVIOUS

LEMMA ContentsAre ==
  ASSUME NEW files
  PROVE  IF files = {} THEN Contents(files).kind = "gone"
         ELSE Contents(files).kind = "text" /\ Contents(files).text = UNION {f.text : f \in files}
<1> PICK all : all = UNION {f.text : f \in files}
  OBVIOUS
<1> QED
  BY DEF Contents

\* The session looks up the number in the listing that the reader saw.
LEMMA TransferServes ==
  ASSUME LibOK, ReadOK, Kept, ListsKnown, NEW r \in Readers, ReaderAt(r), transfer_news(r),
         asked' = asked
  PROVE  ReaderAt(r)'
<1> PICK listed : listed = {nm \in file_list[r] : Number(file_list[r], nm) = number[r]}
  OBVIOUS
<1> PICK answer : answer = IF listed = {} THEN [kind |-> "no such", text |-> {}]
                           ELSE Contents({f \in dump : f.name \in listed})
  OBVIOUS
<1>1. /\ reader[r] = "article" /\ reader'[r] \in {"blank", "choose"} /\ shown'[r] = answer
      /\ file_list'[r] = {} /\ meant' = meant /\ UNCHANGED library
  BY DEF transfer_news, Moves, ReadOK
<1>2. IsFiniteSet(file_list[r]) /\ file_list[r] \subseteq Name
  BY NamesFinite DEF ListsKnown, ReadOK
<1>3. \A nm, om \in file_list[r] : nm.group = om.group
  BY DEF ReaderAt
<1>4. Picked(r)
  BY <1>1 DEF ReaderAt
<1>5. CASE meant[r] \in file_list[r] /\ number[r] = Number(file_list[r], meant[r])
  <2>1. listed = {meant[r]}
    <3>1. \A b \in file_list[r] :
            Number(file_list[r], meant[r]) = Number(file_list[r], b) => meant[r] = b
      BY <1>2, <1>3, <1>5, NumbersDiffer
    <3> QED
      BY <1>5, <3>1
  <2>2. answer = Contents(Named(meant[r]))
    BY <2>1 DEF Named
  <2>6. IF Named(meant[r]) = {} THEN answer.kind = "gone"
        ELSE answer.kind = "text" /\ answer.text = UNION {f.text : f \in Named(meant[r])}
    BY <2>2, ContentsAre
  <2>3. answer.kind = "text" => \A n \in answer.text : n \in Filed /\ filed[n] = meant[r]
    <3>1. \A f \in Named(meant[r]) : \A n \in f.text : n \in Filed /\ filed[n] = meant[r]
      BY DEF Named, Kept
    <3>2. answer.kind = "text" => answer.text = UNION {f.text : f \in Named(meant[r])}
      BY <2>6
    <3> QED
      BY <3>1, <3>2
  <2>4. answer.kind = "gone" => AskedFor(meant[r])
    <3>1. answer.kind = "gone" => Named(meant[r]) = {}
      BY <2>6
    <3> QED
      BY <1>5, <3>1 DEF Named, ReaderAt, Stands
  <2>5. answer.kind # "no such" /\ answer.kind # "nothing"
    BY <2>6
  <2> QED
    BY <1>1, <2>3, <2>4, <2>5 DEF ReaderAt, AskedFor, library, Filed
<1>6. CASE meant[r] = NoName /\ number[r] = Cardinality(file_list[r]) + 1
  <2>1. \A nm \in file_list[r] : Number(file_list[r], nm) # number[r]
    <3>1. \A nm \in file_list[r] :
            /\ Number(file_list[r], nm) \in Nat /\ Cardinality(file_list[r]) \in Nat
            /\ Number(file_list[r], nm) <= Cardinality(file_list[r])
      BY <1>2, <1>3, NumbersDiffer
    <3> QED
      BY <1>6, <3>1, NotMore
  <2>2. answer.kind = "no such"
    BY <2>1
  <2> QED
    BY <1>1, <1>6, <2>2 DEF ReaderAt
<1> QED
  BY <1>4, <1>5, <1>6 DEF Picked

LEMMA ReaderMoves ==
  ASSUME NewsInv, ReadersServed, asked' = asked, NEW r \in Readers, UserStep(r) \/ ServeStep(r)
  PROVE  ReadersServed'
<1> LibOK /\ ReadOK /\ Kept /\ ListsKnown
  BY TypeParts DEF NewsInv
<1>1. ReaderAt(r) /\ ReadOK' /\ UNCHANGED library
  BY ReaderStepType DEF ReadersServed
<1>2. \A nm : Stands(nm) <=> Stands(nm)'
  BY <1>1 DEF Stands, AskedFor, library
<1>3. \A q \in Readers \ {r} : ReaderAt(q)'
  <2>1. ASSUME NEW q \in Readers \ {r}
        PROVE  /\ reader'[q] = reader[q] /\ file_list'[q] = file_list[q] /\ meant'[q] = meant[q]
               /\ number'[q] = number[q] /\ shown'[q] = shown[q]
    <3>1. CASE transfer_news(r)
      BY <3>1 DEF transfer_news, Moves, ReadOK
    <3>2. CASE UserStep(r) \/ write_article_list(r)
      BY <3>2 DEF ReadOK, UserStep, Enter, TypeChoice, TypeNumber, Leave, write_article_list, Moves
    <3> QED
      BY <3>1, <3>2 DEF ServeStep
  <2>2. filed' = filed /\ Filed' = Filed
    BY <1>1 DEF library, Filed
  <2>3. ASSUME NEW q \in Readers \ {r} PROVE ReaderAt(q)'
    <3>1. ReaderAt(q)
      BY DEF ReadersServed
    <3> QED
      BY <1>2, <2>1, <2>2, <3>1 DEF ReaderAt, Picked, AskedFor
  <2> QED
    BY <2>3
<1>4. ReaderAt(r)'
  <2>1. CASE transfer_news(r)
    BY <1>1, <2>1, TransferServes
  <2>2. CASE Enter(r)
    <3>1. /\ reader'[r] = "choose" /\ UNCHANGED <<file_list, meant, number, shown>>
      BY <2>2 DEF Enter, Moves, ReadOK
    <3> QED
      BY <1>1, <1>2, <3>1 DEF ReaderAt, AskedFor, library, Filed
  <2>3. ASSUME NEW c \in Groups \cup {Other}, TypeChoice(r, c) PROVE ReaderAt(r)'
    <3>1. /\ reader'[r] = "choice" /\ UNCHANGED file_list /\ shown'[r].kind = "nothing"
      BY <2>3 DEF TypeChoice, Moves, ReadOK, Nothing
    <3> QED
      BY <1>1, <1>2, <3>1 DEF ReaderAt
  <2>4. CASE write_article_list(r)
    <3>1. /\ reader'[r] = "number" /\ reader[r] = "choice" /\ UNCHANGED shown
          /\ file_list'[r] = IF choice[r] = Other THEN {} ELSE Listing(choice[r])
      BY <2>4 DEF write_article_list, Moves, ReadOK
    <3>2. \A nm \in file_list'[r] : Stands(nm)
      BY <3>1 DEF Listing, Stands
    <3>3. \A nm, om \in file_list'[r] : nm.group = om.group
      BY <3>1 DEF Listing
    <3>4. shown'[r].kind = "nothing"
      BY <1>1, <3>1 DEF ReaderAt
    <3> QED
      BY <1>2, <3>1, <3>2, <3>3, <3>4 DEF ReaderAt
  <2>5. CASE TypeNumber(r)
    <3>1. /\ reader'[r] = "article" /\ reader[r] = "number" /\ UNCHANGED <<file_list, shown>>
      BY <2>5 DEF TypeNumber, Moves, ReadOK
    <3>2. Picked(r)'
      <4>1. \/ meant'[r] \in file_list[r] /\ number'[r] = Number(file_list[r], meant'[r])
            \/ meant'[r] = NoName /\ number'[r] = Cardinality(file_list[r]) + 1
        BY <2>5 DEF TypeNumber, ReadOK
      <4> QED
        BY <3>1, <4>1 DEF Picked
    <3>3. shown'[r].kind = "nothing"
      BY <1>1, <3>1 DEF ReaderAt
    <3> QED
      BY <1>1, <1>2, <3>1, <3>2, <3>3 DEF ReaderAt
  <2>6. CASE Leave(r)
    <3>1. /\ reader'[r] = "away" /\ file_list'[r] = {} /\ shown'[r].kind = "nothing"
      BY <2>6 DEF Leave, Moves, ReadOK, Nothing
    <3> QED
      BY <3>1 DEF ReaderAt
  <2> QED
    BY <2>1, <2>2, <2>3, <2>4, <2>5, <2>6 DEF UserStep, ServeStep
<1> QED
  BY <1>3, <1>4 DEF ReadersServed

LEMMA ReadersServedStep ==
  ASSUME OneAdmin, NewsInv, AdminInv, ReadersServed, [Next]_vars
  PROVE  ReadersServed'
<1> LibOK /\ ReportOK /\ ReadOK /\ SweepOK /\ Kept /\ Talks
  BY TypeParts DEF NewsInv
<1>1. asked \in Nat
  BY DatesAre DEF SweepOK
<1>2. CASE UNCHANGED <<library, reading, asked>>
  BY <1>1, <1>2, ReadersStay DEF library, Filed
<1>3. ASSUME NEW r \in Reporters, Opened(r), UNCHANGED <<reading, sweeping>>
      PROVE  ReadersServed'
  <2>1. /\ \A n \in Filed : n \in Filed' /\ filed'[n] = filed[n]
        /\ \A f \in dump : \E g \in dump' : g.name = f.name /\ g.inode = f.inode
    BY <1>3, OpenedFiles DEF Talks
  <2> QED
    BY <1>1, <1>3, <2>1, ReadersStay DEF sweeping
<1>4. ASSUME NEW r \in Reporters, WriteFile(r), UNCHANGED <<reading, sweeping>>
      PROVE  ReadersServed'
  <2>1. \A f \in dump : \E g \in dump' : g.name = f.name
    BY <1>4, WrittenFiles DEF WriteFile
  <2>2. filed' = filed /\ Filed' = Filed
    BY <1>4 DEF WriteFile, Filed
  <2> QED
    BY <1>1, <1>4, <2>1, <2>2, ReadersStay DEF sweeping
<1>5. CASE NewsroomNext /\ UNCHANGED <<now, sweeping>>
  <2>1. ASSUME NEW r \in Reporters,
               \/ ClientStep(r) /\ UNCHANGED <<library, reading>>
               \/ SessionStep(r) /\ UNCHANGED reading
        PROVE  ReadersServed'
    <3>1. UNCHANGED library \/ Opened(r) \/ WriteFile(r)
      BY <2>1, OpenFileIs DEF SessionStep, NotOpened
    <3> QED
      BY <1>2, <1>3, <1>4, <1>5, <2>1, <3>1 DEF sweeping
  <2> QED
    BY <1>5, <2>1, ReaderMoves DEF NewsroomNext, sweeping
<1>6. CASE SweepNext /\ UNCHANGED <<now, newsroom>>
  <2>1. asked' \in Nat /\ asked <= asked' /\ \A f \in dump \ dump' : f.name.time < asked'
    BY <1>6, AskedGrows, SweepsWhatWasAsked
  <2>2. filed' = filed /\ Filed' = Filed
    BY <1>6 DEF SweepNext, ServerStep, Visit, library, Filed
  <2>3. \A f \in dump : f.name.time < asked' \/ \E g \in dump' : g.name = f.name
    BY <2>1
  <2> QED
    BY <1>1, <1>6, <2>1, <2>2, <2>3, ReadersStay DEF newsroom
<1> QED
  BY <1>2, <1>5, <1>6 DEF Next, Tick, vars, newsroom, sweeping

LEMMA InitReadersServed == Init => ReadersServed
  BY DEF Init, NewsroomInit, Nothing, ReadersServed, ReaderAt

\* With one administrator, a reader gets an article of the name beside the number
\* it typed, and is told that it is gone only if a later date was typed, though
\* files are made, written and deleted between the listing and the number
\* (write_article_list and transfer_news). With two administrators a file can go
\* that nobody meant to delete, as for ArticlesAreKept.
THEOREM ReadersGetWhatTheyMeant == ASSUME OneAdmin PROVE Spec => []ReaderGetsWhatItMeant
<1>1. ReadersServed => ReaderGetsWhatItMeant
  BY DEF ReadersServed, ReaderAt, ReaderGetsWhatItMeant
<1>2. NewsInv /\ AdminInv /\ ReadersServed /\ [Next]_vars
        => (NewsInv /\ AdminInv /\ ReadersServed)'
  BY NewsInvStep, AdminInvStep, ReadersServedStep
<1>3. Init => NewsInv /\ AdminInv /\ ReadersServed
  BY NewsInvInit, InitAdmin, InitReadersServed
<1> QED
  BY <1>1, <1>2, <1>3, PTL DEF Spec
=============================================================================
