------------------------- MODULE MailDeliveryProofs -------------------------
(* What the sessions of Mail write: how the lines of a body come from the     *)
(* client through its session and the relays to the rows of the recipients.   *)
EXTENDS MailProofs

-----------------------------------------------------------------------------
(* The lines of a mail.                                                      *)

\* What a client writes after DATA, and what of it lies after the first a
\* pieces, up to b.
Full(c) == Append(Body(c), Dot)
Part(c, a, b) == SubSeq(Full(c), a + 1, b)
Blanks(n) == [i \in 1 .. n |-> Empty]

\* The texts w are the pieces from k on up to m, one or more to a text.
Cuts(w, c, k, m, cut) ==
  /\ cut[0] = k /\ cut[Len(w)] = m
  /\ \A i \in 1 .. Len(w) :
       /\ cut[i - 1] < cut[i] /\ (~Glued => cut[i] = cut[i - 1] + 1)
       /\ w[i] = Text(Part(c, cut[i - 1], cut[i]))
Spelt(w, c, k, m) == \E cut \in [0 .. Len(w) -> k .. m] : Cuts(w, c, k, m, cut)

LEMMA FullSeq ==
  ASSUME NEW c \in Client
  PROVE  /\ Full(c) \in Seq(Piece) /\ Len(Full(c)) = MaxLines + 1 /\ MaxLines \in Nat
         /\ Body(c) \in Seq(Piece) /\ Len(Body(c)) = MaxLines
         /\ \A n \in 1 .. MaxLines : Full(c)[n] = Line(c, n) /\ Line(c, n) # Dot
         /\ Full(c)[MaxLines + 1] = Dot
<1>1. MaxLines \in Nat
  BY SmtpConstants
<1>2. \A n \in 1 .. MaxLines : Line(c, n) \in Piece /\ Line(c, n) # Dot
  BY <1>1 DEF Line, Piece, Dot
<1>3. Body(c) \in [1 .. MaxLines -> Piece]
  BY <1>2 DEF Body
<1>4. Body(c) \in Seq(Piece) /\ Len(Body(c)) = MaxLines
  <2>1. Body(c) \in Seq(Piece)
    BY <1>1, <1>3, SeqOf
  <2>2. Len(Body(c)) \in Nat /\ DOMAIN Body(c) = 1 .. Len(Body(c))
    BY <2>1, LenProperties
  <2> QED
    BY <1>1, <1>3, <2>1, <2>2, Intervals
<1>5. Dot \in Piece
  BY DEF Piece
<1>6. \A n \in 1 .. MaxLines : Body(c)[n] = Line(c, n)
  BY DEF Body
<1> QED
  BY <1>1, <1>2, <1>4, <1>5, <1>6, AppendProperties DEF Full

LEMMA PartSeq ==
  ASSUME NEW c \in Client, NEW a \in Nat, NEW b \in Nat, a <= b, b <= MaxLines + 1
  PROVE  /\ Part(c, a, b) \in Seq(Piece) /\ Len(Part(c, a, b)) = b - a
         /\ \A i \in 1 .. b - a : Part(c, a, b)[i] = Full(c)[a + i]
<1>1. \A i \in a + 1 .. b : Full(c)[i] \in Piece
  <2>1. \A i \in a + 1 .. b : i \in 1 .. Len(Full(c))
    BY FullSeq
  <2> QED
    BY <2>1, FullSeq, ElementOfSeq
<1>2. PICK f : f = Full(c)
  OBVIOUS
<1>3. PICK x \in Int : x = a + 1
  OBVIOUS
<1>4. /\ SubSeq(f, x, b) \in Seq(Piece)
      /\ Len(SubSeq(f, x, b)) = IF x <= b THEN b - x + 1 ELSE 0
      /\ \A i \in 1 .. b - x + 1 : SubSeq(f, x, b)[i] = f[x + i - 1]
  BY <1>1, <1>2, <1>3, SubSeqProperties
<1>5. \A i \in 1 .. b - a : SubSeq(f, x, b)[i] = f[a + i]
  <2>1. \A i \in 1 .. b - a : i \in 1 .. b - x + 1 /\ x + i - 1 = a + i
    BY <1>3
  <2> QED
    BY <1>4, <2>1
<1>6. Len(SubSeq(f, x, b)) = b - a
  BY <1>3, <1>4
<1> QED
  BY <1>2, <1>3, <1>4, <1>5, <1>6 DEF Part

LEMMA PartJoin ==
  ASSUME NEW c \in Client, NEW a \in Nat, NEW b \in Nat, NEW d \in Nat,
         a <= b, b <= d, d <= MaxLines + 1
  PROVE  Part(c, a, b) \o Part(c, b, d) = Part(c, a, d)
<1>1. PICK f : f = Full(c) /\ f \in Seq(Piece) /\ Len(f) = MaxLines + 1 /\ MaxLines \in Nat
  BY FullSeq
<1>2. PICK x \in 1 .. Len(f) + 1 : x = a + 1
  BY <1>1
<1>3. b \in x - 1 .. Len(f) /\ d \in b .. Len(f)
  BY <1>1, <1>2
<1>4. SubSeq(f, x, b) \o SubSeq(f, b + 1, d) = SubSeq(f, x, d)
  BY <1>1, <1>2, <1>3, ConcatAdjacentSubSeq
<1> QED
  BY <1>1, <1>2, <1>4 DEF Part

LEMMA PartNone ==
  ASSUME NEW c, NEW a \in Nat
  PROVE  Part(c, a, a) = <<>>
<1>1. PICK x \in Int : x = a + 1
  OBVIOUS
<1>2. a < x /\ a \in Int
  BY <1>1
<1> QED
  BY <1>1, <1>2, SubSeqEmpty DEF Part

LEMMA PartDot ==
  ASSUME NEW c \in Client, NEW a \in Nat, NEW b \in Nat, a <= b, b <= MaxLines + 1
  PROVE  Part(c, a, b) = <<Dot>> <=> a = MaxLines /\ b = MaxLines + 1
<1>1. MaxLines \in Nat /\ Full(c)[MaxLines + 1] = Dot
  BY FullSeq
<1>2. ASSUME Part(c, a, b) = <<Dot>> PROVE a = MaxLines /\ b = MaxLines + 1
  <2>1. Len(<<Dot>>) = 1 /\ <<Dot>>[1] = Dot
    OBVIOUS
  <2>2. b - a = 1
    BY <1>2, <2>1, PartSeq
  <2>3. 1 \in 1 .. b - a
    BY <2>2
  <2>4. Full(c)[a + 1] = Dot
    <3>1. Part(c, a, b)[1] = Full(c)[a + 1]
      BY <2>3, PartSeq
    <3> QED
      BY <1>2, <2>1, <3>1
  <2>5. ~(a + 1 \in 1 .. MaxLines)
    BY <2>4, FullSeq
  <2> QED
    BY <1>1, <2>2, <2>5
<1>3. ASSUME a = MaxLines, b = MaxLines + 1 PROVE Part(c, a, b) = <<Dot>>
  <2>1. b - a = 1 /\ 1 \in 1 .. b - a
    BY <1>3
  <2>2. /\ Part(c, a, b) \in Seq(Piece) /\ Len(Part(c, a, b)) = 1
        /\ Part(c, a, b)[1] = Dot
    <3>1. Part(c, a, b)[1] = Full(c)[a + 1]
      BY <2>1, PartSeq
    <3> QED
      BY <1>1, <1>3, <2>1, <3>1, PartSeq
  <2>3. <<Dot>> \in Seq(Piece) /\ Len(<<Dot>>) = 1 /\ <<Dot>>[1] = Dot
    BY DEF Piece
  <2> PICK p : p = Part(c, a, b)
    OBVIOUS
  <2>4. p = <<Dot>>
    <3>1. \A i \in 1 .. Len(p) : p[i] = <<Dot>>[i]
      <4>1. \A i \in 1 .. 1 : i = 1
        OBVIOUS
      <4> QED
        BY <2>2, <2>3, <4>1
    <3> QED
      BY <2>2, <2>3, <3>1, SeqEqual
  <2> QED
    BY <2>4
<1> QED
  BY <1>2, <1>3

LEMMA PartBody ==
  ASSUME NEW c \in Client, NEW k \in 0 .. MaxLines
  PROVE  Part(c, 0, k) = SubSeq(Body(c), 1, k) /\ Part(c, 0, MaxLines) = Body(c)
<1>0. MaxLines \in Nat
  BY SmtpConstants
<1>1. ASSUME NEW n \in 0 .. MaxLines PROVE Part(c, 0, n) = SubSeq(Body(c), 1, n)
  <2>1. n \in Nat /\ n <= MaxLines + 1 /\ n \in Int /\ 0 <= n /\ n - 0 = n
    BY <1>0
  <2> PICK p : p = Part(c, 0, n)
    OBVIOUS
  <2>2. /\ p \in Seq(Piece) /\ Len(p) = n
        /\ \A i \in 1 .. n : p[i] = Full(c)[0 + i]
    <3>1. /\ Part(c, 0, n) \in Seq(Piece) /\ Len(Part(c, 0, n)) = n - 0
          /\ \A i \in 1 .. n - 0 : Part(c, 0, n)[i] = Full(c)[0 + i]
      BY <2>1, PartSeq
    <3> QED
      BY <2>1, <3>1
  <2>3. \A i \in 1 .. n : i \in 1 .. MaxLines /\ 0 + i = i
    BY <1>0
  <2>4. \A i \in 1 .. MaxLines : Body(c)[i] \in Piece /\ Full(c)[i] = Body(c)[i]
    BY FullSeq, ElementOfSeq DEF Body
  <2>5. PICK g : g = Body(c)
    OBVIOUS
  <2>6. PICK z : z = SubSeq(g, 1, n) /\ z \in Seq(Piece) /\ Len(z) = n
                 /\ \A i \in 1 .. n : z[i] = g[i]
    <3>1. \A i \in 1 .. n : g[i] \in Piece
      BY <2>3, <2>4, <2>5
    <3>2. /\ SubSeq(g, 1, n) \in Seq(Piece)
          /\ Len(SubSeq(g, 1, n)) = IF 1 <= n THEN n - 1 + 1 ELSE 0
          /\ \A i \in 1 .. n - 1 + 1 : SubSeq(g, 1, n)[i] = g[1 + i - 1]
      BY <2>1, <3>1, SubSeqProperties
    <3>3. \A i \in 1 .. n : i \in 1 .. n - 1 + 1 /\ 1 + i - 1 = i
      BY <1>0
    <3>4. (IF 1 <= n THEN n - 1 + 1 ELSE 0) = n
      BY <2>1
    <3> QED
      BY <3>2, <3>3, <3>4
  <2>7. \A i \in 1 .. n : p[i] = z[i]
    BY <2>2, <2>3, <2>4, <2>5, <2>6
  <2>8. p = z
    BY <2>2, <2>6, <2>7, SeqEqual
  <2> QED
    BY <2>2, <2>5, <2>6, <2>8
<1>2. SubSeq(Body(c), 1, MaxLines) = Body(c)
  BY FullSeq, SubSeqFull
<1> QED
  BY <1>0, <1>1, <1>2

LEMMA CutsGrow ==
  ASSUME NEW N \in Nat, NEW cut \in [0 .. N -> Nat], \A i \in 1 .. N : cut[i - 1] < cut[i]
  PROVE  \A i, j \in 0 .. N : i < j => cut[i] < cut[j]
<1> SUFFICES ASSUME NEW i \in 0 .. N PROVE \A j \in 0 .. N : i < j => cut[i] < cut[j]
  OBVIOUS
<1> DEFINE S == {j \in Nat : j <= N /\ i < j => cut[i] < cut[j]}
<1>1. 0 \in S
  OBVIOUS
<1>2. ASSUME NEW j \in Nat, j \in S PROVE j + 1 \in S
  <2>1. CASE j + 1 <= N /\ i < j + 1
    <3>1. j \in 0 .. N /\ j + 1 \in 1 .. N /\ (j + 1) - 1 = j /\ j + 1 \in 0 .. N
      BY <2>1
    <3>2. cut[j] < cut[j + 1] /\ cut[j] \in Nat /\ cut[j + 1] \in Nat /\ cut[i] \in Nat
      BY <3>1
    <3>3. i = j \/ cut[i] < cut[j]
      BY <1>2, <2>1, <3>1
    <3> QED
      BY <3>2, <3>3
  <2> QED
    BY <2>1
<1> HIDE DEF S
<1>3. Nat \subseteq S
  BY <1>1, <1>2, NatSet
<1> QED
  BY <1>3 DEF S

LEMMA SpeltNone ==
  ASSUME NEW c, NEW k \in Nat, NEW m \in Nat
  PROVE  Spelt(<<>>, c, k, m) <=> k = m
<1>1. Len(<<>>) = 0
  BY One
<1>2. ASSUME k = m PROVE Spelt(<<>>, c, k, m)
  <2>1. PICK cut : cut = [i \in 0 .. 0 |-> k]
    OBVIOUS
  <2>2. cut \in [0 .. 0 -> k .. m] /\ cut[0] = k
    BY <1>2, <2>1
  <2>3. 1 .. 0 = {}
    OBVIOUS
  <2> QED
    BY <1>1, <1>2, <2>2, <2>3 DEF Spelt, Cuts
<1> QED
  BY <1>1, <1>2 DEF Spelt, Cuts

\* What has not been read is all that has been written.
LEMMA SpeltSome ==
  ASSUME NEW S, NEW w \in Seq(S), w # <<>>, NEW c, NEW k \in Nat, NEW m \in Nat, Spelt(w, c, k, m)
  PROVE  k < m
<1>1. Len(w) \in Nat /\ Len(w) # 0
  BY EmptySeq, LenProperties
<1>2. PICK cut \in [0 .. Len(w) -> k .. m] : Cuts(w, c, k, m, cut)
  BY DEF Spelt
<1>3. 1 \in 1 .. Len(w) /\ 1 \in 0 .. Len(w) /\ 1 - 1 = 0
  BY <1>1
<1>4. cut[0] < cut[1] /\ cut[0] = k /\ cut[1] \in k .. m
  BY <1>2, <1>3 DEF Cuts
<1> QED
  BY <1>4

LEMMA SpeltMore ==
  ASSUME NEW S, NEW w \in Seq(S), NEW c \in Client, NEW k \in Nat, NEW m \in Nat, NEW d \in Nat,
         Spelt(w, c, k, m), m < d, ~Glued => d = m + 1, NEW text \in S, text = Text(Part(c, m, d))
  PROVE  Spelt(Append(w, text), c, k, d)
<1>1. PICK N \in Nat : N = Len(w)
  BY LenProperties
<1>2. PICK v : v = Append(w, text)
  OBVIOUS
<1>3. Len(v) = N + 1 /\ (\A i \in 1 .. N : v[i] = w[i]) /\ v[N + 1] = text
  BY <1>1, <1>2, AppendProperties
<1>4. PICK cut \in [0 .. N -> k .. m] : Cuts(w, c, k, m, cut)
  BY <1>1 DEF Spelt
<1>5. PICK more : more = [i \in 0 .. N + 1 |-> IF i = N + 1 THEN d ELSE cut[i]]
  OBVIOUS
<1>6. \A i \in 0 .. N : more[i] = cut[i] /\ cut[i] \in k .. m
  BY <1>5
<1>7. more[N + 1] = d
  BY <1>5
<1>8. more \in [0 .. N + 1 -> k .. d]
  <2>1. \A i \in 0 .. N + 1 : i = N + 1 \/ i \in 0 .. N
    OBVIOUS
  <2>2. cut[0] = k /\ 0 \in 0 .. N
    BY <1>4 DEF Cuts
  <2>3. k <= m
    BY <1>6, <2>2
  <2> QED
    BY <1>5, <1>6, <1>7, <2>1, <2>3
<1>9. ASSUME NEW i \in 1 .. N + 1
      PROVE  /\ more[i - 1] < more[i] /\ (~Glued => more[i] = more[i - 1] + 1)
             /\ v[i] = Text(Part(c, more[i - 1], more[i]))
  <2>1. CASE i = N + 1
    <3>1. i - 1 = N /\ N \in 0 .. N
      BY <2>1
    <3>2. cut[N] = m
      BY <1>1, <1>4 DEF Cuts
    <3> QED
      BY <1>3, <1>6, <1>7, <2>1, <3>1, <3>2
  <2>2. CASE i \in 1 .. N
    <3>1. i \in 0 .. N /\ i - 1 \in 0 .. N
      BY <2>2
    <3>2. /\ cut[i - 1] < cut[i] /\ (~Glued => cut[i] = cut[i - 1] + 1)
          /\ w[i] = Text(Part(c, cut[i - 1], cut[i]))
      BY <1>1, <1>4, <2>2 DEF Cuts
    <3> QED
      BY <1>3, <1>6, <2>2, <3>1, <3>2
  <2> QED
    BY <2>1, <2>2
<1>10. more[0] = k
  <2>1. 0 \in 0 .. N /\ cut[0] = k
    BY <1>4 DEF Cuts
  <2> QED
    BY <1>6, <2>1
<1>11. Cuts(v, c, k, d, more)
  BY <1>3, <1>7, <1>9, <1>10 DEF Cuts
<1> QED
  BY <1>2, <1>3, <1>8, <1>11 DEF Spelt

\* A read returns the next pieces.
LEMMA CutWords ==
  ASSUME NEW s, NEW N \in Nat, N = Len(inbox[s]), NEW c \in Client, NEW k \in Nat, NEW m \in Nat,
         m <= MaxLines + 1, NEW cut \in [0 .. N -> k .. m], Cuts(inbox[s], c, k, m, cut),
         NEW n \in 1 .. N
  PROVE  Words(s, n) = Part(c, k, cut[n])
<1>1. PICK f : /\ f[0] = <<>> /\ Words(s, n) = f[n]
               /\ \A j \in 1 .. n : f[j] = f[j - 1] \o inbox[s][j].arg
  <2>1. n \in Nat
    OBVIOUS
  <2> QED
    BY <2>1, WordsJoined
<1> DEFINE S == {j \in Nat : j <= n => f[j] = Part(c, k, cut[j])}
<1>2. 0 \in S
  <2>1. cut[0] = k
    BY DEF Cuts
  <2> QED
    BY <1>1, <2>1, PartNone
<1>3. ASSUME NEW j \in Nat, j \in S PROVE j + 1 \in S
  <2>1. CASE j + 1 <= n
    <3>1. j <= n /\ j + 1 \in 1 .. n /\ j + 1 \in 1 .. N /\ (j + 1) - 1 = j /\ j \in 0 .. N /\ j + 1 \in 0 .. N
      BY <2>1
    <3>2. f[j + 1] = f[j] \o inbox[s][j + 1].arg
      BY <1>1, <3>1
    <3>3. cut[j] < cut[j + 1] /\ inbox[s][j + 1] = Text(Part(c, cut[j], cut[j + 1]))
      BY <3>1 DEF Cuts
    <3>4. inbox[s][j + 1].arg = Part(c, cut[j], cut[j + 1])
      BY <3>3 DEF Text
    <3>5. cut[j] \in k .. m /\ cut[j + 1] \in k .. m
      BY <3>1
    <3>6. MaxLines \in Nat
      BY SmtpConstants
    <3>7. /\ cut[j] \in Nat /\ cut[j + 1] \in Nat /\ k <= cut[j] /\ cut[j] <= cut[j + 1]
          /\ cut[j + 1] <= MaxLines + 1
      BY <3>3, <3>5, <3>6
    <3>8. f[j] = Part(c, k, cut[j])
      BY <1>3, <3>1
    <3>9. f[j + 1] = Part(c, k, cut[j + 1])
      <4>1. PICK x \in Nat : x = cut[j]
        BY <3>7
      <4>2. PICK y \in Nat : y = cut[j + 1]
        BY <3>7
      <4>3. k <= x /\ x <= y /\ y <= MaxLines + 1
        BY <3>7, <4>1, <4>2
      <4>4. Part(c, k, x) \o Part(c, x, y) = Part(c, k, y)
        BY <4>3, PartJoin
      <4> QED
        BY <3>2, <3>4, <3>8, <4>1, <4>2, <4>4
    <3> QED
      BY <3>9
  <2> QED
    BY <2>1
<1> HIDE DEF S
<1>4. Nat \subseteq S
  BY <1>2, <1>3, NatSet
<1>5. n \in S /\ n <= n
  BY <1>4
<1> QED
  BY <1>1, <1>5 DEF S

LEMMA SpeltRest ==
  ASSUME NEW s, NEW S, inbox[s] \in Seq(S), NEW c \in Client, NEW k \in Nat, NEW m \in Nat,
         m <= MaxLines + 1, Spelt(inbox[s], c, k, m), NEW n \in Readable(s)
  PROVE  \E j \in k + 1 .. m : /\ Words(s, n) = Part(c, k, j) /\ Spelt(Rest(s, n), c, j, m)
                               /\ ~Glued => j = k + 1
<1>1. PICK N \in Nat : N = Len(inbox[s])
  BY LenProperties
<1>2. n \in 1 .. N /\ (~Glued => n = 1)
  BY <1>1 DEF Readable
<1>3. PICK cut \in [0 .. N -> k .. m] : Cuts(inbox[s], c, k, m, cut)
  BY <1>1 DEF Spelt
<1>4. /\ \A i \in 0 .. N : cut[i] \in k .. m /\ cut[i] \in Nat
      /\ cut[0] = k /\ cut[N] = m
  BY <1>1, <1>3 DEF Cuts
<1>5. \A i, j \in 0 .. N : i < j => cut[i] < cut[j]
  <2>1. cut \in [0 .. N -> Nat]
    BY <1>4
  <2>2. \A i \in 1 .. N : cut[i - 1] < cut[i]
    BY <1>1, <1>3 DEF Cuts
  <2> QED
    BY <2>1, <2>2, CutsGrow
<1>6. PICK j : j = cut[n]
  OBVIOUS
<1>7. j \in k + 1 .. m /\ (~Glued => j = k + 1)
  <2>1. n \in 0 .. N /\ 0 \in 0 .. N /\ 0 < n
    BY <1>2
  <2>2. ~Glued => cut[1] = cut[1 - 1] + 1
    <3>1. 1 \in 1 .. N
      BY <1>2
    <3> QED
      BY <1>1, <1>3, <3>1 DEF Cuts
  <2>3. ~Glued => j = k + 1
    <3>1. 1 - 1 = 0
      OBVIOUS
    <3> QED
      BY <1>2, <1>4, <1>6, <2>2, <3>1
  <2>4. k < j /\ j \in k .. m
    BY <1>4, <1>5, <1>6, <2>1
  <2> QED
    BY <2>3, <2>4
<1>8. Words(s, n) = Part(c, k, j)
  <2>1. \A i \in 1 .. N : Words(s, i) = Part(c, k, cut[i])
    BY <1>1, <1>3, CutWords
  <2> QED
    BY <1>2, <1>6, <2>1
<1>9. PICK v : v = Rest(s, n)
  OBVIOUS
<1>10. Len(v) = N - n /\ \A i \in 1 .. N - n : v[i] = inbox[s][n + i]
  <2>1. PICK w : w = inbox[s]
    OBVIOUS
  <2>2. PICK x \in Int : x = n + 1
    BY <1>2
  <2>3. \A i \in x .. N : w[i] \in S
    <3>1. \A i \in x .. N : i \in 1 .. Len(w)
      BY <1>1, <1>2, <2>1, <2>2
    <3> QED
      BY <2>1, <3>1, ElementOfSeq
  <2>4. /\ Len(SubSeq(w, x, N)) = IF x <= N THEN N - x + 1 ELSE 0
        /\ \A i \in 1 .. N - x + 1 : SubSeq(w, x, N)[i] = w[x + i - 1]
    BY <2>3, SubSeqProperties
  <2>5. v = SubSeq(w, x, N)
    BY <1>1, <1>9, <2>1, <2>2 DEF Rest
  <2>6. \A i \in 1 .. N - n : i \in 1 .. N - x + 1 /\ x + i - 1 = n + i
    BY <1>2, <2>2
  <2>7. (IF x <= N THEN N - x + 1 ELSE 0) = N - n
    BY <1>2, <2>2
  <2> QED
    BY <2>1, <2>4, <2>5, <2>6, <2>7
<1>11. PICK rest : rest = [i \in 0 .. N - n |-> cut[n + i]]
  OBVIOUS
<1>12. \A i \in 0 .. N - n : n + i \in 0 .. N /\ rest[i] = cut[n + i] /\ (i = 0 \/ n < n + i)
  BY <1>2, <1>11
<1>13. rest \in [0 .. N - n -> j .. m]
  <2>1. n \in 0 .. N
    BY <1>2
  <2>2. \A i \in 0 .. N - n : rest[i] \in j .. m
    <3> SUFFICES ASSUME NEW i \in 0 .. N - n PROVE rest[i] \in j .. m
      OBVIOUS
    <3>1. cut[n + i] \in k .. m /\ cut[n + i] \in Nat
      BY <1>4, <1>12
    <3>2. i = 0 \/ cut[n] < cut[n + i]
      BY <1>5, <1>12, <2>1
    <3>3. i = 0 => n + i = n
      BY <1>2
    <3> QED
      BY <1>6, <1>7, <1>12, <3>1, <3>2, <3>3
  <2> QED
    BY <1>11, <2>2
<1>14. rest[0] = j /\ rest[N - n] = m
  <2>1. 0 \in 0 .. N - n /\ n + 0 = n /\ N - n \in 0 .. N - n /\ n + (N - n) = N
    BY <1>2
  <2> QED
    BY <1>4, <1>6, <1>12, <2>1
<1>15. ASSUME NEW i \in 1 .. N - n
       PROVE  /\ rest[i - 1] < rest[i] /\ (~Glued => rest[i] = rest[i - 1] + 1)
              /\ v[i] = Text(Part(c, rest[i - 1], rest[i]))
  <2>1. i - 1 \in 0 .. N - n /\ i \in 0 .. N - n /\ n + i \in 1 .. N /\ n + (i - 1) = (n + i) - 1
    BY <1>2
  <2>2. /\ cut[(n + i) - 1] < cut[n + i] /\ (~Glued => cut[n + i] = cut[(n + i) - 1] + 1)
        /\ inbox[s][n + i] = Text(Part(c, cut[(n + i) - 1], cut[n + i]))
    BY <1>1, <1>3, <2>1 DEF Cuts
  <2>3. rest[i] = cut[n + i] /\ rest[i - 1] = cut[(n + i) - 1]
    BY <1>12, <2>1
  <2> QED
    BY <1>10, <2>2, <2>3
<1>16. Cuts(v, c, j, m, rest)
  BY <1>10, <1>14, <1>15 DEF Cuts
<1>17. Spelt(v, c, j, m)
  BY <1>10, <1>13, <1>16 DEF Spelt
<1> QED
  BY <1>7, <1>8, <1>9, <1>17

-----------------------------------------------------------------------------
(* The rows a session knows.                                                 *)

Ids(q) == {recvr_id[q][n] : n \in 1 .. Len(recvr_id[q])} \ {0}

\* The rows of session q that are still there have its first k pieces, and b
\* empty lines after them.
Holds(q, k, b) ==
  \A n \in Ids(q) : n \in removed[srv[q]] \/ data[srv[q]][n].message = Part(q[1], 0, k) \o Blanks(b)

\* They are of its mail, and no other session knows them.
OwnRows(q) == \A n \in Ids(q) : data[srv[q]][n].mail = q[1]
Apart(q, r) == q # r /\ srv[q] = srv[r] => Ids(q) \cap Ids(r) = {}
RowsApart == \A q \in Session : OwnRows(q) /\ \A r \in Session : Apart(q, r)

\* A step leaves what session q has written alone.
Steady(q) ==
  /\ recvr_id'[q] = recvr_id[q]
  /\ \A n \in Ids(q) :
       /\ srv'[q] = srv[q] /\ removed[srv[q]] \subseteq removed'[srv[q]]
       /\ data'[srv[q]][n].message = data[srv[q]][n].message

LEMMA HoldsSame ==
  ASSUME NEW q, Steady(q), NEW k, NEW b, Holds(q, k, b)
  PROVE  Holds(q, k, b)'
<1>1. Ids(q)' = Ids(q)
  BY DEF Ids, Steady
<1> SUFFICES ASSUME NEW n \in Ids(q)
             PROVE  n \in removed'[srv'[q]] \/ data'[srv'[q]][n].message = Part(q[1], 0, k) \o Blanks(b)
  BY <1>1 DEF Holds, Part, Full, Body, Blanks
<1>2. /\ srv'[q] = srv[q] /\ removed[srv[q]] \subseteq removed'[srv[q]]
      /\ data'[srv[q]][n].message = data[srv[q]][n].message
  BY DEF Steady
<1>3. n \in removed[srv[q]] \/ data[srv[q]][n].message = Part(q[1], 0, k) \o Blanks(b)
  BY DEF Holds
<1> QED
  BY <1>2, <1>3

LEMMA IdsKnown ==
  ASSUME TypesInv, NEW q \in Session, NEW n \in Ids(q)
  PROVE  /\ ~Fresh(q) /\ srv[q] \in Domain /\ n \in Keys(srv[q]) /\ pc[q] # "closed"
         /\ [Next]_vars => srv'[q] = srv[q]
<1>1. Dialogs /\ IdsOK /\ recvr_id[q] \in Seq(Nat)
  BY DEF TypesInv, Dialogs, DialogTypes
<1>2. ~Fresh(q)
  <2>1. recvr_id[q] # <<>>
    BY One DEF Ids
  <2> QED
    BY <2>1 DEF Fresh
<1>3. pc[q] # "closed"
  BY <1>1, <1>2, Written
<1>4. SessionOK(q)
  BY <1>1, Parties DEF Dialogs, Circle
<1>5. srv[q] \in Domain
  BY <1>3, <1>4 DEF SessionOK
<1>6. n \in Keys(srv[q])
  BY <1>1 DEF IdsOK, Ids
<1> QED
  BY <1>1, <1>2, <1>3, <1>5, <1>6, Serves

\* What becomes of the rows.
LEMMA RemovedGrows ==
  ASSUME TypesInv, [Next]_vars, NEW d \in Domain
  PROVE  removed[d] \subseteq removed'[d]
<1>0. DOMAIN removed = Domain
  BY DEF TypesInv, MeantInv, TablesOK
<1>1. CASE SmtpNext
  BY <1>1, SmtpTables DEF TypesInv, MeantInv
<1>2. ASSUME NEW p \in Reader, NEW all \in BOOLEAN, List(p, all) PROVE removed[d] \subseteq removed'[d]
  BY <1>0, <1>2 DEF List
<1>3. CASE PopNext
  <2>1. \/ UNCHANGED removed
        \/ \E p \in Reader : \E all \in BOOLEAN : List(p, all)
        \/ \E p \in Reader : SignOff(p)
    BY <1>3 DEF PopNext, Login, ListAgain, Abort, Retrieve, Delete, tables
  <2>2. ASSUME NEW p \in Reader, SignOff(p) PROVE removed[d] \subseteq removed'[d]
    BY <1>0, <2>2 DEF SignOff
  <2> QED
    BY <1>2, <2>1, <2>2
<1> QED
  BY <1>1, <1>3 DEF Next, vars, tables

LEMMA RowsFollow ==
  ASSUME TypesInv, [Next]_vars, NEW d \in Domain, NEW n \in Keys(d)
  PROVE  /\ n \in Keys(d)' /\ data'[d][n].mail = data[d][n].mail
         /\ data'[d][n].receiver = data[d][n].receiver
<1>1. Dialogs /\ MeantInv /\ TablesOK
  BY DEF TypesInv, MeantInv
<1>2. Extends(d, data[d], data'[d])
  BY <1>1, AllExtend
<1>3. PICK marked : Follows(data[d], data'[d], marked)
  BY <1>2 DEF Extends
<1> QED
  BY <1>1, <1>3 DEF Follows, Table, TablesOK, Keys

\* Only the loop that reads a body adds lines.
Updates(e, keys, words) == data' = [data EXCEPT ![e] = update(e, keys, words)]

LEMMA Updated ==
  ASSUME TablesOK, NEW e, NEW keys, NEW words, Updates(e, keys, words),
         NEW d \in Domain, NEW n \in Keys(d)
  PROVE  /\ d = e /\ n \in keys /\ n \notin removed[d] =>
              data'[d][n].message = data[d][n].message \o words
         /\ d # e \/ n \notin keys \/ n \in removed[d] => data'[d][n].message = data[d][n].message
<1>1. DOMAIN data = Domain /\ WellFormed(data[d][n])
  BY DEF TablesOK
<1>2. CASE d # e
  BY <1>1, <1>2 DEF Updates
<1>3. CASE d = e
  <2>1. data'[d] = update(d, keys, words)
    BY <1>1, <1>3 DEF Updates
  <2>2. data'[d][n] = IF n \in keys \cap Live(d) THEN [data[d][n] EXCEPT !.message = @ \o words]
                      ELSE data[d][n]
    BY <2>1 DEF update
  <2> QED
    BY <1>1, <1>3, <2>2 DEF WellFormed, Live
<1> QED
  BY <1>2, <1>3

LEMMA Lengthened ==
  ASSUME TablesOK, NEW e \in Domain, NEW keys, NEW words, Updates(e, keys, words),
         NEW n \in Keys(e), n \in keys, n \notin removed[e]
  PROVE  data'[e][n].message = data[e][n].message \o words
  BY Updated

LEMMA Muted ==
  ASSUME TypesInv, [Next]_vars, ~\E q \in Session : ReadText(q) \/ ReadNothing(q),
         NEW d \in Domain, NEW n \in Keys(d)
  PROVE  data'[d][n].message = data[d][n].message
<1>0. TablesOK /\ DOMAIN data = Domain /\ WellFormed(data[d][n]) /\ Dialogs
  BY DEF TypesInv, MeantInv, TablesOK
<1>1. CASE UNCHANGED data
  BY <1>1
<1>2. ASSUME NEW s \in Session, RcptHere(s), Arg(s) \in Users
      PROVE  data'[d][n].message = data[d][n].message
  <2>1. PICK row : row = Row(s[1], sender[s], Arg(s))
    OBVIOUS
  <2>2. data' = [data EXCEPT ![srv[s]] = Append(data[srv[s]], row)]
    BY <1>2, <2>1 DEF RcptHere, insert
  <2>3. CASE d = srv[s]
    <3>1. data'[d] = Append(data[d], row)
      BY <1>0, <2>2, <2>3
    <3>2. data'[d][n] = data[d][n]
      BY <1>0, <3>1, Inserted DEF TablesOK, Keys
    <3> QED
      BY <3>2
  <2>4. CASE d # srv[s]
    BY <1>0, <2>2, <2>4
  <2> QED
    BY <2>3, <2>4
<1>3. ASSUME NEW p \in Reader, NEW all \in BOOLEAN, List(p, all)
      PROVE  data'[d][n].message = data[d][n].message
  <2>1. data' = [data EXCEPT ![At(p)] = markread(At(p), read[p])]
    BY <1>3 DEF List
  <2>2. CASE d = At(p)
    <3>1. data'[d] = markread(d, read[p])
      BY <1>0, <2>1, <2>2
    <3>2. data'[d][n] = IF n \in read[p] \cap Live(d) THEN [data[d][n] EXCEPT !.isread = TRUE]
                        ELSE data[d][n]
      BY <3>1 DEF markread
    <3> QED
      BY <1>0, <3>2 DEF WellFormed
  <2>3. CASE d # At(p)
    BY <1>0, <2>1, <2>3
  <2> QED
    BY <2>2, <2>3
<1>4. CASE SmtpNext
  <2>1. \/ UNCHANGED data
        \/ \E s \in Session : RcptHere(s)
    BY <1>4 DEF SmtpNext, SessionStep, Helo, MailFrom, Quit, Eof, RcptThere, RelayHello, RelayFrom,
       RelayTo, RelayRset, RelayAsk, RelayAnswered, Rset, RsetDone, Data, Invalid, StartDone,
       ReadDot, DotDone, QuitDone, UserStep, ClientStep, Connect, Retype, AskTo, GiveUp,
       StartData, Type, TypeDot, Die, Hello, FromAnswered, Accepted, Refused, Reset, ResetDone,
       DataStarted, Sent, Bye, ByeIgnored, tables
  <2>2. ASSUME NEW s \in Session, RcptHere(s), Arg(s) \notin Users PROVE UNCHANGED data
    BY <2>2 DEF RcptHere
  <2> QED
    BY <1>1, <1>2, <2>1, <2>2
<1>5. CASE PopNext
  <2>1. \/ UNCHANGED data
        \/ \E p \in Reader : \E all \in BOOLEAN : List(p, all)
    BY <1>5 DEF PopNext, Login, ListAgain, SignOff, Abort, Retrieve, Delete, tables
  <2> QED
    BY <1>1, <1>3, <2>1
<1> QED
  BY <1>1, <1>4, <1>5 DEF Next, vars, tables

\* It adds them to the rows its session knows.
LEMMA ReadRows ==
  ASSUME TypesInv, NEW p \in Session, ReadText(p) \/ ReadNothing(p),
         NEW d \in Domain, NEW n \in Keys(d), d # srv[p] \/ n \notin Ids(p)
  PROVE  data'[d][n].message = data[d][n].message
<1>1. TablesOK
  BY DEF TypesInv, MeantInv
<1>2. PICK keys : keys = {recvr_id[p][k] : k \in 1 .. Len(recvr_id[p])}
  OBVIOUS
<1>3. PICK words : Updates(srv[p], keys, words)
  BY <1>2 DEF ReadText, ReadNothing, Updates
<1>4. n # 0
  BY DEF Keys
<1>5. d # srv[p] \/ n \notin keys
  BY <1>2, <1>4 DEF Ids
<1> QED
  BY <1>1, <1>3, <1>5, Updated

LEMMA OneSession ==
  ASSUME TypesInv, NEW p \in Session, NEW q \in Session, p # q,
         RcptHere(p) /\ Arg(p) \in Users
  PROVE  recvr_id'[q] = recvr_id[q] /\ ~ReadText(q) /\ ~ReadNothing(q)
<1>1. recvr_id \in [Session -> Seq(Nat)] /\ recvr_id[p] \in Seq(Nat)
  BY DEF TypesInv, Dialogs, DialogTypes
<1>a. PICK new : new = Len(data[srv[p]]) + 1
  OBVIOUS
<1>2. recvr_id' = [recvr_id EXCEPT ![p] = Append(@, new)] /\ new \in Nat
  <2>1. Dialogs /\ TablesOK
    BY DEF TypesInv, MeantInv
  <2>2. /\ recvr_id' = [recvr_id EXCEPT ![p] = Append(@, Len(data[srv[p]]) + 1)]
        /\ Len(data[srv[p]]) \in Nat
    BY <2>1, RcptRows
  <2> QED
    BY <1>a, <2>2
<1>3. recvr_id'[p] # recvr_id[p]
  <2>1. PICK w \in Seq(Nat) : w = recvr_id[p]
    BY <1>1
  <2>2. Len(Append(w, new)) = Len(w) + 1 /\ Len(w) \in Nat
    BY <1>2, <2>1, AppendProperties, LenProperties
  <2>3. Append(w, new) # w
    BY <2>2
  <2> QED
    BY <1>1, <1>2, <2>1, <2>3
<1>4. ASSUME ReadText(q) \/ ReadNothing(q) PROVE recvr_id' = recvr_id
  BY <1>4 DEF ReadText, ReadNothing, sessions
<1> QED
  BY <1>1, <1>2, <1>3, <1>4

\* What a session knows changes as it inserts a row or is reset.
LEMMA IdsChange ==
  ASSUME TypesInv, [Next]_vars, NEW q \in Session
  PROVE  \/ recvr_id'[q] = recvr_id[q]
         \/ RcptHere(q) /\ Arg(q) \in Users
         \/ RsetDone(q)
<1>0. recvr_id \in [Session -> Seq(Nat)]
  BY DEF TypesInv, Dialogs, DialogTypes
<1>1. \/ UNCHANGED recvr_id
      \/ \E p \in Session : RcptHere(p) \/ RsetDone(p)
  BY DEF Next, vars, sessions, SmtpNext, SessionStep, Helo, MailFrom, Quit, Eof, RcptThere, RelayHello,
     RelayFrom, RelayTo, RelayRset, RelayAsk, RelayAnswered, Rset, Data, Invalid, StartDone,
     ReadText, ReadNothing, ReadDot, DotDone, QuitDone, UserStep, ClientStep, Connect, Retype,
     AskTo, GiveUp, StartData, Type, TypeDot, Die, Hello, FromAnswered, Accepted, Refused, Reset,
     ResetDone, DataStarted, Sent, Bye, ByeIgnored
<1>2. ASSUME NEW p \in Session, RcptHere(p)
      PROVE  recvr_id'[q] = recvr_id[q] \/ (RcptHere(q) /\ Arg(q) \in Users)
  <2>1. CASE Arg(p) \in Users /\ p # q
    BY <1>2, <2>1, OneSession
  <2>2. CASE Arg(p) \notin Users
    BY <1>2, <2>2 DEF RcptHere
  <2> QED
    BY <1>2, <2>1, <2>2
<1>3. ASSUME NEW p \in Session, RsetDone(p), p # q PROVE recvr_id'[q] = recvr_id[q]
  <2>1. \E new : recvr_id' = [recvr_id EXCEPT ![p] = new]
    BY <1>3 DEF RsetDone
  <2> QED
    BY <1>0, <1>3, <2>1
<1> QED
  BY <1>1, <1>2, <1>3

LEMMA IdsZeroed ==
  ASSUME TypesInv, NEW q \in Session, RsetDone(q)
  PROVE  Ids(q)' = {}
<1>1. recvr_id \in [Session -> Seq(Nat)] /\ recvr_id[q] \in Seq(Nat) /\ Len(recvr_id[q]) \in Nat
  BY LenProperties DEF TypesInv, Dialogs, DialogTypes
<1>2. recvr_id'[q] = [m \in 1 .. Len(recvr_id[q]) |-> 0]
  BY <1>1 DEF RsetDone
<1>3. Len(recvr_id'[q]) = Len(recvr_id[q])
  BY <1>1, <1>2
<1> QED
  BY <1>2, <1>3 DEF Ids

LEMMA IdsMore ==
  ASSUME TypesInv, NEW q \in Session, RcptHere(q), Arg(q) \in Users, NEW d, d = srv[q]
  PROVE  /\ d \in Domain /\ srv'[q] = d /\ Len(data[d]) \in Nat
         /\ Ids(q)' = Ids(q) \cup {Len(data[d]) + 1}
         /\ Len(data[d]) + 1 \notin Keys(d)
         /\ data'[d][Len(data[d]) + 1] = Row(q[1], sender[q], Arg(q))
         /\ \A n \in Keys(d) : data'[d][n] = data[d][n]
         /\ removed' = removed
<1>1. Dialogs /\ TablesOK /\ DOMAIN data = Domain
  BY DEF TypesInv, MeantInv, TablesOK
<1>2. /\ d \in Domain /\ recvr_id' = [recvr_id EXCEPT ![q] = Append(@, Len(data[d]) + 1)]
      /\ Len(data[d]) \in Nat
  BY <1>1, RcptRows
<1>3. removed' = removed /\ srv' = srv
  BY DEF RcptHere
<1>4. PICK row : row = Row(q[1], sender[q], Arg(q))
  OBVIOUS
<1>5. data'[d] = Append(data[d], row)
  BY <1>1, <1>2, <1>4 DEF RcptHere, insert
<1>6. data'[d][Len(data[d]) + 1] = row /\ \A n \in 1 .. Len(data[d]) : data'[d][n] = data[d][n]
  BY <1>1, <1>2, <1>5, Inserted DEF TablesOK
<1>7. Ids(q)' = Ids(q) \cup {Len(data[d]) + 1}
  <2>1. PICK w \in Seq(Nat) : w = recvr_id[q]
    BY DEF TypesInv, Dialogs, DialogTypes
  <2>2. PICK key \in Nat : key = Len(data[d]) + 1 /\ key # 0
    BY <1>2
  <2>3. PICK v : v = Append(w, key)
    OBVIOUS
  <2>4. /\ Len(v) = Len(w) + 1 /\ v[Len(w) + 1] = key /\ Len(w) \in Nat
        /\ \A i \in 1 .. Len(w) : v[i] = w[i]
    BY <2>1, <2>2, <2>3, AppendProperties, LenProperties
  <2>5. {v[i] : i \in 1 .. Len(v)} = {w[i] : i \in 1 .. Len(w)} \cup {key}
    <3>1. \A i \in 1 .. Len(v) : i \in 1 .. Len(w) \/ i = Len(w) + 1
      BY <2>4
    <3>2. Len(w) + 1 \in 1 .. Len(v) /\ \A i \in 1 .. Len(w) : i \in 1 .. Len(v)
      BY <2>4
    <3> QED
      BY <2>4, <3>1, <3>2
  <2>6. recvr_id'[q] = v
    <3>1. recvr_id \in [Session -> Seq(Nat)]
      BY DEF TypesInv, Dialogs, DialogTypes
    <3> QED
      BY <1>2, <2>1, <2>2, <2>3, <3>1
  <2>7. Ids(q)' = {v[i] : i \in 1 .. Len(v)} \ {0}
    BY <2>6 DEF Ids
  <2> QED
    BY <2>1, <2>2, <2>5, <2>7 DEF Ids
<1>8. Len(data[d]) + 1 \notin Keys(d)
  BY <1>2 DEF Keys
<1> QED
  BY <1>2, <1>3, <1>4, <1>6, <1>7, <1>8 DEF Keys

LEMMA RowsApartStep ==
  ASSUME TypesInv, RowsApart, [Next]_vars
  PROVE  RowsApart'
<1>1. ASSUME NEW q \in Session, NEW n \in Ids(q)'
      PROVE  \/ /\ n \in Ids(q) /\ srv'[q] = srv[q] /\ srv[q] \in Domain /\ n \in Keys(srv[q])
             \/ /\ RcptHere(q) /\ Arg(q) \in Users /\ srv'[q] = srv[q] /\ srv[q] \in Domain
                /\ n \notin Keys(srv[q])
                /\ data'[srv[q]][n].mail = q[1]
  <2>1. CASE recvr_id'[q] = recvr_id[q]
    <3>1. n \in Ids(q)
      BY <1>1, <2>1 DEF Ids
    <3> QED
      BY <3>1, IdsKnown
  <2>2. CASE RcptHere(q) /\ Arg(q) \in Users
    <3>1. PICK d : d = srv[q]
      OBVIOUS
    <3>2. /\ d \in Domain /\ srv'[q] = d /\ Ids(q)' = Ids(q) \cup {Len(data[d]) + 1}
          /\ Len(data[d]) + 1 \notin Keys(d)
          /\ data'[d][Len(data[d]) + 1] = Row(q[1], sender[q], Arg(q))
      BY <2>2, <3>1, IdsMore
    <3>3. CASE n \in Ids(q)
      BY <3>3, IdsKnown
    <3>4. CASE n = Len(data[d]) + 1
      BY <2>2, <3>1, <3>2, <3>4 DEF Row
    <3> QED
      BY <1>1, <3>2, <3>3, <3>4
  <2>3. CASE RsetDone(q)
    BY <1>1, <2>3, IdsZeroed
  <2> QED
    BY <2>1, <2>2, <2>3, IdsChange
<1>2. ASSUME NEW q \in Session PROVE OwnRows(q)'
  <2> SUFFICES ASSUME NEW n \in Ids(q)' PROVE data'[srv'[q]][n].mail = q[1]
    BY DEF OwnRows
  <2>1. CASE n \in Ids(q) /\ srv'[q] = srv[q] /\ srv[q] \in Domain /\ n \in Keys(srv[q])
    <3>1. data[srv[q]][n].mail = q[1]
      BY <2>1 DEF RowsApart, OwnRows
    <3> QED
      BY <2>1, <3>1, RowsFollow
  <2> QED
    BY <1>1, <2>1
<1>3. ASSUME NEW q \in Session, NEW r \in Session PROVE Apart(q, r)'
  <2> SUFFICES ASSUME q # r, srv'[q] = srv'[r], NEW n \in Ids(q)', n \in Ids(r)'
               PROVE  FALSE
    BY DEF Apart
  <2>1. Apart(q, r)
    BY DEF RowsApart
  <2>2. ~(RcptHere(q) /\ Arg(q) \in Users /\ RcptHere(r) /\ Arg(r) \in Users)
    <3> SUFFICES ASSUME RcptHere(q) /\ Arg(q) \in Users, RcptHere(r) /\ Arg(r) \in Users PROVE FALSE
      OBVIOUS
    <3>1. recvr_id'[q] = recvr_id[q]
      BY OneSession
    <3>2. PICK d : d = srv[q]
      OBVIOUS
    <3>3. Len(data[d]) + 1 \in Ids(q)' /\ Len(data[d]) + 1 \notin Keys(d)
      BY <3>2, IdsMore
    <3>4. Ids(q)' = Ids(q)
      BY <3>1 DEF Ids
    <3> QED
      BY <3>2, <3>3, <3>4, IdsKnown
  <2>3. \/ n \in Ids(q) /\ srv'[q] = srv[q] /\ n \in Keys(srv[q])
        \/ RcptHere(q) /\ Arg(q) \in Users /\ srv'[q] = srv[q] /\ n \notin Keys(srv[q])
    BY <1>1
  <2>4. \/ n \in Ids(r) /\ srv'[r] = srv[r] /\ n \in Keys(srv[r])
        \/ RcptHere(r) /\ Arg(r) \in Users /\ srv'[r] = srv[r] /\ n \notin Keys(srv[r])
    BY <1>1
  <2>5. srv[q] = srv[r]
    BY <2>3, <2>4
  <2> QED
    BY <2>1, <2>2, <2>3, <2>4, <2>5 DEF Apart
<1> QED
  BY <1>2, <1>3 DEF RowsApart

LEMMA SteadyElse ==
  ASSUME TypesInv, RowsApart, [Next]_vars, NEW q \in Session, ~ReadText(q), ~ReadNothing(q),
         recvr_id'[q] = recvr_id[q]
  PROVE  Steady(q)
<1> SUFFICES ASSUME NEW n \in Ids(q)
             PROVE  /\ srv'[q] = srv[q] /\ removed[srv[q]] \subseteq removed'[srv[q]]
                    /\ data'[srv[q]][n].message = data[srv[q]][n].message
  BY DEF Steady
<1>1. srv[q] \in Domain /\ n \in Keys(srv[q]) /\ srv'[q] = srv[q]
  BY IdsKnown
<1>2. removed[srv[q]] \subseteq removed'[srv[q]]
  BY <1>1, RemovedGrows
<1>3. ASSUME NEW p \in Session, ReadText(p) \/ ReadNothing(p)
      PROVE  data'[srv[q]][n].message = data[srv[q]][n].message
  <2>1. p # q
    BY <1>3
  <2>2. Apart(q, p)
    BY DEF RowsApart
  <2>3. srv[q] # srv[p] \/ n \notin Ids(p)
    BY <2>1, <2>2 DEF Apart
  <2> QED
    BY <1>1, <1>3, <2>3, ReadRows
<1>4. data'[srv[q]][n].message = data[srv[q]][n].message
  BY <1>1, <1>3, Muted
<1> QED
  BY <1>1, <1>2, <1>4

\* How a row grows.
LEMMA BlanksSeq ==
  ASSUME NEW b \in Nat
  PROVE  Blanks(b) \in Seq({Empty}) /\ Len(Blanks(b)) = b /\ \A i \in 1 .. b : Blanks(b)[i] = Empty
<1>1. Blanks(b) \in [1 .. b -> {Empty}]
  BY DEF Blanks
<1>2. Blanks(b) \in Seq({Empty})
  BY <1>1, SeqOf
<1>3. Len(Blanks(b)) \in Nat /\ DOMAIN Blanks(b) = 1 .. Len(Blanks(b))
  BY <1>2, LenProperties
<1> QED
  BY <1>1, <1>2, <1>3, Intervals

LEMMA NoBlanks == Blanks(0) = <<>>
  BY BlanksSeq, EmptySeq

LEMMA Grouping ==
  \A S : \A u, v, w \in Seq(S) : (u \o v) \o w = u \o (v \o w)
  BY ConcatAssociative

LEMMA BlankJoined ==
  ASSUME NEW c \in Client, NEW k \in 0 .. MaxLines + 1, NEW b \in Nat
  PROVE  (Part(c, 0, k) \o Blanks(b)) \o <<Empty>> = Part(c, 0, k) \o Blanks(b + 1)
<1>0. PICK S : S = Piece \cup {Empty}
  OBVIOUS
<1>1. k \in Nat /\ 0 <= k /\ k <= MaxLines + 1
  BY SmtpConstants
<1>2. \A T : T \subseteq S => Seq(T) \subseteq Seq(S)
  BY SeqMonotonic
<1>3. Piece \subseteq S /\ {Empty} \subseteq S
  BY <1>0
<1>4. PICK p \in Seq(S) : p = Part(c, 0, k)
  <2>1. Part(c, 0, k) \in Seq(Piece)
    BY <1>1, PartSeq
  <2> QED
    BY <1>2, <1>3, <2>1
<1>5. PICK e \in Seq(S) : e = <<Empty>> /\ Len(e) = 1 /\ e[1] = Empty
  <2>1. <<Empty>> \in Seq(S) /\ Len(<<Empty>>) = 1 /\ <<Empty>>[1] = Empty
    BY <1>3
  <2> QED
    BY <2>1
<1>6. PICK x \in Seq(S) : x = Blanks(b) /\ Len(x) = b /\ \A i \in 1 .. b : x[i] = Empty
  BY <1>2, <1>3, BlanksSeq
<1>7. PICK y \in Seq(S) : y = Blanks(b + 1) /\ Len(y) = b + 1 /\ \A i \in 1 .. b + 1 : y[i] = Empty
  <2>1. b + 1 \in Nat
    OBVIOUS
  <2> QED
    BY <1>2, <1>3, <2>1, BlanksSeq
<1>8. x \o e = y
  <2>1. /\ x \o e \in Seq(S) /\ Len(x \o e) = b + 1
        /\ \A i \in 1 .. b + 1 : (x \o e)[i] = IF i <= b THEN x[i] ELSE e[i - b]
    BY <1>5, <1>6, ConcatProperties
  <2>2. \A i \in 1 .. b + 1 : (x \o e)[i] = y[i]
    <3> SUFFICES ASSUME NEW i \in 1 .. b + 1 PROVE (x \o e)[i] = y[i]
      OBVIOUS
    <3>1. CASE i <= b
      <4>1. i \in 1 .. b
        BY <3>1
      <4> QED
        BY <1>6, <1>7, <2>1, <3>1, <4>1
    <3>2. CASE ~(i <= b)
      <4>1. i - b = 1
        BY <3>2
      <4> QED
        BY <1>5, <1>7, <2>1, <3>2, <4>1
    <3> QED
      BY <3>1, <3>2
  <2> QED
    BY <1>7, <2>1, <2>2, SeqEqual
<1>9. (p \o x) \o e = p \o (x \o e)
  <2>1. p \in Seq(S) /\ x \in Seq(S) /\ e \in Seq(S)
    BY <1>4, <1>5, <1>6
  <2> QED
    BY <2>1, Grouping
<1> QED
  BY <1>4, <1>5, <1>6, <1>7, <1>8, <1>9

LEMMA TextJoined ==
  ASSUME NEW c \in Client, NEW k \in Nat, NEW j \in Nat, k <= j, j <= MaxLines + 1
  PROVE  (Part(c, 0, k) \o Blanks(0)) \o Part(c, k, j) = Part(c, 0, j) \o Blanks(0)
<1>1. MaxLines \in Nat /\ 0 <= k /\ k <= MaxLines + 1 /\ 0 <= j /\ 0 \in Nat
  BY SmtpConstants
<1>2. Part(c, 0, k) \o Part(c, k, j) = Part(c, 0, j)
  BY <1>1, PartJoin
<1>3. Part(c, 0, k) \in Seq(Piece) /\ Part(c, 0, j) \in Seq(Piece)
  BY <1>1, PartSeq
<1>4. Part(c, 0, k) \o <<>> = Part(c, 0, k) /\ Part(c, 0, j) \o <<>> = Part(c, 0, j)
  BY <1>3, ConcatEmptySeq
<1> QED
  BY <1>2, <1>4, NoBlanks

Known(q) == {recvr_id[q][k] : k \in 1 .. Len(recvr_id[q])}

LEMMA MoreHeld ==
  ASSUME TypesInv, NEW q \in Session, NEW words, Updates(srv[q], Known(q), words),
         UNCHANGED <<removed, srv, recvr_id>>,
         NEW k, NEW b, NEW j, NEW d, Holds(q, k, b),
         (Part(q[1], 0, k) \o Blanks(b)) \o words = Part(q[1], 0, j) \o Blanks(d)
  PROVE  Holds(q, j, d)'
<1> PICK e : e = srv[q]
  OBVIOUS
<1>1. Ids(q)' = Ids(q) /\ srv'[q] = e /\ removed' = removed
  BY DEF Ids
<1> SUFFICES ASSUME NEW n \in Ids(q), n \notin removed[e]
             PROVE  data'[e][n].message = Part(q[1], 0, j) \o Blanks(d)
  BY <1>1 DEF Holds, Part, Full, Body, Blanks
<1>2. e \in Domain /\ n \in Keys(e) /\ TablesOK
  BY IdsKnown DEF TypesInv, MeantInv
<1>3. n \in Known(q)
  BY DEF Ids, Known
<1>4. data[e][n].message = Part(q[1], 0, k) \o Blanks(b)
  BY DEF Holds
<1>5. data'[e][n].message = data[e][n].message \o words
  <2>1. PICK keys : keys = Known(q)
    OBVIOUS
  <2>2. Updates(e, keys, words) /\ n \in keys
    BY <1>3, <2>1
  <2> QED
    BY <1>2, <2>2, Lengthened
<1> QED
  BY <1>4, <1>5

LEMMA NothingHeld ==
  ASSUME TypesInv, NEW q \in Session, ReadNothing(q), NEW k \in 0 .. MaxLines + 1, NEW b \in Nat,
         Holds(q, k, b)
  PROVE  Holds(q, k, b + 1)'
<1>1. Updates(srv[q], Known(q), <<Empty>>) /\ UNCHANGED <<removed, srv, recvr_id>>
  BY DEF ReadNothing, Updates, Known, sessions
<1>2. q[1] \in Client
  BY Parties
<1>3. (Part(q[1], 0, k) \o Blanks(b)) \o <<Empty>> = Part(q[1], 0, k) \o Blanks(b + 1)
  BY <1>2, BlankJoined
<1>4. PICK w, d : w = <<Empty>> /\ d = b + 1
  OBVIOUS
<1>5. Holds(q, k, d)'
  BY <1>1, <1>3, <1>4, MoreHeld
<1> QED
  BY <1>4, <1>5

\* A read of pieces.
LEMMA TextRead ==
  ASSUME TypesInv, NEW q \in Session, ReadText(q), NEW c, c = q[1],
         NEW k \in Nat, NEW m \in Nat, m <= MaxLines + 1, Spelt(inbox[q], c, k, m), Holds(q, k, 0),
         NEW S, inbox[q] \in Seq(S)
  PROVE  \E j \in k + 1 .. m :
           /\ Spelt(inbox'[q], c, j, m) /\ Holds(q, j, 0)'
           /\ ~Glued => j = k + 1 /\ j <= MaxLines
           /\ \A r \in Session \ {q} :
                inbox'[r] = IF r \in Recvr(q) THEN Append(inbox[r], Text(Part(c, k, j))) ELSE inbox[r]
<1>0. c \in Client /\ MaxLines \in Nat
  BY Parties, SmtpConstants
<1>1. PICK n \in Readable(q) :
        /\ Words(q, n) # <<Dot>>
        /\ inbox' = [r \in Session |->
             IF r = q THEN Rest(q, n)
             ELSE IF r \in Recvr(q) THEN Append(inbox[r], Text(Words(q, n))) ELSE inbox[r]]
        /\ Updates(srv[q], Known(q), Words(q, n))
  BY DEF ReadText, Updates, Known, Recvr
<1>2. UNCHANGED <<removed, srv, recvr_id>>
  BY DEF ReadText
<1>3. PICK j \in k + 1 .. m : /\ Words(q, n) = Part(c, k, j) /\ Spelt(Rest(q, n), c, j, m)
                              /\ ~Glued => j = k + 1
  BY <1>0, SpeltRest
<1>4. j \in Nat /\ k <= j /\ j <= MaxLines + 1
  BY <1>0, <1>3
<1>5. PICK words : words = Words(q, n)
  OBVIOUS
<1>6. Holds(q, j, 0)'
  <2>1. (Part(c, 0, k) \o Blanks(0)) \o words = Part(c, 0, j) \o Blanks(0)
    BY <1>0, <1>3, <1>4, <1>5, TextJoined
  <2>2. Updates(srv[q], Known(q), words)
    BY <1>1, <1>5
  <2> QED
    BY <1>2, <2>1, <2>2, MoreHeld
<1>7. ~Glued => j <= MaxLines
  <2>1. ~(k = MaxLines /\ j = MaxLines + 1)
    <3>1. Part(c, k, j) # <<Dot>>
      BY <1>1, <1>3
    <3> QED
      BY <1>0, <1>4, <3>1, PartDot
  <2> QED
    BY <1>0, <1>3, <1>4, <2>1
<1>8. inbox'[q] = Rest(q, n)
  BY <1>1
<1>9. \A r \in Session \ {q} :
        inbox'[r] = IF r \in Recvr(q) THEN Append(inbox[r], Text(Part(c, k, j))) ELSE inbox[r]
  BY <1>1, <1>3
<1> QED
  BY <1>3, <1>6, <1>7, <1>8, <1>9

-----------------------------------------------------------------------------
(* How far each session has come with a mail.                                *)

\* Session q has been written m pieces, has read k of them, and then the end of
\* the stream b times.
Reached(q, k, m, b) ==
  /\ Spelt(inbox[q], q[1], k, m) /\ Holds(q, k, b)
  /\ ~Glued => k <= MaxLines
  /\ b > 0 => k = m /\ Hung(q)

Bodied(q) == pc[q] \in {"start", "data"}

\* Relay r has been written m pieces.
Fed(r, m) == Bodied(r) => \E k \in 0 .. m, b \in Nat : Reached(r, k, m, b)

\* What client c has written after DATA.
Uttered(c) == typed[c] + (IF user[c] \in {".", "left"} THEN 1 ELSE 0)

\* The session of c has read k pieces and b times nothing, and its relays have
\* been written as many.
Passing(c, k, b) ==
  LET s == Of(c) IN
  /\ Reached(s, k, Uttered(c), b)
  /\ pc[s] = "start" => k = 0 /\ b = 0
  /\ \A r \in Recvr(s) : Fed(r, k)

DotTold(s, r) == \E n \in 1 .. Len(work[s]) : work[s][n].relay = r /\ work[s][n].asked

\* Relay r has the whole mail, or has still to read it.
Finishing(s, r) ==
  IF Bodied(r) THEN Fed(r, MaxLines + (IF DotTold(s, r) THEN 1 ELSE 0)) ELSE Holds(r, MaxLines, 0)

Flow(c) ==
  LET s == Of(c) IN
  /\ Bodied(s) => \E k \in 0 .. Uttered(c), b \in Nat : Passing(c, k, b)
  /\ pc[s] = "dot" => /\ typed[c] = MaxLines /\ Holds(s, MaxLines, 0)
                      /\ \A r \in Recvr(s) : Finishing(s, r)
  /\ pc[s] = "gone" => \A r \in Relay(s) : Bodied(r) => user[c] = "cut" /\ typed[c] = 0 /\ Fed(r, 0)

\* Nothing has been typed.
Early(c) ==
  LET s == Of(c) IN
  \/ user[c] \in {"out", "hello", "HELO", "from", "MAIL FROM", "to", "RCPT TO", "VRFY", "DATA"}
  \/ user[c] = "cut" /\ (pc[s] = "rcpt" \/ (Bodied(s) /\ reply[s] # Nothing))

Counts(c) ==
  /\ Early(c) => typed[c] = 0
  /\ user[c] = "." \/ (user[c] = "left" /\ Bodied(Of(c))) => typed[c] = MaxLines

\* Before a body is read, the rows are empty.
Unwritten(q) == pc[q] \in {"closed", "hello", "rcpt"} \cup Conn => Holds(q, 0, 0)

\* An accepted recipient has a row.
RowFor(q, a) == \E n \in Ids(q) : srv[q] = Home[a] /\ data[srv[q]][n].receiver = a
Owned(c, a) == \E q \in {Of(c)} \cup Recvr(Of(c)) : RowFor(q, a)

\* All that were accepted, also while the next one is asked for, ...
Sending == {"to", "RCPT TO", "VRFY", "DATA", "body", "."}
OwnsAll(c) == user[c] \in Sending => \A a \in ok[c] : Owned(c, a)

\* ... the one whose acceptance the client has still to read, ...
OwnsNext(c) ==
  LET s == Of(c) IN
  user[c] \in {"RCPT TO", "VRFY"} =>
    /\ inbox[s] # <<>> => Arg(s) = to[c]
    /\ pc[s] \in Conn => ask[s].to = to[c]
    /\ reply[s] = "250 OK" => Owned(c, to[c])

\* ... and the one whose acceptance the session has still to read.
OwnsThere(c) ==
  LET s == Of(c) IN
  pc[s] = "conn to" /\ reply[ask[s].relay] = "250 OK" => RowFor(ask[s].relay, ask[s].to)

Owners(c) == OwnsAll(c) /\ OwnsNext(c) /\ OwnsThere(c)

\* Every recipient that was accepted has the mail.
Delivered(c) ==
  \A a \in ok[c] :
    /\ Home[a] \in Domain
    /\ \E n \in Copies(c, a) : n \in removed[Home[a]] \/ data[Home[a]][n].message = Body(c)

Finished(c) == user[c] \in {"sent", "done"} \/ (user[c] = "." /\ pc[Of(c)] \in {"quit", "from"})

LinesInv ==
  /\ RowsApart /\ \A q \in Session : Unwritten(q)
  /\ \A c \in Client : Flow(c) /\ Counts(c) /\ Owners(c) /\ (Finished(c) => Delivered(c))
  /\ ~Glued => CopiesAreFaithful

LEMMA ReachedSame ==
  ASSUME NEW q, Steady(q), inbox'[q] = inbox[q], NEW m, NEW d, m = d,
         NEW k, NEW b, Reached(q, k, m, b), b > 0 => Hung(q)'
  PROVE  Reached(q, k, d, b)'
<1>1. Holds(q, k, b)'
  BY HoldsSame DEF Reached
<1>2. Spelt(inbox'[q], q[1], k, d)
  BY DEF Reached
<1> QED
  BY <1>1, <1>2 DEF Reached, Spelt, Cuts, Part, Full, Body

LEMMA FedSame ==
  ASSUME NEW r, Steady(r), inbox'[r] = inbox[r], Bodied(r)' => Bodied(r), NEW m, Fed(r, m),
         Hung(r) => Hung(r)'
  PROVE  Fed(r, m)'
<1> SUFFICES ASSUME Bodied(r)' PROVE \E k \in 0 .. m, b \in Nat : Reached(r, k, m, b)'
  BY DEF Fed
<1>1. PICK k \in 0 .. m, b \in Nat : Reached(r, k, m, b)
  BY DEF Fed
<1>2. b > 0 => Hung(r)'
  BY <1>1 DEF Reached
<1>3. Reached(r, k, m, b)'
  BY <1>1, <1>2, ReachedSame
<1> QED
  BY <1>3

\* Who leaves alone what session q has written.
LEMMA SteadyQuiet ==
  ASSUME TypesInv, [Next]_vars, NEW q \in Session, recvr_id'[q] = recvr_id[q], UNCHANGED data
  PROVE  Steady(q)
<1> SUFFICES ASSUME NEW n \in Ids(q)
             PROVE  srv'[q] = srv[q] /\ removed[srv[q]] \subseteq removed'[srv[q]]
  BY DEF Steady
<1>1. srv[q] \in Domain /\ srv'[q] = srv[q]
  BY IdsKnown
<1> QED
  BY <1>1, RemovedGrows

LEMMA SteadyMessages ==
  ASSUME TypesInv, [Next]_vars, NEW q \in Session, recvr_id'[q] = recvr_id[q],
         \A d \in Domain : \A n \in Keys(d) :
           d = srv[q] /\ n \in Ids(q) => data'[d][n].message = data[d][n].message
  PROVE  Steady(q)
<1> SUFFICES ASSUME NEW n \in Ids(q)
             PROVE  /\ srv'[q] = srv[q] /\ removed[srv[q]] \subseteq removed'[srv[q]]
                    /\ data'[srv[q]][n].message = data[srv[q]][n].message
  BY DEF Steady
<1>1. srv[q] \in Domain /\ srv'[q] = srv[q] /\ n \in Keys(srv[q])
  BY IdsKnown
<1> QED
  BY <1>1, RemovedGrows

LEMMA SessionData ==
  ASSUME NEW p, SessionStep(p)
  PROVE  \/ UNCHANGED data
         \/ RcptHere(p) /\ Arg(p) \in Users
         \/ ReadText(p) \/ ReadNothing(p)
<1>1. \/ UNCHANGED data
      \/ RcptHere(p)
      \/ ReadText(p) \/ ReadNothing(p)
  BY DEF SessionStep, Helo, MailFrom, Quit, Eof, RcptThere, RelayHello, RelayFrom,
     RelayTo, RelayRset, RelayAsk, RelayAnswered, Rset, RsetDone, Data, Invalid, StartDone,
     ReadDot, DotDone, QuitDone, tables
<1>2. RcptHere(p) /\ Arg(p) \notin Users => UNCHANGED data
  BY DEF RcptHere
<1> QED
  BY <1>1, <1>2

LEMMA SteadyOther ==
  ASSUME TypesInv, RowsApart, [Next]_vars, NEW p \in Session, SessionStep(p),
         NEW q \in Session, q # p, recvr_id'[q] = recvr_id[q]
  PROVE  Steady(q)
<1>1. CASE UNCHANGED data
  BY <1>1, SteadyQuiet
<1>2. CASE RcptHere(p) /\ Arg(p) \in Users
  <2>1. ~ReadText(q) /\ ~ReadNothing(q)
    BY <1>2, OneSession
  <2> QED
    BY <2>1, SteadyElse
<1>3. CASE ReadText(p) \/ ReadNothing(p)
  <2>1. Apart(q, p)
    BY DEF RowsApart
  <2>2. ASSUME NEW d \in Domain, NEW n \in Keys(d), d = srv[q], n \in Ids(q)
        PROVE  data'[d][n].message = data[d][n].message
    <3>1. d # srv[p] \/ n \notin Ids(p)
      BY <2>1, <2>2 DEF Apart
    <3> QED
      BY <1>3, <2>2, <3>1, ReadRows
  <2> QED
    BY <2>2, SteadyMessages
<1> QED
  BY <1>1, <1>2, <1>3, SessionData

LEMMA SteadyOwn ==
  ASSUME TypesInv, [Next]_vars, NEW p \in Session, SessionStep(p), ~ReadText(p), ~ReadNothing(p),
         recvr_id'[p] = recvr_id[p]
  PROVE  Steady(p)
<1>1. CASE UNCHANGED data
  BY <1>1, SteadyQuiet
<1>2. CASE RcptHere(p) /\ Arg(p) \in Users
  <2>1. PICK d : d = srv[p]
    OBVIOUS
  <2>2. \A n \in Keys(d) : data'[d][n] = data[d][n]
    BY <1>2, <2>1, IdsMore
  <2> QED
    BY <2>1, <2>2, SteadyMessages
<1> QED
  BY <1>1, <1>2, SessionData

\* Readers only mark and remove rows.
LEMMA SteadyReader ==
  ASSUME TypesInv, [Next]_vars, PopNext \/ UNCHANGED vars, NEW q \in Session,
         recvr_id'[q] = recvr_id[q]
  PROVE  Steady(q)
<1>0. TablesOK /\ DOMAIN data = Domain
  BY DEF TypesInv, MeantInv, TablesOK
<1>1. CASE UNCHANGED data
  BY <1>1, SteadyQuiet
<1>2. ASSUME NEW p \in Reader, NEW all \in BOOLEAN, List(p, all), NEW d \in Domain, NEW n \in Keys(d)
      PROVE  data'[d][n].message = data[d][n].message
  <2>1. data' = [data EXCEPT ![At(p)] = markread(At(p), read[p])]
    BY <1>2 DEF List
  <2>2. WellFormed(data[d][n])
    BY <1>0 DEF TablesOK
  <2>3. CASE d = At(p)
    <3>1. data'[d] = markread(d, read[p])
      BY <1>0, <2>1, <2>3
    <3>2. data'[d][n] = IF n \in read[p] \cap Live(d) THEN [data[d][n] EXCEPT !.isread = TRUE]
                        ELSE data[d][n]
      BY <3>1 DEF markread
    <3> QED
      BY <2>2, <3>2 DEF WellFormed
  <2>4. CASE d # At(p)
    BY <1>0, <2>1, <2>4
  <2> QED
    BY <2>3, <2>4
<1>3. CASE PopNext
  <2>1. \/ UNCHANGED data
        \/ \E p \in Reader : \E all \in BOOLEAN : List(p, all)
    BY <1>3 DEF PopNext, Login, ListAgain, SignOff, Abort, Retrieve, Delete, tables
  <2>2. ASSUME NEW p \in Reader, NEW all \in BOOLEAN, List(p, all) PROVE Steady(q)
    BY <1>2, <2>2, SteadyMessages
  <2> QED
    BY <1>1, <2>1, <2>2
<1> QED
  BY <1>1, <1>3 DEF vars, tables

LEMMA SteadyClient ==
  ASSUME TypesInv, [Next]_vars, NEW c \in Client, UserStep(c) \/ ClientStep(c), NEW q \in Session
  PROVE  Steady(q) /\ recvr_id'[q] = recvr_id[q]
<1>1. UNCHANGED <<data, recvr_id>>
  BY DEF UserStep, ClientStep, Connect, Retype, AskTo, GiveUp, StartData, Type, TypeDot, Die, Hello,
     FromAnswered, Accepted, Refused, Reset, ResetDone, DataStarted, Sent, Bye, ByeIgnored, tables, sessions
<1> QED
  BY <1>1, SteadyQuiet

LEMMA Uttering ==
  ASSUME Dialogs, NEW c \in Client
  PROVE  /\ typed[c] \in 0 .. MaxLines /\ MaxLines \in Nat
         /\ Uttered(c) \in 0 .. MaxLines + 1 /\ Uttered(c) \in {typed[c], typed[c] + 1}
<1>1. typed[c] \in 0 .. MaxLines /\ MaxLines \in Nat
  BY SmtpConstants DEF Dialogs, DialogTypes
<1> QED
  BY <1>1 DEF Uttered

LEMMA RecvrRelays ==
  ASSUME Dialogs, NEW c \in Client, pc[Of(c)] \in Busy
  PROVE  Recvr(Of(c)) \subseteq Relay(Of(c))
<1>1. PICK s \in Session : s = Of(c) /\ s[1] = c
  BY Parties
<1>2. SessionOK(s)
  BY <1>1 DEF Dialogs, Circle
<1>3. PICK w \in Seq(Relay(s)) : w = recvr[s]
  BY <1>1, <1>2 DEF SessionOK
<1>4. \A n \in 1 .. Len(w) : w[n] \in Relay(s)
  BY ElementOfSeq
<1> QED
  BY <1>1, <1>3, <1>4 DEF Recvr

\* The session of c does nothing.
LEMMA FlowOver ==
  ASSUME Dialogs, NEW c \in Client, NEW s, s = Of(c), Flow(c),
         typed'[c] = typed[c], Uttered(c)' = Uttered(c), Hung(s) => Hung(s)',
         pc[s] = "gone" => user'[c] = user[c],
         pc'[s] = pc[s], inbox'[s] = inbox[s], recvr'[s] = recvr[s], Steady(s),
         pc[s] # "dot" => \A r \in Relay(s) : \A m \in 0 .. MaxLines + 1 :
           Fed(r, m) /\ (pc[s] = "start" => m = 0) => Fed(r, m)',
         pc[s] = "dot" => \A r \in Recvr(s) : Finishing(s, r) => Finishing(s, r)',
         pc[s] = "gone" => \A r \in Relay(s) : Bodied(r)' => Bodied(r)
  PROVE  Flow(c)'
<1>1. s \in Session /\ s[1] = c /\ s[2] = 0
  BY Parties
<1>2. Recvr(s)' = Recvr(s) /\ Uttered(c)' = Uttered(c)
  BY DEF Recvr
<1>3. Hung(s) => Hung(s)'
  OBVIOUS
<1>4. pc[s] \in Busy => Recvr(s) \subseteq Relay(s)
  BY RecvrRelays
<1>5. MaxLines \in Nat /\ Uttered(c) \in 0 .. MaxLines + 1
  BY Uttering
<1>6. ASSUME Bodied(s)' PROVE \E k \in 0 .. Uttered(c), b \in Nat : Passing(c, k, b)'
  <2>1. Bodied(s)
    BY <1>6 DEF Bodied
  <2>2. PICK k \in 0 .. Uttered(c), b \in Nat : Passing(c, k, b)
    BY <2>1 DEF Flow
  <2>3. Reached(s, k, Uttered(c), b) /\ (b > 0 => Hung(s)')
    BY <1>3, <2>2 DEF Passing, Reached
  <2>4. Reached(s, k, Uttered(c), b)'
    <3>1. PICK m, d : m = Uttered(c) /\ d = Uttered(c)'
      OBVIOUS
    <3>2. Reached(s, k, d, b)'
      BY <1>2, <2>3, <3>1, ReachedSame
    <3> QED
      BY <3>1, <3>2
  <2>5. k \in 0 .. MaxLines + 1
    BY <1>5
  <2>6. pc[s] \in Busy
    BY <2>1 DEF Bodied, Busy
  <2>7. \A r \in Recvr(s) : Fed(r, k)'
    BY <1>4, <2>1, <2>2, <2>5, <2>6 DEF Passing, Bodied
  <2> QED
    BY <1>2, <2>2, <2>4, <2>7 DEF Passing
<1>7. ASSUME pc[s] = "dot"
      PROVE  typed'[c] = MaxLines /\ Holds(s, MaxLines, 0)' /\ \A r \in Recvr(s) : Finishing(s, r)'
  <2>1. Holds(s, MaxLines, 0) /\ typed[c] = MaxLines /\ \A r \in Recvr(s) : Finishing(s, r)
    BY <1>7 DEF Flow
  <2>2. Holds(s, MaxLines, 0)'
    BY <2>1, HoldsSame
  <2> QED
    BY <1>7, <2>1, <2>2
<1>8. ASSUME pc[s] = "gone", NEW r \in Relay(s), Bodied(r)'
      PROVE  user'[c] = "cut" /\ typed'[c] = 0 /\ Fed(r, 0)'
  <2>1. user[c] = "cut" /\ typed[c] = 0 /\ Fed(r, 0)
    BY <1>8 DEF Flow
  <2> QED
    BY <1>5, <1>8, <2>1
<1>9. (Bodied(s)' => \E k \in 0 .. Uttered(c)', b \in Nat : Passing(c, k, b)')
  BY <1>2, <1>6
<1> QED
  BY <1>2, <1>7, <1>8, <1>9 DEF Flow

LEMMA CountsOver ==
  ASSUME NEW c \in Client, Counts(c), user'[c] = user[c], typed'[c] = typed[c],
         pc'[Of(c)] = pc[Of(c)], reply'[Of(c)] = reply[Of(c)]
  PROVE  Counts(c)'
  BY DEF Counts, Early, Bodied

LEMMA FlowSame ==
  ASSUME Dialogs, NEW c \in Client, Flow(c), Counts(c), user'[c] = user[c], typed'[c] = typed[c],
         \A q \in Session : q[1] = c => Same(q) /\ Steady(q)
  PROVE  Flow(c)' /\ Counts(c)'
<1>1. PICK s \in Session : s = Of(c) /\ s[1] = c /\ s[2] = 0
  BY Parties
<1>2. Same(s) /\ Steady(s)
  BY <1>1
<1>3. Counts(c)'
  BY <1>1, <1>2, CountsOver DEF Same
<1>4. ASSUME NEW r \in Relay(s) PROVE Same(r) /\ Steady(r) /\ (Hung(r) => Hung(r)') /\ (Bodied(r)' => Bodied(r))
  <2>1. r \in Session /\ r[1] = c /\ r[2] # 0
    BY <1>1, Parties
  <2>2. Same(r) /\ Steady(r)
    BY <2>1
  <2>3. Hung(r) => Hung(r)'
    BY <1>1, <1>2, <2>1 DEF Hung, Same
  <2> QED
    BY <2>2, <2>3 DEF Bodied, Same
<1>5. ASSUME NEW r \in Relay(s), NEW m, Fed(r, m) PROVE Fed(r, m)'
  BY <1>4, <1>5, FedSame DEF Same
<1>6. ASSUME pc[s] = "dot", NEW r \in Recvr(s), Finishing(s, r) PROVE Finishing(s, r)'
  <2>0. r \in Relay(s)
    BY <1>1, <1>6, RecvrRelays DEF Busy
  <2>1. DotTold(s, r)' <=> DotTold(s, r)
    BY <1>2 DEF DotTold, Same
  <2>2. Bodied(r)' <=> Bodied(r)
    BY <1>4, <2>0 DEF Bodied, Same
  <2>3. CASE Bodied(r)
    <3>1. PICK m : m = MaxLines + (IF DotTold(s, r) THEN 1 ELSE 0)
      OBVIOUS
    <3>2. Fed(r, m)'
      BY <1>5, <1>6, <2>0, <2>3, <3>1 DEF Finishing
    <3> QED
      BY <2>1, <2>2, <2>3, <3>1, <3>2 DEF Finishing
  <2>4. CASE ~Bodied(r)
    <3>1. Holds(r, MaxLines, 0)'
      BY <1>4, <1>6, <2>0, <2>4, HoldsSame DEF Finishing
    <3> QED
      BY <2>2, <2>4, <3>1 DEF Finishing
  <2> QED
    BY <2>3, <2>4
<1>7. Flow(c)'
  <2>1. Uttered(c)' = Uttered(c) /\ (Hung(s) => Hung(s)')
    BY <1>1 DEF Uttered, Hung
  <2> QED
    BY <1>1, <1>2, <1>4, <1>5, <1>6, <2>1, FlowOver DEF Same
<1> QED
  BY <1>3, <1>7

LEMMA ReachedNow ==
  ASSUME NEW q, NEW k, NEW m, NEW b, Spelt(inbox'[q], q[1], k, m), Holds(q, k, b)',
         ~Glued => k <= MaxLines, b > 0 => k = m /\ Hung(q)'
  PROVE  Reached(q, k, m, b)'
  BY DEF Reached, Spelt, Cuts, Part, Full, Body

\* What a session that takes a body can do.
LEMMA BodiedActs ==
  ASSUME NEW q, SessionStep(q), Bodied(q)
  PROVE  \/ StartDone(q) \/ ReadText(q) \/ ReadNothing(q) \/ ReadDot(q)
         \/ pc[q] = "data" /\ Eof(q)
         \/ work[q] # <<>> /\ (RelayAsk(q) \/ RelayAnswered(q))
<1>1. pc[q] \notin {"hello", "from", "rcpt", "dot", "quit", "rset"} \cup Conn
  BY DEF Bodied, Conn
<1> QED
  BY <1>1 DEF SessionStep, Helo, MailFrom, Quit, Eof, RcptHere, RcptThere, AskedFor, RelayHello, RelayFrom,
     RelayTo, RelayRset, RelayAsk, RelayAnswered, Rset, RsetDone, Data, Invalid, StartDone,
     ReadText, ReadNothing, ReadDot, DotDone, QuitDone, Conn, Bodied

LEMMA BodiedInbox ==
  ASSUME Dialogs, NEW q \in Session, Bodied(q)
  PROVE  inbox[q] \in Seq(Lines)
<1>1. <<>> \in Seq(Lines)
  BY EmptySeq
<1>2. ASSUME NEW verb \in Verbs, Asked(q, verb) PROVE inbox[q] \in Seq(Lines)
  BY <1>1, <1>2 DEF Asked, Idle, Reading, Answered, Taking, Bodied, Conn
<1> QED
  BY <1>1, <1>2, AskedWhat

\* A relay reads what it has been written.
LEMMA FedOwn ==
  ASSUME TypesInv, RowsApart, [Next]_vars, NEW r \in Session, SessionStep(r), Bodied(r), work[r] = <<>>,
         NEW m \in 0 .. MaxLines + 1, Fed(r, m), Hung(r) => Hung(r)'
  PROVE  Fed(r, m)'
<1> SUFFICES ASSUME Bodied(r)' PROVE \E k \in 0 .. m, b \in Nat : Reached(r, k, m, b)'
  BY DEF Fed
<1>0. Dialogs /\ DOMAIN pc = Session /\ MaxLines \in Nat /\ m \in Nat /\ m <= MaxLines + 1
  BY SmtpConstants DEF TypesInv, Dialogs, DialogTypes
<1>1. PICK k \in 0 .. m, b \in Nat : Reached(r, k, m, b)
  BY DEF Fed
<1>2. r[1] \in Client /\ k \in Nat
  BY Parties
<1>3. CASE StartDone(r)
  <2>1. UNCHANGED <<inbox, recvr_id>> /\ ~ReadText(r) /\ ~ReadNothing(r)
    BY <1>3 DEF StartDone, ReadText, ReadNothing
  <2>2. Steady(r)
    BY <2>1, SteadyOwn
  <2>3. Reached(r, k, m, b)'
    <3>1. b > 0 => Hung(r)'
      BY <1>1 DEF Reached
    <3> QED
      BY <1>1, <2>1, <2>2, <3>1, ReachedSame
  <2> QED
    BY <2>3
<1>4. CASE ReadText(r)
  <2>1. inbox[r] \in Seq(Lines)
    BY <1>0, BodiedInbox
  <2>2. inbox[r] # <<>>
    <3>1. PICK n \in Readable(r) : TRUE
      BY <1>4 DEF ReadText
    <3>2. 1 .. Len(<<>>) = {}
      BY One
    <3> QED
      BY <3>1, <3>2 DEF Readable
  <2>3. Spelt(inbox[r], r[1], k, m) /\ Holds(r, k, b)
    BY <1>1 DEF Reached
  <2>4. k < m
    BY <1>0, <1>2, <2>1, <2>2, <2>3, SpeltSome
  <2>5. b = 0
    BY <1>1, <2>4 DEF Reached
  <2>6. PICK j \in k + 1 .. m : /\ Spelt(inbox'[r], r[1], j, m) /\ Holds(r, j, 0)'
                                /\ ~Glued => j = k + 1 /\ j <= MaxLines
    BY <1>0, <1>2, <1>4, <2>1, <2>3, <2>5, TextRead
  <2>7. j \in 0 .. m
    BY <1>2, <2>6
  <2>8. Reached(r, j, m, 0)'
    BY <2>6, ReachedNow
  <2> QED
    BY <2>7, <2>8
<1>5. CASE ReadNothing(r)
  <2>1. Hung(r) /\ inbox[r] = <<>> /\ inbox'[r] = inbox[r]
    BY <1>5 DEF ReadNothing, sessions
  <2>2. Holds(r, k, b) /\ Spelt(<<>>, r[1], k, m) /\ (~Glued => k <= MaxLines)
    BY <1>1, <2>1 DEF Reached
  <2>3. k = m
    BY <1>0, <1>2, <2>2, SpeltNone
  <2>4. PICK d \in Nat : d = b + 1
    OBVIOUS
  <2>5. Holds(r, k, d)'
    <3>1. k \in 0 .. MaxLines + 1
      BY <1>0
    <3> QED
      BY <1>5, <2>2, <2>4, <3>1, NothingHeld
  <2>6. Reached(r, k, m, d)'
    BY <2>1, <2>2, <2>3, <2>5, ReachedNow
  <2> QED
    BY <2>6
<1>6. ASSUME ReadDot(r) \/ Eof(r) PROVE FALSE
  <2>1. pc'[r] \in {"dot", "gone"}
    BY <1>0, <1>6 DEF ReadDot, Eof
  <2> QED
    BY <2>1 DEF Bodied
<1> QED
  BY <1>3, <1>4, <1>5, <1>6, BodiedActs

\* It begins with nothing.
LEMMA ReachedFirst ==
  ASSUME TypesInv, [Next]_vars, NEW r \in Session, Data(r), Unwritten(r)
  PROVE  Reached(r, 0, 0, 0)'
<1>0. Dialogs /\ DOMAIN inbox = Session /\ r[1] \in Client /\ MaxLines \in Nat
  BY Parties, SmtpConstants DEF TypesInv, Dialogs, DialogTypes
<1>1. Holds(r, 0, 0)
  BY DEF Data, Unwritten
<1>2. SessionStep(r) /\ ~ReadText(r) /\ ~ReadNothing(r) /\ recvr_id'[r] = recvr_id[r]
  BY DEF Data, ReadText, ReadNothing, SessionStep
<1>3. Holds(r, 0, 0)'
  BY <1>1, <1>2, HoldsSame, SteadyOwn
<1>4. inbox[r] # <<>> /\ Head(inbox[r]).verb = "DATA" /\ pc[r] = "rcpt"
  BY DEF Data, Is
<1>5. inbox'[r] = <<>>
  <2>1. PICK verb \in Verbs : Asked(r, verb)
    BY <1>0, <1>4, AskedWhat
  <2>2. inbox[r] = <<Head(inbox[r])>>
    BY <1>4, <2>1 DEF Asked, Idle, Reading, Answered, Taking
  <2>3. PICK w : w = Head(inbox[r])
    OBVIOUS
  <2>4. Tail(inbox[r]) = <<>>
    BY <2>2, <2>3, One
  <2>5. inbox' = [inbox EXCEPT ![r] = Tail(@)]
    BY DEF Data, Answer
  <2> QED
    BY <1>0, <2>4, <2>5
<1>6. Spelt(<<>>, r[1], 0, 0)
  BY SpeltNone
<1> QED
  BY <1>0, <1>3, <1>5, <1>6, ReachedNow

LEMMA FedFirst ==
  ASSUME TypesInv, [Next]_vars, NEW r \in Session, Data(r), Unwritten(r)
  PROVE  Fed(r, 0)'
<1>1. Reached(r, 0, 0, 0)'
  BY ReachedFirst
<1> QED
  BY <1>1 DEF Fed

LEMMA BodiedBegins ==
  ASSUME NEW q \in Session, SessionStep(q), ~Bodied(q), pc'[q] \in {"start", "data"}, DOMAIN pc = Session
  PROVE  Data(q)
<1>1. CASE RcptThere(q)
  <2>1. PICK r : pc' = [pc EXCEPT ![q] = "conn hello", ![r] = "hello"]
    BY <1>1 DEF RcptThere
  <2> QED
    BY <2>1 DEF Bodied
<1> QED
  BY <1>1 DEF SessionStep, Helo, MailFrom, Quit, Eof, RcptHere, AskedFor, RelayHello, RelayFrom,
     RelayTo, RelayRset, RelayAsk, RelayAnswered, Rset, RsetDone, Invalid, StartDone,
     ReadText, ReadNothing, ReadDot, DotDone, QuitDone, Bodied, sessions

\* The dot is read after all lines.
LEMMA DotRead ==
  ASSUME TypesInv, [Next]_vars, NEW q \in Session, ReadDot(q),
         NEW m \in 0 .. MaxLines + 1, NEW k \in 0 .. m, NEW b \in Nat, Reached(q, k, m, b)
  PROVE  k = MaxLines /\ b = 0 /\ m = MaxLines + 1 /\ Holds(q, MaxLines, 0)'
<1>0. /\ Dialogs /\ q[1] \in Client /\ MaxLines \in Nat /\ m \in Nat /\ k \in Nat /\ m <= MaxLines + 1
      /\ Bodied(q)
  BY Parties, SmtpConstants DEF TypesInv, ReadDot, Bodied
<1>1. inbox[q] \in Seq(Lines)
  BY <1>0, BodiedInbox
<1>2. PICK n \in Readable(q) : Words(q, n) = <<Dot>>
  BY DEF ReadDot
<1>3. Spelt(inbox[q], q[1], k, m) /\ Holds(q, k, b) /\ (b > 0 => k = m)
  BY DEF Reached
<1>4. PICK j \in k + 1 .. m : Words(q, n) = Part(q[1], k, j)
  BY <1>0, <1>1, <1>3, SpeltRest
<1>5. j \in Nat /\ k <= j /\ j <= MaxLines + 1 /\ Part(q[1], k, j) = <<Dot>>
  BY <1>0, <1>2, <1>4
<1>6. k = MaxLines /\ j = MaxLines + 1
  BY <1>0, <1>5, PartDot
<1>7. b = 0 /\ m = MaxLines + 1
  BY <1>0, <1>3, <1>4, <1>6
<1>8. SessionStep(q) /\ recvr_id'[q] = recvr_id[q] /\ ~ReadNothing(q) /\ ~ReadText(q)
  <2>1. pc'[q] = "dot"
    BY <1>0 DEF ReadDot, TypesInv, Dialogs, DialogTypes
  <2> QED
    BY <2>1 DEF ReadDot, SessionStep, ReadText, ReadNothing, sessions
<1>9. Holds(q, k, b)'
  BY <1>3, <1>8, HoldsSame, SteadyOwn
<1> QED
  BY <1>6, <1>7, <1>9

\* Where the dialog with a relay of the mail can be.
LEMMA InMailAt ==
  ASSUME NEW s, NEW r, WorkOK(s)
  PROVE  InMail(s, r) \subseteq {Between(s)} \cup Exchanges(s) \cup {Before(verb) : verb \in Exchanges(s)}
<1> SUFFICES ASSUME NEW verb \in InMail(s, r), verb # Between(s)
             PROVE  verb \in Exchanges(s) \cup {Before(v) : v \in Exchanges(s)}
  OBVIOUS
<1>1. PICK n \in Due(s, r) : verb = IF work[s][n].asked THEN work[s][n].verb ELSE Before(work[s][n].verb)
  BY DEF InMail
<1> PICK S : S = [relay : Recvr(s), verb : Exchanges(s), asked : BOOLEAN]
  OBVIOUS
<1>2. PICK w \in Seq(S) : w = work[s]
  BY DEF WorkOK
<1>3. w[n] \in S
  <2>1. n \in 1 .. Len(w)
    BY <1>2 DEF Due
  <2> QED
    BY <2>1, ElementOfSeq
<1>4. work[s][n].verb \in Exchanges(s)
  BY <1>2, <1>3
<1> QED
  BY <1>1, <1>4

LEMMA RelayBegins ==
  ASSUME Dialogs, NEW c \in Client, NEW s, s = Of(c), NEW r \in Relay(s), Is(r, "DATA"), pc[r] = "rcpt"
  PROVE  pc[s] = "start"
<1>1. s \in Session /\ s[1] = c
  BY Parties
<1>2. RelayTalk(s, r) /\ SessionOK(s) /\ AskOK(s)
  BY <1>1 DEF Dialogs, Circle
<1>3. WorkOK(s)
  BY <1>2 DEF SessionOK
<1>4. inbox[r] # <<>> /\ Head(inbox[r]).verb = "DATA"
  BY DEF Is
<1>5. ASSUME NEW verb, Asked(r, verb) PROVE verb = "DATA"
  BY <1>4, <1>5 DEF Asked, Idle, Reading, Answered, Taking, Says, Conn
<1>6. pc[s] # "gone"
  <2>1. ~Adrift(r, Left)
    BY <1>4, <1>5 DEF Adrift, AskedOne, Left
  <2> QED
    BY <1>2, <2>1 DEF RelayTalk
<1>7. ~(pc[s] \in Conn /\ r = ask[s].relay)
  <2> SUFFICES ASSUME pc[s] \in Conn, r = ask[s].relay PROVE FALSE
    OBVIOUS
  <2>1. Asked(r, Connecting(s))
    BY <1>2, <1>6 DEF RelayTalk, AskedOne
  <2>2. ask[s].verb \in {"RCPT TO", "VRFY"}
    BY <1>2 DEF AskOK
  <2> QED
    BY <1>5, <2>1, <2>2 DEF Connecting, Conn
<1>8. pc[s] \in Busy /\ AskedOne(r, InMail(s, r))
  <2>1. ~Idle(r, {"closed", "from", "rcpt", "gone"})
    BY <1>4 DEF Idle
  <2> QED
    BY <1>2, <1>6, <1>7, <2>1 DEF RelayTalk
<1>9. "DATA" \in InMail(s, r)
  BY <1>5, <1>8 DEF AskedOne
<1>10. "DATA" # Between(s)
  BY <1>8 DEF Between, Busy, Conn
<1>11. \A verb \in Exchanges(s) : Before(verb) # "DATA"
  BY <1>8 DEF Exchanges, Before, Busy, Conn
<1>12. "DATA" \in Exchanges(s)
  BY <1>3, <1>9, <1>10, <1>11, InMailAt
<1> QED
  BY <1>12 DEF Exchanges

LEMMA RelayMailed ==
  ASSUME Dialogs, NEW c \in Client, NEW s, s = Of(c), NEW r \in Recvr(s), pc[s] = "dot"
  PROVE  ~AskedFor(r) /\ pc[r] \notin {"rcpt", "rset"}
<1>1. s \in Session /\ s[1] = c /\ pc[s] \in Busy /\ pc[s] \notin Conn
  BY Parties DEF Busy, Conn
<1>2. r \in Relay(s)
  BY <1>1, RecvrRelays
<1>3. RelayTalk(s, r) /\ SessionOK(s)
  BY <1>1, <1>2 DEF Dialogs, Circle
<1>4. WorkOK(s)
  BY <1>3 DEF SessionOK
<1>5. AskedOne(r, InMail(s, r))
  BY <1>1, <1>3 DEF RelayTalk
<1>6. {Between(s)} \cup Exchanges(s) \cup {Before(verb) : verb \in Exchanges(s)} \subseteq {"mailed", ".", "body"}
  BY DEF Between, Exchanges, Before, Conn
<1>7. InMail(s, r) \subseteq {"mailed", ".", "body"}
  BY <1>4, <1>6, InMailAt
<1>8. PICK verb \in {"mailed", ".", "body"} : Asked(r, verb)
  BY <1>5, <1>7 DEF AskedOne
<1> QED
  BY <1>8 DEF Asked, Idle, Answered, Taking, AskedFor

\* A relay acts.
LEMMA RelayFlow ==
  ASSUME TypesInv, RowsApart, [Next]_vars, NEW c \in Client, NEW s, s = Of(c), NEW r \in Relay(s),
         SessionStep(r), Flow(c), Counts(c), Unwritten(r)
  PROVE  Flow(c)' /\ Counts(c)'
<1>1. Dialogs /\ DialogTypes /\ TablesOK /\ MaxLines \in Nat /\ DOMAIN pc = Session
  BY SmtpConstants DEF TypesInv, Dialogs, DialogTypes, MeantInv
<1>2. s \in Session /\ s[1] = c /\ s[2] = 0 /\ r \in Session /\ r # s /\ r[1] = c /\ r[2] # 0
  BY Parties
<1>3. Alone(r)
  BY <1>1, <1>2, RelayStep
<1>4. (\A q \in Session \ {r} : Same(q)) /\ UNCHANGED clients
  BY <1>3 DEF Alone
<1>5. Same(s) /\ user' = user /\ typed' = typed
  BY <1>2, <1>4 DEF clients
<1>6. \A q \in Relay(s) : q \in Session /\ q[1] = c /\ q[2] # 0
  BY <1>2, Parties
<1>7. \A q \in Session \ {r} : Steady(q)
  BY <1>2, <1>4, SteadyOther DEF Same
<1>8. Counts(c)'
  BY <1>2, <1>5, CountsOver DEF Same
<1>9. work[r] = <<>>
  BY <1>1, <1>2 DEF Dialogs, Circle, RelayTalk
<1>10. \A q \in Relay(s) : Hung(q) => Hung(q)'
  BY <1>2, <1>5, <1>6 DEF Hung, Same
<1>11. ~Bodied(r) /\ Bodied(r)' => Data(r) /\ pc[s] = "start"
  <2> SUFFICES ASSUME ~Bodied(r), Bodied(r)' PROVE Data(r) /\ pc[s] = "start"
    OBVIOUS
  <2>1. pc'[r] \in {"start", "data"}
    BY DEF Bodied
  <2>2. Data(r)
    BY <1>1, <1>2, <2>1, BodiedBegins
  <2> QED
    BY <1>1, <1>2, <2>2, RelayBegins DEF Data
<1>12. ASSUME NEW q \in Relay(s), NEW m \in 0 .. MaxLines + 1, Fed(q, m), pc[s] = "start" => m = 0
       PROVE  Fed(q, m)'
  <2>1. CASE q # r
    <3>1. Same(q) /\ Steady(q)
      BY <1>4, <1>6, <1>7, <2>1
    <3>2. Bodied(q)' => Bodied(q)
      BY <3>1 DEF Bodied, Same
    <3> QED
      BY <1>10, <1>12, <3>1, <3>2, FedSame DEF Same
  <2>2. CASE q = r /\ Bodied(r)
    BY <1>2, <1>9, <1>10, <1>12, <2>2, FedOwn
  <2>3. CASE q = r /\ ~Bodied(r) /\ Bodied(r)'
    <3>1. Fed(r, 0)' /\ m = 0
      BY <1>2, <1>11, <1>12, <2>3, FedFirst
    <3> QED
      BY <2>3, <3>1
  <2>4. CASE q = r /\ ~Bodied(r)'
    BY <2>4 DEF Fed
  <2> QED
    BY <2>1, <2>2, <2>3, <2>4
<1>13. ASSUME pc[s] = "dot", NEW q \in Recvr(s), Finishing(s, q) PROVE Finishing(s, q)'
  <2>0. q \in Relay(s)
    BY <1>1, <1>13, RecvrRelays DEF Busy
  <2>1. DotTold(s, q)' <=> DotTold(s, q)
    BY <1>5 DEF DotTold, Same
  <2>2. PICK m \in 0 .. MaxLines + 1 : m = MaxLines + (IF DotTold(s, q) THEN 1 ELSE 0)
    BY <1>1
  <2>3. CASE Bodied(q) /\ Bodied(q)'
    <3>1. Fed(q, m)'
      BY <1>12, <1>13, <2>0, <2>2, <2>3 DEF Finishing
    <3> QED
      BY <2>1, <2>2, <2>3, <3>1 DEF Finishing
  <2>4. CASE Bodied(q) /\ ~Bodied(q)'
    <3>1. q = r
      <4>1. q # r => Same(q)
        BY <1>4, <1>6, <2>0
      <4> QED
        BY <2>4, <4>1 DEF Bodied, Same
    <3>2. ~Hung(r)
      BY <1>2, <1>13 DEF Hung
    <3>3. pc'[r] \notin {"start", "data"} /\ DOMAIN pc = Session
      BY <1>1, <2>4, <3>1 DEF Bodied
    <3>4. ReadDot(r)
      <4>1. ~Eof(r)
        BY <3>2 DEF Eof
      <4>2. ~StartDone(r) /\ ~ReadText(r) /\ ~ReadNothing(r)
        BY <1>2, <2>4, <3>1, <3>3 DEF StartDone, ReadText, ReadNothing, sessions, Bodied
      <4> QED
        BY <1>9, <2>4, <3>1, <4>1, <4>2, BodiedActs
    <3>5. PICK k \in 0 .. m, b \in Nat : Reached(r, k, m, b)
      BY <1>13, <2>2, <2>4, <3>1 DEF Finishing, Fed
    <3>6. Holds(r, MaxLines, 0)'
      BY <1>2, <3>4, <3>5, DotRead
    <3> QED
      BY <2>4, <3>1, <3>6 DEF Finishing
  <2>5. CASE ~Bodied(q)
    <3>1. ~Bodied(q)'
      <4>1. q # r => Same(q)
        BY <1>4, <1>6, <2>0
      <4> QED
        BY <1>11, <1>13, <2>5, <4>1 DEF Bodied, Same
    <3>2. Steady(q)
      <4>1. CASE q # r
        BY <1>6, <1>7, <2>0, <4>1
      <4>2. CASE q = r
        <5>1. ~RcptHere(r) /\ ~RsetDone(r)
          BY <1>1, <1>13, <4>2, RelayMailed DEF RcptHere, RsetDone
        <5>2. recvr_id'[r] = recvr_id[r]
          BY <1>2, <5>1, IdsChange
        <5>3. ~ReadText(r) /\ ~ReadNothing(r)
          BY <2>5, <4>2 DEF ReadText, ReadNothing, Bodied
        <5> QED
          BY <1>2, <4>2, <5>2, <5>3, SteadyOwn
      <4> QED
        BY <4>1, <4>2
    <3>3. Holds(q, MaxLines, 0)'
      BY <1>13, <2>5, <3>2, HoldsSame DEF Finishing
    <3> QED
      BY <3>1, <3>3 DEF Finishing
  <2> QED
    BY <2>3, <2>4, <2>5
<1>14. ASSUME pc[s] = "gone", NEW q \in Relay(s), Bodied(q)' PROVE Bodied(q)
  <2>1. q # r => Same(q)
    BY <1>4, <1>6
  <2> QED
    BY <1>11, <1>14, <2>1 DEF Bodied, Same
<1>15. Flow(c)'
  <2>1. /\ pc'[s] = pc[s] /\ inbox'[s] = inbox[s] /\ recvr'[s] = recvr[s] /\ work'[s] = work[s]
        /\ user'[c] = user[c] /\ typed'[c] = typed[c]
    BY <1>5 DEF Same
  <2>2. Steady(s) /\ Uttered(c)' = Uttered(c) /\ (Hung(s) => Hung(s)')
    BY <1>2, <1>5, <1>7 DEF Uttered, Hung
  <2> QED
    BY <1>1, <1>12, <1>13, <1>14, <2>1, <2>2, FlowOver
<1> QED
  BY <1>8, <1>15

-----------------------------------------------------------------------------
(* The session of a client acts.                                             *)

LEMMA Main ==
  ASSUME TypesInv, NEW c \in Client, NEW s, s = Of(c)
  PROVE  /\ s \in Session /\ s[1] = c /\ s[2] = 0 /\ MaxLines \in Nat
         /\ Dialogs /\ DialogTypes /\ TablesOK /\ SessionOK(s) /\ AskOK(s) /\ ClientTalk(c)
         /\ \A r \in Relay(s) : /\ r \in Session /\ r # s /\ r[1] = c /\ r[2] # 0 /\ RelayTalk(s, r)
                                /\ Hung(r) <=> pc[s] = "gone"
<1>1. s \in Session /\ s[1] = c /\ s[2] = 0 /\ MaxLines \in Nat
  BY Parties, SmtpConstants
<1>2. Dialogs /\ DialogTypes /\ TablesOK /\ Circle(c)
  BY DEF TypesInv, MeantInv, Dialogs
<1>3. SessionOK(s) /\ AskOK(s) /\ ClientTalk(c) /\ \A r \in Relay(s) : RelayTalk(s, r)
  BY <1>1, <1>2 DEF Circle
<1>4. \A r \in Relay(s) : r \in Session /\ r # s /\ r[1] = c /\ r[2] # 0
  BY <1>1, Parties
<1> QED
  BY <1>1, <1>2, <1>3, <1>4 DEF Hung

\* What the client, alive or not, has asked.
LEMMA AskedBy ==
  ASSUME TypesInv, NEW c \in Client, NEW s, s = Of(c), pc[s] # "gone"
  PROVE  \E verb \in Verbs :
           /\ Asked(s, verb)
           /\ user[c] \in Dead => verb \in LeftBy(user[c])
           /\ user[c] \notin Dead => verb = Asking(c)
<1>1. ClientTalk(c)
  BY Main
<1>2. CASE user[c] \in Dead
  <2>1. LeftBy(user[c]) \subseteq Verbs
    BY <1>2 DEF LeftBy, Verbs, Dead
  <2> QED
    BY <1>1, <1>2, <2>1 DEF ClientTalk, Adrift, AskedOne
<1>3. CASE user[c] \notin Dead
  <2>1. Asking(c) \in Verbs
    BY <1>1, <1>3 DEF ClientTalk, Asking, Verbs, Dead
  <2> QED
    BY <1>1, <1>3, <2>1 DEF ClientTalk, AskedOne
<1> QED
  BY <1>2, <1>3

LEMMA Alive ==
  ASSUME NEW s \in Session, SessionStep(s), SessionOK(s)
  PROVE  pc[s] \notin {"closed", "gone"}
<1>1. CASE work[s] = <<>>
  BY <1>1 DEF SessionStep, Helo, MailFrom, Quit, Eof, RcptHere, RcptThere, AskedFor, RelayHello, RelayFrom,
     RelayTo, RelayRset, RelayAsk, RelayAnswered, Rset, RsetDone, Data, Invalid, StartDone,
     ReadText, ReadNothing, ReadDot, DotDone, QuitDone
<1>2. CASE work[s] # <<>>
  <2>1. Exchanges(s) # {}
    BY <1>2, NoWork DEF SessionOK
  <2> QED
    BY <2>1 DEF Exchanges
<1> QED
  BY <1>1, <1>2

LEMMA RelaysQuiet ==
  ASSUME TypesInv, NEW c \in Client, NEW s, s = Of(c), pc[s] \in {"hello", "from", "rcpt"},
         NEW r \in Relay(s)
  PROVE  ~Bodied(r)
<1>1. SessionOK(s) /\ RelayTalk(s, r)
  BY Main
<1>2. work[s] = <<>>
  BY <1>1, NoWork DEF SessionOK, Exchanges
<1>3. pc[s] \notin Conn /\ pc[s] # "gone"
  BY DEF Conn
<1>4. CASE pc[s] = "rcpt" /\ r \in Recvr(s)
  <2>1. Asked(r, Between(s)) /\ Between(s) = "to"
    BY <1>1, <1>2, <1>3, <1>4, TalkAt DEF Busy, Between
  <2> QED
    BY <2>1 DEF Asked, Idle, Bodied
<1>5. CASE ~(pc[s] = "rcpt" /\ r \in Recvr(s))
  <2>1. ~(pc[s] \in Busy /\ r \in Recvr(s))
    BY <1>5 DEF Busy, Conn
  <2>2. Waiting(r)
    BY <1>1, <1>3, <2>1, TalkWaiting
  <2> QED
    BY <2>2 DEF Waiting, Idle, Bodied
<1> QED
  BY <1>4, <1>5

LEMMA RelaysTake ==
  ASSUME TypesInv, NEW c \in Client, NEW s, s = Of(c), pc[s] = "data", NEW r \in Relay(s)
  PROVE  /\ work[s] = <<>>
         /\ r \in Recvr(s) => Asked(r, "body") /\ Bodied(r) /\ reply[r] = Nothing
         /\ r \notin Recvr(s) => ~Bodied(r)
<1>1. SessionOK(s) /\ RelayTalk(s, r)
  BY Main
<1>2. work[s] = <<>>
  BY <1>1, NoWork DEF SessionOK, Exchanges
<1>3. pc[s] \notin Conn /\ pc[s] \in Busy
  BY DEF Conn, Busy
<1>4. CASE r \in Recvr(s)
  <2>1. Asked(r, Between(s)) /\ Between(s) = "body"
    BY <1>1, <1>2, <1>3, <1>4, TalkAt DEF Between, Conn
  <2> QED
    BY <1>2, <1>4, <2>1 DEF Asked, Taking, Bodied
<1>5. CASE r \notin Recvr(s)
  <2>1. Waiting(r)
    BY <1>1, <1>3, <1>5, TalkWaiting
  <2> QED
    BY <1>2, <1>5, <2>1 DEF Waiting, Idle, Bodied
<1> QED
  BY <1>4, <1>5

\* Nothing is typed before the session is in the loop that reads a body.
LEMMA MainCounts ==
  ASSUME TypesInv, NEW c \in Client, NEW s, s = Of(c), SessionStep(s), Counts(c)
  PROVE  Counts(c)'
<1>0. s \in Session /\ SessionOK(s) /\ Dialogs /\ DOMAIN pc = Session /\ DOMAIN reply = Session
  BY Main DEF DialogTypes
<1>1. user' = user /\ typed' = typed
  BY DEF SessionStep, Helo, MailFrom, Quit, Eof, RcptHere, RcptThere, RelayHello, RelayFrom,
     RelayTo, RelayRset, RelayAsk, RelayAnswered, Rset, RsetDone, Data, Invalid, StartDone,
     ReadText, ReadNothing, ReadDot, DotDone, QuitDone, clients
<1>2. pc[s] # "gone"
  BY <1>0, Alive
<1>3. PICK verb \in Verbs : /\ Asked(s, verb)
                            /\ user[c] \in Dead => verb \in LeftBy(user[c])
  BY <1>2, AskedBy
<1>4. ASSUME Early(c)' PROVE typed[c] = 0
  <2>1. CASE Early(c)
    BY <2>1 DEF Counts
  <2>2. CASE user[c] = "cut" /\ (pc'[s] = "rcpt" \/ (Bodied(s)' /\ reply'[s] # Nothing)) /\ ~Early(c)
    <3>1. verb \in {"DATA", "body"}
      BY <1>3, <2>2 DEF LeftBy, Dead
    <3>2. Bodied(s) /\ reply[s] = Nothing
      BY <1>3, <2>2, <3>1 DEF Asked, Reading, Answered, Taking, Early, Bodied
    <3>3. pc'[s] # "rcpt" /\ reply'[s] = reply[s]
      <4>1. CASE work[s] # <<>> /\ (RelayAsk(s) \/ RelayAnswered(s))
        <5>1. UNCHANGED pc
          BY <4>1 DEF RelayAsk, RelayAnswered
        <5>2. Head(work[s]).relay # s
          <6>1. WorkOK(s) /\ recvr[s] \in Seq(Relay(s))
            BY <1>0, <3>2 DEF SessionOK, Bodied, Busy
          <6> PICK S : S = [relay : Recvr(s), verb : Exchanges(s), asked : BOOLEAN]
            OBVIOUS
          <6>2. PICK w \in Seq(S) : w = work[s]
            BY <6>1 DEF WorkOK
          <6>3. Head(w) \in S
            BY <4>1, <6>2, FirstRest
          <6>4. Head(work[s]).relay \in Recvr(s)
            BY <6>2, <6>3
          <6>5. pc[s] \in Busy
            BY <3>2 DEF Bodied, Busy
          <6> QED
            BY <1>0, <6>4, <6>5, RecvrRelays, Main
        <5> QED
          BY <1>0, <3>2, <4>1, <5>1, <5>2 DEF RelayAsk, RelayAnswered, Bodied
      <4>2. CASE StartDone(s) \/ ReadText(s) \/ ReadNothing(s) \/ ReadDot(s) \/ Eof(s)
        BY <1>0, <3>2, <4>2 DEF StartDone, ReadText, ReadNothing, ReadDot, Eof, Bodied, sessions
      <4> QED
        BY <3>2, <4>1, <4>2, BodiedActs
    <3> QED
      BY <2>2, <3>2, <3>3
  <2> QED
    BY <1>1, <1>4, <2>1, <2>2 DEF Early
<1>5. ASSUME user[c] = "left", Bodied(s)' PROVE Bodied(s)
  <2> SUFFICES ASSUME ~Bodied(s) PROVE FALSE
    OBVIOUS
  <2>1. Data(s)
    <3>1. pc'[s] \in {"start", "data"}
      BY <1>5 DEF Bodied
    <3> QED
      BY <1>0, <3>1, BodiedBegins
  <2>2. inbox[s] # <<>> /\ Head(inbox[s]).verb = "DATA" /\ pc[s] = "rcpt"
    BY <2>1 DEF Data, Is
  <2>3. verb = "DATA"
    BY <1>3, <2>2 DEF Asked, Idle, Reading, Answered, Taking, Says, Conn
  <2> QED
    BY <1>3, <1>5, <2>3 DEF LeftBy, Dead
<1> QED
  BY <1>1, <1>4, <1>5 DEF Counts

\* Its client is in the dialog that a DATA begins.
LEMMA DataTyped ==
  ASSUME TypesInv, NEW c \in Client, NEW s, s = Of(c), Counts(c), Asked(s, "DATA"), pc[s] # "gone",
         \A verb : Asked(s, verb) => verb = "DATA"
  PROVE  typed[c] = 0 /\ Uttered(c) = 0 /\ user[c] \in {"DATA", "cut"}
<1>1. PICK verb \in Verbs : /\ Asked(s, verb)
                            /\ user[c] \in Dead => verb \in LeftBy(user[c])
                            /\ user[c] \notin Dead => verb = Asking(c)
  BY AskedBy
<1>2. verb = "DATA"
  BY <1>1
<1>3. ClientTalk(c)
  BY Main
<1>4. user[c] \in {"DATA", "cut"}
  BY <1>1, <1>2, <1>3 DEF ClientTalk, Asking, Dead, LeftBy
<1>5. pc[s] = "rcpt" \/ (Bodied(s) /\ reply[s] # Nothing)
  BY DEF Asked, Reading, Answered, Bodied, Nothing
<1>6. typed[c] = 0
  BY <1>4, <1>5 DEF Counts, Early
<1> QED
  BY <1>4, <1>6 DEF Uttered

LEMMA DataOnly ==
  ASSUME NEW s, Asked(s, "DATA")
  PROVE  \A verb : Asked(s, verb) => verb = "DATA"
BY DEF Asked, Idle, Reading, Answered, Taking, Says, Conn, Nothing

LEMMA MainData ==
  ASSUME TypesInv, RowsApart, [Next]_vars, NEW c \in Client, NEW s, s = Of(c), Data(s),
         Counts(c), Unwritten(s)
  PROVE  Flow(c)'
<1>0. s \in Session /\ s[1] = c /\ DOMAIN pc = Session /\ MaxLines \in Nat
  BY Main DEF DialogTypes
<1>1. inbox[s] # <<>> /\ Head(inbox[s]).verb = "DATA" /\ pc[s] = "rcpt" /\ UNCHANGED clients
  BY DEF Data, Is
<1>2. Asked(s, "DATA") /\ \A verb : Asked(s, verb) => verb = "DATA"
  <2>1. \A verb : Asked(s, verb) => verb = "DATA"
    BY <1>1 DEF Asked, Idle, Reading, Answered, Taking, Says, Conn
  <2>2. \E verb \in Verbs : Asked(s, verb)
    BY <1>1, AskedBy
  <2> QED
    BY <2>1, <2>2
<1>3. Uttered(c) = 0
  BY <1>1, <1>2, DataTyped
<1>4. Uttered(c)' = 0
  BY <1>1, <1>3 DEF Uttered, clients
<1>5. Reached(s, 0, 0, 0)'
  BY <1>0, ReachedFirst
<1>6. Recvr(s)' = Recvr(s) /\ pc' = [pc EXCEPT ![s] = "start"]
  BY DEF Data, Recvr
<1>7. ASSUME NEW r \in Recvr(s) PROVE Fed(r, 0)'
  <2>1. r \in Relay(s)
    BY <1>1, Main, RecvrRelays DEF Busy
  <2>2. ~Bodied(r) /\ r \in Session /\ r # s
    BY <1>1, <2>1, RelaysQuiet, Main
  <2>3. ~Bodied(r)'
    BY <1>0, <1>6, <2>2 DEF Bodied
  <2> QED
    BY <2>3 DEF Fed
<1>8. Passing(c, 0, 0)'
  BY <1>4, <1>5, <1>6, <1>7 DEF Passing
<1>9. pc'[s] = "start"
  BY <1>0, <1>6
<1> QED
  BY <1>4, <1>8, <1>9 DEF Flow

LEMMA MainStart ==
  ASSUME TypesInv, RowsApart, [Next]_vars, NEW c \in Client, NEW s, s = Of(c), StartDone(s), Flow(c)
  PROVE  Flow(c)'
<1>0. s \in Session /\ s[1] = c /\ s[2] = 0 /\ DOMAIN pc = Session /\ MaxLines \in Nat
  BY Main DEF DialogTypes
<1>1. /\ pc[s] = "start" /\ pc' = [pc EXCEPT ![s] = "data"]
      /\ UNCHANGED <<clients, inbox, recvr, recvr_id>> /\ SessionStep(s)
      /\ ~ReadText(s) /\ ~ReadNothing(s)
  BY DEF StartDone, SessionStep, ReadText, ReadNothing
<1>2. Bodied(s) /\ pc'[s] = "data"
  BY <1>0, <1>1 DEF Bodied
<1>3. PICK k \in 0 .. Uttered(c), b \in Nat : Passing(c, k, b)
  BY <1>2 DEF Flow
<1>4. Uttered(c)' = Uttered(c) /\ Recvr(s)' = Recvr(s)
  BY <1>1 DEF Uttered, Recvr, clients
<1>5. Reached(s, k, Uttered(c), b)'
  <2>1. Steady(s)
    BY <1>0, <1>1, SteadyOwn
  <2>2. Hung(s)' <=> Hung(s)
    BY <1>0, <1>1 DEF Hung, clients
  <2>3. PICK m, d : m = Uttered(c) /\ d = Uttered(c)'
    OBVIOUS
  <2>4. Reached(s, k, m, b) /\ (b > 0 => Hung(s)')
    BY <1>3, <2>2, <2>3 DEF Passing, Reached
  <2>5. Reached(s, k, d, b)'
    BY <1>1, <1>4, <2>1, <2>3, <2>4, ReachedSame
  <2> QED
    BY <2>3, <2>5
<1>6. ASSUME NEW r \in Recvr(s) PROVE Fed(r, k)'
  <2>1. r \in Relay(s)
    BY <1>1, Main, RecvrRelays DEF Busy
  <2>2. r \in Session /\ r # s /\ ~Hung(r)
    BY <1>1, <2>1, Main
  <2>3. Steady(r) /\ inbox'[r] = inbox[r] /\ (Bodied(r)' => Bodied(r))
    BY <1>0, <1>1, <2>2, SteadyOther DEF Bodied
  <2>4. Fed(r, k)
    BY <1>3 DEF Passing
  <2> QED
    BY <2>2, <2>3, <2>4, FedSame
<1>7. Passing(c, k, b)'
  BY <1>2, <1>4, <1>5, <1>6 DEF Passing
<1> QED
  BY <1>2, <1>4, <1>7 DEF Flow

\* A relay is written the next pieces.
LEMMA FedMore ==
  ASSUME TypesInv, NEW r \in Session, Steady(r), Bodied(r), ~Hung(r),
         NEW k \in Nat, NEW d \in Nat, k < d, d <= MaxLines + 1, ~Glued => d = k + 1,
         Fed(r, k), inbox'[r] = Append(inbox[r], Text(Part(r[1], k, d)))
  PROVE  Fed(r, d)'
<1> SUFFICES \E j \in 0 .. d, b \in Nat : Reached(r, j, d, b)'
  BY DEF Fed
<1>1. PICK j \in 0 .. k, b \in Nat : Reached(r, j, k, b)
  BY DEF Fed
<1>2. b = 0 /\ j \in Nat /\ j \in 0 .. d
  BY <1>1 DEF Reached
<1>3. PICK text : text = Text(Part(r[1], k, d))
  OBVIOUS
<1>4. PICK S : S = Lines \cup {text}
  OBVIOUS
<1>5. inbox[r] \in Seq(S)
  <2>1. inbox[r] \in Seq(Lines)
    BY BodiedInbox DEF TypesInv
  <2>2. Lines \subseteq S
    BY <1>4
  <2> QED
    BY <2>1, <2>2, SeqMonotonic
<1>6. r[1] \in Client /\ Spelt(inbox[r], r[1], j, k)
  BY <1>1, Parties DEF Reached
<1>7. Spelt(Append(inbox[r], text), r[1], j, d)
  <2>1. text \in S
    BY <1>4
  <2> PICK w \in Seq(S) : w = inbox[r]
    BY <1>5
  <2> QED
    BY <1>2, <1>3, <1>6, <2>1, SpeltMore
<1>8. Holds(r, j, 0)'
  BY <1>1, <1>2, HoldsSame DEF Reached
<1>9. Reached(r, j, d, 0)'
  BY <1>1, <1>2, <1>3, <1>7, <1>8, ReachedNow DEF Reached
<1> QED
  BY <1>2, <1>9

LEMMA MainReads ==
  ASSUME TypesInv, RowsApart, [Next]_vars, NEW c \in Client, NEW s, s = Of(c), ReadText(s), Flow(c)
  PROVE  Flow(c)'
<1>0. s \in Session /\ s[1] = c /\ s[2] = 0 /\ DOMAIN pc = Session /\ MaxLines \in Nat /\ c \in Client
  BY Main DEF DialogTypes
<1>1. /\ pc[s] = "data" /\ UNCHANGED <<clients, pc, recvr, recvr_id>> /\ SessionStep(s)
  BY DEF ReadText, SessionStep
<1>2. Bodied(s) /\ pc'[s] = "data" /\ Recvr(s)' = Recvr(s) /\ Uttered(c)' = Uttered(c)
  BY <1>0, <1>1 DEF Bodied, Recvr, Uttered, clients
<1>3. PICK k \in 0 .. Uttered(c), b \in Nat : Passing(c, k, b)
  BY <1>2 DEF Flow
<1>4. Uttered(c) \in 0 .. MaxLines + 1
  BY Uttering, Main
<1>5. PICK m \in Nat : m = Uttered(c) /\ m <= MaxLines + 1
  BY <1>0, <1>4
<1>6. Spelt(inbox[s], c, k, m) /\ Holds(s, k, b) /\ (b > 0 => k = m) /\ k \in Nat
  BY <1>0, <1>3, <1>5 DEF Passing, Reached
<1>7. inbox[s] \in Seq(Lines)
  BY <1>0, <1>2, BodiedInbox, Main
<1>8. inbox[s] # <<>>
  <2>1. PICK n \in Readable(s) : TRUE
    BY DEF ReadText
  <2>2. 1 .. Len(<<>>) = {}
    BY One
  <2> QED
    BY <2>1, <2>2 DEF Readable
<1>9. b = 0
  BY <1>6, <1>7, <1>8, SpeltSome
<1>10. PICK j \in k + 1 .. m :
         /\ Spelt(inbox'[s], c, j, m) /\ Holds(s, j, 0)'
         /\ ~Glued => j = k + 1 /\ j <= MaxLines
         /\ \A r \in Session \ {s} :
              inbox'[r] = IF r \in Recvr(s) THEN Append(inbox[r], Text(Part(c, k, j))) ELSE inbox[r]
  BY <1>0, <1>5, <1>6, <1>7, <1>9, TextRead
<1>11. j \in Nat /\ k < j /\ j <= MaxLines + 1 /\ j \in 0 .. m
  BY <1>0, <1>5, <1>6, <1>10
<1>12. Reached(s, j, m, 0)'
  BY <1>0, <1>10, ReachedNow
<1>13. ASSUME NEW r \in Recvr(s) PROVE Fed(r, j)'
  <2>1. r \in Relay(s)
    BY <1>1, Main, RecvrRelays DEF Busy
  <2>2. r \in Session /\ r # s /\ ~Hung(r) /\ r[1] = c /\ Bodied(r)
    BY <1>1, <2>1, Main, RelaysTake
  <2>3. Steady(r)
    BY <1>0, <1>1, <2>2, SteadyOther
  <2>4. Fed(r, k)
    BY <1>3 DEF Passing
  <2>5. inbox'[r] = Append(inbox[r], Text(Part(r[1], k, j)))
    BY <1>10, <2>2
  <2> QED
    BY <1>6, <1>10, <1>11, <2>2, <2>3, <2>4, <2>5, FedMore
<1>14. Reached(s, j, Uttered(c), 0)'
  BY <1>2, <1>5, <1>12
<1>15. Passing(c, j, 0)'
  BY <1>2, <1>13, <1>14 DEF Passing
<1> QED
  BY <1>2, <1>5, <1>11, <1>15 DEF Flow

LEMMA MainWaits ==
  ASSUME TypesInv, RowsApart, [Next]_vars, NEW c \in Client, NEW s, s = Of(c), ReadNothing(s), Flow(c)
  PROVE  Flow(c)'
<1>0. s \in Session /\ s[1] = c /\ s[2] = 0 /\ MaxLines \in Nat /\ c \in Client
  BY Main
<1>1. /\ pc[s] = "data" /\ inbox[s] = <<>> /\ Hung(s) /\ UNCHANGED clients /\ SessionStep(s)
      /\ UNCHANGED <<pc, inbox, recvr, recvr_id>>
  BY DEF ReadNothing, SessionStep, sessions
<1>2. Bodied(s) /\ pc'[s] = "data" /\ Recvr(s)' = Recvr(s) /\ Uttered(c)' = Uttered(c) /\ Hung(s)'
  BY <1>0, <1>1 DEF Bodied, Recvr, Uttered, clients, Hung
<1>3. PICK k \in 0 .. Uttered(c), b \in Nat : Passing(c, k, b)
  BY <1>2 DEF Flow
<1>4. Uttered(c) \in 0 .. MaxLines + 1
  BY Uttering, Main
<1>5. PICK m \in Nat : m = Uttered(c) /\ m <= MaxLines + 1
  BY <1>0, <1>4
<1>6. Spelt(<<>>, c, k, m) /\ Holds(s, k, b) /\ k \in Nat /\ k \in 0 .. MaxLines + 1
      /\ (~Glued => k <= MaxLines)
  BY <1>0, <1>1, <1>3, <1>5 DEF Passing, Reached
<1>7. k = m
  BY <1>6, SpeltNone
<1>8. PICK d \in Nat : d = b + 1
  OBVIOUS
<1>9. Holds(s, k, d)'
  BY <1>0, <1>6, <1>8, NothingHeld
<1>10. Reached(s, k, m, d)'
  BY <1>0, <1>1, <1>2, <1>6, <1>7, <1>9, ReachedNow
<1>11. ASSUME NEW r \in Recvr(s) PROVE Fed(r, k)'
  <2>1. r \in Relay(s)
    BY <1>1, Main, RecvrRelays DEF Busy
  <2>2. r \in Session /\ r # s /\ ~Hung(r)
    BY <1>1, <2>1, Main
  <2>3. Steady(r) /\ inbox'[r] = inbox[r] /\ (Bodied(r)' => Bodied(r))
    BY <1>0, <1>1, <2>2, SteadyOther DEF Bodied
  <2>4. Fed(r, k)
    BY <1>3 DEF Passing
  <2> QED
    BY <2>2, <2>3, <2>4, FedSame
<1>12. Reached(s, k, Uttered(c), d)'
  BY <1>2, <1>5, <1>10
<1>13. Passing(c, k, d)'
  BY <1>2, <1>11, <1>12 DEF Passing
<1> QED
  BY <1>2, <1>13 DEF Flow

LEMMA MainDotRead ==
  ASSUME TypesInv, RowsApart, [Next]_vars, NEW c \in Client, NEW s, s = Of(c), ReadDot(s), Flow(c)
  PROVE  Flow(c)'
<1>0. s \in Session /\ s[1] = c /\ s[2] = 0 /\ DOMAIN pc = Session /\ DOMAIN inbox = Session
      /\ DOMAIN work = Session /\ MaxLines \in Nat /\ c \in Client
  BY Main DEF DialogTypes
<1>1. /\ pc[s] = "data" /\ pc' = [pc EXCEPT ![s] = "dot"] /\ UNCHANGED clients /\ SessionStep(s)
      /\ \E n \in Readable(s) : inbox' = [inbox EXCEPT ![s] = Rest(s, n)]
      /\ work' = [work EXCEPT ![s] = ToRelays(s, ".")]
      /\ UNCHANGED <<recvr, recvr_id>>
  BY DEF ReadDot, SessionStep
<1>2. Bodied(s) /\ pc'[s] = "dot" /\ Recvr(s)' = Recvr(s) /\ work'[s] = ToRelays(s, ".")
  BY <1>0, <1>1 DEF Bodied, Recvr
<1>3. PICK k \in 0 .. Uttered(c), b \in Nat : Passing(c, k, b)
  BY <1>2 DEF Flow
<1>4. Uttered(c) \in 0 .. MaxLines + 1 /\ Uttered(c) \in {typed[c], typed[c] + 1} /\ typed[c] \in 0 .. MaxLines
  BY Uttering, Main
<1>5. Reached(s, k, Uttered(c), b)
  BY <1>3 DEF Passing
<1>6. k = MaxLines /\ Uttered(c) = MaxLines + 1 /\ Holds(s, MaxLines, 0)'
  BY <1>0, <1>4, <1>5, DotRead
<1>7. typed'[c] = MaxLines
  <2>1. typed[c] = MaxLines
    BY <1>0, <1>4, <1>6
  <2> QED
    BY <1>1, <2>1 DEF clients
<1>8. ASSUME NEW r \in Recvr(s) PROVE Finishing(s, r)'
  <2>1. r \in Relay(s)
    BY <1>1, Main, RecvrRelays DEF Busy
  <2>2. r \in Session /\ r # s /\ ~Hung(r) /\ Bodied(r)
    BY <1>1, <2>1, Main, RelaysTake
  <2>3. Steady(r) /\ inbox'[r] = inbox[r] /\ Bodied(r)'
    BY <1>0, <1>1, <2>2, SteadyOther DEF Bodied
  <2>4. Fed(r, MaxLines)
    BY <1>3, <1>6 DEF Passing
  <2>5. Fed(r, MaxLines)'
    BY <2>2, <2>3, <2>4, FedSame
  <2>6. ~DotTold(s, r)'
    <3>1. ~\E n \in 1 .. Len(work'[s]) : work'[s][n].asked
      <4>1. recvr[s] \in Seq(Relay(s)) /\ pc[s] \in Busy
        BY <1>1, Main DEF SessionOK, Busy
      <4>2. Len(recvr[s]) \in Nat
        BY <4>1, LenProperties
      <4>3. work'[s] = [n \in 1 .. Len(recvr[s]) |-> Exchange(recvr[s][n], ".")]
        BY <1>2 DEF ToRelays
      <4>4. Len(work'[s]) = Len(recvr[s])
        BY <4>2, <4>3
      <4> QED
        BY <4>3, <4>4 DEF Exchange
    <3> QED
      BY <3>1 DEF DotTold
  <2>7. MaxLines + (IF DotTold(s, r)' THEN 1 ELSE 0) = MaxLines
    BY <1>0, <2>6
  <2> QED
    BY <2>3, <2>5, <2>7 DEF Finishing
<1> QED
  BY <1>2, <1>6, <1>7, <1>8 DEF Flow, Bodied

\* The exchanges with its relays.
LEMMA MainAsks ==
  ASSUME TypesInv, RowsApart, [Next]_vars, NEW c \in Client, NEW s, s = Of(c), RelayAsk(s), Flow(c)
  PROVE  Flow(c)'
<1>0. /\ s \in Session /\ s[1] = c /\ s[2] = 0 /\ MaxLines \in Nat /\ SessionOK(s) /\ Dialogs
      /\ DOMAIN pc = Session /\ DOMAIN inbox = Session /\ DOMAIN work = Session
  BY Main DEF DialogTypes
<1>1. work[s] # <<>> /\ ~Head(work[s]).asked /\ WorkOK(s)
  BY <1>0 DEF RelayAsk, SessionOK
<1>2. PICK r : r = Head(work[s]).relay
  OBVIOUS
<1>3. PICK verb : verb = Head(work[s]).verb
  OBVIOUS
<1>4. PICK written : /\ written = IF verb = "." THEN Text(<<Dot>>) ELSE Command(verb, Nobody)
                     /\ inbox' = [inbox EXCEPT ![r] = Append(@, written)]
  BY <1>2, <1>3 DEF RelayAsk
<1>5. work' = [work EXCEPT ![s] = <<[Head(work[s]) EXCEPT !.asked = TRUE]>> \o Tail(@)]
  BY DEF RelayAsk
<1>6. UNCHANGED <<clients, srv, pc, reply, sender, recvr, recvr_id, ask>> /\ SessionStep(s)
  BY DEF RelayAsk, SessionStep
<1>7. work'[s] = <<[Head(work[s]) EXCEPT !.asked = TRUE]>> \o Tail(work[s])
  BY <1>0, <1>5
<1>8. r \in Recvr(s) /\ verb \in Exchanges(s) /\ InMail(s, r) \subseteq {Before(verb)}
  BY <1>1, <1>2, <1>3, <1>6, <1>7, WorkAsked
<1>9. /\ r \in Relay(s) /\ r \in Session /\ r # s /\ pc[s] \in {"start", "dot", "quit", "rset"}
      /\ AskedOne(r, InMail(s, r))
  BY <1>0, <1>1, <1>2, <1>3, <1>8, Round
<1>10. Asked(r, Before(verb))
  BY <1>8, <1>9 DEF AskedOne
<1>11. ~ReadText(s) /\ ~ReadNothing(s)
  BY <1>9 DEF ReadText, ReadNothing
<1>12. \A q \in Session : Steady(q)
  BY <1>0, <1>6, <1>11, SteadyOther, SteadyOwn
<1>13. \A q \in Session \ {r} : inbox'[q] = inbox[q]
  BY <1>0, <1>4, <1>9
<1>14. \A q : (Bodied(q)' <=> Bodied(q)) /\ (Hung(q)' <=> Hung(q))
  BY <1>6 DEF Bodied, Hung, clients
<1>15. ASSUME NEW q \in Relay(s), q # r, NEW m, Fed(q, m) PROVE Fed(q, m)'
  <2>1. q \in Session
    BY Main
  <2> QED
    BY <1>12, <1>13, <1>14, <1>15, <2>1, FedSame
<1>16. CASE pc[s] = "start"
  <2>1. verb = "DATA"
    BY <1>8, <1>16 DEF Exchanges
  <2>2. ~Bodied(r)
    BY <1>10, <2>1 DEF Before, Asked, Idle, Bodied
  <2>3. ASSUME NEW q \in Relay(s), NEW m, Fed(q, m) PROVE Fed(q, m)'
    <3>1. CASE q = r
      BY <1>14, <2>2, <3>1 DEF Fed
    <3> QED
      BY <1>15, <2>3, <3>1
  <2>4. /\ user'[c] = user[c] /\ typed'[c] = typed[c] /\ pc'[s] = pc[s] /\ recvr'[s] = recvr[s]
        /\ Uttered(c)' = Uttered(c)
    BY <1>6 DEF clients, Uttered
  <2> QED
    BY <1>0, <1>9, <1>12, <1>13, <1>14, <1>16, <2>3, <2>4, FlowOver
<1>17. CASE pc[s] = "dot"
  <2>1. verb = "." /\ written = Text(<<Dot>>)
    BY <1>4, <1>8, <1>17 DEF Exchanges
  <2>2. Bodied(r) /\ reply[r] = Nothing
    BY <1>10, <2>1 DEF Before, Asked, Taking, Bodied
  <2>3. PICK w : w = work'[s]
    OBVIOUS
  <2>4. /\ \A n \in 1 .. Len(work[s]) : ~work[s][n].asked
        /\ Len(w) = Len(work[s]) /\ 1 \in 1 .. Len(w) /\ w[1].relay = r /\ w[1].asked
        /\ \A n \in 1 .. Len(w) : n # 1 => w[n] = work[s][n]
    <3> PICK S : S = [relay : Recvr(s), verb : Exchanges(s), asked : BOOLEAN]
      OBVIOUS
    <3>1. PICK v \in Seq(S) : v = work[s]
      BY <1>1 DEF WorkOK
    <3>2. /\ Len(v) \in Nat /\ 1 \in 1 .. Len(v) /\ Head(v) = v[1] /\ Head(v) \in S
          /\ Tail(v) \in Seq(S) /\ Len(Tail(v)) = Len(v) - 1
          /\ \A n \in 1 .. Len(Tail(v)) : Tail(v)[n] = v[n + 1]
      <4>1. v # <<>>
        BY <1>1, <3>1
      <4> QED
        BY <4>1, FirstRest
    <3>3. \A n \in 1 .. Len(v) : v[n].asked => n = 1
      BY <1>1, <3>1 DEF WorkOK
    <3>4. PICK x : x = [Head(v) EXCEPT !.asked = TRUE]
      OBVIOUS
    <3>5. x \in S /\ x.relay = r /\ x.asked
      BY <1>2, <3>1, <3>2, <3>4
    <3>6. PICK h \in Seq(S) : h = <<x>> /\ Len(h) = 1 /\ h[1] = x
      <4>1. <<x>> \in Seq(S) /\ Len(<<x>>) = 1 /\ <<x>>[1] = x
        BY <3>5
      <4> QED
        BY <4>1
    <3>7. w = h \o Tail(v)
      BY <1>7, <2>3, <3>1, <3>4, <3>6
    <3>8. /\ Len(h \o Tail(v)) = Len(h) + Len(Tail(v))
          /\ \A n \in 1 .. Len(h) + Len(Tail(v)) :
               (h \o Tail(v))[n] = IF n <= Len(h) THEN h[n] ELSE Tail(v)[n - Len(h)]
      BY <3>2, <3>6, ConcatProperties
    <3>9. Len(w) = Len(v) /\ w[1] = x
      <4>1. 1 \in 1 .. Len(h) + Len(Tail(v)) /\ 1 <= Len(h) /\ Len(h) + Len(Tail(v)) = Len(v)
        BY <3>2, <3>6
      <4> QED
        BY <3>6, <3>7, <3>8, <4>1
    <3>10. ASSUME NEW n \in 1 .. Len(w), n # 1 PROVE w[n] = v[n]
      <4>1. n - 1 \in 1 .. Len(Tail(v)) /\ (n - 1) + 1 = n /\ ~(n <= Len(h)) /\ n - Len(h) = n - 1
            /\ n \in 1 .. Len(h) + Len(Tail(v))
        BY <3>2, <3>6, <3>9, <3>10
      <4>2. w[n] = Tail(v)[n - 1]
        BY <3>7, <3>8, <4>1
      <4> QED
        BY <3>2, <4>1, <4>2
    <3>11. ~v[1].asked
      BY <1>1, <3>1, <3>2
    <3>12. \A n \in 1 .. Len(v) : ~v[n].asked
      BY <3>3, <3>11
    <3> QED
      BY <3>1, <3>2, <3>5, <3>9, <3>10, <3>12
  <2>5. \A q : ~DotTold(s, q)
    BY <2>4 DEF DotTold
  <2>6. DotTold(s, r)'
    BY <2>3, <2>4 DEF DotTold
  <2>7. \A q : q # r => ~DotTold(s, q)'
    BY <2>3, <2>4 DEF DotTold
  <2>8. ASSUME NEW q \in Recvr(s), Finishing(s, q) PROVE Finishing(s, q)'
    <3>0. q \in Relay(s) /\ q \in Session
      BY <1>0, <1>17, RecvrRelays, Main DEF Busy
    <3>1. CASE q = r
      <4>1. MaxLines + (IF DotTold(s, r) THEN 1 ELSE 0) = MaxLines
        BY <1>0, <2>5
      <4>2. Fed(r, MaxLines)
        BY <2>2, <2>8, <3>1, <4>1 DEF Finishing
      <4>3. PICK d \in Nat : d = MaxLines + 1
        BY <1>0
      <4>4. MaxLines < d /\ d <= MaxLines + 1 /\ (~Glued => d = MaxLines + 1)
        BY <1>0, <4>3
      <4>5. <<Dot>> = Part(r[1], MaxLines, d) /\ ~Hung(r)
        <5>1. r[1] \in Client /\ ~Hung(r)
          BY <1>9, <1>17, Main
        <5> QED
          BY <1>0, <4>3, <4>4, <5>1, PartDot
      <4>6. inbox'[r] = Append(inbox[r], Text(Part(r[1], MaxLines, d)))
        <5>1. inbox'[r] = Append(inbox[r], written)
          BY <1>0, <1>4, <1>9
        <5> QED
          BY <2>1, <4>5, <5>1
      <4>7. Fed(r, d)'
        BY <1>0, <1>9, <1>12, <2>2, <4>2, <4>4, <4>5, <4>6, FedMore
      <4>8. MaxLines + (IF DotTold(s, r)' THEN 1 ELSE 0) = d
        BY <2>6, <4>3
      <4> QED
        BY <1>14, <2>2, <3>1, <4>7, <4>8 DEF Finishing
    <3>2. CASE q # r /\ Bodied(q)
      <4>1. Fed(q, MaxLines)
        <5>1. MaxLines + (IF DotTold(s, q) THEN 1 ELSE 0) = MaxLines
          BY <1>0, <2>5
        <5> QED
          BY <2>8, <3>2, <5>1 DEF Finishing
      <4>2. Fed(q, MaxLines)'
        BY <1>15, <3>0, <3>2, <4>1
      <4>3. MaxLines + (IF DotTold(s, q)' THEN 1 ELSE 0) = MaxLines
        BY <1>0, <2>7, <3>2
      <4> QED
        BY <1>14, <3>2, <4>2, <4>3 DEF Finishing
    <3>3. CASE ~Bodied(q)
      <4>1. Holds(q, MaxLines, 0)'
        BY <1>12, <2>8, <3>0, <3>3, HoldsSame DEF Finishing
      <4> QED
        BY <1>14, <3>3, <4>1 DEF Finishing
    <3> QED
      BY <3>1, <3>2, <3>3
  <2>9. /\ user'[c] = user[c] /\ typed'[c] = typed[c] /\ pc'[s] = pc[s] /\ recvr'[s] = recvr[s]
        /\ Uttered(c)' = Uttered(c)
    BY <1>6 DEF clients, Uttered
  <2> QED
    BY <1>0, <1>9, <1>12, <1>13, <1>14, <1>17, <2>8, <2>9, FlowOver
<1>18. CASE pc[s] \in {"quit", "rset"}
  BY <1>6, <1>18 DEF Flow, Bodied
<1> QED
  BY <1>9, <1>16, <1>17, <1>18

LEMMA MainAnswers ==
  ASSUME TypesInv, RowsApart, [Next]_vars, NEW c \in Client, NEW s, s = Of(c), RelayAnswered(s), Flow(c)
  PROVE  Flow(c)'
<1>0. /\ s \in Session /\ s[1] = c /\ s[2] = 0 /\ MaxLines \in Nat /\ SessionOK(s) /\ Dialogs
      /\ DOMAIN pc = Session /\ DOMAIN inbox = Session /\ DOMAIN work = Session
  BY Main DEF DialogTypes
<1>1. work[s] # <<>> /\ Head(work[s]).asked /\ WorkOK(s)
  BY <1>0 DEF RelayAnswered, SessionOK
<1>2. PICK r : r = Head(work[s]).relay /\ reply[r] # Nothing
  BY DEF RelayAnswered
<1>3. PICK verb : verb = Head(work[s]).verb
  OBVIOUS
<1>4. work'[s] = Tail(work[s])
  BY <1>0 DEF RelayAnswered
<1>5. /\ UNCHANGED <<clients, srv, pc, inbox, sender, recvr, recvr_id, ask>> /\ SessionStep(s)
  BY DEF RelayAnswered, SessionStep
<1>6. r \in Recvr(s) /\ verb \in Exchanges(s) /\ InMail(s, r) \subseteq {verb}
  BY <1>1, <1>2, <1>3, <1>4, <1>5, WorkDone
<1>7. /\ r \in Relay(s) /\ r \in Session /\ r # s /\ pc[s] \in {"start", "dot", "quit", "rset"}
      /\ AskedOne(r, InMail(s, r))
  BY <1>0, <1>1, <1>2, <1>3, <1>6, Round
<1>8. Asked(r, verb)
  BY <1>6, <1>7 DEF AskedOne
<1>9. ~ReadText(s) /\ ~ReadNothing(s)
  BY <1>7 DEF ReadText, ReadNothing
<1>10. \A q \in Session : Steady(q)
  BY <1>0, <1>5, <1>9, SteadyOther, SteadyOwn
<1>11. \A q : (Bodied(q)' <=> Bodied(q)) /\ (Hung(q)' <=> Hung(q)) /\ inbox'[q] = inbox[q]
  BY <1>5 DEF Bodied, Hung, clients
<1>12. ASSUME NEW q \in Relay(s), NEW m, Fed(q, m) PROVE Fed(q, m)'
  <2>1. q \in Session
    BY Main
  <2> QED
    BY <1>10, <1>11, <1>12, <2>1, FedSame
<1>13. ASSUME pc[s] = "dot", NEW q \in Recvr(s), Finishing(s, q) PROVE Finishing(s, q)'
  <2>0. q \in Relay(s) /\ q \in Session
    BY <1>0, <1>13, RecvrRelays, Main DEF Busy
  <2>1. ~Bodied(r)
    <3>1. verb = "."
      BY <1>6, <1>13 DEF Exchanges
    <3> QED
      BY <1>2, <1>8, <3>1 DEF Asked, Taking, Idle, Answered, Bodied
  <2>2. /\ \A n \in 1 .. Len(work[s]) : work[s][n].asked => work[s][n].relay = r
        /\ \A n \in 1 .. Len(work'[s]) : ~work'[s][n].asked
    <3> PICK S : S = [relay : Recvr(s), verb : Exchanges(s), asked : BOOLEAN]
      OBVIOUS
    <3>1. PICK v \in Seq(S) : v = work[s]
      BY <1>1 DEF WorkOK
    <3>2. v # <<>>
      BY <1>1, <3>1
    <3>3. /\ Len(v) \in Nat /\ 1 \in 1 .. Len(v) /\ Head(v) = v[1] /\ Len(Tail(v)) = Len(v) - 1
          /\ \A n \in 1 .. Len(Tail(v)) : Tail(v)[n] = v[n + 1]
      BY <3>2, FirstRest
    <3>4. \A n \in 1 .. Len(v) : v[n].asked => n = 1
      BY <1>1, <3>1 DEF WorkOK
    <3>5. \A n \in 1 .. Len(Tail(v)) : n + 1 \in 1 .. Len(v) /\ n + 1 # 1
      BY <3>3
    <3> QED
      BY <1>2, <1>4, <3>1, <3>3, <3>4, <3>5
  <2>3. ~DotTold(s, q)'
    BY <2>2 DEF DotTold
  <2>4. CASE Bodied(q)
    <3>1. q # r /\ ~DotTold(s, q)
      BY <2>1, <2>2, <2>4 DEF DotTold
    <3>2. MaxLines + (IF DotTold(s, q) THEN 1 ELSE 0) = MaxLines
      BY <1>0, <3>1
    <3>3. MaxLines + (IF DotTold(s, q)' THEN 1 ELSE 0) = MaxLines
      BY <1>0, <2>3
    <3>4. Fed(q, MaxLines)'
      BY <1>12, <1>13, <2>0, <2>4, <3>2 DEF Finishing
    <3> QED
      BY <1>11, <2>4, <3>3, <3>4 DEF Finishing
  <2>5. CASE ~Bodied(q)
    <3>1. Holds(q, MaxLines, 0)'
      BY <1>10, <1>13, <2>0, <2>5, HoldsSame DEF Finishing
    <3> QED
      BY <1>11, <2>5, <3>1 DEF Finishing
  <2> QED
    BY <2>4, <2>5
<1>14. /\ user'[c] = user[c] /\ typed'[c] = typed[c] /\ pc'[s] = pc[s] /\ recvr'[s] = recvr[s]
       /\ inbox'[s] = inbox[s] /\ Uttered(c)' = Uttered(c)
  BY <1>5 DEF clients, Uttered
<1> QED
  BY <1>0, <1>7, <1>10, <1>11, <1>12, <1>13, <1>14, FlowOver

\* The session ends: a relay that still waits for the lines of a body was never
\* written one.
LEMMA MainEnds ==
  ASSUME TypesInv, RowsApart, [Next]_vars, NEW c \in Client, NEW s, s = Of(c), Quit(s) \/ Eof(s),
         Flow(c), Counts(c)
  PROVE  Flow(c)'
<1>0. /\ s \in Session /\ s[1] = c /\ s[2] = 0 /\ MaxLines \in Nat /\ DOMAIN pc = Session
  BY Main DEF DialogTypes
<1>1. /\ pc' = [pc EXCEPT ![s] = "gone"] /\ SessionStep(s) /\ UNCHANGED <<clients, recvr_id>>
      /\ pc[s] \in {"hello", "from", "rcpt"} \/ (pc[s] = "data" /\ reply[s] # Nothing /\ Eof(s))
  BY DEF Quit, Eof, SessionStep
<1>2. pc'[s] = "gone"
  BY <1>0, <1>1
<1>3. ASSUME NEW r \in Relay(s), Bodied(r)'
      PROVE  user'[c] = "cut" /\ typed'[c] = 0 /\ Fed(r, 0)'
  <2>1. r \in Session /\ r # s /\ r[1] = c /\ r[2] # 0 /\ (Hung(r) <=> pc[s] = "gone")
    BY Main
  <2>2. Bodied(r)
    BY <1>0, <1>1, <1>3, <2>1 DEF Bodied
  <2>3. pc[s] = "data" /\ reply[s] # Nothing /\ Hung(s) /\ Eof(s)
    BY <1>1, <2>2, RelaysQuiet DEF Eof
  <2>4. r \in Recvr(s)
    BY <2>2, <2>3, RelaysTake
  <2>5. PICK verb \in Verbs : Asked(s, verb)
    BY <2>3, AskedBy
  <2>6. Asked(s, "DATA")
    BY <2>3, <2>5 DEF Asked, Idle, Reading, Answered, Taking, Conn
  <2>7. typed[c] = 0 /\ Uttered(c) = 0 /\ user[c] \in {"DATA", "cut"}
    BY <2>3, <2>6, DataOnly, DataTyped
  <2>8. user[c] = "cut"
    BY <1>0, <2>3, <2>7 DEF Hung
  <2>9. Fed(r, 0)
    <3>1. Bodied(s)
      BY <2>3 DEF Bodied
    <3>2. PICK k \in 0 .. Uttered(c), b \in Nat : Passing(c, k, b)
      BY <3>1 DEF Flow
    <3>3. k = 0
      BY <2>7, <3>2
    <3> QED
      BY <2>4, <3>2, <3>3 DEF Passing
  <2>10. Steady(r)
    BY <1>0, <1>1, <2>1, SteadyOther
  <2>11. inbox'[r] = inbox[r] /\ ~Hung(r)
    BY <2>1, <2>3 DEF Eof
  <2> QED
    BY <1>1, <2>2, <2>7, <2>8, <2>9, <2>10, <2>11, FedSame DEF clients
<1> QED
  BY <1>2, <1>3 DEF Flow, Bodied

LEMMA MainElse ==
  ASSUME NEW s \in Session, DOMAIN pc = Session, SessionStep(s), SessionOK(s)
  PROVE  \/ Data(s) \/ StartDone(s) \/ ReadText(s) \/ ReadNothing(s) \/ ReadDot(s)
         \/ RelayAsk(s) \/ RelayAnswered(s) \/ Quit(s) \/ Eof(s)
         \/ pc'[s] \notin {"start", "data", "dot", "gone"}
<1>1. ASSUME RcptThere(s) PROVE pc'[s] \notin {"start", "data", "dot", "gone"}
  <2>1. PICK r : pc' = [pc EXCEPT ![s] = "conn hello", ![r] = "hello"]
    BY <1>1 DEF RcptThere
  <2> QED
    BY <2>1
<1>2. ASSUME RelayHello(s) \/ RelayFrom(s) \/ RelayTo(s) \/ RelayRset(s)
      PROVE  pc'[s] \notin {"start", "data", "dot", "gone"}
  BY <1>2 DEF RelayHello, RelayFrom, RelayTo, RelayRset
<1>3. ASSUME Helo(s) \/ MailFrom(s) \/ RcptHere(s) \/ Rset(s) \/ RsetDone(s) \/ Invalid(s) \/ DotDone(s)
             \/ QuitDone(s)
      PROVE  pc'[s] \notin {"start", "data", "dot", "gone"}
  BY <1>3 DEF Helo, MailFrom, RcptHere, AskedFor, Rset, RsetDone, Invalid, DotDone, QuitDone
<1> QED
  BY <1>1, <1>2, <1>3 DEF SessionStep

LEMMA MainFlow ==
  ASSUME TypesInv, RowsApart, [Next]_vars, NEW c \in Client, NEW s, s = Of(c), SessionStep(s),
         Flow(c), Counts(c), Unwritten(s)
  PROVE  Flow(c)' /\ Counts(c)'
<1>1. Counts(c)'
  BY MainCounts
<1>2. pc'[s] \notin {"start", "data", "dot", "gone"} => Flow(c)'
  BY DEF Flow, Bodied
<1>3. s \in Session /\ SessionOK(s) /\ DOMAIN pc = Session
  BY Main DEF DialogTypes
<1> QED
  BY <1>1, <1>2, <1>3, MainElse, MainData, MainStart, MainReads, MainWaits, MainDotRead, MainAsks,
     MainAnswers, MainEnds

-----------------------------------------------------------------------------
(* A client acts.                                                            *)

Moves(c) == UserStep(c) \/ ClientStep(c)

LEMMA ClientBodied ==
  ASSUME TypesInv, NEW c \in Client, NEW s, s = Of(c), user[c] \notin Dead, pc[s] \in {"start", "data", "dot"}
  PROVE  /\ user[c] \in {"DATA", "body", "."}
         /\ user[c] = "DATA" => Bodied(s) /\ reply[s] # Nothing
         /\ user[c] = "body" => Bodied(s) /\ reply[s] = Nothing /\ inbox[s] \in Seq(Undotted)
         /\ user[c] = "." => reply[s] = Nothing
<1>1. ClientTalk(c) /\ Asked(s, Asking(c))
  BY AskedBy, Main
<1>2. Asking(c) \in {"DATA", "body", "."}
  BY <1>1 DEF Asked, Idle, Reading, Answered, Taking, Conn
<1>3. user[c] = Asking(c)
  BY <1>1, <1>2 DEF ClientTalk, Asking, Dead
<1>4. CASE user[c] = "DATA"
  BY <1>1, <1>3, <1>4 DEF Asked, Reading, Answered, Bodied, Nothing
<1>5. CASE user[c] = "body"
  BY <1>1, <1>3, <1>5 DEF Asked, Taking, Bodied
<1>6. CASE user[c] = "."
  BY <1>1, <1>3, <1>6 DEF Asked, Taking, Idle, Answered
<1> QED
  BY <1>2, <1>3, <1>4, <1>5, <1>6

LEMMA MovesFrom ==
  ASSUME NEW c, Moves(c)
  PROVE  /\ user[c] \notin Dead
         /\ UNCHANGED <<tables, recvr, recvr_id, work, sender, ask>>
         /\ UNCHANGED <<pc, srv>> \/ (user[c] = "out" /\ Connect(c))
         /\ Type(c) \/ UNCHANGED typed
         /\ user[c] \in {"DATA", "body", "."} =>
              DataStarted(c) \/ Type(c) \/ TypeDot(c) \/ Die(c) \/ (reply[Of(c)] = "250 OK" /\ Sent(c))
  BY DEF Moves, UserStep, ClientStep, Connect, Retype, AskTo, GiveUp, StartData, Type, TypeDot, Die, Hello,
     FromAnswered, Accepted, Refused, Reset, ResetDone, DataStarted, Sent, Bye, ByeIgnored, Dead, sessions,
     Reads

LEMMA MovesOthers ==
  ASSUME DialogTypes, NEW c \in Client, Moves(c), NEW q \in Session, q # Of(c)
  PROVE  Same(q)
<1>1. PICK s : s = Of(c)
  OBVIOUS
<1>2. /\ pc'[q] = pc[q] /\ inbox'[q] = inbox[q] /\ reply'[q] = reply[q] /\ srv'[q] = srv[q]
  BY <1>1 DEF Moves, UserStep, ClientStep, Connect, Retype, AskTo, GiveUp, StartData, Type, TypeDot, Die, Hello,
     FromAnswered, Accepted, Refused, Reset, ResetDone, DataStarted, Sent, Bye, ByeIgnored, sessions,
     Reads, Write, DialogTypes
<1> QED
  BY <1>2, MovesFrom DEF Same

LEMMA ClientCounts ==
  ASSUME TypesInv, NEW c \in Client, NEW s, s = Of(c), Moves(c), Counts(c)
  PROVE  Counts(c)'
<1>0. /\ s \in Session /\ MaxLines \in Nat /\ Dialogs /\ ClientTalk(c)
      /\ DOMAIN pc = Session /\ DOMAIN user = Client /\ DOMAIN reply = Session
      /\ typed \in [Client -> 0 .. MaxLines]
  BY Main DEF DialogTypes
<1>1. user[c] \notin Dead /\ (Type(c) \/ UNCHANGED typed) /\ (UNCHANGED pc \/ (user[c] = "out" /\ Connect(c)))
  BY MovesFrom
<1>2. CASE Type(c)
  <2>1. user'[c] = "body"
    BY <1>0, <1>2 DEF Type, Write
  <2> QED
    BY <2>1 DEF Counts, Early
<1>3. CASE TypeDot(c)
  <2>1. user'[c] = "." /\ typed'[c] = MaxLines
    BY <1>0, <1>3 DEF TypeDot, Write
  <2> QED
    BY <2>1 DEF Counts, Early
<1>4. CASE Die(c)
  <2>1. UNCHANGED <<typed, pc, reply>> /\ (Bodied(s)' <=> Bodied(s))
    BY <1>4 DEF Die, sessions, Bodied
  <2>2. user'[c] = CASE user[c] \in {"DATA", "body"} -> "cut" [] user[c] = "sent" -> "done" [] OTHER -> "left"
    BY <1>0, <1>4 DEF Die
  <2>3. CASE user[c] = "DATA"
    <3>1. user'[c] = "cut" /\ typed[c] = 0
      BY <2>2, <2>3 DEF Counts, Early
    <3> QED
      BY <2>1, <3>1 DEF Counts
  <2>4. CASE user[c] = "body"
    <3>1. user'[c] = "cut"
      BY <2>2, <2>4
    <3>2. Asked(s, "body")
      BY <1>0, <2>4 DEF ClientTalk, Dead, Asking, AskedOne
    <3>3. Bodied(s) /\ reply[s] = Nothing
      BY <3>2 DEF Asked, Taking, Bodied
    <3>4. ~Early(c)'
      BY <2>1, <3>1, <3>3 DEF Early, Bodied
    <3> QED
      BY <3>1, <3>4 DEF Counts
  <2>5. CASE user[c] = "sent"
    <3>1. user'[c] = "done"
      BY <2>2, <2>5
    <3> QED
      BY <3>1 DEF Counts, Early
  <2>6. CASE user[c] \notin {"DATA", "body", "sent"}
    <3>1. user'[c] = "left"
      BY <2>2, <2>6
    <3>2. Bodied(s) => user[c] = "."
      BY <1>1, <2>6, ClientBodied DEF Bodied
    <3>3. Bodied(s) => typed[c] = MaxLines
      BY <3>2 DEF Counts
    <3> QED
      BY <2>1, <3>1, <3>3 DEF Counts, Early
  <2> QED
    BY <2>3, <2>4, <2>5, <2>6
<1>5. CASE Retype(c) \/ AskTo(c) \/ StartData(c) \/ Hello(c) \/ FromAnswered(c) \/ Accepted(c) \/ Refused(c)
           \/ Connect(c)
  <2>1. user[c] \in {"out", "hello", "HELO", "from", "MAIL FROM", "to", "RCPT TO", "VRFY"} /\ UNCHANGED typed
    BY <1>5 DEF Retype, AskTo, StartData, Hello, FromAnswered, Accepted, Refused, Connect
  <2>2. typed'[c] = 0
    BY <2>1 DEF Counts, Early
  <2>3. user'[c] \notin {".", "left"}
    BY <1>0, <1>5 DEF Retype, AskTo, StartData, Hello, FromAnswered, Accepted, Refused, Connect, Write
  <2> QED
    BY <2>2, <2>3 DEF Counts
<1>6. CASE GiveUp(c) \/ Reset(c) \/ DataStarted(c) \/ Sent(c) \/ ByeIgnored(c)
  <2>1. user'[c] \in {"QUIT", "RSET", "RSET and exit", "body", "sent", "lingering"}
    BY <1>0, <1>6 DEF GiveUp, Reset, DataStarted, Sent, ByeIgnored, Write
  <2> QED
    BY <2>1 DEF Counts, Early
<1>7. CASE ResetDone(c) \/ Bye(c)
  <2>1. /\ user[c] \in {"RSET", "RSET and exit", "QUIT", "sent"} /\ user'[c] \in {"QUIT", "left", "done"}
        /\ UNCHANGED pc
    BY <1>0, <1>7 DEF ResetDone, Bye, Write
  <2>2. ~Bodied(s)
    BY <1>1, <2>1, ClientBodied DEF Bodied
  <2>3. ~Bodied(s)'
    BY <2>1, <2>2 DEF Bodied
  <2> QED
    BY <2>1, <2>3 DEF Counts, Early
<1> QED
  BY <1>2, <1>3, <1>4, <1>5, <1>6, <1>7 DEF Moves, UserStep, ClientStep

\* A client writes the next piece.
LEMMA ClientWrites ==
  ASSUME TypesInv, [Next]_vars, NEW c \in Client, NEW s, s = Of(c), Moves(c), Flow(c),
         user[c] = "body", UNCHANGED pc, NEW words,
         inbox'[s] = Append(inbox[s], Text(words)), Uttered(c)' = Uttered(c) + 1,
         words = Part(c, Uttered(c), Uttered(c) + 1), Uttered(c) < MaxLines + 1,
         pc[s] \in {"start", "data"}
  PROVE  Flow(c)'
<1>0. /\ s \in Session /\ s[1] = c /\ s[2] = 0 /\ MaxLines \in Nat /\ Dialogs /\ DialogTypes
  BY Main
<1>1. UNCHANGED <<recvr, recvr_id, work>>
  BY MovesFrom
<1>2. \A q \in Session : Steady(q)
  BY SteadyClient DEF Moves
<1>3. Bodied(s) /\ ~Hung(s) /\ Recvr(s)' = Recvr(s) /\ pc'[s] = pc[s]
  BY <1>0, <1>1 DEF Bodied, Hung, Recvr
<1>4. PICK k \in 0 .. Uttered(c), b \in Nat : Passing(c, k, b)
  BY <1>3 DEF Flow
<1>5. PICK m \in Nat : m = Uttered(c) /\ m < MaxLines + 1
  <2>1. Uttered(c) \in 0 .. MaxLines + 1
    BY <1>0, Uttering
  <2> QED
    BY <1>0, <2>1
<1>6. PICK d \in Nat : d = m + 1
  OBVIOUS
<1>7. Spelt(inbox[s], c, k, m) /\ Holds(s, k, b) /\ b = 0 /\ k \in Nat /\ (~Glued => k <= MaxLines)
  BY <1>0, <1>3, <1>4, <1>5 DEF Passing, Reached
<1>8. PICK text : text = Text(words) /\ text = Text(Part(c, m, d))
  BY <1>5, <1>6
<1>9. PICK S : S = Lines \cup {text}
  OBVIOUS
<1>10. PICK w \in Seq(S) : w = inbox[s]
  <2>1. inbox[s] \in Seq(Lines)
    BY <1>0, <1>3, BodiedInbox
  <2>2. Lines \subseteq S
    BY <1>9
  <2> QED
    BY <2>1, <2>2, SeqMonotonic
<1>11. Spelt(Append(w, text), c, k, d)
  <2>1. text \in S /\ m < d
    BY <1>6, <1>9
  <2> QED
    BY <1>6, <1>7, <1>8, <1>10, <2>1, SpeltMore
<1>12. Reached(s, k, d, 0)'
  <2>1. Holds(s, k, 0)'
    BY <1>0, <1>2, <1>7, HoldsSame
  <2>2. Spelt(inbox'[s], s[1], k, d)
    BY <1>0, <1>8, <1>10, <1>11
  <2>3. PICK z : z = 0 /\ ~(z > 0) /\ Holds(s, k, z)'
    BY <2>1
  <2> QED
    BY <1>7, <2>2, <2>3, ReachedNow
<1>13. ASSUME NEW r \in Recvr(s) PROVE Fed(r, k)'
  <2>1. r \in Relay(s)
    BY <1>0, <1>3, RecvrRelays DEF Bodied, Busy
  <2>2. r \in Session /\ r # s /\ ~Hung(r)
    BY <1>3, <2>1, Main DEF Bodied
  <2>3. Steady(r) /\ inbox'[r] = inbox[r] /\ (Bodied(r)' => Bodied(r))
    BY <1>0, <1>2, <2>2, MovesOthers DEF Same, Bodied
  <2>4. Fed(r, k)
    BY <1>4 DEF Passing
  <2> QED
    BY <2>2, <2>3, <2>4, FedSame
<1>14. Uttered(c)' = d /\ k \in 0 .. d
  BY <1>5, <1>6, <1>7
<1>15. Reached(s, k, Uttered(c), 0)'
  BY <1>12, <1>14
<1>16. pc'[s] = "start" => k = 0
  BY <1>3, <1>4 DEF Passing
<1>17. Passing(c, k, 0)'
  BY <1>3, <1>13, <1>15, <1>16 DEF Passing
<1>18. Bodied(s)' /\ pc'[s] \notin {"dot", "gone"}
  BY <1>3 DEF Bodied
<1> QED
  BY <1>14, <1>17, <1>18 DEF Flow

LEMMA ClientFlow ==
  ASSUME TypesInv, [Next]_vars, NEW c \in Client, NEW s, s = Of(c), Moves(c), Flow(c), Counts(c)
  PROVE  Flow(c)'
<1>0. /\ s \in Session /\ s[1] = c /\ s[2] = 0 /\ MaxLines \in Nat /\ Dialogs /\ DialogTypes
      /\ DOMAIN pc = Session /\ DOMAIN user = Client /\ DOMAIN inbox = Session
      /\ typed \in [Client -> 0 .. MaxLines] /\ ClientTalk(c)
  BY Main DEF DialogTypes
<1>1. user[c] \notin Dead /\ (Type(c) \/ UNCHANGED typed) /\ UNCHANGED <<recvr, recvr_id, work>>
  BY MovesFrom
<1>2. \A q \in Session : Steady(q)
  BY SteadyClient DEF Moves
<1>3. CASE user[c] = "out" /\ Connect(c)
  <2>1. pc'[s] = "hello"
    BY <1>0, <1>3 DEF Connect
  <2> QED
    BY <2>1 DEF Flow, Bodied
<1>4. CASE UNCHANGED pc /\ pc[s] = "gone"
  <2>1. \A r \in Relay(s) : ~Bodied(r)
    BY <1>1, <1>4 DEF Flow, Dead
  <2>2. \A r \in Relay(s) : ~Bodied(r)'
    BY <1>4, <2>1 DEF Bodied
  <2> QED
    BY <1>4, <2>2 DEF Flow, Bodied
<1>5. CASE UNCHANGED pc /\ pc[s] \in {"start", "data", "dot"}
  <2>1. user[c] \in {"DATA", "body", "."}
    BY <1>1, <1>5, ClientBodied
  <2>2. \A q \in Session \ {s} : Same(q)
    BY <1>0, MovesOthers
  <2>3. ASSUME inbox'[s] = inbox[s], typed'[c] = typed[c], Uttered(c)' = Uttered(c)
        PROVE  Flow(c)'
    <3>1. \A r \in Relay(s) : r \in Session /\ r # s /\ ~Hung(r)
      BY <1>5, Main
    <3>2. ASSUME NEW r \in Relay(s), NEW m, Fed(r, m) PROVE Fed(r, m)'
      <4>1. Steady(r) /\ inbox'[r] = inbox[r] /\ (Bodied(r)' => Bodied(r))
        BY <1>2, <2>2, <3>1 DEF Same, Bodied
      <4> QED
        BY <3>1, <3>2, <4>1, FedSame
    <3>3. ASSUME pc[s] = "dot", NEW r \in Recvr(s), Finishing(s, r) PROVE Finishing(s, r)'
      <4>0. r \in Relay(s) /\ r \in Session
        BY <1>0, <3>1, <3>3, RecvrRelays DEF Busy
      <4>1. (DotTold(s, r)' <=> DotTold(s, r)) /\ (Bodied(r)' <=> Bodied(r))
        BY <1>1, <1>5 DEF DotTold, Bodied
      <4>2. CASE Bodied(r)
        <5>1. PICK m : m = MaxLines + (IF DotTold(s, r) THEN 1 ELSE 0)
          OBVIOUS
        <5>2. Fed(r, m)'
          BY <3>2, <3>3, <4>0, <4>2, <5>1 DEF Finishing
        <5> QED
          BY <4>1, <4>2, <5>1, <5>2 DEF Finishing
      <4>3. CASE ~Bodied(r)
        <5>1. Holds(r, MaxLines, 0)'
          BY <1>2, <3>3, <4>0, <4>3, HoldsSame DEF Finishing
        <5> QED
          BY <4>1, <4>3, <5>1 DEF Finishing
      <4> QED
        BY <4>2, <4>3
    <3>4. ~Hung(s) /\ pc'[s] = pc[s] /\ recvr'[s] = recvr[s]
      BY <1>0, <1>1, <1>5, <2>1 DEF Hung
    <3> QED
      BY <1>0, <1>2, <1>5, <2>3, <3>2, <3>3, <3>4, FlowOver
  <2>4. CASE DataStarted(c)
    <3>1. user[c] = "DATA" /\ user'[c] = "body" /\ UNCHANGED <<inbox, typed>>
      BY <1>0, <2>4 DEF DataStarted
    <3> QED
      BY <2>3, <3>1 DEF Uttered
  <2>5. CASE Die(c)
    <3>1. UNCHANGED <<inbox, typed>>
      BY <2>5 DEF Die, sessions
    <3>2. user'[c] = IF user[c] = "." THEN "left" ELSE "cut"
      BY <1>0, <2>1, <2>5 DEF Die
    <3> QED
      BY <2>1, <2>3, <3>1, <3>2 DEF Uttered
  <2>6. CASE Type(c)
    <3>1. /\ user[c] = "body" /\ user'[c] = "body" /\ typed[c] < MaxLines /\ typed'[c] = typed[c] + 1
          /\ inbox'[s] = Append(inbox[s], Text(<<Line(c, typed[c] + 1)>>))
      BY <1>0, <2>6 DEF Type, Write
    <3>2. pc[s] \in {"start", "data"}
      BY <1>1, <1>5, <3>1, ClientBodied DEF Bodied
    <3>3. PICK m \in Nat : m = typed[c] /\ Uttered(c) = m /\ Uttered(c)' = m + 1 /\ m < MaxLines
      BY <1>0, <3>1 DEF Uttered
    <3>4. <<Line(c, m + 1)>> = Part(c, m, m + 1)
      <4>1. PICK d \in Nat : d = m + 1 /\ m <= d /\ d <= MaxLines + 1 /\ d - m = 1 /\ m + 1 \in 1 .. MaxLines
        BY <1>0, <3>3
      <4>0. PICK p : p = Part(c, m, d)
        OBVIOUS
      <4>2. p \in Seq(Piece) /\ Len(p) = 1 /\ p[1] = Full(c)[m + 1]
        <5>1. \A i \in 1 .. d - m : p[i] = Full(c)[m + i]
          BY <4>0, <4>1, PartSeq
        <5>2. p \in Seq(Piece) /\ Len(p) = d - m
          BY <4>0, <4>1, PartSeq
        <5>3. 1 \in 1 .. d - m
          BY <4>1
        <5> QED
          BY <4>1, <5>1, <5>2, <5>3
      <4>3. p[1] = Line(c, m + 1)
        BY <4>1, <4>2, FullSeq
      <4>4. p = <<p[1]>>
        BY <4>2
      <4> QED
        BY <4>0, <4>1, <4>3, <4>4
    <3>5. m < MaxLines + 1
      BY <1>0, <3>3
    <3> QED
      BY <1>5, <3>1, <3>2, <3>3, <3>4, <3>5, ClientWrites
  <2>7. CASE TypeDot(c)
    <3>1. /\ user[c] = "body" /\ user'[c] = "." /\ typed[c] = MaxLines /\ typed'[c] = typed[c]
          /\ inbox'[s] = Append(inbox[s], Text(<<Dot>>))
      BY <1>0, <2>7 DEF TypeDot, Write
    <3>2. pc[s] \in {"start", "data"}
      BY <1>1, <1>5, <3>1, ClientBodied DEF Bodied
    <3>3. Uttered(c) = MaxLines /\ Uttered(c)' = MaxLines + 1 /\ MaxLines < MaxLines + 1
      BY <1>0, <3>1 DEF Uttered
    <3>4. <<Dot>> = Part(c, MaxLines, MaxLines + 1)
      <4>1. PICK d \in Nat : d = MaxLines + 1 /\ MaxLines <= d /\ d <= MaxLines + 1
        BY <1>0
      <4> QED
        BY <1>0, <4>1, PartDot
    <3> QED
      BY <1>5, <3>1, <3>2, <3>3, <3>4, ClientWrites
  <2>8. ~(reply[s] = "250 OK" /\ Sent(c))
    <3> SUFFICES ASSUME reply[s] = "250 OK", Sent(c) PROVE FALSE
      OBVIOUS
    <3>1. user[c] = "."
      BY DEF Sent
    <3>2. reply[s] = Nothing
      BY <1>1, <1>5, <3>1, ClientBodied
    <3> QED
      BY <3>2 DEF Nothing
  <2> QED
    BY <2>1, <2>4, <2>5, <2>6, <2>7, <2>8, MovesFrom
<1>6. CASE UNCHANGED pc /\ pc[s] \notin {"start", "data", "dot", "gone"}
  BY <1>6 DEF Flow, Bodied
<1> QED
  BY <1>3, <1>4, <1>5, <1>6, MovesFrom

-----------------------------------------------------------------------------
(* Every step, seen from a client.                                           *)

\* What a session of one client does leaves the sessions of the others alone.
LEMMA SessionApart ==
  ASSUME TypesInv, NEW p \in Session, SessionStep(p)
  PROVE  UNCHANGED clients /\ \A q \in Session : q[1] # p[1] => Same(q)
<1> PICK c \in Client : c = p[1]
  BY Parties
<1>0. Dialogs /\ TablesOK
  BY DEF TypesInv, MeantInv
<1>1. CASE p # Of(c)
  <2>1. p \in Relay(Of(c))
    BY <1>1, Parties
  <2>2. Alone(p)
    BY <1>0, <2>1, RelayStep
  <2> QED
    BY <2>2 DEF Alone
<1>2. CASE p = Of(c)
  <2>1. (Own(p) \/ Eof(p)) => Alone(p)
    BY <1>0, <1>2, MainOwn, MainEof
  <2>2. ReadText(p) => UNCHANGED clients /\ \A q \in Session : q[1] # p[1] => Same(q)
    BY <1>0, <1>2, MainText
  <2>3. \/ Own(p) \/ Eof(p) \/ ReadText(p) \/ \E r \in Relay(Of(c)) : Joint(c, r)
    BY <1>0, <1>2, MainThere, MainHello, MainFrom, MainTo, MainRset, MainAsk, MainAnswered
       DEF SessionStep, Own
  <2>4. ASSUME NEW r \in Relay(Of(c)), Joint(c, r)
        PROVE  UNCHANGED clients /\ \A q \in Session : q[1] # p[1] => Same(q)
    BY <2>4, Parties DEF Joint
  <2>5. Alone(p) => UNCHANGED clients /\ \A q \in Session : q[1] # p[1] => Same(q)
    BY DEF Alone
  <2> QED
    BY <2>1, <2>2, <2>3, <2>4, <2>5
<1> QED
  BY <1>1, <1>2

LEMMA StepKinds ==
  ASSUME [Next]_vars
  PROVE  \/ \E p \in Session : SessionStep(p)
         \/ \E c \in Client : Moves(c)
         \/ UNCHANGED <<sessions, clients>> /\ (PopNext \/ UNCHANGED vars)
  BY DEF Next, SmtpNext, Moves, vars

\* Client c and its sessions are left alone.
Still(c) ==
  /\ user'[c] = user[c] /\ to'[c] = to[c] /\ ok'[c] = ok[c] /\ asks'[c] = asks[c] /\ typed'[c] = typed[c]
  /\ \A q \in Session : q[1] = c => Same(q) /\ Steady(q)

\* Who acts, as far as client c is concerned: one of its sessions, itself or others.
LEMMA Actors ==
  ASSUME TypesInv, RowsApart, [Next]_vars, NEW c \in Client, NEW s, s = Of(c)
  PROVE  \/ SessionStep(s) /\ UNCHANGED clients
         \/ \E r \in Relay(s) : SessionStep(r) /\ UNCHANGED clients
         \/ Moves(c)
         \/ Still(c)
<1>0. Dialogs /\ DialogTypes
  BY Main
<1>1. ASSUME NEW p \in Session, SessionStep(p), p[1] = c
      PROVE  UNCHANGED clients /\ (p = s \/ p \in Relay(s))
  BY <1>1, SessionApart, Parties
<1>2. ASSUME NEW p \in Session, SessionStep(p), p[1] # c
      PROVE  Still(c)
  <2>1. UNCHANGED clients /\ \A q \in Session : q[1] = c => Same(q)
    BY <1>2, SessionApart
  <2>2. ASSUME NEW q \in Session, q[1] = c PROVE Steady(q)
    <3>1. q # p /\ recvr_id'[q] = recvr_id[q]
      BY <1>2, <2>1, <2>2 DEF Same
    <3> QED
      BY <1>2, <3>1, SteadyOther
  <2> QED
    BY <2>1, <2>2 DEF Still, clients
<1>3. ASSUME NEW d \in Client, Moves(d), d # c
      PROVE  Still(c)
  <2>1. \A q \in Session : q[1] = c => Same(q)
    BY <1>0, <1>3, MovesOthers, Parties
  <2>2. \A q \in Session : Steady(q)
    BY <1>3, SteadyClient DEF Moves
  <2>0. /\ DOMAIN user = Client /\ DOMAIN to = Client /\ DOMAIN ok = Client
        /\ DOMAIN asks = Client /\ DOMAIN typed = Client
    BY <1>0 DEF DialogTypes
  <2>3. user'[c] = user[c]
    BY <1>3, <2>0
       DEF Moves, UserStep, ClientStep, Connect, Retype, AskTo, GiveUp, StartData, Type, TypeDot,
         Die, Hello, FromAnswered, Accepted, Refused, Reset, ResetDone, DataStarted, Sent, Bye, ByeIgnored,
         Write, Reads
  <2>4. to'[c] = to[c]
    BY <1>3, <2>0
       DEF Moves, UserStep, ClientStep, Connect, Retype, AskTo, GiveUp, StartData, Type, TypeDot,
         Die, Hello, FromAnswered, Accepted, Refused, Reset, ResetDone, DataStarted, Sent, Bye, ByeIgnored,
         Write, Reads
  <2>5. ok'[c] = ok[c]
    BY <1>3, <2>0
       DEF Moves, UserStep, ClientStep, Connect, Retype, AskTo, GiveUp, StartData, Type, TypeDot,
         Die, Hello, FromAnswered, Accepted, Refused, Reset, ResetDone, DataStarted, Sent, Bye, ByeIgnored,
         Write, Reads
  <2>6. asks'[c] = asks[c]
    BY <1>3, <2>0
       DEF Moves, UserStep, ClientStep, Connect, Retype, AskTo, GiveUp, StartData, Type, TypeDot,
         Die, Hello, FromAnswered, Accepted, Refused, Reset, ResetDone, DataStarted, Sent, Bye, ByeIgnored,
         Write, Reads
  <2>7. typed'[c] = typed[c]
    BY <1>3, <2>0
       DEF Moves, UserStep, ClientStep, Connect, Retype, AskTo, GiveUp, StartData, Type, TypeDot,
         Die, Hello, FromAnswered, Accepted, Refused, Reset, ResetDone, DataStarted, Sent, Bye, ByeIgnored,
         Write, Reads
  <2> QED
    BY <2>1, <2>2, <2>3, <2>4, <2>5, <2>6, <2>7 DEF Still
<1>4. ASSUME UNCHANGED <<sessions, clients>>, PopNext \/ UNCHANGED vars
      PROVE  Still(c)
  <2>1. \A q \in Session : Same(q)
    BY <1>4 DEF Same, sessions
  <2>2. \A q \in Session : Steady(q)
    BY <1>4, <2>1, SteadyReader DEF Same
  <2> QED
    BY <1>4, <2>1, <2>2 DEF Still, clients
<1> QED
  BY <1>1, <1>2, <1>3, <1>4, StepKinds

LEMMA FlowStep ==
  ASSUME TypesInv, RowsApart, [Next]_vars, NEW c \in Client, Flow(c), Counts(c),
         \A q \in Session : Unwritten(q)
  PROVE  Flow(c)' /\ Counts(c)'
<1>0. PICK s : s = Of(c) /\ s \in Session /\ Dialogs
  BY Main
<1>1. CASE SessionStep(s)
  BY <1>0, <1>1, MainFlow
<1>2. ASSUME NEW r \in Relay(s), SessionStep(r) PROVE Flow(c)' /\ Counts(c)'
  <2>1. r \in Session
    BY <1>0, Parties
  <2> QED
    BY <1>0, <1>2, <2>1, RelayFlow
<1>3. CASE Moves(c)
  BY <1>0, <1>3, ClientFlow, ClientCounts
<1>4. CASE Still(c)
  BY <1>0, <1>4, FlowSame DEF Still
<1> QED
  BY <1>0, <1>1, <1>2, <1>3, <1>4, Actors
-----------------------------------------------------------------------------
(* Before a body is read, the rows are empty.                                *)

\* A session moves by its own steps, unless it is only begun.
LEMMA Begins ==
  ASSUME TypesInv, [Next]_vars, NEW q \in Session, pc'[q] # pc[q]
  PROVE  SessionStep(q) \/ pc[q] = "closed"
<1>0. DOMAIN pc = Session
  BY DEF TypesInv, Dialogs, DialogTypes
<1>1. ASSUME NEW p \in Session, SessionStep(p), p # q PROVE pc[q] = "closed"
  <2>1. CASE RcptThere(p)
    <3>1. PICK r \in Relay(p) : pc[r] = "closed" /\ pc' = [pc EXCEPT ![p] = "conn hello", ![r] = "hello"]
      BY <2>1 DEF RcptThere
    <3> QED
      BY <1>0, <1>1, <3>1
  <2>2. CASE ~RcptThere(p)
    <3>1. UNCHANGED pc \/ \E x : pc' = [pc EXCEPT ![p] = x]
      BY <1>1, <2>2 DEF SessionStep, Helo, MailFrom, Quit, Eof, RcptHere, RelayHello, RelayFrom,
         RelayTo, RelayRset, RelayAsk, RelayAnswered, Rset, RsetDone, Data, Invalid, StartDone, ReadText,
         ReadNothing, ReadDot, DotDone, QuitDone, sessions
    <3> QED
      BY <1>0, <1>1, <3>1
  <2> QED
    BY <2>1, <2>2
<1>2. ASSUME NEW c \in Client, Moves(c) PROVE pc[q] = "closed"
  <2>1. user[c] = "out" /\ Connect(c)
    BY <1>2, MovesFrom
  <2>2. q = Of(c)
    BY <1>0, <2>1 DEF Connect
  <2>3. pc[q] # "gone" => pc[q] = "closed"
    <3> SUFFICES ASSUME pc[q] # "gone" PROVE pc[q] = "closed"
      OBVIOUS
    <3>1. Asked(q, "closed")
      BY <2>1, <2>2, AskedBy DEF Asking, Dead
    <3> QED
      BY <3>1 DEF Asked, Idle
  <2>4. pc[q] # "gone"
    <3>1. ClientTalk(c) /\ user[c] \notin Dead /\ Asking(c) = "closed"
      BY <2>1, Main DEF Dead, Asking
    <3>2. Asked(q, "closed")
      BY <2>2, <3>1 DEF ClientTalk, AskedOne
    <3> QED
      BY <3>2 DEF Asked, Idle
  <2> QED
    BY <2>3, <2>4
<1>3. UNCHANGED <<sessions, clients>> => FALSE
  BY DEF sessions
<1> QED
  BY <1>1, <1>2, <1>3, StepKinds

LEMMA FromFresh ==
  ASSUME Dialogs, NEW q \in Session, MailFrom(q)
  PROVE  Fresh(q)
<1>1. pc[q] = "from" /\ inbox[q] # <<>> /\ Head(inbox[q]).verb = "MAIL FROM"
  BY DEF MailFrom, Is
<1>2. PICK verb \in Verbs : Asked(q, verb)
  BY <1>1, AskedWhat
<1> QED
  BY <1>1, <1>2 DEF Asked, Idle, Reading, Answered, Taking, Says, Conn

\* What moves a session to where its rows are to be empty.
LEMMA Empties ==
  ASSUME NEW q \in Session, DOMAIN pc = Session, SessionStep(q),
         pc[q] \notin {"closed", "hello", "rcpt"} \cup Conn, pc'[q] \in {"closed", "hello", "rcpt"} \cup Conn
  PROVE  MailFrom(q)
<1>1. ~(AskedFor(q) \/ Helo(q) \/ RelayHello(q) \/ RelayFrom(q) \/ RelayTo(q) \/ RelayRset(q) \/ Rset(q)
        \/ Data(q) \/ Invalid(q))
  BY DEF AskedFor, Helo, RelayHello, RelayFrom, RelayTo, RelayRset, Rset, Data, Invalid, Conn
<1>2. ~(Quit(q) \/ Eof(q) \/ RsetDone(q) \/ StartDone(q) \/ ReadDot(q) \/ DotDone(q) \/ QuitDone(q))
  BY DEF Quit, Eof, RsetDone, StartDone, ReadDot, DotDone, QuitDone, Conn
<1>3. ~(RelayAsk(q) \/ RelayAnswered(q) \/ ReadText(q) \/ ReadNothing(q))
  BY DEF RelayAsk, RelayAnswered, ReadText, ReadNothing, sessions
<1> QED
  BY <1>1, <1>2, <1>3 DEF SessionStep, RcptHere, RcptThere

LEMMA UnwrittenStep ==
  ASSUME TypesInv, RowsApart, [Next]_vars, NEW q \in Session, Unwritten(q)
  PROVE  Unwritten(q)'
<1>0. Dialogs /\ DOMAIN pc = Session
  BY DEF TypesInv, Dialogs, DialogTypes
<1> SUFFICES ASSUME pc'[q] \in {"closed", "hello", "rcpt"} \cup Conn
             PROVE  Holds(q, 0, 0)'
  BY DEF Unwritten, Conn
<1>1. CASE pc[q] \in {"closed", "hello", "rcpt"} \cup Conn
  <2>1. Holds(q, 0, 0)
    BY <1>1 DEF Unwritten
  <2>2. CASE recvr_id'[q] = recvr_id[q]
    <3>1. ~ReadText(q) /\ ~ReadNothing(q)
      BY <1>1 DEF ReadText, ReadNothing, Conn
    <3> QED
      BY <2>1, <2>2, <3>1, SteadyElse, HoldsSame
  <2>3. CASE RcptHere(q) /\ Arg(q) \in Users
    <3>1. PICK d : d = srv[q]
      OBVIOUS
    <3>2. RcptHere(q) /\ Arg(q) \in Users
      BY <2>3
    <3>7. srv'[q] = d /\ removed' = removed
      BY <3>1, <3>2, IdsMore
    <3>8. Ids(q)' = Ids(q) \cup {Len(data[d]) + 1}
      BY <3>1, <3>2, IdsMore
    <3>9. data'[d][Len(data[d]) + 1] = Row(q[1], sender[q], Arg(q))
      BY <3>1, <3>2, IdsMore
    <3>10. \A n \in Keys(d) : data'[d][n] = data[d][n]
      BY <3>1, <3>2, IdsMore
    <3>3. PICK k : /\ Ids(q)' = Ids(q) \cup {k}
                   /\ data'[d][k] = Row(q[1], sender[q], Arg(q))
      BY <3>8, <3>9
    <3>4. Part(q[1], 0, 0) \o Blanks(0) = <<>>
      BY PartNone, NoBlanks
    <3> SUFFICES ASSUME NEW n \in Ids(q)'
                 PROVE  n \in removed'[d] \/ data'[d][n].message = Part(q[1], 0, 0) \o Blanks(0)
      BY <3>7 DEF Holds, Part, Full, Body, Blanks
    <3>5. CASE n = k
      <4>1. PICK row : row = Row(q[1], sender[q], Arg(q))
        OBVIOUS
      <4>2. row.message = <<>>
        BY <4>1 DEF Row
      <4> QED
        BY <3>3, <3>4, <3>5, <4>1, <4>2
    <3>6. CASE n \in Ids(q)
      <4>1. n \in Keys(d)
        BY <3>1, <3>6, IdsKnown
      <4>2. n \in removed[d] \/ data[d][n].message = Part(q[1], 0, 0) \o Blanks(0)
        BY <2>1, <3>1, <3>6 DEF Holds
      <4> QED
        BY <3>7, <3>10, <4>1, <4>2
    <3> QED
      BY <3>3, <3>5, <3>6
  <2>4. ~RsetDone(q)
    BY <1>1 DEF RsetDone, Conn
  <2> QED
    BY <2>2, <2>3, <2>4, IdsChange
<1>2. CASE pc[q] \notin {"closed", "hello", "rcpt"} \cup Conn
  <2>1. SessionStep(q)
    BY <1>2, Begins
  <2>2. MailFrom(q)
    BY <1>0, <1>2, <2>1, Empties
  <2>3. Fresh(q) /\ UNCHANGED recvr_id
    BY <1>0, <2>2, FromFresh DEF MailFrom
  <2>4. Ids(q)' = {}
    BY <2>3, One DEF Fresh, Ids
  <2> QED
    BY <2>4 DEF Holds
<1> QED
  BY <1>1, <1>2
-----------------------------------------------------------------------------
(* An accepted recipient has a row.                                          *)

LEMMA RowForKept ==
  ASSUME TypesInv, [Next]_vars, NEW q \in Session, pc[q] # "rset", NEW a, RowFor(q, a)
  PROVE  RowFor(q, a)'
<1>1. PICK n \in Ids(q) : srv[q] = Home[a] /\ data[srv[q]][n].receiver = a
  BY DEF RowFor
<1>2. PICK d \in Domain : d = srv[q] /\ srv'[q] = d /\ n \in Keys(d)
  BY IdsKnown
<1>3. data'[d][n].receiver = a
  BY <1>1, <1>2, RowsFollow
<1>4. n \in Ids(q)'
  <2>1. CASE recvr_id'[q] = recvr_id[q]
    BY <2>1 DEF Ids
  <2>2. CASE RcptHere(q) /\ Arg(q) \in Users
    <3>1. Ids(q)' = Ids(q) \cup {Len(data[d]) + 1}
      BY <1>2, <2>2, IdsMore
    <3> QED
      BY <3>1
  <2> QED
    BY <2>1, <2>2, IdsChange DEF RsetDone
<1> QED
  BY <1>1, <1>2, <1>3, <1>4 DEF RowFor

\* While a client gives recipients and a body, nothing that knows their rows is reset.
LEMMA RsetWhen ==
  ASSUME TypesInv, NEW c \in Client, NEW s, s = Of(c), user[c] \in Sending,
         NEW q \in {s} \cup Recvr(s)
  PROVE  q \in Session /\ pc[q] # "rset"
<1>0. /\ s \in Session /\ SessionOK(s) /\ AskOK(s)
      /\ \A r \in Relay(s) : r \in Session /\ r # s /\ RelayTalk(s, r)
  BY Main
<1>1. AskedOne(s, {user[c]})
  <2>1. ClientTalk(c) /\ user[c] \notin Dead /\ Asking(c) = user[c]
    BY Main DEF Sending, Dead, Asking
  <2> QED
    BY <2>1 DEF ClientTalk
<1>2. Asked(s, user[c])
  BY <1>1 DEF AskedOne
<1>3. pc[s] \in {"rcpt", "start", "data", "dot", "quit", "from"} \cup Conn
  BY <1>2 DEF Sending, Asked, Idle, Reading, Answered, Taking
<1>4. CASE q \in Recvr(s) /\ q # s
  <2>1. q \in Relay(s)
    <3>1. recvr[s] \in Seq(Relay(s) \cup {Of(s[1])}) /\ s = Of(s[1])
      BY <1>0, Main DEF SessionOK
    <3>2. PICK n \in 1 .. Len(recvr[s]) : q = recvr[s][n]
      BY <1>4 DEF Recvr
    <3>3. q \in Relay(s) \cup {Of(s[1])}
      BY <3>1, <3>2, ElementOfSeq
    <3> QED
      BY <1>4, <3>1, <3>3
  <2>2. q \in Session /\ RelayTalk(s, q)
    BY <1>0, <2>1
  <2>3. CASE pc[s] = "from"
    BY <2>2, <2>3 DEF RelayTalk, Busy, Conn, Idle
  <2>4. CASE pc[s] \in {"rcpt", "start", "data", "dot", "quit"} \cup Conn
    <3>1. AskedOne(q, InMail(s, q))
      BY <1>0, <1>4, <2>2, <2>4 DEF RelayTalk, Busy, Conn, AskOK
    <3>2. InMail(s, q) \subseteq {Between(s)} \cup Exchanges(s) \cup {Before(verb) : verb \in Exchanges(s)}
      BY <1>0, InMailAt DEF SessionOK
    <3>3. InMail(s, q) \subseteq {"to", "body", "DATA", "mailed", ".", "over", "QUIT"}
      BY <2>4, <3>2 DEF Between, Exchanges, Before, Conn
    <3>4. PICK verb \in {"to", "body", "DATA", "mailed", ".", "over", "QUIT"} : Asked(q, verb)
      BY <3>1, <3>3 DEF AskedOne
    <3> QED
      BY <2>2, <3>4 DEF Asked, Idle, Reading, Answered, Taking
  <2> QED
    BY <1>3, <2>3, <2>4
<1> QED
  BY <1>0, <1>3, <1>4 DEF Conn

LEMMA OwnedKept ==
  ASSUME TypesInv, [Next]_vars, NEW c \in Client, user[c] \in Sending,
         Recvr(Of(c)) \subseteq Recvr(Of(c))', NEW a, Owned(c, a)
  PROVE  Owned(c, a)'
<1>1. PICK s : s = Of(c)
  OBVIOUS
<1>2. PICK q \in {s} \cup Recvr(s) : RowFor(q, a)
  BY <1>1 DEF Owned
<1>3. RowFor(q, a)'
  BY <1>1, <1>2, RsetWhen, RowForKept
<1>4. q \in {s} \cup Recvr(s)'
  BY <1>1, <1>2
<1> QED
  BY <1>1, <1>3, <1>4 DEF Owned

\* The relay that a session is connected to for a recipient.
LEMMA ConnectsTo ==
  ASSUME TypesInv, NEW c \in Client, NEW s, s = Of(c), pc[s] = "conn to", NEW r, r = ask[s].relay
  PROVE  /\ r \in Relay(s) /\ r \in Session /\ r # s /\ pc[r] # "rset"
         /\ \/ Reading(r, "RCPT TO", {"rcpt"}) \/ Reading(r, "VRFY", {"rcpt"})
            \/ pc[r] = "rcpt" /\ inbox[r] = <<>>
         /\ srv[r] = Home[ask[s].to]
         /\ inbox[r] # <<>> => Arg(r) = ask[s].to
<1>0. Dialogs /\ pc[s] \in Conn
  BY Main DEF Conn
<1>1. r \in Relay(s) /\ r \in Session /\ r # s /\ AskOK(s) /\ Asked(r, Connecting(s)) /\ pc[r] \notin Conn
  BY <1>0, Connects
<1>2. Connecting(s) \in {"RCPT TO", "VRFY"}
  BY <1>0, <1>1 DEF Connecting, AskOK
<1>3. \/ Reading(r, "RCPT TO", {"rcpt"}) \/ Reading(r, "VRFY", {"rcpt"})
      \/ pc[r] = "rcpt" /\ inbox[r] = <<>>
  BY <1>1, <1>2 DEF Asked, Idle, Answered
<1>4. pc[r] # "rset"
  BY <1>3 DEF Reading
<1>5. srv[r] = Home[ask[s].to] /\ (inbox[r] # <<>> => Arg(r) = ask[s].to)
  BY <1>0, <1>1 DEF AskOK, Arg
<1> QED
  BY <1>1, <1>3, <1>4, <1>5
\* What a session can do while its client awaits the answer for a recipient.
LEMMA Answering ==
  ASSUME TypesInv, NEW c \in Client, NEW s, s = Of(c), user[c] \in {"RCPT TO", "VRFY"}
  PROVE  /\ inbox[s] # <<>> => inbox[s] = <<Head(inbox[s])>> /\ reply[s] = Nothing /\ pc[s] = "rcpt" /\ AskedFor(s)
         /\ pc[s] \in Conn => inbox[s] = <<>> /\ reply[s] = Nothing /\ work[s] = <<>>
         /\ pc[s] \in {"rcpt"} \cup Conn
         /\ SessionStep(s) =>
              RcptHere(s) \/ RcptThere(s) \/ RelayHello(s) \/ RelayFrom(s) \/ RelayTo(s) \/ RelayRset(s)
<1>0. /\ s \in Session /\ SessionOK(s) /\ ClientTalk(c) /\ s[2] = 0 /\ s[1] = c
  BY Main
<1>1. Asked(s, user[c])
  BY <1>0 DEF ClientTalk, Dead, Asking, AskedOne
<1>2. \/ Reading(s, user[c], {"rcpt"})
      \/ Idle(s, Conn)
      \/ pc[s] = "rcpt" /\ inbox[s] = <<>>
  BY <1>1 DEF Asked, Answered
<1>3. work[s] = <<>>
  <2>1. pc[s] \in {"rcpt"} \cup Conn
    BY <1>2 DEF Reading, Idle
  <2> QED
    BY <1>0, <2>1, NoWork DEF SessionOK, Exchanges, Conn
<1>4. inbox[s] # <<>> =>
        inbox[s] = <<Head(inbox[s])>> /\ reply[s] = Nothing /\ pc[s] = "rcpt" /\ AskedFor(s)
  <2> SUFFICES ASSUME inbox[s] # <<>>
               PROVE  inbox[s] = <<Head(inbox[s])>> /\ reply[s] = Nothing /\ pc[s] = "rcpt" /\ AskedFor(s)
    OBVIOUS
  <2>1. Reading(s, user[c], {"rcpt"})
    BY <1>2 DEF Idle
  <2> QED
    BY <2>1 DEF Reading, Says, AskedFor, Is
<1>5. pc[s] \in Conn => inbox[s] = <<>> /\ reply[s] = Nothing
  BY <1>2 DEF Reading, Idle, Conn
<1>6. pc[s] \in {"rcpt"} \cup Conn
  BY <1>2 DEF Reading, Idle
<1>7. ASSUME SessionStep(s)
      PROVE  RcptHere(s) \/ RcptThere(s) \/ RelayHello(s) \/ RelayFrom(s) \/ RelayTo(s) \/ RelayRset(s)
  <2>1. ~Hung(s)
    BY <1>0 DEF Hung
  <2>2. ~(Rset(s) \/ Data(s) \/ Invalid(s))
    <3> SUFFICES ASSUME inbox[s] # <<>>, Rset(s) \/ Data(s) \/ Invalid(s) PROVE FALSE
      BY DEF Rset, Data, Is, Invalid
    <3>1. Is(s, "RCPT TO") \/ Is(s, "VRFY")
      BY <1>4 DEF AskedFor
    <3> QED
      BY <3>1 DEF Rset, Data, Invalid, Is
  <2>3. ~(Eof(s) \/ ReadNothing(s))
    BY <2>1 DEF Eof, ReadNothing
  <2>4. ~(Helo(s) \/ MailFrom(s) \/ Quit(s) \/ RsetDone(s) \/ StartDone(s) \/ ReadText(s) \/ ReadDot(s)
          \/ DotDone(s) \/ QuitDone(s))
    BY <1>6 DEF Helo, MailFrom, Quit, RsetDone, StartDone, ReadText, ReadDot, DotDone, QuitDone, Conn
  <2>5. ~(RelayAsk(s) \/ RelayAnswered(s))
    BY <1>3 DEF RelayAsk, RelayAnswered
  <2> QED
    BY <1>7, <2>2, <2>3, <2>4, <2>5 DEF SessionStep
<1> QED
  BY <1>3, <1>4, <1>5, <1>6, <1>7

\* Only resetting a mail forgets its relays.
LEMMA RecvrGrows ==
  ASSUME TypesInv, NEW s \in Session, SessionStep(s), pc[s] # "rset"
  PROVE  Recvr(s) \subseteq Recvr(s)' /\ (RelayTo(s) /\ reply[ask[s].relay] = "250 OK" => ask[s].relay \in Recvr(s)')
<1>1. CASE RelayTo(s) /\ reply[ask[s].relay] = "250 OK"
  <2>1. PICK S : recvr[s] \in Seq(S) /\ DOMAIN recvr = Session
    <3>1. SessionOK(s) /\ DOMAIN recvr = Session
      BY Parties DEF TypesInv, Dialogs, DialogTypes, Circle
    <3> QED
      BY <3>1 DEF SessionOK
  <2>2. PICK r : r = ask[s].relay
    OBVIOUS
  <2>3. recvr' = [recvr EXCEPT ![s] = Append(@, r)]
    BY <1>1, <2>2 DEF RelayTo
  <2>4. PICK w, v : w = recvr[s] /\ v = Append(w, r)
    OBVIOUS
  <2>5. recvr'[s] = v
    BY <2>1, <2>3, <2>4
  <2>6. PICK T : T = S \cup {r}
    OBVIOUS
  <2>7. w \in Seq(T) /\ r \in T
    <3>1. w \in Seq(S) /\ S \subseteq T
      BY <2>1, <2>4, <2>6
    <3> QED
      BY <2>6, <3>1, SeqMonotonic
  <2>8. /\ Len(v) = Len(w) + 1 /\ v[Len(w) + 1] = r /\ Len(w) \in Nat
        /\ \A i \in 1 .. Len(w) : v[i] = w[i]
    BY <2>4, <2>7, AppendProperties, LenProperties
  <2>9. {w[n] : n \in 1 .. Len(w)} \cup {r} \subseteq {v[n] : n \in 1 .. Len(v)}
    <3>1. Len(w) + 1 \in 1 .. Len(v) /\ \A i \in 1 .. Len(w) : i \in 1 .. Len(v)
      BY <2>8
    <3> QED
      BY <2>8, <3>1
  <2>10. Recvr(s) = {w[n] : n \in 1 .. Len(w)}
    BY <2>4 DEF Recvr
  <2>11. Recvr(s)' = {v[n] : n \in 1 .. Len(v)}
    BY <2>5 DEF Recvr
  <2>12. Recvr(s) \subseteq Recvr(s)' /\ r \in Recvr(s)'
    BY <2>9, <2>10, <2>11
  <2> QED
    BY <2>2, <2>12
<1>2. CASE ~(RelayTo(s) /\ reply[ask[s].relay] = "250 OK")
  <2>1. RelayTo(s) => UNCHANGED recvr
    BY <1>2 DEF RelayTo
  <2>2. UNCHANGED recvr
    BY <2>1 DEF SessionStep, Helo, MailFrom, Quit, Eof, RcptHere, RcptThere, RelayHello, RelayFrom,
       RelayRset, RelayAsk, RelayAnswered, Rset, RsetDone, Data, Invalid, StartDone, ReadText,
       ReadNothing, ReadDot, DotDone, QuitDone, sessions
  <2> QED
    BY <1>2, <2>2 DEF Recvr
<1> QED
  BY <1>1, <1>2
LEMMA NotSelf ==
  ASSUME NEW c \in Client, NEW s, s = Of(c), NEW r \in Relay(s)
  PROVE  r # s
  BY Parties

LEMMA RowNew ==
  ASSUME TypesInv, NEW q \in Session, RcptHere(q), NEW a, a = Arg(q), reply'[q] = "250 OK"
  PROVE  RowFor(q, a)'
<1>0. DOMAIN reply = Session
  BY DEF TypesInv, Dialogs, DialogTypes
<1>1. Arg(q) \in Users
  BY <1>0 DEF RcptHere, Answer
<1>2. PICK d : d = srv[q]
  OBVIOUS
<1>3. srv'[q] = d
  BY <1>1, <1>2, IdsMore
<1>4. Ids(q)' = Ids(q) \cup {Len(data[d]) + 1}
  BY <1>1, <1>2, IdsMore
<1>5. data'[d][Len(data[d]) + 1] = Row(q[1], sender[q], Arg(q))
  BY <1>1, <1>2, IdsMore
<1>6. PICK k : k \in Ids(q)' /\ data'[d][k] = Row(q[1], sender[q], Arg(q))
  BY <1>4, <1>5
<1>7. data'[d][k].receiver = a
  <2>1. PICK row : row = Row(q[1], sender[q], Arg(q))
    OBVIOUS
  <2>2. row.receiver = Arg(q)
    BY <2>1 DEF Row
  <2> QED
    BY <1>6, <2>1, <2>2
<1>8. d = Home[a]
  BY <1>2 DEF RcptHere
<1> QED
  BY <1>3, <1>6, <1>7, <1>8 DEF RowFor

LEMMA OwnsAllKept ==
  ASSUME TypesInv, [Next]_vars, NEW c \in Client, OwnsAll(c), user'[c] = user[c], ok'[c] = ok[c],
         user[c] \in Sending => Recvr(Of(c)) \subseteq Recvr(Of(c))'
  PROVE  OwnsAll(c)'
<1> SUFFICES ASSUME user[c] \in Sending, NEW a \in ok[c] PROVE Owned(c, a)'
  BY DEF OwnsAll
<1>1. Owned(c, a)
  BY DEF OwnsAll
<1> QED
  BY <1>1, OwnedKept

\* The session of the client takes a step.
LEMMA NextMain ==
  ASSUME TypesInv, [Next]_vars, NEW c \in Client, NEW s, s = Of(c), SessionStep(s),
         user[c] \in {"RCPT TO", "VRFY"}, OwnsNext(c), OwnsThere(c), UNCHANGED clients
  PROVE  OwnsNext(c)'
<1>0. /\ s \in Session /\ DOMAIN pc = Session /\ DOMAIN inbox = Session /\ DOMAIN reply = Session
      /\ DOMAIN ask = Session /\ Dialogs
  BY Main DEF DialogTypes
<1>1. user' = user /\ to' = to
  BY DEF clients
<1> PICK a : a = to[c]
  OBVIOUS
<1> SUFFICES /\ inbox'[s] # <<>> => Arg(s)' = a
             /\ pc'[s] \in Conn => ask'[s].to = a
             /\ reply'[s] = "250 OK" => Owned(c, a)'
  BY <1>1 DEF OwnsNext, Conn
<1>2. CASE RcptHere(s)
  <2>1. inbox[s] # <<>> /\ inbox'[s] = Tail(inbox[s]) /\ pc'[s] = pc[s] /\ pc[s] = "rcpt"
    BY <1>0, <1>2 DEF RcptHere, AskedFor, Is, Answer
  <2>2. inbox[s] = <<Head(inbox[s])>>
    BY <2>1, Answering
  <2>3. inbox'[s] = <<>>
    BY <2>1, <2>2, One
  <2>4. Arg(s) = a
    BY <2>1 DEF OwnsNext
  <2>5. reply'[s] = "250 OK" => RowFor(s, a)'
    BY <1>0, <1>2, <2>4, RowNew
  <2>6. reply'[s] = "250 OK" => Owned(c, a)'
    BY <2>5 DEF Owned
  <2> QED
    BY <2>1, <2>3, <2>6 DEF Conn
<1>3. CASE RcptThere(s)
  <2>1. inbox[s] # <<>>
    BY <1>3 DEF RcptThere, AskedFor, Is
  <2>2. inbox[s] = <<Head(inbox[s])>> /\ reply[s] = Nothing /\ Arg(s) = a
    BY <2>1, Answering DEF OwnsNext
  <2>3. PICK r \in Relay(s) :
          /\ ask' = [ask EXCEPT ![s] = [verb |-> Head(inbox[s]).verb, to |-> Arg(s), relay |-> r]]
          /\ inbox' = [inbox EXCEPT ![s] = Tail(@)]
          /\ reply' = [reply EXCEPT ![r] = "220 service ready"]
    BY <1>3 DEF RcptThere
  <2>4. r # s
    BY NotSelf
  <2>5. inbox'[s] = <<>>
    BY <1>0, <2>2, <2>3, One
  <2>6. reply'[s] = Nothing
    BY <1>0, <2>2, <2>3, <2>4
  <2>7. ask'[s].to = a
    <3>1. PICK x : x = [verb |-> Head(inbox[s]).verb, to |-> Arg(s), relay |-> r]
      OBVIOUS
    <3>2. ask'[s] = x /\ x.to = Arg(s)
      BY <1>0, <2>3, <3>1
    <3> QED
      BY <2>2, <3>2
  <2> QED
    BY <2>5, <2>6, <2>7 DEF Nothing
<1>4. CASE RelayHello(s) \/ RelayFrom(s) \/ RelayTo(s) \/ RelayRset(s)
  <2>1. pc[s] \in Conn
    BY <1>4 DEF RelayHello, RelayFrom, RelayTo, RelayRset, Conn
  <2>2. PICK r : r = ask[s].relay
    OBVIOUS
  <2>3. r # s /\ inbox[s] = <<>> /\ reply[s] = Nothing
    BY <1>0, <2>1, <2>2, Connects, Answering
  <2>4. inbox'[s] = <<>>
    BY <1>0, <1>4, <2>2, <2>3 DEF RelayHello, RelayFrom, RelayTo, RelayRset
  <2>5. ask'[s].to = a /\ ask[s].to = a
    BY <1>4, <2>1 DEF OwnsNext, RelayHello, RelayFrom, RelayTo, RelayRset
  <2>6. reply'[s] = "250 OK" => RelayTo(s) /\ reply[r] = "250 OK"
    <3>1. RelayHello(s) => reply'[s] # "250 OK"
      BY <1>0, <2>2, <2>3 DEF RelayHello, Nothing
    <3>2. RelayFrom(s) => reply'[s] # "250 OK"
      BY <1>0, <2>2, <2>3 DEF RelayFrom, Nothing
    <3>3. RelayTo(s) => reply'[s] # "250 OK" \/ reply[r] = "250 OK"
      BY <1>0, <2>2, <2>3 DEF RelayTo, Nothing
    <3>4. RelayRset(s) => reply'[s] # "250 OK"
      BY <1>0, <2>2, <2>3 DEF RelayRset, Nothing
    <3> QED
      BY <1>4, <3>1, <3>2, <3>3, <3>4
  <2>7. ASSUME RelayTo(s), reply[r] = "250 OK" PROVE Owned(c, a)'
    <3>1. pc[s] = "conn to"
      BY <2>7 DEF RelayTo
    <3>2. RowFor(r, a)
      BY <2>2, <2>5, <2>7, <3>1 DEF OwnsThere
    <3>3. RowFor(r, a)'
      BY <2>2, <3>1, <3>2, ConnectsTo, RowForKept
    <3>4. r \in Recvr(s)'
      BY <1>0, <2>2, <2>7, <3>1, RecvrGrows
    <3> QED
      BY <3>3, <3>4 DEF Owned
  <2> QED
    BY <2>4, <2>5, <2>6, <2>7
<1> QED
  BY <1>2, <1>3, <1>4, Answering

LEMMA ThereMain ==
  ASSUME TypesInv, NEW c \in Client, NEW s, s = Of(c), SessionStep(s)
  PROVE  OwnsThere(c)'
<1>0. /\ s \in Session /\ DOMAIN pc = Session /\ DOMAIN reply = Session /\ SessionOK(s) /\ Dialogs
  BY Main DEF DialogTypes
<1> SUFFICES ASSUME pc'[s] = "conn to" PROVE reply'[ask'[s].relay] # "250 OK"
  BY DEF OwnsThere
<1>1. CASE RelayFrom(s)
  <2>1. PICK r : r = ask[s].relay
    OBVIOUS
  <2>2. pc[s] \in Conn
    BY <1>1 DEF RelayFrom, Conn
  <2>3. r \in Session
    BY <1>0, <2>1, <2>2, Connects
  <2>4. ask' = ask /\ reply'[r] = Nothing
    BY <1>0, <1>1, <2>1, <2>3 DEF RelayFrom
  <2> QED
    BY <2>1, <2>4 DEF Nothing
<1>2. CASE RelayAsk(s) \/ RelayAnswered(s)
  <2>1. pc[s] = "conn to" /\ work[s] # <<>>
    BY <1>2 DEF RelayAsk, RelayAnswered
  <2>2. work[s] = <<>>
    BY <1>0, <2>1, NoWork DEF SessionOK, Exchanges
  <2> QED
    BY <2>1, <2>2
<1>3. CASE RcptThere(s)
  <2>1. PICK r \in Relay(s) : pc' = [pc EXCEPT ![s] = "conn hello", ![r] = "hello"]
    BY <1>3 DEF RcptThere
  <2>2. r # s
    BY <2>1, Main
  <2> QED
    BY <1>0, <2>1, <2>2
<1>4. ~(Helo(s) \/ MailFrom(s) \/ Quit(s) \/ Eof(s) \/ RelayHello(s) \/ RelayTo(s) \/ RelayRset(s))
  BY <1>0 DEF Helo, MailFrom, Quit, Eof, RelayHello, RelayTo, RelayRset
<1>5. ~(Rset(s) \/ RsetDone(s) \/ Data(s) \/ Invalid(s) \/ StartDone(s) \/ ReadDot(s) \/ DotDone(s) \/ QuitDone(s))
  BY <1>0 DEF Rset, RsetDone, Data, Invalid, StartDone, ReadDot, DotDone, QuitDone
<1>6. ~(RcptHere(s) \/ ReadText(s) \/ ReadNothing(s))
  BY <1>0 DEF RcptHere, AskedFor, ReadText, ReadNothing, sessions
<1> QED
  BY <1>1, <1>2, <1>3, <1>4, <1>5, <1>6 DEF SessionStep
\* The relay that is asked for a recipient takes it, or is left alone.
LEMMA ThereKept ==
  ASSUME TypesInv, [Next]_vars, NEW c \in Client, NEW s, s = Of(c), OwnsThere(c),
         pc'[s] = pc[s], ask'[s] = ask[s],
         NEW r, r = ask[s].relay, pc[s] = "conn to" => reply'[r] = reply[r] \/ SessionStep(r)
  PROVE  OwnsThere(c)'
<1> SUFFICES ASSUME pc[s] = "conn to", reply'[r] = "250 OK", NEW a, a = ask[s].to
             PROVE  RowFor(r, a)'
  BY DEF OwnsThere
<1>0. /\ r \in Relay(s) /\ r \in Session /\ pc[r] # "rset"
      /\ \/ Reading(r, "RCPT TO", {"rcpt"}) \/ Reading(r, "VRFY", {"rcpt"})
         \/ pc[r] = "rcpt" /\ inbox[r] = <<>>
      /\ inbox[r] # <<>> => Arg(r) = a
  BY ConnectsTo
<1>1. CASE reply[r] = "250 OK"
  <2>1. RowFor(r, a)
    BY <1>1 DEF OwnsThere
  <2> QED
    BY <1>0, <2>1, RowForKept
<1>2. CASE reply[r] # "250 OK"
  <2>1. SessionStep(r)
    BY <1>2
  <2>2. s \in Session /\ Dialogs /\ DialogTypes /\ SessionOK(s) /\ AskOK(s) /\ RelayTalk(s, r) /\ ~Hung(r)
    BY <1>0, Main
  <2>3. SessionOK(r)
    BY <1>0, <2>2, Parties DEF Dialogs, Circle
  <2>4. ~RcptThere(r) /\ pc[r] \notin Conn /\ work[r] = <<>>
    <3>1. r \in Relay(s)
      BY <1>0
    <3>2. ASSUME RcptThere(r) PROVE FALSE
      BY <2>2, <3>1, <3>2, RelayThere
    <3> QED
      BY <2>2, <3>2 DEF RelayTalk
  <2>5. Own(r) \/ ReadText(r)
    BY <1>0, <2>1, <2>2, <2>3, <2>4, RelayActs DEF Eof
  <2>6. inbox[r] # <<>>
    <3>1. pc[r] = "rcpt"
      BY <1>0 DEF Reading
    <3> QED
      BY <2>5, <3>1, IdleStays
  <2>7. pc[r] = "rcpt" /\ (Is(r, "RCPT TO") \/ Is(r, "VRFY"))
    BY <1>0, <2>6 DEF Reading, Is, Says
  <2>8. RcptHere(r)
    BY <2>5, <2>7 DEF Own, ReadText, Helo, MailFrom, Quit, Rset, RsetDone, Data, Invalid, StartDone,
       ReadNothing, ReadDot, DotDone, QuitDone, Is
  <2> QED
    BY <1>0, <2>6, <2>8, RowNew
<1> QED
  BY <1>1, <1>2

\* Only its relays act, or none of its sessions.
LEMMA OwnersBeside ==
  ASSUME TypesInv, [Next]_vars, NEW c \in Client, NEW s, s = Of(c), Same(s),
         user'[c] = user[c], to'[c] = to[c], ok'[c] = ok[c],
         \A r \in Relay(s) : reply'[r] = reply[r] \/ SessionStep(r), Owners(c)
  PROVE  Owners(c)'
<1>1. Recvr(s)' = Recvr(s)
  BY DEF Same, Recvr
<1>2. OwnsAll(c)'
  BY <1>1, OwnsAllKept DEF Owners
<1>3. OwnsNext(c)'
  <2> PICK a : a = to[c]
    OBVIOUS
  <2> SUFFICES ASSUME user[c] \in {"RCPT TO", "VRFY"}
               PROVE  /\ inbox[s] # <<>> => Arg(s)' = a
                      /\ pc[s] \in Conn => ask[s].to = a
                      /\ reply[s] = "250 OK" => Owned(c, a)'
    BY DEF OwnsNext, Same, Conn
  <2>1. /\ inbox[s] # <<>> => Arg(s) = a
        /\ pc[s] \in Conn => ask[s].to = a
        /\ reply[s] = "250 OK" => Owned(c, a)
    BY DEF Owners, OwnsNext
  <2>2. Arg(s)' = Arg(s)
    BY DEF Arg, Same
  <2>3. reply[s] = "250 OK" => Owned(c, a)'
    BY <1>1, <2>1, OwnedKept DEF Sending
  <2> QED
    BY <2>1, <2>2, <2>3
<1>4. OwnsThere(c)'
  <2> PICK r : r = ask[s].relay
    OBVIOUS
  <2>1. pc[s] = "conn to" => r \in Relay(s)
    BY ConnectsTo
  <2> QED
    BY <2>1, ThereKept DEF Owners, Same
<1> QED
  BY <1>2, <1>3, <1>4 DEF Owners

LEMMA MovesSending ==
  ASSUME TypesInv, NEW c \in Client, Moves(c), user'[c] \in Sending
  PROVE  \/ user[c] \in Sending /\ ok'[c] = ok[c]
         \/ ok'[c] = {}
         \/ Accepted(c)
<1>0. DOMAIN user = Client /\ ClientTalk(c)
  BY Main DEF DialogTypes
<1>1. CASE FromAnswered(c)
  BY <1>0, <1>1 DEF FromAnswered, ClientTalk
<1>2. CASE AskTo(c) \/ StartData(c) \/ Type(c) \/ TypeDot(c) \/ DataStarted(c) \/ Refused(c)
  BY <1>2 DEF AskTo, StartData, Type, TypeDot, DataStarted, Refused, Sending
<1>3. CASE Die(c)
  BY <1>0, <1>3 DEF Die, Sending
<1>4. ~(Connect(c) \/ Retype(c) \/ GiveUp(c) \/ Hello(c) \/ Reset(c) \/ ResetDone(c) \/ Sent(c) \/ Bye(c)
        \/ ByeIgnored(c))
  BY <1>0 DEF Connect, Retype, GiveUp, Hello, Reset, ResetDone, Sent, Bye, ByeIgnored, Write, Sending
<1> QED
  BY <1>1, <1>2, <1>3, <1>4 DEF Moves, UserStep, ClientStep

LEMMA MovesAsking ==
  ASSUME TypesInv, NEW c \in Client, Moves(c), user'[c] \in {"RCPT TO", "VRFY"}
  PROVE  AskTo(c)
<1>0. DOMAIN user = Client
  BY Main DEF DialogTypes
<1>1. ~(Connect(c) \/ Retype(c) \/ GiveUp(c) \/ StartData(c) \/ Type(c) \/ TypeDot(c) \/ Die(c))
  BY <1>0 DEF Connect, Retype, GiveUp, StartData, Type, TypeDot, Die, Write
<1>2. ~(Hello(c) \/ FromAnswered(c) \/ Accepted(c) \/ Refused(c) \/ Reset(c) \/ ResetDone(c)
        \/ DataStarted(c) \/ Sent(c) \/ Bye(c) \/ ByeIgnored(c))
  BY <1>0 DEF Hello, FromAnswered, Accepted, Refused, Reset, ResetDone, DataStarted, Sent, Bye, ByeIgnored, Write
<1> QED
  BY <1>1, <1>2 DEF Moves, UserStep, ClientStep

LEMMA OwnersMoves ==
  ASSUME TypesInv, [Next]_vars, NEW c \in Client, NEW s, s = Of(c), Moves(c), Owners(c)
  PROVE  Owners(c)'
<1>0. /\ s \in Session /\ DOMAIN pc = Session /\ DOMAIN inbox = Session /\ DOMAIN reply = Session
      /\ DOMAIN user = Client /\ DOMAIN ok = Client /\ DialogTypes /\ ClientTalk(c)
      /\ to \in [Client -> Address \cup {Nobody}]
  BY Main DEF DialogTypes
<1>1. UNCHANGED <<recvr, ask>> /\ (UNCHANGED pc \/ (user[c] = "out" /\ Connect(c)))
  BY MovesFrom
<1>2. Recvr(s)' = Recvr(s)
  BY <1>1 DEF Recvr
<1>3. OwnsAll(c)'
  <2> SUFFICES ASSUME user'[c] \in Sending, NEW a \in ok'[c] PROVE Owned(c, a)'
    BY DEF OwnsAll
  <2>1. CASE user[c] \in Sending /\ ok'[c] = ok[c]
    BY <1>2, <2>1, OwnedKept DEF Owners, OwnsAll
  <2>2. CASE Accepted(c)
    <3>1. ok'[c] = ok[c] \cup {to[c]} /\ user[c] \in {"RCPT TO", "VRFY"} /\ reply[s] = "250 OK"
      BY <1>0, <2>2 DEF Accepted, Reads
    <3>2. Owned(c, a)
      BY <3>1 DEF Owners, OwnsAll, OwnsNext, Sending
    <3> QED
      BY <1>2, <3>1, <3>2, OwnedKept DEF Sending
  <2> QED
    BY <2>1, <2>2, MovesSending
<1>4. OwnsNext(c)'
  <2> SUFFICES ASSUME user'[c] \in {"RCPT TO", "VRFY"} PROVE OwnsNext(c)'
    BY DEF OwnsNext
  <2>1. AskTo(c)
    BY MovesAsking
  <2>2. PICK a, verb : inbox' = [inbox EXCEPT ![s] = Append(@, Command(verb, a))] /\ to' = [to EXCEPT ![c] = a]
    BY <2>1 DEF AskTo, Write
  <2>3. inbox[s] = <<>> /\ pc[s] = "rcpt" /\ reply[s] = Nothing
    <3>1. user[c] = "to"
      BY <2>1 DEF AskTo
    <3>2. Asked(s, "to")
      BY <1>0, <3>1 DEF ClientTalk, Dead, Asking, AskedOne
    <3> QED
      BY <3>2 DEF Asked, Idle
  <2>4. pc'[s] = "rcpt" /\ reply'[s] = Nothing
    BY <2>1, <2>3 DEF AskTo
  <2>5. inbox'[s] = <<Command(verb, a)>>
    <3>1. Append(<<>>, Command(verb, a)) = <<Command(verb, a)>>
      BY One
    <3> QED
      BY <1>0, <2>2, <2>3, <3>1
  <2>6. Arg(s)' = to'[c]
    <3>1. PICK w : w = Command(verb, a)
      OBVIOUS
    <3>2. Head(inbox'[s]) = w /\ w.arg = a
      BY <2>5, <3>1, One DEF Command
    <3>3. to'[c] = a
      BY <1>0, <2>2
    <3> QED
      BY <3>2, <3>3 DEF Arg
  <2> QED
    BY <2>4, <2>6 DEF OwnsNext, Conn, Nothing
<1>5. OwnsThere(c)'
  <2>1. CASE UNCHANGED pc
    <3> PICK r : r = ask[s].relay
      OBVIOUS
    <3>1. pc[s] = "conn to" => r \in Session /\ r # s
      BY ConnectsTo
    <3>2. pc[s] = "conn to" => reply'[r] = reply[r]
      BY <1>0, <3>1, MovesOthers DEF Same
    <3> QED
      BY <1>1, <2>1, <3>2, ThereKept DEF Owners
  <2>2. CASE Connect(c)
    <3>1. pc'[s] = "hello"
      BY <1>0, <2>2 DEF Connect
    <3> QED
      BY <3>1 DEF OwnsThere
  <2> QED
    BY <1>1, <2>1, <2>2
<1> QED
  BY <1>3, <1>4, <1>5 DEF Owners

LEMMA OwnersStep ==
  ASSUME TypesInv, RowsApart, [Next]_vars, NEW c \in Client, Owners(c)
  PROVE  Owners(c)'
<1>0. PICK s : s = Of(c) /\ s \in Session /\ Dialogs /\ TablesOK
  BY Main
<1>1. CASE SessionStep(s) /\ UNCHANGED clients
  <2>0. user' = user /\ ok' = ok
    BY <1>1 DEF clients
  <2>1. user[c] \in Sending => Recvr(s) \subseteq Recvr(s)'
    BY <1>0, <1>1, RsetWhen, RecvrGrows
  <2>2. OwnsAll(c)'
    BY <1>0, <2>0, <2>1, OwnsAllKept DEF Owners
  <2>3. OwnsNext(c)'
    <3>1. CASE user[c] \in {"RCPT TO", "VRFY"}
      BY <1>0, <1>1, <3>1, NextMain DEF Owners
    <3>2. CASE user[c] \notin {"RCPT TO", "VRFY"}
      BY <2>0, <3>2 DEF OwnsNext
    <3> QED
      BY <3>1, <3>2
  <2>4. OwnsThere(c)'
    BY <1>0, <1>1, ThereMain
  <2> QED
    BY <2>2, <2>3, <2>4 DEF Owners
<1>2. ASSUME NEW p \in Relay(s), SessionStep(p), UNCHANGED clients PROVE Owners(c)'
  <2>1. Alone(p) /\ p # s
    BY <1>0, <1>2, RelayStep, NotSelf
  <2>2. Same(s)
    BY <1>0, <2>1 DEF Alone
  <2>3. \A r \in Relay(s) : reply'[r] = reply[r] \/ SessionStep(r)
    BY <1>0, <1>2, <2>1, Parties DEF Alone, Same
  <2> QED
    BY <1>0, <1>2, <2>2, <2>3, OwnersBeside DEF clients
<1>3. CASE Moves(c)
  BY <1>0, <1>3, OwnersMoves
<1>4. CASE Still(c)
  <2>1. Same(s) /\ \A r \in Relay(s) : reply'[r] = reply[r]
    BY <1>0, <1>4, Parties DEF Still, Same
  <2> QED
    BY <1>0, <1>4, <2>1, OwnersBeside DEF Still
<1> QED
  BY <1>0, <1>1, <1>2, <1>3, <1>4, Actors
-----------------------------------------------------------------------------
(* A mail that was sent is delivered.                                        *)

\* Nothing more is written to the rows of a mail that is finished.
LEMMA FinishedQuiet ==
  ASSUME TypesInv, NEW c \in Client, Flow(c), Finished(c), NEW q \in Session, q[1] = c
  PROVE  pc[q] # "data"
<1> PICK s : s = Of(c)
  OBVIOUS
<1>0. /\ s \in Session /\ ClientTalk(c) /\ SessionOK(s) /\ AskOK(s)
      /\ \A r \in Relay(s) : RelayTalk(s, r)
  BY Main
<1>1. pc[s] \in {"rcpt", "quit", "from", "gone"} /\ (pc[s] = "gone" => user[c] # "cut")
  <2>1. CASE user[c] = "sent"
    <3>1. Asked(s, "QUIT")
      BY <1>0, <2>1 DEF ClientTalk, Dead, Asking, AskedOne
    <3> QED
      BY <2>1, <3>1 DEF Asked, Idle, Reading, Answered
  <2>2. CASE user[c] = "done"
    <3>1. Asked(s, "QUIT") \/ pc[s] = "gone"
      BY <1>0, <2>2 DEF ClientTalk, Dead, LeftBy, Adrift, AskedOne
    <3>2. Asked(s, "QUIT") => pc[s] \in {"rcpt", "quit", "from", "gone"}
      BY DEF Asked, Idle, Reading, Answered
    <3> QED
      BY <2>2, <3>1, <3>2
  <2>3. CASE user[c] = "." /\ pc[s] \in {"quit", "from"}
    BY <2>3
  <2> QED
    BY <2>1, <2>2, <2>3 DEF Finished
<1>2. CASE q # s
  <2>1. q \in Relay(s)
    BY <1>2, Parties
  <2>2. RelayTalk(s, q)
    BY <1>0, <2>1
  <2>3. CASE pc[s] = "gone"
    <3>1. ~Bodied(q)
      BY <1>1, <2>1, <2>3 DEF Flow
    <3> QED
      BY <3>1 DEF Bodied
  <2>4. CASE pc[s] # "gone" /\ ~(pc[s] \in Busy /\ q \in Recvr(s))
    <3>1. pc[s] \notin Conn
      BY <1>1, <2>4 DEF Conn
    <3> QED
      BY <2>2, <2>4, <3>1 DEF RelayTalk, Idle
  <2>5. CASE pc[s] \in {"rcpt", "quit"} /\ q \in Recvr(s)
    <3>1. AskedOne(q, InMail(s, q))
      BY <2>2, <2>5 DEF RelayTalk, Busy, Conn
    <3>2. InMail(s, q) \subseteq {Between(s)} \cup Exchanges(s) \cup {Before(verb) : verb \in Exchanges(s)}
      BY <1>0, InMailAt DEF SessionOK
    <3>3. InMail(s, q) \subseteq {"to", "over", "QUIT", "mailed"}
      BY <2>5, <3>2 DEF Between, Exchanges, Before, Conn
    <3>4. PICK verb \in {"to", "over", "QUIT", "mailed"} : Asked(q, verb)
      BY <3>1, <3>3 DEF AskedOne
    <3> QED
      BY <3>4 DEF Asked, Idle, Reading, Answered
  <2> QED
    BY <1>1, <2>3, <2>4, <2>5 DEF Busy, Conn
<1> QED
  BY <1>1, <1>2

LEMMA DeliveredKept ==
  ASSUME TypesInv, RowsApart, [Next]_vars, NEW c \in Client, Flow(c), Finished(c), Delivered(c), ok'[c] = ok[c]
  PROVE  Delivered(c)'
<1> SUFFICES ASSUME NEW a \in ok[c]
             PROVE  \E n \in Copies(c, a)' : n \in removed'[Home[a]] \/ data'[Home[a]][n].message = Body(c)
  BY DEF Delivered, Body
<1>1. PICK d : d = Home[a] /\ d \in Domain
  BY DEF Delivered
<1>2. PICK n : n \in Copies(c, a) /\ (n \in removed[d] \/ data[d][n].message = Body(c))
  BY <1>1 DEF Delivered
<1>3. n \in Keys(d) /\ data[d][n].mail = c /\ data[d][n].receiver = a
  BY <1>1, <1>2 DEF Copies
<1>4. n \in Copies(c, a)'
  BY <1>1, <1>3, RowsFollow DEF Copies
<1>5. CASE n \in removed[d]
  BY <1>1, <1>4, <1>5, RemovedGrows
<1>6. CASE data[d][n].message = Body(c)
  <2>1. ASSUME NEW p \in Session, ReadText(p) \/ ReadNothing(p)
        PROVE  data'[d][n].message = data[d][n].message
    <3>1. pc[p] = "data"
      BY <2>1 DEF ReadText, ReadNothing
    <3>2. p[1] # c
      BY <3>1, FinishedQuiet
    <3>3. d # srv[p] \/ n \notin Ids(p)
      BY <1>3, <3>2 DEF RowsApart, OwnRows
    <3> QED
      BY <1>1, <1>3, <2>1, <3>3, ReadRows
  <2>2. data'[d][n].message = data[d][n].message
    BY <1>1, <1>3, <2>1, Muted
  <2> QED
    BY <1>1, <1>4, <1>6, <2>2
<1> QED
  BY <1>2, <1>5, <1>6

LEMMA DotDelivered ==
  ASSUME TypesInv, RowsApart, NEW c \in Client, NEW s, s = Of(c), DotDone(s), user[c] = ".",
         UNCHANGED clients, Flow(c), Owners(c)
  PROVE  Delivered(c)'
<1>0. s \in Session /\ s[1] = c /\ SessionOK(s) /\ Dialogs /\ \A r \in Relay(s) : RelayTalk(s, r)
  BY Main
<1>1. pc[s] = "dot" /\ work[s] = <<>> /\ ok' = ok /\ data' = data /\ removed' = removed
  BY DEF DotDone, clients, tables
<1>2. Recvr(s) \subseteq Relay(s)
  BY <1>0, <1>1, RecvrRelays DEF Busy
<1>3. ASSUME NEW r \in Recvr(s) PROVE Holds(r, MaxLines, 0)
  <2>1. RelayTalk(s, r)
    BY <1>0, <1>2, <1>3
  <2>2. Asked(r, Between(s))
    BY <1>1, <1>3, <2>1, TalkAt DEF Busy, Conn
  <2>3. Between(s) = "mailed"
    BY <1>1 DEF Between, Conn
  <2>4. ~Bodied(r)
    BY <2>2, <2>3 DEF Asked, Idle, Bodied
  <2>5. Finishing(s, r)
    BY <1>1, <1>3 DEF Flow
  <2> QED
    BY <2>4, <2>5 DEF Finishing
<1>4. Holds(s, MaxLines, 0)
  BY <1>1 DEF Flow
<1>5. Part(c, 0, MaxLines) \o Blanks(0) = Body(c)
  <2>1. 0 \in 0 .. MaxLines
    BY SmtpConstants
  <2>2. Part(c, 0, MaxLines) = Body(c)
    BY <2>1, PartBody
  <2>3. Body(c) \o <<>> = Body(c)
    BY FullSeq, ConcatProperties
  <2> QED
    BY <2>2, <2>3, NoBlanks
<1>6. ASSUME NEW a \in ok[c]
      PROVE  /\ Home[a] \in Domain
             /\ \E n \in Copies(c, a) : n \in removed[Home[a]] \/ data[Home[a]][n].message = Body(c)
  <2>1. Owned(c, a)
    BY <1>6 DEF Owners, OwnsAll, Sending
  <2>2. PICK q \in {s} \cup Recvr(s) : RowFor(q, a)
    BY <2>1 DEF Owned
  <2>3. q \in Session /\ q[1] = c /\ Holds(q, MaxLines, 0)
    BY <1>0, <1>2, <1>3, <1>4, <2>2, Parties
  <2>4. PICK n \in Ids(q) : srv[q] = Home[a] /\ data[srv[q]][n].receiver = a
    BY <2>2 DEF RowFor
  <2>5. srv[q] \in Domain /\ n \in Keys(srv[q]) /\ data[srv[q]][n].mail = c
    BY <2>3, <2>4, IdsKnown DEF RowsApart, OwnRows
  <2>6. n \in removed[srv[q]] \/ data[srv[q]][n].message = Body(c)
    BY <1>5, <2>3, <2>4 DEF Holds
  <2> QED
    BY <2>4, <2>5, <2>6 DEF Copies
<1> QED
  BY <1>1, <1>6 DEF Delivered, Copies, Keys, Body

LEMMA DeliveredStep ==
  ASSUME TypesInv, RowsApart, [Next]_vars, NEW c \in Client, Flow(c), Owners(c),
         Finished(c) => Delivered(c), Finished(c)'
  PROVE  Delivered(c)'
<1> PICK s : s = Of(c)
  OBVIOUS
<1>0. /\ s \in Session /\ DOMAIN pc = Session /\ DOMAIN user = Client /\ DialogTypes /\ ClientTalk(c)
      /\ SessionOK(s)
  BY Main DEF DialogTypes
<1>1. ASSUME user[c] = "." PROVE Asked(s, ".")
  BY <1>0, <1>1 DEF ClientTalk, Dead, Asking, AskedOne
<1>2. CASE Moves(c)
  <2>1. user'[c] \in {"sent", "done", "."}
    BY DEF Finished
  <2>2. CASE Sent(c)
    <3>1. user[c] = "." /\ reply[s] = "250 OK"
      BY <2>2 DEF Sent, Reads
    <3>2. pc[s] \in {"quit", "from"}
      BY <1>1, <3>1 DEF Asked, Taking, Idle, Answered, Nothing
    <3>3. ok' = ok
      BY <2>2 DEF Sent
    <3> QED
      BY <3>1, <3>2, <3>3, DeliveredKept DEF Finished
  <2>3. CASE TypeDot(c)
    <3>1. user[c] = "body" /\ user'[c] = "." /\ pc' = pc
      BY <1>0, <2>3 DEF TypeDot, Write
    <3>2. Asked(s, "body")
      BY <1>0, <3>1 DEF ClientTalk, Dead, Asking, AskedOne
    <3>3. pc[s] \in {"start", "data"}
      BY <3>2 DEF Asked, Taking
    <3> QED
      BY <3>1, <3>3 DEF Finished
  <2>4. CASE Bye(c) \/ Die(c)
    <3>1. user[c] = "sent"
      BY <1>0, <2>1, <2>4 DEF Bye, Die
    <3>2. ok' = ok
      BY <2>4 DEF Bye, Die
    <3> QED
      BY <3>1, <3>2, DeliveredKept DEF Finished
  <2>5. ~(Connect(c) \/ Retype(c) \/ AskTo(c) \/ GiveUp(c) \/ StartData(c) \/ Type(c))
    BY <1>0, <2>1 DEF Connect, Retype, AskTo, GiveUp, StartData, Type, Write
  <2>6. ~(Hello(c) \/ FromAnswered(c) \/ Accepted(c) \/ Refused(c) \/ Reset(c) \/ ResetDone(c)
          \/ DataStarted(c) \/ ByeIgnored(c))
    BY <1>0, <2>1 DEF Hello, FromAnswered, Accepted, Refused, Reset, ResetDone, DataStarted, ByeIgnored, Write
  <2> QED
    BY <1>2, <2>2, <2>3, <2>4, <2>5, <2>6 DEF Moves, UserStep, ClientStep
<1>3. CASE UNCHANGED clients \/ Still(c)
  <2>1. ok'[c] = ok[c] /\ user'[c] = user[c]
    BY <1>3 DEF clients, Still
  <2>2. CASE Finished(c)
    BY <2>1, <2>2, DeliveredKept
  <2>3. CASE ~Finished(c)
    <3>1. user[c] = "." /\ pc[s] \notin {"quit", "from"} /\ pc'[s] \in {"quit", "from"}
      BY <2>1, <2>3 DEF Finished
    <3>2. pc[s] \in {"start", "data", "dot"} /\ reply[s] = Nothing
      BY <1>1, <3>1 DEF Asked, Taking, Idle, Answered
    <3>3. SessionStep(s)
      BY <1>0, <3>1, <3>2, Begins
    <3>5. ~(RelayAsk(s) \/ RelayAnswered(s))
      BY <3>1 DEF RelayAsk, RelayAnswered
    <3>6. DotDone(s)
      BY <1>0, <3>1, <3>2, <3>3, <3>5 DEF SessionStep, Helo, MailFrom, Quit, Eof, RcptHere, RcptThere, AskedFor,
         RelayHello, RelayFrom, RelayTo, RelayRset, Rset, RsetDone, Data, Invalid, StartDone, ReadText,
         ReadNothing, ReadDot, QuitDone, sessions
    <3>7. UNCHANGED clients
      BY <3>6 DEF DotDone
    <3> QED
      BY <3>1, <3>6, <3>7, DotDelivered
  <2> QED
    BY <2>2, <2>3
<1> QED
  BY <1>2, <1>3, Actors
-----------------------------------------------------------------------------
(* The rows, when a read returns one write.                                  *)

\* A relay that takes a body belongs to the mail its session takes, or relays,
\* or has been left in it.
LEMMA RelayTaking ==
  ASSUME TypesInv, NEW c \in Client, NEW s, s = Of(c), NEW r \in Relay(s), Bodied(r), pc[s] # "gone"
  PROVE  pc[s] \in {"start", "data", "dot"} /\ r \in Recvr(s) /\ ~Hung(r)
<1>0. SessionOK(s) /\ AskOK(s) /\ RelayTalk(s, r) /\ ~Hung(r) /\ r \in Session
  BY Main
<1>1. \A verb : Asked(r, verb) => verb \in {"DATA", "body", "."}
  BY DEF Asked, Idle, Reading, Answered, Bodied, Conn
<1>2. ~(pc[s] \in Conn /\ r = ask[s].relay)
  <2> SUFFICES ASSUME pc[s] \in Conn, r = ask[s].relay PROVE FALSE
    OBVIOUS
  <2>1. Asked(r, Connecting(s))
    BY <1>0 DEF RelayTalk, AskedOne
  <2>2. Connecting(s) \in {"hello", "HELO", "MAIL FROM", "RCPT TO", "VRFY", "RSET"}
    BY <1>0 DEF Connecting, Conn, AskOK
  <2> QED
    BY <1>1, <2>1, <2>2
<1>3. pc[s] \in Busy /\ r \in Recvr(s)
  BY <1>0, <1>2 DEF RelayTalk, Idle, Bodied
<1>4. AskedOne(r, InMail(s, r))
  BY <1>0, <1>2, <1>3 DEF RelayTalk
<1>5. InMail(s, r) \subseteq {Between(s)} \cup Exchanges(s) \cup {Before(verb) : verb \in Exchanges(s)}
  BY <1>0, InMailAt DEF SessionOK
<1>6. pc[s] \in {"rcpt", "quit", "rset"} \cup Conn =>
        InMail(s, r) \subseteq {"to", "over", "QUIT", "mailed", "RSET"}
  BY <1>5 DEF Between, Exchanges, Before, Conn
<1>7. pc[s] \notin {"rcpt", "quit", "rset"} \cup Conn
  BY <1>1, <1>4, <1>6 DEF AskedOne
<1> QED
  BY <1>0, <1>3, <1>7 DEF Busy, Conn

\* What a session that reads a body has been written has been typed.
Within(q, c, k, m, b) ==
  /\ Reached(q, k, m, b)
  /\ m <= MaxLines => m <= typed[c]
  /\ m = MaxLines + 1 => typed[c] = MaxLines
  /\ k = m /\ Hung(q) => user[c] = "cut" /\ k = typed[c]

LEMMA Reading1 ==
  ASSUME TypesInv, ~Glued, NEW c \in Client, Flow(c), Counts(c), NEW q \in Session, q[1] = c, pc[q] = "data"
  PROVE  \E m \in 0 .. MaxLines + 1 : \E k \in 0 .. m, b \in Nat : Within(q, c, k, m, b)
<1> PICK s : s = Of(c)
  OBVIOUS
<1>0. s \in Session /\ s[1] = c /\ s[2] = 0 /\ MaxLines \in Nat /\ Dialogs
  BY Main
<1>1. typed[c] \in 0 .. MaxLines /\ Uttered(c) \in 0 .. MaxLines + 1
  BY <1>0, Uttering
<1>2. ASSUME Bodied(s) PROVE Uttered(c) = typed[c] \/ typed[c] = MaxLines
  BY <1>1, <1>2 DEF Uttered, Counts
<1>3. CASE q = s
  <2>1. Bodied(s)
    BY <1>3 DEF Bodied
  <2>2. PICK k \in 0 .. Uttered(c), b \in Nat : Passing(c, k, b)
    BY <2>1 DEF Flow
  <2>3. PICK m \in 0 .. MaxLines + 1 : m = Uttered(c)
    BY <1>1
  <2>4. Reached(q, k, m, b)
    BY <1>3, <2>2, <2>3 DEF Passing
  <2>5. k <= MaxLines
    BY <2>4 DEF Reached
  <2>6. m <= MaxLines => m <= typed[c]
    BY <1>0, <1>1, <1>2, <2>1, <2>3
  <2>7. m = MaxLines + 1 => typed[c] = MaxLines
    BY <1>0, <1>1, <1>2, <2>1, <2>3
  <2>8. ASSUME k = m, Hung(q) PROVE user[c] = "cut" /\ k = typed[c]
    <3>1. user[c] \in {"left", "cut", "done"}
      BY <1>0, <1>3, <2>8 DEF Hung
    <3>2. user[c] # "done"
      BY <1>0, FinishedQuiet DEF Finished
    <3>3. user[c] # "left"
      <4> SUFFICES ASSUME user[c] = "left" PROVE FALSE
        OBVIOUS
      <4>1. typed[c] = MaxLines /\ m = typed[c] + 1
        BY <2>1, <2>3 DEF Counts, Uttered
      <4> QED
        BY <1>0, <2>5, <2>8, <4>1
    <3>4. user[c] = "cut"
      BY <3>1, <3>2, <3>3
    <3>5. Uttered(c) = typed[c]
      BY <1>1, <3>4 DEF Uttered
    <3> QED
      BY <2>3, <2>8, <3>4, <3>5
  <2> QED
    BY <2>2, <2>3, <2>4, <2>6, <2>7, <2>8 DEF Within
<1>4. CASE q # s
  <2>1. q \in Relay(s) /\ Bodied(q) /\ (Hung(q) <=> pc[s] = "gone")
    <3>1. q \in Relay(s)
      BY <1>0, <1>4, Parties
    <3> QED
      BY <3>1, Main DEF Bodied
  <2>2. ASSUME NEW m \in 0 .. MaxLines + 1, Fed(q, m), m <= MaxLines => m <= typed[c],
               m = MaxLines + 1 => typed[c] = MaxLines,
               Hung(q) => user[c] = "cut" /\ m = typed[c]
        PROVE  \E x \in 0 .. MaxLines + 1 : \E k \in 0 .. x, b \in Nat : Within(q, c, k, x, b)
    <3>1. PICK k \in 0 .. m, b \in Nat : Reached(q, k, m, b)
      BY <2>1, <2>2 DEF Fed
    <3>2. Within(q, c, k, m, b)
      BY <2>2, <3>1 DEF Within
    <3> QED
      BY <3>2
  <2>3. CASE pc[s] = "gone"
    <3>1. user[c] = "cut" /\ typed[c] = 0 /\ Fed(q, 0)
      BY <2>1, <2>3 DEF Flow
    <3>2. 0 \in 0 .. MaxLines + 1 /\ 0 # MaxLines + 1 /\ 0 <= typed[c]
      BY <1>0, <1>1
    <3> QED
      BY <2>2, <3>1, <3>2
  <2>4. CASE pc[s] # "gone"
    <3>1. pc[s] \in {"start", "data", "dot"} /\ q \in Recvr(s) /\ ~Hung(q)
      BY <2>1, <2>4, RelayTaking
    <3>2. CASE Bodied(s)
      <4>1. PICK k \in 0 .. Uttered(c), b \in Nat : Passing(c, k, b)
        BY <3>2 DEF Flow
      <4>2. Fed(q, k) /\ k <= MaxLines
        BY <3>1, <4>1 DEF Passing, Reached
      <4>3. k \in 0 .. MaxLines + 1 /\ k # MaxLines + 1 /\ k <= typed[c]
        BY <1>0, <1>1, <1>2, <3>2, <4>2
      <4> QED
        BY <2>2, <3>1, <4>2, <4>3
    <3>3. CASE pc[s] = "dot"
      <4>1. typed[c] = MaxLines /\ Finishing(s, q)
        BY <3>1, <3>3 DEF Flow
      <4>2. PICK m \in 0 .. MaxLines + 1 : m = MaxLines + (IF DotTold(s, q) THEN 1 ELSE 0)
        BY <1>0
      <4>3. Fed(q, m)
        BY <2>1, <4>1, <4>2 DEF Finishing
      <4> QED
        BY <2>2, <3>1, <4>1, <4>3
    <3> QED
      BY <3>1, <3>2, <3>3 DEF Bodied
  <2> QED
    BY <2>3, <2>4
<1> QED
  BY <1>3, <1>4
\* A copy holds lines of the body, and empty lines only of a client that was cut off.
Faithful(c, message) ==
  \E k \in 0 .. typed[c], blanks \in 0 .. MaxBlanks + MaxLines :
    /\ message = SubSeq(Body(c), 1, k) \o Blanks(blanks)
    /\ blanks > 0 => user[c] = "cut" /\ k = typed[c]

LEMMA TypedGrows ==
  ASSUME TypesInv, RowsApart, [Next]_vars, NEW c \in Client
  PROVE  /\ typed[c] \in 0 .. MaxLines /\ typed'[c] \in Nat /\ typed[c] <= typed'[c] /\ MaxLines \in Nat
         /\ user[c] = "cut" => user'[c] = "cut" /\ typed'[c] = typed[c]
<1>0. typed \in [Client -> 0 .. MaxLines] /\ MaxLines \in Nat
  BY Main DEF DialogTypes
<1>1. CASE user'[c] = user[c] /\ typed'[c] = typed[c]
  BY <1>0, <1>1
<1>2. CASE Moves(c)
  <2>1. user[c] # "cut" /\ (Type(c) \/ UNCHANGED typed)
    BY <1>2, MovesFrom DEF Dead
  <2>2. CASE Type(c)
    BY <1>0, <2>1, <2>2 DEF Type
  <2>3. CASE UNCHANGED typed
    BY <1>0, <2>1, <2>3
  <2> QED
    BY <2>1, <2>2, <2>3
<1>3. Moves(c) \/ (user'[c] = user[c] /\ typed'[c] = typed[c])
  BY Actors DEF clients, Still
<1> QED
  BY <1>1, <1>2, <1>3

LEMMA FaithfulSame ==
  ASSUME TypesInv, RowsApart, [Next]_vars, NEW c \in Client, NEW message, Faithful(c, message)
  PROVE  Faithful(c, message)'
<1>1. PICK k \in 0 .. typed[c], b \in 0 .. MaxBlanks + MaxLines :
        /\ message = SubSeq(Body(c), 1, k) \o Blanks(b)
        /\ b > 0 => user[c] = "cut" /\ k = typed[c]
  BY DEF Faithful
<1>2. k \in 0 .. typed'[c] /\ (b > 0 => user'[c] = "cut" /\ k = typed'[c])
  BY <1>1, TypedGrows
<1> QED
  BY <1>1, <1>2 DEF Faithful, Body, Blanks

\* What a read leaves in the rows of a session.
LEMMA FaithfulRead ==
  ASSUME TypesInv, RowsApart, [Next]_vars, ~Glued, NEW c \in Client, Flow(c), Counts(c),
         NEW q \in Session, q[1] = c, ReadText(q) \/ ReadNothing(q),
         NEW n \in Ids(q), n \notin removed[srv[q]], NEW d, d = srv[q]
  PROVE  Faithful(c, data[d][n].message)'
<1>0. MaxLines \in Nat /\ Dialogs /\ MaxBlanks \in Nat
  BY Main, SmtpConstants
<1>1. pc[q] = "data" /\ UNCHANGED <<removed, srv, recvr_id>> /\ UNCHANGED clients
  BY DEF ReadText, ReadNothing, sessions
<1>2. user' = user /\ typed' = typed /\ typed[c] \in 0 .. MaxLines
  BY <1>1, TypedGrows DEF clients
<1>3. PICK m \in 0 .. MaxLines + 1 : \E k \in 0 .. m, b \in Nat : Within(q, c, k, m, b)
  BY <1>1, Reading1
<1>4. PICK k \in 0 .. m, b \in Nat : Within(q, c, k, m, b)
  BY <1>3
<1>5. /\ Spelt(inbox[q], c, k, m) /\ Holds(q, k, b) /\ k <= MaxLines
      /\ b > 0 => k = m /\ Hung(q)
  BY <1>4 DEF Within, Reached
<1>6. Ids(q)' = Ids(q)
  BY <1>1 DEF Ids
<1>7. SUFFICES ASSUME NEW j \in 0 .. typed[c], NEW x \in 0 .. MaxBlanks + MaxLines, Holds(q, j, x)',
                      x > 0 => user[c] = "cut" /\ j = typed[c]
               PROVE  Faithful(c, data[d][n].message)'
  <2>1. CASE ReadText(q)
    <3>1. PICK S : S = Lines
      OBVIOUS
    <3>2. inbox[q] \in Seq(S)
      BY <1>0, <1>1, <3>1, BodiedInbox DEF Bodied
    <3>3. inbox[q] # <<>>
      <4>1. PICK i : i \in Readable(q)
        BY <2>1 DEF ReadText
      <4> QED
        BY <4>1, One DEF Readable
    <3>4. k < m
      BY <1>5, <3>2, <3>3, SpeltSome
    <3>5. b = 0
      BY <1>5, <3>4
    <3>6. m <= MaxLines + 1 /\ m \in Nat /\ k \in Nat /\ Holds(q, k, 0)
      BY <1>0, <1>5, <3>5
    <3>7. PICK j \in k + 1 .. m : Holds(q, j, 0)' /\ (~Glued => j = k + 1 /\ j <= MaxLines)
      BY <1>5, <2>1, <3>2, <3>6, TextRead
    <3>8. j \in 0 .. typed[c]
      BY <1>0, <1>2, <1>4, <3>6, <3>7 DEF Within
    <3>9. PICK x \in 0 .. MaxBlanks + MaxLines : x = 0 /\ Holds(q, j, x)' /\ ~(x > 0)
      BY <1>0, <3>7
    <3> QED
      BY <1>7, <3>8, <3>9
  <2>2. CASE ReadNothing(q)
    <3>1. inbox[q] = <<>> /\ Hung(q)
      BY <2>2 DEF ReadNothing
    <3>2. k = m
      BY <1>5, <3>1, SpeltNone
    <3>3. user[c] = "cut" /\ k = typed[c]
      BY <1>4, <3>1, <3>2 DEF Within
    <3>4. k \in 0 .. MaxLines + 1
      BY <1>0, <1>5
    <3>5. Holds(q, k, b + 1)'
      BY <1>5, <2>2, <3>4, NothingHeld
    <3>6. b + 1 \in 0 .. MaxBlanks + MaxLines
      <4>1. n \in Known(q)
        BY DEF Ids, Known
      <4>2. Len(data[srv[q]][n].message) < MaxLines + MaxBlanks
        BY <2>2, <4>1 DEF ReadNothing, Known
      <4>3. data[srv[q]][n].message = Part(c, 0, k) \o Blanks(b)
        BY <1>5 DEF Holds
      <4>4. Len(Part(c, 0, k)) = k /\ Part(c, 0, k) \in Seq(Piece)
        BY <3>4, PartSeq
      <4>5. Len(Blanks(b)) = b /\ Blanks(b) \in Seq({Empty})
        BY BlanksSeq
      <4>6. PICK u, v : u = Part(c, 0, k) /\ v = Blanks(b)
        OBVIOUS
      <4>7. Len(u \o v) = k + b
        <5>1. PICK S : S = Piece \cup {Empty}
          OBVIOUS
        <5>2. Piece \subseteq S /\ {Empty} \subseteq S
          BY <5>1
        <5>3. u \in Seq(S) /\ v \in Seq(S)
          BY <4>4, <4>5, <4>6, <5>2, SeqMonotonic
        <5>4. Len(u \o v) = Len(u) + Len(v)
          BY <5>3, ConcatProperties
        <5> QED
          BY <4>4, <4>5, <4>6, <5>4
      <4>8. k + b < MaxLines + MaxBlanks
        BY <4>2, <4>3, <4>6, <4>7
      <4> QED
        BY <1>0, <4>8
    <3>7. PICK x \in 0 .. MaxBlanks + MaxLines : x = b + 1 /\ Holds(q, k, x)'
      BY <3>5, <3>6
    <3>8. k \in 0 .. typed[c]
      BY <3>3
    <3> QED
      BY <1>7, <3>3, <3>7, <3>8
  <2> QED
    BY <2>1, <2>2
<1>8. data'[d][n].message = Part(c, 0, j) \o Blanks(x)
  BY <1>1, <1>6, <1>7 DEF Holds, Part, Full, Body, Blanks
<1>9. Part(c, 0, j) = SubSeq(Body(c), 1, j)
  <2>1. j \in 0 .. MaxLines
    BY <1>0, <1>2
  <2> QED
    BY <2>1, PartBody
<1> QED
  BY <1>2, <1>7, <1>8, <1>9 DEF Faithful, Body, Blanks

AllFaithful == \A d \in Domain : \A n \in Keys(d) : Faithful(data[d][n].mail, data[d][n].message)

LEMMA CopiesFaithful == CopiesAreFaithful <=> AllFaithful
  BY DEF CopiesAreFaithful, AllFaithful, Faithful, Blanks

LEMMA NothingFaithful ==
  ASSUME TypesInv, RowsApart, [Next]_vars, NEW c \in Client
  PROVE  Faithful(c, <<>>)'
<1>0. MaxLines \in Nat /\ MaxBlanks \in Nat /\ typed'[c] \in Nat
  BY SmtpConstants, TypedGrows
<1>1. Part(c, 0, 0) = <<>> /\ Part(c, 0, 0) = SubSeq(Body(c), 1, 0)
  BY <1>0, PartNone, PartBody
<1>2. Blanks(0) = <<>>
  BY NoBlanks
<1>3. <<>> = SubSeq(Body(c), 1, 0) \o Blanks(0)
  <2>1. <<>> \o <<>> = <<>>
    OBVIOUS
  <2> QED
    BY <1>1, <1>2, <2>1
<1>4. PICK k \in 0 .. typed'[c], b \in 0 .. MaxBlanks + MaxLines :
        k = 0 /\ b = 0 /\ <<>> = SubSeq(Body(c), 1, k) \o Blanks(b)
  BY <1>0, <1>3
<1> QED
  BY <1>4 DEF Faithful, Body, Blanks

LEMMA CopiesStep ==
  ASSUME TypesInv, RowsApart, [Next]_vars, ~Glued,
         \A c \in Client : Flow(c) /\ Counts(c), AllFaithful
  PROVE  AllFaithful'
<1>0. Dialogs /\ MeantInv /\ TablesOK /\ RowsOK
  BY DEF TypesInv, MeantInv
<1> SUFFICES ASSUME NEW d \in Domain, NEW n \in Keys(d)'
             PROVE  Faithful(data[d][n].mail, data[d][n].message)'
  BY DEF AllFaithful
<1>1. PICK c, text : c = data'[d][n].mail /\ text = data'[d][n].message
  OBVIOUS
<1>2. SUFFICES Faithful(c, text)'
  BY <1>1 DEF Faithful, Body, Blanks
<1>3. CASE n \notin Keys(d)
  <2>1. Extends(d, data[d], data'[d])
    BY <1>0, AllExtend
  <2>2. n \in 1 .. Len(data'[d]) /\ n > Len(data[d])
    BY <1>0, <1>3 DEF Keys, TablesOK, Table
  <2>3. c \in Client /\ text = <<>>
    BY <1>1, <2>1, <2>2 DEF Extends, RowOK
  <2>4. Faithful(c, <<>>)'
    BY <2>3, NothingFaithful
  <2> QED
    BY <2>3, <2>4 DEF Faithful, Body, Blanks
<1>4. CASE n \in Keys(d)
  <2>1. data[d][n].mail = c /\ c \in Client
    BY <1>0, <1>1, <1>4, RowsFollow DEF RowsOK, RowOK
  <2>2. PICK was : was = data[d][n].message
    OBVIOUS
  <2>3. Faithful(c, was)
    BY <1>4, <2>1, <2>2 DEF AllFaithful
  <2>4. CASE text = was
    <3>1. Faithful(c, was)'
      BY <2>1, <2>3, FaithfulSame
    <3> QED
      BY <2>4, <3>1 DEF Faithful, Body, Blanks
  <2>5. CASE text # was
    <3>1. PICK p \in Session : ReadText(p) \/ ReadNothing(p)
      BY <1>1, <1>4, <2>2, <2>5, Muted
    <3>2. d = srv[p] /\ n \in Ids(p)
      BY <1>1, <1>4, <2>2, <2>5, <3>1, ReadRows
    <3>3. n \notin removed[srv[p]]
      <4>1. PICK keys : keys = {recvr_id[p][k] : k \in 1 .. Len(recvr_id[p])}
        OBVIOUS
      <4>2. PICK words : Updates(srv[p], keys, words)
        BY <3>1, <4>1 DEF ReadText, ReadNothing, Updates
      <4>3. \/ ~(n \in removed[d])
            \/ data'[d][n].message = data[d][n].message
        BY <1>0, <1>4, <4>2, Updated
      <4> QED
        BY <1>1, <2>2, <2>5, <3>2, <4>3
    <3>4. p[1] = c
      BY <2>1, <3>2 DEF RowsApart, OwnRows
    <3>5. Flow(c) /\ Counts(c)
      BY <2>1
    <3>6. Faithful(c, data[d][n].message)'
      BY <2>1, <3>1, <3>2, <3>3, <3>4, <3>5, FaithfulRead
    <3> QED
      BY <1>1, <3>6 DEF Faithful, Body, Blanks
  <2> QED
    BY <2>4, <2>5
<1> QED
  BY <1>3, <1>4

LEMMA LinesStep ==
  ASSUME TypesInv, LinesInv, [Next]_vars
  PROVE  LinesInv'
<1>0. /\ RowsApart /\ \A q \in Session : Unwritten(q)
      /\ \A c \in Client : Flow(c) /\ Counts(c) /\ Owners(c) /\ (Finished(c) => Delivered(c))
      /\ ~Glued => AllFaithful
  BY CopiesFaithful DEF LinesInv
<1>1. RowsApart'
  BY <1>0, RowsApartStep
<1>2. ASSUME NEW q \in Session PROVE Unwritten(q)'
  BY <1>0, UnwrittenStep
<1>3. ASSUME NEW c \in Client PROVE Flow(c)' /\ Counts(c)'
  BY <1>0, FlowStep
<1>4. ASSUME NEW c \in Client PROVE Owners(c)'
  BY <1>0, OwnersStep
<1>5. ASSUME NEW c \in Client, Finished(c)' PROVE Delivered(c)'
  BY <1>0, <1>5, DeliveredStep
<1>6. (~Glued => CopiesAreFaithful)'
  <2>1. CASE Glued
    BY <2>1
  <2>2. CASE ~Glued
    <3>1. AllFaithful'
      BY <1>0, <2>2, CopiesStep
    <3>2. CopiesAreFaithful'
      BY <3>1 DEF CopiesAreFaithful, AllFaithful, Faithful, Blanks, Keys, Body
    <3> QED
      BY <3>2
  <2> QED
    BY <2>1, <2>2
<1> QED
  BY <1>1, <1>2, <1>3, <1>4, <1>5, <1>6 DEF LinesInv

LEMMA LinesInit == Init => LinesInv
<1> SUFFICES ASSUME Init PROVE LinesInv
  OBVIOUS
<1>0. /\ recvr_id = [s \in Session |-> <<>>] /\ pc = [s \in Session |-> "closed"]
      /\ inbox = [s \in Session |-> <<>>] /\ ok = [c \in Client |-> {}]
      /\ user = [c \in Client |-> "out"] /\ typed = [c \in Client |-> 0]
      /\ data = [d \in Domain |-> <<>>]
  BY DEF Init, SmtpInit, MailboxesInit
<1>1. ASSUME NEW q \in Session PROVE Ids(q) = {} /\ pc[q] = "closed"
  BY <1>0 DEF Ids
<1>2. RowsApart
  BY <1>1 DEF RowsApart, OwnRows, Apart
<1>3. ASSUME NEW q \in Session PROVE Unwritten(q)
  BY <1>1 DEF Unwritten, Holds
<1>4. ASSUME NEW c \in Client
      PROVE  Flow(c) /\ Counts(c) /\ Owners(c) /\ (Finished(c) => Delivered(c))
  <2>1. Of(c) \in Session
    BY Parties
  <2>2. pc[Of(c)] = "closed" /\ user[c] = "out" /\ typed[c] = 0
    BY <1>0, <2>1
  <2>3. Flow(c)
    BY <2>2 DEF Flow, Bodied
  <2>4. Counts(c)
    BY <2>2 DEF Counts
  <2>5. Owners(c)
    BY <2>2 DEF Owners, OwnsAll, OwnsNext, OwnsThere, Sending
  <2>6. ~Finished(c)
    BY <2>2 DEF Finished
  <2> QED
    BY <2>3, <2>4, <2>5, <2>6
<1>5. CopiesAreFaithful
  <2>1. \A d \in Domain : Keys(d) = {}
    BY <1>0 DEF Keys
  <2> QED
    BY <2>1 DEF CopiesAreFaithful
<1> QED
  BY <1>2, <1>3, <1>4, <1>5 DEF LinesInv

\* How the mails are delivered: a body runs through the session of its client
\* and the sessions that relay for it in order, one piece after the other, and
\* no two sessions write to the same row.
LEMMA LinesHold == Spec => [](TypesInv /\ LinesInv)
<1>1. Init => TypesInv /\ LinesInv
  BY TypesInit, LinesInit
<1>2. TypesInv /\ LinesInv /\ [Next]_vars => (TypesInv /\ LinesInv)'
  BY TypesStep, LinesStep
<1> QED
  BY <1>1, <1>2, PTL DEF Spec

LEMMA SentDelivered == LinesInv => SentMeansDelivered
<1> SUFFICES ASSUME LinesInv, NEW c \in Client, user[c] \in {"sent", "done"}, NEW a \in ok[c]
             PROVE  \E n \in Copies(c, a) :
                      n \in removed[Home[a]] \/ data[Home[a]][n].message = Body(c)
  BY DEF SentMeansDelivered
<1>1. Delivered(c)
  BY DEF LinesInv, Finished
<1> QED
  BY <1>1 DEF Delivered

\* When the client prints that its mail was sent, every recipient the session
\* accepted, of its own server or of the other, has a row with the whole body,
\* or has deleted it: the 250 after the dot comes when the lines are in the
\* table and the relays have confirmed theirs (the body loop of env_server,
\* mail_rcpt, s2s_conn and send_mail), also where one read returns several
\* lines, which the session passes on as one.
THEOREM MailIsDelivered == Spec => []SentMeansDelivered
  BY LinesHold, SentDelivered, PTL

\* As long as a read returns one line, each row holds an initial part of the
\* body, every line once, and empty lines only of a client that was cut off
\* before the dot (update, which is called for every read of the body loop). It
\* is not so for Glued: a dot that is read with the line before it is no end of
\* the mail, and goes into the rows with that line.
THEOREM CopiesStayFaithful == ~Glued => (Spec => []CopiesAreFaithful)
<1>1. ~Glued /\ LinesInv => CopiesAreFaithful
  BY DEF LinesInv
<1>2. SUFFICES ASSUME ~Glued PROVE Spec => []CopiesAreFaithful
  OBVIOUS
<1>3. LinesInv => CopiesAreFaithful
  BY <1>1, <1>2
<1> QED
  BY <1>3, LinesHold, PTL
=============================================================================
