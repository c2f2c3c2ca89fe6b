---------------------------- MODULE TicketsProofs ---------------------------
(* What holds of Tickets for every train, every number of agents and every   *)
(* party.                                                                    *)
EXTENDS TicketsProperties, SequenceTheorems, FiniteSetTheorems,
        WellFoundedInduction, TLAPS

-----------------------------------------------------------------------------
(* The first of a set of berths, and of a set of coaches.                    *)

LEMMA Smallest ==
  ASSUME NEW S \in SUBSET Nat, S # {}
  PROVE  \E n \in S : \A m \in S : n <= m
<1>1. PICK n \in S : \A m \in S : <<m, n>> \notin OpToRel(<, Nat)
  BY WFMin, NatLessThanWellFounded
<1>2. ASSUME NEW m \in S PROVE n <= m
  <2>1. <<m, n>> \notin {ss \in Nat \X Nat : ss[1] < ss[2]}
    BY <1>1 DEF OpToRel
  <2>2. m \in Nat /\ n \in Nat
    OBVIOUS
  <2> QED
    BY <2>1, <2>2
<1> QED
  BY <1>2

LEMMA FirstOfPairs ==
  ASSUME NEW S \in SUBSET (Nat \X Nat), S # {}
  PROVE  \E p \in S : \A o \in S : Before(p, o)
<1> DEFINE C == {p[1] : p \in S}
<1>1. PICK c \in C : \A d \in C : c <= d
  <2>1. C \in SUBSET Nat /\ C # {}
    OBVIOUS
  <2> HIDE DEF C
  <2> QED
    BY <2>1, Smallest
<1> DEFINE K == {k \in Nat : <<c, k>> \in S}
<1>2. PICK k \in K : \A l \in K : k <= l
  <2>1. K \in SUBSET Nat /\ K # {}
    OBVIOUS
  <2> HIDE DEF K
  <2> QED
    BY <2>1, Smallest
<1>3. <<c, k>> \in S
  OBVIOUS
<1>4. ASSUME NEW o \in S PROVE Before(<<c, k>>, o)
  <2>1. c <= o[1] /\ o[1] \in Nat /\ o[2] \in Nat /\ o = <<o[1], o[2]>> /\ c \in Nat
    BY <1>1
  <2>2. o[1] = c => o[2] \in K
    BY <2>1
  <2> QED
    BY <1>2, <2>1, <2>2 DEF Before
<1> QED
  BY <1>3, <1>4

LEMMA FirstIn ==
  ASSUME NEW q \in Part, NEW S \in SUBSET Place(q), S # {}
  PROVE  First(S) \in S
<1>1. S \in SUBSET (Nat \X Nat)
  BY BerthsConstants DEF Place, Coach
<1> QED
  BY <1>1, FirstOfPairs DEF First

LEMMA NextCoachIn ==
  ASSUME NEW q \in Part, NEW met \in [Coach(q) -> Nat],
         NEW left \in SUBSET Coach(q), left # {}
  PROVE  NextCoach(met, left) \in left
<1> DEFINE S == {<<met[c], c>> : c \in left}
<1>1. S \in SUBSET (Nat \X Nat) /\ S # {}
  <2>1. \A c \in left : c \in Nat /\ met[c] \in Nat
    BY BerthsConstants DEF Coach
  <2>2. \A c \in left : <<met[c], c>> \in Nat \X Nat
    BY <2>1
  <2> QED
    BY <2>2
<1>2. PICK p \in S : \A o \in S : Before(p, o)
  BY <1>1, FirstOfPairs
<1>3. PICK c \in left : p = <<met[c], c>>
  BY <1>2
<1>4. \A d \in left : met[c] < met[d] \/ (met[c] = met[d] /\ c <= d)
  <2> TAKE d \in left
  <2>1. <<met[d], d>> \in S
    OBVIOUS
  <2>2. Before(<<met[c], c>>, <<met[d], d>>)
    BY <1>2, <1>3, <2>1
  <2> QED
    BY <2>2 DEF Before
<1> QED
  BY <1>4 DEF NextCoach

-----------------------------------------------------------------------------
(* Types. *)

Marks(t) == DOMAIN t = Part /\ \A q \in Part : t[q] \in [Place(q) -> 0 .. 2]

\* What an agent has sent is a request, as the server will parse it.
InboxFilled == \A a \in Agent : inbox[a] = "request" => request[a] \in Requests

TypeInv == TypeOK /\ InboxFilled

LEMMA RequestShape ==
  ASSUME NEW r \in Requests
  PROVE  /\ r.part \in Part
         /\ r.agent \in Agent
         /\ r.prefs \in Seq(Preferences)
         /\ Len(r.prefs) \in Nat \ {0}
<1>1. PICK a \in Agent, b \in Bookings, t \in 1 .. MaxTicks :
        r = [agent |-> a, part |-> b.part, prefs |-> b.prefs,
             seniors |-> b.seniors, t_stp |-> t]
  BY DEF Requests
<1>2. b.part \in Part /\ b.prefs \in Seq(Preferences) /\ b.prefs # <<>>
  BY TicketsConstants
<1>3. Len(b.prefs) \in Nat /\ Len(b.prefs) # 0
  BY <1>2, EmptySeq, LenProperties
<1> QED
  BY <1>1, <1>2, <1>3

\* The allocator at work: its request and its variables.
LEMMA Working ==
  ASSUME TypeOK, step # "idle"
  PROVE  /\ req \in Requests /\ req.part \in Part /\ Party \in Nat \ {0}
         /\ person \in [Passengers -> Place(req.part) \cup {None}]
         /\ j \in Coach(req.part) /\ i \in 1 .. Party + 1
         /\ i <= Party => i \in Passengers
         /\ Coaches[req.part] \in Nat \ {0}
<1>1. req \in Requests
  BY DEF TypeOK
<1>2. req.part \in Part /\ Party \in Nat \ {0}
  BY <1>1, RequestShape DEF Party
<1> QED
  BY <1>1, <1>2, BerthsConstants DEF TypeOK, Passengers

LEMMA SetMarks ==
  ASSUME Marks(t1), req.part \in Part, NEW p \in Place(req.part), NEW mark \in 0 .. 2
  PROVE  Marks(Set(p, mark))
BY DEF Marks, Set

LEMMA UndoneMarks ==
  ASSUME Marks(t1), req.part \in Part
  PROVE  Marks(Undone)
<1> DEFINE u == [p \in Place(req.part) |->
                   IF t1[req.part][p] = 2 THEN 0 ELSE t1[req.part][p]]
<1>1. t1[req.part] \in [Place(req.part) -> 0 .. 2]
  BY DEF Marks
<1>2. u \in [Place(req.part) -> 0 .. 2]
  BY <1>1
<1>3. Undone = [t1 EXCEPT ![req.part] = u]
  BY DEF Undone
<1> HIDE DEF u
<1> QED
  BY <1>2, <1>3 DEF Marks

LEMMA NobodyType ==
  ASSUME NEW prefs, NEW S
  PROVE  Nobody(prefs) \in [1 .. Len(prefs) -> S \cup {None}]
BY DEF Nobody

LEMMA TakeTypes ==
  ASSUME Marks(t1), req.part \in Part, i \in Passengers,
         person \in [Passengers -> Place(req.part) \cup {None}],
         NEW S \in SUBSET Place(req.part), Take(S)
  PROVE  Marks(t1') /\ person' \in [Passengers -> Place(req.part) \cup {None}]
<1>1. CASE S = {}
  BY <1>1 DEF Take
<1>2. CASE S # {}
  <2>1. First(S) \in Place(req.part)
    BY <1>2, FirstIn
  <2>2. t1' = Set(First(S), 2) /\ person' = [person EXCEPT ![i] = First(S)]
    BY <1>2 DEF Take
  <2> QED
    BY <2>1, <2>2, SetMarks
<1> QED
  BY <1>1, <1>2

\* The part of TypeOK about the allocator.
AllocatorOK ==
  /\ Marks(t1)
  /\ step \in {"idle", "each", "coach", "fill", "any", "rest", "commit",
               "booked", "refused"}
  /\ IF step = "idle"
     THEN req = Idle
     ELSE /\ req \in Requests
          /\ person \in [Passengers -> Place(req.part) \cup {None}]
          /\ j \in Coach(req.part)
          /\ i \in 1 .. Party + 1
          /\ flag \in Nat
          /\ flg \in [Coach(req.part) -> Nat]
          /\ tried \subseteq Coach(req.part)
  /\ stuck \in BOOLEAN

LEMMA CallTypes ==
  ASSUME AllocatorOK, NEW r \in Requests, Call(r)
  PROVE  AllocatorOK' /\ step' # "idle"
<1>1. r.part \in Part /\ Len(r.prefs) \in Nat \ {0}
  BY RequestShape
<1>2. /\ req' = r /\ step' = "each" /\ j' = 0 /\ i' = 1 /\ flag' = 0 /\ tried' = {}
      /\ stuck' = FALSE /\ t1' = t1
      /\ flg' = [c \in Coach(r.part) |-> 0] /\ person' = Nobody(r.prefs)
  BY DEF Call
<1>3. 0 \in Coach(r.part)
  BY <1>1, BerthsConstants DEF Coach
<1>4. person' \in [1 .. Len(r.prefs) -> Place(r.part) \cup {None}]
  BY <1>2, NobodyType
<1>5. flg' \in [Coach(r.part) -> Nat]
  BY <1>2
<1>6. 1 \in 1 .. Len(r.prefs) + 1
  BY <1>1
<1> QED
  BY <1>1, <1>2, <1>3, <1>4, <1>5, <1>6
  DEF AllocatorOK, Passengers, Party, Marks

LEMMA AllocateTypes ==
  ASSUME AllocatorOK, Allocate
  PROVE  AllocatorOK' /\ step # "idle" /\ step' # "idle" /\ req' = req
<1> DEFINE q == req.part
<1>1. step # "idle" /\ req' = req
  BY DEF Allocate, EachPassenger, AllMet, NotAllMet, CoachPassenger, CoachFill,
    FillPassenger, CoachHolds, CoachTooSmall, AnyPassenger, AnyRest,
    RestPassenger, NoBerth, RestHolds, Commit, Booked
<1>2. /\ req \in Requests /\ q \in Part /\ Party \in Nat \ {0}
      /\ person \in [Passengers -> Place(q) \cup {None}]
      /\ j \in Coach(q) /\ i \in 1 .. Party + 1
      /\ i <= Party => i \in Passengers /\ i + 1 \in 1 .. Party + 1
      /\ 1 \in 1 .. Party + 1
      /\ Coaches[q] \in Nat \ {0}
      /\ Marks(t1)
  <2>1. req \in Requests
    BY <1>1 DEF AllocatorOK
  <2>2. q \in Part /\ Party \in Nat \ {0}
    BY <2>1, RequestShape DEF Party
  <2> QED
    BY <1>1, <2>1, <2>2, BerthsConstants DEF AllocatorOK, Passengers
<1>3. Party' = Party /\ Passengers' = Passengers
  BY <1>1 DEF Party, Passengers
<1>4. /\ flag \in Nat /\ flg \in [Coach(q) -> Nat]
      /\ tried \subseteq Coach(q) /\ stuck \in BOOLEAN
  BY <1>1 DEF AllocatorOK
<1> DEFINE People == [Passengers -> Place(q) \cup {None}]
<1>5. \A c : FreeIn(c) \in SUBSET Place(q)
  BY DEF FreeIn, Free, In
<1>6. Free \in SUBSET Place(q) /\ In(2) \in SUBSET Place(q)
  BY DEF Free, In
<1>7. ASSUME step \in {"each", "coach", "fill", "any", "rest"}, i <= Party,
             NEW S \in SUBSET Place(q), Take(S), i' = i + 1,
             flag' = flag \/ Count(S),
             UNCHANGED <<step, j, flg, tried>>, stuck' \in BOOLEAN
      PROVE  AllocatorOK'
  <2>1. Marks(t1') /\ person' \in People
    BY <1>2, <1>7, TakeTypes
  <2>2. flag' \in Nat
    BY <1>4, <1>7 DEF Count
  <2> QED
    BY <1>1, <1>2, <1>3, <1>4, <1>7, <2>1, <2>2 DEF AllocatorOK, Marks
<1>8. ASSUME UNCHANGED <<t1, person, j, flag, tried, stuck>>,
             flg' \in [Coach(q) -> Nat], i' \in 1 .. Party + 1,
             step' \in {"fill", "rest", "commit", "booked"}
      PROVE  AllocatorOK'
  BY <1>1, <1>2, <1>3, <1>4, <1>8 DEF AllocatorOK, Marks
<1>9. ASSUME t1' = Undone, i' = 1 \/ i' = i, flag' \in Nat, stuck' \in BOOLEAN,
             flg' \in [Coach(q) -> Nat], tried' \subseteq Coach(q),
             j' \in Coach(q), person' \in People,
             step' \in {"each", "coach", "any", "refused"}
      PROVE  AllocatorOK'
  <2>1. Marks(t1')
    BY <1>2, <1>9, UndoneMarks
  <2> QED
    BY <1>1, <1>2, <1>3, <1>9, <2>1 DEF AllocatorOK, Marks
<1>10. Nobody(req.prefs) \in People
  BY NobodyType DEF Passengers, Party
<1>11. CASE EachPassenger
  <2> DEFINE S == {p \in FreeIn(j) : Suits(req.prefs[i], p)}
  <2>1. S \in SUBSET Place(q)
    BY <1>5
  <2>2. Take(S) /\ Count(S)
    BY <1>11 DEF EachPassenger
  <2> HIDE DEF S
  <2> QED
    BY <1>4, <1>7, <1>11, <1>1, <2>1, <2>2 DEF EachPassenger
<1>12. CASE CoachPassenger
  <2> DEFINE S == {p \in FreeIn(j) : SuitsStuck(req.prefs[i], p)}
  <2>1. S \in SUBSET Place(q)
    BY <1>5
  <2>2. Take(S) /\ Count(S)
    BY <1>12 DEF CoachPassenger
  <2>3. stuck' \in BOOLEAN
    BY <1>4, <1>12 DEF CoachPassenger
  <2> HIDE DEF S
  <2> QED
    BY <1>7, <1>12, <1>1, <2>1, <2>2, <2>3 DEF CoachPassenger
<1>13. CASE FillPassenger
  <2> DEFINE S == IF person[i] = None THEN FreeIn(j) ELSE {}
  <2>1. S \in SUBSET Place(q)
    BY <1>5
  <2>2. Take(S) /\ Count(S)
    BY <1>13 DEF FillPassenger
  <2> HIDE DEF S
  <2> QED
    BY <1>4, <1>7, <1>13, <1>1, <2>1, <2>2 DEF FillPassenger
<1>14. CASE AnyPassenger
  <2> DEFINE S == {p \in Free : Suits(req.prefs[i], p)}
  <2>1. S \in SUBSET Place(q) /\ Take(S)
    BY <1>6, <1>14 DEF AnyPassenger
  <2> HIDE DEF S
  <2> QED
    BY <1>4, <1>7, <1>14, <1>1, <2>1 DEF AnyPassenger
<1>15. CASE RestPassenger
  <2> DEFINE S == IF person[i] = None THEN Free ELSE {}
  <2>1. S \in SUBSET Place(q) /\ Take(S)
    BY <1>6, <1>15 DEF RestPassenger
  <2> HIDE DEF S
  <2> QED
    BY <1>4, <1>7, <1>15, <1>1, <2>1 DEF RestPassenger
<1>16. CASE AllMet
  <2>1. flg' \in [Coach(q) -> Nat]
    BY <1>2, <1>4, <1>16 DEF AllMet
  <2> QED
    BY <1>2, <1>8, <1>16, <2>1 DEF AllMet
<1>17. CASE CoachFill \/ CoachHolds \/ AnyRest \/ RestHolds \/ Booked
  BY <1>2, <1>4, <1>8, <1>17
  DEF CoachFill, CoachHolds, AnyRest, RestHolds, Booked
<1>18. CASE NotAllMet
  <2>1. flg' \in [Coach(q) -> Nat] /\ flg' = [flg EXCEPT ![j] = flag]
    BY <1>2, <1>4, <1>18 DEF NotAllMet
  <2>2. CASE j + 1 < Coaches[q]
    <3>1. j + 1 \in Coach(q)
      BY <1>2, <2>2 DEF Coach
    <3> QED
      BY <1>2, <1>4, <1>9, <1>18, <2>1, <2>2, <3>1 DEF NotAllMet
  <2>3. CASE ~(j + 1 < Coaches[q])
    <3>1. Coach(q) # {} /\ Coach(q) \in SUBSET Coach(q)
      BY <1>2
    <3>2. NextCoach(flg', Coach(q)) \in Coach(q)
      BY <1>2, <2>1, <3>1, NextCoachIn
    <3>3. j' = NextCoach(flg', Coach(q)) /\ person' = Nobody(req.prefs) /\ step' = "coach"
      BY <1>18, <2>3 DEF NotAllMet
    <3> QED
      BY <1>4, <1>9, <1>10, <1>18, <2>1, <3>2, <3>3 DEF NotAllMet
  <2> QED
    BY <2>2, <2>3
<1>19. CASE CoachTooSmall
  <2>1. tried' \subseteq Coach(q) /\ flg' = flg
    BY <1>2, <1>4, <1>19 DEF CoachTooSmall
  <2>2. CASE tried' # Coach(q)
    <3>1. Coach(q) \ tried' # {} /\ Coach(q) \ tried' \in SUBSET Coach(q)
      BY <2>1, <2>2
    <3>2. NextCoach(flg, Coach(q) \ tried') \in Coach(q)
      BY <1>2, <1>4, <3>1, NextCoachIn
    <3> QED
      BY <1>2, <1>4, <1>9, <1>19, <2>1, <2>2, <3>2 DEF CoachTooSmall
  <2>3. CASE tried' = Coach(q)
    BY <1>2, <1>4, <1>9, <1>10, <1>19, <2>1, <2>3 DEF CoachTooSmall
  <2> QED
    BY <2>2, <2>3
<1>20. CASE NoBerth
  BY <1>2, <1>4, <1>9, <1>20 DEF NoBerth
<1>21. CASE Commit
  <2>1. First(In(2)) \in Place(q)
    BY <1>2, <1>6, <1>21, FirstIn DEF Commit
  <2>2. Marks(t1')
    BY <1>2, <1>21, <2>1, SetMarks DEF Commit
  <2>3. UNCHANGED <<person, step, j, i, flag, flg, tried, stuck>> /\ step = "commit"
    BY <1>21 DEF Commit
  <2> QED
    BY <1>1, <1>2, <1>3, <1>4, <2>2, <2>3 DEF AllocatorOK, Marks
<1>22. AllocatorOK'
  BY <1>11, <1>12, <1>13, <1>14, <1>15, <1>16, <1>17, <1>18, <1>19, <1>20, <1>21
  DEF Allocate
<1>23. step' # "idle"
  BY <1>1 DEF Allocate, EachPassenger, AllMet, NotAllMet, CoachPassenger, CoachFill,
    FillPassenger, CoachHolds, CoachTooSmall, AnyPassenger, AnyRest,
    RestPassenger, NoBerth, RestHolds, Commit, Booked
<1> QED
  BY <1>1, <1>22, <1>23

-----------------------------------------------------------------------------
(* Type correctness: the allocator's part of TypeOK, and the counter's.      *)

CounterOK ==
  /\ step # "idle" => pc = "pop"
  /\ pc \in {"accept", "select", "pop"}
  /\ clients \subseteq Agent /\ backlog \subseteq Agent /\ waiting \subseteq Agent
  /\ requests \subseteq Requests
  /\ agent \in [Agent -> {"away", "here", "gone", "dead"}]
  /\ inbox \in [Agent -> {"nothing", "request", "serd_disconnect"}]
  /\ request \in [Agent -> Requests \cup {Idle}]
  /\ sent \in 0 .. MaxRequests
  /\ now \in 1 .. MaxTicks

LEMMA Parts == TypeOK <=> AllocatorOK /\ CounterOK
BY DEF TypeOK, AllocatorOK, CounterOK, Marks

LEMMA InitTypes == Init => TypeInv
<1> SUFFICES ASSUME Init PROVE TypeInv
  OBVIOUS
<1>1. AllocatorOK
  <2>1. \A q \in Part : [p \in Place(q) |-> 0] \in [Place(q) -> 0 .. 2]
    OBVIOUS
  <2>2. Marks(t1)
    BY <2>1 DEF Init, BerthsInit, Marks
  <2> QED
    BY <2>2 DEF Init, BerthsInit, AllocatorOK
<1>2. CounterOK
  BY TicketsConstants DEF Init, BerthsInit, CounterOK
<1>3. InboxFilled
  BY DEF Init, InboxFilled
<1> QED
  BY <1>1, <1>2, <1>3, Parts DEF TypeInv

LEMMA AgentTypes ==
  ASSUME TypeInv, NEW a \in Agent, AgentStep(a)
  PROVE  TypeInv' /\ UNCHANGED allocator
<1>1. AllocatorOK /\ CounterOK /\ InboxFilled
  BY Parts DEF TypeInv
<1>2. UNCHANGED allocator /\ UNCHANGED <<pc, requests, clients>>
  BY DEF AgentStep, Connect, Answered, Leave, Die, Book
<1>3. AllocatorOK'
  BY <1>1, <1>2 DEF AllocatorOK, allocator, Marks, Passengers, Party
<1>4. ASSUME Connect(a) PROVE CounterOK' /\ InboxFilled'
  BY <1>1, <1>2, <1>4 DEF Connect, CounterOK, InboxFilled, allocator
<1>5. ASSUME Answered(a) PROVE CounterOK' /\ InboxFilled'
  BY <1>1, <1>2, <1>5 DEF Answered, CounterOK, InboxFilled, allocator
<1>6. ASSUME Leave(a) PROVE CounterOK' /\ InboxFilled'
  BY <1>1, <1>2, <1>6 DEF Leave, CounterOK, InboxFilled, allocator
<1>7. ASSUME Die(a) PROVE CounterOK' /\ InboxFilled'
  BY <1>1, <1>2, <1>7 DEF Die, CounterOK, InboxFilled, allocator
<1>8. ASSUME NEW b \in Bookings, NEW t \in now .. MaxTicks, Book(a, b, t)
      PROVE  CounterOK' /\ InboxFilled'
  <2> DEFINE r == [agent |-> a, part |-> b.part, prefs |-> b.prefs,
                   seniors |-> b.seniors, t_stp |-> t]
  <2>1. t \in 1 .. MaxTicks
    BY <1>1, TicketsConstants DEF CounterOK
  <2>2. r \in Requests
    BY <2>1 DEF Requests
  <2>3. /\ request' = [request EXCEPT ![a] = r]
        /\ inbox' = [inbox EXCEPT ![a] = "request"]
        /\ waiting' = waiting \cup {a} /\ sent < MaxRequests /\ sent' = sent + 1
        /\ now' = t /\ UNCHANGED <<backlog, agent>>
    BY <1>8 DEF Book
  <2> HIDE DEF r
  <2>4. request' \in [Agent -> Requests \cup {Idle}]
    BY <1>1, <2>2, <2>3 DEF CounterOK
  <2>5. sent' \in 0 .. MaxRequests /\ now' \in 1 .. MaxTicks
    BY <1>1, <2>1, <2>3, TicketsConstants DEF CounterOK
  <2>6. InboxFilled'
    BY <1>1, <2>2, <2>3 DEF CounterOK, InboxFilled
  <2> QED
    BY <1>1, <1>2, <2>3, <2>4, <2>5, <2>6 DEF CounterOK, allocator
<1>9. CounterOK' /\ InboxFilled'
  <2>1. CASE \E b \in Bookings, t \in now .. MaxTicks : Book(a, b, t)
    BY <1>8, <2>1
  <2> QED
    BY <1>4, <1>5, <1>6, <1>7, <2>1 DEF AgentStep
<1>10. TypeOK' <=> AllocatorOK' /\ CounterOK'
  BY DEF TypeOK, AllocatorOK, CounterOK, Marks
<1> QED
  BY <1>2, <1>3, <1>9, <1>10 DEF TypeInv

LEMMA ServerTypes ==
  ASSUME TypeInv, Server
  PROVE  TypeInv'
<1>1. AllocatorOK /\ CounterOK /\ InboxFilled
  BY Parts DEF TypeInv
<1>2. TypeOK' <=> AllocatorOK' /\ CounterOK'
  BY DEF TypeOK, AllocatorOK, CounterOK, Marks
<1>3. ASSUME UNCHANGED allocator PROVE AllocatorOK'
  BY <1>1, <1>3 DEF AllocatorOK, allocator, Marks, Passengers, Party
<1>4. ASSUME NEW a \in Agent, Accept(a) PROVE TypeInv'
  <2>1. UNCHANGED allocator
    BY <1>4 DEF Accept
  <2>2. CounterOK' /\ InboxFilled'
    BY <1>1, <1>4 DEF Accept, CounterOK, InboxFilled, allocator
  <2> QED
    BY <1>2, <1>3, <2>1, <2>2 DEF TypeInv
<1>5. CASE AllAccepted
  <2>1. UNCHANGED allocator
    BY <1>5 DEF AllAccepted
  <2>2. CounterOK' /\ InboxFilled'
    BY <1>1, <1>5 DEF AllAccepted, CounterOK, InboxFilled, allocator
  <2> QED
    BY <1>2, <1>3, <2>1, <2>2 DEF TypeInv
<1>6. CASE Collect
  <2>1. UNCHANGED allocator
    BY <1>6 DEF Collect
  <2>2. requests' \subseteq Requests
    BY <1>1, <1>6 DEF Collect, Ready, CounterOK, InboxFilled
  <2>3. clients' \subseteq Agent
    BY <1>1, <1>6 DEF Collect, CounterOK
  <2>4. inbox' \in [Agent -> {"nothing", "request", "serd_disconnect"}]
    BY <1>1, <1>6 DEF Collect, CounterOK
  <2>5. InboxFilled'
    BY <1>1, <1>6 DEF Collect, CounterOK, InboxFilled
  <2>6. CounterOK'
    BY <1>1, <1>6, <2>1, <2>2, <2>3, <2>4 DEF Collect, CounterOK, allocator
  <2> QED
    BY <1>2, <1>3, <2>1, <2>5, <2>6 DEF TypeInv
<1>7. ASSUME NEW r \in requests, Pop(r) PROVE TypeInv'
  <2>1. r \in Requests /\ Call(r)
    BY <1>1, <1>7 DEF CounterOK, Pop
  <2>2. AllocatorOK'
    BY <1>1, <2>1, CallTypes
  <2>3. CounterOK' /\ InboxFilled'
    BY <1>1, <1>7 DEF Pop, CounterOK, InboxFilled
  <2> QED
    BY <1>2, <2>2, <2>3 DEF TypeInv
<1>8. CASE AllocatorStep
  <2>1. AllocatorOK' /\ step # "idle"
    BY <1>1, <1>8, AllocateTypes DEF AllocatorStep
  <2>2. CounterOK' /\ InboxFilled'
    BY <1>1, <1>8, <2>1 DEF AllocatorStep, counter, CounterOK, InboxFilled
  <2> QED
    BY <1>2, <2>1, <2>2 DEF TypeInv
<1>9. CASE Reply
  <2>1. AllocatorOK'
    BY <1>1, <1>9 DEF Reply, Return, AllocatorOK, Marks
  <2>2. CounterOK' /\ InboxFilled'
    BY <1>1, <1>9 DEF Reply, Return, CounterOK, InboxFilled
  <2> QED
    BY <1>2, <2>1, <2>2 DEF TypeInv
<1>10. CASE AllServed
  <2>1. UNCHANGED allocator
    BY <1>10 DEF AllServed
  <2>2. CounterOK' /\ InboxFilled'
    BY <1>1, <1>10 DEF AllServed, CounterOK, InboxFilled, allocator
  <2> QED
    BY <1>2, <1>3, <2>1, <2>2 DEF TypeInv
<1> QED
  BY <1>4, <1>5, <1>6, <1>7, <1>8, <1>9, <1>10 DEF Server

LEMMA StutterTypes == TypeInv /\ UNCHANGED vars => TypeInv'
<1> SUFFICES ASSUME TypeInv, UNCHANGED vars PROVE TypeInv'
  OBVIOUS
<1>1. AllocatorOK /\ CounterOK /\ InboxFilled
  BY Parts DEF TypeInv
<1>2. UNCHANGED allocator /\ UNCHANGED counter
  BY DEF vars
<1>3. AllocatorOK'
  BY <1>1, <1>2 DEF AllocatorOK, allocator, Marks, Passengers, Party
<1>4. CounterOK' /\ InboxFilled'
  BY <1>1, <1>2 DEF CounterOK, InboxFilled, counter, allocator
<1>5. TypeOK' <=> AllocatorOK' /\ CounterOK'
  BY DEF TypeOK, AllocatorOK, CounterOK, Marks
<1> QED
  BY <1>3, <1>4, <1>5 DEF TypeInv

LEMMA AlwaysTyped == Spec => []TypeInv
<1>1. TypeInv /\ [Next]_vars => TypeInv'
  BY AgentTypes, ServerTypes, StutterTypes DEF Next
<1> QED
  BY InitTypes, <1>1, PTL DEF Spec

\* The server hands the allocator one popped request at a time, and whichever
\* coaches it tries and undoes, it looks at passengers of that request and at
\* coaches of its part only.
THEOREM TypeCorrect == Spec => []TypeOK
<1>1. TypeInv => TypeOK
  BY DEF TypeInv
<1> QED
  BY AlwaysTyped, <1>1, PTL

-----------------------------------------------------------------------------
(* The table never falls: no step takes a booking back.                      *)

Booked1(q) == {p \in Place(q) : t1[q][p] = 1}

LEMMA TakeKeeps ==
  ASSUME Marks(t1), req.part \in Part,
         NEW S \in SUBSET Free, Take(S),
         NEW q \in Part, NEW p \in Place(q), t1[q][p] = 1
  PROVE  t1'[q][p] = 1
<1>1. CASE S = {}
  BY <1>1 DEF Take
<1>2. CASE S # {}
  <2>1. S \in SUBSET Place(req.part)
    BY DEF Free, In
  <2>2. First(S) \in S
    BY <1>2, <2>1, FirstIn
  <2> DEFINE o == First(S)
  <2>3. o \in Place(req.part) /\ t1[req.part][o] = 0
    BY <2>2 DEF Free, In
  <2>4. t1' = [t1 EXCEPT ![req.part][o] = 2]
    BY <1>2 DEF Take, Set
  <2> HIDE DEF o
  <2>5. t1[q] \in [Place(q) -> 0 .. 2]
    BY DEF Marks
  <2>6. CASE q = req.part
    <3>1. p # o
      BY <2>3, <2>6
    <3>2. t1'[q] = [t1[q] EXCEPT ![o] = 2]
      BY <2>4, <2>6 DEF Marks
    <3> QED
      BY <2>5, <3>1, <3>2
  <2>7. CASE q # req.part
    BY <2>4, <2>7 DEF Marks
  <2> QED
    BY <2>6, <2>7
<1> QED
  BY <1>1, <1>2

LEMMA UndoneKeeps ==
  ASSUME Marks(t1), req.part \in Part, NEW q \in Part, NEW p \in Place(q), t1[q][p] = 1
  PROVE  Undone[q][p] = 1
<1> DEFINE u == [o \in Place(req.part) |->
                   IF t1[req.part][o] = 2 THEN 0 ELSE t1[req.part][o]]
<1>1. Undone = [t1 EXCEPT ![req.part] = u]
  BY DEF Undone
<1>2. q = req.part => u[p] = 1
  OBVIOUS
<1> HIDE DEF u
<1> QED
  BY <1>1, <1>2 DEF Marks

LEMMA AllocateKeeps ==
  ASSUME AllocatorOK, Allocate, NEW q \in Part, NEW p \in Place(q), t1[q][p] = 1
  PROVE  t1'[q][p] = 1
<1>1. step # "idle"
  BY AllocateTypes
<1>2. Marks(t1) /\ req \in Requests
  BY <1>1 DEF AllocatorOK
<1>3. req.part \in Part
  BY <1>2, RequestShape
<1>4. CASE EachPassenger
  BY <1>2, <1>3, <1>4, TakeKeeps DEF EachPassenger, FreeIn
<1>5. CASE CoachPassenger
  BY <1>2, <1>3, <1>5, TakeKeeps DEF CoachPassenger, FreeIn
<1>6. CASE FillPassenger
  BY <1>2, <1>3, <1>6, TakeKeeps DEF FillPassenger, FreeIn
<1>7. CASE AnyPassenger
  BY <1>2, <1>3, <1>7, TakeKeeps DEF AnyPassenger
<1>8. CASE RestPassenger
  BY <1>2, <1>3, <1>8, TakeKeeps DEF RestPassenger
<1>9. CASE NotAllMet \/ CoachTooSmall \/ NoBerth
  <2>1. t1' = Undone
    BY <1>9 DEF NotAllMet, CoachTooSmall, NoBerth
  <2> QED
    BY <1>2, <1>3, <2>1, UndoneKeeps
<1>10. CASE Commit
  <2>1. In(2) # {} /\ In(2) \in SUBSET Place(req.part)
    BY <1>10 DEF Commit, In
  <2>2. First(In(2)) \in Place(req.part)
    BY <1>3, <2>1, FirstIn
  <2> DEFINE o == First(In(2))
  <2>3. t1' = [t1 EXCEPT ![req.part][o] = 1] /\ o \in Place(req.part)
    BY <1>10, <2>2 DEF Commit, Set
  <2> HIDE DEF o
  <2>4. t1[q] \in [Place(q) -> 0 .. 2]
    BY <1>2 DEF Marks
  <2>5. CASE q = req.part
    <3>1. t1'[q] = [t1[q] EXCEPT ![o] = 1]
      BY <1>2, <2>3, <2>5 DEF Marks
    <3> QED
      BY <2>4, <3>1
  <2>6. CASE q # req.part
    BY <1>2, <2>3, <2>6 DEF Marks
  <2> QED
    BY <2>5, <2>6
<1>11. CASE AllMet \/ CoachFill \/ CoachHolds \/ AnyRest \/ RestHolds \/ Booked
  BY <1>11 DEF AllMet, CoachFill, CoachHolds, AnyRest, RestHolds, Booked
<1> QED
  BY <1>4, <1>5, <1>6, <1>7, <1>8, <1>9, <1>10, <1>11 DEF Allocate

LEMMA OthersKeep ==
  ASSUME Next, ~AllocatorStep
  PROVE  t1' = t1
<1>1. CASE \E a \in Agent : AgentStep(a)
  BY <1>1 DEF AgentStep, Connect, Book, Answered, Leave, Die, allocator
<1>2. CASE Server
  BY <1>2 DEF Server, Accept, AllAccepted, Collect, Pop, Call, Reply, Return,
    AllServed, allocator
<1> QED
  BY <1>1, <1>2 DEF Next

LEMMA NextKeeps ==
  ASSUME TypeInv, Next, NEW q \in Part, NEW p \in Place(q), t1[q][p] = 1
  PROVE  t1'[q][p] = 1
<1>1. AllocatorOK
  BY Parts DEF TypeInv
<1> QED
  BY <1>1, AllocateKeeps, OthersKeep DEF AllocatorStep

LEMMA PlaceFinite ==
  ASSUME NEW q \in Part
  PROVE  IsFiniteSet(Place(q))
<1>1. Coaches[q] - 1 \in Int /\ Berth[q] \in Int
  BY BerthsConstants
<1>2. IsFiniteSet(Coach(q)) /\ IsFiniteSet(1 .. Berth[q])
  BY <1>1, FS_Interval DEF Coach
<1> QED
  BY <1>2, FS_Product DEF Place

\* A booking is for good. The thread that shows the table reads the marks
\* between any two steps of the allocator, yet sees no trial and no undoing.
THEOREM TableNeverFallsHolds == Spec => TableNeverFalls
<1>1. ASSUME TypeInv, Next, NEW q \in Part PROVE Counted(q)' >= Counted(q)
  <2>1. Booked1(q) \subseteq Booked1(q)'
    BY <1>1, NextKeeps DEF Booked1
  <2>2. IsFiniteSet(Booked1(q)')
    BY PlaceFinite, FS_Subset DEF Booked1
  <2>3. /\ Cardinality(Booked1(q)) <= Cardinality(Booked1(q)')
        /\ IsFiniteSet(Booked1(q))
    BY <2>1, <2>2, FS_Subset
  <2>4. Cardinality(Booked1(q)) \in Nat /\ Cardinality(Booked1(q)') \in Nat
    BY <2>2, <2>3, FS_CardinalityType
  <2> QED
    BY <2>3, <2>4 DEF Counted, Booked1
<1>2. TypeInv /\ [Next]_vars => [\A q \in Part : Counted(q)' >= Counted(q)]_t1
  BY <1>1 DEF vars, allocator
<1> QED
  BY AlwaysTyped, <1>2, PTL DEF Spec, TableNeverFalls

-----------------------------------------------------------------------------
(* The berths of a request.                                                  *)

\* Passengers whose place is marked now, the others' places being of a coach
\* whose marks were undone.
Held == {n \in Passengers : person[n] \in In(2)}

Searching == {"each", "coach", "fill", "any", "rest"}

\* The coaches the allocator has tried before, in this way of trying.
Past ==
  IF step = "each" THEN {c \in Coach(req.part) : c < j}
  ELSE IF step \in {"coach", "fill"} THEN tried ELSE {}

OneEach(places) == \A n, m \in places : person[n] = person[m] => n = m

\* While it searches: every mark is the place of one passenger.
Trial ==
  /\ \A p \in In(2) : \E n \in Passengers : person[n] = p
  /\ OneEach(Held)
  /\ \A n \in Passengers :
       \/ person[n] = None
       \/ person[n][1] \in Past /\ n \notin Held
       \/ n \in Held /\ (step \in {"each", "coach", "fill"} => person[n][1] = j)
  /\ step \in {"each", "coach", "any"} => Held \subseteq 1 .. i - 1
  /\ step \in {"each", "coach", "fill"} => flag = Cardinality(Held) /\ j \notin Past
  /\ step = "rest" => 1 .. i - 1 \subseteq Held
  /\ step = "each" => tried = {}

\* Once it has found: every passenger has a place of its own, marked or booked.
Ticketed ==
  /\ \A n \in Passengers : person[n] \in Place(req.part) /\ t1[req.part][person[n]] # 0
  /\ OneEach(Passengers)
  /\ \A p \in In(2) : \E n \in Passengers : person[n] = p

Allotted ==
  /\ \A q \in Part : \A p \in Place(q) :
       t1[q][p] = 2 => q = req.part /\ step \in Searching \cup {"commit"}
  /\ step \in Searching => Trial
  /\ step \in {"commit", "booked"} => Ticketed
  /\ step = "refused" => Cardinality(Available(req.part)) < Party

LEMMA NoneIsNoPlace ==
  ASSUME NEW q \in Part
  PROVE  None \notin Place(q)
BY BerthsConstants DEF None, Place

LEMMA PassengersFinite ==
  ASSUME TypeOK, step # "idle"
  PROVE  /\ IsFiniteSet(Passengers) /\ Cardinality(Passengers) = Party
         /\ IsFiniteSet(Held) /\ Cardinality(Held) \in Nat
         /\ Cardinality(Held) = Party => Held = Passengers
<1>1. Party \in Nat
  BY Working
<1>2. IsFiniteSet(1 .. Party) /\ Cardinality(1 .. Party) = Party
  BY <1>1, FS_Interval
<1>3. IsFiniteSet(Passengers) /\ Cardinality(Passengers) = Party
  BY <1>2 DEF Passengers
<1>4. Held \subseteq Passengers
  BY DEF Held
<1> QED BY <1>3, <1>4, FS_Subset, FS_CardinalityType

LEMMA TakeHeld ==
  ASSUME AllocatorOK, step # "idle", i \in Passengers, i \notin Held, OneEach(Held),
         NEW S \in SUBSET Free, S # {}, Take(S), req' = req,
         \A n \in Passengers : person[n] \notin S
  PROVE  /\ First(S) \in S /\ First(S) \notin In(2)
         /\ In(2)' = In(2) \cup {First(S)}
         /\ person'[i] = First(S)
         /\ \A n \in Passengers \ {i} : person'[n] = person[n]
         /\ Held' = Held \cup {i}
         /\ OneEach(Held)'
         /\ \A q \in Part \ {req.part} : t1'[q] = t1[q]
<1>1. /\ req.part \in Part /\ Marks(t1)
      /\ person \in [Passengers -> Place(req.part) \cup {None}]
  BY RequestShape DEF AllocatorOK
<1>2. S \in SUBSET Place(req.part)
  BY DEF Free, In
<1> PICK o : o = First(S)
  OBVIOUS
<1>3. o \in S /\ o \in Place(req.part) /\ t1[req.part][o] = 0
  BY <1>1, <1>2, FirstIn DEF Free, In
<1>4. o \notin In(2)
  BY <1>3 DEF In
<1>5. /\ t1' = [t1 EXCEPT ![req.part][o] = 2]
      /\ person' = [person EXCEPT ![i] = o]
  BY DEF Take, Set
<1>6. \A q \in Part \ {req.part} : t1'[q] = t1[q]
  BY <1>1, <1>5 DEF Marks
<1>7. t1[req.part] \in [Place(req.part) -> 0 .. 2]
  BY <1>1 DEF Marks
<1>8. t1'[req.part] = [t1[req.part] EXCEPT ![o] = 2]
  BY <1>1, <1>5 DEF Marks
<1>9. \A p \in Place(req.part) :
        t1'[req.part][p] = IF p = o THEN 2 ELSE t1[req.part][p]
  BY <1>7, <1>8
<1>10. In(2)' = {p \in Place(req.part) : t1'[req.part][p] = 2}
  BY DEF In
<1>11. In(2)' = In(2) \cup {o}
  BY <1>3, <1>9, <1>10 DEF In
<1>12. person'[i] = o /\ \A n \in Passengers \ {i} : person'[n] = person[n]
  BY <1>1, <1>5
<1>13. Held' = {n \in Passengers : person'[n] \in In(2)'}
  BY DEF Held, Passengers, Party
<1>14. \A n \in Passengers : n \in Held' <=> n \in Held \/ n = i
  <2> TAKE n \in Passengers
  <2>1. CASE n = i
    BY <1>11, <1>12, <1>13, <2>1
  <2>2. CASE n # i
    <3>1. person'[n] = person[n]
      BY <1>12, <2>2
    <3>2. person[n] # o
      BY <1>3
    <3> QED
      BY <1>11, <1>13, <2>2, <3>1, <3>2 DEF Held
  <2> QED
    BY <2>1, <2>2
<1>15. Held' = Held \cup {i}
  <2>1. Held \subseteq Passengers /\ Held' \subseteq Passengers
    BY <1>13 DEF Held
  <2> QED
    BY <1>14, <2>1
<1>16. OneEach(Held)'
  <2>1. ASSUME NEW n \in Held', NEW m \in Held', person'[n] = person'[m] PROVE n = m
    <3>1. n \in Passengers /\ m \in Passengers
      BY <1>13
    <3>2. n # i => n \in Held /\ person'[n] = person[n] /\ person[n] # o
      BY <1>3, <1>12, <1>15, <3>1
    <3>3. m # i => m \in Held /\ person'[m] = person[m] /\ person[m] # o
      BY <1>3, <1>12, <1>15, <3>1
    <3> QED
      BY <1>12, <2>1, <3>2, <3>3 DEF OneEach
  <2> QED
    BY <2>1 DEF OneEach
<1> QED
  BY <1>3, <1>4, <1>6, <1>11, <1>12, <1>15, <1>16

LEMMA PassengerTrial ==
  ASSUME AllocatorOK, step \in Searching, Trial, i <= Party,
         NEW S \in SUBSET Free, Take(S), i' = i + 1, UNCHANGED <<req, step, j, tried>>,
         step \in {"each", "coach", "fill"} => S \subseteq FreeIn(j) /\ Count(S),
         step \in {"fill", "rest"} => S = {} \/ person[i] = None,
         step = "rest" => (person[i] = None => S # {})
  PROVE  Trial' /\ \A q \in Part \ {req.part} : t1'[q] = t1[q]
<1>1. /\ req.part \in Part /\ Marks(t1) /\ Party \in Nat
      /\ person \in [Passengers -> Place(req.part) \cup {None}]
      /\ i \in Passengers /\ step # "idle" /\ flag \in Nat
  BY RequestShape DEF AllocatorOK, Searching, Passengers, Party
<1>2. Past' = Past /\ Passengers' = Passengers
  BY DEF Past, Passengers, Party
<1>3. IsFiniteSet(Held)
  <2>1. IsFiniteSet(1 .. Party)
    BY <1>1, FS_Interval
  <2> QED
    BY <2>1, FS_Subset DEF Held, Passengers
<1>4. i - 1 + 1 = i /\ i \in Nat /\ i' - 1 = i /\ 1 .. i = 1 .. i - 1 \cup {i}
  BY <1>1 DEF Passengers
<1>5. None \notin Place(req.part) /\ In(2) \subseteq Place(req.part)
  BY <1>1, NoneIsNoPlace DEF In
<1>6. CASE S = {}
  <2>1. UNCHANGED <<t1, person>> /\ Held' = Held /\ In(2)' = In(2)
    BY <1>2, <1>6 DEF Take, Held, In
  <2>2. step \in {"each", "coach", "fill"} => flag' = flag
    BY <1>6 DEF Count
  <2>3. step = "rest" => i \in Held
    <3>1. step = "rest" => person[i] # None /\ Past = {}
      BY <1>6 DEF Past
    <3> QED
      BY <1>1, <3>1 DEF Trial
  <2>4. step = "rest" => 1 .. i' - 1 \subseteq Held'
    BY <1>4, <2>1, <2>3 DEF Trial
  <2>5. step \in {"each", "coach", "any"} => Held' \subseteq 1 .. i' - 1
    BY <1>4, <2>1 DEF Trial
  <2>6. OneEach(Held)'
    BY <2>1 DEF Trial, OneEach
  <2> QED
    BY <1>2, <2>1, <2>2, <2>4, <2>5, <2>6 DEF Trial
<1>7. CASE S # {}
  <2>1. i \notin Held
    <3>1. step \in {"each", "coach", "any"} => i \notin Held
      BY <1>4 DEF Trial
    <3>2. step \in {"fill", "rest"} => i \notin Held
      BY <1>5, <1>7 DEF Held
    <3> QED
      BY <3>1, <3>2 DEF Searching
  <2>2. \A n \in Passengers : person[n] \notin S
    <3> SUFFICES ASSUME NEW n \in Passengers, person[n] \in S PROVE FALSE
      OBVIOUS
    <3>1. person[n] \in Free /\ person[n] # None /\ n \notin Held
      BY <1>5 DEF Free, In, Held
    <3>2. person[n][1] \in Past
      BY <3>1 DEF Trial
    <3>3. step \in {"each", "coach", "fill"} => person[n][1] = j
      BY DEF FreeIn
    <3> QED
      BY <3>2, <3>3 DEF Trial, Past, Searching
  <2> PICK o : o = First(S)
    OBVIOUS
  <2>3. /\ o \in S /\ o \notin In(2) /\ In(2)' = In(2) \cup {o} /\ person'[i] = o
        /\ \A n \in Passengers \ {i} : person'[n] = person[n]
        /\ Held' = Held \cup {i} /\ OneEach(Held)'
        /\ \A q \in Part \ {req.part} : t1'[q] = t1[q]
    BY <1>1, <1>7, <2>1, <2>2, TakeHeld DEF Trial
  <2>4. \A p \in In(2)' : \E n \in Passengers : person'[n] = p
    <3> TAKE p \in In(2)'
    <3>1. CASE p = o
      BY <1>1, <2>3, <3>1
    <3>2. CASE p \in In(2)
      <4>1. PICK n \in Passengers : person[n] = p
        BY <3>2 DEF Trial
      <4>2. n # i
        BY <2>1, <3>2, <4>1 DEF Held
      <4> QED
        BY <2>3, <4>1, <4>2
    <3> QED
      BY <2>3, <3>1, <3>2
  <2>5. ASSUME NEW n \in Passengers
        PROVE  \/ person'[n] = None
               \/ person'[n][1] \in Past /\ n \notin Held'
               \/ n \in Held' /\ (step \in {"each", "coach", "fill"} => person'[n][1] = j)
    <3>1. CASE n = i
      BY <2>3, <3>1 DEF FreeIn
    <3>2. CASE n # i
      BY <2>3, <3>2 DEF Trial
    <3> QED
      BY <3>1, <3>2
  <2>6. step \in {"each", "coach", "any"} => Held' \subseteq 1 .. i' - 1
    BY <1>4, <2>3 DEF Trial
  <2>7. step \in {"each", "coach", "fill"} => flag' = Cardinality(Held')
    <3>1. Cardinality(Held \cup {i}) = Cardinality(Held) + 1
      BY <1>3, <2>1, FS_AddElement
    <3>2. step \in {"each", "coach", "fill"} => flag' = flag + 1
      BY <1>7 DEF Count
    <3> QED
      BY <2>3, <3>1, <3>2 DEF Trial
  <2>8. step = "rest" => 1 .. i' - 1 \subseteq Held'
    BY <1>4, <2>3 DEF Trial
  <2> QED
    BY <1>2, <2>3, <2>4, <2>5, <2>6, <2>7, <2>8 DEF Trial
<1> QED
  BY <1>6, <1>7

LEMMA UndoneHeld ==
  ASSUME AllocatorOK, step # "idle", t1' = Undone, req' = req
  PROVE  /\ In(2)' = {} /\ Held' = {}
         /\ \A q \in Part \ {req.part} : t1'[q] = t1[q]
         /\ Available(req.part)' = Available(req.part)
<1>1. /\ req.part \in Part /\ Marks(t1)
  BY RequestShape DEF AllocatorOK
<1>2. t1[req.part] \in [Place(req.part) -> 0 .. 2]
  BY <1>1 DEF Marks
<1>3. t1'[req.part] = [p \in Place(req.part) |->
                         IF t1[req.part][p] = 2 THEN 0 ELSE t1[req.part][p]]
  BY <1>1 DEF Undone, Marks
<1>4. \A q \in Part \ {req.part} : t1'[q] = t1[q]
  BY <1>1 DEF Undone, Marks
<1>5. \A p \in Place(req.part) :
        t1'[req.part][p] # 2 /\ (t1'[req.part][p] = 1 <=> t1[req.part][p] = 1)
  BY <1>3
<1>6. In(2)' = {}
  BY <1>5 DEF In
<1>7. Held' = {}
  BY <1>6 DEF Held
<1>8. Available(req.part)' = Available(req.part)
  BY <1>5 DEF Available
<1> QED
  BY <1>4, <1>6, <1>7, <1>8

LEMMA NobodyHas ==
  ASSUME NEW r, NEW n \in 1 .. Len(r.prefs)
  PROVE  Nobody(r.prefs)[n] = None
BY DEF Nobody

\* The marks of the other parts are bookings, and no trial leaves one behind.
MarksElsewhere ==
  \A q \in Part : \A p \in Place(q) :
    t1[q][p] = 2 => q = req.part /\ step \in Searching \cup {"commit"}

LEMMA ElsewhereStays ==
  ASSUME AllocatorOK, step # "idle", MarksElsewhere, req' = req,
         step' \in Searching \cup {"commit"},
         \A q \in Part \ {req.part} : t1'[q] = t1[q]
  PROVE  MarksElsewhere'
BY DEF MarksElsewhere

LEMMA CallAllotted ==
  ASSUME AllocatorOK, Allotted, NEW r \in Requests, Call(r)
  PROVE  Allotted'
<1>1. /\ step = "idle" /\ req' = r /\ step' = "each" /\ j' = 0 /\ i' = 1 /\ flag' = 0
      /\ tried' = {} /\ t1' = t1 /\ person' = Nobody(r.prefs)
  BY DEF Call
<1>2. \A q \in Part : \A p \in Place(q) : t1[q][p] # 2
  BY <1>1 DEF Allotted, Searching
<1>3. r.part \in Part
  BY RequestShape
<1>4. In(2)' = {}
  BY <1>1, <1>2, <1>3 DEF In
<1>5. Held' = {} /\ Cardinality({}) = 0
  BY <1>4, FS_EmptySet DEF Held
<1>6. \A n \in Passengers' : person'[n] = None
  BY <1>1, NobodyHas DEF Passengers, Party
<1>7. Trial'
  <2>1. Past' = {c \in Coach(r.part) : c < 0}
    BY <1>1 DEF Past
  <2>2. 0 \notin Past'
    BY <2>1
  <2> QED
    BY <1>1, <1>4, <1>5, <1>6, <2>2 DEF Trial, OneEach
<1> QED
  BY <1>1, <1>2, <1>7 DEF Allotted, Searching

LEMMA FoundTicketed ==
  ASSUME AllocatorOK, step \in Searching, Trial, Held = Passengers,
         UNCHANGED <<t1, person, req>>, step' = "commit"
  PROVE  Ticketed'
<1>1. Passengers' = Passengers /\ In(2)' = In(2)
  BY DEF Passengers, Party, In
<1>2. \A n \in Passengers : person[n] \in Place(req.part) /\ t1[req.part][person[n]] # 0
  BY DEF Held, In
<1>3. OneEach(Passengers)'
  BY <1>1 DEF Trial, OneEach
<1> QED
  BY <1>1, <1>2, <1>3 DEF Trial, Ticketed

LEMMA MarksAreFew ==
  ASSUME TypeOK, step \in Searching, Trial, i \in Passengers, person[i] = None,
         Free = {}
  PROVE  Cardinality(Available(req.part)) < Party
<1>1. /\ req.part \in Part /\ Party \in Nat /\ step # "idle"
      /\ person \in [Passengers -> Place(req.part) \cup {None}]
  BY Working DEF Searching
<1>2. Marks(t1)
  BY Parts DEF AllocatorOK
<1>3. Available(req.part) = In(2)
  <2>1. t1[req.part] \in [Place(req.part) -> 0 .. 2]
    BY <1>1, <1>2 DEF Marks
  <2> QED
    BY <2>1 DEF Available, Free, In
<1>4. i \notin Held /\ Held \subseteq Passengers
  BY <1>1, NoneIsNoPlace DEF Held, In
<1>5. /\ IsFiniteSet(Passengers) /\ Cardinality(Passengers) = Party
      /\ IsFiniteSet(Held) /\ Cardinality(Held) \in Nat
      /\ Cardinality(Held) = Party => Held = Passengers
  BY <1>1, PassengersFinite
<1>6. Cardinality(Held) < Party
  <2>1. Cardinality(Held) <= Party
    BY <1>4, <1>5, FS_Subset
  <2> QED
    BY <1>1, <1>4, <1>5, <2>1
<1>7. Cardinality(In(2)) <= Cardinality(Held) /\ Cardinality(In(2)) \in Nat
  <2> DEFINE f == [n \in Held |-> person[n]]
  <2>1. f \in [Held -> In(2)]
    BY DEF Held
  <2>2. \A p \in In(2) : \E n \in Held : f[n] = p
    BY DEF Held, Trial
  <2>3. f \in Surjection(Held, In(2))
    BY <2>1, <2>2 DEF Surjection
  <2> HIDE DEF f
  <2>4. IsFiniteSet(In(2)) /\ Cardinality(In(2)) <= Cardinality(Held)
    BY <1>5, <2>3, FS_Surjection
  <2> QED
    BY <2>4, FS_CardinalityType
<1> QED
  BY <1>1, <1>3, <1>5, <1>6, <1>7

LEMMA AllocateAllotted ==
  ASSUME TypeOK, Allotted, Allocate
  PROVE  Allotted'
<1>1. AllocatorOK /\ step # "idle" /\ step' # "idle" /\ req' = req
  BY Parts, AllocateTypes
<1>2. MarksElsewhere
  BY DEF Allotted, MarksElsewhere
<1>3. /\ req.part \in Part /\ Marks(t1) /\ Party \in Nat \ {0}
      /\ i \in 1 .. Party + 1 /\ j \in Coach(req.part) /\ tried \subseteq Coach(req.part)
  BY <1>1, Working DEF AllocatorOK
<1>4. Passengers' = Passengers /\ Coach(req.part)' = Coach(req.part)
  BY <1>1 DEF Passengers, Party
<1>5. FreeIn(j) \in SUBSET Free
  BY DEF FreeIn
<1>6. ASSUME Trial', step' \in Searching, \A q \in Part \ {req.part} : t1'[q] = t1[q]
      PROVE  Allotted'
  <2>1. MarksElsewhere'
    BY <1>1, <1>2, <1>6, ElsewhereStays
  <2> QED
    BY <1>6, <2>1 DEF Allotted, MarksElsewhere, Searching
<1>7. ASSUME Held = Passengers, step \in Searching, UNCHANGED <<t1, person>>, step' = "commit"
      PROVE  Allotted'
  <2>1. Ticketed'
    BY <1>1, <1>7, FoundTicketed DEF Allotted
  <2>2. MarksElsewhere'
    BY <1>1, <1>2, <1>7, ElsewhereStays
  <2> QED
    BY <1>7, <2>1, <2>2 DEF Allotted, MarksElsewhere, Searching
<1>8. CASE EachPassenger
  <2> DEFINE S == {p \in FreeIn(j) : Suits(req.prefs[i], p)}
  <2>1. S \in SUBSET Free /\ S \subseteq FreeIn(j)
    BY <1>5
  <2>2. Take(S) /\ Count(S)
    BY <1>8 DEF EachPassenger
  <2> HIDE DEF S
  <2>3. Trial' /\ \A q \in Part \ {req.part} : t1'[q] = t1[q]
    BY <1>1, <1>8, <2>1, <2>2, PassengerTrial DEF EachPassenger, Searching, Allotted
  <2> QED
    BY <1>6, <1>8, <2>3 DEF EachPassenger, Searching
<1>9. CASE CoachPassenger
  <2> DEFINE S == {p \in FreeIn(j) : SuitsStuck(req.prefs[i], p)}
  <2>1. S \in SUBSET Free /\ S \subseteq FreeIn(j)
    BY <1>5
  <2>2. Take(S) /\ Count(S)
    BY <1>9 DEF CoachPassenger
  <2> HIDE DEF S
  <2>3. Trial' /\ \A q \in Part \ {req.part} : t1'[q] = t1[q]
    BY <1>1, <1>9, <2>1, <2>2, PassengerTrial DEF CoachPassenger, Searching, Allotted
  <2> QED
    BY <1>6, <1>9, <2>3 DEF CoachPassenger, Searching
<1>10. CASE FillPassenger
  <2> DEFINE S == IF person[i] = None THEN FreeIn(j) ELSE {}
  <2>1. S \in SUBSET Free /\ S \subseteq FreeIn(j) /\ (S = {} \/ person[i] = None)
    BY <1>5
  <2>2. Take(S) /\ Count(S)
    BY <1>10 DEF FillPassenger
  <2> HIDE DEF S
  <2>3. Trial' /\ \A q \in Part \ {req.part} : t1'[q] = t1[q]
    BY <1>1, <1>10, <2>1, <2>2, PassengerTrial DEF FillPassenger, Searching, Allotted
  <2> QED
    BY <1>6, <1>10, <2>3 DEF FillPassenger, Searching
<1>11. CASE AnyPassenger
  <2> DEFINE S == {p \in Free : Suits(req.prefs[i], p)}
  <2>1. S \in SUBSET Free /\ Take(S)
    BY <1>11 DEF AnyPassenger
  <2> HIDE DEF S
  <2>2. Trial' /\ \A q \in Part \ {req.part} : t1'[q] = t1[q]
    BY <1>1, <1>11, <2>1, PassengerTrial DEF AnyPassenger, Searching, Allotted
  <2> QED
    BY <1>6, <1>11, <2>2 DEF AnyPassenger, Searching
<1>12. CASE RestPassenger
  <2> DEFINE S == IF person[i] = None THEN Free ELSE {}
  <2>1. /\ S \in SUBSET Free /\ Take(S) /\ (S = {} \/ person[i] = None)
        /\ person[i] = None => S # {}
    BY <1>12 DEF RestPassenger
  <2> HIDE DEF S
  <2>2. Trial' /\ \A q \in Part \ {req.part} : t1'[q] = t1[q]
    BY <1>1, <1>12, <2>1, PassengerTrial DEF RestPassenger, Searching, Allotted
  <2> QED
    BY <1>6, <1>12, <2>2 DEF RestPassenger, Searching
<1>13. CASE AllMet \/ CoachHolds
  <2>1. /\ step \in {"each", "fill"} /\ flag = Party /\ step' = "commit"
        /\ UNCHANGED <<t1, person>>
    BY <1>13 DEF AllMet, CoachHolds
  <2>2. flag = Cardinality(Held)
    BY <2>1 DEF Allotted, Trial, Searching
  <2>3. Held = Passengers
    BY <1>1, <2>1, <2>2, PassengersFinite
  <2> QED
    BY <1>7, <2>1, <2>3 DEF Searching
<1>14. CASE RestHolds
  <2>1. /\ step = "rest" /\ i = Party + 1 /\ step' = "commit" /\ UNCHANGED <<t1, person>>
    BY <1>3, <1>14 DEF RestHolds
  <2>2. Held = Passengers
    <3>1. 1 .. Party \subseteq Held /\ Held \subseteq Passengers
      BY <1>3, <2>1 DEF Allotted, Trial, Searching, Held
    <3> QED
      BY <3>1 DEF Passengers
  <2> QED
    BY <1>7, <2>1, <2>2 DEF Searching
<1>15. CASE CoachFill \/ AnyRest
  <2>1. /\ UNCHANGED <<t1, person, j, flag, tried>> /\ i' = 1
        /\ \/ step = "coach" /\ step' = "fill"
           \/ step = "any" /\ step' = "rest"
    BY <1>15 DEF CoachFill, AnyRest
  <2>2. In(2)' = In(2) /\ Held' = Held /\ Past' = Past
    BY <1>1, <1>4, <2>1 DEF In, Held, Past
  <2>3. OneEach(Held)'
    BY <2>1, <2>2 DEF OneEach, Trial, Allotted, Searching
  <2>4. 1 .. i' - 1 = {}
    BY <2>1
  <2>5. Trial /\ step \in Searching
    BY <2>1 DEF Allotted, Searching
  <2>6. Trial'
    BY <1>4, <2>1, <2>2, <2>3, <2>4, <2>5 DEF Trial
  <2> QED
    BY <1>6, <2>1, <2>6 DEF Searching
<1>16. CASE NotAllMet
  <2>1. /\ step = "each" /\ t1' = Undone /\ i' = 1 /\ flag' = 0 /\ tried' = tried
        /\ \/ j' = j + 1 /\ person' = person /\ step' = "each"
           \/ person' = Nobody(req.prefs) /\ step' = "coach"
    BY <1>16 DEF NotAllMet
  <2>2. In(2)' = {} /\ Held' = {} /\ \A q \in Part \ {req.part} : t1'[q] = t1[q]
    BY <1>1, <2>1, UndoneHeld
  <2>3. Trial /\ tried = {}
    BY <2>1 DEF Allotted, Trial, Searching
  <2>4. Cardinality({}) = 0
    BY FS_EmptySet
  <2>5. CASE step' = "each"
    <3>1. j' = j + 1 /\ person' = person
      BY <2>1, <2>5
    <3>2. Past = {c \in Coach(req.part) : c < j} /\ Past' = {c \in Coach(req.part) : c < j + 1}
      BY <1>1, <2>1, <2>5, <3>1 DEF Past
    <3>3. j \in Nat /\ Past \subseteq Past' /\ j \in Past' /\ j + 1 \notin Past'
      BY <1>3, <3>2 DEF Coach
    <3>4. \A n \in Passengers : person[n] = None \/ person[n][1] \in Past'
      BY <2>1, <2>3, <3>3 DEF Trial
    <3>5. Trial'
      BY <1>4, <2>1, <2>2, <2>3, <2>4, <2>5, <3>1, <3>3, <3>4 DEF Trial, OneEach
    <3> QED
      BY <1>6, <2>2, <2>5, <3>5 DEF Searching
  <2>6. CASE step' = "coach"
    <3>1. \A n \in Passengers : person'[n] = None
      BY <2>1, <2>6, NobodyHas DEF Passengers, Party
    <3>2. Past' = {}
      BY <2>1, <2>3, <2>6 DEF Past
    <3>3. Trial'
      BY <1>4, <2>1, <2>2, <2>4, <2>6, <3>1, <3>2 DEF Trial, OneEach
    <3> QED
      BY <1>6, <2>2, <2>6, <3>3 DEF Searching
  <2> QED
    BY <2>1, <2>5, <2>6
<1>17. CASE CoachTooSmall
  <2>1. /\ step = "fill" /\ t1' = Undone /\ tried' = tried \cup {j} /\ i' = 1 /\ flag' = 0
    BY <1>17 DEF CoachTooSmall
  <2>2. In(2)' = {} /\ Held' = {} /\ \A q \in Part \ {req.part} : t1'[q] = t1[q]
    BY <1>1, <2>1, UndoneHeld
  <2>3. Trial
    BY <2>1 DEF Allotted, Searching
  <2>4. Cardinality({}) = 0
    BY FS_EmptySet
  <2>5. CASE tried' # Coach(req.part)
    <3>1. /\ j' = NextCoach(flg, Coach(req.part) \ tried') /\ step' = "coach"
          /\ person' = person
      BY <1>17, <2>5 DEF CoachTooSmall
    <3>2. tried' \subseteq Coach(req.part) /\ flg \in [Coach(req.part) -> Nat]
      BY <1>1, <1>3, <2>1 DEF AllocatorOK
    <3>3. Coach(req.part) \ tried' # {} /\ Coach(req.part) \ tried' \in SUBSET Coach(req.part)
      BY <2>5, <3>2
    <3>4. j' \in Coach(req.part) \ tried'
      BY <1>3, <3>1, <3>2, <3>3, NextCoachIn
    <3>5. Past = tried /\ Past' = tried'
      BY <2>1, <3>1 DEF Past
    <3>6. \A n \in Passengers : person[n] = None \/ person[n][1] \in Past'
      BY <2>1, <2>3, <3>5 DEF Trial
    <3>7. Trial'
      BY <1>4, <2>1, <2>2, <2>4, <3>1, <3>4, <3>5, <3>6 DEF Trial, OneEach
    <3> QED
      BY <1>6, <2>2, <3>1, <3>7 DEF Searching
  <2>6. CASE tried' = Coach(req.part)
    <3>1. step' = "any" /\ person' = Nobody(req.prefs)
      BY <1>17, <2>6 DEF CoachTooSmall
    <3>2. \A n \in Passengers : person'[n] = None
      BY <3>1, NobodyHas DEF Passengers, Party
    <3>3. Trial'
      BY <1>4, <2>2, <3>1, <3>2 DEF Trial, OneEach
    <3> QED
      BY <1>6, <2>2, <3>1, <3>3 DEF Searching
  <2> QED
    BY <2>5, <2>6
<1>18. CASE NoBerth
  <2>1. /\ step = "rest" /\ i \in Passengers /\ person[i] = None /\ Free = {}
        /\ t1' = Undone /\ step' = "refused"
    BY <1>3, <1>18 DEF NoBerth, Passengers
  <2>2. Cardinality(Available(req.part)) < Party
    BY <2>1, MarksAreFew DEF Allotted, Searching
  <2>3. /\ Available(req.part)' = Available(req.part) /\ In(2)' = {}
        /\ \A q \in Part \ {req.part} : t1'[q] = t1[q]
    BY <1>1, <2>1, UndoneHeld
  <2>4. Cardinality(Available(req.part))' < Party'
    BY <1>1, <2>2, <2>3 DEF Party
  <2>5. \A q \in Part : \A p \in Place(q) : t1'[q][p] # 2
    <3> TAKE q \in Part
    <3> TAKE p \in Place(q)
    <3>1. CASE q = req.part
      BY <1>1, <2>3, <3>1 DEF In
    <3>2. CASE q # req.part
      BY <1>2, <2>3, <3>2 DEF MarksElsewhere
    <3> QED
      BY <3>1, <3>2
  <2> QED
    BY <2>1, <2>4, <2>5 DEF Allotted, Searching
<1>19. CASE Commit
  <2> PICK o : o = First(In(2))
    OBVIOUS
  <2>1. In(2) \in SUBSET Place(req.part) /\ In(2) # {}
    BY <1>19 DEF In, Commit
  <2>2. o \in Place(req.part)
    BY <1>3, <2>1, FirstIn
  <2>3. t1' = [t1 EXCEPT ![req.part][o] = 1] /\ person' = person /\ step = "commit" /\ step' = "commit"
    BY <1>19 DEF Commit, Set
  <2>4. \A q \in Part \ {req.part} : t1'[q] = t1[q]
    BY <1>3, <2>3 DEF Marks
  <2>5. t1[req.part] \in [Place(req.part) -> 0 .. 2]
    BY <1>3 DEF Marks
  <2>6. t1'[req.part] = [t1[req.part] EXCEPT ![o] = 1]
    BY <1>3, <2>3 DEF Marks
  <2>7. \A p \in Place(req.part) :
          /\ t1[req.part][p] # 0 => t1'[req.part][p] # 0
          /\ t1'[req.part][p] = 2 => t1[req.part][p] = 2
    BY <2>5, <2>6
  <2>8. In(2)' \subseteq In(2)
    BY <1>1, <2>7 DEF In
  <2>9. Ticketed
    BY <2>3 DEF Allotted
  <2>10. OneEach(Passengers)'
    BY <1>4, <2>3, <2>9 DEF Ticketed, OneEach
  <2>11. Ticketed'
    BY <1>1, <1>4, <2>3, <2>7, <2>8, <2>9, <2>10 DEF Ticketed
  <2>12. MarksElsewhere'
    BY <1>1, <1>2, <2>3, <2>4, ElsewhereStays
  <2> QED
    BY <2>3, <2>11, <2>12 DEF Allotted, MarksElsewhere, Searching
<1>20. CASE Booked
  <2>1. In(2) = {} /\ step = "commit" /\ step' = "booked" /\ UNCHANGED <<t1, person>>
    BY <1>20 DEF Booked
  <2>2. \A q \in Part : \A p \in Place(q) : t1'[q][p] # 2
    BY <1>2, <2>1 DEF MarksElsewhere, In
  <2>3. Ticketed
    BY <2>1 DEF Allotted
  <2>4. In(2)' = In(2) /\ OneEach(Passengers)'
    BY <1>1, <1>4, <2>1, <2>3 DEF In, OneEach, Ticketed
  <2>5. Ticketed'
    BY <1>1, <1>4, <2>1, <2>3, <2>4 DEF Ticketed
  <2> QED
    BY <2>1, <2>2, <2>5 DEF Allotted, Searching
<1> QED
  BY <1>8, <1>9, <1>10, <1>11, <1>12, <1>13, <1>14, <1>15, <1>16, <1>17, <1>18, <1>19, <1>20
  DEF Allocate

-----------------------------------------------------------------------------
(* Preferences: the first of the free berths is always good enough.          *)

InCoach(c) == {p \in Available(req.part) : p[1] = c}

\* Coach c can meet every preference of the request.
Meetable(c) == \E berths \in [Passengers -> InCoach(c)] : Meets(berths)

NoneMeetable == \A c \in Coach(req.part) : ~Meetable(c)

Greedy ==
  InOrder =>
    /\ step = "each" =>
         /\ \A c \in Past : ~Meetable(c)
         /\ \A n \in Held : Suits(req.prefs[n], person[n])
         /\ Meetable(j) => 1 .. i - 1 \subseteq Held
    /\ step \in Searching \ {"each"} => NoneMeetable
    /\ step = "commit" =>
         \/ Meets(person) \/ NoneMeetable
         \/ \E n \in Passengers : person[n] \notin In(2)

\* When the coach can meet every preference and those before i have berths they
\* asked for, a berth passenger i asks for is free: whoever shares it with i
\* asked for the same type, and the coach has enough of these for them all.
LEMMA FreeFound ==
  ASSUME TypeOK, step = "each", Trial, InOrder, i \in Passengers, Meetable(j),
         1 .. i - 1 \subseteq Held, \A n \in Held : Suits(req.prefs[n], person[n])
  PROVE  {p \in FreeIn(j) : Suits(req.prefs[i], p)} # {}
<1>1. /\ req.part \in Part /\ Party \in Nat /\ AllocatorOK /\ Marks(t1) /\ i \in Nat
      /\ req.prefs \in Seq(Preferences)
  BY Working, Parts, RequestShape DEF AllocatorOK, Passengers
<1>2. t1[req.part] \in [Place(req.part) -> 0 .. 2]
  BY <1>1 DEF Marks
<1>3. Held \subseteq 1 .. i - 1
  BY DEF Trial
<1> PICK berths \in [Passengers -> InCoach(j)] : Meets(berths)
  BY DEF Meetable
<1> SUFFICES ASSUME {p \in FreeIn(j) : Suits(req.prefs[i], p)} = {} PROVE FALSE
  OBVIOUS
<1> DEFINE W == {p \in InCoach(j) : Suits(req.prefs[i], p)}
           D == {n \in 1 .. i : req.prefs[i] = "NA" \/ req.prefs[n] = req.prefs[i]}
           E == {n \in D \ {i} : person[n] \in W}
<1>4. D \subseteq Passengers /\ i \in D /\ E \subseteq D \ {i} /\ D \subseteq 1 .. i
  BY <1>1 DEF Passengers
<1>5. \A n \in D : berths[n] \in W
  <2> TAKE n \in D
  <2>1. Suits(req.prefs[n], berths[n]) /\ berths[n] \in InCoach(j)
    BY <1>4 DEF Meets
  <2>2. req.prefs[i] = "NA" \/ req.prefs[n] = req.prefs[i]
    OBVIOUS
  <2> QED
    BY <2>1, <2>2 DEF Suits
<1>6. \A p \in W : \E n \in E : person[n] = p
  <2> TAKE p \in W
  <2>1. p \in Place(req.part) /\ p[1] = j /\ t1[req.part][p] # 1 /\ Suits(req.prefs[i], p)
    BY DEF InCoach, Available
  <2>2. p \notin Free
    BY <2>1 DEF FreeIn
  <2>3. p \in In(2)
    BY <1>2, <2>1, <2>2 DEF Free, In
  <2>4. PICK n \in Passengers : person[n] = p
    BY <2>3 DEF Trial
  <2>5. n \in Held
    BY <2>3, <2>4 DEF Held
  <2>6. n \in 1 .. i - 1 /\ n # i /\ Suits(req.prefs[n], p) /\ n < i
    BY <1>1, <1>3, <2>4, <2>5
  <2>7. req.prefs[i] = "NA" \/ req.prefs[n] = req.prefs[i]
    <3> SUFFICES ASSUME req.prefs[i] # "NA", req.prefs[n] # req.prefs[i] PROVE FALSE
      OBVIOUS
    <3>1. req.prefs[n] # "NA"
      BY <2>4, <2>6 DEF InOrder, NoneLast, Passengers, Party
    <3>2. /\ p[2] % Bay[req.part] \in Remainders(Bay[req.part], req.prefs[n])
          /\ p[2] % Bay[req.part] \in Remainders(Bay[req.part], req.prefs[i])
      BY <2>1, <2>6, <3>1 DEF Suits
    <3>3. Remainders(Bay[req.part], req.prefs[n])
            \cap Remainders(Bay[req.part], req.prefs[i]) = {}
      BY <2>4, <3>1 DEF InOrder, Apart, Passengers, Party
    <3> QED
      BY <3>2, <3>3
  <2>8. n \in D \ {i}
    BY <1>1, <2>6, <2>7
  <2> QED
    BY <2>4, <2>8
<1>7. IsFiniteSet(D)
  <2>1. IsFiniteSet(1 .. i)
    BY <1>1, FS_Interval
  <2> QED
    BY <1>4, <2>1, FS_Subset
<1>8. IsFiniteSet(D \ {i}) /\ Cardinality(D \ {i}) = Cardinality(D) - 1
  BY <1>4, <1>7, FS_RemoveElement
<1> DEFINE f == [n \in D |-> berths[n]]
           g == [n \in E |-> person[n]]
<1>9. f \in Injection(D, W)
  <2>1. f \in [D -> W]
    BY <1>5
  <2>2. \A n, m \in D : f[n] = f[m] => n = m
    BY <1>4 DEF Meets
  <2> HIDE DEF f, D, W
  <2> QED
    BY <2>1, <2>2 DEF Injection, IsInjective
<1>10. g \in Surjection(E, W)
  <2>1. g \in [E -> W]
    OBVIOUS
  <2>2. \A p \in W : \E n \in E : g[n] = p
    BY <1>6
  <2> HIDE DEF g, E, W
  <2> QED
    BY <2>1, <2>2 DEF Surjection
<1> HIDE DEF f, g, D, E, W
<1>11. IsFiniteSet(E) /\ Cardinality(E) <= Cardinality(D \ {i})
  BY <1>4, <1>8, FS_Subset
<1>12. IsFiniteSet(W) /\ Cardinality(W) <= Cardinality(E)
  BY <1>10, <1>11, FS_Surjection
<1>13. Cardinality(D) <= Cardinality(W)
  BY <1>9, <1>12, FS_Injection
<1>14. Cardinality(D) \in Nat /\ Cardinality(E) \in Nat /\ Cardinality(W) \in Nat
  BY <1>7, <1>11, <1>12, FS_CardinalityType
<1> QED
  BY <1>8, <1>11, <1>12, <1>13, <1>14

\* While the allocator searches it takes no berth away and gives none back.
LEMMA SearchKeepsAvailable ==
  ASSUME TypeOK, Allocate, step # "commit"
  PROVE  Available(req.part)' = Available(req.part)
<1>1. AllocatorOK /\ step # "idle" /\ req' = req
  BY Parts, AllocateTypes
<1>2. req.part \in Part /\ Marks(t1)
  BY <1>1, Working DEF AllocatorOK
<1>3. ASSUME NEW S \in SUBSET Free, Take(S)
      PROVE  Available(req.part)' = Available(req.part)
  <2>1. CASE S = {}
    BY <1>1, <1>3, <2>1 DEF Take, Available
  <2>2. CASE S # {}
    <3> PICK o : o = First(S)
      OBVIOUS
    <3>1. S \in SUBSET Place(req.part)
      BY DEF Free, In
    <3>2. o \in S
      BY <1>2, <2>2, <3>1, FirstIn
    <3>3. o \in Place(req.part) /\ t1[req.part][o] = 0
      BY <3>2 DEF Free, In
    <3>4. t1' = [t1 EXCEPT ![req.part][o] = 2]
      BY <1>3, <2>2 DEF Take, Set
    <3>5. t1[req.part] \in [Place(req.part) -> 0 .. 2]
      BY <1>2 DEF Marks
    <3>6. t1'[req.part] = [t1[req.part] EXCEPT ![o] = 2]
      BY <1>2, <3>4 DEF Marks
    <3>7. \A p \in Place(req.part) : t1'[req.part][p] = 1 <=> t1[req.part][p] = 1
      BY <3>3, <3>5, <3>6
    <3> QED
      BY <1>1, <3>7 DEF Available
  <2> QED
    BY <2>1, <2>2
<1>4. CASE EachPassenger
  <2> DEFINE S == {p \in FreeIn(j) : Suits(req.prefs[i], p)}
  <2>1. S \in SUBSET Free /\ Take(S)
    BY <1>4 DEF EachPassenger, FreeIn
  <2> HIDE DEF S
  <2> QED
    BY <1>3, <2>1
<1>5. CASE CoachPassenger
  <2> DEFINE S == {p \in FreeIn(j) : SuitsStuck(req.prefs[i], p)}
  <2>1. S \in SUBSET Free /\ Take(S)
    BY <1>5 DEF CoachPassenger, FreeIn
  <2> HIDE DEF S
  <2> QED
    BY <1>3, <2>1
<1>6. CASE FillPassenger
  <2> DEFINE S == IF person[i] = None THEN FreeIn(j) ELSE {}
  <2>1. S \in SUBSET Free /\ Take(S)
    BY <1>6 DEF FillPassenger, FreeIn
  <2> HIDE DEF S
  <2> QED
    BY <1>3, <2>1
<1>7. CASE AnyPassenger
  <2> DEFINE S == {p \in Free : Suits(req.prefs[i], p)}
  <2>1. S \in SUBSET Free /\ Take(S)
    BY <1>7 DEF AnyPassenger
  <2> HIDE DEF S
  <2> QED
    BY <1>3, <2>1
<1>8. CASE RestPassenger
  <2> DEFINE S == IF person[i] = None THEN Free ELSE {}
  <2>1. S \in SUBSET Free /\ Take(S)
    BY <1>8 DEF RestPassenger
  <2> HIDE DEF S
  <2> QED
    BY <1>3, <2>1
<1>9. CASE NotAllMet \/ CoachTooSmall \/ NoBerth
  <2>1. t1' = Undone
    BY <1>9 DEF NotAllMet, CoachTooSmall, NoBerth
  <2> QED
    BY <1>1, <2>1, UndoneHeld
<1>10. CASE AllMet \/ CoachFill \/ CoachHolds \/ AnyRest \/ RestHolds \/ Booked
  BY <1>1, <1>10 DEF AllMet, CoachFill, CoachHolds, AnyRest, RestHolds, Booked, Available
<1> QED
  BY <1>4, <1>5, <1>6, <1>7, <1>8, <1>9, <1>10 DEF Allocate, Commit

LEMMA CallGreedy ==
  ASSUME AllocatorOK, Allotted, NEW r \in Requests, Call(r)
  PROVE  Greedy'
<1>1. step = "idle" /\ step' = "each" /\ i' = 1 /\ j' = 0 /\ t1' = t1 /\ req' = r
  BY DEF Call
<1>2. r.part \in Part
  BY RequestShape
<1>3. Past' = {c \in Coach(r.part) : c < 0}
  BY <1>1 DEF Past
<1>4. Past' = {}
  BY <1>2, <1>3, BerthsConstants DEF Coach
<1>5. Held' = {}
  <2>1. \A p \in Place(r.part) : t1[r.part][p] # 2
    BY <1>1, <1>2 DEF Allotted, Searching
  <2> QED
    BY <1>1, <2>1 DEF Held, In
<1>6. 1 .. i' - 1 = {}
  BY <1>1
<1> QED
  BY <1>1, <1>4, <1>5, <1>6 DEF Greedy, Searching

LEMMA AllocateGreedy ==
  ASSUME TypeOK, Allotted, Greedy, Allocate
  PROVE  Greedy'
<1>1. AllocatorOK /\ step # "idle" /\ step' # "idle" /\ req' = req
  BY Parts, AllocateTypes
<1>2. /\ req.part \in Part /\ Marks(t1) /\ Party \in Nat \ {0}
      /\ i \in 1 .. Party + 1 /\ j \in Coach(req.part) /\ tried \subseteq Coach(req.part)
      /\ i <= Party => i \in Passengers
      /\ Coaches[req.part] \in Nat
  BY <1>1, Working DEF AllocatorOK
<1>3. /\ Passengers' = Passengers /\ Coach(req.part)' = Coach(req.part) /\ Party' = Party
      /\ InOrder' = InOrder
      /\ \A pref, p : Suits(pref, p)' = Suits(pref, p)
  BY <1>1 DEF Passengers, Party, InOrder, Suits
<1>4. \A berths : Meets(berths)' = Meets(berths)
  BY <1>1, <1>3 DEF Meets
<1>5. ASSUME step # "commit"
      PROVE  (\A c : Meetable(c)' = Meetable(c)) /\ NoneMeetable' = NoneMeetable
  <2>1. Available(req.part)' = Available(req.part)
    BY <1>5, SearchKeepsAvailable
  <2>2. \A c : InCoach(c)' = InCoach(c)
    BY <1>1, <2>1 DEF InCoach
  <2>3. \A c : Meetable(c)' = Meetable(c)
    BY <1>3, <1>4, <2>2 DEF Meetable
  <2> QED
    BY <1>1, <2>3 DEF NoneMeetable
<1> SUFFICES ASSUME InOrder PROVE Greedy'
  BY <1>3 DEF Greedy
<1>6. CASE EachPassenger
  <2> DEFINE S == {p \in FreeIn(j) : Suits(req.prefs[i], p)}
  <2>1. step = "each" /\ step' = "each" /\ j' = j /\ i' = i + 1 /\ i \in Passengers
    BY <1>2, <1>6 DEF EachPassenger
  <2>2. Trial /\ Greedy /\ S \in SUBSET Free
    BY <2>1 DEF Allotted, Searching, FreeIn
  <2>3. Take(S)
    BY <1>6 DEF EachPassenger
  <2>4. Past' = Past
    BY <1>1, <2>1 DEF Past
  <2>5. \A c \in Past' : ~Meetable(c)'
    BY <1>5, <2>1, <2>4 DEF Greedy
  <2>6. Meetable(j) => S # {}
    <3>1. Meetable(j) => 1 .. i - 1 \subseteq Held
      BY <2>1 DEF Greedy
    <3>2. \A n \in Held : Suits(req.prefs[n], person[n])
      BY <2>1 DEF Greedy
    <3> QED
      BY <2>1, <2>2, <3>1, <3>2, FreeFound
  <2>7. CASE S = {}
    <3>1. UNCHANGED <<t1, person>>
      BY <2>3, <2>7 DEF Take
    <3>2. Held' = Held
      BY <1>1, <1>3, <3>1 DEF Held, In
    <3>3. \A n \in Held' : Suits(req.prefs[n], person'[n])
      BY <2>1, <3>1, <3>2 DEF Greedy
    <3>4. ~Meetable(j)'
      BY <1>5, <2>1, <2>6, <2>7
    <3> QED
      BY <1>1, <1>3, <2>1, <2>5, <3>3, <3>4 DEF Greedy, Searching
  <2>8. CASE S # {}
    <3>1. i \notin Held
      BY <1>2, <2>1, <2>2 DEF Trial
    <3>2. \A n \in Passengers : person[n] \notin S
      <4> SUFFICES ASSUME NEW n \in Passengers, person[n] \in S PROVE FALSE
        OBVIOUS
      <4>1. person[n] \in Free /\ person[n] # None /\ n \notin Held /\ person[n][1] = j
        BY <1>2, NoneIsNoPlace DEF Free, In, Held, FreeIn
      <4> QED
        BY <2>1, <2>2, <4>1 DEF Trial
    <3> PICK o : o = First(S)
      OBVIOUS
    <3>3. o \in S /\ person'[i] = o /\ Held' = Held \cup {i}
          /\ \A n \in Passengers \ {i} : person'[n] = person[n]
      <4> HIDE DEF S
      <4>1. OneEach(Held)
        BY <2>2 DEF Trial
      <4> QED
        BY <1>1, <2>1, <2>2, <2>3, <2>8, <3>1, <3>2, <4>1, TakeHeld
    <3>4. \A n \in Held' : Suits(req.prefs[n], person'[n])
      <4> TAKE n \in Held'
      <4>1. CASE n = i
        BY <3>3, <4>1
      <4>2. CASE n # i
        <5>1. n \in Held /\ n \in Passengers
          BY <3>3, <4>2 DEF Held
        <5> QED
          BY <2>1, <3>3, <4>2, <5>1 DEF Greedy
      <4> QED
        BY <4>1, <4>2
    <3>5. Meetable(j) => 1 .. i' - 1 \subseteq Held'
      <4>1. 1 .. i' - 1 = 1 .. i - 1 \cup {i}
        BY <1>2, <2>1
      <4> QED
        BY <2>1, <3>3, <4>1 DEF Greedy
    <3> QED
      BY <1>1, <1>3, <1>5, <2>1, <2>5, <3>4, <3>5 DEF Greedy, Searching
  <2> QED
    BY <2>7, <2>8
<1>7. CASE NotAllMet
  <2>1. /\ step = "each" /\ t1' = Undone /\ i' = 1 /\ flag # Party /\ i > Party
        /\ \/ j' = j + 1 /\ step' = "each"
           \/ ~(j + 1 < Coaches[req.part]) /\ step' = "coach"
    BY <1>7 DEF NotAllMet
  <2>2. Held' = {}
    BY <1>1, <2>1, UndoneHeld
  <2>3. Trial
    BY <2>1 DEF Allotted, Searching
  <2>4. ~Meetable(j)
    <3> SUFFICES ASSUME Meetable(j) PROVE FALSE
      OBVIOUS
    <3>1. i - 1 = Party
      BY <1>2, <2>1
    <3>2. Held = Passengers
      BY <2>1, <3>1 DEF Greedy, Held, Passengers
    <3>3. flag = Party
      BY <1>1, <2>1, <2>3, <3>2, PassengersFinite DEF Trial
    <3> QED
      BY <2>1, <3>3
  <2>5. \A c \in Past \cup {j} : ~Meetable(c)
    BY <2>1, <2>4 DEF Greedy
  <2>6. Past = {c \in Coach(req.part) : c < j} /\ j \in Nat
    BY <1>2, <2>1 DEF Past, Coach
  <2>7. CASE step' = "each"
    <3>1. Past' = {c \in Coach(req.part) : c < j + 1}
      BY <1>1, <2>1, <2>7 DEF Past
    <3>2. Past' \subseteq Past \cup {j}
      BY <2>6, <3>1 DEF Coach
    <3>3. 1 .. i' - 1 = {}
      BY <2>1
    <3>4. \A c \in Past' : ~Meetable(c)'
      BY <1>5, <2>1, <2>5, <3>2
    <3> QED
      BY <2>2, <2>7, <3>3, <3>4 DEF Greedy, Searching
  <2>8. CASE step' = "coach"
    <3>1. Coach(req.part) \subseteq Past \cup {j}
      BY <1>2, <2>1, <2>6, <2>8 DEF Coach
    <3>2. NoneMeetable
      BY <2>5, <3>1 DEF NoneMeetable
    <3> QED
      BY <1>5, <2>1, <2>8, <3>2 DEF Greedy, Searching
  <2> QED
    BY <2>1, <2>7, <2>8
<1>8. CASE AllMet
  <2>1. /\ step = "each" /\ flag = Party /\ step' = "commit" /\ UNCHANGED <<t1, person>>
    BY <1>8 DEF AllMet
  <2>2. Trial
    BY <2>1 DEF Allotted, Searching
  <2>3. Held = Passengers
    BY <1>1, <2>1, <2>2, PassengersFinite DEF Trial
  <2>4. \A n \in Passengers : Suits(req.prefs[n], person[n])
    BY <2>1, <2>3 DEF Greedy
  <2>5. \A n \in Passengers : person[n][1] = j
    <3> TAKE n \in Passengers
    <3>1. n \in Held /\ person[n] # None
      BY <1>2, <2>3, NoneIsNoPlace DEF Held, In
    <3> QED
      BY <2>1, <2>2, <3>1 DEF Trial
  <2>6. Meets(person)
    BY <2>2, <2>3, <2>4, <2>5 DEF Meets, Trial, OneEach
  <2> QED
    BY <1>4, <2>1, <2>6 DEF Greedy, Searching
<1>9. CASE \/ CoachPassenger \/ CoachFill \/ FillPassenger \/ CoachHolds \/ CoachTooSmall
           \/ AnyPassenger \/ AnyRest \/ RestPassenger \/ NoBerth \/ RestHolds
  <2>1. step \in Searching \ {"each"} /\ step' \in {"coach", "fill", "any", "rest", "commit", "refused"}
    BY <1>9 DEF CoachPassenger, CoachFill, FillPassenger, CoachHolds, CoachTooSmall,
      AnyPassenger, AnyRest, RestPassenger, NoBerth, RestHolds, Searching
  <2>2. NoneMeetable /\ step # "commit"
    BY <2>1 DEF Greedy, Searching
  <2>3. NoneMeetable'
    BY <1>5, <2>2
  <2> QED
    BY <2>1, <2>3 DEF Greedy, Searching
<1>10. CASE Commit
  <2> PICK o : o = First(In(2))
    OBVIOUS
  <2>1. In(2) \in SUBSET Place(req.part) /\ In(2) # {}
    BY <1>10 DEF In, Commit
  <2>2. o \in In(2) /\ o \in Place(req.part)
    BY <1>2, <2>1, FirstIn
  <2>3. t1' = [t1 EXCEPT ![req.part][o] = 1] /\ person' = person /\ step = "commit" /\ step' = "commit"
    BY <1>10 DEF Commit, Set
  <2>4. t1[req.part] \in [Place(req.part) -> 0 .. 2]
    BY <1>2 DEF Marks
  <2>5. t1'[req.part] = [t1[req.part] EXCEPT ![o] = 1]
    BY <1>2, <2>3 DEF Marks
  <2>6. t1'[req.part][o] = 1
    BY <2>2, <2>4, <2>5
  <2>7. o \notin In(2)'
    BY <1>1, <2>6 DEF In
  <2>8. \E n \in Passengers : person[n] = o
    BY <2>2, <2>3 DEF Allotted, Ticketed
  <2> QED
    BY <1>3, <2>3, <2>7, <2>8 DEF Greedy, Searching
<1>11. CASE Booked
  BY <1>11 DEF Booked, Greedy, Searching
<1> QED
  BY <1>6, <1>7, <1>8, <1>9, <1>10, <1>11 DEF Allocate

TicketInv == TypeInv /\ Allotted /\ Greedy

LEMMA InitTicket == Init => TicketInv
<1> SUFFICES ASSUME Init PROVE TicketInv
  OBVIOUS
<1>1. step = "idle" /\ \A q \in Part : \A p \in Place(q) : t1[q][p] # 2
  BY DEF Init, BerthsInit
<1>2. Allotted
  BY <1>1 DEF Allotted, Searching
<1>3. Greedy
  BY <1>1 DEF Greedy, Searching
<1> QED
  BY <1>2, <1>3, InitTypes DEF TicketInv

LEMMA AllocatorStays ==
  ASSUME Allotted, Greedy, UNCHANGED allocator
  PROVE  Allotted' /\ Greedy'
<1>1. UNCHANGED <<t1, person, req, step, j, i, flag, flg, tried, stuck>>
  BY DEF allocator
<1>2. /\ Passengers' = Passengers /\ Party' = Party /\ In(2)' = In(2) /\ Past' = Past
      /\ Available(req.part)' = Available(req.part)
  BY <1>1 DEF Passengers, Party, In, Past, Available
<1>3. Held' = Held
  BY <1>1, <1>2 DEF Held
<1>4. (\A s : OneEach(s)' = OneEach(s)) /\ InOrder' = InOrder
      /\ \A pref, p : Suits(pref, p)' = Suits(pref, p)
  BY <1>1 DEF OneEach, InOrder, Suits
<1>5. \A berths : Meets(berths)' = Meets(berths)
  BY <1>1, <1>2, <1>4 DEF Meets
<1>6. (\A c : Meetable(c)' = Meetable(c)) /\ NoneMeetable' = NoneMeetable
  <2>1. \A c : InCoach(c)' = InCoach(c)
    BY <1>1, <1>2 DEF InCoach
  <2>2. \A c : Meetable(c)' = Meetable(c)
    BY <1>2, <1>5, <2>1 DEF Meetable
  <2> QED
    BY <1>1, <2>2 DEF NoneMeetable
<1>7. Trial' = Trial
  BY <1>1, <1>2, <1>3, <1>4 DEF Trial
<1>8. Ticketed' = Ticketed
  BY <1>1, <1>2, <1>4 DEF Ticketed
<1>9. Allotted'
  BY <1>1, <1>2, <1>7, <1>8 DEF Allotted
<1>10. Greedy'
  BY <1>1, <1>2, <1>3, <1>4, <1>5, <1>6 DEF Greedy
<1> QED
  BY <1>9, <1>10

LEMMA NextTicket ==
  ASSUME TicketInv, [Next]_vars
  PROVE  TicketInv'
<1>1. TypeInv' /\ TypeOK /\ AllocatorOK /\ CounterOK
  BY AgentTypes, ServerTypes, StutterTypes, Parts DEF Next, TicketInv, TypeInv
<1>2. CASE UNCHANGED allocator
  BY <1>1, <1>2, AllocatorStays DEF TicketInv
<1>3. ASSUME NEW r \in requests, Pop(r) PROVE TicketInv'
  <2>1. r \in Requests /\ Call(r)
    BY <1>1, <1>3 DEF CounterOK, Pop
  <2> QED
    BY <1>1, <2>1, CallAllotted, CallGreedy DEF TicketInv
<1>4. CASE AllocatorStep
  BY <1>1, <1>4, AllocateAllotted, AllocateGreedy DEF AllocatorStep, TicketInv
<1>5. CASE Reply
  <2>1. step' = "idle" /\ t1' = t1 /\ step \in {"booked", "refused"}
    BY <1>5 DEF Reply, Return
  <2>2. Allotted'
    BY <2>1 DEF TicketInv, Allotted, Searching
  <2>3. Greedy'
    BY <2>1 DEF Greedy, Searching
  <2> QED
    BY <1>1, <2>2, <2>3 DEF TicketInv
<1>6. UNCHANGED allocator \/ (\E r \in requests : Pop(r)) \/ AllocatorStep \/ Reply
  <2>1. CASE \E a \in Agent : AgentStep(a)
    BY <2>1, AgentTypes DEF TicketInv
  <2>2. CASE UNCHANGED vars
    BY <2>2 DEF vars
  <2>3. CASE Server
    BY <2>3 DEF Server, Accept, AllAccepted, Collect, AllServed
  <2> QED
    BY <2>1, <2>2, <2>3 DEF Next
<1> QED
  BY <1>2, <1>3, <1>4, <1>5, <1>6

LEMMA AlwaysAllotted == Spec => []TicketInv
<1>1. TicketInv /\ [Next]_vars => TicketInv'
  BY NextTicket
<1> QED
  BY InitTicket, <1>1, PTL DEF Spec

LEMMA GreedyMeets ==
  ASSUME TicketInv
  PROVE  PreferencesMet
<1> SUFFICES ASSUME Decided, InOrder,
                    NEW berths \in [Passengers -> Available(req.part)], Meets(berths)
             PROVE  Meets(person)
  BY DEF PreferencesMet
<1>1. step = "commit" /\ Cardinality(In(2)) = Party
  BY DEF Decided
<1>2. TypeOK /\ Ticketed /\ AllocatorOK
  BY <1>1, Parts DEF TicketInv, TypeInv, Allotted
<1>3. /\ req.part \in Part /\ Party \in Nat \ {0}
      /\ IsFiniteSet(Passengers) /\ Cardinality(Passengers) = Party
  BY <1>1, <1>2, Working, PassengersFinite
<1>4. ~NoneMeetable
  <2> PICK c : c = berths[1][1]
    OBVIOUS
  <2>1. 1 \in Passengers
    BY <1>3 DEF Passengers
  <2>2. \A n \in Passengers : berths[n] \in InCoach(c)
    BY <2>1 DEF Meets, InCoach
  <2>3. c \in Coach(req.part)
    BY <2>1 DEF Available, Place
  <2>4. berths \in [Passengers -> InCoach(c)]
    BY <2>2
  <2> QED
    BY <2>3, <2>4 DEF NoneMeetable, Meetable
<1>5. \A n \in Passengers : person[n] \in In(2)
  <2> SUFFICES ASSUME NEW n \in Passengers, person[n] \notin In(2) PROVE FALSE
    OBVIOUS
  <2> DEFINE E == {m \in Passengers : person[m] \in In(2)}
             g == [m \in E |-> person[m]]
  <2>1. E \subseteq Passengers \ {n}
    OBVIOUS
  <2>2. IsFiniteSet(Passengers \ {n}) /\ Cardinality(Passengers \ {n}) = Party - 1
    BY <1>3, FS_RemoveElement
  <2>3. g \in Surjection(E, In(2))
    <3>1. g \in [E -> In(2)]
      OBVIOUS
    <3>2. \A p \in In(2) : \E m \in E : g[m] = p
      BY <1>2 DEF Ticketed
    <3> HIDE DEF g, E
    <3> QED
      BY <3>1, <3>2 DEF Surjection
  <2> HIDE DEF g, E
  <2>4. IsFiniteSet(E) /\ Cardinality(E) <= Party - 1
    BY <2>1, <2>2, FS_Subset
  <2>5. Cardinality(In(2)) <= Cardinality(E)
    BY <2>3, <2>4, FS_Surjection
  <2>6. Cardinality(E) \in Nat
    BY <2>4, FS_CardinalityType
  <2> QED
    BY <1>1, <1>3, <2>4, <2>5, <2>6
<1> QED
  BY <1>1, <1>4, <1>5 DEF TicketInv, Greedy

\* The allocator takes the first free berth that suits and never goes back on
\* it within a coach; for types without common berths, and passengers without a
\* preference last, this misses no solution.  So such a party gets all its
\* preferences if some coach can meet all of them.
THEOREM PreferencesAreMet == Spec => []PreferencesMet
<1>1. TicketInv => PreferencesMet
  BY GreedyMeets
<1> QED
  BY AlwaysAllotted, <1>1, PTL

-----------------------------------------------------------------------------
(* The counter keeps the promises of Office.                                 *)

\* A request is in one place at a time, on its way, in the queue or at the
\* allocator, and there is no answer to it yet; who does not wait has read his.
Dialogue ==
  /\ \A a \in Agent : inbox[a] = "request" =>
       /\ a \in waiting /\ reply[a] = <<>> /\ request[a].agent = a
       /\ \A r \in requests : r.agent # a
       /\ step # "idle" => req.agent # a
  /\ \A r \in requests :
       /\ r.agent \in waiting /\ r = request[r.agent] /\ reply[r.agent] = <<>>
       /\ step # "idle" => req.agent # r.agent
  /\ step # "idle" =>
       req.agent \in waiting /\ req = request[req.agent] /\ reply[req.agent] = <<>>
  /\ DOMAIN reply = Agent /\ \A a \in Agent \ waiting : reply[a] = <<>>

LEMMA InitDialogue == Init => Dialogue
BY DEF Init, BerthsInit, Dialogue

LEMMA AgentDialogue ==
  ASSUME TypeInv, Dialogue, NEW a \in Agent, AgentStep(a)
  PROVE  Dialogue'
<1>1. CounterOK /\ AllocatorOK
  BY Parts DEF TypeInv
<1>2. UNCHANGED <<step, req, requests>>
  BY AgentTypes DEF AgentStep, Connect, Book, Answered, Leave, Die, allocator
<1>3. /\ \A r \in requests : r.agent \in Agent
      /\ step # "idle" => req.agent \in Agent
  BY <1>1, RequestShape DEF CounterOK, AllocatorOK
<1>4. CASE Connect(a) \/ Die(a)
  BY <1>2, <1>4 DEF Connect, Die, Dialogue
<1>5. CASE Answered(a)
  <2>1. /\ reply[a] # <<>> /\ reply' = [reply EXCEPT ![a] = <<>>]
        /\ waiting' = waiting \ {a} /\ UNCHANGED <<inbox, request>>
    BY <1>5 DEF Answered
  <2>2. inbox[a] # "request" /\ (\A r \in requests : r.agent # a)
        /\ (step # "idle" => req.agent # a)
    BY <2>1 DEF Dialogue
  <2>3. DOMAIN reply' = Agent /\ reply'[a] = <<>> /\ \A b \in Agent \ {a} : reply'[b] = reply[b]
    BY <2>1 DEF Dialogue
  <2> QED
    BY <1>2, <1>3, <2>1, <2>2, <2>3 DEF Dialogue
<1>6. CASE Leave(a)
  <2>1. inbox' = [inbox EXCEPT ![a] = "serd_disconnect"] /\ UNCHANGED <<request, waiting, reply>>
    BY <1>6 DEF Leave
  <2>2. \A b \in Agent : inbox'[b] = "request" => inbox[b] = "request"
    BY <1>1, <2>1 DEF CounterOK
  <2> QED
    BY <1>2, <2>1, <2>2 DEF Dialogue
<1>7. ASSUME NEW b \in Bookings, NEW t \in now .. MaxTicks, Book(a, b, t)
      PROVE  Dialogue'
  <2> PICK r : r = [agent |-> a, part |-> b.part, prefs |-> b.prefs,
                    seniors |-> b.seniors, t_stp |-> t]
    OBVIOUS
  <2>1. /\ a \notin waiting /\ waiting' = waiting \cup {a} /\ reply' = reply
        /\ request' = [request EXCEPT ![a] = r]
        /\ inbox' = [inbox EXCEPT ![a] = "request"] /\ r.agent = a
    BY <1>7 DEF Book
  <2>2. \A c \in Agent :
          /\ request'[c] = IF c = a THEN r ELSE request[c]
          /\ inbox'[c] = IF c = a THEN "request" ELSE inbox[c]
    BY <1>1, <2>1 DEF CounterOK
  <2>3. /\ reply[a] = <<>> /\ \A s \in requests : s.agent # a
        /\ step # "idle" => req.agent # a
    BY <2>1 DEF Dialogue
  <2> QED
    BY <1>2, <1>3, <2>1, <2>2, <2>3 DEF Dialogue
<1> QED
  BY <1>4, <1>5, <1>6, <1>7 DEF AgentStep

LEMMA ServerDialogue ==
  ASSUME TypeInv, Dialogue, Server
  PROVE  Dialogue'
<1>1. CounterOK /\ AllocatorOK
  BY Parts DEF TypeInv
<1>2. \A r \in requests : r \in Requests /\ r.agent \in Agent
  BY <1>1, RequestShape DEF CounterOK
<1>3. CASE (\E a \in Agent : Accept(a)) \/ AllAccepted \/ AllServed
  BY <1>3 DEF Accept, AllAccepted, AllServed, allocator, Dialogue
<1>4. CASE Collect
  <2>1. /\ step = "idle" /\ UNCHANGED <<step, req, request, waiting, reply>>
        /\ requests' = {request[a] : a \in {b \in Ready : inbox[b] = "request"}}
        /\ inbox' = [a \in Agent |-> IF a \in Ready THEN "nothing" ELSE inbox[a]]
    BY <1>1, <1>4 DEF Collect, allocator, CounterOK
  <2>2. Ready \subseteq Agent
    BY <1>1 DEF Ready, CounterOK
  <2>3. ASSUME NEW r \in requests'
        PROVE  \E a \in Ready : inbox[a] = "request" /\ r = request[a] /\ r.agent = a
                               /\ a \in waiting /\ reply[a] = <<>>
    BY <2>1, <2>2, <2>3 DEF Dialogue
  <2>4. ASSUME NEW a \in Agent, inbox'[a] = "request"
        PROVE  /\ a \in waiting /\ reply[a] = <<>> /\ request[a].agent = a
               /\ \A r \in requests' : r.agent # a
    <3>1. a \notin Ready /\ inbox[a] = "request"
      BY <2>1, <2>4
    <3>2. \A r \in requests' : r.agent # a
      BY <2>3, <3>1
    <3> QED
      BY <3>1, <3>2 DEF Dialogue
  <2>5. \A r \in requests' :
          r.agent \in waiting /\ r = request[r.agent] /\ reply[r.agent] = <<>>
    BY <2>3
  <2>6. DOMAIN reply = Agent /\ \A a \in Agent \ waiting : reply[a] = <<>>
    BY DEF Dialogue
  <2> QED
    BY <2>1, <2>4, <2>5, <2>6 DEF Dialogue
<1>5. ASSUME NEW r \in requests, Pop(r) PROVE Dialogue'
  <2>1. /\ requests' = requests \ {r} /\ req' = r /\ step = "idle" /\ step' = "each"
        /\ UNCHANGED <<inbox, request, waiting, reply>>
    BY <1>5 DEF Pop, Call
  <2>2. \A s \in requests' : s.agent # r.agent
    BY <2>1 DEF Dialogue
  <2> QED
    BY <2>1, <2>2 DEF Dialogue
<1>6. CASE AllocatorStep
  <2>1. step # "idle" /\ req' = req /\ UNCHANGED <<requests, inbox, request, waiting, reply>>
    BY <1>1, <1>6, AllocateTypes DEF AllocatorStep, counter
  <2> QED
    BY <2>1 DEF Dialogue
<1>7. CASE Reply
  <2> PICK a : a = req.agent
    OBVIOUS
  <2>1. /\ step' = "idle" /\ step # "idle" /\ UNCHANGED <<requests, inbox, request, waiting>>
        /\ reply' = [reply EXCEPT ![a] = <<Answer>>]
    BY <1>7 DEF Reply, Return
  <2>2. /\ a \in waiting /\ \A r \in requests : r.agent # a
        /\ \A b \in Agent : inbox[b] = "request" => b # a
    BY <2>1 DEF Dialogue
  <2>3. DOMAIN reply' = Agent /\ \A b \in Agent \ {a} : reply'[b] = reply[b]
    BY <2>1 DEF Dialogue
  <2> QED
    BY <1>2, <2>1, <2>2, <2>3 DEF Dialogue
<1> QED
  BY <1>3, <1>4, <1>5, <1>6, <1>7 DEF Server

LEMMA StutterDialogue == Dialogue /\ UNCHANGED vars => Dialogue'
BY DEF Dialogue, vars, counter, allocator

Asked(a) == IF a \in waiting THEN <<request[a]>> ELSE <<>>
Told(a) == IF Deciding(a) THEN <<Ticket(person)>> ELSE reply[a]

OfficeNext == Desk!Next

\* The ways in which the counter moves, in the terms of Office.
LEMMA DeskStill ==
  ASSUME \A q \in Part : Sold(q)' = Sold(q),
         \A a \in Agent : Asked(a)' = Asked(a) /\ Told(a)' = Told(a)
  PROVE  [Desk!Next]_<<[q \in Part |-> Sold(q)],
                       [a \in Agent |-> IF a \in waiting THEN <<request[a]>> ELSE <<>>],
                       [a \in Agent |-> IF Deciding(a) THEN <<Ticket(person)>>
                                        ELSE reply[a]]>>
<1>1. [q \in Part |-> Sold(q)]' = [q \in Part |-> Sold(q)]
  OBVIOUS
<1>2. [a \in Agent |-> IF a \in waiting THEN <<request[a]>> ELSE <<>>]'
      = [a \in Agent |-> IF a \in waiting THEN <<request[a]>> ELSE <<>>]
  BY DEF Asked
<1>3. [a \in Agent |-> IF Deciding(a) THEN <<Ticket(person)>> ELSE reply[a]]'
      = [a \in Agent |-> IF Deciding(a) THEN <<Ticket(person)>> ELSE reply[a]]
  BY DEF Told
<1> QED
  BY <1>1, <1>2, <1>3

LEMMA DeskAsk ==
  ASSUME NEW a \in Agent, NEW r \in Requests, Asked(a) = <<>>, Asked(a)' = <<r>>,
         \A q \in Part : Sold(q)' = Sold(q),
         \A b \in Agent : Told(b)' = Told(b),
         \A b \in Agent \ {a} : Asked(b)' = Asked(b)
  PROVE  Desk!Ask(a)
<1> DEFINE f == [b \in Agent |-> IF b \in waiting THEN <<request[b]>> ELSE <<>>]
<1>1. f[a] = <<>> /\ f'[a] = <<r>> /\ <<r>> # <<>>
  BY DEF Asked
<1>2. f' = [f EXCEPT ![a] = <<r>>]
  BY DEF Asked
<1>3. [q \in Part |-> Sold(q)]' = [q \in Part |-> Sold(q)]
  OBVIOUS
<1>4. [b \in Agent |-> IF Deciding(b) THEN <<Ticket(person)>> ELSE reply[b]]'
      = [b \in Agent |-> IF Deciding(b) THEN <<Ticket(person)>> ELSE reply[b]]
  BY DEF Told
<1> QED
  BY <1>1, <1>2, <1>3, <1>4 DEF Desk!Ask

LEMMA DeskReturn ==
  ASSUME NEW a \in Agent, Told(a) # <<>>, Told(a)' = <<>>, Asked(a)' = <<>>,
         \A q \in Part : Sold(q)' = Sold(q),
         \A b \in Agent \ {a} : Told(b)' = Told(b) /\ Asked(b)' = Asked(b)
  PROVE  Desk!Return(a)
<1> DEFINE f == [b \in Agent |-> IF b \in waiting THEN <<request[b]>> ELSE <<>>]
           g == [b \in Agent |-> IF Deciding(b) THEN <<Ticket(person)>> ELSE reply[b]]
<1>1. g[a] # <<>>
  BY DEF Told
<1>2. f' = [f EXCEPT ![a] = <<>>]
  BY DEF Asked
<1>3. g' = [g EXCEPT ![a] = <<>>]
  BY DEF Told
<1>4. [q \in Part |-> Sold(q)]' = [q \in Part |-> Sold(q)]
  OBVIOUS
<1> QED
  BY <1>1, <1>2, <1>3, <1>4 DEF Desk!Return

LEMMA DeskBook ==
  ASSUME NEW a \in Agent, NEW r, r.part \in Part, Asked(a) = <<r>>, Told(a) = <<>>,
         NEW berths \in [1 .. Len(r.prefs) -> Place(r.part) \ Sold(r.part)],
         \A k, m \in 1 .. Len(r.prefs) : berths[k] = berths[m] => k = m,
         Told(a)' = <<[ok |-> TRUE, berths |-> berths]>>,
         Sold(r.part)' = Sold(r.part) \cup {berths[k] : k \in 1 .. Len(r.prefs)},
         \A q \in Part \ {r.part} : Sold(q)' = Sold(q),
         \A b \in Agent : Asked(b)' = Asked(b),
         \A b \in Agent \ {a} : Told(b)' = Told(b)
  PROVE  Desk!Decide(a)
<1> DEFINE f == [b \in Agent |-> IF b \in waiting THEN <<request[b]>> ELSE <<>>]
           g == [b \in Agent |-> IF Deciding(b) THEN <<Ticket(person)>> ELSE reply[b]]
           h == [q \in Part |-> Sold(q)]
<1> DEFINE B == {berths[k] : k \in 1 .. Len(r.prefs)}
<1>1. f[a] = <<r>> /\ f[a][1] = r /\ f[a] # <<>> /\ f' = f
  BY DEF Asked
<1>2. g[a] = <<>> /\ g'[a] # <<>>
  BY DEF Told
<1>3. g' = [g EXCEPT ![a] = <<[ok |-> TRUE, berths |-> berths]>>]
  BY DEF Told
<1>4. Sold(r.part)' = Sold(r.part) \cup B
  OBVIOUS
<1> HIDE DEF B
<1>5. h' = [h EXCEPT ![r.part] = @ \cup B]
  BY <1>4
<1>6. h[r.part] = Sold(r.part)
  OBVIOUS
<1> HIDE DEF f, g, h
<1>7. Place(r.part) \ h[r.part] = Place(r.part) \ Sold(r.part)
  BY <1>6
<1> USE DEF f, g, h
<1>8. Desk!Left(r.part) = Place(r.part) \ Sold(r.part)
  BY <1>7 DEF Desk!Left
<1> DEFINE Booking(x, left, bs) ==
             /\ bs \in [1 .. Len(x.prefs) -> left]
             /\ \A k, m \in 1 .. Len(x.prefs) : bs[k] = bs[m] => k = m
             /\ h' = [h EXCEPT ![x.part] = @ \cup {bs[k] : k \in 1 .. Len(x.prefs)}]
             /\ g' = [g EXCEPT ![a] = <<[ok |-> TRUE, berths |-> bs]>>]
<1>9. Booking(r, Desk!Left(r.part), berths)
  <2> HIDE DEF f, g, h
  <2> QED
    BY <1>3, <1>5, <1>8 DEF B
<1>10. \E bs \in [1 .. Len(f[a][1].prefs) -> Desk!Left(f[a][1].part)] :
         Booking(f[a][1], Desk!Left(f[a][1].part), bs)
  <2> HIDE DEF Booking
  <2>1. \E bs \in [1 .. Len(r.prefs) -> Desk!Left(r.part)] : Booking(r, Desk!Left(r.part), bs)
    BY <1>9 DEF Booking
  <2> QED
    BY <1>1, <2>1
<1>11. Desk!Book(a)
  BY <1>10, Zenon DEF Desk!Book
<1> QED
  BY <1>1, <1>2, <1>11 DEF Desk!Decide

LEMMA DeskRefuse ==
  ASSUME NEW a \in Agent, NEW r, r.part \in Part, Asked(a) = <<r>>, Told(a) = <<>>,
         Cardinality(Place(r.part) \ Sold(r.part)) < Len(r.prefs),
         Told(a)' = <<[ok |-> FALSE, berths |-> <<>>]>>,
         \A q \in Part : Sold(q)' = Sold(q),
         \A b \in Agent : Asked(b)' = Asked(b),
         \A b \in Agent \ {a} : Told(b)' = Told(b)
  PROVE  Desk!Decide(a)
<1> DEFINE f == [b \in Agent |-> IF b \in waiting THEN <<request[b]>> ELSE <<>>]
           g == [b \in Agent |-> IF Deciding(b) THEN <<Ticket(person)>> ELSE reply[b]]
           h == [q \in Part |-> Sold(q)]
<1>1. f[a] = <<r>> /\ f[a][1] = r /\ f[a] # <<>> /\ f' = f
  BY DEF Asked
<1>2. g[a] = <<>> /\ g'[a] # <<>>
  BY DEF Told
<1>3. g' = [g EXCEPT ![a] = <<[ok |-> FALSE, berths |-> <<>>]>>]
  BY DEF Told
<1>4. h' = h /\ h[r.part] = Sold(r.part)
  OBVIOUS
<1>5. Desk!Left(r.part) = Place(r.part) \ Sold(r.part)
  BY <1>4 DEF Desk!Left
<1>6. Cardinality(Desk!Left(f[a][1].part)) < Len(f[a][1].prefs)
  <2> HIDE DEF f
  <2> QED
    BY <1>1, <1>5
<1>7. Desk!Refuse(a)
  <2>1. \A S : Desk!Cardinality(S) = Cardinality(S)
    BY DEF Cardinality, Desk!Cardinality
  <2> QED
    BY <1>3, <1>4, <1>6, <2>1 DEF Desk!Refuse
<1> QED
  BY <1>1, <1>2, <1>7 DEF Desk!Decide

OfficeInv == TicketInv /\ Dialogue

LEMMA AlwaysOffice == Spec => []OfficeInv
<1>1. OfficeInv /\ [Next]_vars => OfficeInv'
  BY NextTicket, AgentDialogue, ServerDialogue, StutterDialogue
  DEF OfficeInv, TicketInv, Next
<1>2. Init => OfficeInv
  BY InitTicket, InitDialogue DEF OfficeInv
<1> QED
  BY <1>1, <1>2, PTL DEF Spec

OfficeStep ==
  [Desk!Next]_<<[q \in Part |-> Sold(q)],
                [a \in Agent |-> IF a \in waiting THEN <<request[a]>> ELSE <<>>],
                [a \in Agent |-> IF Deciding(a) THEN <<Ticket(person)>> ELSE reply[a]]>>

LEMMA AgentOffice ==
  ASSUME OfficeInv, NEW a \in Agent, AgentStep(a)
  PROVE  OfficeStep
<1>1. CounterOK /\ AllocatorOK /\ Dialogue /\ TypeInv
  BY Parts DEF OfficeInv, TicketInv, TypeInv
<1>2. UNCHANGED <<t1, step, req, person>>
  BY <1>1, AgentTypes DEF allocator
<1>3. /\ \A q \in Part : Sold(q)' = Sold(q)
      /\ \A b \in Agent : Deciding(b)' = Deciding(b)
  BY <1>2 DEF Sold, Deciding
<1>4. CASE Connect(a) \/ Leave(a) \/ Die(a)
  <2>1. UNCHANGED <<waiting, request, reply>>
    BY <1>4 DEF Connect, Leave, Die
  <2>2. \A b \in Agent : Asked(b)' = Asked(b) /\ Told(b)' = Told(b)
    BY <1>2, <1>3, <2>1 DEF Asked, Told
  <2> QED
    BY <1>3, <2>2, DeskStill DEF OfficeStep
<1>5. CASE Answered(a)
  <2>1. /\ reply[a] # <<>> /\ reply' = [reply EXCEPT ![a] = <<>>]
        /\ waiting' = waiting \ {a} /\ request' = request
    BY <1>5 DEF Answered
  <2>2. /\ reply'[a] = <<>> /\ \A b \in Agent \ {a} : reply'[b] = reply[b]
        /\ ~Deciding(a)
    BY <1>1, <2>1 DEF Dialogue, Deciding
  <2>3. Told(a) # <<>> /\ Told(a)' = <<>> /\ Asked(a)' = <<>>
    BY <1>3, <2>1, <2>2 DEF Told, Asked
  <2>4. \A b \in Agent \ {a} : Told(b)' = Told(b) /\ Asked(b)' = Asked(b)
    BY <1>2, <1>3, <2>1, <2>2 DEF Told, Asked
  <2>5. Desk!Return(a)
    BY <1>3, <2>3, <2>4, DeskReturn
  <2> QED
    BY <2>5 DEF OfficeStep, Desk!Next
<1>6. ASSUME NEW b \in Bookings, NEW t \in now .. MaxTicks, Book(a, b, t)
      PROVE  OfficeStep
  <2> PICK r : r = [agent |-> a, part |-> b.part, prefs |-> b.prefs,
                    seniors |-> b.seniors, t_stp |-> t]
    OBVIOUS
  <2>1. r \in Requests
    <3>1. t \in 1 .. MaxTicks
      BY <1>1, TicketsConstants DEF CounterOK
    <3> QED
      BY <3>1 DEF Requests
  <2>2. /\ a \notin waiting /\ waiting' = waiting \cup {a} /\ reply' = reply
        /\ request' = [request EXCEPT ![a] = r]
    BY <1>6 DEF Book
  <2>3. request'[a] = r /\ \A c \in Agent \ {a} : request'[c] = request[c]
    BY <1>1, <2>2 DEF CounterOK
  <2>4. /\ Asked(a) = <<>> /\ Asked(a)' = <<r>>
        /\ \A c \in Agent \ {a} : Asked(c)' = Asked(c)
        /\ \A c \in Agent : Told(c)' = Told(c)
    BY <1>2, <1>3, <2>2, <2>3 DEF Asked, Told
  <2>5. Desk!Ask(a)
    BY <1>3, <2>1, <2>4, DeskAsk
  <2> QED
    BY <2>5 DEF OfficeStep, Desk!Next
<1> QED
  BY <1>4, <1>5, <1>6 DEF AgentStep

\* What is booked changes when the search ends, and at no other step.
LEMMA SearchSells ==
  ASSUME OfficeInv, Allocate, step # "commit", step' # "commit"
  PROVE  \A q \in Part : Sold(q)' = Sold(q)
<1>1. AllocatorOK /\ step # "idle" /\ req' = req /\ TypeOK
  BY Parts, AllocateTypes DEF OfficeInv, TicketInv, TypeInv
<1>2. Available(req.part)' = Available(req.part)
  BY <1>1, SearchKeepsAvailable
<1>3. \A q \in Part \ {req.part} : t1'[q] = t1[q]
  <2>1. CASE t1' = t1
    BY <2>1
  <2>2. CASE NotAllMet \/ CoachTooSmall \/ NoBerth
    <3>1. t1' = Undone
      BY <2>2 DEF NotAllMet, CoachTooSmall, NoBerth
    <3> QED
      BY <1>1, <3>1, UndoneHeld
  <2>3. CASE EachPassenger \/ CoachPassenger \/ FillPassenger \/ AnyPassenger \/ RestPassenger
    <3>1. PICK S : Take(S)
      BY <2>3 DEF EachPassenger, CoachPassenger, FillPassenger, AnyPassenger, RestPassenger
    <3>2. t1' = t1 \/ t1' = [t1 EXCEPT ![req.part][First(S)] = 2]
      BY <3>1 DEF Take, Set
    <3> QED
      BY <1>1, <3>2 DEF AllocatorOK, Marks
  <2> QED
    BY <2>1, <2>2, <2>3 DEF Allocate, AllMet, CoachFill, CoachHolds, AnyRest, RestHolds,
      Commit, Booked
<1> TAKE q \in Part
<1>4. Sold(q) = {p \in Place(q) : t1[q][p] = 1}
  BY DEF Sold
<1>5. Sold(q)' = {p \in Place(q) : t1'[q][p] = 1}
  BY DEF Sold
<1>6. CASE q = req.part
  <2>1. /\ Sold(q) = Place(q) \ Available(q)
        /\ Sold(q)' = Place(q) \ Available(q)'
    BY <1>4, <1>5 DEF Available
  <2> QED
    BY <1>1, <1>2, <1>6, <2>1
<1>7. CASE q # req.part
  BY <1>3, <1>4, <1>5, <1>7
<1> QED
  BY <1>6, <1>7

LEMMA FoundSells ==
  ASSUME OfficeInv, step \in Searching, step' = "commit", Held = Passengers,
         UNCHANGED <<t1, person, req, counter>>
  PROVE  OfficeStep
<1>1. CounterOK /\ AllocatorOK /\ Dialogue /\ TypeOK /\ Trial
  BY Parts DEF OfficeInv, TicketInv, TypeInv, Allotted
<1>2. UNCHANGED <<waiting, request, reply>>
  BY DEF counter
<1> PICK a : a = req.agent
  OBVIOUS
<1>3. /\ a \in Agent /\ req.part \in Part /\ a \in waiting /\ req = request[a]
      /\ reply[a] = <<>>
  BY <1>1, RequestShape DEF AllocatorOK, Dialogue, Searching
<1>4. Asked(a) = <<req>> /\ \A b \in Agent : Asked(b)' = Asked(b)
  BY <1>2, <1>3 DEF Asked
<1>5. /\ Told(a) = <<>> /\ Told(a)' = <<[ok |-> TRUE, berths |-> person]>>
      /\ \A b \in Agent \ {a} : Told(b)' = Told(b)
  BY <1>2, <1>3 DEF Told, Deciding, Searching, Ticket
<1>6. /\ Sold(req.part) = {p \in Place(req.part) : t1[req.part][p] = 1}
      /\ Sold(req.part)' = Sold(req.part) \cup In(2)
  BY DEF Sold, In, Searching
<1>7. \A q \in Part \ {req.part} : Sold(q)' = Sold(q)
  BY DEF Sold, Searching
<1>8. In(2) = {person[k] : k \in 1 .. Len(req.prefs)}
  BY <1>1 DEF Trial, Held, Passengers, Party
<1>9. person \in [1 .. Len(req.prefs) -> Place(req.part) \ Sold(req.part)]
  <2>1. \A n \in Passengers : person[n] \in Place(req.part) /\ t1[req.part][person[n]] = 2
    BY DEF Held, In
  <2>2. DOMAIN person = Passengers /\ person = [n \in Passengers |-> person[n]]
    BY <1>1 DEF AllocatorOK, Searching
  <2> QED
    BY <1>6, <2>1, <2>2 DEF Passengers, Party
<1>10. \A k, m \in 1 .. Len(req.prefs) : person[k] = person[m] => k = m
  BY <1>1 DEF Trial, OneEach, Passengers, Party
<1>11. Sold(req.part)' = Sold(req.part) \cup {person[k] : k \in 1 .. Len(req.prefs)}
  BY <1>6, <1>8
<1>12. Desk!Decide(a)
  BY <1>3, <1>4, <1>5, <1>7, <1>9, <1>10, <1>11, DeskBook
<1> QED
  BY <1>3, <1>12 DEF OfficeStep, Desk!Next

LEMMA AllocatorOffice ==
  ASSUME OfficeInv, AllocatorStep
  PROVE  OfficeStep
<1>1. CounterOK /\ AllocatorOK /\ Dialogue /\ TypeOK /\ TypeInv
  BY Parts DEF OfficeInv, TicketInv, TypeInv
<1>2. step # "idle" /\ req' = req /\ Allocate /\ UNCHANGED <<counter, waiting, request, reply>>
  BY <1>1, AllocateTypes DEF AllocatorStep, counter
<1>3. req.part \in Part /\ Party \in Nat \ {0} /\ i \in 1 .. Party + 1
  BY <1>1, <1>2, Working
<1>4. CASE AllMet \/ CoachHolds
  <2>1. /\ step \in {"each", "fill"} /\ flag = Party /\ step' = "commit"
        /\ UNCHANGED <<t1, person>>
    BY <1>4 DEF AllMet, CoachHolds
  <2>2. flag = Cardinality(Held)
    BY <2>1 DEF OfficeInv, TicketInv, Allotted, Trial, Searching
  <2>3. Held = Passengers
    BY <1>1, <1>2, <2>1, <2>2, PassengersFinite
  <2> QED
    BY <1>2, <2>1, <2>3, FoundSells DEF Searching
<1>5. CASE RestHolds
  <2>1. /\ step = "rest" /\ i = Party + 1 /\ step' = "commit" /\ UNCHANGED <<t1, person>>
    BY <1>3, <1>5 DEF RestHolds
  <2>2. 1 .. Party \subseteq Held /\ Held \subseteq Passengers
    BY <1>3, <2>1 DEF OfficeInv, TicketInv, Allotted, Trial, Searching, Held
  <2>3. Held = Passengers
    BY <2>2 DEF Passengers
  <2> QED
    BY <1>2, <2>1, <2>3, FoundSells DEF Searching
<1>6. \A b \in Agent : Asked(b)' = Asked(b)
  BY <1>2 DEF Asked
<1>7. CASE Commit
  <2> PICK o : o = First(In(2))
    OBVIOUS
  <2>1. In(2) \in SUBSET Place(req.part) /\ In(2) # {}
    BY <1>7 DEF In, Commit
  <2>2. o \in In(2) /\ o \in Place(req.part)
    BY <1>3, <2>1, FirstIn
  <2>3. t1' = [t1 EXCEPT ![req.part][o] = 1] /\ person' = person /\ step = "commit" /\ step' = "commit"
    BY <1>7 DEF Commit, Set
  <2>4. t1[req.part] \in [Place(req.part) -> 0 .. 2]
    BY <1>1, <1>3 DEF AllocatorOK, Marks
  <2>5. /\ t1'[req.part] = [t1[req.part] EXCEPT ![o] = 1]
        /\ \A q \in Part \ {req.part} : t1'[q] = t1[q]
    BY <1>1, <1>3, <2>3 DEF AllocatorOK, Marks
  <2>6. \A p \in Place(req.part) :
          t1'[req.part][p] \in {1, 2} <=> t1[req.part][p] \in {1, 2}
    BY <2>2, <2>4, <2>5 DEF In
  <2>7. \A q \in Part : Sold(q)' = Sold(q)
    <3> TAKE q \in Part
    <3>1. CASE q = req.part
      <4>1. /\ Sold(q) = {p \in Place(q) : t1[q][p] \in {1, 2}}
            /\ Sold(q)' = {p \in Place(q) : t1'[q][p] \in {1, 2}}
        BY <1>2, <2>3, <3>1 DEF Sold
      <4> QED
        BY <2>6, <3>1, <4>1
    <3>2. CASE q # req.part
      BY <1>2, <2>5, <3>2 DEF Sold
    <3> QED
      BY <3>1, <3>2
  <2>8. \A b \in Agent : Told(b)' = Told(b)
    BY <1>2, <2>3 DEF Told, Deciding
  <2> QED
    BY <1>6, <2>7, <2>8, DeskStill DEF OfficeStep
<1>8. CASE Booked
  <2>1. In(2) = {} /\ step = "commit" /\ step' = "booked" /\ UNCHANGED <<t1, person>>
    BY <1>8 DEF Booked
  <2>2. \A q \in Part : Sold(q)' = Sold(q)
    BY <1>2, <2>1 DEF Sold, In
  <2>3. \A b \in Agent : Told(b)' = Told(b)
    BY <1>2, <2>1 DEF Told, Deciding
  <2> QED
    BY <1>6, <2>2, <2>3, DeskStill DEF OfficeStep
<1>9. CASE ~(AllMet \/ CoachHolds \/ RestHolds \/ Commit \/ Booked)
  <2>1. step \notin {"commit", "booked"} /\ step' \notin {"commit", "booked"}
    BY <1>2, <1>9 DEF Allocate, EachPassenger, NotAllMet, CoachPassenger, CoachFill,
      FillPassenger, CoachTooSmall, AnyPassenger, AnyRest, RestPassenger, NoBerth
  <2>2. \A q \in Part : Sold(q)' = Sold(q)
    BY <1>2, <2>1, SearchSells
  <2>3. \A b \in Agent : Told(b)' = Told(b)
    BY <1>2, <2>1 DEF Told, Deciding
  <2> QED
    BY <1>6, <2>2, <2>3, DeskStill DEF OfficeStep
<1> QED
  BY <1>4, <1>5, <1>7, <1>8, <1>9

LEMMA ReplyOffice ==
  ASSUME OfficeInv, Reply
  PROVE  OfficeStep
<1>1. CounterOK /\ AllocatorOK /\ Dialogue /\ TypeOK /\ TypeInv /\ Allotted
  BY Parts DEF OfficeInv, TicketInv, TypeInv
<1> PICK a : a = req.agent
  OBVIOUS
<1>2. /\ step \in {"booked", "refused"} /\ step' = "idle" /\ t1' = t1
      /\ UNCHANGED <<request, waiting>> /\ reply' = [reply EXCEPT ![a] = <<Answer>>]
  BY DEF Reply, Return
<1>3. /\ a \in Agent /\ req.part \in Part /\ a \in waiting /\ req = request[a]
      /\ reply[a] = <<>>
  BY <1>1, <1>2, RequestShape DEF AllocatorOK, Dialogue
<1>4. reply'[a] = <<Answer>> /\ \A b \in Agent \ {a} : reply'[b] = reply[b]
  BY <1>1, <1>2, <1>3 DEF Dialogue
<1>5. \A q \in Part : Sold(q)' = Sold(q)
  BY <1>2 DEF Sold
<1>6. Asked(a) = <<req>> /\ \A b \in Agent : Asked(b)' = Asked(b)
  BY <1>2, <1>3 DEF Asked
<1>7. \A b \in Agent \ {a} : Told(b)' = Told(b)
  BY <1>2, <1>4 DEF Told, Deciding
<1>8. CASE step = "booked"
  <2>1. Told(a)' = Told(a)
    BY <1>2, <1>4, <1>8 DEF Told, Deciding, Answer
  <2>2. \A b \in Agent : Told(b)' = Told(b)
    BY <1>7, <2>1
  <2> QED
    BY <1>5, <1>6, <2>2, DeskStill DEF OfficeStep
<1>9. CASE step = "refused"
  <2>1. Told(a) = <<>> /\ Told(a)' = <<[ok |-> FALSE, berths |-> <<>>]>>
    BY <1>2, <1>3, <1>4, <1>9 DEF Told, Deciding, Answer, NoBerthsAvailable
  <2>2. Place(req.part) \ Sold(req.part) = Available(req.part)
    BY <1>9 DEF Sold, Available
  <2>3. Cardinality(Place(req.part) \ Sold(req.part)) < Len(req.prefs)
    BY <1>1, <1>9, <2>2 DEF Allotted, Party
  <2>4. Desk!Decide(a)
    BY <1>3, <1>5, <1>6, <1>7, <2>1, <2>3, DeskRefuse
  <2> QED
    BY <1>3, <2>4 DEF OfficeStep, Desk!Next
<1> QED
  BY <1>2, <1>8, <1>9

LEMMA NextOffice ==
  ASSUME OfficeInv, [Next]_vars
  PROVE  OfficeStep
<1>1. ASSUME UNCHANGED <<allocator, request, waiting, reply>>
      PROVE  OfficeStep
  <2>1. \A q \in Part : Sold(q)' = Sold(q)
    BY <1>1 DEF Sold, allocator
  <2>2. \A a \in Agent : Asked(a)' = Asked(a) /\ Told(a)' = Told(a)
    BY <1>1 DEF Asked, Told, Deciding, allocator
  <2> QED
    BY <2>1, <2>2, DeskStill DEF OfficeStep
<1>2. CASE UNCHANGED vars
  BY <1>1, <1>2 DEF vars, counter
<1>3. ASSUME NEW r \in requests, Pop(r) PROVE OfficeStep
  <2>1. step = "idle" /\ step' = "each" /\ t1' = t1 /\ UNCHANGED <<request, waiting, reply>>
    BY <1>3 DEF Pop, Call
  <2>2. \A q \in Part : Sold(q)' = Sold(q)
    BY <2>1 DEF Sold
  <2>3. \A a \in Agent : Asked(a)' = Asked(a) /\ Told(a)' = Told(a)
    BY <2>1 DEF Asked, Told, Deciding
  <2> QED
    BY <2>2, <2>3, DeskStill DEF OfficeStep
<1>4. CASE (\E a \in Agent : Accept(a)) \/ AllAccepted \/ Collect \/ AllServed
  BY <1>1, <1>4 DEF Accept, AllAccepted, Collect, AllServed
<1> QED
  BY <1>2, <1>3, <1>4, AgentOffice, AllocatorOffice, ReplyOffice DEF Next, Server

\* The whole counter, agents that die included, does to every request what
\* Office promises: all its passengers get berths nobody has, in whatever coaches, in one booking, or
\* it is refused because too few berths are left.
THEOREM ImplementsOffice == Spec => OfficeSpec
<1>1. Init => Desk!Init
  <2> SUFFICES ASSUME Init PROVE Desk!Init
    OBVIOUS
  <2>1. \A q \in Part : Sold(q) = {}
    BY DEF Init, BerthsInit, Sold
  <2>2. \A a \in Agent : a \notin waiting /\ ~Deciding(a) /\ reply[a] = <<>>
    BY DEF Init, BerthsInit, Deciding
  <2> QED
    BY <2>1, <2>2 DEF Desk!Init
<1>2. OfficeInv /\ [Next]_vars => OfficeStep
  BY NextOffice
<1> QED
  BY AlwaysOffice, <1>1, <1>2, PTL DEF Spec, OfficeSpec, Desk!Spec, OfficeStep
=============================================================================
