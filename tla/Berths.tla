------------------------------- MODULE Berths -------------------------------
(***************************************************************************)
(* The berth allocator of Assignment-2 (allocator_berth of allocate.cpp),  *)
(* passenger by passenger. It marks the berths it tries with 2 and turns   *)
(* the marks into 1 (booked) or back into 0 (free). It tries, in turn,     *)
(*   each   every coach, all preferences met;                              *)
(*   coach  one coach, preferences where they can be, then (fill) any      *)
(*          berth of the coach;                                            *)
(*   any    berths of all coaches, preferences first, then (rest) any.     *)
(***************************************************************************)
EXTENDS Integers, FiniteSets, Sequences

CONSTANTS
  Agent,
  Part,      \* the parts of t1 (q1): 12321 AC, 12321 Sleeper and 12301 AC
  Coaches,   \* coaches of each part (q2): 3, 12 and 13 in the code
  Berth,     \* berths of each coach of a part (q3): 72, 72 and 54 in the code
  Bay        \* after how many berths the types repeat (mod): 8, 8 and 6

Preferences == {"SU", "SL", "UB", "LB", "MB", "NA"}

ASSUME BerthsConstants ==
  /\ Coaches \in [Part -> Nat \ {0}]
  /\ Berth \in [Part -> Nat \ {0}]
  /\ Bay \in [Part -> {6, 8}]

VARIABLES
  t1,        \* state of each berth: 0 free, 2 marked, 1 booked
  person,    \* the place each passenger of the request has, or None
  req,       \* the request
  step,      \* where the allocator is
  j,         \* the coach it tries
  i,         \* the passenger it looks at
  flag,      \* passengers it found a berth for in coach j
  flg,       \* what flag was for each coach at the end of "each"
  tried,     \* coaches "coach" has tried
  stuck      \* mod has been set to 1 by an earlier passenger of the coach

allocator == <<t1, person, req, step, j, i, flag, flg, tried, stuck>>

Coach(q) == 0 .. Coaches[q] - 1
Place(q) == Coach(q) \X (1 .. Berth[q])
None == <<0, 0>>

\* No request, and the shape of one.
Idle == [agent |-> "nobody", part |-> "none", prefs |-> <<>>]

Party == Len(req.prefs)
Passengers == 1 .. Party
Nobody(prefs) == [n \in 1 .. Len(prefs) |-> None]

\* rem1 and rem2: the berths of a bay that are of a type.
Remainders(bay, pref) ==
  LET of8 == [SU |-> {0}, SL |-> {7}, UB |-> {3, 6}, LB |-> {1, 4}, MB |-> {2, 5}]
      of6 == [SU |-> {0}, SL |-> {5}, UB |-> {2, 4}, LB |-> {1, 3}, MB |-> {2, 5}]
  IN  IF bay = 6 THEN of6[pref] ELSE of8[pref]

Suits(pref, p) ==
  pref = "NA" \/ p[2] % Bay[req.part] \in Remainders(Bay[req.part], pref)

\* With mod stuck at 1 every remainder is 0.
SuitsStuck(pref, p) ==
  IF stuck THEN pref \in {"NA", "SU"} ELSE Suits(pref, p)

In(mark) == {p \in Place(req.part) : t1[req.part][p] = mark}
Free == In(0)
FreeIn(c) == {p \in Free : p[1] = c}

Before(p, o) == p[1] < o[1] \/ (p[1] = o[1] /\ p[2] <= o[2])
First(places) == CHOOSE p \in places : \A o \in places : Before(p, o)

Set(p, mark) == [t1 EXCEPT ![req.part][p] = mark]

\* The search for passenger i: the first of the places, if there is one.
Take(places) ==
  IF places = {}
  THEN UNCHANGED <<t1, person>>
  ELSE /\ t1' = Set(First(places), 2)
       /\ person' = [person EXCEPT ![i] = First(places)]

Count(places) == flag' = IF places = {} THEN flag ELSE flag + 1

\* Mutant of Undone: the berths tried in vain stay marked.
UndoneNot == t1

Undone == [t1 EXCEPT ![req.part] =
             [p \in Place(req.part) |-> IF @[p] = 2 THEN 0 ELSE @[p]]]

\* Mutant of NextCoach: coaches are numbered from 1.
NextCoachFromOne(met, left) ==
  1 + CHOOSE c \in left : \A d \in left : met[c] <= met[d]

\* sort of flg: the coach that met the fewest preferences comes first.
NextCoach(met, left) ==
  CHOOSE c \in left : \A d \in left :
    met[c] < met[d] \/ (met[c] = met[d] /\ c <= d)

-----------------------------------------------------------------------------
BerthsInit ==
  /\ t1 = [q \in Part |-> [p \in Place(q) |-> 0]]
  /\ person = <<>>
  /\ req = Idle
  /\ step = "idle"
  /\ j = 0
  /\ i = 1
  /\ flag = 0
  /\ flg = <<>>
  /\ tried = {}
  /\ stuck = FALSE

\* Mutant of Call: the coaches are not tried for all preferences first.
CallCoach(r) ==
  /\ step = "idle"
  /\ req' = r
  /\ person' = Nobody(r.prefs)
  /\ step' = "coach"
  /\ j' = 0
  /\ i' = 1
  /\ flag' = 0
  /\ flg' = [c \in Coach(r.part) |-> 0]
  /\ tried' = {}
  /\ stuck' = FALSE
  /\ UNCHANGED t1

Call(r) ==
  /\ step = "idle"
  /\ req' = r
  /\ person' = Nobody(r.prefs)
  /\ step' = "each"
  /\ j' = 0
  /\ i' = 1
  /\ flag' = 0
  /\ flg' = [c \in Coach(r.part) |-> 0]
  /\ tried' = {}
  /\ stuck' = FALSE
  /\ UNCHANGED t1

\* Each coach in turn, for all preferences.
EachPassenger ==
  /\ step = "each"
  /\ i <= Party
  /\ LET places == {p \in FreeIn(j) : Suits(req.prefs[i], p)}
     IN  Take(places) /\ Count(places)
  /\ i' = i + 1
  /\ UNCHANGED <<req, step, j, flg, tried, stuck>>

AllMet ==
  /\ step = "each"
  /\ i > Party
  /\ flag = Party
  /\ step' = "commit"
  /\ flg' = [flg EXCEPT ![j] = flag]
  /\ UNCHANGED <<t1, person, req, j, i, flag, tried, stuck>>

NotAllMet ==
  /\ step = "each"
  /\ i > Party
  /\ flag # Party
  /\ t1' = Undone
  /\ flg' = [flg EXCEPT ![j] = flag]
  /\ i' = 1
  /\ flag' = 0
  /\ IF j + 1 < Coaches[req.part]
     THEN /\ j' = j + 1
          /\ UNCHANGED <<person, step>>
     ELSE /\ j' = NextCoach(flg', Coach(req.part))
          /\ person' = Nobody(req.prefs)
          /\ step' = "coach"
  /\ UNCHANGED <<req, tried, stuck>>

\* One coach: preferences, ...
CoachPassenger ==
  /\ step = "coach"
  /\ i <= Party
  /\ LET places == {p \in FreeIn(j) : SuitsStuck(req.prefs[i], p)}
     IN  Take(places) /\ Count(places)
  /\ stuck' = (stuck \/ req.prefs[i] = "NA")
  /\ i' = i + 1
  /\ UNCHANGED <<req, step, j, flg, tried>>

CoachFill ==
  /\ step = "coach"
  /\ i > Party
  /\ step' = "fill"
  /\ i' = 1
  /\ UNCHANGED <<t1, person, req, j, flag, flg, tried, stuck>>

\* ... then any berth of the coach for whoever has none, where "none" means
\* none of this coach or of a coach tried before: person is not cleared.
FillPassenger ==
  /\ step = "fill"
  /\ i <= Party
  /\ LET places == IF person[i] = None THEN FreeIn(j) ELSE {}
     IN  Take(places) /\ Count(places)
  /\ i' = i + 1
  /\ UNCHANGED <<req, step, j, flg, tried, stuck>>

CoachHolds ==
  /\ step = "fill"
  /\ i > Party
  /\ flag = Party
  /\ step' = "commit"
  /\ UNCHANGED <<t1, person, req, j, i, flag, flg, tried, stuck>>

CoachTooSmall ==
  /\ step = "fill"
  /\ i > Party
  /\ flag # Party
  /\ t1' = Undone
  /\ tried' = tried \cup {j}
  /\ i' = 1
  /\ flag' = 0
  /\ stuck' = FALSE
  /\ IF tried' # Coach(req.part)
     THEN /\ j' = NextCoach(flg, Coach(req.part) \ tried')
          /\ step' = "coach"
          /\ UNCHANGED person
     ELSE /\ step' = "any"
          /\ person' = Nobody(req.prefs)
          /\ UNCHANGED j
  /\ UNCHANGED <<req, flg>>

\* The whole part: preferences, ...
AnyPassenger ==
  /\ step = "any"
  /\ i <= Party
  /\ Take({p \in Free : Suits(req.prefs[i], p)})
  /\ i' = i + 1
  /\ UNCHANGED <<req, step, j, flag, flg, tried, stuck>>

AnyRest ==
  /\ step = "any"
  /\ i > Party
  /\ step' = "rest"
  /\ i' = 1
  /\ UNCHANGED <<t1, person, req, j, flag, flg, tried, stuck>>

\* ... then any berth at all; without one the whole request is given up.
RestPassenger ==
  /\ step = "rest"
  /\ i <= Party
  /\ person[i] = None => Free # {}
  /\ Take(IF person[i] = None THEN Free ELSE {})
  /\ i' = i + 1
  /\ UNCHANGED <<req, step, j, flag, flg, tried, stuck>>

\* Mutant of NoBerth: the passenger waits until there is a berth.
NoBerthWaits ==
  /\ step = "rest"
  /\ i <= Party
  /\ person[i] = None
  /\ Free = {}
  /\ UNCHANGED allocator

NoBerth ==
  /\ step = "rest"
  /\ i <= Party
  /\ person[i] = None
  /\ Free = {}
  /\ t1' = Undone
  /\ step' = "refused"
  /\ UNCHANGED <<person, req, j, i, flag, flg, tried, stuck>>

RestHolds ==
  /\ step = "rest"
  /\ i > Party
  /\ step' = "commit"
  /\ UNCHANGED <<t1, person, req, j, i, flag, flg, tried, stuck>>

\* The last loop: every mark becomes a booking, one after the other.
Commit ==
  /\ step = "commit"
  /\ In(2) # {}
  /\ t1' = Set(First(In(2)), 1)
  /\ UNCHANGED <<person, req, step, j, i, flag, flg, tried, stuck>>

Booked ==
  /\ step = "commit"
  /\ In(2) = {}
  /\ step' = "booked"
  /\ UNCHANGED <<t1, person, req, j, i, flag, flg, tried, stuck>>

Return ==
  /\ step \in {"booked", "refused"}
  /\ step' = "idle"
  /\ req' = Idle
  /\ person' = <<>>
  /\ flg' = <<>>
  /\ j' = 0
  /\ i' = 1
  /\ flag' = 0
  /\ tried' = {}
  /\ stuck' = FALSE
  /\ UNCHANGED t1

Allocate ==
  \/ EachPassenger \/ AllMet \/ NotAllMet
  \/ CoachPassenger \/ CoachFill \/ FillPassenger \/ CoachHolds \/ CoachTooSmall
  \/ AnyPassenger \/ AnyRest \/ RestPassenger \/ NoBerth \/ RestHolds
  \/ Commit \/ Booked

-----------------------------------------------------------------------------
\* Mutant of Counted: the table counts the berths that are only being tried.
CountedMarks(q) == Cardinality({p \in Place(q) : t1[q][p] # 0})

\* avl: the booked berths of a part in the table. It runs in a thread of its
\* own, between any two steps of the allocator, and changes nothing.
Counted(q) == Cardinality({p \in Place(q) : t1[q][p] = 1})
=============================================================================
