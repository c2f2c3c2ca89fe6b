-------------------------------- MODULE News --------------------------------
(***************************************************************************)
(* The news service of Assignment-1: reporters and readers (Newsroom) and  *)
(* administrators (Sweep) on the directories of Dump, while time passes.   *)
(***************************************************************************)
EXTENDS Newsroom, Sweep

CONSTANT MaxBusy   \* bound: so many users at a time

vars == <<now, library, newsroom, sweeping>>

Init == DumpInit /\ NewsroomInit /\ SweepInit

\* The users who are at it.
Busy == {r \in Reporters : client[r] # "away"} \cup {r \in Readers : reader[r] # "away"}
          \cup {a \in Admins : admin[a] \notin {"off", "done"}}

Next ==
  /\ \/ Tick /\ UNCHANGED <<newsroom, sweeping>>
     \/ NewsroomNext /\ UNCHANGED <<now, sweeping>>
     \/ SweepNext /\ UNCHANGED <<now, newsroom>>
  /\ Cardinality(Busy') <= MaxBusy

Spec == Init /\ [][Next]_vars
=============================================================================
