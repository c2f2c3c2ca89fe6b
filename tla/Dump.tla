-------------------------------- MODULE Dump --------------------------------
(***************************************************************************)
(* The library of Assignment-1 (all_server.c): one directory of files for  *)
(* each news group. The sessions of reporters and readers (Newsroom) and   *)
(* the server of the administrators (Sweep) are processes that share these *)
(* directories and nothing else. A file is named by the second of the      *)
(* clock in which its article came and by its heading.                     *)
(***************************************************************************)
EXTENDS Naturals, Sequences, FiniteSets

CONSTANTS
  Academic, NonAcademic,  \* the two groups
  Headings,     \* as numbers, in the order strverscmp puts them
  MaxNow,       \* bound: the clock stops there
  MaxArticles   \* bound: so many articles are filed

ASSUME DumpConstants ==
  /\ Academic # NonAcademic
  /\ Headings \subseteq Nat
  /\ MaxNow \in Nat \ {0}
  /\ MaxArticles \in Nat

VARIABLES
  now,     \* the clock, in seconds
  dump,    \* the files that have a name in a directory
  filed    \* history: the name under which each article was filed, in order

library == <<dump, filed>>

Groups == {Academic, NonAcademic}
Seconds == 1 .. MaxNow
Articles == Nat \ {0}
Name == [group : Groups, time : Seconds, heading : Headings]

\* inode is the article for which the file was made. A file that has been
\* opened and not yet written is empty; one that two articles were written
\* into may hold what is left of the longer behind the shorter.
File == [name : Name, inode : Articles, text : SUBSET Articles]

DumpInit ==
  /\ now = 1
  /\ dump = {}
  /\ filed = <<>>

Tick ==
  /\ now < MaxNow
  /\ now' = now + 1
  /\ UNCHANGED library

Named(nm) == {f \in dump : f.name = nm}
NewArticle == Len(filed) + 1

-----------------------------------------------------------------------------
(* Filing. *)

\* fopen(name, "w"): the file is made, or the one of that name cut to nothing.
Truncate(nm) ==
  /\ filed' = Append(filed, nm)
  /\ dump' = IF Named(nm) = {}
             THEN dump \cup {[name |-> nm, inode |-> NewArticle, text |-> {}]}
             ELSE {IF f.name = nm THEN [f EXCEPT !.text = {}] ELSE f : f \in dump}

\* fprintf and fclose: one write, from the start of the file that was opened,
\* which may have lost its name since.
Write(n, inode) ==
  \E leftover \in BOOLEAN :
    dump' = {IF f.inode = inode
             THEN [f EXCEPT !.text = {n} \cup (IF leftover THEN @ ELSE {})]
             ELSE f : f \in dump}

-----------------------------------------------------------------------------
(* Listing. *)

\* The order of strverscmp on the names of one group.
Later(nm, om) ==
  \/ nm.time > om.time
  \/ nm.time = om.time /\ nm.heading > om.heading

Listing(g) == {nm \in {f.name : f \in dump} : nm.group = g}

\* The number a name has in a listing, latest first.
Number(list, nm) == Cardinality({om \in list : Later(om, nm)}) + 1

-----------------------------------------------------------------------------
(* Deleting. *)

\* Mutant of Older: up to the date, instead of before it.
NotAfter(f, date) == f.name.time <= date

Older(f, date) == f.name.time < date
=============================================================================
