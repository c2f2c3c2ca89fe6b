------------------------------ MODULE Mailboxes -----------------------------
(***************************************************************************)
(* The table data of Assignment-4 (sql.cpp), one in the database of each   *)
(* domain: what the SMTP sessions (Smtp) and the POP sessions (Pop) share. *)
(***************************************************************************)
EXTENDS Integers, Sequences, FiniteSets

CONSTANTS
  Domain,    \* abc.com and xyz.com
  Address,   \* well-formed addresses of these domains
  Home,      \* the domain of each address
  Users      \* the addresses that exist: table users, and array data of smtp.cpp

ASSUME MailboxesConstants ==
  /\ Home \in [Address -> Domain]
  /\ Users \subseteq Address

VARIABLES
  data,      \* the rows of each table; the key is the position (AUTO_INCREMENT)
  removed    \* the keys of the rows deleted since

tables == <<data, removed>>

\* mail tells the rows of different mails apart; the table has no such column.
Row(mail, from, to) ==
  [mail |-> mail, sender |-> from, receiver |-> to, message |-> <<>>, isread |-> FALSE]

MailboxesInit ==
  /\ data = [d \in Domain |-> <<>>]
  /\ removed = [d \in Domain |-> {}]

Keys(d) == 1 .. Len(data[d])
Live(d) == Keys(d) \ removed[d]

\* Mutant of insert: the key that is returned is one too high.
insertNext(d, row) == [table |-> Append(data[d], row), key |-> Len(data[d]) + 2]

insert(d, row) == [table |-> Append(data[d], row), key |-> Len(data[d]) + 1]

\* Mutant of update: a line is put before the others.
updateFront(d, keys, words) ==
  [n \in Keys(d) |-> IF n \in keys \cap Live(d)
                     THEN [data[d][n] EXCEPT !.message = words \o @]
                     ELSE data[d][n]]

\* A row that has been deleted is passed over in silence.
update(d, keys, words) ==
  [n \in Keys(d) |-> IF n \in keys \cap Live(d)
                     THEN [data[d][n] EXCEPT !.message = @ \o words]
                     ELSE data[d][n]]

markread(d, keys) ==
  [n \in Keys(d) |-> IF n \in keys \cap Live(d)
                     THEN [data[d][n] EXCEPT !.isread = TRUE]
                     ELSE data[d][n]]

\* The keys of a user's messages, latest first: all of them or the unread ones.
getMsgList(table, gone, user, all) ==
  LET keys == {n \in (1 .. Len(table)) \ gone :
                 table[n].receiver = user /\ (all \/ ~table[n].isread)}
  IN  [n \in 1 .. Cardinality(keys) |->
         CHOOSE key \in keys : Cardinality({k \in keys : k >= key}) = n]
=============================================================================
