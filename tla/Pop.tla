--------------------------------- MODULE Pop --------------------------------
(***************************************************************************)
(* Reading mail in Assignment-4 (POPServerSession.cpp, POPClient.cpp): a   *)
(* user logs in, which lists the messages, and retrieves or deletes some   *)
(* by the number they have in the listing. Command and reply are one step; *)
(* the messages are deleted, and marked as read, later. STAT and LIST with *)
(* a number change nothing and are left out.                               *)
(***************************************************************************)
EXTENDS Mailboxes

CONSTANTS
  Reader,    \* POP clients
  Account    \* the user each of them logs in as

ASSUME PopConstants == Account \in [Reader -> Users]

VARIABLES
  state,
  msglist,   \* the listing the session works on
  to_delete,
  read,      \* keys of the messages retrieved since the last LIST
  screen,    \* client: the keys of the messages listed last, by number
  deleted,   \* client: keys of the messages the user has meant to delete
  opened     \* client: keys of the messages the user has meant to retrieve

readers == <<state, msglist, to_delete, read, screen, deleted, opened>>

PopInit ==
  /\ state = [p \in Reader |-> "AUTHORIZATION"]
  /\ msglist = [p \in Reader |-> <<>>]
  /\ to_delete = [p \in Reader |-> {}]
  /\ read = [p \in Reader |-> {}]
  /\ screen = [p \in Reader |-> <<>>]
  /\ deleted = [p \in Reader |-> {}]
  /\ opened = [p \in Reader |-> {}]

At(p) == Home[Account[p]]

\* processLIST without a number, or with -1 for all messages: it first writes
\* what the session has put off.
List(p, all) ==
  LET d == At(p)
      table == markread(d, read[p])
      gone == removed[d] \cup to_delete[p]
      keys == getMsgList(table, gone, Account[p], all)
  IN  /\ data' = [data EXCEPT ![d] = table]
      /\ removed' = [removed EXCEPT ![d] = gone]
      /\ read' = [read EXCEPT ![p] = {}]
      /\ to_delete' = [to_delete EXCEPT ![p] = {}]
      /\ msglist' = [msglist EXCEPT ![p] =
           [n \in 1 .. Len(keys) |-> [key |-> keys[n], deleted |-> FALSE]]]
      /\ screen' = [screen EXCEPT ![p] = keys]
      /\ UNCHANGED <<deleted, opened>>

\* USER and PASS; the client lists the unread messages at once.
Login(p) ==
  /\ state[p] = "AUTHORIZATION"
  /\ state' = [state EXCEPT ![p] = "TRANSACTION"]
  /\ List(p, FALSE)

ListAgain(p) ==
  /\ state[p] = "TRANSACTION"
  /\ \E all \in BOOLEAN : List(p, all)
  /\ UNCHANGED state

\* The user at p gives a number, and the session finds a message by it.
Chosen(p, n) ==
  /\ state[p] = "TRANSACTION"
  /\ n \in 1 .. Len(msglist[p])
  /\ ~msglist[p][n].deleted

Retrieve(p, n) ==
  /\ Chosen(p, n)
  /\ opened' = [opened EXCEPT ![p] = @ \cup {screen[p][n]}]
  /\ read' = [read EXCEPT ![p] = @ \cup {msglist[p][n].key}]
  /\ UNCHANGED <<tables, state, msglist, to_delete, screen, deleted>>

\* Mutant of Delete: the entry is taken out of the listing.
DeleteEntry(p, n) ==
  /\ Chosen(p, n)
  /\ deleted' = [deleted EXCEPT ![p] = @ \cup {screen[p][n]}]
  /\ to_delete' = [to_delete EXCEPT ![p] = @ \cup {msglist[p][n].key}]
  /\ msglist' = [msglist EXCEPT ![p] =
       SubSeq(@, 1, n - 1) \o SubSeq(@, n + 1, Len(@))]
  /\ UNCHANGED <<tables, state, read, screen, opened>>

Delete(p, n) ==
  /\ Chosen(p, n)
  /\ deleted' = [deleted EXCEPT ![p] = @ \cup {screen[p][n]}]
  /\ to_delete' = [to_delete EXCEPT ![p] = @ \cup {msglist[p][n].key}]
  /\ msglist' = [msglist EXCEPT ![p][n].deleted = TRUE]
  /\ UNCHANGED <<tables, state, read, screen, opened>>

\* QUIT writes the deletions but not the read marks.
SignOff(p) ==
  /\ state[p] = "TRANSACTION"
  /\ state' = [state EXCEPT ![p] = "UPDATE"]
  /\ removed' = [removed EXCEPT ![At(p)] = @ \cup to_delete[p]]
  /\ UNCHANGED <<data, msglist, to_delete, read, screen, deleted, opened>>

\* The client ends without QUIT: the session fails to answer "" and ends too.
Abort(p) ==
  /\ state[p] \in {"AUTHORIZATION", "TRANSACTION"}
  /\ state' = [state EXCEPT ![p] = "aborted"]
  /\ UNCHANGED <<tables, msglist, to_delete, read, screen, deleted, opened>>

PopNext ==
  \E p \in Reader :
    \/ Login(p) \/ ListAgain(p) \/ SignOff(p) \/ Abort(p)
    \/ \E n \in 1 .. Len(msglist[p]) : Retrieve(p, n) \/ Delete(p, n)
=============================================================================
