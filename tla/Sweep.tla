------------------------------- MODULE Sweep --------------------------------
(***************************************************************************)
(* The administrators of Assignment-1 over UDP: one server process for all *)
(* of them (UDPServer of all_server.c) and the client (admin in            *)
(* all_client.c). The server takes the next datagram for whatever it waits *)
(* for, and answers whoever sent the last one. It deletes file by file.    *)
(***************************************************************************)
EXTENDS Dump

CONSTANT Admins   \* each is one run of the client, with a port of its own

\* What the server waits for is not taken for a directory.
ASSUME SweepConstants == Groups \cap {"password", "date", "more"} = {}

VARIABLES
  admin,    \* client: what it waits for or asks its user
  replies,  \* client: datagrams it has not read
  inbox,    \* server: datagrams it has not read, of all clients
  server,   \* server: what it waits for, or the directory it goes through
  cl_addr,  \* server: the sender of the last datagram
  date,     \* server: the date to delete before
  left,     \* server: files that readdir has still to return
  due,      \* history: files that were too old when the date was read
  asked     \* history: the latest date that was typed

sweeping == <<admin, replies, inbox, server, cl_addr, date, left, due, asked>>

Nobody == "nobody"
Always == 1
Forever == MaxNow + 1
Dates == Always .. Forever

SweepInit ==
  /\ admin = [a \in Admins |-> "off"]
  /\ replies = [a \in Admins |-> <<>>]
  /\ inbox = <<>>
  /\ server = "password"
  /\ cl_addr = Nobody
  /\ date = Always
  /\ left = {}
  /\ due = {}
  /\ asked = Always

-----------------------------------------------------------------------------
(* The client. *)

SendTo(a, says, when, next) ==
  /\ inbox' = Append(inbox, [from |-> a, says |-> says, date |-> when])
  /\ admin' = [admin EXCEPT ![a] = next]
  /\ UNCHANGED <<replies, server, cl_addr, date, left, due>>

\* The user types the password, or something else.
TypePassword(a) ==
  /\ admin[a] \in {"off", "denied"}
  /\ \/ SendTo(a, "password", Always, "password")
     \/ SendTo(a, "wrong", Always, "password")
  /\ UNCHANGED asked

\* Anything that does not begin with n admits, also the prompt for another.
Admitted(a) ==
  /\ admin[a] = "password" /\ replies[a] # <<>>
  /\ admin' = [admin EXCEPT ![a] = IF Head(replies[a]) = "n" THEN "denied" ELSE "date"]
  /\ replies' = [replies EXCEPT ![a] = Tail(@)]
  /\ UNCHANGED <<inbox, server, cl_addr, date, left, due, asked>>

TypeDeadline(a) ==
  /\ admin[a] = "date"
  /\ \E d \in Dates : /\ SendTo(a, "date", d, "prompt")
                      /\ asked' = IF d > asked THEN d ELSE asked

Prompted(a) ==
  /\ admin[a] = "prompt" /\ replies[a] # <<>>
  /\ admin' = [admin EXCEPT ![a] = "more"]
  /\ replies' = [replies EXCEPT ![a] = Tail(@)]
  /\ UNCHANGED <<inbox, server, cl_addr, date, left, due, asked>>

TypeAgain(a) ==
  /\ admin[a] = "more"
  /\ \/ SendTo(a, "y", Always, "date")
     \/ SendTo(a, "n", Always, "done")
  /\ UNCHANGED asked

\* The client is ended before its time. One that is ended with a message on
\* the way leaves the same behind, as the answer goes nowhere.
Interrupt(a) ==
  /\ admin[a] \notin {"off", "done"}
  /\ server \notin Groups /\ replies[a] = <<>>
  /\ \A n \in 1 .. Len(inbox) : inbox[n].from # a
  /\ admin' = [admin EXCEPT ![a] = "done"]
  /\ UNCHANGED <<replies, inbox, server, cl_addr, date, left, due, asked>>

-----------------------------------------------------------------------------
(* The server. *)

Received == Head(inbox)

\* recvfrom, which stores the sender whoever it is, in the state at.
Receive(at) ==
  /\ server = at
  /\ inbox # <<>>
  /\ inbox' = Tail(inbox)
  /\ cl_addr' = Received.from

\* A datagram to a client that has ended is dropped.
Reply(a, says) ==
  replies' = IF a \in Admins /\ admin[a] # "done"
             THEN [replies EXCEPT ![a] = Append(@, says)] ELSE replies

CheckPassword ==
  /\ Receive("password")
  /\ IF Received.says = "password"
     THEN server' = "date" /\ Reply(Received.from, "y")
     ELSE server' = "password" /\ Reply(Received.from, "n")
  /\ UNCHANGED <<admin, date, left, due, asked>>

\* What the digits of a message come to as a date, each character less '0'.
\* The letters of the password make a year 582313, y and n make 1973 and 1962;
\* what something else makes depends on what it is.
Parsed(message) ==
  CASE message.says = "date" -> {message.date}
    [] message.says = "password" -> {Forever}
    [] message.says \in {"y", "n"} -> {Always}
    [] message.says = "wrong" -> Dates

FilesOf(g) == {f.inode : f \in {f \in dump : f.name.group = g}}

OpenDir(g) ==
  /\ server' = g
  /\ left' = FilesOf(g)

\* The date is read, and the first of the directories opened.
ReadDeadline ==
  /\ Receive("date")
  /\ date' \in Parsed(Received)
  /\ OpenDir(Academic)
  /\ due' = {f.inode : f \in {f \in dump : Older(f, date')}}
  /\ UNCHANGED <<admin, replies, asked>>

\* readdir returns a file that was there when the directory was opened, or one
\* made since, which it may also never return; the file is deleted if it is
\* older than the date.
Visit(f) ==
  /\ server \in Groups /\ f.name.group = server
  /\ f.inode \in left \/ Older(f, date)
  /\ left' = left \ {f.inode}
  /\ dump' = IF Older(f, date) THEN dump \ {f} ELSE dump
  /\ UNCHANGED <<filed, admin, replies, inbox, server, cl_addr, date, due, asked>>

\* After the first directory the second, after that the prompt.
CloseDir(g) ==
  /\ server = g /\ left = {}
  /\ UNCHANGED <<admin, inbox, due, asked>>

\* Mutant of NextDir: the second directory is forgotten.
OneDir ==
  /\ CloseDir(Academic)
  /\ server' = "more"
  /\ Reply(cl_addr, "more?")
  /\ date' = Always
  /\ UNCHANGED <<left, cl_addr>>

NextDir ==
  /\ CloseDir(Academic)
  /\ OpenDir(NonAcademic)
  /\ UNCHANGED <<replies, cl_addr, date>>

Finish ==
  /\ CloseDir(NonAcademic)
  /\ server' = "more"
  /\ Reply(cl_addr, "more?")
  /\ date' = Always
  /\ UNCHANGED <<left, cl_addr>>

\* Anything that does not begin with n leads to another date, without the
\* password; something wrong may begin with n.
ReadAgain ==
  /\ Receive("more")
  /\ server' \in CASE Received.says = "n" -> {"password"}
                   [] Received.says = "wrong" -> {"password", "date"}
                   [] OTHER -> {"date"}
  /\ due' = {}
  /\ UNCHANGED <<admin, replies, date, left, asked>>

-----------------------------------------------------------------------------
AdminStep(a) ==
  TypePassword(a) \/ TypeDeadline(a) \/ TypeAgain(a) \/ Interrupt(a)
ClientReads(a) == Admitted(a) \/ Prompted(a)

ServerStep ==
  \/ /\ \/ CheckPassword \/ ReadDeadline \/ ReadAgain \/ NextDir \/ Finish
     /\ UNCHANGED library
  \/ \E f \in dump : Visit(f)

SweepNext ==
  \/ \E a \in Admins : (AdminStep(a) \/ ClientReads(a)) /\ UNCHANGED library
  \/ ServerStep
=============================================================================
