-------------------------------- MODULE Mail --------------------------------
(***************************************************************************)
(* The mail system of Assignment-4: the clients and sessions of Smtp and   *)
(* the readers of Pop on the tables of Mailboxes.                          *)
(***************************************************************************)
EXTENDS Smtp, Pop

vars == <<tables, sessions, clients, readers>>

Init == MailboxesInit /\ SmtpInit /\ PopInit

Next ==
  \/ SmtpNext /\ UNCHANGED readers
  \/ PopNext /\ UNCHANGED <<sessions, clients>>

Spec == Init /\ [][Next]_vars

\* Sessions are processes that run, and a client reads the reply it waits for.
\* What the users do, and when, is up to them.
FairSpec ==
  /\ Spec
  /\ \A s \in Session : WF_vars(SessionStep(s) /\ UNCHANGED readers)
  /\ \A c \in Client : WF_vars(ClientStep(c) /\ UNCHANGED readers)
=============================================================================
