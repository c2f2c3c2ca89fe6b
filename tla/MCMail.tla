------------------------------- MODULE MCMail -------------------------------
(* Instances of Mail for TLC. *)
EXTENDS MailProperties, TLC

\* A user of each server, and a name of each that does not exist.
MCHome == [alice |-> "abc", anyone |-> "abc", bob |-> "xyz", nobodys |-> "xyz"]
MCAddress == DOMAIN MCHome
MCUsers == {"alice", "bob"}

\* No one reads.
MCNoAccount == <<>>

\* A user who writes to itself.
MCBob == {"bob"}
MCBobsHome == [bob |-> "xyz"]

\* One user logs in on every reader.
MCOneAccount == [p \in Reader |-> "bob"]
MCSymmetry == Permutations(Reader)
=============================================================================
