--------------------------- MODULE MailProperties ---------------------------
(* What should hold of Mail. *)
EXTENDS Mail

\* Types; a session knows only rows of its own table.
Writes ==
  [verb : {"HELO"}, arg : Domain] \cup [verb : {"MAIL FROM"}, arg : Address] \cup [verb : {"RCPT TO", "VRFY"}, arg : Address]
    \cup [verb : {"RSET", "DATA", "QUIT"}, arg : {Nobody}]
    \cup [verb : {"text"}, arg : Seq((Client \X (1 .. MaxLines)) \cup {Dot})]

Replies == {Nothing, "220 service ready", "250 OK", "550 No such user here", "Syntax Error or Failure",
            "Invalid Command", "221 service closed", "354 start mail input"}

TypeOK ==
  /\ \A d \in Domain :
       /\ removed[d] \subseteq Keys(d)
       /\ \A n \in Keys(d) :
            /\ data[d][n].receiver \in Users /\ Home[data[d][n].receiver] = d
            /\ data[d][n].sender \in Address
            /\ data[d][n].mail \in Client
  /\ \A s \in Session :
       /\ srv[s] \in Domain \cup {Nothing}
       /\ \A n \in 1 .. Len(inbox[s]) : inbox[s][n] \in Writes
       /\ reply[s] \in Replies
       /\ sender[s] \in Address \cup {Nobody}
       /\ \A n \in 1 .. Len(recvr[s]) : recvr[s][n] \in Relay(s) \cup {Of(s[1])}
       /\ \A n \in 1 .. Len(recvr_id[s]) : recvr_id[s][n] \in Keys(srv[s]) \cup {0}
       /\ \A n \in 1 .. Len(work[s]) : work[s][n].relay \in Relay(s)
       /\ pc[s] \in {"conn hello", "conn helo", "conn", "conn to", "conn rset"} => ask[s].relay \in Relay(s)
  /\ \A p \in Reader :
       /\ to_delete[p] \cup read[p] \subseteq Keys(At(p))
       /\ Len(screen[p]) = Len(msglist[p])

-----------------------------------------------------------------------------
(* Safety. *)

\* The rows of a mail for a recipient, as they are or were when deleted.
Copies(c, a) == {n \in Keys(Home[a]) : /\ data[Home[a]][n].mail = c
                                       /\ data[Home[a]][n].receiver = a}

\* Each copy of a mail, here or relayed, holds the lines of its body in their
\* order and once, as far as they have been written; empty lines only follow
\* the last line of a client that died before the dot.
CopiesAreFaithful ==
  \A d \in Domain : \A n \in Keys(d) :
    LET row == data[d][n]
        c == row.mail
    IN  \E k \in 0 .. typed[c], blanks \in 0 .. MaxBlanks + MaxLines :
          /\ row.message = SubSeq(Body(c), 1, k) \o [i \in 1 .. blanks |-> Empty]
          /\ blanks > 0 => user[c] = "cut" /\ k = typed[c]

\* "Mail sent successfully!" is said when every recipient that was accepted, on
\* either server, has the whole body, unless it has deleted the message.
SentMeansDelivered ==
  \A c \in Client : user[c] \in {"sent", "done"} =>
    \A a \in ok[c] : \E n \in Copies(c, a) :
      n \in removed[Home[a]] \/ data[Home[a]][n].message = Body(c)

\* Messages are deleted, and marked as read, only when their owner meant them
\* by the number it gave: numbers stay those of the listing shown, whatever
\* arrives or is deleted meanwhile.
OnlyWhatWasMeant ==
  \A d \in Domain : \A n \in Keys(d) :
    /\ n \in removed[d] => \E p \in Reader :
         Account[p] = data[d][n].receiver /\ n \in deleted[p]
    /\ data[d][n].isread => \E p \in Reader :
         Account[p] = data[d][n].receiver /\ n \in opened[p]

-----------------------------------------------------------------------------
(* Liveness. *)

\* The dot brings the mail to every accepted recipient, even if the client does
\* not live to read the reply.
DotDelivers ==
  \A c \in Client : user[c] = "." ~>
    \A a \in ok[c] : \E n \in Copies(c, a) :
      n \in removed[Home[a]] \/ data[Home[a]][n].message = Body(c)

\* A client that has typed the dot is answered.
DotAnswered == \A c \in Client : user[c] = "." ~> user[c] # "."

\* A client that leaves other than in the middle of a body takes its sessions
\* with it, also those on the other server that refused a recipient.
SessionsEnd ==
  \A c \in Client : user[c] \in {"left", "done"} ~>
    \A s \in Session : s[1] = c => pc[s] \in {"closed", "gone"}
=============================================================================
