----------------------------- MODULE RltpChannel -----------------------------
(***************************************************************************)
(* What the transport of Assignment-3 promises its users: two independent  *)
(* streams, one in each direction, that deliver every message at most once *)
(* and in order, and report a message as sent only after the other side's  *)
(* rtlp_receive_message has returned it.                                   *)
(***************************************************************************)
EXTENDS Naturals, Sequences

CONSTANTS End, Peer(_)

VARIABLES
  sent,   \* what each end has passed to rtlp_send_message
  done,   \* how many of those calls have returned 1
  got     \* what rtlp_receive_message has returned at each end

Init ==
  /\ sent = [e \in End |-> <<>>]
  /\ done = [e \in End |-> 0]
  /\ got = [e \in End |-> <<>>]

\* One message, whatever it says, and only after the last one returned.
Send(e) ==
  /\ done[e] = Len(sent[e])
  /\ Len(sent'[e]) = Len(sent[e]) + 1
  /\ \A i \in 1 .. Len(sent[e]) : sent'[e][i] = sent[e][i]
  /\ \A f \in End \ {e} : sent'[f] = sent[f]
  /\ UNCHANGED <<done, got>>

Receive(e) ==
  /\ Len(got[e]) < Len(sent[Peer(e)])
  /\ got' = [got EXCEPT ![e] = Append(@, sent[Peer(e)][Len(@) + 1])]
  /\ UNCHANGED <<sent, done>>

Return(e) ==
  /\ done[e] < Len(sent[e])
  /\ Len(got[Peer(e)]) = Len(sent[e])
  /\ done' = [done EXCEPT ![e] = @ + 1]
  /\ UNCHANGED <<sent, got>>

Next == \E e \in End : Send(e) \/ Receive(e) \/ Return(e)

Spec == Init /\ [][Next]_<<sent, done, got>>
=============================================================================
