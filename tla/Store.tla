------------------------------- MODULE Store --------------------------------
(***************************************************************************)
(* What the primary server of Lab-Test promises its clients: one stock,    *)
(* every request decided against it in one step, in some order, whatever   *)
(* the backup server does.                                                 *)
(***************************************************************************)
EXTENDS Integers, Sequences

CONSTANTS Client, Index, Stock, Requests

VARIABLES
  stock,
  asked,    \* the request of each client, as a sequence of at most one
  answer    \* its answer, likewise

Init ==
  /\ stock = Stock
  /\ asked = [c \in Client |-> <<>>]
  /\ answer = [c \in Client |-> <<>>]

Ask(c) ==
  /\ asked[c] = <<>>
  /\ \E r \in Requests : asked' = [asked EXCEPT ![c] = <<r>>]
  /\ UNCHANGED <<stock, answer>>

Show(c) ==
  /\ asked[c][1].op = "BROWSE"
  /\ answer' = [answer EXCEPT ![c] = <<[text |-> "Id: Q:", list |-> stock]>>]
  /\ UNCHANGED stock

Sell(c, i) ==
  /\ asked[c][1].op = "BUY"
  /\ asked[c][1].id = i + 1
  /\ asked[c][1].qt <= stock[i]
  /\ stock' = [stock EXCEPT ![i] = @ - asked[c][1].qt]
  /\ answer' = [answer EXCEPT ![c] = <<[text |-> "Successful!!", list |-> <<>>]>>]

Refuse(c) ==
  /\ asked[c][1].op = "BUY"
  /\ \A i \in Index : asked[c][1].id = i + 1 => asked[c][1].qt > stock[i]
  /\ answer' = [answer EXCEPT ![c] = <<[text |-> "Unsucessful!!", list |-> <<>>]>>]
  /\ UNCHANGED stock

Decide(c) ==
  /\ asked[c] # <<>>
  /\ answer[c] = <<>>
  /\ Show(c) \/ Refuse(c) \/ \E i \in Index : Sell(c, i)
  /\ UNCHANGED asked

Return(c) ==
  /\ answer[c] # <<>>
  /\ asked' = [asked EXCEPT ![c] = <<>>]
  /\ answer' = [answer EXCEPT ![c] = <<>>]
  /\ UNCHANGED stock

Next == \E c \in Client : Ask(c) \/ Decide(c) \/ Return(c)

Spec == Init /\ [][Next]_<<stock, asked, answer>>
=============================================================================
