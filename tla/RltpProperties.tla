--------------------------- MODULE RltpProperties ---------------------------
(* What should hold of Rltp, and the invariant that makes it hold. *)
EXTENDS Rltp

Labels ==
  {"closed", "connect", "ready", "accept", "accept_connect", "send", "receive",
   "reply", "close", "accept_close", "prompt", "exited", "done"}

(* Types; a wait loop has a packet to repeat, a reply has a request. *)
TypeOK ==
  /\ pc \in [End -> Labels]
  /\ retry \in [End -> 0 .. MAX_RETRY - 1]
  /\ packet \in [End -> Packet \cup {NoPacket}]
  /\ \A e \in End : Waiting(e) => packet[e] \in Packet
  /\ connected \in [End -> BOOLEAN]
  /\ src_seq_no \in [End -> SeqNo]
  /\ dest_seq_no \in [End -> SeqNo]
  /\ destport \in [End -> PortNo]
  /\ dest_addr \in [End -> Addrs]
  /\ times \in Nat
  /\ conns \in Nat
  /\ wire \in [End -> Seq(Packet)]
  /\ faults \in Nat
  /\ log \in [End -> Seq(Message)]
  /\ acked \in [End -> Nat]
  /\ delivered \in [End -> Seq(Nat)]
  /\ pc["server"] = "reply" => delivered["server"] # <<>>
  /\ wrapped \in BOOLEAN

\* The number src_seq_no had after the first i messages e ever sent.
Pos(e, i) == IF i = 0 THEN ISN[e] ELSE log[e][i].seq_no

-----------------------------------------------------------------------------
(* Safety. *)

\* What an end has received is a prefix of what the other sent: nothing is
\* lost, repeated or reordered between two calls that succeeded
\* (rtlp_receive_message's test on seq_no, over every handshake).
StreamPrefix ==
  \A e \in End :
    LET sent == log[Peer(e)] IN
    /\ Len(delivered[e]) <= Len(sent)
    /\ \A i \in 1 .. Len(delivered[e]) : delivered[e][i] = sent[i].data

\* rtlp_send_message returns 1 only for messages the other program has got.
AckedMeansDelivered == \A e \in End : acked[e] <= Len(delivered[Peer(e)])

\* While connected, an end expects exactly the number its peer gave the last
\* message delivered, whatever old packets both handshakes met.
NumbersAgree ==
  \A e \in End : connected[e] /\ pc[e] # "exited" =>
    /\ destport[e] = Port[Peer(e)]
    /\ Len(delivered[e]) <= Len(log[Peer(e)])
    /\ dest_seq_no[e] = Pos(Peer(e), Len(delivered[e]))

InConversation(e) == pc[e] \in {"receive", "reply", "send"}

\* The ends agree on the first connection: a server in a conversation is in it
\* with a client whose connect() has returned (accept_connect's wait for the
\* third packet), and when close() returns the server has met the FIN.  (Late
\* copies of the SYN and of the last ACK of a connection that carried no message
\* can open it again at the server: both numbers are still the first ones.)
EndsAgree ==
  conns <= 1 /\ InConversation("server") =>
    /\ pc["client"] # "connect"
    /\ log["client"] # <<>> => pc["client"] # "closed"

\* With no fault of the network nobody's retries run out, as long as the
\* server is still there: the two wait loops never wait for each other.  A
\* number that wraps to exactly 0 is the exception: send_ACK exits.
FailsOnlyAfterFault ==
  faults = 0 /\ ~wrapped =>
    /\ pc["server"] # "exited"
    /\ pc["client"] = "exited" => pc["server"] = "done"

\* An abstract channel, with the history variables as its state.
Passed == [e \in End |-> [i \in 1 .. Len(log[e]) |-> log[e][i].data]]

Channel ==
  INSTANCE RltpChannel WITH
    sent <- Passed,
    done <- acked,
    got <- delivered

ChannelSpec == Channel!Spec

-----------------------------------------------------------------------------
(* Liveness, under FairSpec. *)

\* Every bounded wait ends, in success or not, whatever the network does:
\* each failed try is counted.
LoopsEnd == \A e \in End : Waiting(e) ~> ~Waiting(e)

\* Over a network without faults every connection is opened, used and closed
\* at both ends, unless the server's user has said "y".
SessionsComplete ==
  [](faults = 0) =>
  /\ (pc["client"] = "connect") ~> (connected["client"] \/ pc["server"] = "done")
  /\ connected["client"] ~> (pc["client"] = "closed")
  /\ connected["server"] ~> (pc["server"] = "prompt")

-----------------------------------------------------------------------------
(* The inductive invariant, as long as no number has wrapped. *)

\* The numbers of the messages sent grow by their lengths, up to src_seq_no.
LogOrder ==
  \A e \in End :
    /\ src_seq_no[e] = Pos(e, Len(log[e]))
    /\ \A i, j \in 0 .. Len(log[e]) : i < j => Pos(e, i) < Pos(e, j)
    /\ \A i \in 1 .. Len(log[e]) : Pos(e, i) = Pos(e, i - 1) + log[e][i].databytes

\* The echo programs take turns: outside a request the client has had its
\* answers, and the server has answered all but the one it is about to.
Turns ==
  /\ pc["client"] \in {"closed", "connect", "ready", "close"} =>
       Len(log["client"]) = Len(delivered["client"])
  /\ pc["client"] \in {"send", "receive"} =>
       Len(log["client"]) = Len(delivered["client"]) + 1
  /\ pc["server"] \notin {"reply", "exited"} =>
       Len(log["server"]) = Len(delivered["server"])
  /\ pc["server"] = "reply" =>
       Len(delivered["server"]) = Len(log["server"]) + 1
  /\ Len(log["server"]) <= Len(delivered["server"])

\* Where each program is when its end is connected, and what has returned.
Control ==
  /\ pc["client"] \in {"closed", "connect", "ready", "send", "receive", "close", "exited"}
  /\ pc["server"] \in {"accept", "accept_connect", "receive", "reply", "send",
                       "accept_close", "prompt", "exited", "done"}
  /\ pc["client"] # "exited" =>
       (connected["client"] <=> pc["client"] \in {"ready", "send", "receive", "close"})
  /\ pc["server"] # "exited" =>
       (connected["server"] <=> pc["server"] \in {"receive", "reply", "send", "accept_close"})
  /\ pc["client"] = "connect" => destport["client"] = Port["server"]
  /\ pc["server"] \notin {"accept", "prompt", "exited", "done"} => Port["server"] < 32768
  /\ pc["server"] = "accept_connect" => destport["server"] # Port["server"]
  /\ pc["server"] = "accept_connect" /\ destport["server"] = Port["client"] =>
       \E i \in 0 .. Len(log["server"]) : dest_seq_no["server"] = Pos("client", i)
  /\ \A e \in End :
       /\ pc[e] = "send" => acked[e] + 1 = Len(log[e])
       /\ pc[e] \notin {"send", "exited"} => acked[e] = Len(log[e])

\* A packet e can have sent: after its a-th message and the b-th it received.
Genuine(e, p) ==
  \E a \in 0 .. Len(log[e]), b \in 0 .. Len(delivered[e]) :
    /\ p.seq_no = Pos(e, a)
    /\ p.ack_no = Pos(Peer(e), b)
    /\ p.type = "DATA" =>
         a > 0 /\ p.databytes = log[e][a].databytes /\ p.data = log[e][a].data
    /\ e = "client" \/ p.type = "SYN_ACK" => b <= a

GenuinePacket(p) ==
  /\ p.source_port \notin {Port["client"], Port["server"]} => p.type = "SYN"
  /\ p.source_port = Port["client"] =>
       /\ p.type \in {"SYN", "DATA", "ACK", "FIN"}
       /\ p.type = "SYN" =>
            \E i \in 0 .. Len(log["server"]) : p.seq_no = Pos("client", i)
       /\ p.type # "SYN" => Genuine("client", p)
  /\ p.source_port = Port["server"] =>
       /\ Port["server"] < 32768
       /\ p.type \in {"SYN_ACK", "DATA", "ACK", "FIN_ACK"}
       /\ p.dest_port = Port["client"] => Genuine("server", p)

GenuinePackets ==
  \A e \in End :
    /\ packet[e] # NoPacket => GenuinePacket(packet[e])
    /\ \A i \in 1 .. Len(wire[e]) : GenuinePacket(wire[e][i])

Inv ==
  ~wrapped =>
    /\ LogOrder
    /\ StreamPrefix
    /\ NumbersAgree
    /\ AckedMeansDelivered
    /\ Turns
    /\ Control
    /\ GenuinePackets
=============================================================================
