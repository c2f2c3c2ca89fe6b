-------------------------- MODULE RltpStreamProofs --------------------------
(* The transport's streams: the inductive invariant Inv of RltpProperties. *)
EXTENDS RltpProofs

\* What Inv says until a number wraps.
Safe ==
  /\ LogOrder
  /\ StreamPrefix
  /\ NumbersAgree
  /\ AckedMeansDelivered
  /\ Turns
  /\ Control
  /\ GenuinePackets

LEMMA InvIsSafe == Inv <=> (~wrapped => Safe)
BY DEF Inv, Safe

LEMMA Ends ==
  /\ End = {"client", "server"}
  /\ Peer("client") = "server" /\ Peer("server") = "client"
  /\ \A e \in End : Peer(e) \in End /\ Peer(e) # e /\ Peer(Peer(e)) = e
  /\ Port \in [End -> PortNo] /\ Port["client"] # Port["server"]
BY RltpConstants DEF End, Peer

-----------------------------------------------------------------------------
(* The numbers of the messages. *)

LEMMA Lengths ==
  ASSUME TypeOK, NEW e \in End
  PROVE  Len(log[e]) \in Nat /\ Len(delivered[e]) \in Nat /\ acked[e] \in Nat
BY LenProperties DEF TypeOK

LEMMA PosType ==
  ASSUME TypeOK, NEW e \in End, NEW i \in 0 .. Len(log[e])
  PROVE  Pos(e, i) \in SeqNo
<1>1. CASE i = 0
  BY <1>1, RltpConstants DEF Pos
<1>2. CASE i # 0
  <2>1. i \in 1 .. Len(log[e]) /\ log[e] \in Seq(Message)
    BY <1>2, Lengths DEF TypeOK
  <2>2. log[e][i] \in Message
    BY <2>1, ElementOfSeq
  <2> QED BY <1>2, <2>2 DEF Message, Pos
<1> QED BY <1>1, <1>2

LEMMA PosInjective ==
  ASSUME TypeOK, LogOrder, NEW e \in End,
         NEW i \in 0 .. Len(log[e]), NEW j \in 0 .. Len(log[e]), Pos(e, i) = Pos(e, j)
  PROVE  i = j
<1>1. i < j => Pos(e, i) < Pos(e, j)
  BY DEF LogOrder
<1>2. j < i => Pos(e, j) < Pos(e, i)
  BY DEF LogOrder
<1>3. Pos(e, i) \in Nat /\ i \in Int /\ j \in Int
  BY PosType, Lengths, RltpConstants DEF SeqNo
<1> QED BY <1>1, <1>2, <1>3

LEMMA PosPositive ==
  ASSUME TypeOK, LogOrder, NEW e \in End, NEW i \in 0 .. Len(log[e])
  PROVE  Pos(e, i) > 0
<1>1. Pos(e, 0) > 0 /\ Pos(e, 0) \in Nat
  BY RltpConstants DEF Pos, SeqNo
<1>2. Pos(e, i) \in Nat /\ i \in Nat /\ 0 \in 0 .. Len(log[e])
  BY PosType, Lengths, RltpConstants DEF SeqNo
<1>3. 0 < i => Pos(e, 0) < Pos(e, i)
  BY <1>2 DEF LogOrder
<1> QED BY <1>1, <1>2, <1>3

\* How far the four histories are from each other.
LEMMA TurnsOrder ==
  ASSUME TypeOK, Safe
  PROVE  /\ Len(delivered["client"]) <= Len(log["server"])
         /\ Len(log["server"]) <= Len(delivered["server"])
         /\ Len(delivered["server"]) <= Len(log["client"])
BY Ends DEF Safe, StreamPrefix, Turns

-----------------------------------------------------------------------------
(* What a packet that is accepted proves. *)

LEMMA PacketGenuine ==
  ASSUME TypeOK, GenuinePackets, NEW p \in OnWire(wire)
  PROVE  GenuinePacket(p)
BY DEF OnWire, GenuinePackets

LEMMA FromPeer ==
  ASSUME NEW p, GenuinePacket(p), NEW e \in End,
         p.source_port = Port[Peer(e)], p.dest_port = Port[e], p.type # "SYN"
  PROVE  /\ Genuine(Peer(e), p)
         /\ e = "client" => p.type # "FIN"
         /\ e = "server" => p.type \notin {"SYN_ACK", "FIN_ACK"}
BY Ends DEF GenuinePacket

LEMMA AckProves ==
  ASSUME TypeOK, Safe, NEW e \in End, NEW p, GenuinePacket(p),
         NEW type \in {"ACK", "FIN_ACK"}, AckAccepted(e, p, type),
         destport[e] = Port[Peer(e)]
  PROVE  /\ Len(log[e]) <= Len(delivered[Peer(e)])
         /\ \E a \in 0 .. Len(log[Peer(e)]) :
              /\ p.seq_no = Pos(Peer(e), a)
              /\ e = "server" => Len(log[e]) <= a
<1>1. Genuine(Peer(e), p)
  BY FromPeer DEF AckAccepted, SamePort
<1>2. PICK a \in 0 .. Len(log[Peer(e)]), b \in 0 .. Len(delivered[Peer(e)]) :
        /\ p.seq_no = Pos(Peer(e), a)
        /\ p.ack_no = Pos(Peer(Peer(e)), b)
        /\ Peer(e) = "client" \/ p.type = "SYN_ACK" => b <= a
  BY <1>1 DEF Genuine
<1>3. p.ack_no = Pos(e, Len(log[e]))
  BY DEF AckAccepted, Safe, LogOrder
<1>4. b \in 0 .. Len(log[e]) /\ Len(log[e]) \in 0 .. Len(log[e])
  BY TurnsOrder, Ends, Lengths
<1>5. b = Len(log[e])
  BY <1>2, <1>3, <1>4, Ends, PosInjective DEF Safe
<1> QED BY <1>2, <1>5, Ends, Lengths

LEMMA DataProves ==
  ASSUME TypeOK, Safe, NEW e \in End, NEW p \in Packet, GenuinePacket(p),
         DataAccepted(e, p), connected[e], pc[e] # "exited"
  PROVE  /\ Len(delivered[e]) + 1 \in 1 .. Len(log[Peer(e)])
         /\ p.seq_no = Pos(Peer(e), Len(delivered[e]) + 1)
         /\ p.data = log[Peer(e)][Len(delivered[e]) + 1].data
         /\ p.seq_no # 0
<1> DEFINE n == Len(delivered[e])
           f == Peer(e)
<1>1. /\ f \in End /\ destport[e] = Port[f]
      /\ n <= Len(log[f]) /\ dest_seq_no[e] = Pos(f, n)
  BY Ends DEF Safe, NumbersAgree
<1>2. Genuine(f, p) /\ p.type = "DATA"
  BY <1>1, FromPeer DEF DataAccepted, InSession, SamePort
<1>3. PICK a \in 0 .. Len(log[f]) :
        /\ p.seq_no = Pos(f, a) /\ a > 0
        /\ p.databytes = log[f][a].databytes /\ p.data = log[f][a].data
  BY <1>2 DEF Genuine
<1>4. a \in 1 .. Len(log[f]) /\ a - 1 \in 0 .. Len(log[f]) /\ n \in 0 .. Len(log[f])
      /\ a \in Nat /\ n \in Nat
  BY <1>1, <1>3, Lengths
<1>5. Pos(f, a) = Pos(f, a - 1) + log[f][a].databytes
  BY <1>1, <1>4 DEF Safe, LogOrder
<1>6. /\ Pos(f, a) \in 0 .. SeqMod - 1 /\ Pos(f, a - 1) \in 0 .. SeqMod - 1
      /\ Pos(f, n) \in 0 .. SeqMod - 1 /\ SeqMod \in Nat
      /\ log[f][a].databytes \in Nat
  <2>1. log[f] \in Seq(Message)
    BY <1>1 DEF TypeOK
  <2>2. log[f][a] \in Message
    BY <1>4, <2>1, ElementOfSeq
  <2> QED BY <1>1, <1>4, <2>2, PosType, RltpConstants DEF SeqNo, Message
<1>7. Minus(Pos(f, a), Pos(f, n)) = log[f][a].databytes
  BY <1>1, <1>3 DEF DataAccepted
<1>8. Pos(f, a - 1) = Pos(f, n)
  BY <1>5, <1>6, <1>7 DEF Minus
<1>9. a - 1 = n
  BY <1>1, <1>4, <1>8, PosInjective DEF Safe
<1>10. a = n + 1
  BY <1>4, <1>9
<1>11. Pos(f, a) > 0
  BY <1>1, <1>4, PosPositive DEF Safe
<1> QED BY <1>3, <1>4, <1>6, <1>10, <1>11

-----------------------------------------------------------------------------
(* What stays true while the histories grow. *)

Grown ==
  \A e \in End :
    /\ Len(log[e]) <= Len(log'[e])
    /\ \A i \in 1 .. Len(log[e]) : log'[e][i] = log[e][i]
    /\ Len(delivered[e]) <= Len(delivered'[e])

LEMMA SameGrown ==
  ASSUME TypeOK, UNCHANGED <<log, delivered>>
  PROVE  Grown
BY Lengths DEF Grown

LEMMA PosKept ==
  ASSUME TypeOK, Grown, NEW e \in End, NEW i \in 0 .. Len(log[e])
  PROVE  Pos(e, i)' = Pos(e, i)
<1>1. i # 0 => log'[e][i] = log[e][i]
  BY Lengths DEF Grown
<1> QED BY <1>1 DEF Pos

LEMMA GenuineKept ==
  ASSUME TypeOK, TypeOK', StreamPrefix, Grown, NEW e \in End, NEW p, Genuine(e, p)
  PROVE  Genuine(e, p)'
<1>1. PICK a \in 0 .. Len(log[e]), b \in 0 .. Len(delivered[e]) :
        /\ p.seq_no = Pos(e, a)
        /\ p.ack_no = Pos(Peer(e), b)
        /\ p.type = "DATA" =>
             a > 0 /\ p.databytes = log[e][a].databytes /\ p.data = log[e][a].data
        /\ e = "client" \/ p.type = "SYN_ACK" => b <= a
  BY DEF Genuine
<1>2. Peer(e) \in End /\ b \in 0 .. Len(log[Peer(e)])
  BY Ends, Lengths DEF StreamPrefix
<1>3. Pos(e, a)' = Pos(e, a) /\ Pos(Peer(e), b)' = Pos(Peer(e), b)
  BY <1>2, PosKept
<1>4. a \in 0 .. Len(log'[e]) /\ b \in 0 .. Len(delivered'[e])
  <2>1. Len(log'[e]) \in Nat /\ Len(delivered'[e]) \in Nat
    BY LenProperties DEF TypeOK
  <2> QED BY <2>1, Lengths DEF Grown
<1>5. a > 0 => log'[e][a] = log[e][a]
  BY Lengths DEF Grown
<1> QED BY <1>1, <1>3, <1>4, <1>5 DEF Genuine

LEMMA GenuinePacketKept ==
  ASSUME TypeOK, TypeOK', Safe, Grown, NEW p, GenuinePacket(p)
  PROVE  GenuinePacket(p)'
<1>1. ASSUME NEW i \in 0 .. Len(log["server"])
      PROVE  i \in 0 .. Len(log'["server"]) /\ Pos("client", i)' = Pos("client", i)
  <2>1. Len(log'["server"]) \in Nat /\ Len(log["server"]) <= Len(log'["server"])
    BY Ends, LenProperties DEF TypeOK, Grown
  <2>2. i \in 0 .. Len(log["client"])
    BY TurnsOrder, Lengths, Ends
  <2> QED BY <2>1, <2>2, PosKept, Lengths, Ends
<1>2. \A e \in End : Genuine(e, p) => Genuine(e, p)'
  BY GenuineKept DEF Safe
<1> QED BY <1>1, <1>2, Ends DEF GenuinePacket

\* The packets of a step: those there were, and genuine new ones.
LEMMA PacketsKept ==
  ASSUME TypeOK, TypeOK', Safe, Grown, NEW Q,
         \A p \in Q : GenuinePacket(p)',
         OnWire(wire') \subseteq OnWire(wire) \cup Q,
         \A e \in End : packet'[e] \in {packet[e], NoPacket} \cup Q
  PROVE  GenuinePackets'
<1>1. ASSUME NEW e \in End, packet'[e] # NoPacket
      PROVE  GenuinePacket(packet[e])'
  <2>1. PICK q : q = packet'[e]
    OBVIOUS
  <2>2. GenuinePacket(q)'
    BY <1>1, <2>1, GenuinePacketKept DEF Safe, GenuinePackets
  <2> QED BY <2>1, <2>2 DEF GenuinePacket, Genuine
<1>2. ASSUME NEW e \in End, NEW i \in 1 .. Len(wire'[e])
      PROVE  GenuinePacket(wire[e][i])'
  <2>1. PICK q : q = wire'[e][i]
    OBVIOUS
  <2>2. q \in OnWire(wire) \cup Q
    BY <2>1 DEF OnWire
  <2>3. GenuinePacket(q)'
    BY <2>2, GenuinePacketKept, PacketGenuine DEF Safe
  <2> QED BY <2>1, <2>3 DEF GenuinePacket, Genuine
<1> QED BY <1>1, <1>2 DEF GenuinePackets

\* A step that neither sends nor receives a message.
LEMMA StreamsKept ==
  ASSUME TypeOK, Safe, UNCHANGED <<src_seq_no, log, delivered>>
  PROVE  /\ LogOrder' /\ StreamPrefix'
         /\ \A e, i : Pos(e, i)' = Pos(e, i)
         /\ acked' = acked => AckedMeansDelivered'
<1>1. \A e, i : Pos(e, i)' = Pos(e, i)
  BY DEF Pos
<1>2. LogOrder'
  BY <1>1 DEF Safe, LogOrder
<1>3. StreamPrefix'
  BY DEF Safe, StreamPrefix
<1>4. acked' = acked => AckedMeansDelivered'
  BY DEF Safe, AckedMeansDelivered
<1> QED BY <1>1, <1>2, <1>3, <1>4

-----------------------------------------------------------------------------
(* The steps that neither send nor receive a message. *)

\* A step that changes where e is and what is on its way, and nothing else.
LEMMA MoveSafe ==
  ASSUME TypeOK, TypeOK', Safe,
         UNCHANGED <<src_seq_no, dest_seq_no, destport, log, acked, delivered>>,
         NEW Q, \A p \in Q : GenuinePacket(p)',
         OnWire(wire') \subseteq OnWire(wire) \cup Q,
         \A x \in End : packet'[x] \in {packet[x], NoPacket} \cup Q,
         \A x \in End : connected'[x] => connected[x] \/ pc'[x] = "exited",
         \A x \in End : pc[x] = "exited" => pc'[x] = "exited",
         Turns', Control'
  PROVE  Safe'
<1>1. LogOrder' /\ StreamPrefix' /\ AckedMeansDelivered'
      /\ \A e, i : Pos(e, i)' = Pos(e, i)
  BY StreamsKept
<1>2. NumbersAgree'
  BY <1>1, Ends DEF Safe, NumbersAgree
<1>3. GenuinePackets'
  BY SameGrown, PacketsKept
<1> QED BY <1>1, <1>2, <1>3 DEF Safe

LEMMA NoPacketIsNone == NoPacket \notin Packet
<1>1. NoPacket.type \notin Types
  BY DEF NoPacket, Types
<1>2. \A p \in Packet : p.type \in Types
  BY DEF Packet
<1> QED BY <1>1, <1>2

LEMMA AgainSafe ==
  ASSUME TypeOK, TypeOK', Safe, NEW e \in End, Waiting(e), NEW w \in Wires, NEW addr,
         OnWire(w) \subseteq OnWire(wire), Again(e, w, addr),
         UNCHANGED <<src_seq_no, dest_seq_no, destport, log, acked, delivered>>
  PROVE  Safe'
<1>1. packet[e] \in Packet /\ packet[e] # NoPacket
  BY NoPacketIsNone DEF TypeOK
<1>2. PICK Q : Q = {packet[e]}
  OBVIOUS
<1>3. \A p \in Q : GenuinePacket(p)'
  BY <1>1, <1>2, SameGrown, GenuinePacketKept DEF Safe, GenuinePackets
<1>4. OnWire(wire') \subseteq OnWire(wire) \cup Q
  BY <1>2, AgainCases
<1>5. \A e1, i : Pos(e1, i)' = Pos(e1, i)
  BY DEF Pos
<1>6. CASE UNCHANGED <<pc, packet, connected>>
  <2>1. Turns' /\ Control'
    BY <1>5, <1>6 DEF Safe, Turns, Control
  <2>2. /\ \A x \in End : packet'[x] \in {packet[x], NoPacket} \cup Q
        /\ \A x \in End : connected'[x] => connected[x] \/ pc'[x] = "exited"
        /\ \A x \in End : pc[x] = "exited" => pc'[x] = "exited"
    BY <1>6
  <2> QED BY <1>3, <1>4, <2>1, <2>2, MoveSafe
<1>7. CASE /\ pc' = [pc EXCEPT ![e] = IF pc[e] = "accept_close" /\ e = "server"
                                       THEN "prompt" ELSE "exited"]
           /\ packet' = [packet EXCEPT ![e] = NoPacket]
           /\ connected' = IF pc[e] = "accept_close"
                           THEN [connected EXCEPT ![e] = FALSE] ELSE connected
  <2>1. /\ pc \in [End -> Labels] /\ packet \in [End -> Packet \cup {NoPacket}]
        /\ connected \in [End -> BOOLEAN]
    BY DEF TypeOK
  <2>2. /\ \A x \in End : packet'[x] \in {packet[x], NoPacket}
        /\ \A x \in End : connected'[x] => connected[x]
        /\ \A x \in End : pc'[x] = pc[x] \/ (pc'[x] = "prompt" /\ x = "server" /\ pc[x] = "accept_close")
                          \/ pc'[x] = "exited"
        /\ pc'["server"] = "prompt" /\ pc["server"] # "prompt" => ~connected'["server"]
        /\ \A x \in End : pc'[x] # "exited" /\ pc'[x] # "prompt" => connected'[x] = connected[x]
    BY <1>7, <2>1, Ends DEF Safe, Control
  <2>3. Turns'
    BY <2>2, Ends DEF Safe, Turns
  <2>4. Control'
    BY <2>2, <1>5, Ends DEF Safe, Control, Waiting, LoopLabels
  <2>5. /\ \A x \in End : packet'[x] \in {packet[x], NoPacket} \cup Q
        /\ \A x \in End : connected'[x] => connected[x] \/ pc'[x] = "exited"
        /\ \A x \in End : pc[x] = "exited" => pc'[x] = "exited"
    BY <2>2
  <2> QED BY <1>3, <1>4, <2>3, <2>4, <2>5, MoveSafe
<1> QED BY <1>6, <1>7, AgainCases

LEMMA TimeoutSafe ==
  ASSUME TypeOK, TypeOK', Safe, NEW e \in End, Timeout(e)
  PROVE  Safe'
<1>1. wire \in Wires /\ OnWire(wire) \subseteq OnWire(wire)
  BY DEF TypeOK, Wires
<1>2. /\ Waiting(e) /\ Again(e, wire, dest_addr[e])
      /\ UNCHANGED <<src_seq_no, dest_seq_no, destport, log, acked, delivered>>
  BY DEF Timeout, history
<1> QED BY <1>1, <1>2, AgainSafe

\* A process that ends.
LEMMA ExitSafe ==
  ASSUME TypeOK, TypeOK', Safe, NEW e \in End, NEW label, NEW w \in Wires,
         OnWire(w) \subseteq OnWire(wire), Exit(e, label, w),
         label = "exited" \/ (label = "done" /\ e = "server" /\ pc[e] = "prompt"),
         UNCHANGED <<connected, src_seq_no, dest_seq_no, destport, log, acked, delivered>>
  PROVE  Safe'
<1>1. /\ OnWire(wire') \subseteq OnWire(wire)
      /\ pc' = [pc EXCEPT ![e] = label] /\ packet' = [packet EXCEPT ![e] = NoPacket]
  BY ExitCases
<1>2. /\ pc \in [End -> Labels] /\ packet \in [End -> Packet \cup {NoPacket}]
  BY DEF TypeOK
<1>3. PICK Q : Q = {}
  OBVIOUS
<1>4. /\ \A p \in Q : GenuinePacket(p)'
      /\ OnWire(wire') \subseteq OnWire(wire) \cup Q
      /\ \A x \in End : packet'[x] \in {packet[x], NoPacket} \cup Q
      /\ \A x \in End : connected'[x] => connected[x] \/ pc'[x] = "exited"
  BY <1>1, <1>2, <1>3
<1>5. \A x \in End : pc'[x] = IF x = e THEN label ELSE pc[x]
  BY <1>1, <1>2
<1>6. /\ \A x \in End : pc[x] = "exited" => pc'[x] = "exited"
      /\ Turns'
  BY <1>5, Ends DEF Safe, Turns
<1>7. Control'
  <2>1. \A y, i : Pos(y, i)' = Pos(y, i)
    BY DEF Pos
  <2> QED BY <1>5, <2>1, Ends DEF Safe, Control
<1> QED BY <1>4, <1>6, <1>7, MoveSafe

LEMMA PromptSafe ==
  ASSUME TypeOK, TypeOK', Safe, NEW y \in BOOLEAN, Prompt(y)
  PROVE  Safe'
<1>1. /\ pc["server"] = "prompt"
      /\ UNCHANGED <<connected, src_seq_no, dest_seq_no, destport, log, acked, delivered>>
  BY DEF Prompt, proto, history
<1>2. wire \in Wires /\ OnWire(wire) \subseteq OnWire(wire)
  BY DEF TypeOK, Wires
<1>3. CASE y
  <2>1. Exit("server", "done", wire)
    BY <1>3 DEF Prompt
  <2> QED BY <1>1, <1>2, <2>1, ExitSafe, Ends
<1>4. CASE ~y
  <2>1. pc' = [pc EXCEPT !["server"] = "accept"] /\ UNCHANGED <<packet, wire>>
    BY <1>4 DEF Prompt, Goto
  <2>2. pc \in [End -> Labels] /\ packet \in [End -> Packet \cup {NoPacket}]
    BY DEF TypeOK
  <2>3. PICK Q : Q = {}
    OBVIOUS
  <2>4. /\ \A p \in Q : GenuinePacket(p)'
        /\ OnWire(wire') \subseteq OnWire(wire) \cup Q
        /\ \A x \in End : packet'[x] \in {packet[x], NoPacket} \cup Q
        /\ \A x \in End : connected'[x] => connected[x] \/ pc'[x] = "exited"
    BY <1>1, <2>1, <2>2, <2>3 DEF OnWire
  <2>5. \A x \in End : pc'[x] = IF x = "server" THEN "accept" ELSE pc[x]
    BY <2>1, <2>2
  <2>6. /\ \A x \in End : pc[x] = "exited" => pc'[x] = "exited"
        /\ Turns'
    BY <1>1, <2>5, Ends DEF Safe, Turns
  <2>7. Control'
    <3>1. \A x, i : Pos(x, i)' = Pos(x, i)
      BY <1>1 DEF Pos
    <3> QED BY <1>1, <2>5, <3>1, Ends DEF Safe, Control
  <2> QED BY <1>1, <2>4, <2>6, <2>7, MoveSafe
<1> QED BY <1>3, <1>4

\* What the network does.
LEMMA FaultSafe ==
  ASSUME TypeOK, TypeOK', Safe, NEW w, Fault(w),
         NEW Q, \A p \in Q : GenuinePacket(p), OnWire(w) \subseteq OnWire(wire) \cup Q
  PROVE  Safe'
<1>1. /\ UNCHANGED <<pc, packet, connected>>
      /\ UNCHANGED <<src_seq_no, dest_seq_no, destport, log, acked, delivered>>
      /\ wire' = w
  BY DEF Fault, proto, history
<1>2. \A p \in Q : GenuinePacket(p)'
  BY <1>1, SameGrown, GenuinePacketKept
<1>3. \A e, i : Pos(e, i)' = Pos(e, i)
  BY <1>1 DEF Pos
<1>4. Turns' /\ Control'
  BY <1>1, <1>3 DEF Safe, Turns, Control
<1>5. /\ OnWire(wire') \subseteq OnWire(wire) \cup Q
      /\ \A x \in End : packet'[x] \in {packet[x], NoPacket} \cup Q
      /\ \A x \in End : connected'[x] => connected[x] \/ pc'[x] = "exited"
      /\ \A x \in End : pc[x] = "exited" => pc'[x] = "exited"
  BY <1>1
<1> QED BY <1>1, <1>2, <1>4, <1>5, MoveSafe

\* A packet on its way whose checksum no longer holds.
Damaged(q) == \E p \in OnWire(wire) : p \in Packet /\ q = [p EXCEPT !.valid = FALSE]

\* The network puts w for the wires, with the packets Q that were not there.
NetworkPuts(w, Q) ==
  /\ Fault(w)
  /\ OnWire(w) \subseteq OnWire(wire) \cup Q
  /\ \A q \in Q : Damaged(q) \/ q = StraySynPacket

LEMMA NetworkCases ==
  ASSUME TypeOK, Network
  PROVE  \E w, Q : NetworkPuts(w, Q)
<1>1. wire \in Wires
  BY DEF TypeOK, Wires
<1>2. ASSUME NEW e \in End, NEW i \in 1 .. Len(wire[e]), Lose(e, i)
      PROVE  \E w, Q : NetworkPuts(w, Q)
  <2>1. OnWire(Left(e, i)) \subseteq OnWire(wire) \cup {}
    BY RecvCases
  <2>2. PICK w : w = Left(e, i)
    OBVIOUS
  <2>3. PICK Q : Q = {}
    OBVIOUS
  <2>4. Fault(w) /\ OnWire(w) \subseteq OnWire(wire) \cup Q
    BY <1>2, <2>1, <2>2 DEF Lose
  <2>5. NetworkPuts(w, Q)
    BY <2>3, <2>4 DEF NetworkPuts
  <2> QED BY <2>5
<1>3. ASSUME NEW e \in End, NEW i \in 1 .. Len(wire[e]), Duplicate(e, i)
      PROVE  \E w, Q : NetworkPuts(w, Q)
  <2>1. PICK w : w = [wire EXCEPT ![e] = Append(@, @[i])]
    OBVIOUS
  <2>2. wire[e] \in Seq(Packet) /\ wire[e][i] \in OnWire(wire)
    BY <1>1, LeftType DEF Wires
  <2>3. \A x \in End : w[x] = wire[x] \/ w[x] = Append(wire[e], wire[e][i])
    BY <1>1, <2>1 DEF Wires
  <2>4. ASSUME NEW x \in End, NEW j \in 1 .. Len(w[x])
        PROVE  w[x][j] \in OnWire(wire)
    <3>1. CASE w[x] = wire[x]
      BY <3>1 DEF OnWire
    <3>2. CASE w[x] = Append(wire[e], wire[e][i])
      <4>1. Len(w[x]) = Len(wire[e]) + 1 /\ w[x][Len(wire[e]) + 1] = wire[e][i]
            /\ \A k \in 1 .. Len(wire[e]) : w[x][k] = wire[e][k]
        BY <2>2, <3>2, AppendProperties, ElementOfSeq
      <4>2. j = Len(wire[e]) + 1 \/ j \in 1 .. Len(wire[e])
        BY <2>2, <4>1, LenProperties
      <4> QED BY <2>2, <4>1, <4>2 DEF OnWire
    <3> QED BY <2>3, <3>1, <3>2
  <2>5. Fault(w) /\ OnWire(w) \subseteq OnWire(wire) \cup {}
    BY <1>3, <2>1, <2>4 DEF Duplicate, OnWire
  <2>6. NetworkPuts(w, {})
    BY <2>5 DEF NetworkPuts
  <2> QED BY <2>6
<1>4. ASSUME NEW e \in End, NEW i \in 1 .. Len(wire[e]), Corrupt(e, i)
      PROVE  \E w, Q : NetworkPuts(w, Q)
  <2>1. PICK w : w = [wire EXCEPT ![e][i].valid = FALSE]
    OBVIOUS
  <2>2. PICK q : q = [wire[e][i] EXCEPT !.valid = FALSE]
    OBVIOUS
  <2>3. wire[e] \in Seq(Packet) /\ wire[e][i] \in OnWire(wire) /\ wire[e][i] \in Packet
    BY <1>1, LeftType DEF Wires
  <2>4. Damaged(q)
    BY <2>2, <2>3 DEF Damaged
  <2>5. ASSUME NEW x \in End, NEW j \in 1 .. Len(w[x])
        PROVE  w[x][j] \in OnWire(wire) \cup {q}
    <3>1. w = [wire EXCEPT ![e] = [wire[e] EXCEPT ![i] = q]]
      BY <2>1, <2>2
    <3>2. Len([wire[e] EXCEPT ![i] = q]) = Len(wire[e])
      <4>1. wire[e] \in [1 .. Len(wire[e]) -> Packet] /\ Len(wire[e]) \in Nat
        BY <2>3, LenProperties
      <4>2. [wire[e] EXCEPT ![i] = q] \in [1 .. Len(wire[e]) -> Packet \cup {q}]
        BY <4>1
      <4>3. [wire[e] EXCEPT ![i] = q] \in Seq(Packet \cup {q})
        BY <4>1, <4>2, SeqDef
      <4> QED BY <4>1, <4>2, <4>3, LenProperties
    <3>3. w[x] = wire[x] \/ w[x] = [wire[e] EXCEPT ![i] = q]
      BY <1>1, <3>1 DEF Wires
    <3>4. CASE w[x] = wire[x]
      BY <3>4 DEF OnWire
    <3>5. CASE w[x] = [wire[e] EXCEPT ![i] = q]
      <4>1. j \in 1 .. Len(wire[e])
        BY <3>2, <3>5
      <4>2. w[x][j] = q \/ w[x][j] = wire[e][j]
        BY <3>5, <4>1, <2>3, LenProperties
      <4> QED BY <4>1, <4>2 DEF OnWire
    <3> QED BY <3>3, <3>4, <3>5
  <2>6. Fault(w) /\ OnWire(w) \subseteq OnWire(wire) \cup {q}
    <3>1. OnWire(w) \subseteq OnWire(wire) \cup {q}
      <4>1. OnWire(w) = UNION { {w[x][j] : j \in 1 .. Len(w[x])} : x \in End }
        BY DEF OnWire
      <4> QED BY <2>5, <4>1
    <3> QED BY <1>4, <2>1, <3>1, Zenon DEF Corrupt
  <2>7. NetworkPuts(w, {q})
    BY <2>4, <2>6 DEF NetworkPuts
  <2> QED BY <2>7
<1>5. ASSUME StraySyn
      PROVE  \E w, Q : NetworkPuts(w, Q)
  <2>1. PICK w : w = Transmit(wire, StraySynPacket, Addr["server"])
    OBVIOUS
  <2>2. Fault(w) /\ OnWire(w) \subseteq OnWire(wire) \cup {StraySynPacket}
    BY <1>1, <1>5, <2>1, StraySynType, TransmitType DEF StraySyn
  <2>3. NetworkPuts(w, {StraySynPacket})
    BY <2>2 DEF NetworkPuts
  <2> QED BY <2>3
<1> QED BY <1>2, <1>3, <1>4, <1>5 DEF Network

LEMMA DamagedFields ==
  ASSUME NEW q, Damaged(q)
  PROVE  \E p \in OnWire(wire) :
           /\ q.type = p.type /\ q.source_port = p.source_port /\ q.dest_port = p.dest_port
           /\ q.seq_no = p.seq_no /\ q.ack_no = p.ack_no
           /\ q.databytes = p.databytes /\ q.data = p.data
BY DEF Damaged, Packet

LEMMA NetworkSafe ==
  ASSUME TypeOK, TypeOK', Safe, Network
  PROVE  Safe'
<1>1. PICK w, Q : NetworkPuts(w, Q)
  BY NetworkCases
<1>2. ASSUME NEW q \in Q
      PROVE  GenuinePacket(q)
  <2>1. CASE Damaged(q)
    <3>1. PICK p \in OnWire(wire) :
            /\ q.type = p.type /\ q.source_port = p.source_port /\ q.dest_port = p.dest_port
            /\ q.seq_no = p.seq_no /\ q.ack_no = p.ack_no
            /\ q.databytes = p.databytes /\ q.data = p.data
      BY <2>1, DamagedFields
    <3>2. GenuinePacket(p)
      BY PacketGenuine DEF Safe
    <3> QED BY <3>1, <3>2 DEF GenuinePacket, Genuine
  <2>2. CASE q = StraySynPacket
    BY <2>2, RltpConstants DEF GenuinePacket, StraySynPacket
  <2> QED BY <1>1, <2>1, <2>2 DEF NetworkPuts
<1> QED BY <1>1, <1>2, FaultSafe DEF NetworkPuts

-----------------------------------------------------------------------------
(* Opening a connection. *)

\* A packet of an end's own numbers and the last it has received.
LEMMA AckGenuine ==
  ASSUME TypeOK, Safe, NEW e \in End, NEW type, NEW daddr, NEW b \in 0 .. Len(delivered[e]),
         type \in (IF e = "client" THEN {"ACK", "FIN"} ELSE {"ACK", "FIN_ACK"}),
         e = "server" => Port["server"] < 32768
  PROVE  GenuinePacket(AckPacket(e, type, daddr, Pos(Peer(e), b)))
<1>1. PICK q : q = AckPacket(e, type, daddr, Pos(Peer(e), b))
  OBVIOUS
<1>2. /\ q.type = type /\ q.source_port = Port[e]
      /\ q.seq_no = src_seq_no[e] /\ q.ack_no = Pos(Peer(e), b)
  BY <1>1 DEF AckPacket, Header
<1>3. Genuine(e, q)
  <2>1. Len(log[e]) \in 0 .. Len(log[e]) /\ src_seq_no[e] = Pos(e, Len(log[e]))
    BY Lengths DEF Safe, LogOrder
  <2>2. e = "client" => b <= Len(log[e])
    BY TurnsOrder, Lengths, Ends
  <2>3. type # "DATA" /\ type # "SYN_ACK"
    OBVIOUS
  <2> QED BY <1>2, <2>1, <2>2, <2>3 DEF Genuine
<1>4. GenuinePacket(q)
  BY <1>2, <1>3, Ends DEF GenuinePacket
<1> QED BY <1>1, <1>4

LEMMA ConnectSafe ==
  ASSUME TypeOK, TypeOK', Safe, Connect
  PROVE  Safe'
<1>0. PICK q : q = SynPacket("client")
  OBVIOUS
<1>1. /\ pc["client"] = "closed" /\ ~connected["client"]
      /\ destport' = [destport EXCEPT !["client"] = Port["server"]]
      /\ EnterLoop("client", "connect", q, wire, Addr["server"])
      /\ UNCHANGED <<connected, src_seq_no, dest_seq_no, log, acked, delivered>>
  BY <1>0 DEF Connect, history
<1>2. /\ pc \in [End -> Labels] /\ packet \in [End -> Packet \cup {NoPacket}]
      /\ destport \in [End -> PortNo] /\ wire \in Wires
  BY DEF TypeOK, Wires
<1>3. q \in Packet
  <2>1. src_seq_no["client"] \in SeqNo /\ Port["server"] \in PortNo /\ Addr["server"] \in Addrs
        /\ 0 \in SeqNo
    BY Ends, RltpConstants DEF TypeOK, Addrs, SeqNo
  <2> QED BY <1>0, <2>1, HeaderType, Ends DEF SynPacket, Types
<1>4. /\ OnWire(wire') \subseteq OnWire(wire) \cup {q}
      /\ pc' = [pc EXCEPT !["client"] = "connect"]
      /\ packet' = [packet EXCEPT !["client"] = q]
  <2>1. /\ wire' = Transmit(wire, q, Addr["server"])
        /\ pc' = [pc EXCEPT !["client"] = "connect"]
        /\ packet' = [packet EXCEPT !["client"] = q]
    BY <1>1 DEF EnterLoop, Goto
  <2> QED BY <1>2, <1>3, <2>1, TransmitType
<1>5. GenuinePacket(q)
  <2>1. /\ q.type = "SYN" /\ q.source_port = Port["client"]
        /\ q.seq_no = src_seq_no["client"]
    BY <1>0 DEF SynPacket, Header
  <2>2. Len(log["client"]) = Len(delivered["client"])
    BY <1>1 DEF Safe, Turns
  <2>3. Len(log["client"]) \in 0 .. Len(log["server"])
    BY <2>2, TurnsOrder, Lengths, Ends
  <2>4. src_seq_no["client"] = Pos("client", Len(log["client"]))
    BY Ends DEF Safe, LogOrder
  <2> QED BY <2>1, <2>3, <2>4, Ends DEF GenuinePacket
<1>6. PICK Q : Q = {q}
  OBVIOUS
<1>7. LogOrder' /\ StreamPrefix' /\ AckedMeansDelivered'
      /\ \A y, i : Pos(y, i)' = Pos(y, i)
  BY <1>1, StreamsKept
<1>8. \A x \in End : pc'[x] = IF x = "client" THEN "connect" ELSE pc[x]
  BY <1>2, <1>4
<1>9. NumbersAgree'
  BY <1>1, <1>2, <1>7, <1>8, Ends DEF Safe, NumbersAgree
<1>10. Turns'
  BY <1>1, <1>8, Ends DEF Safe, Turns
<1>11. Control'
  BY <1>1, <1>2, <1>7, <1>8, Ends DEF Safe, Control
<1>12. GenuinePackets'
  <2>1. \A p \in Q : GenuinePacket(p)'
    BY <1>1, <1>5, <1>6, SameGrown, GenuinePacketKept
  <2>2. /\ OnWire(wire') \subseteq OnWire(wire) \cup Q
        /\ \A x \in End : packet'[x] \in {packet[x], NoPacket} \cup Q
    BY <1>2, <1>4, <1>6
  <2> QED BY <1>1, <2>1, <2>2, SameGrown, PacketsKept
<1> QED BY <1>7, <1>9, <1>10, <1>11, <1>12 DEF Safe

\* A SYN_ACK that connect() takes comes from the server and names the last
\* number the client has received.
LEMMA SynAckProves ==
  ASSUME TypeOK, Safe, NEW p \in Packet, GenuinePacket(p),
         SynAckAccepted("client", p), pc["client"] = "connect"
  PROVE  /\ SamePort(p.source_port, destport["client"])
         /\ p.seq_no = Pos("server", Len(delivered["client"]))
         /\ Len(delivered["client"]) <= Len(log["server"])
         /\ p.seq_no # 0
<1>1. p.type = "SYN_ACK" /\ p.dest_port = Port["client"] /\ p.ack_no = src_seq_no["client"]
  BY DEF SynAckAccepted, SamePort
<1>2. p.source_port = Port["server"] /\ Port["server"] < 32768 /\ Genuine("server", p)
  BY <1>1, Ends DEF GenuinePacket
<1>3. destport["client"] = Port["server"]
  BY DEF Safe, Control
<1>4. PICK a \in 0 .. Len(log["server"]), b \in 0 .. Len(delivered["server"]) :
        /\ p.seq_no = Pos("server", a) /\ p.ack_no = Pos("client", b) /\ b <= a
  BY <1>1, <1>2, Ends DEF Genuine
<1>5. src_seq_no["client"] = Pos("client", Len(log["client"]))
      /\ Len(log["client"]) = Len(delivered["client"])
  BY Ends DEF Safe, LogOrder, Turns
<1>6. b \in 0 .. Len(log["client"]) /\ Len(log["client"]) \in 0 .. Len(log["client"])
  BY TurnsOrder, Ends, Lengths
<1>7. b = Len(log["client"])
  <2>1. Pos("client", b) = Pos("client", Len(log["client"])) /\ LogOrder /\ "client" \in End
    BY <1>1, <1>4, <1>5, Ends DEF Safe
  <2> QED BY <1>6, <2>1, PosInjective
<1>8. a = Len(delivered["client"]) /\ Len(delivered["client"]) <= Len(log["server"])
  BY <1>4, <1>5, <1>7, TurnsOrder, Ends, Lengths
<1>9. Pos("server", a) > 0
  BY Ends, PosPositive DEF Safe
<1> QED BY <1>2, <1>3, <1>4, <1>8, <1>9 DEF SamePort

LEMMA ConnectRecvSafe ==
  ASSUME TypeOK, TypeOK', Safe, NEW i \in 1 .. Len(wire["client"]), ConnectRecv(i)
  PROVE  Safe'
<1>1. PICK p : p = wire["client"][i]
  OBVIOUS
<1>2. PICK w : w = Left("client", i)
  OBVIOUS
<1>3. /\ w \in Wires /\ OnWire(w) \subseteq OnWire(wire)
      /\ p \in Packet /\ p \in OnWire(wire)
  BY <1>1, <1>2, RecvCases, Ends
<1>4. GenuinePacket(p)
  BY <1>3, PacketGenuine DEF Safe
<1>5. /\ pc["client"] = "connect"
      /\ UNCHANGED <<src_seq_no, destport, log, acked, delivered>>
  BY DEF ConnectRecv, history
<1>6. CASE ~SynAckAccepted("client", p)
  <2>1. Again("client", w, p.saddr) /\ UNCHANGED dest_seq_no
    BY <1>1, <1>2, <1>6 DEF ConnectRecv
  <2>2. Waiting("client")
    BY <1>5 DEF Waiting, LoopLabels
  <2> QED BY <1>3, <1>5, <2>1, <2>2, Ends, AgainSafe
<1>7. CASE SynAckAccepted("client", p)
  <2> DEFINE n == Len(delivered["client"])
  <2>1. /\ SamePort(p.source_port, destport["client"])
        /\ p.seq_no = Pos("server", n)
        /\ n <= Len(log["server"])
        /\ p.seq_no # 0
    BY <1>3, <1>4, <1>5, <1>7, SynAckProves
  <2>2. PICK q : q = AckPacket("client", "ACK", p.saddr, Pos("server", n))
    OBVIOUS
  <2>3. /\ dest_seq_no' = [dest_seq_no EXCEPT !["client"] = Pos("server", n)]
        /\ LeaveLoop("client", "ready", Transmit(w, q, p.saddr))
        /\ connected' = [connected EXCEPT !["client"] = TRUE]
    BY <1>1, <1>2, <1>7, <2>1, <2>2 DEF ConnectRecv
  <2>4. q \in Packet /\ GenuinePacket(q)
    <3>1. p.seq_no \in SeqNo /\ p.saddr \in Addrs
      BY <1>3, PacketFields
    <3>2. q \in Packet
      BY <2>1, <2>2, <3>1, AckPacketType, Ends DEF Types
    <3>3. n \in 0 .. Len(delivered["client"])
      BY Lengths, Ends
    <3>4. GenuinePacket(q)
      BY <2>2, <3>3, AckGenuine, Ends
    <3> QED BY <3>2, <3>4
  <2>5. OnWire(Transmit(w, q, p.saddr)) \subseteq OnWire(wire) \cup {q}
        /\ Transmit(w, q, p.saddr) \in Wires
    BY <1>3, <2>4, TransmitType
  <2>6. /\ OnWire(wire') \subseteq OnWire(wire) \cup {q}
        /\ pc' = [pc EXCEPT !["client"] = "ready"]
        /\ packet' = [packet EXCEPT !["client"] = NoPacket]
    BY <2>3, <2>5, LeaveLoopCases, Ends
  <2>7. /\ pc \in [End -> Labels] /\ packet \in [End -> Packet \cup {NoPacket}]
        /\ connected \in [End -> BOOLEAN] /\ dest_seq_no \in [End -> SeqNo]
    BY DEF TypeOK
  <2>8. \A x \in End : /\ pc'[x] = IF x = "client" THEN "ready" ELSE pc[x]
                       /\ packet'[x] \in {packet[x], NoPacket}
                       /\ connected'[x] = IF x = "client" THEN TRUE ELSE connected[x]
                       /\ dest_seq_no'[x] = IF x = "client" THEN Pos("server", n) ELSE dest_seq_no[x]
    BY <2>3, <2>6, <2>7
  <2>9. LogOrder' /\ StreamPrefix' /\ AckedMeansDelivered'
        /\ \A y, k : Pos(y, k)' = Pos(y, k)
    BY <1>5, StreamsKept
  <2>10. NumbersAgree'
    <3>1. destport["client"] = Port["server"]
      BY <1>5 DEF Safe, Control
    <3> QED BY <1>5, <2>1, <2>8, <2>9, <3>1, Ends DEF Safe, NumbersAgree
  <2>11. Turns'
    BY <1>5, <2>8, Ends DEF Safe, Turns
  <2>12. Control'
    <3>1. pc'["server"] = pc["server"] /\ dest_seq_no'["server"] = dest_seq_no["server"]
          /\ connected'["server"] = connected["server"]
      BY <2>8, Ends
    <3>2. pc'["client"] = "ready" /\ connected'["client"]
      BY <2>8, Ends
    <3> QED BY <1>5, <2>9, <3>1, <3>2, Ends DEF Safe, Control
  <2>13. GenuinePackets'
    <3>1. PICK Q : Q = {q}
      OBVIOUS
    <3>2. \A y \in Q : GenuinePacket(y)'
      BY <1>5, <2>4, <3>1, SameGrown, GenuinePacketKept
    <3>3. /\ OnWire(wire') \subseteq OnWire(wire) \cup Q
          /\ \A x \in End : packet'[x] \in {packet[x], NoPacket} \cup Q
      BY <2>6, <2>8, <3>1
    <3> QED BY <1>5, <3>2, <3>3, SameGrown, PacketsKept
  <2> QED BY <2>9, <2>10, <2>11, <2>12, <2>13 DEF Safe
<1> QED BY <1>6, <1>7

\* A step that only takes a packet, or puts what is there already.
LEMMA TakeSafe ==
  ASSUME TypeOK, TypeOK', Safe,
         UNCHANGED <<pc, packet, connected>>,
         UNCHANGED <<src_seq_no, dest_seq_no, destport, log, acked, delivered>>,
         OnWire(wire') \subseteq OnWire(wire)
  PROVE  Safe'
<1>1. PICK Q : Q = {}
  OBVIOUS
<1>2. /\ \A p \in Q : GenuinePacket(p)'
      /\ OnWire(wire') \subseteq OnWire(wire) \cup Q
      /\ \A x \in End : packet'[x] \in {packet[x], NoPacket} \cup Q
      /\ \A x \in End : connected'[x] => connected[x] \/ pc'[x] = "exited"
      /\ \A x \in End : pc[x] = "exited" => pc'[x] = "exited"
  BY <1>1
<1>3. \A y, i : Pos(y, i)' = Pos(y, i)
  BY DEF Pos
<1>4. Turns' /\ Control'
  BY <1>3 DEF Safe, Turns, Control
<1> QED BY <1>2, <1>4, MoveSafe

LEMMA AcceptConnectSafe ==
  ASSUME TypeOK, TypeOK', Safe, NEW i \in 1 .. Len(wire["server"]), AcceptConnect(i)
  PROVE  Safe'
<1>1. PICK p : p = wire["server"][i]
  OBVIOUS
<1>2. PICK w : w = Left("server", i)
  OBVIOUS
<1>3. /\ w \in Wires /\ OnWire(w) \subseteq OnWire(wire)
      /\ p \in Packet /\ p \in OnWire(wire)
  BY <1>1, <1>2, RecvCases, Ends
<1>4. GenuinePacket(p)
  BY <1>3, PacketGenuine DEF Safe
<1>5. /\ pc["server"] = "accept"
      /\ UNCHANGED <<connected, src_seq_no, log, acked, delivered>>
  BY DEF AcceptConnect, history
<1>6. CASE ~SynAccepted("server", p)
  <2>1. wire' = w /\ UNCHANGED <<pc, packet, destport, dest_seq_no>>
    BY <1>1, <1>2, <1>6 DEF AcceptConnect
  <2> QED BY <1>3, <1>5, <2>1, TakeSafe
<1>7. CASE SynAccepted("server", p)
  <2>1. PICK q : q = Header("server", "SYN_ACK", p.source_port, p.saddr,
                            src_seq_no["server"], p.seq_no)
    OBVIOUS
  <2>2. /\ destport' = [destport EXCEPT !["server"] = p.source_port]
        /\ dest_seq_no' = [dest_seq_no EXCEPT !["server"] = p.seq_no]
        /\ pc' = [pc EXCEPT !["server"] = "accept_connect"]
        /\ packet' = [packet EXCEPT !["server"] = q]
        /\ wire' = Transmit(w, q, p.saddr)
    BY <1>1, <1>2, <1>7, <2>1 DEF AcceptConnect, EnterLoop, Goto
  <2>3. /\ p.source_port \in PortNo /\ p.seq_no \in SeqNo /\ p.saddr \in Addrs
    BY <1>3, PacketFields DEF Packet
  <2>4. q \in Packet
    <3>1. src_seq_no["server"] \in SeqNo
      BY Ends DEF TypeOK
    <3> QED BY <2>1, <2>3, <3>1, HeaderType, Ends DEF Types
  <2>5. /\ p.type = "SYN" /\ p.source_port # Port["server"] /\ Port["server"] < 32768
        /\ p.source_port = Port["client"] =>
             \E k \in 0 .. Len(log["server"]) : p.seq_no = Pos("client", k)
    BY <1>4, <1>7 DEF SynAccepted, SamePort, GenuinePacket
  <2>6. GenuinePacket(q)
    <3>1. /\ q.type = "SYN_ACK" /\ q.source_port = Port["server"]
          /\ q.dest_port = p.source_port
          /\ q.seq_no = src_seq_no["server"] /\ q.ack_no = p.seq_no
      BY <2>1 DEF Header
    <3>2. ASSUME p.source_port = Port["client"]
          PROVE  Genuine("server", q)
      <4>1. PICK k \in 0 .. Len(log["server"]) : p.seq_no = Pos("client", k)
        BY <2>5, <3>2
      <4>2. src_seq_no["server"] = Pos("server", Len(log["server"]))
            /\ Len(log["server"]) \in 0 .. Len(log["server"])
            /\ k \in 0 .. Len(delivered["server"]) /\ k <= Len(log["server"])
        BY TurnsOrder, Lengths, Ends DEF Safe, LogOrder
      <4> QED BY <3>1, <4>1, <4>2, Ends DEF Genuine
    <3> QED BY <2>5, <3>1, <3>2, Ends DEF GenuinePacket
  <2>7. OnWire(wire') \subseteq OnWire(wire) \cup {q}
    BY <1>3, <2>2, <2>4, TransmitType
  <2>8. /\ pc \in [End -> Labels] /\ packet \in [End -> Packet \cup {NoPacket}]
        /\ destport \in [End -> PortNo] /\ dest_seq_no \in [End -> SeqNo]
    BY DEF TypeOK
  <2>9. /\ pc'["client"] = pc["client"] /\ pc'["server"] = "accept_connect"
        /\ destport'["client"] = destport["client"] /\ destport'["server"] = p.source_port
        /\ dest_seq_no'["client"] = dest_seq_no["client"]
        /\ dest_seq_no'["server"] = p.seq_no
        /\ \A x \in End : packet'[x] \in {packet[x], NoPacket} \cup {q}
    BY <2>2, <2>8, Ends
  <2>10. LogOrder' /\ StreamPrefix' /\ AckedMeansDelivered'
         /\ \A y, k : Pos(y, k)' = Pos(y, k)
    BY <1>5, StreamsKept
  <2>11. NumbersAgree'
    <3>1. ~connected["server"]
      BY <1>5 DEF Safe, Control
    <3> QED BY <1>5, <2>9, <2>10, <3>1, Ends DEF Safe, NumbersAgree
  <2>12. Turns'
    BY <1>5, <2>9, Ends DEF Safe, Turns
  <2>13. Control'
    BY <1>5, <2>5, <2>9, <2>10, Ends DEF Safe, Control
  <2>14. GenuinePackets'
    <3>1. PICK Q : Q = {q}
      OBVIOUS
    <3>2. \A y \in Q : GenuinePacket(y)'
      BY <1>5, <2>6, <3>1, SameGrown, GenuinePacketKept
    <3>3. /\ OnWire(wire') \subseteq OnWire(wire) \cup Q
          /\ \A x \in End : packet'[x] \in {packet[x], NoPacket} \cup Q
      BY <2>7, <2>9, <3>1
    <3> QED BY <1>5, <3>2, <3>3, SameGrown, PacketsKept
  <2> QED BY <2>10, <2>11, <2>12, <2>13, <2>14 DEF Safe
<1> QED BY <1>6, <1>7

\* The ACK that accept_connect() takes comes from the client and names the last
\* number the server has received.
LEMMA HandshakeProves ==
  ASSUME TypeOK, Safe, NEW p \in Packet, GenuinePacket(p),
         AckAccepted("server", p, "ACK"), pc["server"] = "accept_connect"
  PROVE  /\ destport["server"] = Port["client"]
         /\ Len(delivered["server"]) <= Len(log["client"])
         /\ dest_seq_no["server"] = Pos("client", Len(delivered["server"]))
<1>1. p.type = "ACK" /\ p.source_port = destport["server"] /\ p.seq_no = dest_seq_no["server"]
  BY DEF AckAccepted, SamePort
<1>2. destport["server"] # Port["server"]
  BY DEF Safe, Control
<1>3. destport["server"] = Port["client"]
  BY <1>1, <1>2 DEF GenuinePacket
<1>4. PICK k \in 0 .. Len(log["server"]) : dest_seq_no["server"] = Pos("client", k)
  BY <1>3 DEF Safe, Control
<1>5. PICK a \in 0 .. Len(log["client"]) :
        p.seq_no = Pos("client", a) /\ Len(log["server"]) <= a
  BY <1>3, AckProves, Ends
<1>6. k \in 0 .. Len(log["client"])
  BY TurnsOrder, Lengths, Ends
<1>7. k = a
  <2>1. Pos("client", k) = Pos("client", a) /\ LogOrder /\ "client" \in End
    BY <1>1, <1>4, <1>5, Ends DEF Safe
  <2> QED BY <1>5, <1>6, <2>1, PosInjective
<1>8. Len(log["server"]) = Len(delivered["server"])
  BY DEF Safe, Turns
<1>9. k = Len(delivered["server"])
  BY <1>4, <1>5, <1>7, <1>8, Lengths, Ends
<1> QED BY <1>3, <1>4, <1>9, TurnsOrder

LEMMA AcceptConnectRecvSafe ==
  ASSUME TypeOK, TypeOK', Safe, NEW i \in 1 .. Len(wire["server"]), AcceptConnectRecv(i)
  PROVE  Safe'
<1>1. PICK p : p = wire["server"][i]
  OBVIOUS
<1>2. PICK w : w = Left("server", i)
  OBVIOUS
<1>3. /\ w \in Wires /\ OnWire(w) \subseteq OnWire(wire)
      /\ p \in Packet /\ p \in OnWire(wire)
  BY <1>1, <1>2, RecvCases, Ends
<1>4. GenuinePacket(p)
  BY <1>3, PacketGenuine DEF Safe
<1>5. /\ pc["server"] = "accept_connect"
      /\ UNCHANGED <<src_seq_no, dest_seq_no, destport, log, acked, delivered>>
  BY DEF AcceptConnectRecv, history
<1>6. CASE ~AckAccepted("server", p, "ACK")
  <2>1. Again("server", w, p.saddr)
    BY <1>1, <1>2, <1>6 DEF AcceptConnectRecv
  <2>2. Waiting("server")
    BY <1>5 DEF Waiting, LoopLabels
  <2> QED BY <1>3, <1>5, <2>1, <2>2, Ends, AgainSafe
<1>7. CASE AckAccepted("server", p, "ACK")
  <2>1. /\ destport["server"] = Port["client"]
        /\ Len(delivered["server"]) <= Len(log["client"])
        /\ dest_seq_no["server"] = Pos("client", Len(delivered["server"]))
    BY <1>3, <1>4, <1>5, <1>7, HandshakeProves
  <2>2. /\ wire' = w
        /\ pc' = [pc EXCEPT !["server"] = "receive"]
        /\ packet' = [packet EXCEPT !["server"] = NoPacket]
        /\ connected' = [connected EXCEPT !["server"] = TRUE]
    BY <1>1, <1>2, <1>7 DEF AcceptConnectRecv, LeaveLoop, Goto
  <2>3. /\ pc \in [End -> Labels] /\ packet \in [End -> Packet \cup {NoPacket}]
        /\ connected \in [End -> BOOLEAN]
    BY DEF TypeOK
  <2>4. /\ pc'["client"] = pc["client"] /\ pc'["server"] = "receive"
        /\ connected'["client"] = connected["client"] /\ connected'["server"]
        /\ \A x \in End : packet'[x] \in {packet[x], NoPacket}
    BY <2>2, <2>3, Ends
  <2>5. LogOrder' /\ StreamPrefix' /\ AckedMeansDelivered'
        /\ \A y, k : Pos(y, k)' = Pos(y, k)
    BY <1>5, StreamsKept
  <2>6. NumbersAgree'
    BY <1>5, <2>1, <2>4, <2>5, Ends DEF Safe, NumbersAgree
  <2>7. Turns'
    BY <1>5, <2>4, Ends DEF Safe, Turns
  <2>8. Control'
    BY <1>5, <2>4, <2>5, Ends DEF Safe, Control
  <2>9. GenuinePackets'
    <3>1. PICK Q : Q = {}
      OBVIOUS
    <3>2. /\ \A y \in Q : GenuinePacket(y)'
          /\ OnWire(wire') \subseteq OnWire(wire) \cup Q
          /\ \A x \in End : packet'[x] \in {packet[x], NoPacket} \cup Q
      BY <1>3, <2>2, <2>4, <3>1
    <3> QED BY <1>5, <3>2, SameGrown, PacketsKept
  <2> QED BY <2>5, <2>6, <2>7, <2>8, <2>9 DEF Safe
<1> QED BY <1>6, <1>7

-----------------------------------------------------------------------------
(* Messages. *)

LEMMA SendMessageSafe ==
  ASSUME TypeOK, TypeOK', Safe, ~wrapped', NEW e \in End, NEW len \in Lens, NEW data,
         SendMessage(e, len, data), pc[e] = (IF e = "client" THEN "ready" ELSE "reply")
  PROVE  Safe'
<1>0. PICK n : n = Len(log[e])
  OBVIOUS
<1>1. PICK m : m = [seq_no |-> Plus(src_seq_no[e], len), databytes |-> len, data |-> data]
  OBVIOUS
<1>2. PICK q : q = [AckPacket(e, "DATA", dest_addr[e], dest_seq_no[e])
                      EXCEPT !.seq_no = Plus(src_seq_no[e], len), !.databytes = len, !.data = data]
  OBVIOUS
<1>3. /\ connected[e]
      /\ src_seq_no' = [src_seq_no EXCEPT ![e] = m.seq_no]
      /\ log' = [log EXCEPT ![e] = Append(@, m)]
      /\ pc' = [pc EXCEPT ![e] = "send"]
      /\ packet' = [packet EXCEPT ![e] = q]
      /\ wire' = Transmit(wire, q, dest_addr[e])
      /\ ~(src_seq_no[e] + len >= SeqMod)
      /\ UNCHANGED <<connected, dest_seq_no, destport, acked, delivered>>
  BY <1>1, <1>2 DEF SendMessage, EnterLoop, Goto
<1>4. /\ m.seq_no = src_seq_no[e] + len /\ m.databytes = len /\ m.data = data
      /\ len \in 1 .. SeqMod - 1 /\ src_seq_no[e] \in 0 .. SeqMod - 1 /\ SeqMod \in Nat
      /\ Plus(src_seq_no[e], len) = m.seq_no
  <2>1. /\ len \in 1 .. SeqMod - 1 /\ src_seq_no[e] \in 0 .. SeqMod - 1 /\ SeqMod \in Nat
    BY RltpConstants DEF TypeOK, SeqNo
  <2>2. Plus(src_seq_no[e], len) = src_seq_no[e] + len
    BY <1>3, <2>1 DEF Plus
  <2> QED BY <1>1, <2>1, <2>2
<1>5. /\ n \in Nat /\ Len(log'[e]) = n + 1 /\ log'[e][n + 1] = m
      /\ \A i \in 1 .. n : log'[e][i] = log[e][i]
      /\ \A x \in End : x # e => log'[x] = log[x]
  <2>1. log \in [End -> Seq(Message)] /\ log' \in [End -> Seq(Message)]
    BY DEF TypeOK
  <2>2. log'[e] = Append(log[e], m) /\ \A x \in End : x # e => log'[x] = log[x]
    BY <1>3, <2>1
  <2>3. log[e] \in Seq(Message \cup {m}) /\ m \in Message \cup {m}
    BY <2>1, SeqMonotonic
  <2> QED BY <1>0, <2>2, <2>3, AppendProperties, Lengths
<1>6. Grown
  BY <1>0, <1>3, <1>5, Lengths DEF Grown
<1>7. /\ \A x \in End : x # e => \A i : Pos(x, i)' = Pos(x, i)
      /\ \A x \in End : \A i \in 0 .. Len(log[x]) : Pos(x, i)' = Pos(x, i)
      /\ Pos(e, n + 1)' = m.seq_no
  <2>1. \A x \in End : x # e => \A i : Pos(x, i)' = Pos(x, i)
    BY <1>5 DEF Pos
  <2>2. Pos(e, n + 1)' = m.seq_no
    BY <1>5 DEF Pos
  <2> QED BY <1>6, <2>1, <2>2, PosKept
<1>8. /\ src_seq_no[e] = Pos(e, n)
      /\ \A i \in 0 .. n : Pos(e, i) \in Nat /\ (i < n => Pos(e, i) < Pos(e, n))
      /\ \A x \in End : x # e => src_seq_no'[x] = src_seq_no[x]
      /\ src_seq_no'[e] = m.seq_no
  <2>1. \A i \in 0 .. n : Pos(e, i) \in SeqNo
    BY <1>0, PosType
  <2>2. \A i \in 0 .. n : i < n => Pos(e, i) < Pos(e, n)
    BY <1>0, <1>5 DEF Safe, LogOrder
  <2>3. src_seq_no \in [End -> SeqNo]
    BY DEF TypeOK
  <2> QED BY <1>0, <1>3, <1>4, <2>1, <2>2, <2>3 DEF Safe, LogOrder, SeqNo
<1>9. LogOrder'
  <2> SUFFICES ASSUME NEW x \in End
               PROVE  /\ src_seq_no'[x] = Pos(x, Len(log[x]))'
                      /\ \A i, j \in 0 .. Len(log'[x]) : i < j => Pos(x, i)' < Pos(x, j)'
                      /\ \A i \in 1 .. Len(log'[x]) :
                           Pos(x, i)' = Pos(x, i - 1)' + log'[x][i].databytes
    BY DEF LogOrder
  <2>1. CASE x # e
    <3>1. log'[x] = log[x] /\ src_seq_no'[x] = src_seq_no[x] /\ \A i : Pos(x, i)' = Pos(x, i)
      BY <2>1, <1>5, <1>7, <1>8
    <3>2. /\ src_seq_no[x] = Pos(x, Len(log[x]))
          /\ \A i, j \in 0 .. Len(log[x]) : i < j => Pos(x, i) < Pos(x, j)
          /\ \A i \in 1 .. Len(log[x]) : Pos(x, i) = Pos(x, i - 1) + log[x][i].databytes
      BY DEF Safe, LogOrder
    <3>3. src_seq_no'[x] = Pos(x, Len(log[x]))'
      BY <3>1, <3>2 DEF Pos
    <3> QED BY <3>1, <3>2, <3>3
  <2>2. CASE x = e
    <3>1. src_seq_no'[e] = Pos(e, Len(log[e]))'
      BY <1>5, <1>8 DEF Pos
    <3>2. ASSUME NEW i \in 0 .. n + 1, NEW j \in 0 .. n + 1, i < j
          PROVE  Pos(e, i)' < Pos(e, j)'
      <4>1. CASE j = n + 1
        <5>1. i \in 0 .. n /\ Pos(e, i)' = Pos(e, i) /\ Pos(e, j)' = m.seq_no
          BY <1>0, <1>5, <1>7, <3>2, <4>1
        <5>2. Pos(e, i) <= Pos(e, n) /\ Pos(e, i) \in Nat /\ Pos(e, n) \in Nat
          BY <1>5, <1>8, <5>1
        <5> QED BY <1>4, <1>8, <5>1, <5>2
      <4>2. CASE j # n + 1
        <5>1. i \in 0 .. n /\ j \in 0 .. n
          BY <1>5, <3>2, <4>2
        <5> QED BY <1>0, <1>7, <3>2, <5>1 DEF Safe, LogOrder
      <4> QED BY <4>1, <4>2
    <3>3. ASSUME NEW i \in 1 .. n + 1
          PROVE  Pos(e, i)' = Pos(e, i - 1)' + log'[e][i].databytes
      <4>1. CASE i = n + 1
        <5>1. i - 1 = n /\ n \in 0 .. n
          BY <1>5, <4>1
        <5> QED BY <1>0, <1>4, <1>5, <1>7, <1>8, <4>1, <5>1
      <4>2. CASE i # n + 1
        <5>1. i \in 1 .. n /\ i \in 0 .. n /\ i - 1 \in 0 .. n
          BY <1>5, <4>2
        <5> QED BY <1>0, <1>5, <1>7, <5>1 DEF Safe, LogOrder
      <4> QED BY <4>1, <4>2
    <3> QED BY <2>2, <1>5, <3>1, <3>2, <3>3
  <2> QED BY <2>1, <2>2
<1>10. StreamPrefix'
  <2>1. ASSUME NEW x \in End
        PROVE  /\ Len(delivered[x]) <= Len(log'[Peer(x)])
               /\ \A i \in 1 .. Len(delivered[x]) : delivered[x][i] = log'[Peer(x)][i].data
    <3>1. /\ Len(delivered[x]) <= Len(log[Peer(x)]) /\ Peer(x) \in End
          /\ \A i \in 1 .. Len(delivered[x]) : delivered[x][i] = log[Peer(x)][i].data
      BY Ends DEF Safe, StreamPrefix
    <3> QED BY <1>6, <3>1, Lengths DEF Grown
  <2> QED BY <1>3, <2>1 DEF StreamPrefix
<1>11. AckedMeansDelivered'
  BY <1>3 DEF Safe, AckedMeansDelivered
<1>12. pc \in [End -> Labels] /\ packet \in [End -> Packet \cup {NoPacket}]
  BY DEF TypeOK
<1>13. \A x \in End : pc'[x] = IF x = e THEN "send" ELSE pc[x]
  BY <1>3, <1>12
<1>14. NumbersAgree'
  <2>1. ASSUME NEW x \in End, connected[x], pc'[x] # "exited"
        PROVE  /\ destport[x] = Port[Peer(x)]
               /\ Len(delivered[x]) <= Len(log'[Peer(x)])
               /\ dest_seq_no[x] = Pos(Peer(x), Len(delivered[x]))'
    <3>1. pc[x] # "exited"
      BY <2>1, <1>13
    <3>2. /\ destport[x] = Port[Peer(x)] /\ Peer(x) \in End
          /\ Len(delivered[x]) <= Len(log[Peer(x)])
          /\ dest_seq_no[x] = Pos(Peer(x), Len(delivered[x]))
      BY <2>1, <3>1, Ends DEF Safe, NumbersAgree
    <3>3. Len(delivered[x]) \in 0 .. Len(log[Peer(x)])
      BY <3>2, Lengths
    <3>4. Pos(Peer(x), Len(delivered[x]))' = Pos(Peer(x), Len(delivered[x]))
      <4>1. PICK k : k = Len(delivered[x])
        OBVIOUS
      <4>2. Pos(Peer(x), k)' = Pos(Peer(x), k)
        BY <1>7, <3>2, <3>3, <4>1
      <4> QED BY <1>3, <4>1, <4>2 DEF Pos
    <3> QED BY <1>6, <3>2, <3>3, <3>4, Lengths DEF Grown
  <2> QED BY <1>3, <2>1 DEF NumbersAgree
<1>15. Turns'
  BY <1>0, <1>3, <1>5, <1>13, Ends, Lengths DEF Safe, Turns
<1>16. Control'
  <2>1. pc["server"] = "accept_connect" => e = "client"
    BY Ends
  <2>2. ASSUME pc'["server"] = "accept_connect", destport'["server"] = Port["client"]
        PROVE  \E i \in 0 .. Len(log'["server"]) : dest_seq_no'["server"] = Pos("client", i)'
    <3>1. pc["server"] = "accept_connect" /\ e = "client" /\ log'["server"] = log["server"]
      BY <2>2, <1>5, <1>13, Ends
    <3>2. PICK i \in 0 .. Len(log["server"]) : dest_seq_no["server"] = Pos("client", i)
      BY <1>3, <2>2, <3>1 DEF Safe, Control
    <3>3. i \in 0 .. Len(log["client"])
      BY TurnsOrder, Lengths, Ends
    <3>4. Pos("client", i)' = Pos("client", i)
      BY <1>7, <3>3, Ends
    <3> QED BY <1>3, <3>1, <3>2, <3>4
  <2>3. \A x \in End : /\ pc'[x] = "send" => acked'[x] + 1 = Len(log'[x])
                       /\ pc'[x] \notin {"send", "exited"} => acked'[x] = Len(log'[x])
    BY <1>0, <1>3, <1>5, <1>13, Ends DEF Safe, Control
  <2> QED BY <1>3, <1>13, <2>2, <2>3, Ends DEF Safe, Control
<1>17. GenuinePackets'
  <2>1. dest_seq_no[e] = Pos(Peer(e), Len(delivered[e])) /\ destport[e] = Port[Peer(e)]
        /\ Len(delivered[e]) <= Len(log[Peer(e)])
    BY <1>3, Ends DEF Safe, NumbersAgree
  <2>2. /\ q.type = "DATA" /\ q.source_port = Port[e] /\ q.seq_no = m.seq_no
        /\ q.ack_no = dest_seq_no[e] /\ q.databytes = m.databytes /\ q.data = m.data
    BY <1>2, <1>4 DEF AckPacket, Header
  <2>3. Genuine(e, q)'
    <3>1. PICK b : b = Len(delivered[e])
      OBVIOUS
    <3>2. b \in 0 .. Len(log[Peer(e)]) /\ b \in 0 .. Len(delivered[e]) /\ Peer(e) \in End
      BY <2>1, <3>1, Lengths, Ends
    <3>3. q.ack_no = Pos(Peer(e), b)'
      BY <1>7, <2>1, <2>2, <3>1, <3>2
    <3>4. n + 1 \in 0 .. Len(log'[e]) /\ b \in 0 .. Len(delivered'[e]) /\ n + 1 > 0
      BY <1>3, <1>5, <3>2
    <3>5. e = "client" => b <= n + 1
      BY <1>0, <1>5, <3>1, <3>2, TurnsOrder, Lengths, Ends
    <3> QED BY <1>5, <1>7, <2>2, <3>3, <3>4, <3>5 DEF Genuine
  <2>4. e = "server" => Port["server"] < 32768
    BY DEF Safe, Control
  <2>5. GenuinePacket(q)'
    BY <2>2, <2>3, <2>4, Ends DEF GenuinePacket
  <2>6. q \in Packet
    <3>1. packet'[e] = q /\ pc'[e] \in LoopLabels
      BY <1>3, <1>12 DEF LoopLabels
    <3> QED BY <3>1 DEF TypeOK, Waiting
  <2>7. wire \in Wires
    BY DEF TypeOK, Wires
  <2>8. PICK Q : Q = {q}
    OBVIOUS
  <2>9. /\ \A p \in Q : GenuinePacket(p)'
        /\ OnWire(wire') \subseteq OnWire(wire) \cup Q
        /\ \A x \in End : packet'[x] \in {packet[x], NoPacket} \cup Q
    BY <1>3, <1>12, <2>5, <2>6, <2>7, <2>8, TransmitType
  <2> QED BY <1>6, <2>9, PacketsKept
<1> QED BY <1>9, <1>10, <1>11, <1>14, <1>15, <1>16, <1>17 DEF Safe

LEMMA ClientSendSafe ==
  ASSUME TypeOK, TypeOK', Safe, ~wrapped', NEW len \in Lens, ClientSend(len)
  PROVE  Safe'
BY SendMessageSafe, Ends DEF ClientSend

LEMMA ServerReplySafe ==
  ASSUME TypeOK, TypeOK', Safe, ~wrapped', NEW len \in Lens, ServerReply(len)
  PROVE  Safe'
BY SendMessageSafe, Ends DEF ServerReply

LEMMA SendRecvSafe ==
  ASSUME TypeOK, TypeOK', Safe, NEW e \in End, NEW i \in 1 .. Len(wire[e]), SendRecv(e, i)
  PROVE  Safe'
<1>1. PICK p : p = wire[e][i]
  OBVIOUS
<1>2. PICK w : w = Left(e, i)
  OBVIOUS
<1>3. /\ w \in Wires /\ OnWire(w) \subseteq OnWire(wire)
      /\ p \in Packet /\ p \in OnWire(wire)
  BY <1>1, <1>2, RecvCases
<1>4. GenuinePacket(p)
  BY <1>3, PacketGenuine DEF Safe
<1>5. /\ pc[e] = "send"
      /\ UNCHANGED <<src_seq_no, dest_seq_no, destport, log, delivered>>
  BY DEF SendRecv
<1>6. CASE ~AckAccepted(e, p, "ACK")
  <2>1. Again(e, w, p.saddr) /\ UNCHANGED acked
    BY <1>1, <1>2, <1>6 DEF SendRecv
  <2>2. Waiting(e)
    BY <1>5 DEF Waiting, LoopLabels
  <2> QED BY <1>3, <1>5, <2>1, <2>2, AgainSafe
<1>7. CASE AckAccepted(e, p, "ACK")
  <2>1. connected[e] /\ destport[e] = Port[Peer(e)]
    BY <1>5, Ends DEF Safe, Control, NumbersAgree
  <2>2. Len(log[e]) <= Len(delivered[Peer(e)])
    BY <1>4, <1>7, <2>1, AckProves
  <2>3. /\ wire' = w
        /\ pc' = [pc EXCEPT ![e] = "receive"]
        /\ packet' = [packet EXCEPT ![e] = NoPacket]
        /\ acked' = [acked EXCEPT ![e] = @ + 1]
        /\ UNCHANGED connected
    BY <1>1, <1>2, <1>7 DEF SendRecv, LeaveLoop, Goto
  <2>4. /\ pc \in [End -> Labels] /\ packet \in [End -> Packet \cup {NoPacket}]
        /\ acked \in [End -> Nat]
    BY DEF TypeOK
  <2>5. \A x \in End : /\ pc'[x] = IF x = e THEN "receive" ELSE pc[x]
                       /\ packet'[x] \in {packet[x], NoPacket}
                       /\ acked'[x] = IF x = e THEN acked[x] + 1 ELSE acked[x]
    BY <2>3, <2>4
  <2>6. LogOrder' /\ StreamPrefix' /\ \A y, k : Pos(y, k)' = Pos(y, k)
    BY <1>5, StreamsKept
  <2>7. acked[e] + 1 = Len(log[e])
    BY <1>5 DEF Safe, Control
  <2>8. AckedMeansDelivered'
    BY <1>5, <2>2, <2>5, <2>7 DEF Safe, AckedMeansDelivered
  <2>9. NumbersAgree'
    <3>1. \A x \in End : pc'[x] # "exited" => pc[x] # "exited"
      BY <1>5, <2>5
    <3> QED BY <1>5, <2>3, <2>6, <3>1, Ends DEF Safe, NumbersAgree
  <2>10. Turns'
    BY <1>5, <2>5, Ends DEF Safe, Turns
  <2>11. Control'
    <3>1. \A x \in End : /\ pc'[x] = "send" => acked'[x] + 1 = Len(log'[x])
                         /\ pc'[x] \notin {"send", "exited"} => acked'[x] = Len(log'[x])
      BY <1>5, <2>5, <2>7, Ends DEF Safe, Control
    <3> QED BY <1>5, <2>3, <2>5, <2>6, <3>1, Ends DEF Safe, Control
  <2>12. GenuinePackets'
    <3>1. PICK Q : Q = {}
      OBVIOUS
    <3>2. /\ \A y \in Q : GenuinePacket(y)'
          /\ OnWire(wire') \subseteq OnWire(wire) \cup Q
          /\ \A x \in End : packet'[x] \in {packet[x], NoPacket} \cup Q
      BY <1>3, <2>3, <2>5, <3>1
    <3> QED BY <1>5, <3>2, SameGrown, PacketsKept
  <2> QED BY <2>6, <2>8, <2>9, <2>10, <2>11, <2>12 DEF Safe
<1> QED BY <1>6, <1>7

LEMMA ReceiveDataSafe ==
  ASSUME TypeOK, TypeOK', Safe, NEW e \in End, NEW i \in 1 .. Len(wire[e]), ReceiveData(e, i)
  PROVE  Safe'
<1>0. PICK n : n = Len(delivered[e])
  OBVIOUS
<1>1. PICK p : p = wire[e][i]
  OBVIOUS
<1>2. PICK w : w = Left(e, i)
  OBVIOUS
<1>3. /\ w \in Wires /\ OnWire(w) \subseteq OnWire(wire)
      /\ p \in Packet /\ p \in OnWire(wire)
  BY <1>1, <1>2, RecvCases
<1>4. GenuinePacket(p)
  BY <1>3, PacketGenuine DEF Safe
<1>5. /\ pc[e] = "receive" /\ DataAccepted(e, p)
      /\ dest_seq_no' = [dest_seq_no EXCEPT ![e] = p.seq_no]
      /\ UNCHANGED <<connected, src_seq_no, destport, log, acked>>
  BY <1>1 DEF ReceiveData
<1>6. connected[e] /\ destport[e] = Port[Peer(e)]
  BY <1>5, Ends DEF Safe, Control, NumbersAgree
<1>7. /\ n + 1 \in 1 .. Len(log[Peer(e)]) /\ n \in Nat
      /\ p.seq_no = Pos(Peer(e), n + 1)
      /\ p.data = log[Peer(e)][n + 1].data
      /\ p.seq_no # 0
  BY <1>0, <1>3, <1>4, <1>5, <1>6, DataProves, Lengths
<1>8. PICK label : label = IF e = "client" THEN "ready" ELSE "reply"
  OBVIOUS
<1>9. PICK q : q = AckPacket(e, "ACK", p.saddr, p.seq_no)
  OBVIOUS
<1>10. /\ wire' = Transmit(w, q, p.saddr)
       /\ pc' = [pc EXCEPT ![e] = label]
       /\ packet' = [packet EXCEPT ![e] = NoPacket]
       /\ delivered' = [delivered EXCEPT ![e] = Append(@, p.data)]
  BY <1>1, <1>2, <1>7, <1>8, <1>9 DEF ReceiveData, LeaveLoop, Goto
<1>11. /\ pc \in [End -> Labels] /\ packet \in [End -> Packet \cup {NoPacket}]
       /\ dest_seq_no \in [End -> SeqNo] /\ delivered \in [End -> Seq(Nat)]
  BY DEF TypeOK
<1>12. /\ Len(delivered'[e]) = n + 1 /\ delivered'[e][n + 1] = p.data
       /\ \A k \in 1 .. n : delivered'[e][k] = delivered[e][k]
       /\ \A x \in End : x # e => delivered'[x] = delivered[x]
  <2>1. delivered'[e] = Append(delivered[e], p.data)
        /\ \A x \in End : x # e => delivered'[x] = delivered[x]
    BY <1>10, <1>11
  <2>2. p.data \in Nat /\ delivered[e] \in Seq(Nat)
    BY <1>3, <1>11, PacketFields
  <2> QED BY <1>0, <2>1, <2>2, AppendProperties
<1>13. \A x \in End : /\ pc'[x] = IF x = e THEN label ELSE pc[x]
                      /\ packet'[x] \in {packet[x], NoPacket}
                      /\ dest_seq_no'[x] = IF x = e THEN p.seq_no ELSE dest_seq_no[x]
  BY <1>5, <1>10, <1>11
<1>14. Grown
  <2>1. ASSUME NEW x \in End
        PROVE  /\ Len(log[x]) <= Len(log'[x]) /\ \A k \in 1 .. Len(log[x]) : log'[x][k] = log[x][k]
               /\ Len(delivered[x]) <= Len(delivered'[x])
    <3>1. log' = log
      BY <1>5
    <3>2. Len(log[x]) \in Nat /\ Len(delivered[x]) \in Nat
      BY Lengths
    <3>3. CASE x # e
      <4>1. delivered'[x] = delivered[x]
        BY <1>12, <3>3
      <4> QED BY <3>1, <3>2, <4>1
    <3>4. CASE x = e
      <4>1. Len(delivered'[x]) = n + 1 /\ Len(delivered[x]) = n /\ n \in Nat
        BY <1>0, <1>7, <1>12, <3>4
      <4>2. Len(delivered[x]) <= Len(delivered'[x])
        BY <4>1
      <4> QED BY <3>1, <3>2, <4>2
    <3> QED BY <3>3, <3>4
  <2> QED BY <2>1 DEF Grown
<1>15. \A y, k : Pos(y, k)' = Pos(y, k)
  BY <1>5 DEF Pos
<1>16. LogOrder'
  BY <1>5, <1>15 DEF Safe, LogOrder
<1>17. StreamPrefix'
  <2>1. ASSUME NEW x \in End
        PROVE  /\ Len(delivered'[x]) <= Len(log[Peer(x)])
               /\ \A k \in 1 .. Len(delivered'[x]) : delivered'[x][k] = log[Peer(x)][k].data
    <3>1. /\ Len(delivered[x]) <= Len(log[Peer(x)])
          /\ \A k \in 1 .. Len(delivered[x]) : delivered[x][k] = log[Peer(x)][k].data
      BY DEF Safe, StreamPrefix
    <3>2. CASE x # e
      BY <3>1, <3>2, <1>12
    <3>3. CASE x = e
      <4>1. ASSUME NEW k \in 1 .. n + 1
            PROVE  delivered'[e][k] = log[Peer(e)][k].data
        <5>1. k \in 1 .. n \/ k = n + 1
          BY <1>7
        <5> QED BY <1>0, <1>7, <1>12, <3>1, <3>3, <5>1
      <4> QED BY <1>7, <1>12, <3>3, <4>1
    <3> QED BY <3>2, <3>3
  <2> QED BY <1>5, <2>1 DEF StreamPrefix
<1>18. AckedMeansDelivered'
  <2>1. \A x \in End : Len(delivered[x]) <= Len(delivered'[x]) /\ Len(delivered'[x]) \in Nat
    BY <1>14, LenProperties DEF Grown, TypeOK
  <2>2. \A x \in End : acked[x] \in Nat /\ Len(delivered[x]) \in Nat
    BY Lengths
  <2> QED BY <1>5, <2>1, <2>2, Ends DEF Safe, AckedMeansDelivered
<1>19. NumbersAgree'
  <2>1. ASSUME NEW x \in End, connected[x], pc'[x] # "exited"
        PROVE  /\ destport[x] = Port[Peer(x)]
               /\ Len(delivered'[x]) <= Len(log[Peer(x)])
               /\ dest_seq_no'[x] = Pos(Peer(x), Len(delivered[x]))'
    <3>1. CASE x = e
      <4>1. dest_seq_no'[x] = Pos(Peer(x), n + 1)'
        BY <1>7, <1>13, <1>15, <3>1
      <4> QED BY <1>6, <1>7, <1>12, <3>1, <4>1 DEF Pos
    <3>2. CASE x # e
      <4>1. /\ destport[x] = Port[Peer(x)]
            /\ Len(delivered[x]) <= Len(log[Peer(x)])
            /\ dest_seq_no[x] = Pos(Peer(x), Len(delivered[x]))
        BY <1>13, <2>1, <3>2 DEF Safe, NumbersAgree
      <4>2. PICK k : k = Len(delivered[x])
        OBVIOUS
      <4>3. dest_seq_no'[x] = Pos(Peer(x), k)' /\ k = Len(delivered'[x])
        BY <1>12, <1>13, <1>15, <3>2, <4>1, <4>2
      <4> QED BY <4>1, <4>2, <4>3 DEF Pos
    <3> QED BY <3>1, <3>2
  <2> QED BY <1>5, <2>1 DEF NumbersAgree
<1>20. Turns'
  <2>1. CASE e = "client"
    <3>1. /\ pc'["client"] = "ready" /\ pc'["server"] = pc["server"]
          /\ Len(delivered'["client"]) = Len(log["client"])
          /\ delivered'["server"] = delivered["server"]
      BY <2>1, <1>0, <1>5, <1>8, <1>12, <1>13, Ends DEF Safe, Turns
    <3> QED BY <1>5, <3>1 DEF Safe, Turns
  <2>2. CASE e = "server"
    <3>1. /\ pc'["client"] = pc["client"] /\ pc'["server"] = "reply"
          /\ Len(delivered'["server"]) = Len(log["server"]) + 1
          /\ delivered'["client"] = delivered["client"]
          /\ Len(log["server"]) \in Nat
      BY <2>2, <1>0, <1>5, <1>8, <1>12, <1>13, Ends, Lengths DEF Safe, Turns
    <3> QED BY <1>5, <3>1 DEF Safe, Turns
  <2> QED BY <2>1, <2>2, Ends
<1>21. Control'
  <2>1. pc'["server"] = "accept_connect" => dest_seq_no'["server"] = dest_seq_no["server"]
                                             /\ pc["server"] = "accept_connect"
    BY <1>8, <1>13, Ends
  <2> QED BY <1>5, <1>8, <1>13, <1>15, <2>1, Ends DEF Safe, Control
<1>22. GenuinePackets'
  <2>1. q \in Packet
    BY <1>3, <1>9, PacketFields, AckPacketType DEF Types
  <2>2. Genuine(e, q)'
    <3>1. /\ q.type = "ACK" /\ q.seq_no = src_seq_no[e] /\ q.ack_no = p.seq_no
      BY <1>9 DEF AckPacket, Header
    <3>2. PICK a : a = Len(log[e])
      OBVIOUS
    <3>3. src_seq_no[e] = Pos(e, a) /\ a \in 0 .. Len(log'[e])
      BY <1>5, <3>2, Lengths DEF Safe, LogOrder
    <3>4. n + 1 \in 0 .. Len(delivered'[e])
      BY <1>7, <1>12
    <3>5. e = "client" => n + 1 <= a
      BY <1>0, <1>5, <1>7, <3>2, Ends DEF Safe, Turns
    <3> QED BY <1>7, <1>15, <3>1, <3>3, <3>4, <3>5 DEF Genuine
  <2>3. GenuinePacket(q)'
    <3>1. q.type = "ACK" /\ q.source_port = Port[e]
      BY <1>9 DEF AckPacket, Header
    <3>2. e = "server" => Port["server"] < 32768
      BY <1>5 DEF Safe, Control
    <3> QED BY <2>2, <3>1, <3>2, Ends DEF GenuinePacket
  <2>4. PICK Q : Q = {q}
    OBVIOUS
  <2>5. /\ \A y \in Q : GenuinePacket(y)'
        /\ OnWire(wire') \subseteq OnWire(wire) \cup Q
        /\ \A x \in End : packet'[x] \in {packet[x], NoPacket} \cup Q
    BY <1>3, <1>10, <1>13, <2>1, <2>3, <2>4, TransmitType
  <2> QED BY <1>14, <2>5, PacketsKept
<1> QED BY <1>16, <1>17, <1>18, <1>19, <1>20, <1>21, <1>22 DEF Safe

-----------------------------------------------------------------------------
(* Closing a connection. *)

LEMMA ReceiveFinSafe ==
  ASSUME TypeOK, TypeOK', Safe, NEW e \in End, NEW i \in 1 .. Len(wire[e]), ReceiveFin(e, i)
  PROVE  Safe'
<1>1. PICK p : p = wire[e][i]
  OBVIOUS
<1>2. PICK w : w = Left(e, i)
  OBVIOUS
<1>3. /\ w \in Wires /\ OnWire(w) \subseteq OnWire(wire)
      /\ p \in Packet /\ p \in OnWire(wire)
  BY <1>1, <1>2, RecvCases
<1>4. GenuinePacket(p)
  BY <1>3, PacketGenuine DEF Safe
<1>5. PICK q : q = AckPacket(e, "FIN_ACK", p.saddr, dest_seq_no[e])
  OBVIOUS
<1>6. /\ pc[e] = "receive" /\ FinAccepted(e, p)
      /\ pc' = [pc EXCEPT ![e] = "accept_close"]
      /\ packet' = [packet EXCEPT ![e] = q]
      /\ wire' = Transmit(w, q, p.saddr)
      /\ UNCHANGED <<connected, src_seq_no, dest_seq_no, destport, log, acked, delivered>>
  BY <1>1, <1>2, <1>5 DEF ReceiveFin, EnterLoop, Goto, proto, history
<1>7. connected[e] /\ destport[e] = Port[Peer(e)]
      /\ dest_seq_no[e] = Pos(Peer(e), Len(delivered[e]))
  BY <1>6, Ends DEF Safe, Control, NumbersAgree
<1>8. e = "server"
  <2>1. p.type = "FIN" /\ p.source_port = Port[Peer(e)] /\ p.dest_port = Port[e]
    BY <1>6, <1>7 DEF FinAccepted, InSession, SamePort
  <2> QED BY <1>4, <2>1, FromPeer, Ends
<1>9. /\ pc \in [End -> Labels] /\ packet \in [End -> Packet \cup {NoPacket}]
  BY DEF TypeOK
<1>10. q \in Packet /\ GenuinePacket(q)
  <2>1. dest_seq_no[e] \in SeqNo
    BY DEF TypeOK
  <2>2. q \in Packet
    BY <1>3, <1>5, <2>1, PacketFields, AckPacketType DEF Types
  <2>3. Port["server"] < 32768
    BY <1>6, <1>8 DEF Safe, Control
  <2>4. Len(delivered[e]) \in 0 .. Len(delivered[e])
    BY Lengths
  <2> QED BY <1>5, <1>7, <1>8, <2>2, <2>3, <2>4, AckGenuine
<1>11. \A x \in End : pc'[x] = IF x = "server" THEN "accept_close" ELSE pc[x]
  BY <1>6, <1>8, <1>9
<1>12. Turns'
  BY <1>6, <1>8, <1>11, Ends DEF Safe, Turns
<1>13. Control'
  <2>1. \A y, k : Pos(y, k)' = Pos(y, k)
    BY <1>6 DEF Pos
  <2> QED BY <1>6, <1>8, <1>11, <2>1, Ends DEF Safe, Control
<1>14. PICK Q : Q = {q}
  OBVIOUS
<1>15. /\ \A y \in Q : GenuinePacket(y)'
       /\ OnWire(wire') \subseteq OnWire(wire) \cup Q
       /\ \A x \in End : packet'[x] \in {packet[x], NoPacket} \cup Q
  <2>1. \A y \in Q : GenuinePacket(y)'
    BY <1>6, <1>10, <1>14, SameGrown, GenuinePacketKept
  <2> QED BY <1>3, <1>6, <1>9, <1>10, <1>14, <2>1, TransmitType
<1>16. /\ \A x \in End : connected'[x] => connected[x] \/ pc'[x] = "exited"
       /\ \A x \in End : pc[x] = "exited" => pc'[x] = "exited"
  BY <1>6, <1>8, <1>11
<1> QED BY <1>6, <1>12, <1>13, <1>15, <1>16, MoveSafe

LEMMA ReceiveOtherSafe ==
  ASSUME TypeOK, TypeOK', Safe, NEW e \in End, NEW i \in 1 .. Len(wire[e]), ReceiveOther(e, i)
  PROVE  Safe'
<1>1. Left(e, i) \in Wires /\ OnWire(Left(e, i)) \subseteq OnWire(wire)
  BY RecvCases
<1>2. /\ Exit(e, "exited", Left(e, i))
      /\ UNCHANGED <<connected, src_seq_no, dest_seq_no, destport, log, acked, delivered>>
  BY DEF ReceiveOther, proto, history
<1> QED BY <1>1, <1>2, ExitSafe

LEMMA CloseSafe ==
  ASSUME TypeOK, TypeOK', Safe, Close
  PROVE  Safe'
<1>1. PICK q : q = AckPacket("client", "FIN", dest_addr["client"], dest_seq_no["client"])
  OBVIOUS
<1>2. /\ pc["client"] = "ready" /\ connected["client"]
      /\ pc' = [pc EXCEPT !["client"] = "close"]
      /\ packet' = [packet EXCEPT !["client"] = q]
      /\ wire' = Transmit(wire, q, dest_addr["client"])
      /\ UNCHANGED <<connected, src_seq_no, dest_seq_no, destport, log, acked, delivered>>
  BY <1>1 DEF Close, EnterLoop, Goto, proto, history
<1>3. /\ pc \in [End -> Labels] /\ packet \in [End -> Packet \cup {NoPacket}]
      /\ dest_seq_no["client"] \in SeqNo /\ dest_addr["client"] \in Addrs /\ wire \in Wires
  BY Ends DEF TypeOK, Wires
<1>4. dest_seq_no["client"] = Pos("server", Len(delivered["client"]))
  BY <1>2, Ends DEF Safe, NumbersAgree
<1>5. q \in Packet /\ GenuinePacket(q)
  <2>1. q \in Packet
    BY <1>1, <1>3, AckPacketType, Ends DEF Types
  <2>2. Len(delivered["client"]) \in 0 .. Len(delivered["client"])
    BY Lengths, Ends
  <2> QED BY <1>1, <1>4, <2>1, <2>2, AckGenuine, Ends
<1>6. \A x \in End : pc'[x] = IF x = "client" THEN "close" ELSE pc[x]
  BY <1>2, <1>3
<1>7. Turns'
  BY <1>2, <1>6, Ends DEF Safe, Turns
<1>8. Control'
  <2>1. \A y, k : Pos(y, k)' = Pos(y, k)
    BY <1>2 DEF Pos
  <2> QED BY <1>2, <1>6, <2>1, Ends DEF Safe, Control
<1>9. PICK Q : Q = {q}
  OBVIOUS
<1>10. /\ \A y \in Q : GenuinePacket(y)'
       /\ OnWire(wire') \subseteq OnWire(wire) \cup Q
       /\ \A x \in End : packet'[x] \in {packet[x], NoPacket} \cup Q
  <2>1. \A y \in Q : GenuinePacket(y)'
    BY <1>2, <1>5, <1>9, SameGrown, GenuinePacketKept
  <2> QED BY <1>2, <1>3, <1>5, <1>9, <2>1, TransmitType
<1>11. /\ \A x \in End : connected'[x] => connected[x] \/ pc'[x] = "exited"
       /\ \A x \in End : pc[x] = "exited" => pc'[x] = "exited"
  BY <1>2, <1>6
<1> QED BY <1>2, <1>7, <1>8, <1>10, <1>11, MoveSafe

LEMMA CloseRecvSafe ==
  ASSUME TypeOK, TypeOK', Safe, NEW i \in 1 .. Len(wire["client"]), CloseRecv(i)
  PROVE  Safe'
<1>1. PICK p : p = wire["client"][i]
  OBVIOUS
<1>2. PICK w : w = Left("client", i)
  OBVIOUS
<1>3. /\ w \in Wires /\ OnWire(w) \subseteq OnWire(wire)
      /\ p \in Packet /\ p \in OnWire(wire)
  BY <1>1, <1>2, RecvCases, Ends
<1>4. /\ pc["client"] = "close"
      /\ UNCHANGED <<src_seq_no, dest_seq_no, destport, log, acked, delivered>>
  BY DEF CloseRecv, history
<1>5. CASE ~AckAccepted("client", p, "FIN_ACK")
  <2>1. Again("client", w, p.saddr)
    BY <1>1, <1>2, <1>5 DEF CloseRecv
  <2>2. Waiting("client")
    BY <1>4 DEF Waiting, LoopLabels
  <2> QED BY <1>3, <1>4, <2>1, <2>2, AgainSafe, Ends
<1>6. CASE AckAccepted("client", p, "FIN_ACK")
  <2>1. PICK q : q = AckPacket("client", "ACK", p.saddr, dest_seq_no["client"])
    OBVIOUS
  <2>2. /\ pc' = [pc EXCEPT !["client"] = "closed"]
        /\ packet' = [packet EXCEPT !["client"] = NoPacket]
        /\ wire' = Transmit(w, q, p.saddr)
        /\ connected' = [connected EXCEPT !["client"] = FALSE]
    BY <1>1, <1>2, <1>6, <2>1 DEF CloseRecv, LeaveLoop, Goto
  <2>3. /\ pc \in [End -> Labels] /\ packet \in [End -> Packet \cup {NoPacket}]
        /\ connected \in [End -> BOOLEAN] /\ dest_seq_no["client"] \in SeqNo
    BY Ends DEF TypeOK
  <2>4. dest_seq_no["client"] = Pos("server", Len(delivered["client"]))
    BY <1>4, Ends DEF Safe, NumbersAgree, Control
  <2>5. q \in Packet /\ GenuinePacket(q)
    <3>1. q \in Packet
      BY <1>3, <2>1, <2>3, PacketFields, AckPacketType, Ends DEF Types
    <3>2. Len(delivered["client"]) \in 0 .. Len(delivered["client"])
      BY Lengths, Ends
    <3> QED BY <2>1, <2>4, <3>1, <3>2, AckGenuine, Ends
  <2>6. \A x \in End : /\ pc'[x] = IF x = "client" THEN "closed" ELSE pc[x]
                       /\ connected'[x] = IF x = "client" THEN FALSE ELSE connected[x]
    BY <2>2, <2>3
  <2>7. Turns'
    BY <1>4, <2>6, Ends DEF Safe, Turns
  <2>8. Control'
    <3>1. \A y, k : Pos(y, k)' = Pos(y, k)
      BY <1>4 DEF Pos
    <3>2. /\ pc'["client"] = "closed" /\ pc'["server"] = pc["server"]
          /\ ~connected'["client"] /\ connected'["server"] = connected["server"]
      BY <2>6, Ends
    <3>3. acked["client"] = Len(log["client"])
      BY <1>4, Ends DEF Safe, Control
    <3> QED BY <1>4, <3>1, <3>2, <3>3, Ends DEF Safe, Control
  <2>9. PICK Q : Q = {q}
    OBVIOUS
  <2>10. /\ \A y \in Q : GenuinePacket(y)'
         /\ OnWire(wire') \subseteq OnWire(wire) \cup Q
         /\ \A x \in End : packet'[x] \in {packet[x], NoPacket} \cup Q
    <3>1. \A y \in Q : GenuinePacket(y)'
      BY <1>4, <2>5, <2>9, SameGrown, GenuinePacketKept
    <3> QED BY <1>3, <2>2, <2>3, <2>5, <2>9, <3>1, TransmitType
  <2>11. /\ \A x \in End : connected'[x] => connected[x] \/ pc'[x] = "exited"
         /\ \A x \in End : pc[x] = "exited" => pc'[x] = "exited"
    BY <1>4, <2>6
  <2> QED BY <1>4, <2>7, <2>8, <2>10, <2>11, MoveSafe
<1> QED BY <1>5, <1>6

LEMMA AcceptCloseRecvSafe ==
  ASSUME TypeOK, TypeOK', Safe, NEW e \in End, NEW i \in 1 .. Len(wire[e]),
         AcceptCloseRecv(e, i)
  PROVE  Safe'
<1>1. PICK p : p = wire[e][i]
  OBVIOUS
<1>2. PICK w : w = Left(e, i)
  OBVIOUS
<1>3. /\ w \in Wires /\ OnWire(w) \subseteq OnWire(wire)
      /\ p \in Packet /\ p \in OnWire(wire)
  BY <1>1, <1>2, RecvCases
<1>4. /\ pc[e] = "accept_close"
      /\ UNCHANGED <<src_seq_no, dest_seq_no, destport, log, acked, delivered>>
  BY DEF AcceptCloseRecv, history
<1>5. CASE ~AckAccepted(e, p, "ACK")
  <2>1. Again(e, w, p.saddr)
    BY <1>1, <1>2, <1>5 DEF AcceptCloseRecv
  <2>2. Waiting(e)
    BY <1>4 DEF Waiting, LoopLabels
  <2> QED BY <1>3, <1>4, <2>1, <2>2, AgainSafe
<1>6. CASE AckAccepted(e, p, "ACK")
  <2>1. e = "server"
    BY <1>4, Ends DEF Safe, Control
  <2>2. /\ pc' = [pc EXCEPT !["server"] = "prompt"]
        /\ packet' = [packet EXCEPT !["server"] = NoPacket]
        /\ wire' = w
        /\ connected' = [connected EXCEPT !["server"] = FALSE]
    BY <1>1, <1>2, <1>6, <2>1 DEF AcceptCloseRecv, AcceptCloseReturns, LeaveLoop, Goto
  <2>3. /\ pc \in [End -> Labels] /\ packet \in [End -> Packet \cup {NoPacket}]
        /\ connected \in [End -> BOOLEAN]
    BY DEF TypeOK
  <2>4. \A x \in End : /\ pc'[x] = IF x = "server" THEN "prompt" ELSE pc[x]
                       /\ connected'[x] = IF x = "server" THEN FALSE ELSE connected[x]
    BY <2>2, <2>3
  <2>5. Turns'
    BY <1>4, <2>1, <2>4, Ends DEF Safe, Turns
  <2>6. Control'
    <3>1. \A y, k : Pos(y, k)' = Pos(y, k)
      BY <1>4 DEF Pos
    <3>2. /\ pc'["server"] = "prompt" /\ pc'["client"] = pc["client"]
          /\ ~connected'["server"] /\ connected'["client"] = connected["client"]
      BY <2>4, Ends
    <3>3. acked["server"] = Len(log["server"])
      BY <1>4, <2>1, Ends DEF Safe, Control
    <3> QED BY <1>4, <3>1, <3>2, <3>3, Ends DEF Safe, Control
  <2>7. PICK Q : Q = {}
    OBVIOUS
  <2>8. /\ \A y \in Q : GenuinePacket(y)'
        /\ OnWire(wire') \subseteq OnWire(wire) \cup Q
        /\ \A x \in End : packet'[x] \in {packet[x], NoPacket} \cup Q
    BY <1>3, <2>2, <2>3, <2>7
  <2>9. /\ \A x \in End : connected'[x] => connected[x] \/ pc'[x] = "exited"
        /\ \A x \in End : pc[x] = "exited" => pc'[x] = "exited"
    BY <1>4, <2>1, <2>4
  <2> QED BY <1>4, <2>5, <2>6, <2>8, <2>9, MoveSafe
<1> QED BY <1>5, <1>6

-----------------------------------------------------------------------------
(* The invariant. *)

LEMMA SafeInit == Init => Safe
<1> SUFFICES ASSUME Init
             PROVE  Safe
  OBVIOUS
<1>1. /\ pc["client"] = "closed" /\ pc["server"] = "accept"
      /\ src_seq_no = ISN /\ times = 1
      /\ \A e \in End : /\ log[e] = <<>> /\ delivered[e] = <<>> /\ wire[e] = <<>>
                        /\ packet[e] = NoPacket /\ acked[e] = 0 /\ ~connected[e]
  BY Ends DEF Init
<1>2. \A e \in End : Len(log[e]) = 0 /\ Len(delivered[e]) = 0 /\ Len(wire[e]) = 0
  BY <1>1, EmptySeq
<1>3. LogOrder
  BY <1>1, <1>2 DEF LogOrder, Pos
<1>4. StreamPrefix /\ NumbersAgree /\ AckedMeansDelivered
  BY <1>1, <1>2, Ends DEF StreamPrefix, NumbersAgree, AckedMeansDelivered
<1>5. Turns
  BY <1>1, <1>2, Ends DEF Turns
<1>6. Control
  BY <1>1, <1>2, Ends DEF Control
<1>7. GenuinePackets
  BY <1>1, <1>2 DEF GenuinePackets
<1> QED BY <1>3, <1>4, <1>5, <1>6, <1>7 DEF Safe

LEMMA EndStepSafe ==
  ASSUME TypeOK, TypeOK', Safe, NEW e \in End, EndStep(e)
  PROVE  Safe'
BY TimeoutSafe, SendRecvSafe, AcceptCloseRecvSafe, ReceiveDataSafe, ReceiveFinSafe,
   ReceiveOtherSafe DEF EndStep

LEMMA SafeNext ==
  ASSUME TypeOK, TypeOK', Safe, ~wrapped', [Next]_vars
  PROVE  Safe'
<1>1. CASE ClientStep
  BY <1>1, ConnectSafe, CloseSafe, ClientSendSafe, ConnectRecvSafe, CloseRecvSafe,
     EndStepSafe DEF ClientStep, End
<1>2. CASE ServerStep
  BY <1>2, ServerReplySafe, PromptSafe, AcceptConnectSafe, AcceptConnectRecvSafe,
     EndStepSafe DEF ServerStep, End
<1>3. CASE Network
  BY <1>3, NetworkSafe
<1>4. CASE UNCHANGED vars
  <2>1. UNCHANGED <<pc, packet, connected, wire>>
        /\ UNCHANGED <<src_seq_no, dest_seq_no, destport, log, acked, delivered>>
    BY <1>4 DEF vars, proto, history
  <2> QED BY <2>1, TakeSafe DEF OnWire
<1> QED BY <1>1, <1>2, <1>3, <1>4 DEF Next

\* wrapped is never reset.
LEMMA WrappedStays ==
  ASSUME [Next]_vars, wrapped
  PROVE  wrapped'
BY DEF Next, ClientStep, ServerStep, EndStep, Network, vars, history, proto, Connect, Close,
   ClientSend, ServerReply, SendMessage, ConnectRecv, CloseRecv, Prompt, AcceptConnect,
   AcceptConnectRecv, Timeout, SendRecv, AcceptCloseRecv, ReceiveData, ReceiveFin,
   ReceiveOther, Lose, Duplicate, Corrupt, StraySyn, Fault

\* Until a sequence number passes 2^32, and whatever the network loses, repeats,
\* reorders, delays or damages over any number of connections: the numbers
\* grow with the messages, the programs take turns, every packet carries
\* numbers its sender had, and with it all that the streams promise.
THEOREM InvHolds == Spec => []Inv
<1>1. Init => Inv
  BY SafeInit, InvIsSafe
<1>2. TypeOK /\ TypeOK' /\ Inv /\ [Next]_vars => Inv'
  <2> SUFFICES ASSUME TypeOK, TypeOK', Inv, [Next]_vars, ~wrapped'
               PROVE  Safe'
    BY DEF Inv, Safe
  <2>1. ~wrapped
    BY WrappedStays
  <2> QED BY <2>1, InvIsSafe, SafeNext
<1> QED BY <1>1, <1>2, TypeCorrect, PTL DEF Spec

-----------------------------------------------------------------------------
(* The abstract channel. *)

LEMMA DataOf ==
  ASSUME NEW l \in Seq(Message), NEW s, s = [i \in 1 .. Len(l) |-> l[i].data]
  PROVE  /\ s \in Seq(Nat) /\ Len(s) = Len(l)
         /\ \A i \in 1 .. Len(l) : s[i] = l[i].data
<1>1. Len(l) \in Nat
  BY LenProperties
<1>2. ASSUME NEW i \in 1 .. Len(l)
      PROVE  l[i].data \in Nat
  <2>1. l[i] \in Message
    BY ElementOfSeq
  <2> QED BY <2>1 DEF Message
<1>3. s \in [1 .. Len(l) -> Nat]
  BY <1>2
<1>4. s \in Seq(Nat)
  BY <1>1, <1>3, SeqDef
<1> QED BY <1>1, <1>3, <1>4, LenProperties

LEMMA PassedType ==
  ASSUME TypeOK, NEW e \in End
  PROVE  /\ Passed[e] \in Seq(Nat) /\ Len(Passed[e]) = Len(log[e])
         /\ \A i \in 1 .. Len(log[e]) : Passed[e][i] = log[e][i].data
<1>1. Passed[e] = [i \in 1 .. Len(log[e]) |-> log[e][i].data] /\ log[e] \in Seq(Message)
  BY DEF Passed, TypeOK
<1> QED BY <1>1, DataOf

LEMMA SendMessageChannel ==
  ASSUME TypeOK, TypeOK', Safe, NEW e \in End, NEW len, NEW data,
         SendMessage(e, len, data), pc[e] = (IF e = "client" THEN "ready" ELSE "reply")
  PROVE  Channel!Send(e)
<1>1. PICK m : m = [seq_no |-> Plus(src_seq_no[e], len), databytes |-> len, data |-> data]
  OBVIOUS
<1>2. /\ log' = [log EXCEPT ![e] = Append(@, m)]
      /\ UNCHANGED <<acked, delivered>>
  BY <1>1 DEF SendMessage
<1>3. /\ Len(log'[e]) = Len(log[e]) + 1
      /\ \A i \in 1 .. Len(log[e]) : log'[e][i] = log[e][i]
      /\ \A x \in End : x # e => log'[x] = log[x]
  <2>1. log \in [End -> Seq(Message)]
    BY DEF TypeOK
  <2>2. log'[e] = Append(log[e], m) /\ \A x \in End : x # e => log'[x] = log[x]
    BY <1>2, <2>1
  <2>3. log[e] \in Seq(Message \cup {m}) /\ m \in Message \cup {m}
    BY <2>1, SeqMonotonic
  <2> QED BY <2>2, <2>3, AppendProperties
<1>4. acked[e] = Len(Passed[e])
  BY Ends, PassedType DEF Safe, Control
<1>5. Len(Passed'[e]) = Len(Passed[e]) + 1
      /\ \A i \in 1 .. Len(Passed[e]) : Passed'[e][i] = Passed[e][i]
  <2>1. Len(Passed'[e]) = Len(log'[e])
        /\ \A i \in 1 .. Len(log'[e]) : Passed'[e][i] = log'[e][i].data
    <3>1. Passed'[e] = [i \in 1 .. Len(log'[e]) |-> log'[e][i].data] /\ log'[e] \in Seq(Message)
      BY DEF Passed, TypeOK
    <3> QED BY <3>1, DataOf
  <2>2. \A i \in 1 .. Len(log[e]) : i \in 1 .. Len(log'[e])
    BY <1>3, Lengths
  <2> QED BY <1>3, <2>1, <2>2, PassedType
<1>6. \A x \in End \ {e} : Passed'[x] = Passed[x]
  BY <1>3 DEF Passed
<1> QED BY <1>2, <1>4, <1>5, <1>6 DEF Channel!Send

LEMMA SendRecvChannel ==
  ASSUME TypeOK, Safe, NEW e \in End, NEW i \in 1 .. Len(wire[e]), SendRecv(e, i),
         acked' # acked
  PROVE  Channel!Return(e)
<1>1. PICK p : p = wire[e][i]
  OBVIOUS
<1>2. p \in OnWire(wire)
  BY <1>1, RecvCases
<1>3. GenuinePacket(p)
  BY <1>2, PacketGenuine DEF Safe
<1>4. AckAccepted(e, p, "ACK") /\ pc[e] = "send"
      /\ acked' = [acked EXCEPT ![e] = @ + 1]
      /\ UNCHANGED <<log, delivered>>
  BY <1>1 DEF SendRecv
<1>5. connected[e] /\ destport[e] = Port[Peer(e)]
  BY <1>4, Ends DEF Safe, Control, NumbersAgree
<1>6. Len(log[e]) <= Len(delivered[Peer(e)])
  BY <1>3, <1>4, <1>5, AckProves
<1>7. Len(delivered[Peer(e)]) <= Len(log[e])
  BY Ends DEF Safe, StreamPrefix
<1>8. acked[e] + 1 = Len(log[e])
  BY <1>4, Ends DEF Safe, Control
<1>9. Passed' = Passed /\ Len(Passed[e]) = Len(log[e])
  BY <1>4, PassedType DEF Passed
<1>10. acked[e] < Len(Passed[e]) /\ Len(delivered[Peer(e)]) = Len(Passed[e])
  BY <1>6, <1>7, <1>8, <1>9, Lengths, Ends
<1> QED BY <1>4, <1>9, <1>10 DEF Channel!Return

LEMMA ReceiveDataChannel ==
  ASSUME TypeOK, Safe, NEW e \in End, NEW i \in 1 .. Len(wire[e]), ReceiveData(e, i)
  PROVE  Channel!Receive(e)
<1>1. PICK p : p = wire[e][i]
  OBVIOUS
<1>2. p \in OnWire(wire) /\ p \in Packet
  BY <1>1, RecvCases
<1>3. GenuinePacket(p)
  BY <1>2, PacketGenuine DEF Safe
<1>4. pc[e] = "receive" /\ DataAccepted(e, p) /\ UNCHANGED <<log, acked>>
  BY <1>1 DEF ReceiveData
<1>5. connected[e]
  BY <1>4, Ends DEF Safe, Control
<1>6. /\ Len(delivered[e]) + 1 \in 1 .. Len(log[Peer(e)])
      /\ p.data = log[Peer(e)][Len(delivered[e]) + 1].data
      /\ p.seq_no # 0
  BY <1>2, <1>3, <1>4, <1>5, DataProves
<1>7. delivered' = [delivered EXCEPT ![e] = Append(@, p.data)]
  BY <1>1, <1>6 DEF ReceiveData
<1>8. /\ Len(Passed[Peer(e)]) = Len(log[Peer(e)])
      /\ Passed[Peer(e)][Len(delivered[e]) + 1] = p.data
  BY <1>6, PassedType, Ends
<1>9. Passed' = Passed
  BY <1>4 DEF Passed
<1>10. Len(delivered[e]) < Len(Passed[Peer(e)])
  BY <1>6, <1>8, Lengths, Ends
<1> QED BY <1>4, <1>7, <1>8, <1>9, <1>10 DEF Channel!Receive

LEMMA ChannelStep ==
  ASSUME TypeOK, TypeOK', Safe, [Next]_vars
  PROVE  Channel!Next \/ UNCHANGED <<Passed, acked, delivered>>
<1> DEFINE Stutter == UNCHANGED <<log, acked, delivered>>
<1>1. Stutter => UNCHANGED <<Passed, acked, delivered>>
  BY DEF Passed
<1>2. ASSUME NEW e \in End, EndStep(e)
      PROVE  Channel!Next \/ Stutter
  <2>1. Timeout(e) => Stutter
    BY DEF Timeout, history
  <2>2. ASSUME NEW i \in 1 .. Len(wire[e]), SendRecv(e, i)
        PROVE  Channel!Next \/ Stutter
    <3>1. UNCHANGED <<log, delivered>>
      BY <2>2 DEF SendRecv
    <3> QED BY <2>2, <3>1, SendRecvChannel DEF Channel!Next
  <2>3. ASSUME NEW i \in 1 .. Len(wire[e]), ReceiveData(e, i)
        PROVE  Channel!Next
    BY <2>3, ReceiveDataChannel DEF Channel!Next
  <2>4. \A i \in 1 .. Len(wire[e]) :
          AcceptCloseRecv(e, i) \/ ReceiveFin(e, i) \/ ReceiveOther(e, i) => Stutter
    BY DEF AcceptCloseRecv, ReceiveFin, ReceiveOther, history
  <2> QED BY <1>2, <2>1, <2>2, <2>3, <2>4 DEF EndStep
<1>3. CASE ClientStep
  <2>1. ASSUME NEW len \in Lens, ClientSend(len)
        PROVE  Channel!Next
    BY <2>1, SendMessageChannel, Ends DEF ClientSend, Channel!Next
  <2>2. Connect \/ Close \/ (\E i \in 1 .. Len(wire["client"]) : ConnectRecv(i) \/ CloseRecv(i))
          => Stutter
    BY DEF Connect, Close, ConnectRecv, CloseRecv, history
  <2> QED BY <1>1, <1>2, <1>3, <2>1, <2>2, Ends DEF ClientStep
<1>4. CASE ServerStep
  <2>1. ASSUME NEW len \in Lens, ServerReply(len)
        PROVE  Channel!Next
    BY <2>1, SendMessageChannel, Ends DEF ServerReply, Channel!Next
  <2>2. (\E y \in BOOLEAN : Prompt(y)) \/
        (\E i \in 1 .. Len(wire["server"]) : AcceptConnect(i) \/ AcceptConnectRecv(i))
          => Stutter
    BY DEF Prompt, AcceptConnect, AcceptConnectRecv, history
  <2> QED BY <1>1, <1>2, <1>4, <2>1, <2>2, Ends DEF ServerStep
<1>5. Network \/ UNCHANGED vars => Stutter
  BY DEF Network, Lose, Duplicate, Corrupt, StraySyn, Fault, history, vars
<1> QED BY <1>1, <1>3, <1>4, <1>5 DEF Next

\* ChannelSpec: until a number wraps the transport implements RltpChannel, two
\* streams that deliver at most once, in order, and report a message as sent
\* only after it was delivered.
THEOREM ImplementsChannel == Spec /\ []~wrapped => ChannelSpec
<1>1. Init => Channel!Init
  <2> SUFFICES ASSUME Init
               PROVE  Channel!Init
    OBVIOUS
  <2>1. \A e \in End : Passed[e] = <<>>
    BY EmptySeq DEF Init, Passed
  <2> QED BY <2>1 DEF Init, Passed, Channel!Init
<1>2. TypeOK /\ TypeOK' /\ Inv /\ ~wrapped /\ [Next]_vars
        => [Channel!Next]_<<Passed, acked, delivered>>
  BY ChannelStep, InvIsSafe
<1> QED
  BY <1>1, <1>2, TypeCorrect, InvHolds, PTL DEF Spec, ChannelSpec, Channel!Spec

-----------------------------------------------------------------------------
(* When no number can wrap. *)

\* All the messages of a run fit: fewer bytes than there are sequence numbers.
Fits(L) ==
  /\ L \in Nat /\ Lens \subseteq 1 .. L
  /\ \A e \in End : ISN[e] + MaxMsgs * L < SeqMod

Roomy == \E L : Fits(L)

Counted ==
  /\ times = Len(delivered["client"]) + 1
  /\ Len(log["client"]) <= MaxMsgs

Grows(L) == \A e \in End : src_seq_no[e] <= ISN[e] + Len(log[e]) * L

LEMMA Times ==
  ASSUME NEW L \in Nat, NEW n \in Nat, NEW m \in Nat, n <= m
  PROVE  n * L <= m * L /\ (n + 1) * L = n * L + L /\ n * L \in Nat
<1>1. \A k \in Nat : k * L \in Nat
  OBVIOUS
<1>2. m = n + (m - n) /\ m - n \in Nat
  OBVIOUS
<1>3. m * L = n * L + (m - n) * L
  BY <1>2
<1> QED BY <1>1, <1>2, <1>3

LEMMA SendCounted ==
  ASSUME TypeOK, TypeOK', Safe, Counted, NEW L, Fits(L), Grows(L), ~wrapped,
         NEW e \in End, NEW len \in Lens, NEW data, SendMessage(e, len, data), UNCHANGED times,
         pc[e] = (IF e = "client" THEN "ready" ELSE "reply"),
         e = "client" => times <= MaxMsgs
  PROVE  ~wrapped' /\ Counted' /\ Grows(L)'
<1>0. PICK n : n = Len(log[e])
  OBVIOUS
<1>1. /\ n \in Nat /\ n + 1 <= MaxMsgs /\ MaxMsgs \in Nat /\ L \in Nat
      /\ len \in Nat /\ len <= L /\ SeqMod \in Nat
  <2>1. MaxMsgs \in Nat /\ SeqMod \in Nat /\ L \in Nat /\ len \in 1 .. L /\ n \in Nat
    BY <1>0, RltpConstants, Lengths DEF Fits
  <2>2. CASE e = "client"
    BY <1>0, <2>1, <2>2, Lengths, Ends DEF Safe, Turns, Counted
  <2>3. CASE e = "server"
    <3>1. n + 1 = Len(delivered["server"])
      BY <1>0, <2>3 DEF Safe, Turns
    <3> QED BY <2>1, <3>1, TurnsOrder, Lengths, Ends DEF Counted
  <2> QED BY <2>1, <2>2, <2>3, Ends
<1>2. PICK m : m = [seq_no |-> Plus(src_seq_no[e], len), databytes |-> len, data |-> data]
  OBVIOUS
<1>3. /\ log' = [log EXCEPT ![e] = Append(@, m)]
      /\ src_seq_no' = [src_seq_no EXCEPT ![e] = Plus(src_seq_no[e], len)]
      /\ wrapped' = (wrapped \/ src_seq_no[e] + len >= SeqMod)
      /\ UNCHANGED delivered
  BY <1>2 DEF SendMessage
<1>4. /\ Len(log'[e]) = n + 1
      /\ \A x \in End : x # e => log'[x] = log[x]
  <2>1. log \in [End -> Seq(Message)]
    BY DEF TypeOK
  <2>2. log'[e] = Append(log[e], m) /\ \A x \in End : x # e => log'[x] = log[x]
    BY <1>3, <2>1
  <2>3. log[e] \in Seq(Message \cup {m}) /\ m \in Message \cup {m}
    BY <2>1, SeqMonotonic
  <2> QED BY <1>0, <2>2, <2>3, AppendProperties
<1>5. /\ src_seq_no \in [End -> SeqNo] /\ src_seq_no[e] \in Nat /\ ISN[e] \in Nat
      /\ src_seq_no[e] <= ISN[e] + n * L
      /\ ISN[e] + MaxMsgs * L < SeqMod
  BY <1>0, RltpConstants DEF TypeOK, SeqNo, Grows, Fits
<1>6. (n + 1) * L <= MaxMsgs * L /\ (n + 1) * L = n * L + L /\ n * L \in Nat /\ MaxMsgs * L \in Nat
  <2>1. n + 1 \in Nat /\ n <= n
    BY <1>1
  <2>2. (n + 1) * L <= MaxMsgs * L
    BY <1>1, <2>1, Times
  <2>3. (n + 1) * L = n * L + L /\ n * L \in Nat
    BY <1>1, <2>1, Times
  <2>4. MaxMsgs * L \in Nat
    BY <1>1
  <2> QED BY <2>2, <2>3, <2>4
<1>7. /\ src_seq_no[e] + len <= ISN[e] + (n + 1) * L
      /\ src_seq_no[e] + len < SeqMod
  <2>1. PICK nL : nL = n * L
    OBVIOUS
  <2>2. PICK mL : mL = MaxMsgs * L
    OBVIOUS
  <2>3. PICK oL : oL = (n + 1) * L
    OBVIOUS
  <2>4. /\ oL <= mL /\ oL = nL + L /\ nL \in Nat /\ mL \in Nat
        /\ src_seq_no[e] <= ISN[e] + nL /\ ISN[e] + mL < SeqMod
    BY <1>5, <1>6, <2>1, <2>2, <2>3
  <2>5. src_seq_no[e] + len <= ISN[e] + oL /\ src_seq_no[e] + len < SeqMod
    BY <1>1, <1>5, <2>4
  <2> QED BY <2>3, <2>5
<1>8. ~wrapped'
  <2>1. ~(src_seq_no[e] + len >= SeqMod)
    BY <1>1, <1>5, <1>7
  <2> QED BY <1>3, <2>1, Zenon
<1>9. Grows(L)'
  <2>1. src_seq_no'[e] <= ISN[e] + Len(log'[e]) * L
    BY <1>1, <1>3, <1>4, <1>5, <1>7 DEF Plus
  <2>2. \A x \in End : x # e => src_seq_no'[x] <= ISN[x] + Len(log'[x]) * L
    BY <1>3, <1>4, <1>5 DEF Grows
  <2> QED BY <2>1, <2>2 DEF Grows
<1>10. Counted'
  BY <1>0, <1>1, <1>3, <1>4, Ends DEF Counted
<1> QED BY <1>8, <1>9, <1>10

LEMMA CountedStep ==
  ASSUME TypeOK, TypeOK', Safe, Counted, NEW L, Fits(L), Grows(L), ~wrapped, [Next]_vars
  PROVE  ~wrapped' /\ Counted' /\ Grows(L)'
<1> DEFINE Still == UNCHANGED <<src_seq_no, log, delivered, times, wrapped>>
<1>1. Still => ~wrapped' /\ Counted' /\ Grows(L)'
  BY DEF Counted, Grows
<1>2. ASSUME NEW e \in End, EndStep(e)
      PROVE  ~wrapped' /\ Counted' /\ Grows(L)'
  <2>1. Timeout(e) => Still
    BY DEF Timeout, history
  <2>2. \A i \in 1 .. Len(wire[e]) :
          SendRecv(e, i) \/ AcceptCloseRecv(e, i) \/ ReceiveFin(e, i) \/ ReceiveOther(e, i) => Still
    BY DEF SendRecv, AcceptCloseRecv, ReceiveFin, ReceiveOther, history, proto
  <2>3. ASSUME NEW i \in 1 .. Len(wire[e]), ReceiveData(e, i)
        PROVE  ~wrapped' /\ Counted' /\ Grows(L)'
    <3>1. UNCHANGED <<src_seq_no, log, wrapped>>
      BY <2>3 DEF ReceiveData
    <3>2. Channel!Receive(e)
      BY <2>3, ReceiveDataChannel
    <3>3. delivered \in [End -> Seq(Nat)] /\ delivered' \in [End -> Seq(Nat)]
      BY DEF TypeOK
    <3>4. PICK d : delivered' = [delivered EXCEPT ![e] = Append(@, d)]
      BY <3>2 DEF Channel!Receive
    <3>5. Len(delivered'[e]) = Len(delivered[e]) + 1
          /\ \A x \in End : x # e => delivered'[x] = delivered[x]
      <4>1. delivered'[e] = Append(delivered[e], d)
            /\ \A x \in End : x # e => delivered'[x] = delivered[x]
        BY <3>3, <3>4
      <4>2. delivered[e] \in Seq(Nat \cup {d}) /\ d \in Nat \cup {d}
        BY <3>3, SeqMonotonic
      <4> QED BY <4>1, <4>2, AppendProperties
    <3>6. times' = IF e = "client" THEN times + 1 ELSE times
      <4>1. wire[e][i].seq_no # 0
        <5>1. wire[e][i] \in OnWire(wire) /\ wire[e][i] \in Packet
          BY RecvCases
        <5>2. pc[e] = "receive" /\ DataAccepted(e, wire[e][i])
          BY <2>3 DEF ReceiveData
        <5>3. connected[e]
          BY <5>2, Ends DEF Safe, Control
        <5>4. GenuinePacket(wire[e][i])
          BY <5>1, PacketGenuine DEF Safe
        <5> QED BY <5>1, <5>2, <5>3, <5>4, DataProves
      <4> QED BY <2>3, <4>1 DEF ReceiveData
    <3>7. Counted'
      BY <3>1, <3>5, <3>6, Ends, Lengths DEF Counted
    <3> QED BY <3>1, <3>7 DEF Grows
  <2> QED BY <1>1, <1>2, <2>1, <2>2, <2>3 DEF EndStep
<1>3. CASE ClientStep
  <2>1. ASSUME NEW len \in Lens, ClientSend(len)
        PROVE  ~wrapped' /\ Counted' /\ Grows(L)'
    <3>1. UNCHANGED times
      BY <2>1 DEF ClientSend, SendMessage
    <3> QED BY <2>1, <3>1, SendCounted, Ends DEF ClientSend
  <2>2. Connect \/ Close \/ (\E i \in 1 .. Len(wire["client"]) : ConnectRecv(i) \/ CloseRecv(i))
          => Still
    BY DEF Connect, Close, ConnectRecv, CloseRecv, history, proto
  <2> QED BY <1>1, <1>2, <1>3, <2>1, <2>2, Ends DEF ClientStep
<1>4. CASE ServerStep
  <2>1. ASSUME NEW len \in Lens, ServerReply(len)
        PROVE  ~wrapped' /\ Counted' /\ Grows(L)'
    <3>1. UNCHANGED times
      BY <2>1 DEF ServerReply, SendMessage
    <3>2. "server" # "client"
      OBVIOUS
    <3>3. PICK e \in End : e = "server"
      BY Ends
    <3> QED BY <2>1, <3>1, <3>2, <3>3, SendCounted DEF ServerReply
  <2>2. (\E y \in BOOLEAN : Prompt(y)) \/
        (\E i \in 1 .. Len(wire["server"]) : AcceptConnect(i) \/ AcceptConnectRecv(i))
          => Still
    BY DEF Prompt, AcceptConnect, AcceptConnectRecv, history, proto
  <2> QED BY <1>1, <1>2, <1>4, <2>1, <2>2, Ends DEF ServerStep
<1>5. Network \/ UNCHANGED vars => Still
  BY DEF Network, Lose, Duplicate, Corrupt, StraySyn, Fault, history, vars, proto
<1> QED BY <1>1, <1>3, <1>4, <1>5 DEF Next

\* No sequence number wraps while the messages fit: with 2^32 numbers, until
\* some 4 GB were sent.
THEOREM NeverWraps == ASSUME Roomy PROVE Spec => []~wrapped
<1>1. PICK L : Fits(L)
  BY DEF Roomy
<1>2. Init => ~wrapped /\ Counted /\ Grows(L)
  <2> SUFFICES ASSUME Init
               PROVE  ~wrapped /\ Counted /\ Grows(L)
    OBVIOUS
  <2>1. /\ \A e \in End : log[e] = <<>> /\ delivered[e] = <<>>
        /\ src_seq_no = ISN /\ times = 1 /\ ~wrapped
    BY DEF Init
  <2>2. \A e \in End : Len(log[e]) = 0 /\ Len(delivered[e]) = 0 /\ ISN[e] \in Nat
    BY <2>1, EmptySeq, RltpConstants DEF SeqNo
  <2>3. 0 * L = 0 /\ MaxMsgs \in Nat
    BY <1>1, RltpConstants DEF Fits
  <2> QED BY <2>1, <2>2, <2>3, Ends DEF Counted, Grows
<1>3. /\ TypeOK /\ TypeOK' /\ Inv /\ ~wrapped /\ Counted /\ Grows(L) /\ [Next]_vars
      => ~wrapped' /\ Counted' /\ Grows(L)'
  BY <1>1, CountedStep, InvIsSafe
<1> QED BY <1>2, <1>3, TypeCorrect, InvHolds, PTL DEF Spec

\* What each program receives is, message for message, what the other has sent
\* so far: nothing is lost between two messages, repeated or out of turn.
THEOREM StreamsInOrder == ASSUME Roomy PROVE Spec => []StreamPrefix
<1>1. Inv /\ ~wrapped => StreamPrefix
  BY DEF Inv
<1> QED BY <1>1, InvHolds, NeverWraps, PTL

\* When rtlp_send_message returns 1 the other program has that message.
THEOREM AcksAreTrue == ASSUME Roomy PROVE Spec => []AckedMeansDelivered
<1>1. Inv /\ ~wrapped => AckedMeansDelivered
  BY DEF Inv
<1> QED BY <1>1, InvHolds, NeverWraps, PTL

\* A connected end expects the number its peer gave the last message delivered.
THEOREM ConnectedEndsAgree == ASSUME Roomy PROVE Spec => []NumbersAgree
<1>1. Inv /\ ~wrapped => NumbersAgree
  BY DEF Inv
<1> QED BY <1>1, InvHolds, NeverWraps, PTL

-----------------------------------------------------------------------------
(* The first connection. *)

\* The packets there are: on their way, or kept to be sent again.
Packets == OnWire(wire) \cup ({packet[e] : e \in End} \ {NoPacket})

First ==
  conns <= 1 =>
    /\ conns = 0 => pc["client"] = "closed" /\ Len(log["client"]) = 0
    /\ \A p \in Packets :
         p.source_port = Port["client"] /\ p.type = "SYN" => p.seq_no = ISN["client"]
    /\ pc["server"] = "accept_connect" /\ destport["server"] = Port["client"] =>
         dest_seq_no["server"] = ISN["client"]
    /\ conns = 0 \/ pc["client"] = "connect" =>
         /\ ~InConversation("server") /\ pc["server"] # "accept_close"
         /\ \A p \in Packets : /\ p.source_port = Port["client"] => p.type = "SYN"
                               /\ p.type # "FIN_ACK"
    /\ \A p \in Packets : p.type \in {"FIN", "FIN_ACK"} =>
         pc["client"] \in {"close", "closed", "exited"}
    /\ /\ \/ pc["client"] = "closed"
          \/ pc["client"] = "close" /\ \E p \in Packets : p.type = "FIN_ACK"
       /\ Len(log["client"]) > 0
       => ~InConversation("server")

\* A packet that looks like one there is.
AsSome(q) ==
  \E p \in Packets : q.type = p.type /\ q.source_port = p.source_port /\ q.seq_no = p.seq_no

LEMMA FirstAgrees == First => EndsAgree
BY EmptySeq DEF First, EndsAgree, InConversation

LEMMA PacketsSent ==
  ASSUME TypeOK, NEW Q, OnWire(wire') \subseteq OnWire(wire) \cup Q,
         \A e \in End : packet'[e] \in {packet[e], NoPacket} \cup Q
  PROVE  Packets' \subseteq Packets \cup Q
BY DEF Packets

\* The steps that neither open nor close.
LEMMA FirstKept ==
  ASSUME TypeOK, TypeOK', First, conns' = conns,
         NEW Q, OnWire(wire') \subseteq OnWire(wire) \cup Q,
         \A e \in End : packet'[e] \in {packet[e], NoPacket} \cup Q,
         \A q \in Q : AsSome(q) \/
           /\ q.type \notin {"FIN", "FIN_ACK"}
           /\ q.source_port = Port["client"] =>
                q.type # "SYN" /\ pc'["client"] \notin {"closed", "connect"},
         \/ pc'["client"] = pc["client"] /\ log'["client"] = log["client"]
         \/ pc["client"] # "closed" /\ pc'["client"] = "exited"
         \/ /\ pc["client"] \notin {"close", "closed", "exited"}
            /\ pc'["client"] \notin {"connect", "close", "closed"},
         \/ pc'["server"] = pc["server"]
            /\ destport'["server"] = destport["server"]
            /\ dest_seq_no'["server"] = dest_seq_no["server"]
         \/ /\ pc'["server"] \notin {"accept_connect", "accept_close"}
            /\ InConversation("server")' => InConversation("server")
  PROVE  First'
<1> SUFFICES ASSUME conns <= 1
             PROVE  First'
  BY DEF First
<1>1. \A p \in Packets' : \/ AsSome(p)
                          \/ /\ p.type \notin {"FIN", "FIN_ACK"}
                             /\ p.source_port = Port["client"] =>
                                  p.type # "SYN" /\ pc'["client"] \notin {"closed", "connect"}
  BY PacketsSent DEF AsSome
<1>2. /\ conns = 0 => pc["client"] = "closed" /\ Len(log["client"]) = 0
      /\ \A p \in Packets :
           p.source_port = Port["client"] /\ p.type = "SYN" => p.seq_no = ISN["client"]
      /\ pc["server"] = "accept_connect" /\ destport["server"] = Port["client"] =>
           dest_seq_no["server"] = ISN["client"]
      /\ conns = 0 \/ pc["client"] = "connect" =>
           /\ ~InConversation("server") /\ pc["server"] # "accept_close"
           /\ \A p \in Packets : /\ p.source_port = Port["client"] => p.type = "SYN"
                                 /\ p.type # "FIN_ACK"
      /\ \A p \in Packets : p.type \in {"FIN", "FIN_ACK"} =>
           pc["client"] \in {"close", "closed", "exited"}
      /\ /\ \/ pc["client"] = "closed"
            \/ pc["client"] = "close" /\ \E p \in Packets : p.type = "FIN_ACK"
         /\ Len(log["client"]) > 0
         => ~InConversation("server")
  BY DEF First
<1>3. InConversation("server")' => InConversation("server")
  BY DEF InConversation
<1>4. conns = 0 => pc'["client"] = "closed" /\ Len(log'["client"]) = 0
  BY <1>2
<1>5. \A p \in Packets' :
        p.source_port = Port["client"] /\ p.type = "SYN" => p.seq_no = ISN["client"]
  BY <1>1, <1>2 DEF AsSome
<1>6. pc'["server"] = "accept_connect" /\ destport'["server"] = Port["client"] =>
        dest_seq_no'["server"] = ISN["client"]
  BY <1>2
<1>7. conns = 0 \/ pc'["client"] = "connect" =>
        /\ ~InConversation("server")' /\ pc'["server"] # "accept_close"
        /\ \A p \in Packets' : /\ p.source_port = Port["client"] => p.type = "SYN"
                               /\ p.type # "FIN_ACK"
  BY <1>1, <1>2, <1>3 DEF AsSome
<1>8. \A p \in Packets' : p.type \in {"FIN", "FIN_ACK"} =>
        pc'["client"] \in {"close", "closed", "exited"}
  BY <1>1, <1>2 DEF AsSome
<1>9. /\ \/ pc'["client"] = "closed"
         \/ pc'["client"] = "close" /\ \E p \in Packets' : p.type = "FIN_ACK"
      /\ Len(log'["client"]) > 0
      => ~InConversation("server")'
  BY <1>1, <1>2, <1>3 DEF AsSome
<1> QED BY <1>4, <1>5, <1>6, <1>7, <1>8, <1>9 DEF First

LEMMA FirstAgain ==
  ASSUME TypeOK, TypeOK', Safe, First, NEW e \in End, Waiting(e), NEW w \in Wires, NEW addr,
         OnWire(w) \subseteq OnWire(wire), Again(e, w, addr),
         UNCHANGED <<dest_seq_no, destport, log, conns>>
  PROVE  First'
<1>1. packet[e] \in Packet /\ packet[e] # NoPacket
  BY NoPacketIsNone DEF TypeOK
<1>2. PICK Q : Q = {packet[e]}
  OBVIOUS
<1>3. \A q \in Q : AsSome(q)
  BY <1>1, <1>2 DEF Packets, AsSome
<1>4. OnWire(wire') \subseteq OnWire(wire) \cup Q
  BY <1>2, AgainCases
<1>5. /\ pc \in [End -> Labels] /\ packet \in [End -> Packet \cup {NoPacket}]
  BY DEF TypeOK
<1>6. CASE UNCHANGED <<pc, packet, connected>>
  <2>1. \A x \in End : packet'[x] \in {packet[x], NoPacket} \cup Q
    BY <1>6
  <2> QED BY <1>3, <1>4, <1>6, <2>1, FirstKept
<1>7. CASE /\ pc' = [pc EXCEPT ![e] = IF pc[e] = "accept_close" /\ e = "server"
                                       THEN "prompt" ELSE "exited"]
           /\ packet' = [packet EXCEPT ![e] = NoPacket]
  <2>1. \A x \in End : packet'[x] \in {packet[x], NoPacket} \cup Q
    BY <1>5, <1>7
  <2>2. \/ pc'["client"] = pc["client"]
        \/ pc["client"] # "closed" /\ pc'["client"] = "exited"
    BY <1>5, <1>7, Ends DEF Waiting, LoopLabels
  <2>3. pc'["server"] = pc["server"] \/ pc'["server"] \in {"prompt", "exited"}
    BY <1>5, <1>7, Ends
  <2> QED BY <1>3, <1>4, <2>1, <2>2, <2>3, FirstKept DEF InConversation
<1> QED BY <1>6, <1>7, AgainCases

\* A step of the network, of one end that leaves its loop or that ends.
LEMMA FirstMove ==
  ASSUME TypeOK, TypeOK', First, UNCHANGED <<conns, dest_seq_no, destport>>,
         OnWire(wire') \subseteq OnWire(wire), NEW e \in End, NEW label,
         pc' = [pc EXCEPT ![e] = label],
         packet' = [packet EXCEPT ![e] = NoPacket] \/ packet' = packet,
         e = "client" => label = "exited" /\ pc["client"] # "closed" /\ log' = log,
         e = "server" =>
           /\ log'["client"] = log["client"]
           /\ label \notin {"accept_connect", "accept_close"}
           /\ label \in {"receive", "reply", "send"} => InConversation("server")
  PROVE  First'
<1>1. PICK Q : Q = {}
  OBVIOUS
<1>2. /\ pc \in [End -> Labels] /\ packet \in [End -> Packet \cup {NoPacket}]
  BY DEF TypeOK
<1>3. /\ OnWire(wire') \subseteq OnWire(wire) \cup Q
      /\ \A x \in End : packet'[x] \in {packet[x], NoPacket} \cup Q
      /\ \A x \in End : pc'[x] = IF x = e THEN label ELSE pc[x]
  BY <1>1, <1>2
<1>4. CASE e = "client"
  BY <1>1, <1>3, <1>4, FirstKept, Ends
<1>5. CASE e = "server"
  <2>1. pc'["client"] = pc["client"] /\ pc'["server"] = label
    BY <1>3, <1>5, Ends
  <2>2. InConversation("server")' => InConversation("server")
    BY <1>5, <2>1 DEF InConversation
  <2> QED BY <1>1, <1>3, <1>5, <2>1, <2>2, FirstKept
<1> QED BY <1>4, <1>5, Ends

\* A message or an acknowledgement.
LEMMA FirstTalk ==
  ASSUME TypeOK, TypeOK', First, UNCHANGED conns,
         NEW e \in End, NEW label, NEW q,
         pc' = [pc EXCEPT ![e] = label],
         OnWire(wire') \subseteq OnWire(wire) \cup {q},
         \A x \in End : packet'[x] \in {packet[x], NoPacket, q},
         q.source_port = Port[e], q.type \in {"DATA", "ACK"},
         \A x \in End : x # e => UNCHANGED <<log[x], dest_seq_no[x], destport[x]>>,
         e = "client" => /\ pc["client"] \in {"connect", "ready", "send", "receive"}
                         /\ label \in {"ready", "send", "receive"},
         e = "server" => InConversation("server") /\ label \in {"receive", "reply", "send"}
  PROVE  First'
<1>1. PICK Q : Q = {q}
  OBVIOUS
<1>2. pc \in [End -> Labels]
  BY DEF TypeOK
<1>3. /\ OnWire(wire') \subseteq OnWire(wire) \cup Q
      /\ \A x \in End : packet'[x] \in {packet[x], NoPacket} \cup Q
      /\ \A x \in End : pc'[x] = IF x = e THEN label ELSE pc[x]
  BY <1>1, <1>2
<1>4. CASE e = "client"
  <2>1. /\ pc["client"] \notin {"close", "closed", "exited"}
        /\ pc'["client"] \notin {"connect", "close", "closed"}
        /\ pc'["server"] = pc["server"] /\ destport'["server"] = destport["server"]
        /\ dest_seq_no'["server"] = dest_seq_no["server"]
        /\ \A y \in Q : /\ y.type \notin {"SYN", "FIN", "FIN_ACK"}
                        /\ pc'["client"] \notin {"closed", "connect"}
    BY <1>1, <1>3, <1>4, Ends
  <2> QED BY <1>3, <2>1, FirstKept
<1>5. CASE e = "server"
  <2>1. /\ pc'["client"] = pc["client"] /\ log'["client"] = log["client"]
        /\ pc'["server"] = label
        /\ \A y \in Q : /\ y.type \notin {"SYN", "FIN", "FIN_ACK"}
                        /\ y.source_port # Port["client"]
    BY <1>1, <1>3, <1>5, Ends
  <2>2. pc'["server"] \notin {"accept_connect", "accept_close"}
        /\ (InConversation("server")' => InConversation("server"))
    BY <1>5, <2>1
  <2> QED BY <1>3, <2>1, <2>2, FirstKept
<1> QED BY <1>4, <1>5, Ends

LEMMA FirstSame ==
  ASSUME TypeOK, TypeOK', First, UNCHANGED <<pc, packet, destport, dest_seq_no, log, conns>>,
         NEW Q, OnWire(wire') \subseteq OnWire(wire) \cup Q,
         \A q \in Q : AsSome(q) \/
           (q.type \notin {"FIN", "FIN_ACK"} /\ q.source_port # Port["client"])
  PROVE  First'
BY FirstKept

LEMMA FirstTimeout ==
  ASSUME TypeOK, TypeOK', Safe, First, NEW e \in End, Timeout(e)
  PROVE  First'
<1>1. wire \in Wires /\ OnWire(wire) \subseteq OnWire(wire)
  BY DEF TypeOK, Wires
<1>2. /\ Waiting(e) /\ Again(e, wire, dest_addr[e])
      /\ UNCHANGED <<dest_seq_no, destport, log, conns>>
  BY DEF Timeout, history
<1> QED BY <1>1, <1>2, FirstAgain

LEMMA FirstSendRecv ==
  ASSUME TypeOK, TypeOK', Safe, First, NEW e \in End, NEW i \in 1 .. Len(wire[e]), SendRecv(e, i)
  PROVE  First'
<1>1. PICK p : p = wire[e][i]
  OBVIOUS
<1>2. PICK w : w = Left(e, i)
  OBVIOUS
<1>3. w \in Wires /\ OnWire(w) \subseteq OnWire(wire)
  BY <1>2, RecvCases
<1>4. pc[e] = "send" /\ UNCHANGED <<dest_seq_no, destport, log, conns>>
  BY DEF SendRecv
<1>5. CASE ~AckAccepted(e, p, "ACK")
  <2>1. Again(e, w, p.saddr) /\ Waiting(e)
    BY <1>1, <1>2, <1>4, <1>5 DEF SendRecv, Waiting, LoopLabels
  <2> QED BY <1>3, <1>4, <2>1, FirstAgain
<1>6. CASE AckAccepted(e, p, "ACK")
  <2>1. /\ wire' = w /\ pc' = [pc EXCEPT ![e] = "receive"]
        /\ packet' = [packet EXCEPT ![e] = NoPacket]
    BY <1>1, <1>2, <1>6 DEF SendRecv, LeaveLoop, Goto
  <2>2. PICK q : q = AckPacket(e, "ACK", p.saddr, 0)
    OBVIOUS
  <2>3. q.source_port = Port[e] /\ q.type \in {"DATA", "ACK"}
    BY <2>2 DEF AckPacket, Header
  <2>4. /\ OnWire(wire') \subseteq OnWire(wire) \cup {q}
        /\ \A x \in End : packet'[x] \in {packet[x], NoPacket, q}
    BY <1>3, <2>1 DEF TypeOK
  <2>5. e = "server" => InConversation("server")
    BY <1>4 DEF InConversation
  <2> QED BY <1>4, <2>1, <2>3, <2>4, <2>5, FirstTalk
<1> QED BY <1>5, <1>6

LEMMA FirstReceiveData ==
  ASSUME TypeOK, TypeOK', Safe, First, NEW e \in End, NEW i \in 1 .. Len(wire[e]),
         ReceiveData(e, i)
  PROVE  First'
<1>1. PICK p : p = wire[e][i]
  OBVIOUS
<1>2. PICK w : w = Left(e, i)
  OBVIOUS
<1>3. /\ w \in Wires /\ OnWire(w) \subseteq OnWire(wire)
      /\ p \in Packet /\ p \in OnWire(wire)
  BY <1>1, <1>2, RecvCases
<1>4. /\ pc[e] = "receive" /\ DataAccepted(e, p)
      /\ dest_seq_no' = [dest_seq_no EXCEPT ![e] = p.seq_no]
      /\ UNCHANGED <<destport, log, conns>>
  BY <1>1 DEF ReceiveData
<1>5. p.seq_no # 0
  <2>1. GenuinePacket(p)
    BY <1>3, PacketGenuine DEF Safe
  <2>2. connected[e]
    BY <1>4, Ends DEF Safe, Control
  <2> QED BY <1>3, <1>4, <2>1, <2>2, DataProves
<1>6. PICK label : label = IF e = "client" THEN "ready" ELSE "reply"
  OBVIOUS
<1>7. PICK q : q = AckPacket(e, "ACK", p.saddr, p.seq_no)
  OBVIOUS
<1>8. /\ wire' = Transmit(w, q, p.saddr) /\ pc' = [pc EXCEPT ![e] = label]
      /\ packet' = [packet EXCEPT ![e] = NoPacket]
  BY <1>1, <1>2, <1>5, <1>6, <1>7 DEF ReceiveData, LeaveLoop, Goto
<1>9. q \in Packet /\ q.source_port = Port[e] /\ q.type = "ACK"
  <2>1. q \in Packet
    BY <1>3, <1>7, PacketFields, AckPacketType DEF Types
  <2> QED BY <1>7, <2>1 DEF AckPacket, Header
<1>10. /\ OnWire(wire') \subseteq OnWire(wire) \cup {q}
       /\ \A x \in End : packet'[x] \in {packet[x], NoPacket, q}
  BY <1>3, <1>8, <1>9, TransmitType DEF TypeOK
<1>11. \A x \in End : x # e => UNCHANGED <<log[x], dest_seq_no[x], destport[x]>>
  BY <1>4 DEF TypeOK
<1>12. e = "server" => InConversation("server")
  BY <1>4 DEF InConversation
<1> QED BY <1>4, <1>6, <1>8, <1>9, <1>10, <1>11, <1>12, FirstTalk

LEMMA FirstSendMessage ==
  ASSUME TypeOK, TypeOK', First, NEW e \in End, NEW len, NEW data,
         SendMessage(e, len, data), pc[e] = (IF e = "client" THEN "ready" ELSE "reply")
  PROVE  First'
<1>1. PICK q : q = [AckPacket(e, "DATA", dest_addr[e], dest_seq_no[e])
                      EXCEPT !.seq_no = Plus(src_seq_no[e], len), !.databytes = len, !.data = data]
  OBVIOUS
<1>2. PICK m : m = [seq_no |-> Plus(src_seq_no[e], len), databytes |-> len, data |-> data]
  OBVIOUS
<1>3. /\ log' = [log EXCEPT ![e] = Append(@, m)]
      /\ pc' = [pc EXCEPT ![e] = "send"]
      /\ packet' = [packet EXCEPT ![e] = q]
      /\ wire' = Transmit(wire, q, dest_addr[e])
      /\ UNCHANGED <<dest_seq_no, destport, conns>>
  BY <1>1, <1>2 DEF SendMessage, EnterLoop, Goto
<1>4. q.source_port = Port[e] /\ q.type = "DATA"
  BY <1>1 DEF AckPacket, Header
<1>5. q \in Packet
  <2>1. packet'[e] = q /\ pc'[e] \in LoopLabels
    BY <1>3 DEF TypeOK, LoopLabels
  <2> QED BY <2>1 DEF TypeOK, Waiting
<1>6. /\ OnWire(wire') \subseteq OnWire(wire) \cup {q}
      /\ \A x \in End : packet'[x] \in {packet[x], NoPacket, q}
  <2>1. wire \in Wires
    BY DEF TypeOK, Wires
  <2> QED BY <1>3, <1>5, <2>1, TransmitType DEF TypeOK
<1>7. \A x \in End : x # e => UNCHANGED <<log[x], dest_seq_no[x], destport[x]>>
  BY <1>3 DEF TypeOK
<1>8. e = "server" => InConversation("server")
  BY DEF InConversation
<1> QED BY <1>3, <1>4, <1>6, <1>7, <1>8, FirstTalk

LEMMA FirstAcceptCloseRecv ==
  ASSUME TypeOK, TypeOK', Safe, First, NEW e \in End, NEW i \in 1 .. Len(wire[e]),
         AcceptCloseRecv(e, i)
  PROVE  First'
<1>1. PICK p : p = wire[e][i]
  OBVIOUS
<1>2. PICK w : w = Left(e, i)
  OBVIOUS
<1>3. w \in Wires /\ OnWire(w) \subseteq OnWire(wire)
  BY <1>2, RecvCases
<1>4. pc[e] = "accept_close" /\ UNCHANGED <<dest_seq_no, destport, log, conns>>
  BY DEF AcceptCloseRecv, history
<1>5. CASE ~AckAccepted(e, p, "ACK")
  <2>1. Again(e, w, p.saddr) /\ Waiting(e)
    BY <1>1, <1>2, <1>4, <1>5 DEF AcceptCloseRecv, Waiting, LoopLabels
  <2> QED BY <1>3, <1>4, <2>1, FirstAgain
<1>6. CASE AckAccepted(e, p, "ACK")
  <2>1. e = "server"
    BY <1>4, Ends DEF Safe, Control
  <2>2. /\ pc' = [pc EXCEPT ![e] = "prompt"]
        /\ packet' = [packet EXCEPT ![e] = NoPacket]
        /\ wire' = w
    BY <1>1, <1>2, <1>6, <2>1 DEF AcceptCloseRecv, AcceptCloseReturns, LeaveLoop, Goto
  <2> QED BY <1>3, <1>4, <2>1, <2>2, FirstMove
<1> QED BY <1>5, <1>6

LEMMA FirstExit ==
  ASSUME TypeOK, TypeOK', First, NEW e \in End, NEW label \in {"exited", "done"},
         NEW w \in Wires, OnWire(w) \subseteq OnWire(wire), Exit(e, label, w),
         e = "client" => label = "exited" /\ pc["client"] # "closed",
         UNCHANGED <<dest_seq_no, destport, log, conns>>
  PROVE  First'
<1>1. /\ OnWire(wire') \subseteq OnWire(wire)
      /\ pc' = [pc EXCEPT ![e] = label] /\ packet' = [packet EXCEPT ![e] = NoPacket]
  BY ExitCases
<1> QED BY <1>1, FirstMove

LEMMA FirstReceiveOther ==
  ASSUME TypeOK, TypeOK', First, NEW e \in End, NEW i \in 1 .. Len(wire[e]), ReceiveOther(e, i)
  PROVE  First'
<1>1. Left(e, i) \in Wires /\ OnWire(Left(e, i)) \subseteq OnWire(wire)
  BY RecvCases
<1>2. /\ pc[e] = "receive" /\ Exit(e, "exited", Left(e, i))
      /\ UNCHANGED <<dest_seq_no, destport, log, conns>>
  BY DEF ReceiveOther, proto, history
<1> QED BY <1>1, <1>2, FirstExit

LEMMA FirstPrompt ==
  ASSUME TypeOK, TypeOK', First, NEW y \in BOOLEAN, Prompt(y)
  PROVE  First'
<1>1. pc["server"] = "prompt" /\ UNCHANGED <<dest_seq_no, destport, log, conns>>
  BY DEF Prompt, proto, history
<1>2. wire \in Wires /\ OnWire(wire) \subseteq OnWire(wire)
  BY DEF TypeOK, Wires
<1>3. CASE y
  <2>1. Exit("server", "done", wire)
    BY <1>3 DEF Prompt
  <2> QED BY <1>1, <1>2, <2>1, FirstExit, Ends
<1>4. CASE ~y
  <2>1. pc' = [pc EXCEPT !["server"] = "accept"] /\ UNCHANGED <<packet, wire>>
    BY <1>4 DEF Prompt, Goto
  <2>2. OnWire(wire') \subseteq OnWire(wire)
    BY <2>1 DEF OnWire
  <2> QED BY <1>1, <2>1, <2>2, FirstMove, Ends
<1> QED BY <1>3, <1>4

LEMMA FirstNetwork ==
  ASSUME TypeOK, TypeOK', First, Network
  PROVE  First'
<1>1. PICK w, Q : NetworkPuts(w, Q)
  BY NetworkCases
<1>2. ASSUME NEW q \in Q
      PROVE  AsSome(q) \/ (q.type \notin {"FIN", "FIN_ACK"} /\ q.source_port # Port["client"])
  <2>1. CASE Damaged(q)
    BY <2>1, DamagedFields DEF AsSome, Packets
  <2>2. CASE q = StraySynPacket
    BY <2>2, RltpConstants DEF StraySynPacket
  <2> QED BY <1>1, <2>1, <2>2 DEF NetworkPuts
<1>3. wire' = w /\ UNCHANGED <<pc, packet, destport, dest_seq_no, log, conns>>
  BY <1>1 DEF NetworkPuts, Fault, proto, history
<1>4. OnWire(wire') \subseteq OnWire(wire) \cup Q
  BY <1>1, <1>3 DEF NetworkPuts
<1> QED BY <1>2, <1>3, <1>4, FirstSame

LEMMA FirstConnectRecv ==
  ASSUME TypeOK, TypeOK', Safe, First, NEW i \in 1 .. Len(wire["client"]), ConnectRecv(i)
  PROVE  First'
<1>1. PICK p : p = wire["client"][i]
  OBVIOUS
<1>2. PICK w : w = Left("client", i)
  OBVIOUS
<1>3. /\ w \in Wires /\ OnWire(w) \subseteq OnWire(wire)
      /\ p \in Packet /\ p \in OnWire(wire)
  BY <1>1, <1>2, RecvCases, Ends
<1>4. pc["client"] = "connect" /\ UNCHANGED <<destport, log, conns>>
  BY DEF ConnectRecv, history
<1>5. CASE ~SynAckAccepted("client", p)
  <2>1. Again("client", w, p.saddr) /\ UNCHANGED dest_seq_no
    BY <1>1, <1>2, <1>5 DEF ConnectRecv
  <2>2. Waiting("client")
    BY <1>4 DEF Waiting, LoopLabels
  <2> QED BY <1>3, <1>4, <2>1, <2>2, Ends, FirstAgain
<1>6. CASE SynAckAccepted("client", p)
  <2>1. GenuinePacket(p)
    BY <1>3, PacketGenuine DEF Safe
  <2>2. SamePort(p.source_port, destport["client"]) /\ p.seq_no # 0
    BY <1>3, <1>4, <1>6, <2>1, SynAckProves
  <2>3. PICK q : q = AckPacket("client", "ACK", p.saddr, p.seq_no)
    OBVIOUS
  <2>4. /\ dest_seq_no' = [dest_seq_no EXCEPT !["client"] = p.seq_no]
        /\ pc' = [pc EXCEPT !["client"] = "ready"]
        /\ packet' = [packet EXCEPT !["client"] = NoPacket]
        /\ wire' = Transmit(w, q, p.saddr)
    BY <1>1, <1>2, <1>6, <2>2, <2>3 DEF ConnectRecv, LeaveLoop, Goto
  <2>5. q \in Packet /\ q.source_port = Port["client"] /\ q.type = "ACK"
    <3>1. q \in Packet
      BY <1>3, <2>3, PacketFields, AckPacketType, Ends DEF Types
    <3> QED BY <2>3, <3>1 DEF AckPacket, Header
  <2>6. /\ OnWire(wire') \subseteq OnWire(wire) \cup {q}
        /\ \A x \in End : packet'[x] \in {packet[x], NoPacket, q}
    BY <1>3, <2>4, <2>5, TransmitType DEF TypeOK
  <2>7. \A x \in End : x # "client" => UNCHANGED <<log[x], dest_seq_no[x], destport[x]>>
    BY <1>4, <2>4 DEF TypeOK
  <2> QED BY <1>4, <2>4, <2>5, <2>6, <2>7, Ends, FirstTalk
<1> QED BY <1>5, <1>6

LEMMA FirstAcceptConnect ==
  ASSUME TypeOK, TypeOK', Safe, First, NEW i \in 1 .. Len(wire["server"]), AcceptConnect(i)
  PROVE  First'
<1>1. PICK p : p = wire["server"][i]
  OBVIOUS
<1>2. PICK w : w = Left("server", i)
  OBVIOUS
<1>3. /\ w \in Wires /\ OnWire(w) \subseteq OnWire(wire)
      /\ p \in Packet /\ p \in OnWire(wire)
  BY <1>1, <1>2, RecvCases, Ends
<1>4. pc["server"] = "accept" /\ UNCHANGED <<log, conns>>
  BY DEF AcceptConnect, history
<1>5. CASE ~SynAccepted("server", p)
  <2>1. wire' = w /\ UNCHANGED <<pc, packet, destport, dest_seq_no>>
    BY <1>1, <1>2, <1>5 DEF AcceptConnect
  <2>2. PICK Q : Q = {}
    OBVIOUS
  <2>3. /\ OnWire(wire') \subseteq OnWire(wire) \cup Q
        /\ \A q \in Q : q.type \notin {"FIN", "FIN_ACK"} /\ q.source_port # Port["client"]
    BY <1>3, <2>1, <2>2
  <2> QED BY <1>4, <2>1, <2>3, FirstSame
<1>6. CASE SynAccepted("server", p)
  <2>1. PICK q : q = Header("server", "SYN_ACK", p.source_port, p.saddr,
                            src_seq_no["server"], p.seq_no)
    OBVIOUS
  <2>2. /\ destport' = [destport EXCEPT !["server"] = p.source_port]
        /\ dest_seq_no' = [dest_seq_no EXCEPT !["server"] = p.seq_no]
        /\ pc' = [pc EXCEPT !["server"] = "accept_connect"]
        /\ packet' = [packet EXCEPT !["server"] = q]
        /\ wire' = Transmit(w, q, p.saddr)
    BY <1>1, <1>2, <1>6, <2>1 DEF AcceptConnect, EnterLoop, Goto
  <2>3. q \in Packet
    <3>1. src_seq_no["server"] \in SeqNo /\ p.source_port \in PortNo
          /\ p.seq_no \in SeqNo /\ p.saddr \in Addrs
      BY <1>3, PacketFields, Ends DEF TypeOK
    <3> QED BY <2>1, <3>1, HeaderType, Ends DEF Types
  <2>4. q.type = "SYN_ACK" /\ q.source_port # Port["client"]
    BY <2>1, Ends DEF Header
  <2>5. p \in Packets /\ p.type = "SYN"
    BY <1>3, <1>6 DEF Packets, SynAccepted
  <2>6. /\ pc'["client"] = pc["client"] /\ pc'["server"] = "accept_connect"
        /\ destport'["server"] = p.source_port /\ dest_seq_no'["server"] = p.seq_no
        /\ \A x \in End : packet'[x] \in {packet[x], NoPacket} \cup {q}
    BY <2>2, Ends DEF TypeOK
  <2>7. Packets' \subseteq Packets \cup {q}
    <3>1. OnWire(wire') \subseteq OnWire(wire) \cup {q}
      BY <1>3, <2>2, <2>3, TransmitType
    <3> QED BY <2>6, <3>1, PacketsSent
  <2>8. ~InConversation("server")'
    BY <2>6 DEF InConversation
  <2> QED BY <1>4, <2>4, <2>5, <2>6, <2>7, <2>8 DEF First
<1> QED BY <1>5, <1>6

\* The third packet of the handshake was sent by a connect() that has returned,
\* and names the number of a client that has sent no message yet.
LEMMA FirstAcceptConnectRecv ==
  ASSUME TypeOK, TypeOK', Safe, First, NEW i \in 1 .. Len(wire["server"]), AcceptConnectRecv(i)
  PROVE  First'
<1>1. PICK p : p = wire["server"][i]
  OBVIOUS
<1>2. PICK w : w = Left("server", i)
  OBVIOUS
<1>3. /\ w \in Wires /\ OnWire(w) \subseteq OnWire(wire)
      /\ p \in Packet /\ p \in OnWire(wire)
  BY <1>1, <1>2, RecvCases, Ends
<1>4. /\ pc["server"] = "accept_connect"
      /\ UNCHANGED <<dest_seq_no, destport, log, conns>>
  BY DEF AcceptConnectRecv, history
<1>5. CASE ~AckAccepted("server", p, "ACK")
  <2>1. Again("server", w, p.saddr)
    BY <1>1, <1>2, <1>5 DEF AcceptConnectRecv
  <2>2. Waiting("server")
    BY <1>4 DEF Waiting, LoopLabels
  <2> QED BY <1>3, <1>4, <2>1, <2>2, Ends, FirstAgain
<1>6. CASE AckAccepted("server", p, "ACK")
  <2> SUFFICES ASSUME conns' <= 1
               PROVE  First'
    BY DEF First
  <2>1. conns <= 1 /\ GenuinePacket(p)
    BY <1>3, <1>4, PacketGenuine DEF Safe
  <2>2. /\ wire' = w
        /\ pc' = [pc EXCEPT !["server"] = "receive"]
        /\ packet' = [packet EXCEPT !["server"] = NoPacket]
    BY <1>1, <1>2, <1>6 DEF AcceptConnectRecv, LeaveLoop, Goto
  <2>3. /\ pc'["client"] = pc["client"] /\ pc'["server"] = "receive"
        /\ \A x \in End : packet'[x] \in {packet[x], NoPacket} \cup {}
    BY <2>2, Ends DEF TypeOK
  <2>4. Packets' \subseteq Packets
    <3>1. OnWire(wire') \subseteq OnWire(wire) \cup {}
      BY <1>3, <2>2
    <3> QED BY <2>3, <3>1, PacketsSent
  <2>5. /\ destport["server"] = Port["client"]
        /\ Len(delivered["server"]) <= Len(log["client"])
        /\ dest_seq_no["server"] = Pos("client", Len(delivered["server"]))
    BY <1>3, <1>4, <1>6, <2>1, HandshakeProves
  <2>6. p \in Packets /\ p.source_port = Port["client"] /\ p.type = "ACK"
    BY <1>3, <1>6, <2>5 DEF Packets, AckAccepted, SamePort
  <2>7. conns # 0 /\ pc["client"] # "connect"
    BY <2>1, <2>6 DEF First
  <2>8. Len(delivered["server"]) = 0
    <3>1. dest_seq_no["server"] = Pos("client", 0)
      BY <1>4, <2>1, <2>5 DEF First, Pos
    <3>2. /\ Len(delivered["server"]) \in 0 .. Len(log["client"]) /\ 0 \in 0 .. Len(log["client"])
          /\ LogOrder /\ "client" \in End
      BY <2>5, Lengths, Ends DEF Safe
    <3> QED BY <2>5, <3>1, <3>2, PosInjective
  <2>9. pc["client"] \in {"closed", "close"} => Len(log["client"]) = 0
    <3>1. Len(log["server"]) <= Len(delivered["server"])
          /\ Len(delivered["client"]) <= Len(log["server"])
      BY TurnsOrder
    <3>2. Len(log["server"]) \in Nat /\ Len(delivered["client"]) \in Nat
      BY Lengths, Ends
    <3>3. pc["client"] \in {"closed", "close"} => Len(log["client"]) = Len(delivered["client"])
      BY DEF Safe, Turns
    <3> QED BY <2>8, <3>1, <3>2, <3>3
  <2> QED BY <1>4, <2>1, <2>3, <2>4, <2>7, <2>9 DEF First
<1> QED BY <1>5, <1>6

LEMMA FirstReceiveFin ==
  ASSUME TypeOK, TypeOK', Safe, First, NEW e \in End, NEW i \in 1 .. Len(wire[e]),
         ReceiveFin(e, i)
  PROVE  First'
<1> SUFFICES ASSUME conns' <= 1
             PROVE  First'
  BY DEF First
<1>1. PICK p : p = wire[e][i]
  OBVIOUS
<1>2. PICK w : w = Left(e, i)
  OBVIOUS
<1>3. /\ w \in Wires /\ OnWire(w) \subseteq OnWire(wire)
      /\ p \in Packet /\ p \in OnWire(wire)
  BY <1>1, <1>2, RecvCases
<1>4. /\ pc[e] = "receive" /\ FinAccepted(e, p)
      /\ UNCHANGED <<dest_seq_no, destport, log, conns>>
  BY <1>1 DEF ReceiveFin, proto, history
<1>5. GenuinePacket(p)
  BY <1>3, PacketGenuine DEF Safe
<1>6. p.type = "FIN" /\ p.source_port = destport[e]
  BY <1>4 DEF FinAccepted, InSession, SamePort
<1>7. destport[e] = Port[Peer(e)]
  BY <1>4, Ends DEF Safe, Control, NumbersAgree
<1>8. e = "server" /\ p.source_port = Port["client"]
  <2>1. e = "client" => p.source_port = Port["server"]
    BY <1>6, <1>7, Ends
  <2>2. e # "client"
    BY <1>5, <1>6, <2>1 DEF GenuinePacket
  <2> QED BY <1>6, <1>7, <2>2, Ends
<1>9. PICK q : q = AckPacket("server", "FIN_ACK", p.saddr, dest_seq_no["server"])
  OBVIOUS
<1>10. /\ pc' = [pc EXCEPT !["server"] = "accept_close"]
       /\ packet' = [packet EXCEPT !["server"] = q]
       /\ wire' = Transmit(w, q, p.saddr)
  BY <1>1, <1>2, <1>8, <1>9 DEF ReceiveFin, EnterLoop, Goto
<1>11. q \in Packet /\ q.type = "FIN_ACK" /\ q.source_port # Port["client"]
  <2>1. p.saddr \in Addrs /\ dest_seq_no["server"] \in SeqNo
    BY <1>3, PacketFields, Ends DEF TypeOK
  <2>2. q \in Packet
    BY <1>9, <2>1, AckPacketType, Ends DEF Types
  <2> QED BY <1>9, <2>2, Ends DEF AckPacket, Header
<1>12. /\ pc'["client"] = pc["client"] /\ pc'["server"] = "accept_close"
       /\ \A x \in End : packet'[x] \in {packet[x], NoPacket} \cup {q}
  BY <1>10, Ends DEF TypeOK
<1>13. Packets' \subseteq Packets \cup {q}
  <2>1. OnWire(wire') \subseteq OnWire(wire) \cup {q}
    BY <1>3, <1>10, <1>11, TransmitType
  <2> QED BY <1>12, <2>1, PacketsSent
<1>14. /\ conns # 0 /\ pc["client"] # "connect"
       /\ pc["client"] \in {"close", "closed", "exited"}
  <2>1. p \in Packets
    BY <1>3 DEF Packets
  <2> QED BY <1>4, <1>6, <1>8, <2>1 DEF First
<1>15. ~InConversation("server")'
  BY <1>12 DEF InConversation
<1> QED BY <1>4, <1>11, <1>12, <1>13, <1>14, <1>15 DEF First

LEMMA FirstClose ==
  ASSUME TypeOK, TypeOK', First, Close
  PROVE  First'
<1> SUFFICES ASSUME conns' <= 1
             PROVE  First'
  BY DEF First
<1>1. pc["client"] = "ready" /\ UNCHANGED <<dest_seq_no, destport, log, conns>>
  BY DEF Close, proto, history
<1>2. PICK q : q = AckPacket("client", "FIN", dest_addr["client"], dest_seq_no["client"])
  OBVIOUS
<1>3. /\ pc' = [pc EXCEPT !["client"] = "close"]
      /\ packet' = [packet EXCEPT !["client"] = q]
      /\ wire' = Transmit(wire, q, dest_addr["client"])
  BY <1>2 DEF Close, EnterLoop, Goto
<1>4. q \in Packet /\ q.type = "FIN"
  <2>1. dest_addr["client"] \in Addrs /\ dest_seq_no["client"] \in SeqNo
    BY Ends DEF TypeOK
  <2>2. q \in Packet
    BY <1>2, <2>1, AckPacketType, Ends DEF Types
  <2> QED BY <1>2, <2>2 DEF AckPacket, Header
<1>5. /\ pc'["server"] = pc["server"] /\ pc'["client"] = "close"
      /\ \A x \in End : packet'[x] \in {packet[x], NoPacket} \cup {q}
  BY <1>3, Ends DEF TypeOK
<1>6. Packets' \subseteq Packets \cup {q}
  <2>1. wire \in Wires
    BY DEF TypeOK, Wires
  <2>2. OnWire(wire') \subseteq OnWire(wire) \cup {q}
    BY <1>3, <1>4, <2>1, TransmitType
  <2> QED BY <1>5, <2>2, PacketsSent
<1>7. \A p \in Packets : p.type \notin {"FIN", "FIN_ACK"}
  BY <1>1 DEF First
<1>8. conns # 0
  BY <1>1 DEF First
<1> QED BY <1>1, <1>4, <1>5, <1>6, <1>7, <1>8 DEF First

\* close() returns on a FIN_ACK: a server that sent it has left the conversation.
LEMMA FirstCloseRecv ==
  ASSUME TypeOK, TypeOK', Safe, First, NEW i \in 1 .. Len(wire["client"]), CloseRecv(i)
  PROVE  First'
<1>1. PICK p : p = wire["client"][i]
  OBVIOUS
<1>2. PICK w : w = Left("client", i)
  OBVIOUS
<1>3. /\ w \in Wires /\ OnWire(w) \subseteq OnWire(wire)
      /\ p \in Packet /\ p \in OnWire(wire)
  BY <1>1, <1>2, RecvCases, Ends
<1>4. pc["client"] = "close" /\ UNCHANGED <<dest_seq_no, destport, log, conns>>
  BY DEF CloseRecv, history
<1>5. CASE ~AckAccepted("client", p, "FIN_ACK")
  <2>1. Again("client", w, p.saddr)
    BY <1>1, <1>2, <1>5 DEF CloseRecv
  <2>2. Waiting("client")
    BY <1>4 DEF Waiting, LoopLabels
  <2> QED BY <1>3, <1>4, <2>1, <2>2, Ends, FirstAgain
<1>6. CASE AckAccepted("client", p, "FIN_ACK")
  <2> SUFFICES ASSUME conns' <= 1
               PROVE  First'
    BY DEF First
  <2>1. PICK q : q = AckPacket("client", "ACK", p.saddr, dest_seq_no["client"])
    OBVIOUS
  <2>2. /\ pc' = [pc EXCEPT !["client"] = "closed"]
        /\ packet' = [packet EXCEPT !["client"] = NoPacket]
        /\ wire' = Transmit(w, q, p.saddr)
    BY <1>1, <1>2, <1>6, <2>1 DEF CloseRecv, LeaveLoop, Goto
  <2>3. q \in Packet /\ q.type = "ACK"
    <3>1. p.saddr \in Addrs /\ dest_seq_no["client"] \in SeqNo
      BY <1>3, PacketFields, Ends DEF TypeOK
    <3>2. q \in Packet
      BY <2>1, <3>1, AckPacketType, Ends DEF Types
    <3> QED BY <2>1, <3>2 DEF AckPacket, Header
  <2>4. /\ pc'["server"] = pc["server"] /\ pc'["client"] = "closed"
        /\ \A x \in End : packet'[x] \in {packet[x], NoPacket} \cup {q}
    BY <2>2, Ends DEF TypeOK
  <2>5. Packets' \subseteq Packets \cup {q}
    <3>1. OnWire(wire') \subseteq OnWire(wire) \cup {q}
      BY <1>3, <2>2, <2>3, TransmitType
    <3> QED BY <2>4, <3>1, PacketsSent
  <2>6. p \in Packets /\ p.type = "FIN_ACK"
    BY <1>3, <1>6 DEF Packets, AckAccepted
  <2>7. conns # 0
    BY <1>4 DEF First
  <2>8. Len(log["client"]) > 0 => ~InConversation("server")'
    BY <1>4, <2>4, <2>6 DEF First, InConversation
  <2> QED BY <1>4, <2>3, <2>4, <2>5, <2>7, <2>8 DEF First
<1> QED BY <1>5, <1>6

LEMMA FirstConnect ==
  ASSUME TypeOK, TypeOK', Safe, First, Connect
  PROVE  First'
<1> SUFFICES ASSUME conns' <= 1
             PROVE  First'
  BY DEF First
<1>1. conns = 0 /\ conns' = 1
  BY DEF Connect, TypeOK
<1>2. UNCHANGED <<dest_seq_no, log>> /\ destport' = [destport EXCEPT !["client"] = Port["server"]]
  BY DEF Connect, history
<1>3. PICK q : q = SynPacket("client")
  OBVIOUS
<1>4. /\ pc' = [pc EXCEPT !["client"] = "connect"]
      /\ packet' = [packet EXCEPT !["client"] = q]
      /\ wire' = Transmit(wire, q, Addr["server"])
  BY <1>3 DEF Connect, EnterLoop, Goto
<1>5. q.type = "SYN" /\ q.seq_no = src_seq_no["client"]
  BY <1>3 DEF SynPacket, Header
<1>6. q \in Packet
  <2>1. packet'["client"] = q /\ pc'["client"] \in LoopLabels
    BY <1>4, Ends DEF TypeOK, LoopLabels
  <2> QED BY <2>1, Ends DEF TypeOK, Waiting
<1>7. /\ pc'["server"] = pc["server"] /\ pc'["client"] = "connect"
      /\ destport'["server"] = destport["server"]
      /\ \A x \in End : packet'[x] \in {packet[x], NoPacket} \cup {q}
  BY <1>2, <1>4, Ends DEF TypeOK
<1>8. Packets' \subseteq Packets \cup {q}
  <2>1. wire \in Wires
    BY DEF TypeOK, Wires
  <2>2. OnWire(wire') \subseteq OnWire(wire) \cup {q}
    BY <1>4, <1>6, <2>1, TransmitType
  <2> QED BY <1>7, <2>2, PacketsSent
<1>9. src_seq_no["client"] = ISN["client"]
  <2>1. Len(log["client"]) = 0
    BY <1>1 DEF First
  <2>2. src_seq_no["client"] = Pos("client", Len(log["client"]))
    BY Ends DEF Safe, LogOrder
  <2> QED BY <2>1, <2>2 DEF Pos
<1>10. InConversation("server")' <=> InConversation("server")
  BY <1>7 DEF InConversation
<1>11. \A p \in Packets : p.type \notin {"FIN", "FIN_ACK"}
  <2>1. \A p \in Packets : /\ p.source_port = Port["client"] => p.type = "SYN"
                           /\ p.type # "FIN_ACK"
    BY <1>1 DEF First
  <2>2. \A p \in Packets : GenuinePacket(p)
    BY PacketGenuine DEF Packets, Safe, GenuinePackets
  <2> QED BY <2>1, <2>2 DEF GenuinePacket
<1> QED BY <1>1, <1>2, <1>5, <1>7, <1>8, <1>9, <1>10, <1>11 DEF First

LEMMA FirstInit == Init => First
<1> SUFFICES ASSUME Init
             PROVE  First
  OBVIOUS
<1>1. /\ conns = 0 /\ pc["client"] = "closed" /\ pc["server"] = "accept"
      /\ \A e \in End : wire[e] = <<>> /\ packet[e] = NoPacket
      /\ Len(log["client"]) = 0
  BY Ends DEF Init
<1>2. Packets = {}
  BY <1>1 DEF Packets, OnWire
<1> QED BY <1>1, <1>2 DEF First, InConversation

LEMMA FirstNext ==
  ASSUME TypeOK, TypeOK', Safe, First, [Next]_vars
  PROVE  First'
<1>1. ASSUME NEW e \in End, EndStep(e)
      PROVE  First'
  BY <1>1, FirstTimeout, FirstSendRecv, FirstAcceptCloseRecv, FirstReceiveData,
     FirstReceiveFin, FirstReceiveOther DEF EndStep
<1>2. ASSUME ClientStep
      PROVE  First'
  <2>1. ASSUME NEW len \in Lens, ClientSend(len)
        PROVE  First'
    BY <2>1, FirstSendMessage, Ends DEF ClientSend
  <2> QED BY <1>1, <1>2, <2>1, FirstConnect, FirstClose, FirstConnectRecv, FirstCloseRecv, Ends
          DEF ClientStep
<1>3. ASSUME ServerStep
      PROVE  First'
  <2>1. ASSUME NEW len \in Lens, ServerReply(len)
        PROVE  First'
    BY <2>1, FirstSendMessage, Ends DEF ServerReply
  <2> QED BY <1>1, <1>3, <2>1, FirstPrompt, FirstAcceptConnect, FirstAcceptConnectRecv, Ends
          DEF ServerStep
<1>4. ASSUME UNCHANGED vars
      PROVE  First'
  BY <1>4 DEF vars, proto, history, First, Packets, OnWire, InConversation
<1> QED BY <1>2, <1>3, <1>4, FirstNetwork DEF Next

\* In the first connection a server in a conversation has a client whose
\* connect() has returned, and not one that sent a message and whose close() has
\* returned: the handshakes drop what does not belong to it.  Later connections
\* are not covered.
THEOREM FirstConnectionAgrees == ASSUME Roomy PROVE Spec => []EndsAgree
<1>1. Init => First
  BY FirstInit
<1>2. TypeOK /\ TypeOK' /\ Inv /\ ~wrapped /\ First /\ [Next]_vars => First'
  BY FirstNext, InvIsSafe
<1>3. First => EndsAgree
  BY FirstAgrees
<1> QED BY <1>1, <1>2, <1>3, TypeCorrect, InvHolds, NeverWraps, PTL DEF Spec
=============================================================================
