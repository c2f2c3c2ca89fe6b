----------------------------- MODULE RltpProofs -----------------------------
EXTENDS RltpProperties, SequenceTheorems, TLAPS

-----------------------------------------------------------------------------
(* What the helpers on packets and wires return. *)

LEMMA RemoveAtType ==
  ASSUME NEW S, NEW s \in Seq(S), NEW i \in 1 .. Len(s)
  PROVE  /\ RemoveAt(s, i) \in Seq(S)
         /\ Len(RemoveAt(s, i)) = Len(s) - 1
         /\ \A j \in 1 .. Len(RemoveAt(s, i)) :
              \E k \in 1 .. Len(s) : RemoveAt(s, i)[j] = s[k]
<1> DEFINE r == RemoveAt(s, i)
<1>1. Len(s) \in Nat /\ \A k \in 1 .. Len(s) : s[k] \in S
  BY LenProperties, ElementOfSeq
<1>2. r \in [1 .. Len(s) - 1 -> S]
  BY <1>1 DEF RemoveAt
<1>3. Len(s) - 1 \in Nat
  BY <1>1
<1>4. r \in Seq(S)
  BY <1>2, <1>3, SeqDef
<1>5. Len(r) = Len(s) - 1
  BY <1>2, <1>3, <1>4, LenProperties
<1>6. \A j \in 1 .. Len(r) : \E k \in 1 .. Len(s) : r[j] = s[k]
  <2> SUFFICES ASSUME NEW j \in 1 .. Len(r)
               PROVE  \E k \in 1 .. Len(s) : r[j] = s[k]
    OBVIOUS
  <2>1. r[j] = IF j < i THEN s[j] ELSE s[j + 1]
    BY <1>5 DEF RemoveAt
  <2>2. j \in 1 .. Len(s) /\ j + 1 \in 1 .. Len(s)
    BY <1>1, <1>5
  <2> QED BY <2>1, <2>2
<1> QED BY <1>4, <1>5, <1>6

\* The packets on the wires w.
OnWire(w) == UNION { {w[x][i] : i \in 1 .. Len(w[x])} : x \in End }

Wires == [End -> Seq(Packet)]

LEMMA OnWireType ==
  ASSUME NEW w \in Wires
  PROVE  /\ OnWire(w) \subseteq Packet
         /\ \A x \in End : \A i \in 1 .. Len(w[x]) : w[x][i] \in OnWire(w)
BY ElementOfSeq DEF OnWire, Wires

LEMMA LeftType ==
  ASSUME wire \in Wires, NEW e \in End, NEW i \in 1 .. Len(wire[e])
  PROVE  /\ Left(e, i) \in Wires
         /\ OnWire(Left(e, i)) \subseteq OnWire(wire)
         /\ wire[e][i] \in OnWire(wire)
         /\ wire[e][i] \in Packet
<1> DEFINE r == RemoveAt(wire[e], i)
<1>1. wire[e] \in Seq(Packet)
  BY DEF Wires
<1>2. r \in Seq(Packet) /\ \A j \in 1 .. Len(r) : \E k \in 1 .. Len(wire[e]) : r[j] = wire[e][k]
  BY <1>1, RemoveAtType
<1>3. Left(e, i) = [wire EXCEPT ![e] = r]
  BY DEF Left
<1>4. Left(e, i) \in Wires
  BY <1>2, <1>3 DEF Wires
<1>5. \A x \in End : Left(e, i)[x] = IF x = e THEN r ELSE wire[x]
  BY <1>3 DEF Wires
<1>6. ASSUME NEW x \in End, NEW j \in 1 .. Len(Left(e, i)[x])
      PROVE  Left(e, i)[x][j] \in OnWire(wire)
  <2>1. CASE x = e
    <3>1. PICK k \in 1 .. Len(wire[e]) : r[j] = wire[e][k]
      BY <2>1, <1>2, <1>5
    <3> QED BY <3>1, <2>1, <1>5, OnWireType
  <2>2. CASE x # e
    BY <2>2, <1>5, OnWireType
  <2> QED BY <2>1, <2>2
<1>7. OnWire(Left(e, i)) \subseteq OnWire(wire)
  BY <1>6 DEF OnWire
<1> QED BY <1>4, <1>7, OnWireType

LEMMA TransmitType ==
  ASSUME NEW w \in Wires, NEW p \in Packet, NEW addr
  PROVE  /\ Transmit(w, p, addr) \in Wires
         /\ OnWire(Transmit(w, p, addr)) \subseteq OnWire(w) \cup {p}
<1> DEFINE t == Transmit(w, p, addr)
<1>1. \A x \in End : t[x] = w[x] \/ t[x] = Append(w[x], p)
  BY DEF Transmit
<1>2. \A x \in End : w[x] \in Seq(Packet)
  BY DEF Wires
<1>3. \A x \in End : t[x] \in Seq(Packet)
  BY <1>1, <1>2, AppendProperties
<1>4. t \in Wires
  BY <1>3 DEF Transmit, Wires
<1>5. ASSUME NEW x \in End, NEW i \in 1 .. Len(t[x])
      PROVE  t[x][i] \in OnWire(w) \cup {p}
  <2>1. CASE t[x] = w[x]
    BY <2>1 DEF OnWire
  <2>2. CASE t[x] = Append(w[x], p)
    <3>1. Len(t[x]) = Len(w[x]) + 1 /\ t[x][Len(w[x]) + 1] = p
          /\ \A j \in 1 .. Len(w[x]) : t[x][j] = w[x][j]
      BY <2>2, <1>2, AppendProperties
    <3>2. Len(w[x]) \in Nat
      BY <1>2, LenProperties
    <3>3. i = Len(w[x]) + 1 \/ i \in 1 .. Len(w[x])
      BY <3>1, <3>2
    <3> QED BY <3>1, <3>3 DEF OnWire
  <2> QED BY <1>1, <2>1, <2>2
<1>6. OnWire(t) \subseteq OnWire(w) \cup {p}
  BY <1>5 DEF OnWire
<1> QED BY <1>4, <1>6

\* What a process that exits leaves on the wires.
LEMMA DropType ==
  ASSUME NEW w \in Wires, NEW e \in End
  PROVE  /\ [w EXCEPT ![e] = <<>>] \in Wires
         /\ OnWire([w EXCEPT ![e] = <<>>]) \subseteq OnWire(w)
<1>1. <<>> \in Seq(Packet) /\ Len(<<>>) = 0
  BY EmptySeq
<1>2. [w EXCEPT ![e] = <<>>] \in Wires
  BY <1>1 DEF Wires
<1>3. \A x \in End : [w EXCEPT ![e] = <<>>][x] = IF x = e THEN <<>> ELSE w[x]
  BY DEF Wires
<1> QED BY <1>1, <1>2, <1>3 DEF OnWire

LEMMA HeaderType ==
  ASSUME NEW e \in End, NEW type \in Types, NEW dport \in PortNo,
         NEW daddr \in Addrs, NEW seq \in SeqNo, NEW ack \in SeqNo
  PROVE  Header(e, type, dport, daddr, seq, ack) \in Packet
<1>1. Port[e] \in PortNo /\ Addr[e] \in Addrs
  BY RltpConstants DEF Addrs, End
<1>2. 0 \in Nat /\ TRUE \in BOOLEAN
  OBVIOUS
<1> QED BY <1>1, <1>2 DEF Header, Packet

LEMMA AckPacketType ==
  ASSUME TypeOK, NEW e \in End, NEW type \in Types, NEW daddr \in Addrs, NEW ack \in SeqNo
  PROVE  AckPacket(e, type, daddr, ack) \in Packet
<1>1. destport[e] \in PortNo /\ src_seq_no[e] \in SeqNo
  BY DEF TypeOK
<1> QED BY <1>1, HeaderType DEF AckPacket

-----------------------------------------------------------------------------
(* What the shared parts of the handlers do to the state. *)

LEMMA RetryZero ==
  ASSUME TypeOK, NEW e \in End
  PROVE  [retry EXCEPT ![e] = 0] \in [End -> 0 .. MAX_RETRY - 1]
<1>1. MAX_RETRY \in Nat \ {0}
  BY RltpConstants
<1>2. 0 \in 0 .. MAX_RETRY - 1
  BY <1>1
<1>3. retry \in [End -> 0 .. MAX_RETRY - 1]
  BY DEF TypeOK
<1> QED BY <1>2, <1>3

\* A try that failed: once more, or the loop's end.
LEMMA AgainCases ==
  ASSUME TypeOK, NEW e \in End, Waiting(e), NEW w \in Wires, NEW addr, Again(e, w, addr)
  PROVE  /\ wire' \in Wires
         /\ OnWire(wire') \subseteq OnWire(w) \cup {packet[e]}
         /\ \/ /\ UNCHANGED <<pc, packet, connected>>
               /\ retry' \in [End -> 0 .. MAX_RETRY - 1]
            \/ /\ pc' = [pc EXCEPT ![e] = IF pc[e] = "accept_close" /\ e = "server"
                                         THEN "prompt" ELSE "exited"]
               /\ packet' = [packet EXCEPT ![e] = NoPacket]
               /\ retry' \in [End -> 0 .. MAX_RETRY - 1]
               /\ connected' = IF pc[e] = "accept_close"
                               THEN [connected EXCEPT ![e] = FALSE] ELSE connected
<1>1. packet[e] \in Packet /\ retry \in [End -> 0 .. MAX_RETRY - 1]
  BY DEF TypeOK
<1>2. CASE retry[e] + 1 < MAX_RETRY
  <2>1. wire' = Transmit(w, packet[e], addr) /\ UNCHANGED <<pc, packet, connected>>
        /\ retry' = [retry EXCEPT ![e] = @ + 1]
    BY <1>2 DEF Again
  <2>2. retry' \in [End -> 0 .. MAX_RETRY - 1]
    BY <2>1, <1>1, <1>2, RltpConstants
  <2> QED BY <2>1, <2>2, <1>1, TransmitType
<1>3. CASE ~(retry[e] + 1 < MAX_RETRY)
  <2>1. GiveUp(e, w)
    BY <1>3 DEF Again
  <2>2. wire' = w \/ wire' = [w EXCEPT ![e] = <<>>]
    BY <2>1 DEF GiveUp, AcceptCloseReturns, LeaveLoop, Exit
  <2>3. wire' \in Wires /\ OnWire(wire') \subseteq OnWire(w)
    BY <2>2, DropType
  <2>4. retry' = [retry EXCEPT ![e] = 0]
    BY <2>1 DEF GiveUp, AcceptCloseReturns, LeaveLoop, Exit
  <2>5. retry' \in [End -> 0 .. MAX_RETRY - 1]
    BY <2>4, RetryZero
  <2>6. pc' = [pc EXCEPT ![e] = IF pc[e] = "accept_close" /\ e = "server"
                               THEN "prompt" ELSE "exited"]
    BY <2>1 DEF GiveUp, AcceptCloseReturns, LeaveLoop, Exit, Goto
  <2>7. /\ packet' = [packet EXCEPT ![e] = NoPacket]
        /\ connected' = IF pc[e] = "accept_close"
                        THEN [connected EXCEPT ![e] = FALSE] ELSE connected
    BY <2>1 DEF GiveUp, AcceptCloseReturns, LeaveLoop, Exit
  <2> QED BY <2>3, <2>5, <2>6, <2>7
<1> QED BY <1>2, <1>3

LEMMA ExitCases ==
  ASSUME TypeOK, NEW e \in End, NEW label, NEW w \in Wires, Exit(e, label, w)
  PROVE  /\ wire' \in Wires
         /\ OnWire(wire') \subseteq OnWire(w)
         /\ pc' = [pc EXCEPT ![e] = label]
         /\ packet' = [packet EXCEPT ![e] = NoPacket]
         /\ retry' \in [End -> 0 .. MAX_RETRY - 1]
BY DropType, RetryZero DEF Exit, Goto

LEMMA LeaveLoopCases ==
  ASSUME TypeOK, NEW e \in End, NEW label, NEW w \in Wires, LeaveLoop(e, label, w)
  PROVE  /\ wire' = w
         /\ pc' = [pc EXCEPT ![e] = label]
         /\ packet' = [packet EXCEPT ![e] = NoPacket]
         /\ retry' \in [End -> 0 .. MAX_RETRY - 1]
BY RetryZero DEF LeaveLoop, Goto

LEMMA EnterLoopCases ==
  ASSUME TypeOK, NEW e \in End, NEW label, NEW w \in Wires, NEW p \in Packet, NEW addr,
         EnterLoop(e, label, p, w, addr)
  PROVE  /\ wire' \in Wires
         /\ OnWire(wire') \subseteq OnWire(w) \cup {p}
         /\ pc' = [pc EXCEPT ![e] = label]
         /\ packet' = [packet EXCEPT ![e] = p]
         /\ retry' \in [End -> 0 .. MAX_RETRY - 1]
BY TransmitType, RetryZero DEF EnterLoop, Goto

\* A packet taken from a wire.
LEMMA RecvCases ==
  ASSUME TypeOK, NEW e \in End, NEW i \in 1 .. Len(wire[e])
  PROVE  /\ Left(e, i) \in Wires
         /\ OnWire(Left(e, i)) \subseteq OnWire(wire)
         /\ wire[e][i] \in OnWire(wire)
         /\ wire[e][i] \in Packet
         /\ Recv(e, i) => dest_addr' \in [End -> Addrs] /\ faults' \in Nat
<1>1. wire \in Wires
  BY DEF TypeOK, Wires
<1>2. wire[e][i] \in Packet
  BY <1>1, LeftType
<1>3. Recv(e, i) => dest_addr' \in [End -> Addrs] /\ faults' \in Nat
  <2>1. wire[e][i].saddr \in Addrs
    BY <1>2 DEF Packet
  <2>2. dest_addr \in [End -> Addrs] /\ faults \in Nat
    BY DEF TypeOK
  <2> QED BY <2>1, <2>2 DEF Recv
<1> QED BY <1>1, <1>3, LeftType

-----------------------------------------------------------------------------
(* Types. *)

\* The part of TypeOK a change of control touches.
ControlTypeOK ==
  /\ pc \in [End -> Labels]
  /\ retry \in [End -> 0 .. MAX_RETRY - 1]
  /\ packet \in [End -> Packet \cup {NoPacket}]
  /\ \A e \in End : Waiting(e) => packet[e] \in Packet
  /\ wire \in [End -> Seq(Packet)]

LEMMA MoveType ==
  ASSUME TypeOK, NEW e \in End, NEW label \in Labels, NEW q \in Packet \cup {NoPacket},
         pc' = [pc EXCEPT ![e] = label], packet' = [packet EXCEPT ![e] = q],
         q \in Packet \/ label \notin LoopLabels,
         retry' \in [End -> 0 .. MAX_RETRY - 1], wire' \in Wires
  PROVE  /\ ControlTypeOK'
         /\ label # "reply" \/ e # "server" =>
              (pc["server"]' = "reply" => pc["server"] = "reply")
<1>1. /\ pc \in [End -> Labels]
      /\ packet \in [End -> Packet \cup {NoPacket}]
      /\ \A x \in End : Waiting(x) => packet[x] \in Packet
  BY DEF TypeOK
<1>2. pc' \in [End -> Labels] /\ packet' \in [End -> Packet \cup {NoPacket}]
  BY <1>1
<1>3. \A x \in End : pc'[x] \in LoopLabels => packet'[x] \in Packet
  BY <1>1 DEF Waiting
<1>4. pc'["server"] = "reply" => pc["server"] = "reply" \/ (label = "reply" /\ e = "server")
  BY <1>1 DEF End
<1> QED BY <1>2, <1>3, <1>4 DEF ControlTypeOK, Waiting, Wires

LEMMA NotInLoop ==
  /\ {"prompt", "exited", "ready", "receive", "reply", "closed", "done"} \subseteq Labels
  /\ {"prompt", "exited", "ready", "receive", "reply", "closed", "done"} \cap LoopLabels = {}
  /\ LoopLabels \subseteq Labels
BY DEF Labels, LoopLabels

LEMMA AgainType ==
  ASSUME TypeOK, NEW e \in End, Waiting(e), NEW w \in Wires, NEW addr, Again(e, w, addr)
  PROVE  /\ ControlTypeOK'
         /\ pc["server"]' = "reply" => pc["server"] = "reply"
         /\ connected' \in [End -> BOOLEAN]
<1>1. connected \in [End -> BOOLEAN]
  BY DEF TypeOK
<1>2. connected' \in [End -> BOOLEAN]
  BY <1>1, AgainCases
<1>3. CASE UNCHANGED <<pc, packet>>
  BY <1>2, <1>3, AgainCases DEF ControlTypeOK, TypeOK, Waiting, Wires
<1>4. CASE /\ pc' = [pc EXCEPT ![e] = IF pc[e] = "accept_close" /\ e = "server"
                                       THEN "prompt" ELSE "exited"]
           /\ packet' = [packet EXCEPT ![e] = NoPacket]
  <2> DEFINE label == IF pc[e] = "accept_close" /\ e = "server" THEN "prompt" ELSE "exited"
  <2>1. label \in Labels /\ label \notin LoopLabels /\ label # "reply"
    BY NotInLoop
  <2>2. wire' \in Wires /\ retry' \in [End -> 0 .. MAX_RETRY - 1]
    BY AgainCases
  <2> HIDE DEF label
  <2>3. pc' = [pc EXCEPT ![e] = label]
    BY <1>4 DEF label
  <2> QED BY <1>2, <1>4, <2>1, <2>2, <2>3, MoveType
<1> QED BY <1>3, <1>4, AgainCases

LEMMA ExitType ==
  ASSUME TypeOK, NEW e \in End, NEW label \in {"exited", "done"}, NEW w \in Wires,
         Exit(e, label, w)
  PROVE  /\ ControlTypeOK'
         /\ pc["server"]' = "reply" => pc["server"] = "reply"
<1>1. label \in Labels /\ label \notin LoopLabels /\ label # "reply"
  BY NotInLoop
<1>2. /\ pc' = [pc EXCEPT ![e] = label]
      /\ packet' = [packet EXCEPT ![e] = NoPacket]
      /\ wire' \in Wires
      /\ retry' \in [End -> 0 .. MAX_RETRY - 1]
  BY ExitCases
<1> QED BY <1>1, <1>2, MoveType

LEMMA LeaveLoopType ==
  ASSUME TypeOK, NEW e \in End, NEW w \in Wires,
         NEW label \in {"prompt", "ready", "receive", "reply", "closed"},
         LeaveLoop(e, label, w)
  PROVE  /\ ControlTypeOK'
         /\ label # "reply" \/ e # "server" =>
              (pc["server"]' = "reply" => pc["server"] = "reply")
<1>1. label \in Labels /\ label \notin LoopLabels
  BY NotInLoop
<1>2. wire' \in Wires
  BY LeaveLoopCases
<1> QED BY <1>1, <1>2, LeaveLoopCases, MoveType

LEMMA EnterLoopType ==
  ASSUME TypeOK, NEW e \in End, NEW w \in Wires, NEW label \in LoopLabels,
         NEW p \in Packet, NEW addr, EnterLoop(e, label, p, w, addr)
  PROVE  /\ ControlTypeOK'
         /\ pc["server"]' = "reply" => pc["server"] = "reply"
<1>1. label \in Labels /\ label # "reply"
  BY DEF Labels, LoopLabels
<1>2. /\ pc' = [pc EXCEPT ![e] = label]
      /\ packet' = [packet EXCEPT ![e] = p]
      /\ wire' \in Wires
      /\ retry' \in [End -> 0 .. MAX_RETRY - 1]
  BY TransmitType, RetryZero DEF EnterLoop, Goto
<1> QED BY <1>1, <1>2, MoveType

\* The rest of TypeOK.
DataTypeOK ==
  /\ connected \in [End -> BOOLEAN]
  /\ src_seq_no \in [End -> SeqNo]
  /\ dest_seq_no \in [End -> SeqNo]
  /\ destport \in [End -> PortNo]
  /\ dest_addr \in [End -> Addrs]
  /\ times \in Nat
  /\ conns \in Nat
  /\ faults \in Nat
  /\ log \in [End -> Seq(Message)]
  /\ acked \in [End -> Nat]
  /\ delivered \in [End -> Seq(Nat)]
  /\ wrapped \in BOOLEAN

LEMMA TypeParts ==
  TypeOK <=> /\ ControlTypeOK
             /\ DataTypeOK
             /\ pc["server"] = "reply" => delivered["server"] # <<>>
BY DEF TypeOK, ControlTypeOK, DataTypeOK

LEMMA InitType == Init => TypeOK
<1> SUFFICES ASSUME Init PROVE TypeOK
  OBVIOUS
<1>1. /\ MAX_RETRY \in Nat \ {0} /\ ISN \in [End -> SeqNo \ {0}] /\ SeqMod \in Nat \ {0, 1}
  BY RltpConstants
<1>2. 0 \in SeqNo /\ 0 \in 0 .. MAX_RETRY - 1
  BY <1>1 DEF SeqNo
<1>3. 0 \in PortNo
  BY SMT DEF PortNo
<1>4. ControlTypeOK
  BY <1>2, EmptySeq DEF Init, ControlTypeOK, Waiting, LoopLabels, Labels
<1>5. DataTypeOK
  BY <1>1, <1>2, <1>3, EmptySeq DEF Init, DataTypeOK, Addrs
<1>6. pc["server"] # "reply"
  BY DEF Init, End
<1> QED BY <1>4, <1>5, <1>6, TypeParts

LEMMA TypePartsNext ==
  ASSUME ControlTypeOK', DataTypeOK',
         pc'["server"] = "reply" => delivered'["server"] # <<>>
  PROVE  TypeOK'
BY DEF TypeOK, ControlTypeOK, DataTypeOK

\* A step that changes neither what was delivered nor the pc to "reply".
LEMMA TypePartsSame ==
  ASSUME TypeOK, ControlTypeOK', DataTypeOK',
         pc'["server"] = "reply" => pc["server"] = "reply", UNCHANGED delivered
  PROVE  TypeOK'
BY TypePartsNext DEF TypeOK

LEMMA ConnectType ==
  ASSUME TypeOK, Connect
  PROVE  TypeOK'
<1> DEFINE p == SynPacket("client")
<1>1. /\ Port["server"] \in PortNo /\ Addr["server"] \in Addrs
      /\ SeqMod \in Nat \ {0, 1}
  BY RltpConstants DEF Addrs, End
<1>2. src_seq_no["client"] \in SeqNo /\ 0 \in SeqNo
  BY <1>1 DEF TypeOK, End, SeqNo
<1>3. p \in Packet
  BY <1>1, <1>2, HeaderType DEF SynPacket, End, Types
<1>4. wire \in Wires /\ "connect" \in LoopLabels /\ "client" \in End
  BY DEF TypeOK, Wires, LoopLabels, End
<1>5. EnterLoop("client", "connect", p, wire, Addr["server"])
  BY DEF Connect
<1>6. ControlTypeOK' /\ (pc["server"]' = "reply" => pc["server"] = "reply")
  BY <1>3, <1>4, <1>5, EnterLoopType
<1>7. DataTypeOK'
  <2>1. /\ destport' = [destport EXCEPT !["client"] = Port["server"]]
        /\ dest_addr' = [dest_addr EXCEPT !["client"] = Addr["server"]]
        /\ conns' = conns + 1
        /\ UNCHANGED <<connected, src_seq_no, dest_seq_no, times, faults, history>>
    BY DEF Connect
  <2>2. DataTypeOK
    BY TypeParts
  <2>3. destport' \in [End -> PortNo]
    BY <1>1, <2>1, <2>2 DEF DataTypeOK
  <2>4. dest_addr' \in [End -> Addrs]
    BY <1>1, <2>1, <2>2 DEF DataTypeOK
  <2>5. conns' \in Nat
    BY <2>1, <2>2 DEF DataTypeOK
  <2> QED BY <2>1, <2>2, <2>3, <2>4, <2>5 DEF DataTypeOK, history
<1> QED BY <1>6, <1>7, TypePartsSame DEF Connect, history

LEMMA CloseType ==
  ASSUME TypeOK, Close
  PROVE  TypeOK'
<1> DEFINE p == AckPacket("client", "FIN", dest_addr["client"], dest_seq_no["client"])
<1>1. p \in Packet
  BY AckPacketType DEF TypeOK, End, Types
<1>2. wire \in Wires /\ "close" \in LoopLabels /\ "client" \in End
  BY DEF TypeOK, Wires, LoopLabels, End
<1>3. EnterLoop("client", "close", p, wire, dest_addr["client"])
  BY DEF Close
<1>4. ControlTypeOK' /\ (pc["server"]' = "reply" => pc["server"] = "reply")
  BY <1>1, <1>2, <1>3, EnterLoopType
<1>5. DataTypeOK'
  BY DEF Close, TypeOK, DataTypeOK, history, proto
<1> QED BY <1>4, <1>5, TypePartsSame DEF Close, history

LEMMA PromptType ==
  ASSUME TypeOK, NEW y \in BOOLEAN, Prompt(y)
  PROVE  TypeOK'
<1>1. wire \in Wires /\ "server" \in End
  BY DEF TypeOK, Wires, End
<1>2. ControlTypeOK' /\ (pc["server"]' = "reply" => pc["server"] = "reply")
  <2>1. CASE y
    BY <2>1, <1>1, ExitType DEF Prompt
  <2>2. CASE ~y
    <3>1. pc' = [pc EXCEPT !["server"] = "accept"] /\ UNCHANGED <<retry, packet, wire>>
      BY <2>2 DEF Prompt, Goto
    <3>2. packet' = [packet EXCEPT !["server"] = packet["server"]]
          /\ packet["server"] \in Packet \cup {NoPacket}
      BY <3>1, <1>1 DEF TypeOK
    <3>3. "accept" \in Labels /\ "accept" \notin LoopLabels
      BY DEF Labels, LoopLabels
    <3>4. retry' \in [End -> 0 .. MAX_RETRY - 1] /\ wire' \in Wires
      BY <3>1, <1>1 DEF TypeOK
    <3> QED BY <1>1, <3>1, <3>2, <3>3, <3>4, MoveType
  <2> QED BY <2>1, <2>2
<1>3. DataTypeOK'
  BY DEF Prompt, TypeOK, DataTypeOK, history, proto
<1> QED BY <1>2, <1>3, TypePartsSame DEF Prompt, history

LEMMA TimeoutType ==
  ASSUME TypeOK, NEW e \in End, Timeout(e)
  PROVE  TypeOK'
<1>1. wire \in Wires /\ Waiting(e) /\ Again(e, wire, dest_addr[e])
  BY DEF Timeout, TypeOK, Wires
<1>2. /\ ControlTypeOK' /\ (pc["server"]' = "reply" => pc["server"] = "reply")
      /\ connected' \in [End -> BOOLEAN]
  BY <1>1, AgainType
<1>3. DataTypeOK'
  BY <1>2 DEF Timeout, TypeOK, DataTypeOK, history
<1> QED BY <1>2, <1>3, TypePartsSame DEF Timeout, history

\* The fields of a packet.
LEMMA PacketFields ==
  ASSUME NEW p \in Packet
  PROVE  /\ p.source_port \in PortNo /\ p.dest_port \in PortNo
         /\ p.seq_no \in SeqNo /\ p.ack_no \in SeqNo
         /\ p.data \in Nat /\ p.databytes \in Nat
         /\ p.saddr \in Addrs /\ p.daddr \in Addrs
BY DEF Packet

\* After a failed try, or any move that is not a reply, the rest is data.
LEMMA ConnectRecvType ==
  ASSUME TypeOK, NEW i \in 1 .. Len(wire["client"]), ConnectRecv(i)
  PROVE  TypeOK'
<1> DEFINE e == "client"
           p == wire[e][i]
           w == Left(e, i)
           seq == IF SamePort(p.source_port, destport[e]) THEN p.seq_no ELSE dest_seq_no[e]
           q == AckPacket(e, "ACK", p.saddr, seq)
<1>1. e \in End /\ Waiting(e) /\ Recv(e, i)
  BY DEF ConnectRecv, End, Waiting, LoopLabels
<1>2. w \in Wires /\ p \in Packet /\ dest_addr' \in [End -> Addrs] /\ faults' \in Nat
  BY <1>1, RecvCases
<1>3. seq \in SeqNo /\ p.saddr \in Addrs
  BY <1>1, <1>2, PacketFields DEF TypeOK
<1>4. q \in Packet
  BY <1>1, <1>3, AckPacketType DEF Types
<1>5. UNCHANGED <<src_seq_no, destport, times, conns, history>>
  BY DEF ConnectRecv
<1> HIDE DEF e, p, w, seq, q
<1>6. /\ ControlTypeOK' /\ (pc["server"]' = "reply" => pc["server"] = "reply")
      /\ connected' \in [End -> BOOLEAN] /\ dest_seq_no' \in [End -> SeqNo]
  <2>1. CASE ~SynAckAccepted(e, p)
    <3>1. Again(e, w, p.saddr) /\ UNCHANGED dest_seq_no
      BY <2>1 DEF ConnectRecv, e, p, w
    <3> QED BY <3>1, <1>1, <1>2, AgainType DEF TypeOK
  <2>2. CASE SynAckAccepted(e, p) /\ seq = 0
    <3>1. Exit(e, "exited", w) /\ UNCHANGED connected
          /\ dest_seq_no' = [dest_seq_no EXCEPT ![e] = seq]
      BY <2>2 DEF ConnectRecv, e, p, w, seq
    <3> QED BY <3>1, <1>1, <1>2, <1>3, ExitType DEF TypeOK
  <2>3. CASE SynAckAccepted(e, p) /\ seq # 0
    <3>1. /\ LeaveLoop(e, "ready", Transmit(w, q, p.saddr))
          /\ connected' = [connected EXCEPT ![e] = TRUE]
          /\ dest_seq_no' = [dest_seq_no EXCEPT ![e] = seq]
      BY <2>3 DEF ConnectRecv, e, p, w, seq, q
    <3>2. Transmit(w, q, p.saddr) \in Wires
      BY <1>2, <1>4, TransmitType
    <3>3. ControlTypeOK' /\ (pc["server"]' = "reply" => pc["server"] = "reply")
      BY <3>1, <3>2, <1>1, LeaveLoopType
    <3> QED BY <3>1, <3>3, <1>1, <1>3 DEF TypeOK
  <2> QED BY <2>1, <2>2, <2>3
<1>7. DataTypeOK'
  BY <1>2, <1>5, <1>6 DEF TypeOK, DataTypeOK, history
<1> QED BY <1>5, <1>6, <1>7, TypePartsSame DEF history

LEMMA AcceptConnectType ==
  ASSUME TypeOK, NEW i \in 1 .. Len(wire["server"]), AcceptConnect(i)
  PROVE  TypeOK'
<1> DEFINE e == "server"
           p == wire[e][i]
           w == Left(e, i)
           q == Header(e, "SYN_ACK", p.source_port, p.saddr, src_seq_no[e], p.seq_no)
<1>1. e \in End /\ Recv(e, i)
  BY DEF AcceptConnect, End
<1>2. w \in Wires /\ p \in Packet /\ dest_addr' \in [End -> Addrs] /\ faults' \in Nat
  BY <1>1, RecvCases
<1>3. q \in Packet
  BY <1>1, <1>2, PacketFields, HeaderType DEF Types, TypeOK
<1>4. UNCHANGED <<connected, src_seq_no, times, conns, history>>
  BY DEF AcceptConnect
<1> HIDE DEF e, p, w, q
<1>5. /\ ControlTypeOK' /\ (pc["server"]' = "reply" => pc["server"] = "reply")
      /\ destport' \in [End -> PortNo] /\ dest_seq_no' \in [End -> SeqNo]
  <2>1. CASE SynAccepted(e, p)
    <3>1. /\ EnterLoop(e, "accept_connect", q, w, p.saddr)
          /\ destport' = [destport EXCEPT ![e] = p.source_port]
          /\ dest_seq_no' = [dest_seq_no EXCEPT ![e] = p.seq_no]
      BY <2>1 DEF AcceptConnect, e, p, w, q
    <3>2. "accept_connect" \in LoopLabels
      BY DEF LoopLabels
    <3>3. ControlTypeOK' /\ (pc["server"]' = "reply" => pc["server"] = "reply")
      BY <3>1, <3>2, <1>1, <1>2, <1>3, EnterLoopType
    <3> QED BY <3>1, <3>3, <1>1, <1>2, PacketFields DEF TypeOK
  <2>2. CASE ~SynAccepted(e, p)
    <3>1. wire' = w /\ UNCHANGED <<pc, retry, packet, destport, dest_seq_no>>
      BY <2>2 DEF AcceptConnect, e, p, w
    <3> QED BY <3>1, <1>2 DEF TypeOK, ControlTypeOK, Wires, Waiting
  <2> QED BY <2>1, <2>2
<1>6. DataTypeOK'
  BY <1>2, <1>4, <1>5 DEF TypeOK, DataTypeOK, history
<1> QED BY <1>4, <1>5, <1>6, TypePartsSame DEF history

LEMMA AcceptConnectRecvType ==
  ASSUME TypeOK, NEW i \in 1 .. Len(wire["server"]), AcceptConnectRecv(i)
  PROVE  TypeOK'
<1> DEFINE e == "server"
           p == wire[e][i]
           w == Left(e, i)
<1>1. e \in End /\ Waiting(e) /\ Recv(e, i)
  BY DEF AcceptConnectRecv, End, Waiting, LoopLabels
<1>2. w \in Wires /\ dest_addr' \in [End -> Addrs] /\ faults' \in Nat
  BY <1>1, RecvCases
<1>3. UNCHANGED <<src_seq_no, dest_seq_no, destport, times, conns, history>>
  BY DEF AcceptConnectRecv
<1> HIDE DEF e, p, w
<1>4. /\ ControlTypeOK' /\ (pc["server"]' = "reply" => pc["server"] = "reply")
      /\ connected' \in [End -> BOOLEAN]
  <2>1. CASE AckAccepted(e, p, "ACK")
    <3>1. LeaveLoop(e, "receive", w) /\ connected' = [connected EXCEPT ![e] = TRUE]
      BY <2>1 DEF AcceptConnectRecv, e, p, w
    <3>2. ControlTypeOK' /\ (pc["server"]' = "reply" => pc["server"] = "reply")
      BY <3>1, <1>1, <1>2, LeaveLoopType
    <3> QED BY <3>1, <3>2, <1>1 DEF TypeOK
  <2>2. CASE ~AckAccepted(e, p, "ACK")
    <3>1. Again(e, w, p.saddr)
      BY <2>2 DEF AcceptConnectRecv, e, p, w
    <3> QED BY <3>1, <1>1, <1>2, AgainType
  <2> QED BY <2>1, <2>2
<1>5. DataTypeOK'
  BY <1>2, <1>3, <1>4 DEF TypeOK, DataTypeOK, history
<1> QED BY <1>3, <1>4, <1>5, TypePartsSame DEF history

LEMMA PlusType ==
  ASSUME NEW x \in SeqNo, NEW y \in 1 .. SeqMod - 1
  PROVE  Plus(x, y) \in SeqNo
<1>1. SeqMod \in Nat \ {0, 1}
  BY RltpConstants
<1> QED BY <1>1 DEF Plus, SeqNo

LEMMA SendMessageType ==
  ASSUME TypeOK, NEW e \in End, NEW len \in Lens, NEW data \in Nat,
         SendMessage(e, len, data), UNCHANGED times
  PROVE  TypeOK'
<1> DEFINE seq == Plus(src_seq_no[e], len)
           a == AckPacket(e, "DATA", dest_addr[e], dest_seq_no[e])
           p == [a EXCEPT !.seq_no = seq, !.databytes = len, !.data = data]
           m == [seq_no |-> seq, databytes |-> len, data |-> data]
<1>1. Lens \subseteq 1 .. SeqMod - 1 /\ SeqMod \in Nat \ {0, 1}
  BY RltpConstants
<1>2. len \in Nat
  BY <1>1
<1>3. seq \in SeqNo
  BY <1>1, PlusType DEF TypeOK
<1>4. a \in Packet
  BY AckPacketType DEF TypeOK, Types
<1> HIDE DEF seq, a
<1>5. p \in Packet /\ m \in Message
  BY <1>2, <1>3, <1>4 DEF Packet, Message
<1>6. /\ src_seq_no' = [src_seq_no EXCEPT ![e] = seq]
      /\ EnterLoop(e, "send", p, wire, dest_addr[e])
      /\ log' = [log EXCEPT ![e] = Append(@, m)]
      /\ wrapped' = (wrapped \/ src_seq_no[e] + len >= SeqMod)
      /\ UNCHANGED <<connected, dest_seq_no, destport, dest_addr, conns,
                     faults, acked, delivered>>
  BY DEF SendMessage, seq, a
<1> HIDE DEF p, m
<1>7. wire \in Wires /\ "send" \in LoopLabels
  BY DEF TypeOK, Wires, LoopLabels
<1>8. ControlTypeOK' /\ (pc["server"]' = "reply" => pc["server"] = "reply")
  BY <1>5, <1>6, <1>7, EnterLoopType
<1>9. DataTypeOK'
  <2>1. DataTypeOK
    BY TypeParts
  <2>2. Append(log[e], m) \in Seq(Message)
    BY <1>5, <2>1, AppendProperties DEF DataTypeOK
  <2>3. log' \in [End -> Seq(Message)]
    BY <1>6, <2>1, <2>2 DEF DataTypeOK
  <2>4. src_seq_no' \in [End -> SeqNo]
    BY <1>3, <1>6, <2>1 DEF DataTypeOK
  <2>5. wrapped' \in BOOLEAN
    BY <1>6, <2>1, Zenon DEF DataTypeOK
  <2> QED BY <1>6, <2>1, <2>3, <2>4, <2>5 DEF DataTypeOK
<1> QED BY <1>6, <1>8, <1>9, TypePartsSame

LEMMA ClientSendType ==
  ASSUME TypeOK, NEW len \in Lens, ClientSend(len)
  PROVE  TypeOK'
<1>1. times \in Nat /\ "client" \in End
  BY DEF TypeOK, End
<1>2. SendMessage("client", len, times) /\ UNCHANGED times
  BY DEF ClientSend, SendMessage
<1> QED BY <1>1, <1>2, SendMessageType

LEMMA ServerReplyType ==
  ASSUME TypeOK, NEW len \in Lens, ServerReply(len)
  PROVE  TypeOK'
<1> DEFINE d == delivered["server"]
<1>1. "server" \in End /\ pc["server"] = "reply"
  BY DEF ServerReply, End
<1>2. d \in Seq(Nat) /\ d # <<>>
  BY <1>1 DEF TypeOK
<1>3. Len(d) \in 1 .. Len(d)
  BY <1>2, LenProperties, EmptySeq
<1>4. d[Len(d)] + 2 \in Nat
  BY <1>2, <1>3, ElementOfSeq
<1>5. SendMessage("server", len, d[Len(d)] + 2) /\ UNCHANGED times
  BY DEF ServerReply, SendMessage
<1> QED BY <1>1, <1>4, <1>5, SendMessageType

LEMMA SendRecvType ==
  ASSUME TypeOK, NEW e \in End, NEW i \in 1 .. Len(wire[e]), SendRecv(e, i)
  PROVE  TypeOK'
<1> DEFINE p == wire[e][i]
           w == Left(e, i)
<1>1. Waiting(e) /\ Recv(e, i)
  BY DEF SendRecv, Waiting, LoopLabels
<1>2. w \in Wires /\ dest_addr' \in [End -> Addrs] /\ faults' \in Nat
  BY <1>1, RecvCases
<1>3. UNCHANGED <<src_seq_no, dest_seq_no, destport, times, conns, log, delivered, wrapped>>
  BY DEF SendRecv
<1> HIDE DEF p, w
<1>4. /\ ControlTypeOK' /\ (pc["server"]' = "reply" => pc["server"] = "reply")
      /\ connected' \in [End -> BOOLEAN] /\ acked' \in [End -> Nat]
  <2>1. CASE AckAccepted(e, p, "ACK")
    <3>1. /\ LeaveLoop(e, "receive", w)
          /\ acked' = [acked EXCEPT ![e] = @ + 1]
          /\ UNCHANGED connected
      BY <2>1 DEF SendRecv, p, w
    <3>2. ControlTypeOK' /\ (pc["server"]' = "reply" => pc["server"] = "reply")
      BY <3>1, <1>2, LeaveLoopType
    <3> QED BY <3>1, <3>2 DEF TypeOK
  <2>2. CASE ~AckAccepted(e, p, "ACK")
    <3>1. Again(e, w, p.saddr) /\ UNCHANGED acked
      BY <2>2 DEF SendRecv, p, w
    <3> QED BY <3>1, <1>1, <1>2, AgainType DEF TypeOK
  <2> QED BY <2>1, <2>2
<1>5. DataTypeOK'
  BY <1>2, <1>3, <1>4 DEF TypeOK, DataTypeOK
<1> QED BY <1>3, <1>4, <1>5, TypePartsSame

LEMMA ReceiveDataType ==
  ASSUME TypeOK, NEW e \in End, NEW i \in 1 .. Len(wire[e]), ReceiveData(e, i)
  PROVE  TypeOK'
<1> DEFINE p == wire[e][i]
           w == Left(e, i)
           q == AckPacket(e, "ACK", p.saddr, p.seq_no)
           t == Transmit(w, q, p.saddr)
           label == IF e = "client" THEN "ready" ELSE "reply"
<1>1. Recv(e, i)
  BY DEF ReceiveData
<1>2. w \in Wires /\ p \in Packet /\ dest_addr' \in [End -> Addrs] /\ faults' \in Nat
  BY <1>1, RecvCases
<1>3. p.seq_no \in SeqNo /\ p.saddr \in Addrs /\ p.data \in Nat
  BY <1>2, PacketFields
<1>4. q \in Packet
  BY <1>3, AckPacketType DEF Types
<1>5. /\ UNCHANGED <<connected, src_seq_no, destport, conns, log, acked, wrapped>>
      /\ dest_seq_no' = [dest_seq_no EXCEPT ![e] = p.seq_no]
  BY DEF ReceiveData
<1>6. t \in Wires
  BY <1>2, <1>4, TransmitType
<1>7. DataTypeOK
  BY TypeParts
<1>8. dest_seq_no' \in [End -> SeqNo]
  BY <1>3, <1>5, <1>7 DEF DataTypeOK
<1>9. CASE p.seq_no = 0
  <2>1. Exit(e, "exited", w) /\ UNCHANGED <<times, delivered>>
    BY <1>9 DEF ReceiveData
  <2>2. ControlTypeOK' /\ (pc["server"]' = "reply" => pc["server"] = "reply")
    BY <2>1, <1>2, ExitType
  <2>3. DataTypeOK'
    BY <1>2, <1>5, <1>7, <1>8, <2>1 DEF DataTypeOK
  <2> QED BY <2>1, <2>2, <2>3, TypePartsSame
<1>10. CASE p.seq_no # 0
  <2>1. /\ LeaveLoop(e, label, t)
        /\ delivered' = [delivered EXCEPT ![e] = Append(@, p.data)]
        /\ times' = IF e = "client" THEN times + 1 ELSE times
    BY <1>10 DEF ReceiveData
  <2>2. /\ ControlTypeOK'
        /\ label # "reply" \/ e # "server" =>
             (pc["server"]' = "reply" => pc["server"] = "reply")
    <3>1. label \in {"prompt", "ready", "receive", "reply", "closed"}
      OBVIOUS
    <3> HIDE DEF label, t
    <3> QED BY <2>1, <3>1, <1>6, LeaveLoopType
  <2>3. /\ delivered' \in [End -> Seq(Nat)]
        /\ Append(delivered[e], p.data) # <<>>
    <3>1. delivered \in [End -> Seq(Nat)]
      BY <1>7 DEF DataTypeOK
    <3>2. /\ Append(delivered[e], p.data) \in Seq(Nat)
          /\ Append(delivered[e], p.data) # <<>>
      BY <3>1, <1>3, AppendProperties, EmptySeq
    <3> QED BY <3>1, <3>2, <2>1
  <2>4. times' \in Nat
    BY <2>1, <1>7 DEF DataTypeOK
  <2>5. DataTypeOK'
    BY <1>2, <1>5, <1>7, <1>8, <2>3, <2>4 DEF DataTypeOK
  <2>6. pc'["server"] = "reply" => delivered'["server"] # <<>>
    <3>1. CASE e = "server"
      <4>1. delivered'["server"] = Append(delivered[e], p.data)
        BY <3>1, <2>1, <1>7 DEF DataTypeOK
      <4> QED BY <4>1, <2>3
    <3>2. CASE e # "server"
      <4>1. delivered'["server"] = delivered["server"]
        BY <3>2, <2>1, <1>7 DEF DataTypeOK, End
      <4> QED BY <4>1, <3>2, <2>2 DEF TypeOK
    <3> QED BY <3>1, <3>2
  <2> QED BY <2>2, <2>5, <2>6, TypePartsNext
<1> QED BY <1>9, <1>10

LEMMA ReceiveFinType ==
  ASSUME TypeOK, NEW e \in End, NEW i \in 1 .. Len(wire[e]), ReceiveFin(e, i)
  PROVE  TypeOK'
<1> DEFINE p == wire[e][i]
           w == Left(e, i)
           q == AckPacket(e, "FIN_ACK", p.saddr, dest_seq_no[e])
<1>1. Recv(e, i) /\ EnterLoop(e, "accept_close", q, w, p.saddr)
  BY DEF ReceiveFin
<1>2. w \in Wires /\ p \in Packet /\ dest_addr' \in [End -> Addrs] /\ faults' \in Nat
  BY <1>1, RecvCases
<1>3. q \in Packet
  BY <1>2, PacketFields, AckPacketType DEF Types, TypeOK
<1>4. UNCHANGED <<proto, times, conns, history>>
  BY DEF ReceiveFin
<1>5. "accept_close" \in LoopLabels
  BY DEF LoopLabels
<1>6. ControlTypeOK' /\ (pc["server"]' = "reply" => pc["server"] = "reply")
  BY <1>1, <1>2, <1>3, <1>5, EnterLoopType
<1>7. DataTypeOK'
  BY <1>2, <1>4 DEF TypeOK, DataTypeOK, history, proto
<1> QED BY <1>4, <1>6, <1>7, TypePartsSame DEF history

LEMMA ReceiveOtherType ==
  ASSUME TypeOK, NEW e \in End, NEW i \in 1 .. Len(wire[e]), ReceiveOther(e, i)
  PROVE  TypeOK'
<1> DEFINE w == Left(e, i)
<1>1. Recv(e, i) /\ Exit(e, "exited", w)
  BY DEF ReceiveOther
<1>2. w \in Wires /\ dest_addr' \in [End -> Addrs] /\ faults' \in Nat
  BY <1>1, RecvCases
<1>3. UNCHANGED <<proto, times, conns, history>>
  BY DEF ReceiveOther
<1>4. ControlTypeOK' /\ (pc["server"]' = "reply" => pc["server"] = "reply")
  BY <1>1, <1>2, ExitType
<1>5. DataTypeOK'
  BY <1>2, <1>3 DEF TypeOK, DataTypeOK, history, proto
<1> QED BY <1>3, <1>4, <1>5, TypePartsSame DEF history

LEMMA CloseRecvType ==
  ASSUME TypeOK, NEW i \in 1 .. Len(wire["client"]), CloseRecv(i)
  PROVE  TypeOK'
<1> DEFINE e == "client"
           p == wire[e][i]
           w == Left(e, i)
           q == AckPacket(e, "ACK", p.saddr, dest_seq_no[e])
           t == Transmit(w, q, p.saddr)
<1>1. e \in End /\ Waiting(e) /\ Recv(e, i)
  BY DEF CloseRecv, End, Waiting, LoopLabels
<1>2. w \in Wires /\ p \in Packet /\ dest_addr' \in [End -> Addrs] /\ faults' \in Nat
  BY <1>1, RecvCases
<1>3. q \in Packet
  BY <1>1, <1>2, PacketFields, AckPacketType DEF Types, TypeOK
<1>4. t \in Wires
  BY <1>2, <1>3, TransmitType
<1>5. UNCHANGED <<src_seq_no, dest_seq_no, destport, times, conns, history>>
  BY DEF CloseRecv
<1> HIDE DEF e, p, w, q, t
<1>6. /\ ControlTypeOK' /\ (pc["server"]' = "reply" => pc["server"] = "reply")
      /\ connected' \in [End -> BOOLEAN]
  <2>1. CASE AckAccepted(e, p, "FIN_ACK")
    <3>1. LeaveLoop(e, "closed", t) /\ connected' = [connected EXCEPT ![e] = FALSE]
      BY <2>1 DEF CloseRecv, e, p, w, q, t
    <3>2. ControlTypeOK' /\ (pc["server"]' = "reply" => pc["server"] = "reply")
      BY <3>1, <1>1, <1>4, LeaveLoopType
    <3> QED BY <3>1, <3>2, <1>1 DEF TypeOK
  <2>2. CASE ~AckAccepted(e, p, "FIN_ACK")
    <3>1. Again(e, w, p.saddr)
      BY <2>2 DEF CloseRecv, e, p, w
    <3> QED BY <3>1, <1>1, <1>2, AgainType
  <2> QED BY <2>1, <2>2
<1>7. DataTypeOK'
  BY <1>2, <1>5, <1>6 DEF TypeOK, DataTypeOK, history
<1> QED BY <1>5, <1>6, <1>7, TypePartsSame DEF history

LEMMA AcceptCloseRecvType ==
  ASSUME TypeOK, NEW e \in End, NEW i \in 1 .. Len(wire[e]), AcceptCloseRecv(e, i)
  PROVE  TypeOK'
<1> DEFINE p == wire[e][i]
           w == Left(e, i)
<1>1. Waiting(e) /\ Recv(e, i)
  BY DEF AcceptCloseRecv, Waiting, LoopLabels
<1>2. w \in Wires /\ dest_addr' \in [End -> Addrs] /\ faults' \in Nat
  BY <1>1, RecvCases
<1>3. UNCHANGED <<src_seq_no, dest_seq_no, destport, times, conns, history>>
  BY DEF AcceptCloseRecv
<1> HIDE DEF p, w
<1>4. /\ ControlTypeOK' /\ (pc["server"]' = "reply" => pc["server"] = "reply")
      /\ connected' \in [End -> BOOLEAN]
  <2>1. CASE AckAccepted(e, p, "ACK")
    <3>1. AcceptCloseReturns(e, w)
      BY <2>1 DEF AcceptCloseRecv, p, w
    <3>2. connected' = [connected EXCEPT ![e] = FALSE]
      BY <3>1 DEF AcceptCloseReturns
    <3>3. LeaveLoop(e, "prompt", w) \/ Exit(e, "exited", w)
      BY <3>1 DEF AcceptCloseReturns
    <3>4. ControlTypeOK' /\ (pc["server"]' = "reply" => pc["server"] = "reply")
      BY <3>3, <1>2, LeaveLoopType, ExitType
    <3> QED BY <3>2, <3>4 DEF TypeOK
  <2>2. CASE ~AckAccepted(e, p, "ACK")
    <3>1. Again(e, w, p.saddr)
      BY <2>2 DEF AcceptCloseRecv, p, w
    <3> QED BY <3>1, <1>1, <1>2, AgainType
  <2> QED BY <2>1, <2>2
<1>5. DataTypeOK'
  BY <1>2, <1>3, <1>4 DEF TypeOK, DataTypeOK, history
<1> QED BY <1>3, <1>4, <1>5, TypePartsSame DEF history

LEMMA FaultType ==
  ASSUME TypeOK, NEW w \in Wires, Fault(w)
  PROVE  TypeOK'
<1>1. /\ faults' = faults + 1 /\ wire' = w
      /\ UNCHANGED <<pc, retry, packet, proto, dest_addr, times, conns, history>>
  BY DEF Fault
<1>2. ControlTypeOK'
  BY <1>1 DEF TypeOK, ControlTypeOK, Wires, Waiting
<1>3. DataTypeOK'
  BY <1>1 DEF TypeOK, DataTypeOK, proto, history
<1> QED BY <1>1, <1>2, <1>3, TypePartsSame DEF history

LEMMA StraySynType == StraySynPacket \in Packet
<1>1. /\ OtherPort \in PortNo /\ Port["server"] \in PortNo /\ SeqMod \in Nat \ {0, 1}
      /\ OtherAddr \in Addrs /\ Addr["server"] \in Addrs
  BY RltpConstants DEF Addrs, End
<1>2. 0 \in SeqNo /\ 1 \in SeqNo /\ 0 \in Nat /\ TRUE \in BOOLEAN /\ "SYN" \in Types
  BY <1>1 DEF SeqNo, Types
<1> QED BY <1>1, <1>2 DEF StraySynPacket, Packet

LEMMA NetworkType ==
  ASSUME TypeOK, Network
  PROVE  TypeOK'
<1>1. wire \in Wires
  BY DEF TypeOK, Wires
<1>2. ASSUME NEW e \in End, NEW i \in 1 .. Len(wire[e]), Lose(e, i)
      PROVE  TypeOK'
  BY <1>2, RecvCases, FaultType DEF Lose
<1>3. ASSUME NEW e \in End, NEW i \in 1 .. Len(wire[e]), Duplicate(e, i)
      PROVE  TypeOK'
  <2> DEFINE w == [wire EXCEPT ![e] = Append(@, @[i])]
  <2>1. wire[e] \in Seq(Packet) /\ wire[e][i] \in Packet
    BY RecvCases DEF TypeOK
  <2>2. Append(wire[e], wire[e][i]) \in Seq(Packet)
    BY <2>1, AppendProperties
  <2>3. w \in Wires
    BY <1>1, <2>2 DEF Wires
  <2>4. Fault(w)
    BY <1>3 DEF Duplicate
  <2> QED BY <2>3, <2>4, FaultType
<1>4. ASSUME NEW e \in End, NEW i \in 1 .. Len(wire[e]), Corrupt(e, i)
      PROVE  TypeOK'
  <2> DEFINE w == [wire EXCEPT ![e][i].valid = FALSE]
             s == [wire[e] EXCEPT ![i] = [wire[e][i] EXCEPT !.valid = FALSE]]
  <2>1. wire[e] \in Seq(Packet) /\ wire[e][i] \in Packet
    BY RecvCases DEF TypeOK
  <2>2. [wire[e][i] EXCEPT !.valid = FALSE] \in Packet
    BY <2>1 DEF Packet
  <2>3. s \in Seq(Packet)
    BY <2>1, <2>2, ExceptSeq
  <2>4. w = [wire EXCEPT ![e] = s]
    OBVIOUS
  <2>5. w \in Wires
    BY <1>1, <2>3, <2>4 DEF Wires
  <2>6. Fault(w)
    BY <1>4 DEF Corrupt
  <2> QED BY <2>5, <2>6, FaultType
<1>5. ASSUME StraySyn
      PROVE  TypeOK'
  BY <1>1, <1>5, StraySynType, TransmitType, FaultType DEF StraySyn
<1> QED BY <1>2, <1>3, <1>4, <1>5 DEF Network

LEMMA EndStepType ==
  ASSUME TypeOK, NEW e \in End, EndStep(e)
  PROVE  TypeOK'
BY TimeoutType, SendRecvType, AcceptCloseRecvType, ReceiveDataType, ReceiveFinType,
   ReceiveOtherType DEF EndStep

LEMMA TypeStep == TypeOK /\ [Next]_vars => TypeOK'
<1> SUFFICES ASSUME TypeOK, [Next]_vars
             PROVE  TypeOK'
  OBVIOUS
<1>1. CASE ClientStep
  BY <1>1, ConnectType, CloseType, ClientSendType, ConnectRecvType, CloseRecvType,
     EndStepType DEF ClientStep, End
<1>2. CASE ServerStep
  BY <1>2, ServerReplyType, PromptType, AcceptConnectType, AcceptConnectRecvType,
     EndStepType DEF ServerStep, End
<1>3. CASE Network
  BY <1>3, NetworkType
<1>4. CASE UNCHANGED vars
  BY <1>4 DEF TypeOK, Waiting, vars, proto, history
<1> QED BY <1>1, <1>2, <1>3, <1>4 DEF Next

\* Type correctness, for every value of the constants: among others no wait
\* loop ever counts past MAX_RETRY or resends from an empty packet buffer, and
\* the sequence numbers stay within their unsigned width.
THEOREM TypeCorrect == Spec => []TypeOK
<1>1. Init => TypeOK
  BY InitType
<1>2. TypeOK /\ [Next]_vars => TypeOK'
  BY TypeStep
<1> QED BY <1>1, <1>2, PTL DEF Spec

-----------------------------------------------------------------------------
(***************************************************************************)
(* A run without faults.  What is on its way is exactly what the two       *)
(* programs wait for: nothing else is ever read, and a wait ends with a    *)
(* packet.  JointInv says where the two ends are together and what is on   *)
(* the way to each.                                                        *)
(***************************************************************************)

\* Two hosts, ports that a short can hold, and sockets that hold an
\* acknowledgement and the packet sent after it.
TwoHosts ==
  /\ Addr["client"] # Addr["server"]
  /\ Port["client"] < 32768 /\ Port["server"] < 32768
  /\ QueueCap >= 2

\* What the server is to read: the acknowledgement it waits for, ...
Acks(p) == p.saddr = Addr["client"] /\ AckAccepted("server", p, "ACK")
Owed == {"accept_connect", "send", "accept_close"}

\* ... and what the client has asked for since.
Asks(p) ==
  /\ p.saddr = Addr["client"]
  /\ \/ pc["client"] = "send" /\ DataAccepted("server", p) /\ p.seq_no = src_seq_no["client"]
     \/ pc["client"] = "close" /\ FinAccepted("server", p)
     \/ /\ pc["client"] = "connect" /\ SynAccepted("server", p)
        /\ p.source_port = Port["client"] /\ p.seq_no = src_seq_no["client"]
Asking == {"send", "close", "connect"}

AtServer ==
  LET w == wire["server"] IN
  /\ pc["server"] \in Owed /\ pc["client"] \in Asking => \E a, r : w = <<a, r>> /\ Acks(a) /\ Asks(r)
  /\ pc["server"] \in Owed /\ pc["client"] \notin Asking => \E a : w = <<a>> /\ Acks(a)
  /\ pc["server"] \notin Owed /\ pc["client"] \in Asking => \E r : w = <<r>> /\ Asks(r)
  /\ pc["server"] \notin Owed /\ pc["client"] \notin Asking => w = <<>>

\* What the client is to read: the acknowledgement of its request, and the reply.
Replies(p) ==
  /\ p.saddr = Addr["server"]
  /\ DataAccepted("client", p) /\ p.seq_no = src_seq_no["server"]
Taken(p) == p.saddr = Addr["server"] /\ AckAccepted("client", p, "ACK")

AtClient ==
  LET w == wire["client"] IN
  /\ pc["client"] = "send" /\ pc["server"] = "send" => \E a, r : w = <<a, r>> /\ Taken(a) /\ Replies(r)
  /\ pc["client"] = "send" /\ pc["server"] = "reply" => \E a : w = <<a>> /\ Taken(a)
  /\ pc["client"] = "receive" /\ pc["server"] = "send" => \E r : w = <<r>> /\ Replies(r)
  /\ pc["client"] = "receive" /\ pc["server"] = "reply" => w = <<>>

\* Each end knows the port of the other; the numbers of the one that has nothing
\* on the way are known to the other.
Ported == destport["client"] = Port["server"] /\ destport["server"] = Port["client"]
Knows(e) == dest_seq_no[e] = src_seq_no[Peer(e)]

\* Where the two programs are together.
Greeting ==
  /\ pc["client"] = "connect" /\ pc["server"] = "accept_connect"
  /\ Ported /\ Knows("server") /\ wire["server"] = <<>>
  /\ \E p : /\ wire["client"] = <<p>> /\ p.saddr = Addr["server"]
            /\ SynAckAccepted("client", p)
            /\ p.source_port = Port["server"] /\ p.seq_no = src_seq_no["server"]

ClientsTurn ==
  /\ pc["client"] \in {"ready", "send", "close"}
  /\ pc["server"] \in {"accept_connect", "send", "receive"}
  /\ Ported /\ Knows("client") /\ (pc["client"] # "send" => Knows("server"))
  /\ dest_addr["client"] = Addr["server"]
  /\ wire["client"] = <<>> /\ AtServer

ServersTurn ==
  /\ pc["client"] \in {"send", "receive"} /\ pc["server"] \in {"reply", "send"}
  /\ Ported /\ Knows("server") /\ (pc["server"] = "reply" => Knows("client"))
  /\ dest_addr["server"] = Addr["client"]
  /\ wire["server"] = <<>> /\ AtClient

Closing ==
  /\ pc["client"] = "close" /\ pc["server"] = "accept_close"
  /\ Ported /\ Knows("client") /\ Knows("server")
  /\ wire["server"] = <<>>
  /\ \E p : wire["client"] = <<p>> /\ p.saddr = Addr["server"] /\ AckAccepted("client", p, "FIN_ACK")

Parted ==
  /\ pc["client"] \in {"closed", "connect"} /\ pc["server"] \in {"accept_close", "prompt", "accept"}
  /\ pc["client"] = "connect" =>
       destport["client"] = Port["server"] /\ dest_addr["client"] = Addr["server"]
  /\ wire["client"] = <<>> /\ AtServer

Alone ==
  /\ pc["client"] \in {"closed", "connect", "exited"} /\ pc["server"] = "done"
  /\ pc["client"] = "connect" => dest_addr["client"] = Addr["server"]
  /\ wire["client"] = <<>> /\ wire["server"] = <<>>

Joint == Greeting \/ ClientsTurn \/ ServersTurn \/ Closing \/ Parted \/ Alone
Smooth == faults = 0 /\ ~wrapped
JointInv == Smooth => Joint /\ \A e \in End : src_seq_no[e] # 0

LEMMA Pairs ==
  ASSUME NEW p, NEW q
  PROVE  /\ Append(<<>>, p) = <<p>> /\ Append(<<q>>, p) = <<q, p>>
         /\ Len(<<>>) = 0 /\ Len(<<q>>) = 1 /\ <<q>>[1] = q /\ <<q, p>>[1] = q
<1>1. Len(<<>>) = 0 /\ Len(<<q>>) = 1 /\ <<q>>[1] = q /\ <<q, p>>[1] = q
  BY EmptySeq
<1>2. Append(<<>>, p) = <<p>>
  BY EmptySeq
<1> PICK S : S = {q, p}
  OBVIOUS
<1>3. PICK u, v, w : w = <<q>> /\ u = Append(w, p) /\ v = <<q, p>>
  OBVIOUS
<1>4. w \in Seq(S) /\ p \in S /\ Len(w) = 1 /\ w[1] = q
  BY <1>1, <1>3
<1>5. u \in Seq(S) /\ Len(u) = 2 /\ u[1] = q /\ u[2] = p
  BY <1>3, <1>4, AppendProperties
<1>6. v \in Seq(S) /\ Len(v) = 2 /\ v[1] = q /\ v[2] = p
  BY <1>3
<1>7. \A i \in 1 .. Len(u) : u[i] = v[i]
  BY <1>5, <1>6
<1>8. u = v
  BY <1>5, <1>6, <1>7, SeqEqual
<1> QED
  BY <1>1, <1>2, <1>3, <1>8

LEMMA TwoEnds ==
  /\ End = {"client", "server"} /\ Peer("client") = "server" /\ Peer("server") = "client"
  /\ \A e \in End : Peer(e) \in End /\ Peer(e) # e
  BY DEF End, Peer

\* The packet that is read without a fault is the first.
LEMMA Took ==
  ASSUME TypeOK, NEW e \in End, NEW i \in 1 .. Len(wire[e]), Recv(e, i), Smooth, Smooth'
  PROVE  /\ i = 1 /\ dest_addr' = [dest_addr EXCEPT ![e] = wire[e][1].saddr]
         /\ \A p : wire[e] = <<p>> =>
              wire[e][1] = p /\ Left(e, i)[e] = <<>> /\ Left(e, i)[Peer(e)] = wire[Peer(e)]
         /\ \A p, q : wire[e] = <<p, q>> =>
              wire[e][1] = p /\ Left(e, i)[e] = <<q>> /\ Left(e, i)[Peer(e)] = wire[Peer(e)]
<1>1. wire \in [End -> Seq(Packet)] /\ Len(wire[e]) \in Nat
  BY LenProperties DEF TypeOK
<1>2. i = 1
  BY <1>1 DEF Recv, Smooth
<1>3. Left(e, i)[e] = RemoveAt(wire[e], 1) /\ Left(e, i)[Peer(e)] = wire[Peer(e)]
  BY <1>1, <1>2, TwoEnds DEF Left
<1>4. ASSUME NEW p PROVE RemoveAt(<<p>>, 1) = <<>>
  BY DEF RemoveAt
<1>5. ASSUME NEW p, NEW q PROVE RemoveAt(<<p, q>>, 1) = <<q>>
  BY DEF RemoveAt
<1>6. dest_addr' = [dest_addr EXCEPT ![e] = wire[e][1].saddr]
  BY <1>2 DEF Recv
<1>7. ASSUME NEW p, wire[e] = <<p>>
      PROVE  wire[e][1] = p /\ Left(e, i)[e] = <<>> /\ Left(e, i)[Peer(e)] = wire[Peer(e)]
  <2>1. <<p>>[1] = p
    OBVIOUS
  <2> QED
    BY <1>3, <1>4, <1>7, <2>1
<1>8. ASSUME NEW p, NEW q, wire[e] = <<p, q>>
      PROVE  wire[e][1] = p /\ Left(e, i)[e] = <<q>> /\ Left(e, i)[Peer(e)] = wire[Peer(e)]
  <2>1. <<p, q>>[1] = p
    OBVIOUS
  <2> QED
    BY <1>3, <1>5, <1>8, <2>1
<1> QED
  BY <1>2, <1>6, <1>7, <1>8

LEMMA TookOne ==
  ASSUME TypeOK, NEW e \in End, NEW i \in 1 .. Len(wire[e]), Recv(e, i), Smooth, Smooth',
         NEW p, wire[e] = <<p>>
  PROVE  /\ wire[e][i] = p /\ Left(e, i)[e] = <<>> /\ Left(e, i)[Peer(e)] = wire[Peer(e)]
         /\ dest_addr' = [dest_addr EXCEPT ![e] = p.saddr]
<1>1. i = 1 /\ dest_addr' = [dest_addr EXCEPT ![e] = wire[e][1].saddr]
  BY Took
<1>2. wire[e][1] = p /\ Left(e, i)[e] = <<>> /\ Left(e, i)[Peer(e)] = wire[Peer(e)]
  BY Took
<1> QED
  BY <1>1, <1>2

LEMMA TookFirst ==
  ASSUME TypeOK, NEW e \in End, NEW i \in 1 .. Len(wire[e]), Recv(e, i), Smooth, Smooth',
         NEW p, NEW q, wire[e] = <<p, q>>
  PROVE  /\ wire[e][i] = p /\ Left(e, i)[e] = <<q>> /\ Left(e, i)[Peer(e)] = wire[Peer(e)]
         /\ dest_addr' = [dest_addr EXCEPT ![e] = p.saddr]
  BY Took

LEMMA TwoFit == \A n \in {0, 1}, cap \in Nat : cap >= 2 => n < cap
  OBVIOUS

\* A packet that is sent without a fault arrives, at that end only.
LEMMA Arrives ==
  ASSUME TwoHosts, NEW e \in End, NEW w, NEW p, NEW a, a = Addr[e], p.daddr = a,
         pc[e] \notin Stopped, w[e] = <<>> \/ \E q : w[e] = <<q>>
  PROVE  /\ Transmit(w, p, a)[Peer(e)] = w[Peer(e)]
         /\ w[e] = <<>> => Transmit(w, p, a)[e] = <<p>>
         /\ \A q : w[e] = <<q>> => Transmit(w, p, a)[e] = <<q, p>>
<1>1. Addr[Peer(e)] # a
  BY TwoEnds DEF TwoHosts
<1>2. Len(w[e]) < QueueCap
  <2>1. Len(w[e]) \in {0, 1}
    BY Pairs
  <2>2. QueueCap \in Nat /\ QueueCap >= 2
    BY RltpConstants DEF TwoHosts
  <2> QED
    BY <2>1, <2>2, TwoFit
<1>3. Transmit(w, p, a)[e] = Append(w[e], p) /\ Transmit(w, p, a)[Peer(e)] = w[Peer(e)]
  BY <1>1, <1>2, TwoEnds DEF Transmit
<1> QED
  BY <1>3, Pairs

\* Nobody reads where a process has ended.
LEMMA Lost ==
  ASSUME TwoHosts, NEW e \in End, NEW w \in Wires, NEW p, pc[e] \in Stopped
  PROVE  Transmit(w, p, Addr[e]) = w
<1>1. \A x \in End : Addr[x] = Addr[e] => pc[x] \in Stopped
  BY TwoEnds DEF TwoHosts
<1> QED
  BY <1>1 DEF Transmit, Wires

\* What both ends are, as far as it does not change.
LEMMA Shapes ==
  ASSUME TypeOK
  PROVE  /\ \A f \in {pc, wire, dest_seq_no, src_seq_no, destport, dest_addr} : DOMAIN f = End
         /\ wire \in Wires /\ src_seq_no \in [End -> SeqNo] /\ dest_seq_no \in [End -> SeqNo]
         /\ "client" \in End /\ "server" \in End
  BY TwoEnds DEF TypeOK, Wires

-----------------------------------------------------------------------------
(* The steps of the client. *)

\* A request comes behind the acknowledgement, if one is still to be read.
LEMMA Requested ==
  ASSUME TypeOK, TwoHosts, AtServer, pc["client"] \notin Asking, pc["server"] \notin Stopped,
         NEW p, p.daddr = Addr["server"], wire' = Transmit(wire, p, Addr["server"]),
         pc'["client"] \in Asking, pc'["server"] = pc["server"],
         src_seq_no'["server"] = src_seq_no["server"], dest_seq_no'["server"] = dest_seq_no["server"],
         destport'["server"] = destport["server"], Asks(p)', wire["client"] = <<>>
  PROVE  AtServer' /\ wire'["client"] = <<>>
<1>1. CASE pc["server"] \in Owed
  <2>1. PICK a : wire["server"] = <<a>> /\ Acks(a)
    BY <1>1 DEF AtServer
  <2>2. wire'["server"] = <<a, p>> /\ wire'["client"] = <<>>
    BY <2>1, Arrives, TwoEnds
  <2>3. Acks(a)'
    BY <2>1 DEF Acks, AckAccepted
  <2> QED
    BY <1>1, <2>2, <2>3 DEF AtServer
<1>2. CASE pc["server"] \notin Owed
  <2>1. wire["server"] = <<>>
    BY <1>2 DEF AtServer
  <2>2. wire'["server"] = <<p>> /\ wire'["client"] = <<>>
    BY <2>1, Arrives, TwoEnds
  <2> QED
    BY <1>2, <2>2 DEF AtServer
<1> QED
  BY <1>1, <1>2

LEMMA ConnectJoint ==
  ASSUME TypeOK, TwoHosts, Joint, src_seq_no["client"] # 0, Connect
  PROVE  Joint'
<1> PICK p : p = SynPacket("client")
  OBVIOUS
<1>1. /\ pc' = [pc EXCEPT !["client"] = "connect"] /\ wire' = Transmit(wire, p, Addr["server"])
      /\ destport' = [destport EXCEPT !["client"] = Port["server"]]
      /\ dest_addr' = [dest_addr EXCEPT !["client"] = Addr["server"]]
      /\ pc["client"] = "closed" /\ UNCHANGED <<src_seq_no, dest_seq_no>>
  BY DEF Connect, EnterLoop, Goto
<1>2. /\ p.daddr = Addr["server"] /\ p.saddr = Addr["client"] /\ p.source_port = Port["client"]
      /\ p.seq_no = src_seq_no["client"] /\ p.type = "SYN" /\ p.valid /\ p.dest_port = Port["server"]
  BY DEF SynPacket, Header
<1>3. /\ pc'["client"] = "connect" /\ pc'["server"] = pc["server"]
      /\ destport'["client"] = Port["server"] /\ destport'["server"] = destport["server"]
      /\ dest_addr'["client"] = Addr["server"]
  BY <1>1, Shapes
<1>4. CASE Parted
  <2>1. AtServer /\ wire["client"] = <<>> /\ pc["server"] \notin Stopped
        /\ pc["client"] \notin Asking /\ pc'["client"] \in Asking
    BY <1>1, <1>3, <1>4 DEF Parted, Stopped, Asking
  <2>2. p.seq_no > 0
    <3>1. src_seq_no["client"] \in SeqNo /\ SeqMod \in Nat
      BY Shapes, RltpConstants
    <3> QED
      BY <1>2, <3>1 DEF SeqNo
  <2>3. Asks(p)'
    BY <1>1, <1>2, <1>3, <2>2 DEF Asks, SynAccepted, SamePort, TwoHosts
  <2>4. AtServer' /\ wire'["client"] = <<>>
    BY <1>1, <1>2, <1>3, <2>1, <2>3, Requested
  <2> QED
    BY <1>3, <1>4, <2>4 DEF Joint, Parted
<1>5. CASE Alone
  <2>1. wire' = wire
    BY <1>1, <1>5, Lost, Shapes DEF Alone, Stopped
  <2> QED
    BY <1>3, <1>5, <2>1 DEF Joint, Alone
<1> QED
  BY <1>1, <1>4, <1>5 DEF Joint, Greeting, ClientsTurn, ServersTurn, Closing

LEMMA CloseJoint ==
  ASSUME TypeOK, TwoHosts, Joint, Close
  PROVE  Joint'
<1> PICK p : p = AckPacket("client", "FIN", dest_addr["client"], dest_seq_no["client"])
  OBVIOUS
<1>1. /\ pc' = [pc EXCEPT !["client"] = "close"] /\ wire' = Transmit(wire, p, dest_addr["client"])
      /\ pc["client"] = "ready" /\ UNCHANGED <<src_seq_no, dest_seq_no, destport, dest_addr>>
  BY DEF Close, EnterLoop, Goto, proto
<1>2. ClientsTurn
  BY <1>1 DEF Joint, Greeting, ServersTurn, Closing, Parted, Alone
<1>3. /\ pc'["client"] = "close" /\ pc'["server"] = pc["server"]
      /\ dest_addr["client"] = Addr["server"] /\ Ported /\ Knows("client") /\ Knows("server")
  BY <1>1, <1>2, Shapes DEF ClientsTurn
<1>4. /\ p.daddr = Addr["server"] /\ p.saddr = Addr["client"] /\ p.source_port = Port["client"]
      /\ p.seq_no = src_seq_no["client"] /\ p.type = "FIN" /\ p.valid
      /\ p.dest_port = destport["client"] /\ p.ack_no = dest_seq_no["client"]
  BY <1>3 DEF AckPacket, Header
<1>5. Asks(p)'
  BY <1>1, <1>3, <1>4, TwoEnds DEF Asks, FinAccepted, InSession, SamePort, TwoHosts, Ported, Knows
<1>6. AtServer' /\ wire'["client"] = <<>>
  BY <1>1, <1>2, <1>3, <1>4, <1>5, Requested DEF ClientsTurn, Asking, Stopped
<1> QED
  BY <1>1, <1>2, <1>3, <1>6 DEF Joint, ClientsTurn, Ported, Knows

\* A message whose number does not wrap.
LEMMA SendsData ==
  ASSUME TypeOK, TwoHosts, NEW e \in End, NEW len \in Lens, NEW text, SendMessage(e, len, text), ~wrapped',
         dest_addr[e] = Addr[Peer(e)]
  PROVE  \E seq, p :
           /\ seq \in Nat /\ seq # 0 /\ seq # src_seq_no[e] /\ Minus(seq, src_seq_no[e]) = len
           /\ src_seq_no' = [src_seq_no EXCEPT ![e] = seq]
           /\ pc' = [pc EXCEPT ![e] = "send"] /\ wire' = Transmit(wire, p, Addr[Peer(e)])
           /\ UNCHANGED <<dest_seq_no, destport, dest_addr>>
           /\ p.daddr = Addr[Peer(e)] /\ p.saddr = Addr[e] /\ p.source_port = Port[e]
           /\ p.dest_port = destport[e] /\ p.type = "DATA" /\ p.valid
           /\ p.seq_no = seq /\ p.ack_no = dest_seq_no[e] /\ p.databytes = len
<1> PICK seq : seq = Plus(src_seq_no[e], len)
  OBVIOUS
<1> PICK p : p = [AckPacket(e, "DATA", dest_addr[e], dest_seq_no[e])
                    EXCEPT !.seq_no = seq, !.databytes = len, !.data = text]
  OBVIOUS
<1>1. /\ src_seq_no' = [src_seq_no EXCEPT ![e] = seq]
      /\ pc' = [pc EXCEPT ![e] = "send"] /\ wire' = Transmit(wire, p, dest_addr[e])
      /\ UNCHANGED <<dest_seq_no, destport, dest_addr>>
  BY DEF SendMessage, EnterLoop, Goto
<1>2. ~(src_seq_no[e] + len >= SeqMod)
  BY DEF SendMessage
<1>3. src_seq_no[e] \in Nat /\ len \in Nat /\ len > 0 /\ SeqMod \in Nat
  BY Shapes, RltpConstants DEF SeqNo
<1>4. seq = src_seq_no[e] + len
  BY <1>2, <1>3 DEF Plus
<1>5. seq \in Nat /\ seq # 0 /\ seq # src_seq_no[e] /\ Minus(seq, src_seq_no[e]) = len
  BY <1>3, <1>4 DEF Minus
<1>6. /\ p.daddr = Addr[Peer(e)] /\ p.saddr = Addr[e] /\ p.source_port = Port[e]
      /\ p.dest_port = destport[e] /\ p.type = "DATA" /\ p.valid
      /\ p.seq_no = seq /\ p.ack_no = dest_seq_no[e] /\ p.databytes = len
  BY DEF AckPacket, Header
<1> QED
  BY <1>1, <1>5, <1>6

LEMMA ClientSendJoint ==
  ASSUME TypeOK, TwoHosts, Joint, NEW len \in Lens, ClientSend(len), Smooth'
  PROVE  Joint'
<1>0. pc["client"] = "ready" /\ SendMessage("client", len, times) /\ ~wrapped'
  BY DEF ClientSend, Smooth
<1>1. ClientsTurn
  BY <1>0 DEF Joint, Greeting, ServersTurn, Closing, Parted, Alone
<1>2. dest_addr["client"] = Addr["server"] /\ Ported /\ Knows("client") /\ Knows("server")
  BY <1>0, <1>1 DEF ClientsTurn
<1>3. PICK seq, p :
        /\ seq \in Nat /\ seq # 0 /\ Minus(seq, src_seq_no["client"]) = len
        /\ src_seq_no' = [src_seq_no EXCEPT !["client"] = seq]
        /\ pc' = [pc EXCEPT !["client"] = "send"] /\ wire' = Transmit(wire, p, Addr["server"])
        /\ UNCHANGED <<dest_seq_no, destport, dest_addr>>
        /\ p.daddr = Addr["server"] /\ p.saddr = Addr["client"] /\ p.source_port = Port["client"]
        /\ p.dest_port = destport["client"] /\ p.type = "DATA" /\ p.valid
        /\ p.seq_no = seq /\ p.ack_no = dest_seq_no["client"] /\ p.databytes = len
  BY <1>0, <1>2, SendsData, TwoEnds
<1>4. /\ pc'["client"] = "send" /\ pc'["server"] = pc["server"]
      /\ src_seq_no'["client"] = seq /\ src_seq_no'["server"] = src_seq_no["server"]
  BY <1>3, Shapes, TwoEnds
<1>5. Asks(p)'
  BY <1>2, <1>3, <1>4, TwoEnds DEF Asks, DataAccepted, InSession, SamePort, TwoHosts, Ported, Knows
<1>6. AtServer' /\ wire'["client"] = <<>>
  BY <1>0, <1>1, <1>3, <1>4, <1>5, Requested DEF ClientsTurn, Asking, Stopped
<1> QED
  BY <1>1, <1>2, <1>3, <1>4, <1>6, TwoEnds DEF Joint, ClientsTurn, Ported, Knows

\* What is read at either end.
LEMMA ClientTook ==
  ASSUME TypeOK, NEW i \in 1 .. Len(wire["client"]), Recv("client", i), Smooth, Smooth',
         NEW p, wire["client"] = <<p>>
  PROVE  /\ wire["client"][i] = p /\ Left("client", i)["client"] = <<>>
         /\ Left("client", i)["server"] = wire["server"]
         /\ dest_addr' = [dest_addr EXCEPT !["client"] = p.saddr]
<1>1. "client" \in End /\ Peer("client") = "server"
  BY TwoEnds
<1>2. /\ wire["client"][i] = p /\ Left("client", i)["client"] = <<>>
      /\ Left("client", i)[Peer("client")] = wire[Peer("client")]
      /\ dest_addr' = [dest_addr EXCEPT !["client"] = p.saddr]
  BY <1>1, TookOne
<1> QED
  BY <1>1, <1>2

LEMMA ClientTookFirst ==
  ASSUME TypeOK, NEW i \in 1 .. Len(wire["client"]), Recv("client", i), Smooth, Smooth',
         NEW p, NEW q, wire["client"] = <<p, q>>
  PROVE  /\ wire["client"][i] = p /\ Left("client", i)["client"] = <<q>>
         /\ Left("client", i)["server"] = wire["server"]
         /\ dest_addr' = [dest_addr EXCEPT !["client"] = p.saddr]
<1> PICK e : e = "client"
  OBVIOUS
<1>1. e \in End /\ Peer(e) = "server"
  BY TwoEnds
<1>2. i \in 1 .. Len(wire[e]) /\ Recv(e, i) /\ wire[e] = <<p, q>>
  OBVIOUS
<1>3. /\ wire[e][i] = p /\ Left(e, i)[e] = <<q>> /\ Left(e, i)[Peer(e)] = wire[Peer(e)]
      /\ dest_addr' = [dest_addr EXCEPT ![e] = p.saddr]
  BY <1>1, <1>2, TookFirst
<1> QED
  BY <1>1, <1>3

LEMMA ServerTook ==
  ASSUME TypeOK, NEW i \in 1 .. Len(wire["server"]), Recv("server", i), Smooth, Smooth',
         NEW p, wire["server"] = <<p>>
  PROVE  /\ wire["server"][i] = p /\ Left("server", i)["server"] = <<>>
         /\ Left("server", i)["client"] = wire["client"]
         /\ dest_addr' = [dest_addr EXCEPT !["server"] = p.saddr]
<1>1. "server" \in End /\ Peer("server") = "client"
  BY TwoEnds
<1>2. /\ wire["server"][i] = p /\ Left("server", i)["server"] = <<>>
      /\ Left("server", i)[Peer("server")] = wire[Peer("server")]
      /\ dest_addr' = [dest_addr EXCEPT !["server"] = p.saddr]
  BY <1>1, TookOne
<1> QED
  BY <1>1, <1>2

LEMMA ServerTookFirst ==
  ASSUME TypeOK, NEW i \in 1 .. Len(wire["server"]), Recv("server", i), Smooth, Smooth',
         NEW p, NEW q, wire["server"] = <<p, q>>
  PROVE  /\ wire["server"][i] = p /\ Left("server", i)["server"] = <<q>>
         /\ Left("server", i)["client"] = wire["client"]
         /\ dest_addr' = [dest_addr EXCEPT !["server"] = p.saddr]
<1> PICK e : e = "server"
  OBVIOUS
<1>1. e \in End /\ Peer(e) = "client"
  BY TwoEnds
<1>2. i \in 1 .. Len(wire[e]) /\ Recv(e, i) /\ wire[e] = <<p, q>>
  OBVIOUS
<1>3. /\ wire[e][i] = p /\ Left(e, i)[e] = <<q>> /\ Left(e, i)[Peer(e)] = wire[Peer(e)]
      /\ dest_addr' = [dest_addr EXCEPT ![e] = p.saddr]
  BY <1>1, <1>2, TookFirst
<1> QED
  BY <1>1, <1>3

\* connect() returns.
LEMMA ConnectRecvJoint ==
  ASSUME TypeOK, TwoHosts, Joint, src_seq_no["server"] # 0, Smooth, Smooth',
         NEW i \in 1 .. Len(wire["client"]), ConnectRecv(i)
  PROVE  Joint'
<1>1. Greeting
  BY Pairs DEF ConnectRecv, Joint, ClientsTurn, ServersTurn, Closing, Parted, Alone
<1>2. PICK q : /\ wire["client"] = <<q>> /\ q.saddr = Addr["server"] /\ SynAckAccepted("client", q)
               /\ q.source_port = Port["server"] /\ q.seq_no = src_seq_no["server"]
  BY <1>1 DEF Greeting
<1>3. /\ wire["client"][i] = q /\ Left("client", i)["client"] = <<>> /\ wire["server"] = <<>>
      /\ Left("client", i)["server"] = wire["server"] /\ dest_addr' = [dest_addr EXCEPT !["client"] = q.saddr]
  <2>1. Recv("client", i) /\ wire["server"] = <<>>
    BY <1>1 DEF ConnectRecv, Greeting
  <2> QED
    BY <1>2, <2>1, ClientTook
<1> PICK w, seq : w = Left("client", i) /\ seq = src_seq_no["server"]
  OBVIOUS
<1> PICK p : p = AckPacket("client", "ACK", Addr["server"], seq)
  OBVIOUS
<1>4. SamePort(q.source_port, destport["client"])
  BY <1>1, <1>2 DEF Greeting, Ported, SamePort, TwoHosts
<1>5. /\ pc' = [pc EXCEPT !["client"] = "ready"] /\ wire' = Transmit(w, p, Addr["server"])
      /\ dest_seq_no' = [dest_seq_no EXCEPT !["client"] = seq]
      /\ UNCHANGED <<src_seq_no, destport>>
  BY <1>2, <1>3, <1>4 DEF ConnectRecv, LeaveLoop, Goto
<1>6. /\ p.daddr = Addr["server"] /\ p.saddr = Addr["client"] /\ p.source_port = Port["client"]
      /\ p.seq_no = src_seq_no["client"] /\ p.type = "ACK" /\ p.valid
      /\ p.dest_port = destport["client"] /\ p.ack_no = seq
  BY DEF AckPacket, Header
<1>7. /\ pc'["client"] = "ready" /\ pc'["server"] = "accept_connect" /\ dest_addr'["client"] = Addr["server"]
      /\ dest_seq_no'["client"] = seq /\ dest_seq_no'["server"] = src_seq_no["client"]
  BY <1>1, <1>2, <1>3, <1>5, Shapes, TwoEnds DEF Greeting, Knows
<1>8. wire'["server"] = <<p>> /\ wire'["client"] = <<>>
  BY <1>1, <1>3, <1>5, <1>6, Arrives, TwoEnds DEF Greeting, Stopped
<1>9. Acks(p)'
  BY <1>1, <1>5, <1>6, <1>7 DEF Acks, AckAccepted, SamePort, Greeting, Ported, TwoHosts
<1> QED
  BY <1>1, <1>5, <1>7, <1>8, <1>9, TwoEnds DEF Joint, ClientsTurn, Greeting, Ported, Knows, AtServer, Owed, Asking

\* close() returns.
LEMMA CloseRecvJoint ==
  ASSUME TypeOK, TwoHosts, Joint, Smooth, Smooth',
         NEW i \in 1 .. Len(wire["client"]), CloseRecv(i)
  PROVE  Joint'
<1>1. Closing
  BY Pairs DEF CloseRecv, Joint, Greeting, ClientsTurn, ServersTurn, Parted, Alone
<1>2. PICK q : wire["client"] = <<q>> /\ q.saddr = Addr["server"] /\ AckAccepted("client", q, "FIN_ACK")
  BY <1>1 DEF Closing
<1>3. /\ wire["client"][i] = q /\ Left("client", i)["client"] = <<>> /\ wire["server"] = <<>>
      /\ Left("client", i)["server"] = wire["server"]
  <2>1. Recv("client", i) /\ wire["server"] = <<>>
    BY <1>1 DEF CloseRecv, Closing
  <2> QED
    BY <1>2, <2>1, ClientTook
<1> PICK w, seq : w = Left("client", i) /\ seq = dest_seq_no["client"]
  OBVIOUS
<1> PICK p : p = AckPacket("client", "ACK", Addr["server"], seq)
  OBVIOUS
<1>5. /\ pc' = [pc EXCEPT !["client"] = "closed"] /\ wire' = Transmit(w, p, Addr["server"])
      /\ UNCHANGED <<dest_seq_no, src_seq_no, destport>>
  BY <1>2, <1>3 DEF CloseRecv, LeaveLoop, Goto
<1>6. /\ p.daddr = Addr["server"] /\ p.saddr = Addr["client"] /\ p.source_port = Port["client"]
      /\ p.seq_no = src_seq_no["client"] /\ p.type = "ACK" /\ p.valid
      /\ p.dest_port = destport["client"] /\ p.ack_no = seq
  BY DEF AckPacket, Header
<1>7. pc'["client"] = "closed" /\ pc'["server"] = "accept_close"
  BY <1>1, <1>5, Shapes DEF Closing
<1>8. wire'["server"] = <<p>> /\ wire'["client"] = <<>>
  BY <1>1, <1>3, <1>5, <1>6, Arrives, TwoEnds DEF Closing, Stopped
<1>9. Acks(p)'
  BY <1>1, <1>5, <1>6, <1>7, TwoEnds DEF Acks, AckAccepted, SamePort, Closing, Ported, TwoHosts, Knows
<1> QED
  BY <1>7, <1>8, <1>9 DEF Joint, Parted, AtServer, Owed, Asking

\* rtlp_send_message returns at the client.
LEMMA ClientTold ==
  ASSUME TypeOK, TwoHosts, Joint, Smooth, Smooth',
         NEW i \in 1 .. Len(wire["client"]), SendRecv("client", i)
  PROVE  Joint'
<1>0. pc["client"] = "send" /\ Recv("client", i)
  BY DEF SendRecv
<1>1. ServersTurn
  BY <1>0, Pairs DEF Joint, Greeting, ClientsTurn, Closing, Parted, Alone
<1>2. PICK a : /\ wire["client"][i] = a /\ Taken(a)
               /\ Left("client", i)["server"] = <<>>
               /\ pc["server"] = "reply" => Left("client", i)["client"] = <<>>
               /\ pc["server"] = "send" => \E r : Left("client", i)["client"] = <<r>> /\ Replies(r)
  <2>1. CASE pc["server"] = "reply"
    <3>1. PICK a : wire["client"] = <<a>> /\ Taken(a)
      BY <1>0, <1>1, <2>1 DEF ServersTurn, AtClient
    <3>2. /\ wire["client"][i] = a /\ Left("client", i)["client"] = <<>>
          /\ Left("client", i)["server"] = wire["server"]
      BY <1>0, <3>1, ClientTook
    <3> QED
      BY <1>1, <2>1, <3>1, <3>2 DEF ServersTurn
  <2>2. CASE pc["server"] = "send"
    <3>1. PICK a, r : wire["client"] = <<a, r>> /\ Taken(a) /\ Replies(r)
      BY <1>0, <1>1, <2>2 DEF ServersTurn, AtClient
    <3>2. /\ wire["client"][i] = a /\ Left("client", i)["client"] = <<r>>
          /\ Left("client", i)["server"] = wire["server"]
      BY <1>0, <3>1, ClientTookFirst
    <3> QED
      BY <1>1, <2>2, <3>1, <3>2 DEF ServersTurn
  <2> QED
    BY <1>1, <2>1, <2>2 DEF ServersTurn
<1>3. AckAccepted("client", a, "ACK")
  BY <1>2 DEF Taken
<1>4. /\ pc' = [pc EXCEPT !["client"] = "receive"] /\ wire' = Left("client", i)
      /\ UNCHANGED <<dest_seq_no, src_seq_no, destport>>
  BY <1>2, <1>3 DEF SendRecv, LeaveLoop, Goto
<1>5. pc'["client"] = "receive" /\ pc'["server"] = pc["server"] /\ wire'["server"] = <<>>
  BY <1>2, <1>4, Shapes
<1>6. dest_addr'["server"] = Addr["client"]
  BY <1>0, <1>1, Shapes, TwoEnds DEF Recv, ServersTurn
<1>7. AtClient'
  <2>1. CASE pc["server"] = "reply"
    BY <1>2, <1>4, <1>5, <2>1 DEF AtClient
  <2>2. CASE pc["server"] = "send"
    <3>1. PICK r : wire'["client"] = <<r>> /\ Replies(r)
      BY <1>2, <1>4, <2>2
    <3>2. Replies(r)'
      BY <1>4, <3>1 DEF Replies, DataAccepted, InSession
    <3> QED
      BY <1>5, <2>2, <3>1, <3>2 DEF AtClient
  <2> QED
    BY <1>1, <2>1, <2>2 DEF ServersTurn
<1> QED
  BY <1>1, <1>4, <1>5, <1>6, <1>7, TwoEnds DEF Joint, ServersTurn, Ported, Knows

\* rtlp_receive_message returns the reply.
LEMMA ClientReads ==
  ASSUME TypeOK, TwoHosts, Joint, Smooth, Smooth', src_seq_no["server"] # 0,
         NEW i \in 1 .. Len(wire["client"]),
         ReceiveData("client", i) \/ ReceiveFin("client", i) \/ ReceiveOther("client", i)
  PROVE  Joint'
<1>0. pc["client"] = "receive" /\ Recv("client", i)
  BY DEF ReceiveData, ReceiveFin, ReceiveOther
<1>1. ServersTurn
  BY <1>0 DEF Joint, Greeting, ClientsTurn, Closing, Parted, Alone
<1>2. pc["server"] = "send"
  BY <1>0, <1>1, Pairs DEF ServersTurn, AtClient
<1>3. PICK r : wire["client"] = <<r>> /\ Replies(r)
  BY <1>0, <1>1, <1>2 DEF ServersTurn, AtClient
<1>4. /\ wire["client"][i] = r /\ Left("client", i)["client"] = <<>>
      /\ Left("client", i)["server"] = wire["server"]
      /\ dest_addr' = [dest_addr EXCEPT !["client"] = r.saddr]
  BY <1>0, <1>3, ClientTook
<1>5. DataAccepted("client", r) /\ ~FinAccepted("client", r)
  BY <1>3 DEF Replies, DataAccepted, FinAccepted
<1>6. ReceiveData("client", i)
  BY <1>4, <1>5 DEF ReceiveFin, ReceiveOther
<1> PICK w, seq : w = Left("client", i) /\ seq = src_seq_no["server"]
  OBVIOUS
<1> PICK p : p = AckPacket("client", "ACK", Addr["server"], seq)
  OBVIOUS
<1>7. /\ pc' = [pc EXCEPT !["client"] = "ready"] /\ wire' = Transmit(w, p, Addr["server"])
      /\ dest_seq_no' = [dest_seq_no EXCEPT !["client"] = seq]
      /\ UNCHANGED <<src_seq_no, destport>>
  BY <1>3, <1>4, <1>6 DEF ReceiveData, LeaveLoop, Goto, Replies
<1>8. /\ p.daddr = Addr["server"] /\ p.saddr = Addr["client"] /\ p.source_port = Port["client"]
      /\ p.seq_no = src_seq_no["client"] /\ p.type = "ACK" /\ p.valid
      /\ p.dest_port = destport["client"] /\ p.ack_no = seq
  BY DEF AckPacket, Header
<1>9. /\ pc'["client"] = "ready" /\ pc'["server"] = "send" /\ dest_addr'["client"] = Addr["server"]
      /\ dest_seq_no'["client"] = seq /\ dest_seq_no'["server"] = src_seq_no["client"]
  BY <1>1, <1>2, <1>3, <1>4, <1>7, Shapes, TwoEnds DEF ServersTurn, Knows, Replies
<1>10. wire'["server"] = <<p>> /\ wire'["client"] = <<>>
  BY <1>1, <1>2, <1>4, <1>7, <1>8, Arrives, TwoEnds DEF ServersTurn, Stopped
<1>11. Acks(p)'
  BY <1>1, <1>7, <1>8, <1>9, TwoEnds DEF Acks, AckAccepted, SamePort, ServersTurn, Ported, TwoHosts
<1> QED
  BY <1>1, <1>7, <1>9, <1>10, <1>11, TwoEnds DEF Joint, ClientsTurn, ServersTurn, Ported, Knows, AtServer, Owed, Asking

-----------------------------------------------------------------------------
(* The steps of the server. *)

\* The acknowledgement the server waits for is what it reads.
LEMMA ServerTold ==
  ASSUME TypeOK, AtServer, Smooth, Smooth', pc["server"] \in Owed,
         NEW i \in 1 .. Len(wire["server"]), Recv("server", i)
  PROVE  /\ AckAccepted("server", wire["server"][i], "ACK")
         /\ Left("server", i)["client"] = wire["client"]
         /\ pc["client"] \in Asking => \E r : Left("server", i)["server"] = <<r>> /\ Asks(r)
         /\ pc["client"] \notin Asking => Left("server", i)["server"] = <<>>
<1>1. CASE pc["client"] \in Asking
  <2>1. PICK a, r : wire["server"] = <<a, r>> /\ Acks(a) /\ Asks(r)
    BY <1>1 DEF AtServer
  <2>2. /\ wire["server"][i] = a /\ Left("server", i)["server"] = <<r>>
        /\ Left("server", i)["client"] = wire["client"]
    BY <2>1, ServerTookFirst
  <2> QED
    BY <1>1, <2>1, <2>2 DEF Acks
<1>2. CASE pc["client"] \notin Asking
  <2>1. PICK a : wire["server"] = <<a>> /\ Acks(a)
    BY <1>2 DEF AtServer
  <2>2. /\ wire["server"][i] = a /\ Left("server", i)["server"] = <<>>
        /\ Left("server", i)["client"] = wire["client"]
    BY <2>1, ServerTook
  <2> QED
    BY <1>2, <2>1, <2>2 DEF Acks
<1> QED
  BY <1>1, <1>2

LEMMA ServerGoesOn ==
  ASSUME TypeOK, AtServer, Smooth, Smooth', pc["server"] \in Owed,
         NEW i \in 1 .. Len(wire["server"]), Recv("server", i), wire' = Left("server", i),
         pc'["server"] \notin Owed, pc'["client"] = pc["client"],
         UNCHANGED <<src_seq_no, dest_seq_no, destport>>
  PROVE  AtServer' /\ wire'["client"] = wire["client"]
<1>1. wire'["client"] = wire["client"]
  BY ServerTold
<1>2. CASE pc["client"] \in Asking
  <2>1. PICK r : wire'["server"] = <<r>> /\ Asks(r)
    BY <1>2, ServerTold
  <2>2. Asks(r)'
    BY <2>1 DEF Asks, DataAccepted, FinAccepted, SynAccepted, InSession
  <2>3. AtServer'
    BY <1>2, <2>1, <2>2 DEF AtServer
  <2> QED
    BY <1>1, <2>3
<1>3. CASE pc["client"] \notin Asking
  <2>1. wire'["server"] = <<>>
    BY <1>3, ServerTold
  <2>2. AtServer'
    BY <1>3, <2>1 DEF AtServer
  <2> QED
    BY <1>1, <2>2
<1> QED
  BY <1>2, <1>3

\* accept_connect() returns, ...
LEMMA AcceptConnectRecvJoint ==
  ASSUME TypeOK, Joint, Smooth, Smooth',
         NEW i \in 1 .. Len(wire["server"]), AcceptConnectRecv(i)
  PROVE  Joint'
<1>0. pc["server"] = "accept_connect" /\ Recv("server", i)
  BY DEF AcceptConnectRecv
<1>1. ClientsTurn
  BY <1>0, Pairs DEF Joint, Greeting, ServersTurn, Closing, Parted, Alone
<1>2. AtServer /\ pc["server"] \in Owed
  BY <1>0, <1>1 DEF ClientsTurn, Owed
<1>3. AckAccepted("server", wire["server"][i], "ACK")
  BY <1>0, <1>2, ServerTold
<1>4. /\ pc' = [pc EXCEPT !["server"] = "receive"] /\ wire' = Left("server", i)
      /\ UNCHANGED <<dest_seq_no, src_seq_no, destport>>
  BY <1>3 DEF AcceptConnectRecv, LeaveLoop, Goto
<1>5. pc'["client"] = pc["client"] /\ pc'["server"] = "receive"
  BY <1>4, Shapes
<1>6. dest_addr'["client"] = dest_addr["client"]
  BY <1>0, Shapes DEF Recv
<1>7. AtServer' /\ wire'["client"] = wire["client"]
  BY <1>0, <1>2, <1>4, <1>5, ServerGoesOn DEF Owed
<1> QED
  BY <1>1, <1>4, <1>5, <1>6, <1>7, TwoEnds DEF Joint, ClientsTurn, Ported, Knows

\* ... rtlp_send_message, ...
LEMMA ReplyTold ==
  ASSUME TypeOK, Joint, Smooth, Smooth',
         NEW i \in 1 .. Len(wire["server"]), SendRecv("server", i)
  PROVE  Joint'
<1>0. pc["server"] = "send" /\ Recv("server", i)
  BY DEF SendRecv
<1>1. ClientsTurn
  BY <1>0, Pairs DEF Joint, Greeting, ServersTurn, Closing, Parted, Alone
<1>2. AtServer /\ pc["server"] \in Owed
  BY <1>0, <1>1 DEF ClientsTurn, Owed
<1>3. AckAccepted("server", wire["server"][i], "ACK")
  BY <1>0, <1>2, ServerTold
<1>4. /\ pc' = [pc EXCEPT !["server"] = "receive"] /\ wire' = Left("server", i)
      /\ UNCHANGED <<dest_seq_no, src_seq_no, destport>>
  BY <1>3 DEF SendRecv, LeaveLoop, Goto
<1>5. pc'["client"] = pc["client"] /\ pc'["server"] = "receive"
  BY <1>4, Shapes
<1>6. dest_addr'["client"] = dest_addr["client"]
  BY <1>0, Shapes DEF Recv
<1>7. AtServer' /\ wire'["client"] = wire["client"]
  BY <1>0, <1>2, <1>4, <1>5, ServerGoesOn DEF Owed
<1> QED
  BY <1>1, <1>4, <1>5, <1>6, <1>7, TwoEnds DEF Joint, ClientsTurn, Ported, Knows

\* ... and accept_close().
LEMMA AcceptCloseRecvJoint ==
  ASSUME TypeOK, Joint, Smooth, Smooth', NEW e \in End,
         NEW i \in 1 .. Len(wire[e]), AcceptCloseRecv(e, i)
  PROVE  Joint'
<1>0. pc[e] = "accept_close" /\ Recv(e, i)
  BY DEF AcceptCloseRecv
<1>1. Parted /\ e = "server"
  BY <1>0, TwoEnds, Pairs DEF Joint, Greeting, ClientsTurn, ServersTurn, Closing, Parted, Alone
<1>2. i \in 1 .. Len(wire["server"]) /\ Recv("server", i) /\ AcceptCloseRecv("server", i)
      /\ AtServer /\ pc["server"] \in Owed
  BY <1>0, <1>1 DEF Parted, Owed
<1>3. AckAccepted("server", wire["server"][i], "ACK")
  BY <1>2, ServerTold
<1>4. /\ pc' = [pc EXCEPT !["server"] = "prompt"] /\ wire' = Left("server", i)
      /\ UNCHANGED <<dest_seq_no, src_seq_no, destport>>
  BY <1>2, <1>3 DEF AcceptCloseRecv, AcceptCloseReturns, LeaveLoop, Goto
<1>5. pc'["client"] = pc["client"] /\ pc'["server"] = "prompt"
  BY <1>4, Shapes
<1>6. dest_addr'["client"] = dest_addr["client"]
  BY <1>2, Shapes DEF Recv
<1>7. AtServer' /\ wire'["client"] = wire["client"]
  BY <1>2, <1>4, <1>5, ServerGoesOn DEF Owed
<1> QED
  BY <1>1, <1>4, <1>5, <1>6, <1>7 DEF Joint, Parted

\* accept_connect() reads the SYN.
LEMMA AcceptConnectJoint ==
  ASSUME TypeOK, TwoHosts, Joint, Smooth, Smooth', src_seq_no["server"] # 0,
         NEW i \in 1 .. Len(wire["server"]), AcceptConnect(i)
  PROVE  Joint'
<1>0. pc["server"] = "accept" /\ Recv("server", i)
  BY DEF AcceptConnect
<1>1. Parted
  BY <1>0 DEF Joint, Greeting, ClientsTurn, ServersTurn, Closing, Alone
<1>2. pc["client"] = "connect" /\ pc["client"] \in Asking
  BY <1>0, <1>1, Pairs DEF Parted, AtServer, Owed, Asking
<1>3. PICK r : wire["server"] = <<r>> /\ Asks(r)
  BY <1>0, <1>1, <1>2 DEF Parted, AtServer, Owed
<1>4. /\ wire["server"][i] = r /\ Left("server", i)["server"] = <<>>
      /\ Left("server", i)["client"] = wire["client"]
      /\ dest_addr' = [dest_addr EXCEPT !["server"] = r.saddr]
  BY <1>0, <1>3, ServerTook
<1>5. /\ SynAccepted("server", r) /\ r.saddr = Addr["client"]
      /\ r.source_port = Port["client"] /\ r.seq_no = src_seq_no["client"]
  BY <1>2, <1>3 DEF Asks
<1> PICK w, seq : w = Left("server", i) /\ seq = src_seq_no["client"]
  OBVIOUS
<1> PICK p : p = Header("server", "SYN_ACK", Port["client"], Addr["client"], src_seq_no["server"], seq)
  OBVIOUS
<1>6. /\ pc' = [pc EXCEPT !["server"] = "accept_connect"] /\ wire' = Transmit(w, p, Addr["client"])
      /\ dest_seq_no' = [dest_seq_no EXCEPT !["server"] = seq]
      /\ destport' = [destport EXCEPT !["server"] = Port["client"]]
      /\ UNCHANGED src_seq_no
  BY <1>4, <1>5 DEF AcceptConnect, EnterLoop, Goto
<1>7. /\ p.daddr = Addr["client"] /\ p.saddr = Addr["server"] /\ p.source_port = Port["server"]
      /\ p.seq_no = src_seq_no["server"] /\ p.type = "SYN_ACK" /\ p.valid
      /\ p.dest_port = Port["client"] /\ p.ack_no = seq
  BY DEF Header
<1>8. /\ pc'["client"] = "connect" /\ pc'["server"] = "accept_connect"
      /\ dest_seq_no'["server"] = seq /\ destport'["server"] = Port["client"]
      /\ destport'["client"] = Port["server"]
  BY <1>1, <1>2, <1>6, Shapes DEF Parted
<1>9. wire'["client"] = <<p>> /\ wire'["server"] = <<>>
  BY <1>1, <1>2, <1>4, <1>6, <1>7, Arrives, TwoEnds DEF Parted, Stopped
<1>10. p.seq_no > 0
  <2>1. src_seq_no["server"] \in SeqNo /\ SeqMod \in Nat
    BY Shapes, RltpConstants
  <2> QED
    BY <1>7, <2>1 DEF SeqNo
<1>11. SynAckAccepted("client", p)'
  BY <1>6, <1>7, <1>10 DEF SynAckAccepted, SamePort, TwoHosts
<1> QED
  BY <1>6, <1>7, <1>8, <1>9, <1>11, TwoEnds DEF Joint, Greeting, Ported, Knows

\* rtlp_receive_message returns a request, or finds that the client closes.
LEMMA ServerReads ==
  ASSUME TypeOK, TwoHosts, Joint, Smooth, Smooth', src_seq_no["client"] # 0,
         NEW i \in 1 .. Len(wire["server"]),
         ReceiveData("server", i) \/ ReceiveFin("server", i) \/ ReceiveOther("server", i)
  PROVE  Joint'
<1>0. pc["server"] = "receive" /\ Recv("server", i)
  BY DEF ReceiveData, ReceiveFin, ReceiveOther
<1>1. ClientsTurn
  BY <1>0 DEF Joint, Greeting, ServersTurn, Closing, Parted, Alone
<1>2. pc["client"] \in {"send", "close"} /\ pc["client"] \in Asking
  BY <1>0, <1>1, Pairs DEF ClientsTurn, AtServer, Owed, Asking
<1>3. PICK r : wire["server"] = <<r>> /\ Asks(r)
  BY <1>0, <1>1, <1>2 DEF ClientsTurn, AtServer, Owed
<1>4. /\ wire["server"][i] = r /\ Left("server", i)["server"] = <<>>
      /\ Left("server", i)["client"] = wire["client"]
      /\ dest_addr' = [dest_addr EXCEPT !["server"] = r.saddr]
  BY <1>0, <1>3, ServerTook
<1>5. r.saddr = Addr["client"]
  BY <1>3 DEF Asks
<1> PICK w, n : w = Left("server", i) /\ n = src_seq_no["client"]
  OBVIOUS
<1>6. CASE pc["client"] = "send"
  <2> PICK p : p = AckPacket("server", "ACK", Addr["client"], n)
    OBVIOUS
  <2>1. DataAccepted("server", r) /\ ~FinAccepted("server", r) /\ r.seq_no = n
    BY <1>3, <1>6 DEF Asks, DataAccepted, FinAccepted
  <2>2. ReceiveData("server", i)
    BY <1>4, <2>1 DEF ReceiveFin, ReceiveOther
  <2>3. /\ pc' = [pc EXCEPT !["server"] = "reply"] /\ wire' = Transmit(w, p, Addr["client"])
        /\ dest_seq_no' = [dest_seq_no EXCEPT !["server"] = n]
        /\ UNCHANGED <<src_seq_no, destport>>
    BY <1>4, <1>5, <2>1, <2>2 DEF ReceiveData, LeaveLoop, Goto
  <2>4. /\ p.daddr = Addr["client"] /\ p.saddr = Addr["server"] /\ p.source_port = Port["server"]
        /\ p.seq_no = src_seq_no["server"] /\ p.type = "ACK" /\ p.valid
        /\ p.dest_port = destport["server"] /\ p.ack_no = n
    BY DEF AckPacket, Header
  <2>5. /\ pc'["client"] = "send" /\ pc'["server"] = "reply" /\ dest_addr'["server"] = Addr["client"]
        /\ dest_seq_no'["server"] = n /\ dest_seq_no'["client"] = src_seq_no["server"]
    BY <1>1, <1>4, <1>5, <1>6, <2>3, Shapes, TwoEnds DEF ClientsTurn, Knows
  <2>6. wire'["client"] = <<p>> /\ wire'["server"] = <<>>
    BY <1>1, <1>4, <1>6, <2>3, <2>4, Arrives, TwoEnds DEF ClientsTurn, Stopped
  <2>7. Taken(p)'
    BY <1>1, <2>3, <2>4, <2>5 DEF Taken, AckAccepted, SamePort, ClientsTurn, Ported, TwoHosts
  <2>8. AtClient'
    BY <2>5, <2>6, <2>7 DEF AtClient
  <2>9. ServersTurn'
    BY <1>1, <2>3, <2>5, <2>6, <2>8, TwoEnds DEF ServersTurn, ClientsTurn, Ported, Knows
  <2> QED
    BY <2>9 DEF Joint
<1>7. CASE pc["client"] = "close"
  <2> PICK p : p = AckPacket("server", "FIN_ACK", Addr["client"], dest_seq_no["server"])
    OBVIOUS
  <2>1. FinAccepted("server", r) /\ ~DataAccepted("server", r)
    BY <1>3, <1>7 DEF Asks, DataAccepted, FinAccepted
  <2>2. ReceiveFin("server", i)
    BY <1>4, <2>1 DEF ReceiveData, ReceiveOther
  <2>3. /\ pc' = [pc EXCEPT !["server"] = "accept_close"] /\ wire' = Transmit(w, p, Addr["client"])
        /\ UNCHANGED <<src_seq_no, dest_seq_no, destport>>
    BY <1>4, <1>5, <2>1, <2>2 DEF ReceiveFin, EnterLoop, Goto, proto
  <2>4. /\ p.daddr = Addr["client"] /\ p.saddr = Addr["server"] /\ p.source_port = Port["server"]
        /\ p.seq_no = src_seq_no["server"] /\ p.type = "FIN_ACK" /\ p.valid
        /\ p.dest_port = destport["server"] /\ p.ack_no = dest_seq_no["server"]
    BY DEF AckPacket, Header
  <2>5. pc'["client"] = "close" /\ pc'["server"] = "accept_close"
    BY <1>7, <2>3, Shapes
  <2>6. wire'["client"] = <<p>> /\ wire'["server"] = <<>>
    BY <1>1, <1>4, <1>7, <2>3, <2>4, Arrives, TwoEnds DEF ClientsTurn, Stopped
  <2>7. AckAccepted("client", p, "FIN_ACK")'
    BY <1>1, <1>7, <2>3, <2>4, TwoEnds DEF AckAccepted, SamePort, ClientsTurn, Ported, Knows, TwoHosts
  <2>8. Ported' /\ Knows("client")' /\ Knows("server")'
    BY <1>1, <1>7, <2>3, TwoEnds DEF ClientsTurn, Ported, Knows
  <2> QED
    BY <2>4, <2>5, <2>6, <2>7, <2>8 DEF Joint, Closing
<1> QED
  BY <1>2, <1>6, <1>7

\* The reply comes behind the acknowledgement, if the client still waits for it.
LEMMA ServerReplyJoint ==
  ASSUME TypeOK, TwoHosts, Joint, NEW len \in Lens, ServerReply(len), Smooth'
  PROVE  Joint'
<1>0. /\ pc["server"] = "reply" /\ ~wrapped'
      /\ \E text : SendMessage("server", len, text)
  BY DEF ServerReply, Smooth
<1>1. ServersTurn
  BY <1>0 DEF Joint, Greeting, ClientsTurn, Closing, Parted, Alone
<1>2. dest_addr["server"] = Addr["client"] /\ Ported /\ Knows("client") /\ Knows("server")
  BY <1>0, <1>1 DEF ServersTurn
<1>3. PICK seq, p :
        /\ seq \in Nat /\ seq # 0 /\ Minus(seq, src_seq_no["server"]) = len
        /\ src_seq_no' = [src_seq_no EXCEPT !["server"] = seq]
        /\ pc' = [pc EXCEPT !["server"] = "send"] /\ wire' = Transmit(wire, p, Addr["client"])
        /\ UNCHANGED <<dest_seq_no, destport, dest_addr>>
        /\ p.daddr = Addr["client"] /\ p.saddr = Addr["server"] /\ p.source_port = Port["server"]
        /\ p.dest_port = destport["server"] /\ p.type = "DATA" /\ p.valid
        /\ p.seq_no = seq /\ p.ack_no = dest_seq_no["server"] /\ p.databytes = len
  BY <1>0, <1>2, SendsData, TwoEnds
<1>4. /\ pc'["server"] = "send" /\ pc'["client"] = pc["client"]
      /\ src_seq_no'["server"] = seq /\ src_seq_no'["client"] = src_seq_no["client"]
  BY <1>3, Shapes, TwoEnds
<1>5. Replies(p)'
  BY <1>2, <1>3, <1>4, TwoEnds DEF Replies, DataAccepted, InSession, SamePort, TwoHosts, Ported, Knows
<1>6. pc["client"] \notin Stopped /\ wire["server"] = <<>> /\ AtClient
  BY <1>1 DEF ServersTurn, Stopped
<1>7. AtClient' /\ wire'["server"] = <<>>
  <2>1. CASE pc["client"] = "send"
    <3>1. PICK a : wire["client"] = <<a>> /\ Taken(a)
      BY <1>0, <1>6, <2>1 DEF AtClient
    <3>2. wire'["client"] = <<a, p>> /\ wire'["server"] = <<>>
      BY <1>3, <1>6, <3>1, Arrives, TwoEnds
    <3>3. Taken(a)'
      BY <1>3, <1>4, <3>1 DEF Taken, AckAccepted
    <3> QED
      BY <1>4, <1>5, <2>1, <3>2, <3>3 DEF AtClient
  <2>2. CASE pc["client"] = "receive"
    <3>1. wire["client"] = <<>>
      BY <1>0, <1>6, <2>2 DEF AtClient
    <3>2. wire'["client"] = <<p>> /\ wire'["server"] = <<>>
      BY <1>3, <1>6, <3>1, Arrives, TwoEnds
    <3> QED
      BY <1>4, <1>5, <2>2, <3>2 DEF AtClient
  <2> QED
    BY <1>1, <2>1, <2>2 DEF ServersTurn
<1> QED
  BY <1>1, <1>2, <1>3, <1>4, <1>7, TwoEnds DEF Joint, ServersTurn, Ported, Knows

\* The server goes on, or ends and leaves the client to its retries.
LEMMA PromptJoint ==
  ASSUME TypeOK, Joint, NEW y \in BOOLEAN, Prompt(y)
  PROVE  Joint'
<1>0. pc["server"] = "prompt" /\ UNCHANGED <<src_seq_no, dest_seq_no, destport, dest_addr>>
  BY DEF Prompt, proto
<1>1. Parted
  BY <1>0 DEF Joint, Greeting, ClientsTurn, ServersTurn, Closing, Alone
<1>2. CASE y
  <2>1. /\ pc' = [pc EXCEPT !["server"] = "done"] /\ wire' = [wire EXCEPT !["server"] = <<>>]
    BY <1>2 DEF Prompt, Exit, Goto
  <2>2. pc'["client"] = pc["client"] /\ pc'["server"] = "done"
        /\ wire'["client"] = <<>> /\ wire'["server"] = <<>>
    BY <1>1, <2>1, Shapes DEF Parted
  <2> QED
    BY <1>0, <1>1, <2>2 DEF Joint, Parted, Alone
<1>3. CASE ~y
  <2>1. pc' = [pc EXCEPT !["server"] = "accept"] /\ wire' = wire
    BY <1>3 DEF Prompt, Goto
  <2>2. pc'["client"] = pc["client"] /\ pc'["server"] = "accept"
    BY <2>1, Shapes
  <2>3. ASSUME NEW p PROVE Asks(p) => Asks(p)'
    BY <1>0, <2>2 DEF Asks, DataAccepted, FinAccepted, SynAccepted, InSession
  <2>4. AtServer'
    BY <1>0, <1>1, <2>1, <2>2, <2>3 DEF Parted, AtServer, Owed
  <2> QED
    BY <1>0, <1>1, <2>1, <2>2, <2>4 DEF Joint, Parted
<1> QED
  BY <1>2, <1>3

-----------------------------------------------------------------------------
(* Time. *)

\* As long as the server is there, a wait ends with a packet.
LEMMA SomethingComes ==
  ASSUME Joint, NEW e \in End, Waiting(e), Quiet(e)
  PROVE  Alone /\ e = "client" /\ pc["client"] = "connect"
<1>1. ASSUME AtServer, wire["server"] = <<>>
      PROVE  pc["server"] \notin Owed /\ pc["client"] \notin Asking
  BY <1>1, Pairs DEF AtServer
<1>2. e \in {"client", "server"} /\ (e = "client" => Peer(e) = "server") /\ (e = "server" => Peer(e) = "client")
  BY TwoEnds
<1>3. pc[e] \in LoopLabels /\ wire[e] = <<>>
      /\ (wire[Peer(e)] = <<>> \/ pc[Peer(e)] \in Stopped \cup {"closed"})
  BY DEF Waiting, Quiet
<1>4. ~Greeting
  BY <1>2, <1>3, Pairs DEF Greeting, Stopped
<1>5. ~Closing
  <2>1. SUFFICES ASSUME Closing PROVE FALSE
    OBVIOUS
  <2>2. wire["client"] # <<>> /\ pc["client"] = "close"
    BY <2>1, Pairs DEF Closing
  <2> QED
    BY <1>2, <1>3, <2>2 DEF Stopped
<1>6. ~ClientsTurn
  BY <1>1, <1>2, <1>3 DEF ClientsTurn, Stopped, Owed, Asking, LoopLabels
<1>7. ~Parted
  BY <1>1, <1>2, <1>3 DEF Parted, Stopped, Owed, Asking, LoopLabels
<1>8. ~ServersTurn
  BY <1>2, <1>3, Pairs DEF ServersTurn, AtClient, Stopped, LoopLabels
<1>9. Alone
  BY <1>4, <1>5, <1>6, <1>7, <1>8 DEF Joint
<1> QED
  BY <1>2, <1>3, <1>9 DEF Alone, LoopLabels

LEMMA TimeoutJoint ==
  ASSUME TypeOK, TwoHosts, Joint, Smooth, Smooth', NEW e \in End, Timeout(e)
  PROVE  Joint'
<1>1. Quiet(e) /\ Waiting(e)
  BY DEF Timeout, Smooth
<1>2. Alone /\ e = "client" /\ pc["client"] = "connect"
  BY <1>1, SomethingComes
<1>3. Again("client", wire, dest_addr["client"]) /\ UNCHANGED dest_addr
  BY <1>2 DEF Timeout
<1>4. dest_addr["client"] = Addr["server"] /\ pc["server"] \in Stopped
  BY <1>2 DEF Alone, Stopped
<1>5. Transmit(wire, packet["client"], Addr["server"]) = wire
  BY <1>4, Lost, Shapes
<1>6. \/ pc' = pc /\ wire' = wire
      \/ pc' = [pc EXCEPT !["client"] = "exited"] /\ wire' = [wire EXCEPT !["client"] = <<>>]
  BY <1>2, <1>3, <1>4, <1>5 DEF Again, GiveUp, Exit, Goto
<1>7. /\ pc'["client"] \in {"connect", "exited"} /\ pc'["server"] = "done"
      /\ wire'["client"] = <<>> /\ wire'["server"] = <<>>
  BY <1>2, <1>6, Shapes DEF Alone
<1> QED
  BY <1>3, <1>4, <1>7 DEF Joint, Alone

-----------------------------------------------------------------------------
(* The whole. *)

\* A number that has not wrapped is not 0.
LEMMA NonzeroSend ==
  ASSUME TypeOK, NEW e \in End, NEW len \in Lens, NEW text, SendMessage(e, len, text), ~wrapped',
         \A x \in End : src_seq_no[x] # 0
  PROVE  \A x \in End : src_seq_no'[x] # 0
<1> PICK seq : seq = Plus(src_seq_no[e], len)
  OBVIOUS
<1>1. src_seq_no' = [src_seq_no EXCEPT ![e] = seq]
  BY DEF SendMessage
<1>2. ~(src_seq_no[e] + len >= SeqMod)
  BY DEF SendMessage
<1>3. src_seq_no[e] \in Nat /\ len \in Nat /\ len > 0 /\ SeqMod \in Nat
  BY Shapes, RltpConstants DEF SeqNo
<1>4. seq = src_seq_no[e] + len
  BY <1>2, <1>3 DEF Plus
<1>5. seq # 0
  BY <1>3, <1>4
<1> QED
  BY <1>1, <1>5, Shapes

\* Faults and wrapping are not forgotten.
LEMMA SmoothBefore ==
  ASSUME TypeOK, [Next]_vars, Smooth'
  PROVE  Smooth
<1>0. faults \in Nat
  BY DEF TypeOK
<1>1. faults' = faults \/ faults' = faults + 1
  BY DEF Next, ClientStep, ServerStep, EndStep, Network, vars, history, proto,
     Connect, Close, ClientSend, ServerReply, SendMessage, ConnectRecv, CloseRecv, Prompt,
     AcceptConnect, AcceptConnectRecv, Timeout, SendRecv, AcceptCloseRecv, ReceiveData,
     ReceiveFin, ReceiveOther, Lose, Duplicate, Corrupt, StraySyn, Fault, Recv
<1>2. wrapped => wrapped'
  BY DEF Next, ClientStep, ServerStep, EndStep, Network, vars, history, proto,
     Connect, Close, ClientSend, ServerReply, SendMessage, ConnectRecv, CloseRecv, Prompt,
     AcceptConnect, AcceptConnectRecv, Timeout, SendRecv, AcceptCloseRecv, ReceiveData,
     ReceiveFin, ReceiveOther, Lose, Duplicate, Corrupt, StraySyn, Fault
<1> QED
  BY <1>0, <1>1, <1>2 DEF Smooth

\* The network commits no fault.
LEMMA NoFault ==
  ASSUME TypeOK, Smooth, Smooth', Network
  PROVE  FALSE
  BY DEF Network, Lose, Duplicate, Corrupt, StraySyn, Fault, Smooth

\* Only rtlp_send_message changes src_seq_no.
LEMMA NonzeroStep ==
  ASSUME TypeOK, [Next]_vars, ~wrapped', \A x \in End : src_seq_no[x] # 0
  PROVE  \A x \in End : src_seq_no'[x] # 0
<1>1. ASSUME NEW len \in Lens, ClientSend(len)
      PROVE  \A x \in End : src_seq_no'[x] # 0
  BY <1>1, NonzeroSend, TwoEnds DEF ClientSend
<1>2. ASSUME NEW len \in Lens, ServerReply(len)
      PROVE  \A x \in End : src_seq_no'[x] # 0
  BY <1>2, NonzeroSend, TwoEnds DEF ServerReply
<1>3. CASE UNCHANGED src_seq_no
  BY <1>3
<1>4. \/ UNCHANGED src_seq_no
      \/ \E len \in Lens : ClientSend(len) \/ ServerReply(len)
  BY DEF Next, ClientStep, ServerStep, EndStep, Network, vars, proto,
     Connect, Close, ConnectRecv, CloseRecv, Prompt,
     AcceptConnect, AcceptConnectRecv, Timeout, SendRecv, AcceptCloseRecv, ReceiveData,
     ReceiveFin, ReceiveOther, Lose, Duplicate, Corrupt, StraySyn, Fault
<1> QED
  BY <1>1, <1>2, <1>3, <1>4

LEMMA JointStep ==
  ASSUME TypeOK, TwoHosts, JointInv, [Next]_vars
  PROVE  JointInv'
<1> SUFFICES ASSUME Smooth'
             PROVE  Joint' /\ \A e \in End : src_seq_no'[e] # 0
  BY DEF JointInv
<1>0. Smooth /\ ~wrapped'
  BY SmoothBefore DEF Smooth
<1>1. /\ Joint /\ \A e \in End : src_seq_no[e] # 0
      /\ src_seq_no["client"] # 0 /\ src_seq_no["server"] # 0
  BY <1>0, TwoEnds DEF JointInv
<1>2. \A e \in End : src_seq_no'[e] # 0
  BY <1>0, <1>1, NonzeroStep
<1>3. ASSUME ClientStep PROVE Joint'
  <2>1. ASSUME Connect PROVE Joint'
    BY <1>1, <2>1, ConnectJoint
  <2>2. ASSUME Close PROVE Joint'
    BY <1>1, <2>2, CloseJoint
  <2>3. ASSUME NEW len \in Lens, ClientSend(len) PROVE Joint'
    BY <1>1, <2>3, ClientSendJoint
  <2>4. ASSUME NEW i \in 1 .. Len(wire["client"]), ConnectRecv(i) PROVE Joint'
    BY <1>0, <1>1, <2>4, ConnectRecvJoint
  <2>5. ASSUME NEW i \in 1 .. Len(wire["client"]), CloseRecv(i) PROVE Joint'
    BY <1>0, <1>1, <2>5, CloseRecvJoint
  <2>6. ASSUME Timeout("client") PROVE Joint'
    BY <1>0, <1>1, <2>6, TimeoutJoint, TwoEnds
  <2>7. ASSUME NEW i \in 1 .. Len(wire["client"]), SendRecv("client", i) PROVE Joint'
    BY <1>0, <1>1, <2>7, ClientTold
  <2>8. ASSUME NEW i \in 1 .. Len(wire["client"]), AcceptCloseRecv("client", i) PROVE Joint'
    <3> PICK e : e = "client"
      OBVIOUS
    <3>1. e \in End /\ i \in 1 .. Len(wire[e]) /\ AcceptCloseRecv(e, i)
      BY <2>8, TwoEnds
    <3> QED
      BY <1>0, <1>1, <3>1, AcceptCloseRecvJoint
  <2>9. ASSUME NEW i \in 1 .. Len(wire["client"]),
               ReceiveData("client", i) \/ ReceiveFin("client", i) \/ ReceiveOther("client", i)
        PROVE  Joint'
    BY <1>0, <1>1, <2>9, ClientReads
  <2> QED
    BY <1>3, <2>1, <2>2, <2>3, <2>4, <2>5, <2>6, <2>7, <2>8, <2>9 DEF ClientStep, EndStep
<1>4. ASSUME ServerStep PROVE Joint'
  <2>1. ASSUME NEW len \in Lens, ServerReply(len) PROVE Joint'
    BY <1>1, <2>1, ServerReplyJoint
  <2>2. ASSUME NEW y \in BOOLEAN, Prompt(y) PROVE Joint'
    BY <1>1, <2>2, PromptJoint
  <2>3. ASSUME NEW i \in 1 .. Len(wire["server"]), AcceptConnect(i) PROVE Joint'
    BY <1>0, <1>1, <2>3, AcceptConnectJoint
  <2>4. ASSUME NEW i \in 1 .. Len(wire["server"]), AcceptConnectRecv(i) PROVE Joint'
    BY <1>0, <1>1, <2>4, AcceptConnectRecvJoint
  <2>5. ASSUME Timeout("server") PROVE Joint'
    BY <1>0, <1>1, <2>5, TimeoutJoint, TwoEnds
  <2>6. ASSUME NEW i \in 1 .. Len(wire["server"]), SendRecv("server", i) PROVE Joint'
    BY <1>0, <1>1, <2>6, ReplyTold
  <2>7. ASSUME NEW i \in 1 .. Len(wire["server"]), AcceptCloseRecv("server", i) PROVE Joint'
    <3> PICK e : e = "server"
      OBVIOUS
    <3>1. e \in End /\ i \in 1 .. Len(wire[e]) /\ AcceptCloseRecv(e, i)
      BY <2>7, TwoEnds
    <3> QED
      BY <1>0, <1>1, <3>1, AcceptCloseRecvJoint
  <2>8. ASSUME NEW i \in 1 .. Len(wire["server"]),
               ReceiveData("server", i) \/ ReceiveFin("server", i) \/ ReceiveOther("server", i)
        PROVE  Joint'
    BY <1>0, <1>1, <2>8, ServerReads
  <2> QED
    BY <1>4, <2>1, <2>2, <2>3, <2>4, <2>5, <2>6, <2>7, <2>8 DEF ServerStep, EndStep
<1>5. ASSUME Network PROVE Joint'
  BY <1>0, <1>5, NoFault
<1>6. ASSUME UNCHANGED vars PROVE Joint'
  <2>1. UNCHANGED <<pc, wire, src_seq_no, dest_seq_no, destport, dest_addr>>
    BY <1>6 DEF vars, proto
  <2>2. CASE Greeting
    BY <2>1, <2>2 DEF Joint, Greeting, Ported, Knows, SynAckAccepted
  <2>3. ASSUME AtServer PROVE AtServer'
    BY <2>1, <2>3 DEF AtServer, Acks, Asks, AckAccepted, DataAccepted, FinAccepted, SynAccepted, InSession
  <2>4. CASE ClientsTurn
    BY <2>1, <2>3, <2>4 DEF Joint, ClientsTurn, Ported, Knows
  <2>5. ASSUME AtClient PROVE AtClient'
    BY <2>1, <2>5 DEF AtClient, Taken, Replies, AckAccepted, DataAccepted, InSession
  <2>6. CASE ServersTurn
    BY <2>1, <2>5, <2>6 DEF Joint, ServersTurn, Ported, Knows
  <2>7. CASE Closing
    BY <2>1, <2>7 DEF Joint, Closing, Ported, Knows, AckAccepted
  <2>8. CASE Parted
    BY <2>1, <2>3, <2>8 DEF Joint, Parted
  <2>9. CASE Alone
    BY <2>1, <2>9 DEF Joint, Alone
  <2> QED
    BY <1>1, <2>2, <2>4, <2>6, <2>7, <2>8, <2>9 DEF Joint
<1>7. Joint'
  BY <1>3, <1>4, <1>5, <1>6 DEF Next
<1> QED
  BY <1>2, <1>7

LEMMA JointInit ==
  ASSUME Init
  PROVE  JointInv
<1>1. \A e \in End : src_seq_no[e] # 0
  BY RltpConstants DEF Init
<1>2. /\ pc["client"] = "closed" /\ pc["server"] = "accept"
      /\ wire["client"] = <<>> /\ wire["server"] = <<>>
  BY TwoEnds DEF Init
<1>3. Parted
  BY <1>2 DEF Parted, AtServer, Owed, Asking
<1> QED
  BY <1>1, <1>3 DEF JointInv, Joint

\* On two hosts, with ports the class can compare and whatever the lengths and
\* the number of the messages and of the connections: as long as the network
\* commits no fault and no number wraps, no retry of the wait loops of rltp.cpp runs out,
\* except that of a client that connects after the server has been told to exit.
THEOREM SmoothRunsSucceed == ASSUME TwoHosts PROVE Spec => []FailsOnlyAfterFault
<1>1. Init => JointInv
  BY JointInit
<1>2. TypeOK /\ JointInv /\ [Next]_vars => JointInv'
  BY JointStep
<1>3. JointInv => FailsOnlyAfterFault
  BY DEF JointInv, Smooth, FailsOnlyAfterFault, Joint, Greeting, ClientsTurn, ServersTurn,
     Closing, Parted, Alone
<1>4. Spec => []TypeOK
  BY TypeCorrect
<1> QED
  BY <1>1, <1>2, <1>3, <1>4, PTL DEF Spec

=============================================================================
