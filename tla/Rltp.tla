-------------------------------- MODULE Rltp --------------------------------
(***************************************************************************)
(* The reliable transport of Assignment-3: class rltp (rltp.cpp) at the    *)
(* two ends of a connection, driven by client_test.cpp and server_test.cpp,*)
(* over a raw IP network that can delay, lose, duplicate, reorder and      *)
(* corrupt packets.                                                        *)
(*                                                                         *)
(* Every wait of the code is `while (retry < MAX_RETRY) { send; select;    *)
(* recv; check; retry++ }`.  One iteration's receive, its check and the    *)
(* next iteration's send are one action here: the process does nothing     *)
(* observable in between.                                                  *)
(*                                                                         *)
(* The client stands for any user of the class: it may close and connect   *)
(* again, which client_test, whose loop never ends, does not.              *)
(***************************************************************************)
EXTENDS Integers, Sequences

CONSTANTS
  Port,       \* port of each end, an unsigned short in the header
  Addr,       \* IP address of the host of each end (equal: one shared host)
  OtherPort,  \* port and address of a client that gave up: its last SYN
  OtherAddr,  \*   may still reach the server
  ISN,        \* src_seq_no drawn at each end by rand()%200 + 1
  Lens,       \* lengths of the messages the program sends (size()+1)
  SeqMod,     \* sequence numbers are unsigned: 2^32 in the code
  MAX_RETRY,  \* 3 in rltp.h
  QueueCap,   \* packets a raw socket holds before the kernel drops
  MaxMsgs,    \* bound: requests the client sends in all
  MaxConns,   \* bound: connections the client opens
  MaxFaults   \* bound: network faults and late answers in a behaviour

End == {"client", "server"}
Peer(e) == IF e = "client" THEN "server" ELSE "client"

Types == {"ACK", "FIN", "SYN", "DATA", "SYN_ACK", "FIN_ACK"}
SeqNo == 0 .. SeqMod - 1
PortNo == 0 .. 65535
Addrs == {Addr["client"], Addr["server"], OtherAddr}

ASSUME RltpConstants ==
  /\ SeqMod \in Nat \ {0, 1}
  /\ MAX_RETRY \in Nat \ {0}
  /\ Lens \subseteq 1 .. SeqMod - 1
  /\ ISN \in [End -> SeqNo \ {0}]
  /\ Port \in [End -> PortNo]
  /\ OtherPort \in PortNo
  /\ Port["client"] # Port["server"]
  /\ OtherPort \notin {Port["client"], Port["server"]}
  /\ DOMAIN Addr = End
  /\ {QueueCap, MaxMsgs, MaxConns, MaxFaults} \subseteq Nat

VARIABLES
  pc,           \* where each process is: the call it is blocked in
  retry,        \* the local `retry` of the wait loop it is in
  packet,       \* the packet that loop (re)transmits
  connected, src_seq_no, dest_seq_no, destport, dest_addr,  \* class rltp
  times,        \* client_test's request counter
  conns,        \* connections opened so far
  wire,         \* packets on their way to, or queued at, each socket
  faults,       \* faults the network has committed so far
  log,          \* history: what each end passed to rtlp_send_message
  acked,        \* history: how many of those calls returned 1
  delivered,    \* history: what rtlp_receive_message returned at each end
  wrapped       \* history: some src_seq_no has passed 2^32

proto == <<connected, src_seq_no, dest_seq_no, destport>>
history == <<log, acked, delivered, wrapped>>
vars == <<pc, retry, packet, proto, dest_addr, times, conns, wire, faults,
          history>>

-----------------------------------------------------------------------------
(* Unsigned arithmetic and the header. *)

Plus(x, y) == IF x + y < SeqMod THEN x + y ELSE x + y - SeqMod
Minus(x, y) == IF x >= y THEN x - y ELSE x - y + SeqMod

\* The class keeps ports as short: ntohs(header) == port fails from 2^15 on.
SamePort(x, port) == x = port /\ port < 32768

Packet ==
  [type : Types, source_port : PortNo, dest_port : PortNo,
   seq_no : SeqNo, ack_no : SeqNo, databytes : Nat, data : Nat,
   valid : BOOLEAN, saddr : Addrs, daddr : Addrs]

NoPacket == [type |-> "none"]

Message == [seq_no : SeqNo, databytes : Nat, data : Nat]

\* A header filled in by e; every header carries both numbers but send_SYN's.
Header(e, type, dport, daddr, seq, ack) ==
  [type |-> type, source_port |-> Port[e], dest_port |-> dport,
   seq_no |-> seq, ack_no |-> ack, databytes |-> 0, data |-> 0,
   valid |-> TRUE, saddr |-> Addr[e], daddr |-> daddr]

\* Mutant of AckPacket: it acknowledges the number before the last.
AckPacketStale(e, type, daddr, ack) ==
  Header(e, type, destport[e], daddr, src_seq_no[e], dest_seq_no[e])

\* send_ACK (any type), send_FIN: to the current peer.
AckPacket(e, type, daddr, ack) ==
  Header(e, type, destport[e], daddr, src_seq_no[e], ack)

SynPacket(e) ==
  Header(e, "SYN", Port["server"], Addr["server"], src_seq_no[e], 0)

StraySynPacket ==
  [type |-> "SYN", source_port |-> OtherPort, dest_port |-> Port["server"],
   seq_no |-> 1, ack_no |-> 0, databytes |-> 0, data |-> 0,
   valid |-> TRUE, saddr |-> OtherAddr, daddr |-> Addr["server"]]

(***************************************************************************)
(* sendto: a packet carries the address its IP header was built with and   *)
(* is routed by the current dest_addr.  It is queued at every raw socket   *)
(* of the host it reaches: the kernel does not know RLTP's ports.          *)
(***************************************************************************)
Stopped == {"exited", "done"}

Transmit(w, p, addr) ==
  [x \in End |->
     IF /\ p.daddr = addr /\ Addr[x] = addr
        /\ pc[x] \notin Stopped
        /\ Len(w[x]) < QueueCap
     THEN Append(w[x], p) ELSE w[x]]

RemoveAt(s, i) == [j \in 1 .. Len(s) - 1 |-> IF j < i THEN s[j] ELSE s[j + 1]]

(***************************************************************************)
(* recv_message at e takes the packet at position i (one ahead of its turn *)
(* is the network reordering); recvfrom stores its sender in dest_addr,    *)
(* whoever it is.  Left is what remains on the wires.                      *)
(***************************************************************************)
Left(e, i) == [wire EXCEPT ![e] = RemoveAt(@, i)]

Recv(e, i) ==
  /\ i > 1 => faults < MaxFaults
  /\ faults' = IF i > 1 THEN faults + 1 ELSE faults
  /\ dest_addr' = [dest_addr EXCEPT ![e] = wire[e][i].saddr]

-----------------------------------------------------------------------------
(* The checks of the receive functions. *)

\* Mutant of AckAccepted: any acknowledgement of the peer will do.
AckAcceptedAnyNumber(e, p, type) ==
  /\ p.valid
  /\ p.type = type
  /\ SamePort(p.dest_port, Port[e])
  /\ SamePort(p.source_port, destport[e])

\* recv_ACK(type) > 0.
AckAccepted(e, p, type) ==
  /\ p.valid
  /\ p.type = type
  /\ p.ack_no = src_seq_no[e]
  /\ SamePort(p.dest_port, Port[e])
  /\ SamePort(p.source_port, destport[e])
  /\ p.seq_no = dest_seq_no[e]

\* recv_SYN_ACK > 0: a packet from another port is reported as success too.
SynAckAccepted(e, p) ==
  /\ p.valid
  /\ p.type = "SYN_ACK"
  /\ p.ack_no = src_seq_no[e]
  /\ SamePort(p.dest_port, Port[e])
  /\ SamePort(p.source_port, destport[e]) => p.seq_no > 0

\* recv_SYN > 0: any client's SYN will do.
SynAccepted(e, p) ==
  /\ p.valid
  /\ p.type = "SYN"
  /\ SamePort(p.dest_port, Port[e])
  /\ p.seq_no > 0

\* The checks rtlp_receive_message makes before it looks at the type.
InSession(e, p) ==
  /\ p.valid
  /\ SamePort(p.dest_port, Port[e])
  /\ SamePort(p.source_port, destport[e])
  /\ p.ack_no = src_seq_no[e]

\* Mutant of DataAccepted: without the tests on the two numbers (either of them
\* alone still keeps a copy out, because the programs take turns).
DataAcceptedAnyNumber(e, p) ==
  /\ p.valid
  /\ p.type = "DATA"
  /\ SamePort(p.dest_port, Port[e])
  /\ SamePort(p.source_port, destport[e])

DataAccepted(e, p) ==
  /\ InSession(e, p)
  /\ p.type = "DATA"
  /\ Minus(p.seq_no, dest_seq_no[e]) = p.databytes

FinAccepted(e, p) ==
  /\ InSession(e, p)
  /\ p.type = "FIN"
  /\ p.seq_no = dest_seq_no[e]

-----------------------------------------------------------------------------
(* The wait loops. *)

LoopLabels == {"connect", "accept_connect", "send", "close", "accept_close"}
Waiting(e) == pc[e] \in LoopLabels

Goto(e, label) == pc' = [pc EXCEPT ![e] = label]

\* The process ends and the kernel discards what its socket still holds.
Exit(e, label, w) ==
  /\ Goto(e, label)
  /\ wire' = [w EXCEPT ![e] = <<>>]
  /\ retry' = [retry EXCEPT ![e] = 0]
  /\ packet' = [packet EXCEPT ![e] = NoPacket]

\* Enter a wait loop: build the packet once and send it.
EnterLoop(e, label, p, w, addr) ==
  /\ Goto(e, label)
  /\ retry' = [retry EXCEPT ![e] = 0]
  /\ packet' = [packet EXCEPT ![e] = p]
  /\ wire' = Transmit(w, p, addr)

\* Leave it with the network at w.
LeaveLoop(e, label, w) ==
  /\ Goto(e, label)
  /\ retry' = [retry EXCEPT ![e] = 0]
  /\ packet' = [packet EXCEPT ![e] = NoPacket]
  /\ wire' = w

\* accept_close returns: server_test asks whether to exit, client_test, which
\* never expects a FIN, exits.
AcceptCloseReturns(e, w) ==
  /\ connected' = [connected EXCEPT ![e] = FALSE]
  /\ IF e = "server" THEN LeaveLoop(e, "prompt", w) ELSE Exit(e, "exited", w)

\* Mutant of GiveUp: close returns as if it had succeeded.
GiveUpCloses(e, w) ==
  IF pc[e] = "close"
  THEN LeaveLoop(e, "closed", w) /\ connected' = [connected EXCEPT ![e] = FALSE]
  ELSE Exit(e, "exited", w) /\ UNCHANGED connected

\* What follows the last retry: accept_close alone returns as if it had
\* succeeded (its test is on rst), every other caller ends the process.
GiveUp(e, w) ==
  IF pc[e] = "accept_close"
  THEN AcceptCloseReturns(e, w)
  ELSE Exit(e, "exited", w) /\ UNCHANGED connected

\* Mutants of Again: one try too many, and no count of the tries.
AgainOnceMore(e, w, addr) ==
  IF retry[e] + 1 <= MAX_RETRY
  THEN /\ retry' = [retry EXCEPT ![e] = @ + 1]
       /\ wire' = Transmit(w, packet[e], addr)
       /\ UNCHANGED <<pc, packet, connected>>
  ELSE GiveUp(e, w)

AgainUncounted(e, w, addr) ==
  /\ wire' = Transmit(w, packet[e], addr)
  /\ UNCHANGED <<pc, retry, packet, connected>>

\* An iteration without the wanted packet: count it and send again.
Again(e, w, addr) ==
  IF retry[e] + 1 < MAX_RETRY
  THEN /\ retry' = [retry EXCEPT ![e] = @ + 1]
       /\ wire' = Transmit(w, packet[e], addr)
       /\ UNCHANGED <<pc, packet, connected>>
  ELSE GiveUp(e, w)

Init ==
  /\ pc = [e \in End |-> IF e = "client" THEN "closed" ELSE "accept"]
  /\ retry = [e \in End |-> 0]
  /\ packet = [e \in End |-> NoPacket]
  /\ connected = [e \in End |-> FALSE]
  /\ src_seq_no = ISN
  /\ dest_seq_no = [e \in End |-> 0]
  /\ destport = [e \in End |-> 0]
  /\ dest_addr = [e \in End |-> OtherAddr]
  /\ times = 1
  /\ conns = 0
  /\ wire = [e \in End |-> <<>>]
  /\ faults = 0
  /\ log = [e \in End |-> <<>>]
  /\ acked = [e \in End |-> 0]
  /\ delivered = [e \in End |-> <<>>]
  /\ wrapped = FALSE

-----------------------------------------------------------------------------
(* Opening a connection. *)

\* client_test: set_dest(server), then connect() up to its first select.
Connect ==
  /\ pc["client"] = "closed"
  /\ ~connected["client"]
  /\ conns < MaxConns
  /\ conns' = conns + 1
  /\ destport' = [destport EXCEPT !["client"] = Port["server"]]
  /\ dest_addr' = [dest_addr EXCEPT !["client"] = Addr["server"]]
  /\ EnterLoop("client", "connect", SynPacket("client"), wire, Addr["server"])
  /\ UNCHANGED <<connected, src_seq_no, dest_seq_no, times, faults, history>>

\* connect() takes a packet: recv_SYN_ACK, then the ACK or another SYN.  A
\* SYN_ACK from another port leaves dest_seq_no as it was, and send_ACK exits
\* when that is still 0.
ConnectRecv(i) ==
  LET e == "client"
      p == wire[e][i]
      w == Left(e, i)
      seq == IF SamePort(p.source_port, destport[e]) THEN p.seq_no ELSE dest_seq_no[e]
  IN  /\ pc[e] = "connect"
      /\ Recv(e, i)
      /\ IF ~SynAckAccepted(e, p)
         THEN Again(e, w, p.saddr) /\ UNCHANGED dest_seq_no
         ELSE /\ dest_seq_no' = [dest_seq_no EXCEPT ![e] = seq]
              /\ IF seq = 0
                 THEN Exit(e, "exited", w) /\ UNCHANGED connected
                 ELSE /\ LeaveLoop(e, "ready",
                            Transmit(w, AckPacket(e, "ACK", p.saddr, seq), p.saddr))
                      /\ connected' = [connected EXCEPT ![e] = TRUE]
      /\ UNCHANGED <<src_seq_no, destport, times, conns, history>>

\* accept_connect blocks in recv_SYN until a SYN comes, whose sender becomes
\* the peer; then it builds the SYN_ACK and enters its loop.
AcceptConnect(i) ==
  LET e == "server"
      p == wire[e][i]
      w == Left(e, i)
  IN  /\ pc[e] = "accept"
      /\ Recv(e, i)
      /\ IF SynAccepted(e, p)
         THEN /\ destport' = [destport EXCEPT ![e] = p.source_port]
              /\ dest_seq_no' = [dest_seq_no EXCEPT ![e] = p.seq_no]
              /\ EnterLoop(e, "accept_connect",
                   Header(e, "SYN_ACK", p.source_port, p.saddr, src_seq_no[e], p.seq_no),
                   w, p.saddr)
         ELSE /\ wire' = w
              /\ UNCHANGED <<pc, retry, packet, destport, dest_seq_no>>
      /\ UNCHANGED <<connected, src_seq_no, times, conns, history>>

\* accept_connect() takes a packet while it waits for the ACK.
AcceptConnectRecv(i) ==
  LET e == "server"
      p == wire[e][i]
      w == Left(e, i)
  IN  /\ pc[e] = "accept_connect"
      /\ Recv(e, i)
      /\ IF AckAccepted(e, p, "ACK")
         THEN /\ LeaveLoop(e, "receive", w)
              /\ connected' = [connected EXCEPT ![e] = TRUE]
         ELSE Again(e, w, p.saddr)
      /\ UNCHANGED <<src_seq_no, dest_seq_no, destport, times, conns, history>>

-----------------------------------------------------------------------------
(* Transferring data. *)

\* rtlp_send_message up to its first select.
SendMessage(e, len, data) ==
  LET seq == Plus(src_seq_no[e], len)
      p == [AckPacket(e, "DATA", dest_addr[e], dest_seq_no[e])
              EXCEPT !.seq_no = seq, !.databytes = len, !.data = data]
  IN  /\ connected[e]
      /\ src_seq_no' = [src_seq_no EXCEPT ![e] = seq]
      /\ EnterLoop(e, "send", p, wire, dest_addr[e])
      /\ log' = [log EXCEPT ![e] =
                   Append(@, [seq_no |-> seq, databytes |-> len, data |-> data])]
      /\ wrapped' = (wrapped \/ src_seq_no[e] + len >= SeqMod)
      /\ UNCHANGED <<connected, dest_seq_no, destport, dest_addr, times, conns,
                     faults, acked, delivered>>

\* client_test sends "ECHO REQ times"; server_test answers request n with
\* "ECHO RES n+2" (it adds one twice).
ClientSend(len) ==
  /\ pc["client"] = "ready"
  /\ times <= MaxMsgs
  /\ SendMessage("client", len, times)

ServerReply(len) ==
  /\ pc["server"] = "reply"
  /\ SendMessage("server", len, delivered["server"][Len(delivered["server"])] + 2)

\* rtlp_send_message takes a packet: recv_ACK ends it, anything else is a
\* failed try; -1 makes both test programs exit.
SendRecv(e, i) ==
  LET p == wire[e][i]
      w == Left(e, i)
  IN  /\ pc[e] = "send"
      /\ Recv(e, i)
      /\ IF AckAccepted(e, p, "ACK")
         THEN /\ LeaveLoop(e, "receive", w)
              /\ acked' = [acked EXCEPT ![e] = @ + 1]
              /\ UNCHANGED connected
         ELSE Again(e, w, p.saddr) /\ UNCHANGED acked
      /\ UNCHANGED <<src_seq_no, dest_seq_no, destport, times, conns,
                     log, delivered, wrapped>>

\* rtlp_receive_message takes the next message: one ACK, never repeated.
\* A number that has wrapped to 0 makes send_ACK exit before it is returned.
ReceiveData(e, i) ==
  LET p == wire[e][i]
      w == Left(e, i)
  IN  /\ pc[e] = "receive"
      /\ DataAccepted(e, p)
      /\ Recv(e, i)
      /\ dest_seq_no' = [dest_seq_no EXCEPT ![e] = p.seq_no]
      /\ IF p.seq_no = 0
         THEN Exit(e, "exited", w) /\ UNCHANGED <<times, delivered>>
         ELSE /\ LeaveLoop(e, IF e = "client" THEN "ready" ELSE "reply",
                    Transmit(w, AckPacket(e, "ACK", p.saddr, p.seq_no), p.saddr))
              /\ delivered' = [delivered EXCEPT ![e] = Append(@, p.data)]
              /\ times' = IF e = "client" THEN times + 1 ELSE times
      /\ UNCHANGED <<connected, src_seq_no, destport, conns, log, acked, wrapped>>

\* ... a FIN: accept_close() up to its first select ...
ReceiveFin(e, i) ==
  LET p == wire[e][i]
  IN  /\ pc[e] = "receive"
      /\ FinAccepted(e, p)
      /\ Recv(e, i)
      /\ EnterLoop(e, "accept_close", AckPacket(e, "FIN_ACK", p.saddr, dest_seq_no[e]),
                   Left(e, i), p.saddr)
      /\ UNCHANGED <<proto, times, conns, history>>

\* ... and anything else, an old packet or a damaged one: status -1, on which
\* both test programs exit.
ReceiveOther(e, i) ==
  LET p == wire[e][i]
  IN  /\ pc[e] = "receive"
      /\ ~DataAccepted(e, p)
      /\ ~FinAccepted(e, p)
      /\ Recv(e, i)
      /\ Exit(e, "exited", Left(e, i))
      /\ UNCHANGED <<proto, times, conns, history>>

-----------------------------------------------------------------------------
(* Closing a connection. *)

\* close() up to its first select.
Close ==
  LET e == "client"
  IN  /\ pc[e] = "ready"
      /\ connected[e]
      /\ EnterLoop(e, "close", AckPacket(e, "FIN", dest_addr[e], dest_seq_no[e]),
                   wire, dest_addr[e])
      /\ UNCHANGED <<proto, dest_addr, times, conns, faults, history>>

\* close() takes a packet: recv_ACK(FIN_ACK), then the last ACK, sent once.
CloseRecv(i) ==
  LET e == "client"
      p == wire[e][i]
      w == Left(e, i)
  IN  /\ pc[e] = "close"
      /\ Recv(e, i)
      /\ IF AckAccepted(e, p, "FIN_ACK")
         THEN /\ LeaveLoop(e, "closed",
                   Transmit(w, AckPacket(e, "ACK", p.saddr, dest_seq_no[e]), p.saddr))
              /\ connected' = [connected EXCEPT ![e] = FALSE]
         ELSE Again(e, w, p.saddr)
      /\ UNCHANGED <<src_seq_no, dest_seq_no, destport, times, conns, history>>

\* accept_close() takes a packet while it waits for the last ACK.
AcceptCloseRecv(e, i) ==
  LET p == wire[e][i]
      w == Left(e, i)
  IN  /\ pc[e] = "accept_close"
      /\ Recv(e, i)
      /\ IF AckAccepted(e, p, "ACK") THEN AcceptCloseReturns(e, w)
                                     ELSE Again(e, w, p.saddr)
      /\ UNCHANGED <<src_seq_no, dest_seq_no, destport, times, conns, history>>

\* "Do you want to exit (y or n)".
Prompt(y) ==
  /\ pc["server"] = "prompt"
  /\ IF y THEN Exit("server", "done", wire)
          ELSE Goto("server", "accept") /\ UNCHANGED <<retry, packet, wire>>
  /\ UNCHANGED <<proto, dest_addr, times, conns, faults, history>>

-----------------------------------------------------------------------------
(* Time and the network. *)

\* Nothing is coming: e's queue is empty and so is its peer's, unless the peer
\* has stopped reading it.
Quiet(e) ==
  /\ wire[e] = <<>>
  /\ wire[Peer(e)] = <<>> \/ pc[Peer(e)] \in Stopped \cup {"closed"}

\* select returns 0.  When something is still coming, that answer is late,
\* which counts as a fault.
Timeout(e) ==
  /\ Waiting(e)
  /\ Quiet(e) \/ faults < MaxFaults
  /\ faults' = IF Quiet(e) THEN faults ELSE faults + 1
  /\ Again(e, wire, dest_addr[e])
  /\ UNCHANGED <<src_seq_no, dest_seq_no, destport, dest_addr, times, conns, history>>

Fault(w) ==
  /\ faults < MaxFaults
  /\ faults' = faults + 1
  /\ wire' = w
  /\ UNCHANGED <<pc, retry, packet, proto, dest_addr, times, conns, history>>

Lose(e, i) == Fault(Left(e, i))
Duplicate(e, i) == Len(wire[e]) < QueueCap /\ Fault([wire EXCEPT ![e] = Append(@, @[i])])
Corrupt(e, i) == wire[e][i].valid /\ Fault([wire EXCEPT ![e][i].valid = FALSE])
StraySyn == Fault(Transmit(wire, StraySynPacket, Addr["server"]))

EndStep(e) ==
  \/ Timeout(e)
  \/ \E i \in 1 .. Len(wire[e]) :
       \/ SendRecv(e, i) \/ AcceptCloseRecv(e, i)
       \/ ReceiveData(e, i) \/ ReceiveFin(e, i) \/ ReceiveOther(e, i)

ClientStep ==
  \/ Connect
  \/ Close
  \/ \E len \in Lens : ClientSend(len)
  \/ \E i \in 1 .. Len(wire["client"]) : ConnectRecv(i) \/ CloseRecv(i)
  \/ EndStep("client")

ServerStep ==
  \/ \E len \in Lens : ServerReply(len)
  \/ \E y \in BOOLEAN : Prompt(y)
  \/ \E i \in 1 .. Len(wire["server"]) : AcceptConnect(i) \/ AcceptConnectRecv(i)
  \/ EndStep("server")

Network ==
  \/ \E e \in End : \E i \in 1 .. Len(wire[e]) :
       Lose(e, i) \/ Duplicate(e, i) \/ Corrupt(e, i)
  \/ StraySyn

Next == ClientStep \/ ServerStep \/ Network

Spec == Init /\ [][Next]_vars

\* Both processes keep running, select always returns, and the user answers
\* the server's prompt; nothing is assumed of the network.
FairSpec == Spec /\ WF_vars(ClientStep) /\ WF_vars(ServerStep)
=============================================================================
