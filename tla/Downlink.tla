------------------------------ MODULE Downlink ------------------------------
(***************************************************************************)
(* The way down: the frames that the logic server writes into the Unix      *)
(* socket, the engine's read loop (UdsReader, try_decode,                   *)
(* handle_logic_frame), the budget of a session, and the transports that    *)
(* carry a packet to the client: UDP, and the connections of TCP and        *)
(* WebSocket, each of which is a virtual peer with a channel of its own.    *)
(*                                                                         *)
(* What a packet means to channel 2, its numbers and acks, is ReliableLink; *)
(* how a session begins and ends is SessionTable.  Here a packet is its     *)
(* message and part, and an ack confirms what the client has received.      *)
(***************************************************************************)
EXTENDS Integers, SequencesExt

CONSTANTS
    Clients,       \* each has one session; a client stands for its sess_id
    Kinds,         \* the connection transports in use, of "tcp" and "ws"
    PortMod,       \* 65536: next_port of a virtual peer is an AtomicU16
    ChanCap,       \* packets in the channel of a connection (256)
    QueueCap,      \* RETRANSMIT_QUEUE_CAP (64)
    Second,        \* the length of the budget's window, in ticks of now
    BytesPerKbps,  \* 125
    Threshold,     \* FRAGMENT_THRESHOLD (1100)
    MaxPayload,    \* what encode still fits into an MTU
    Overhead,      \* bytes of a packet beside its payload
    HeaderLen,     \* FRAME_HEADER_LEN (5)
    IdLen, TagLen, \* bytes of a sess_id (8), and of ch and msg_id (3)
    HelloLen,      \* bytes of the body of LogicHello (6)
    MaxBody,       \* MAX_FRAME_BODY (1 MiB)
    ChunkLen       \* bytes of one read from the socket (4096)

CONSTANTS
    Script,        \* the frames that the logic server may write
    MaxFrames,     \* bound: frames written on a link, less for a later one
    MaxBreaks,     \* bound: breaks of the link
    MaxConns,      \* bound: connections of clients
    MaxTime        \* bound: ticks of now

Reliable == {2, 3}

Frames == [ty : {"send", "multicast", "kick", "budget", "hello", "other"},
           to : Seq(Clients), ch : Nat, size : Nat, kbps : Nat]

ASSUME DownlinkAssumption ==
    /\ Kinds \subseteq {"tcp", "ws"}
    /\ {PortMod, ChanCap, QueueCap, Second, Threshold, HeaderLen, ChunkLen}
         \subseteq Nat \ {0}
    /\ {BytesPerKbps, MaxPayload, Overhead, IdLen, TagLen, HelloLen, MaxBody}
         \subseteq Nat
    /\ {MaxFrames, MaxBreaks, MaxConns, MaxTime} \subseteq Nat
    /\ Script \subseteq Frames

VARIABLES
    \* the socket of the logic server
    stream,     \* bytes written and not yet read
    readBuf,    \* UdsReader.read_buf
    todo,       \* the sends that are left of the frame being handled
    written,    \* history: the frames written on this link
    handled,    \* history: the frames taken off it
    breaks,     \* links lost so far
    \* sessions
    status,     \* "none", "active", "grace" or "gone"
    peer,       \* Session.peer
    retrans,    \* Session.retrans
    budget,     \* Session.budget_kbps, NoBudget for None
    window,     \* Session.bytes_window
    \* transports
    nextPort,   \* next_port of TcpReceiver and WsReceiver
    conns,      \* the connections so far, in the order of accept
    writers,    \* writers of both: the connection of a virtual peer
    \* clients and history
    received,   \* the packets each client has received
    sends,      \* calls of send_outbound so far
    allowed,    \* what check_budget let through, in order
    now         \* Instant::now, in ticks

linkVars == <<stream, readBuf, todo, written, handled, breaks>>
sessionVars == <<status, peer, retrans, budget, window>>
connVars == <<nextPort, conns, writers>>
vars == <<linkVars, sessionVars, connVars, received, sends, allowed, now>>
-----------------------------------------------------------------------------
(* Values.                                                                 *)

NoBudget == -1
NoConn == 0

\* 127.0.0.2:port and 127.0.0.3:port are the peers of TCP and WebSocket.
VirtualPeers == Kinds \X (0 .. PortMod - 1)

IsVirtual(p) == p \in VirtualPeers

\* The address from which a client's datagrams come.
UdpPeer(c) == <<"udp", c>>

Peers == VirtualPeers \cup {UdpPeer(c) : c \in Clients}

Packets == [to : Clients, ch : 0 .. 3, msg : Nat, part : Nat]

\* A connection: accepted and not started, open, or ended.
Connections == [owner : Clients, peer : VirtualPeers, chan : Seq(Packets),
                state : {"accepted", "open", "closed"}]

Sends == [to : Clients, ch : Nat, size : Nat]

\* What a byte stream that is cut in the wrong place would be decoded as.
Garbage == [ty |-> "other", to |-> <<>>, ch |-> 0, size |-> 0, kbps |-> 0]
-----------------------------------------------------------------------------
(* The frames of the logic server.                                         *)

\* The bytes after the header: the layouts of Send, Multicast, Kick,
\* SetBudget and LogicHello.
BodyLen(f) ==
    CASE f.ty = "send"      -> IdLen + TagLen + f.size
      [] f.ty = "multicast" -> 1 + IdLen * Len(f.to) + TagLen + f.size
      [] f.ty = "kick"      -> IdLen + 1
      [] f.ty = "budget"    -> IdLen + 2
      [] OTHER              -> HelloLen

\* A byte is known by the frame it belongs to and its place there.
Encoded(f) == [i \in 1 .. HeaderLen + BodyLen(f) |-> [of |-> f, at |-> i]]

\* A slip: the length is taken for that of the frame with its header.
MutTotal(buf) == BodyLen(buf[1].of)

\* The bytes of the frame at the front of the buffer, from its header.
Total(buf) == HeaderLen + BodyLen(buf[1].of)

HasFrame(buf) == Len(buf) >= HeaderLen /\ Len(buf) >= Total(buf)

\* try_decode: what is taken off the front of the buffer.
Decoded(buf) ==
    LET f == buf[1].of
    IN  IF SubSeq(buf, 1, Total(buf)) = Encoded(f) THEN f ELSE Garbage

\* read_frame gives up: there is no frame in the buffer and no room for one.
OverLimit == ~HasFrame(readBuf) /\ Len(readBuf) > MaxBody + HeaderLen

\* The logic server writes a frame; encode refuses a body that is too long.
Write(f) ==
    /\ Len(written) + breaks < MaxFrames
    /\ BodyLen(f) <= MaxBody
    /\ stream' = stream \o Encoded(f)
    /\ written' = Append(written, f)
    /\ UNCHANGED <<readBuf, todo, handled, breaks, sessionVars, connVars,
                   received, sends, allowed, now>>

\* read_frame reads more, however much there is.
ReadChunk(n) ==
    /\ todo = <<>> /\ ~HasFrame(readBuf) /\ ~OverLimit
    /\ n \in 1 .. Len(stream) /\ n <= ChunkLen
    /\ readBuf' = readBuf \o SubSeq(stream, 1, n)
    /\ stream' = SubSeq(stream, n + 1, Len(stream))
    /\ UNCHANGED <<todo, written, handled, breaks, sessionVars, connVars,
                   received, sends, allowed, now>>

\* The link is lost, or the read loop gave up: run_logic_link drops the loop
\* wherever it is, and the next link starts with an empty buffer.
LinkBreak ==
    /\ breaks < MaxBreaks
    /\ breaks' = breaks + 1
    /\ stream' = <<>> /\ readBuf' = <<>> /\ todo' = <<>>
    /\ written' = <<>> /\ handled' = <<>>
    /\ UNCHANGED <<sessionVars, connVars, received, sends, allowed, now>>
-----------------------------------------------------------------------------
(* handle_logic_frame.                                                     *)

InTable(c) == status[c] \in {"active", "grace"}

NoPackets == [ch \in Reliable |-> <<>>]

\* SessionTable::kick takes the session out of the table.
Kick(c) ==
    /\ status' = [status EXCEPT ![c] = IF InTable(c) THEN "gone" ELSE @]
    /\ retrans' = [retrans EXCEPT ![c] = NoPackets]
    /\ UNCHANGED <<peer, budget, window>>

SetBudget(c, kbps) ==
    /\ budget' = [budget EXCEPT ![c] = IF InTable(c) THEN kbps ELSE @]
    /\ UNCHANGED <<status, peer, retrans, window>>

\* The next frame of the buffer.  The sends of a Multicast follow one by one,
\* as every one of them may wait for a lock.
HandleLogicFrame ==
    /\ todo = <<>> /\ HasFrame(readBuf)
    /\ LET f == Decoded(readBuf) IN
       /\ readBuf' = SubSeq(readBuf, Total(readBuf) + 1, Len(readBuf))
       /\ handled' = Append(handled, f)
       /\ \/ /\ f.ty \in {"send", "multicast"}
             /\ todo' = [i \in DOMAIN f.to |->
                           [to |-> f.to[i], ch |-> f.ch, size |-> f.size]]
             /\ UNCHANGED sessionVars
          \/ f.ty = "kick" /\ Kick(f.to[1]) /\ UNCHANGED todo
          \/ f.ty = "budget" /\ SetBudget(f.to[1], f.kbps) /\ UNCHANGED todo
          \/ f.ty \in {"hello", "other"} /\ UNCHANGED <<todo, sessionVars>>
    /\ UNCHANGED <<stream, written, breaks, connVars, received, sends,
                   allowed, now>>
-----------------------------------------------------------------------------
(* send_outbound.                                                          *)

\* fragment::split, for channel 2 alone
Parts(m) == IF m.ch = 2 /\ m.size > Threshold
            THEN (m.size + Threshold - 1) \div Threshold ELSE 1

\* The channel exists, and datagram::encode fits the payload into an MTU.
Encodes(m) == m.ch <= 3 /\ (Parts(m) > 1 \/ m.size <= MaxPayload)

Packed(m) == [i \in 1 .. Parts(m) |->
                [to |-> m.to, ch |-> m.ch, msg |-> sends, part |-> i]]

Bytes(m) == m.size + Overhead * Parts(m)

Packs(m) == status[m.to] = "active" /\ Encodes(m)

\* How many of the packets RetransmitQueue::push takes.
Pushed(m) == IF m.ch \in Reliable
             THEN Min({Parts(m), QueueCap - Len(retrans[m.to][m.ch])}) ELSE 0

PackOk(m) == Packs(m) /\ (m.ch \in Reliable => Pushed(m) = Parts(m))

\* The packets stay in the queue even when the last ones do not fit in.
PackOutbound(m) ==
    retrans' = IF Packs(m) /\ m.ch \in Reliable
               THEN [retrans EXCEPT ![m.to][m.ch] =
                       @ \o SubSeq(Packed(m), 1, Pushed(m))]
               ELSE retrans

\* The records of check_budget from the first one younger than a second.
Recent(c) ==
    LET w     == window[c]
        young == {i \in DOMAIN w : now - w[i].at < Second}
    IN  SubSeq(w, Min(young \cup {Len(w) + 1}), Len(w))

SumBytes(w) ==
    LET sum[i \in 0 .. Len(w)] == IF i = 0 THEN 0 ELSE sum[i - 1] + w[i].bytes
    IN  sum[Len(w)]

\* A slip: what was sent within the second is not counted.
MutInBudget(m) ==
    budget[m.to] = NoBudget \/ Bytes(m) <= budget[m.to] * BytesPerKbps

InBudget(m) ==
    \/ budget[m.to] = NoBudget
    \/ SumBytes(Recent(m.to)) + Bytes(m) <= budget[m.to] * BytesPerKbps

\* check_budget: what was refused is not recorded.
CheckBudget(m) ==
    /\ window' =
         IF budget[m.to] = NoBudget THEN window
         ELSE [window EXCEPT ![m.to] =
                 Recent(m.to) \o
                   (IF InBudget(m) THEN <<[at |-> now, bytes |-> Bytes(m)]>>
                    ELSE <<>>)]
    /\ allowed' =
         IF budget[m.to] # NoBudget /\ InBudget(m)
         THEN [allowed EXCEPT ![m.to] =
                 Append(@, [at |-> now, bytes |-> Bytes(m),
                            limit |-> budget[m.to] * BytesPerKbps])]
         ELSE allowed

\* A slip: the last packet goes in whether there is room or not.
MutTrySend(chan, packets) ==
    SubSeq(chan \o packets, 1, Max({ChanCap, Len(chan) + 1}))

\* mpsc::Sender::try_send, packet by packet: what finds the channel full is
\* dropped, and counted as sent.
TrySend(chan, packets) ==
    LET all == chan \o packets
    IN  SubSeq(all, 1, Min({Len(all), ChanCap}))

Receive(c, packets) == received' = [received EXCEPT ![c] = @ \cup packets]

\* UdpSender: the network may lose the datagrams, and nothing listens at the
\* address of a virtual peer.
SendUdp(packets, p) ==
    IF IsVirtual(p) THEN UNCHANGED received
    ELSE \E c \in Clients, got \in SUBSET packets :
             p = UdpPeer(c) /\ Receive(c, got)

\* Every packet takes the transport of the session's peer.
Dispatch(packets, p) ==
    IF IsVirtual(p)
    THEN /\ conns' = IF writers[p] = NoConn THEN conns
                     ELSE [conns EXCEPT ![writers[p]].chan = TrySend(@, packets)]
         /\ UNCHANGED received
    ELSE SendUdp(ToSet(packets), p) /\ UNCHANGED conns

(***************************************************************************)
(* One call of send_outbound.  The packets are in the retransmission queue  *)
(* before the budget is asked.                                              *)
(***************************************************************************)
SendOutbound ==
    /\ todo # <<>>
    /\ todo' = Tail(todo)
    /\ sends' = sends + 1
    /\ LET m == Head(todo) IN
       /\ PackOutbound(m)
       /\ IF PackOk(m) THEN CheckBudget(m) ELSE UNCHANGED <<window, allowed>>
       /\ IF PackOk(m) /\ InBudget(m) THEN Dispatch(Packed(m), peer[m.to])
          ELSE UNCHANGED <<conns, received>>
    /\ UNCHANGED <<stream, readBuf, written, handled, breaks, status, peer,
                   budget, nextPort, writers, now>>

Queued(c) == UNION {ToSet(retrans[c][ch]) : ch \in Reliable}

\* maintain_reliable: any of what is queued may be due, and is given to the
\* UDP sender, whatever the session's peer.
MaintainReliable(c) ==
    /\ InTable(c)
    /\ SendUdp(Queued(c), peer[c])
    /\ UNCHANGED <<linkVars, sessionVars, connVars, sends, allowed, now>>
-----------------------------------------------------------------------------
(* What comes up.                                                          *)

\* The queue without the packets at its front that the client has.
Confirmed(q, got) ==
    SubSeq(q, 1 + Min({k \in 0 .. Len(q) : k = Len(q) \/ q[k + 1] \notin got}),
           Len(q))

\* A datagram of client c from address p: the session follows the address.
\* A session in Grace comes back and looks at nothing else.
HandleDatagram(c, p) ==
    /\ status' = [status EXCEPT ![c] = IF @ = "gone" THEN @ ELSE "active"]
    /\ peer' = [peer EXCEPT ![c] = IF status[c] = "gone" THEN @ ELSE p]
    /\ retrans' = IF status[c] = "active"
                  THEN [retrans EXCEPT ![c] =
                          [ch \in Reliable |-> Confirmed(@[ch], received[c])]]
                  ELSE retrans
    /\ UNCHANGED <<linkVars, budget, window, connVars, received, sends,
                   allowed, now>>

ReceiveUdp(c) == HandleDatagram(c, UdpPeer(c))

\* A session falls silent, and ends.
Maintain(c) ==
    /\ status' = [status EXCEPT ![c] = IF @ = "active" THEN "grace" ELSE "gone"]
    /\ InTable(c)
    /\ retrans' = IF status[c] = "grace"
                  THEN [retrans EXCEPT ![c] = NoPackets] ELSE retrans
    /\ UNCHANGED <<linkVars, peer, budget, window, connVars, received, sends,
                   allowed, now>>

Tick ==
    /\ now < MaxTime
    /\ now' = now + 1
    /\ UNCHANGED <<linkVars, sessionVars, connVars, received, sends, allowed>>
-----------------------------------------------------------------------------
(* The connections of TCP and WebSocket.                                   *)

\* A slip: a connection takes the number of those that are open.
MutNewPeer(k) ==
    <<k, Cardinality({i \in DOMAIN conns : conns[i].state = "open"}) % PortMod>>

\* fetch_add of next_port, which wraps
NewPeer(k) == <<k, nextPort[k]>>

\* run: accept, and a task for the connection.
Accept(c, k) ==
    /\ Len(conns) < MaxConns
    /\ conns' = Append(conns, [owner |-> c, peer |-> NewPeer(k), chan |-> <<>>,
                               state |-> "accepted"])
    /\ nextPort' = [nextPort EXCEPT ![k] = (@ + 1) % PortMod]
    /\ UNCHANGED <<linkVars, sessionVars, writers, received, sends, allowed, now>>

\* conn_loop begins: the channel goes into writers, under the peer.
ConnStart(i) ==
    /\ conns[i].state = "accepted"
    /\ conns' = [conns EXCEPT ![i].state = "open"]
    /\ writers' = [writers EXCEPT ![conns[i].peer] = i]
    /\ UNCHANGED <<linkVars, sessionVars, nextPort, received, sends, allowed, now>>

\* accept_async fails: a WebSocket that never was.
UpgradeFails(i) ==
    /\ conns[i].state = "accepted" /\ conns[i].peer[1] = "ws"
    /\ conns' = [conns EXCEPT ![i].state = "closed"]
    /\ UNCHANGED <<linkVars, sessionVars, nextPort, writers, received, sends,
                   allowed, now>>

\* The read loop takes a datagram from the connection.
ConnRead(i) ==
    /\ conns[i].state = "open"
    /\ HandleDatagram(conns[i].owner, conns[i].peer)

\* The write task writes the next packet of its channel.
ConnWrite(i) ==
    /\ conns[i].state = "open" /\ conns[i].chan # <<>>
    /\ conns' = [conns EXCEPT ![i].chan = Tail(@)]
    /\ Receive(conns[i].owner, {Head(conns[i].chan)})
    /\ UNCHANGED <<linkVars, sessionVars, nextPort, writers, sends, allowed, now>>

\* A slip: the channel stays in writers.
MutRemoved(p) == writers

\* writers.remove, by the peer
Removed(p) == [writers EXCEPT ![p] = NoConn]

\* The read loop ends, on EOF, an error, an illegal length, or a Close or
\* Ping of WebSocket: the write task is aborted with all it has.
ConnEnd(i) ==
    /\ conns[i].state = "open"
    /\ conns' = [conns EXCEPT ![i].state = "closed", ![i].chan = <<>>]
    /\ writers' = Removed(conns[i].peer)
    /\ UNCHANGED <<linkVars, sessionVars, nextPort, received, sends, allowed, now>>
-----------------------------------------------------------------------------
Init ==
    /\ stream = <<>> /\ readBuf = <<>> /\ todo = <<>>
    /\ written = <<>> /\ handled = <<>> /\ breaks = 0
    /\ status = [c \in Clients |-> "none"]
    /\ peer = [c \in Clients |-> UdpPeer(c)]
    /\ retrans = [c \in Clients |-> NoPackets]
    /\ budget = [c \in Clients |-> NoBudget]
    /\ window = [c \in Clients |-> <<>>]
    /\ nextPort = [k \in Kinds |-> 1 % PortMod]
    /\ conns = <<>>
    /\ writers = [p \in VirtualPeers |-> NoConn]
    /\ received = [c \in Clients |-> {}]
    /\ sends = 0
    /\ allowed = [c \in Clients |-> <<>>]
    /\ now = 0

Connection(i) ==
    \/ ConnStart(i) \/ UpgradeFails(i)
    \/ ConnRead(i) \/ ConnWrite(i) \/ ConnEnd(i)

Next ==
    \/ \E f \in Script : Write(f)
    \/ \E n \in 1 .. ChunkLen : ReadChunk(n)
    \/ LinkBreak
    \/ HandleLogicFrame
    \/ SendOutbound
    \/ \E c \in Clients : MaintainReliable(c) \/ ReceiveUdp(c) \/ Maintain(c)
    \/ Tick
    \/ \E c \in Clients, k \in Kinds : Accept(c, k)
    \/ \E i \in DOMAIN conns : Connection(i)

Spec == Init /\ [][Next]_vars
-----------------------------------------------------------------------------
(* What the way down promises.                                             *)

\* The channels and queues stay within their limits (mpsc::channel(256),
\* RetransmitQueue::push), and everything has its shape.
TypeOK ==
    /\ stream \in Seq([of : Frames, at : Nat])
    /\ readBuf \in Seq([of : Frames, at : Nat])
    /\ todo \in Seq(Sends)
    /\ written \in Seq(Frames) /\ handled \in Seq(Frames)
    /\ breaks \in 0 .. MaxBreaks
    /\ status \in [Clients -> {"none", "active", "grace", "gone"}]
    /\ peer \in [Clients -> Peers]
    /\ retrans \in [Clients -> [Reliable -> Seq(Packets)]]
    /\ \A c \in Clients, ch \in Reliable : Len(retrans[c][ch]) <= QueueCap
    /\ budget \in [Clients -> Nat \cup {NoBudget}]
    /\ window \in [Clients -> Seq([at : Nat, bytes : Nat])]
    /\ nextPort \in [Kinds -> 0 .. PortMod - 1]
    /\ conns \in Seq(Connections) /\ Len(conns) <= MaxConns
    /\ \A i \in DOMAIN conns : Len(conns[i].chan) <= ChanCap
    /\ writers \in [VirtualPeers -> Nat]
    /\ \A p \in VirtualPeers : writers[p] \in DOMAIN conns \cup {NoConn}
    /\ received \in [Clients -> SUBSET Packets]
    /\ sends \in Nat
    /\ allowed \in [Clients -> Seq([at : Nat, bytes : Nat, limit : Nat])]
    /\ now \in 0 .. MaxTime

\* Whatever pieces the socket delivers, the read loop takes off the frames
\* that were written, in order and whole, and never gives up on its buffer
\* (try_decode and read_frame, "天然处理半包/粘包").
FramesWhole == IsPrefix(handled, written) /\ ~OverLimit

\* A connection is in writers from its start to its end, under its own peer,
\* and no other is: conn_loop inserts and removes by the peer alone.
WritersMatch ==
    \A i \in DOMAIN conns :
        conns[i].state = "open" <=> writers[conns[i].peer] = i

\* A client is sent nothing that was meant for another one, although a
\* session keeps the address of a connection that has ended.
OwnTraffic == \A c \in Clients : \A p \in received[c] : p.to = c

\* In the second up to any message that check_budget let through, what it let
\* through of the session, since there was a budget, is within the budget of
\* that moment.
BudgetKept ==
    \A c \in Clients : \A i, j \in DOMAIN allowed[c] :
        i <= j /\ allowed[c][j].at - allowed[c][i].at < Second
            => SumBytes(SubSeq(allowed[c], i, j)) <= allowed[c][j].limit
-----------------------------------------------------------------------------
(* Liveness.  The maintenance loop retransmits every 100 ms, the read loop  *)
(* and the tasks of a connection go on, and a client that is connected goes *)
(* on sending (it answers every packet of a reliable channel) and keeps the *)
(* transport it has.                                                        *)

Fairness ==
    /\ WF_vars(HandleLogicFrame) /\ WF_vars(SendOutbound)
    /\ \A c \in Clients :
        /\ WF_vars(MaintainReliable(c) /\ Queued(c) \subseteq received'[c])
        /\ WF_vars(peer[c] = UdpPeer(c) /\ ReceiveUdp(c))
    /\ \A i \in 1 .. MaxConns :
        /\ WF_vars(i \in DOMAIN conns /\ ConnStart(i))
        /\ WF_vars(i \in DOMAIN conns /\ ConnRead(i))
        /\ WF_vars(i \in DOMAIN conns /\ ConnWrite(i))

FairSpec == Spec /\ Fairness

Connected(c) ==
    \E i \in DOMAIN conns : conns[i].state = "open" /\ conns[i].peer = peer[c]

\* "可靠层 / NAT 漂移(带 conn_id 重连)全部复用" (tcp.rs:7): a client that stays
\* connected receives, sooner or later, every packet that is in its session's
\* retransmission queues.
ReliableArrives ==
    \A c \in Clients :
        <>[](status[c] = "active" /\ Connected(c))
            => []<>(Queued(c) \subseteq received[c])
=============================================================================
