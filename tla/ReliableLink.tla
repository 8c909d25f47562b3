---------------------------- MODULE ReliableLink ----------------------------
(***************************************************************************)
(* One direction of a client session: the sending half of the engine        *)
(* (SessionTable::pack_outbound and the two RetransmitQueues), a network    *)
(* that loses, duplicates, delays and reorders datagrams, and the receiving *)
(* half of the engine (handle_session_packet, handle_ch2, the               *)
(* FragmentAssembler, compute_ack).  The peers in tests/ reimplement the    *)
(* same two halves, so the module is the downlink and the uplink alike.     *)
(*                                                                         *)
(* All channels share one sequence counter per sender.  Acks travel in the  *)
(* pure-ACK answers and in the header of whatever the receiver itself sends.*)
(*                                                                         *)
(* Sequence numbers are wire values.  The fields n, len and ok of a packet, *)
(* the field r of an ack and the variables log, consumed, ch1Out and ch3Out *)
(* are history that the code does not have, used to state what is true.     *)
(***************************************************************************)
EXTENDS SeqSpace, SequencesExt

CONSTANTS
    QueueCap,      \* RETRANSMIT_QUEUE_CAP (64)
    DeliveredCap,  \* how many delivered Ch2 numbers are remembered (512)
    SeenCap,       \* how many Ch3 numbers are remembered (256)
    CompletedCap,  \* COMPLETED_CAP, finished fragment groups remembered (128)
    MaxFragments,  \* MAX_FRAGMENTS accepted by the receiver (64)
    U8Mod          \* 256: frag_no, frag_total and the skip counters are u8

CONSTANTS
    Channels,      \* the channels the application uses, a subset of 0 .. 3
    GroupSizes,    \* into how many fragments its Ch2 messages are split
    Paced          \* TRUE: the application never sends into a full queue

CONSTANTS
    MaxSeqs,       \* bound: sequence numbers handed out in a behaviour
    NetCap,        \* bound: distinct datagrams in flight
    AckNetCap,     \* bound: distinct acks in flight
    MaxCleanups,   \* bound: timeouts of unfinished fragment groups
    Window,        \* bound: how far the sender may run ahead of what the
                   \* receiver, and an ack that still arrives, has confirmed
    Lifetime       \* bound: the age, in sequence numbers, of a duplicate that
                   \* still arrives when its packet is no longer retransmitted

Reliable == {2, 3}

ASSUME LinkAssumption ==
    /\ {QueueCap, DeliveredCap, SeenCap, CompletedCap} \subseteq Nat \ {0}
    /\ MaxFragments \in Nat \ {0}
    /\ U8Mod \in Nat /\ MaxFragments < U8Mod
    /\ Channels \subseteq 0 .. 3
    /\ GroupSizes \subseteq Nat \ {0}
    /\ Paced \in BOOLEAN
    /\ {MaxSeqs, NetCap, AckNetCap, MaxCleanups, Window, Lifetime} \subseteq Nat

VARIABLES
    \* sender
    sendSeq,       \* Session.send_seq
    fragGroupId,   \* Session.frag_group_id
    retrans,       \* Session.retrans: the unacknowledged packets of Ch2, Ch3
    skipCount,     \* RetransmitQueue.skip_count of the entry at the front
    \* network
    net,           \* datagrams in flight
    ackNet,        \* acks in flight
    \* receiver
    ch1Last,       \* Session.ch1_last, NoSeq before the first
    ch2Next,       \* Session.ch2_next
    reorder,       \* Session.reorder, Absent where there is no entry
    deliveredMax,  \* Session.delivered_max
    deliveredSeqs, \* Session.delivered_seqs
    ch3Seen,       \* Session.ch3_seen
    pending,       \* FragmentAssembler.pending, NoGroup where there is none
    completed,     \* FragmentAssembler.completed
    \* history
    log,           \* every packet that was given a sequence number, in order
    consumed,      \* every entry Ch2 took out of reorder, in order
    ch1Out,        \* the Ch1 packets handed to the logic server, in order
    ch3Out,        \* the Ch3 packets handed to the logic server, in order
    cleanups       \* timeouts of unfinished groups so far

senderVars == <<sendSeq, fragGroupId, retrans, skipCount, log>>
ch2Vars == <<ch2Next, reorder, deliveredMax, deliveredSeqs, pending, completed,
             consumed>>
ch1Vars == <<ch1Last, ch1Out>>
ch3Vars == <<ch3Seen, ch3Out>>
vars == <<senderVars, net, ackNet, ch1Vars, ch2Vars, ch3Vars, cleanups>>
-----------------------------------------------------------------------------
(* Values.                                                                 *)

Absent == -1        \* no entry in reorder
Placeholder == -2   \* (u16::MAX, empty): a number used up inside a group
Corrupt == -3       \* a reassembly that is not a message of the sender
NoSeq == -1         \* None of ch1_last

NoGroup == [first |-> NoSeq, total |-> 0, parts |-> <<>>]

Entries == Nat \cup {Absent, Placeholder, Corrupt}

\* A message is named by the absolute number n of its first packet; len is
\* the number of its packets, ok whether pack_outbound returned Ok.
Packets == [n : Nat, seq : SeqNos, ch : 0 .. 3, msg : Nat, len : Nat,
            ok : BOOLEAN, frag : BOOLEAN, gid : SeqNos,
            first : SeqNos, no : 0 .. U8Mod - 1, total : 0 .. U8Mod - 1]

\* The piece of the payload in a fragment; NoChunk is None.
NoChunk == [msg |-> 0, i |-> -1, len |-> 0]
Chunk(p) == [msg |-> p.msg, i |-> p.n - p.msg, len |-> p.len]

Chunks == [msg : Nat, i : Int, len : Nat]

IsGroup(g) ==
    \/ g = NoGroup
    \/ /\ g \in [first : SeqNos, total : 1 .. MaxFragments, parts : {g.parts}]
       /\ g.parts \in [0 .. g.total - 1 -> Chunks]

Acks == [ack : SeqNos, bits : SUBSET (1 .. AckBits), r : Nat]

LastN(s, n) == IF Len(s) <= n THEN s ELSE SubSeq(s, Len(s) - n + 1, Len(s))

\* What a full network drops is lost.
Emit(flight, sent, cap) ==
    IF Cardinality(flight \cup sent) <= cap THEN flight \cup sent ELSE flight
-----------------------------------------------------------------------------
(* The sender.                                                             *)

\* The i-th (from 0) of the parts packets of a message.  total and no are
\* cast to u8.
NewPacket(ch, parts, i, ok) ==
    [n |-> Len(log) + i, seq |-> WrapAdd(sendSeq, i), ch |-> ch,
     msg |-> Len(log), len |-> parts, ok |-> ok, frag |-> parts > 1,
     gid |-> IF parts > 1 THEN fragGroupId ELSE 0, first |-> sendSeq,
     no |-> i % U8Mod, total |-> parts % U8Mod]

\* A slip: the queue is checked with <= instead of <.
MutRoom(ch) == IF ch \in Reliable THEN QueueCap - Len(retrans[ch]) + 1 ELSE 1

\* How many packets RetransmitQueue::push still accepts.
Room(ch) == IF ch \in Reliable THEN QueueCap - Len(retrans[ch]) ELSE 1

(***************************************************************************)
(* pack_outbound, then the send.  Every part takes a sequence number before *)
(* it is pushed, so a push that fails has used one up, and the parts pushed *)
(* before it stay queued although the caller gets an error and sends none.  *)
(***************************************************************************)
PackOutbound(ch, parts) ==
    LET ok == parts <= Room(ch)
        used == IF ok THEN parts ELSE Room(ch) + 1
        packets == [i \in 1 .. used |-> NewPacket(ch, parts, i - 1, ok)]
    IN
    /\ parts > 1 => ch = 2
    /\ Paced => ok
    /\ Len(log) + used <= MaxSeqs
    /\ Len(log) + used - Len(consumed) <= Window
    /\ sendSeq' = WrapAdd(sendSeq, used)
    /\ fragGroupId' = IF parts > 1 THEN WrapAdd(fragGroupId, 1) ELSE fragGroupId
    /\ retrans' = IF ch \in Reliable
                  THEN [retrans EXCEPT ![ch] =
                          @ \o SubSeq(packets, 1, IF ok THEN used ELSE used - 1)]
                  ELSE retrans
    /\ net' = IF ok THEN Emit(net, ToSet(packets), NetCap) ELSE net
    /\ log' = log \o packets
    /\ UNCHANGED <<skipCount, ackNet, ch1Vars, ch2Vars, ch3Vars, cleanups>>

\* How many entries at the front of the queue an ack confirms.
AckedPrefix(q, a) ==
    Min({k \in 0 .. Len(q) : k = Len(q) \/ ~IsAcked(q[k + 1].seq, a)})

FrontSkipped(q, a) == q # <<>> /\ ~IsAcked(q[1].seq, a)

\* *n += 1 on a u8, which wraps in a release build.
Skips(ch, a) ==
    IF FrontSkipped(retrans[ch], a) THEN (skipCount[ch] + 1) % U8Mod
    ELSE IF AckedPrefix(retrans[ch], a) > 0 THEN 0
    ELSE skipCount[ch]

\* The front entry, once two acks have gone past it.
FastRetransmit(ch, a) ==
    IF FrontSkipped(retrans[ch], a) /\ Skips(ch, a) >= 2
    THEN {retrans[ch][1]} ELSE {}

\* A slip: everything the ack confirms leaves, the last entry it goes past too.
MutRest(q, a) == SubSeq(q, AckedPrefix(q, a) + 2, Len(q))

Rest(q, a) == SubSeq(q, AckedPrefix(q, a) + 1, Len(q))

(***************************************************************************)
(* on_ack, for both queues of the session with the same ack.                *)
(***************************************************************************)
OnAck(a) ==
    /\ Len(log) - a.r <= Window
    /\ retrans' = [ch \in Reliable |-> Rest(retrans[ch], a)]
    /\ skipCount' = [ch \in Reliable |-> Skips(ch, a)]
    /\ net' = Emit(net, UNION {FastRetransmit(ch, a) : ch \in Reliable}, NetCap)
    /\ ackNet' \in {ackNet, ackNet \ {a}}
    /\ UNCHANGED <<sendSeq, fragGroupId, log, ch1Vars, ch2Vars, ch3Vars, cleanups>>

Unacked == UNION {ToSet(retrans[ch]) : ch \in Reliable}

(***************************************************************************)
(* maintain_reliable at the sending host: the entries whose RTO has expired *)
(* are sent again; which ones these are is a matter of time.                *)
(***************************************************************************)
MaintainReliable(due) ==
    /\ due \subseteq Unacked
    /\ net' = Emit(net, due, NetCap)
    /\ UNCHANGED <<senderVars, ackNet, ch1Vars, ch2Vars, ch3Vars, cleanups>>
-----------------------------------------------------------------------------
(* The receiver: the FragmentAssembler.                                    *)

NewGroup(p) == [first |-> p.first, total |-> p.total,
                parts |-> [i \in 0 .. p.total - 1 |-> NoChunk]]

\* decode_fragment accepts the header.
WellFormed(p) == p.total \in 1 .. MaxFragments /\ p.no < p.total

\* The group of a fragment with the fragment in it: a group that disagrees
\* on total or first_seq starts again, a part that is there already is kept.
GroupWith(p) ==
    LET old == pending[p.gid]
        g == IF old # NoGroup /\ old.total = p.total /\ old.first = p.first
             THEN old ELSE NewGroup(p)
    IN  IF g.parts[p.no] = NoChunk THEN [g EXCEPT !.parts[p.no] = Chunk(p)] ELSE g

Complete(g) == \A i \in 0 .. g.total - 1 : g.parts[i] # NoChunk

\* The message put together from the parts: a message of the sender, if the
\* parts are all of its parts in their order.
Joined(g) ==
    LET m == g.parts[0].msg
    IN  IF \A i \in 0 .. g.total - 1 :
               g.parts[i] = [msg |-> m, i |-> i, len |-> g.total]
        THEN m ELSE Corrupt

\* A slip: one number too many.
MutGroupSeqs(g) == {WrapAdd(g.first, i) : i \in 0 .. g.total}

GroupSeqs(g) == {WrapAdd(g.first, i) : i \in 0 .. g.total - 1}

\* A slip: no placeholders for the other numbers of the group.
MutWithGroup(g) == [reorder EXCEPT ![g.first] = Joined(g)]

\* The reorder buffer after a group is complete: the message at the group's
\* first number, placeholders at its others.
WithGroup(g) ==
    [s \in SeqNos |-> IF s = g.first THEN Joined(g)
                      ELSE IF s \in GroupSeqs(g) THEN Placeholder
                      ELSE reorder[s]]
-----------------------------------------------------------------------------
(* The receiver: in-order delivery and acknowledgements.                   *)

\* A slip: the loop stops only at the newest entry and skips what is missing.
MutRunLength(r) ==
    LET present == {k \in 0 .. HalfSeq : r[WrapAdd(ch2Next, k)] # Absent}
    IN  IF present = {} THEN 0 ELSE Max(present) + 1

\* How many entries deliver_ch2_in_order takes out of r: from ch2_next up to
\* the first number that is missing.
RunLength(r) ==
    Min({k \in 0 .. WireMod : k = WireMod \/ r[WrapAdd(ch2Next, k)] = Absent})

(***************************************************************************)
(* deliver_ch2_in_order, on the reorder buffer r.                           *)
(***************************************************************************)
DeliverCh2InOrder(r) ==
    LET k == RunLength(r)
        run == [i \in 1 .. k |-> WrapAdd(ch2Next, i - 1)]
    IN
    /\ consumed' = consumed \o [i \in 1 .. k |-> r[run[i]]]
    /\ reorder' = [s \in SeqNos |-> IF s \in ToSet(run) THEN Absent ELSE r[s]]
    /\ ch2Next' = WrapAdd(ch2Next, k)
    /\ deliveredMax' = IF k = 0 THEN deliveredMax ELSE run[k]
    /\ deliveredSeqs' = LastN(deliveredSeqs \o run, DeliveredCap)

\* A slip: only the remembered numbers are recognised.
MutIsOldCh2(p) == p.seq \in ToSet(deliveredSeqs)

\* A retransmission of what was delivered already.  The comparison with
\* delivered_max is not for fragments.
IsOldCh2(p) ==
    \/ p.seq \in ToSet(deliveredSeqs)
    \/ ~p.frag /\ SeqLt(p.seq, deliveredMax) /\ reorder[p.seq] = Absent

\* FragmentAssembler::push, and what handle_ch2 does with its result.
PushFragment(p) ==
    LET g == GroupWith(p) IN
    IF ~WellFormed(p) \/ p.gid \in ToSet(completed)
    THEN UNCHANGED ch2Vars
    ELSE IF Complete(g)
    THEN /\ pending' = [pending EXCEPT ![p.gid] = NoGroup]
         /\ completed' = LastN(Append(completed, p.gid), CompletedCap)
         /\ DeliverCh2InOrder(WithGroup(g))
    ELSE /\ pending' = [pending EXCEPT ![p.gid] = g]
         /\ UNCHANGED <<completed, ch2Next, reorder, deliveredMax,
                        deliveredSeqs, consumed>>

HandleCh2(p) ==
    \/ IsOldCh2(p) /\ UNCHANGED ch2Vars
    \/ ~IsOldCh2(p) /\ p.frag /\ PushFragment(p)
    \/ /\ ~IsOldCh2(p) /\ ~p.frag
       /\ DeliverCh2InOrder([reorder EXCEPT ![p.seq] = p.msg])
       /\ UNCHANGED <<pending, completed>>

\* A slip: only a repeated number is refused.
MutHandleCh1(p) ==
    IF p.seq # ch1Last
    THEN ch1Last' = p.seq /\ ch1Out' = Append(ch1Out, p.n)
    ELSE UNCHANGED ch1Vars

\* Only a packet newer than the last one is handed on.
HandleCh1(p) ==
    IF ch1Last = NoSeq \/ SeqNewer(p.seq, ch1Last)
    THEN ch1Last' = p.seq /\ ch1Out' = Append(ch1Out, p.n)
    ELSE UNCHANGED ch1Vars

\* A slip: only the newest number is remembered.
MutHandleCh3(p) ==
    IF p.seq \in ToSet(ch3Seen)
    THEN UNCHANGED ch3Vars
    ELSE ch3Seen' = <<p.seq>> /\ ch3Out' = Append(ch3Out, p.n)

HandleCh3(p) ==
    IF p.seq \in ToSet(ch3Seen)
    THEN UNCHANGED ch3Vars
    ELSE /\ ch3Seen' = LastN(Append(ch3Seen, p.seq), SeenCap)
         /\ ch3Out' = Append(ch3Out, p.n)

AckPoint == WrapSub(ch2Next, 1)

\* A slip: the bitmap also covers fragments that are still being collected.
MutReceived(s) ==
    \/ reorder[s] # Absent
    \/ \E g \in SeqNos : pending[g] # NoGroup /\ s \in GroupSeqs(pending[g])

\* The numbers compute_ack marks in the bitmap.
Received(s) ==
    \/ reorder[s] # Absent
    \/ s \in ToSet(deliveredSeqs)
    \/ s \in ToSet(ch3Seen)

(***************************************************************************)
(* compute_ack: ack is the last number Ch2 delivered without a gap, and     *)
(* the bits tell which of the AckBits numbers after it have arrived.        *)
(***************************************************************************)
ComputeAck ==
    [ack |-> AckPoint,
     bits |-> {i \in 1 .. AckBits : Received(WrapAdd(AckPoint, i))},
     r |-> Len(consumed)]

\* A slip: a retransmission of what was delivered already is not answered.
MutNeedAck(p) == p.ch \in Reliable /\ ~IsOldCh2(p)

\* need_ack of handle_session_packet
NeedAck(p) == p.ch \in Reliable

(***************************************************************************)
(* handle_session_packet for a packet of an active session; the packet may  *)
(* stay in the network as a duplicate.  A packet of a reliable channel is   *)
(* answered with the ack of the state it leaves.                            *)
(***************************************************************************)
HandleSessionPacket(p) ==
    /\ p \in Unacked \/ Len(log) - p.n <= Lifetime
    /\ net' \in {net, net \ {p}}
    /\ \/ p.ch = 0 /\ UNCHANGED <<ch1Vars, ch2Vars, ch3Vars>>
       \/ p.ch = 1 /\ HandleCh1(p) /\ UNCHANGED <<ch2Vars, ch3Vars>>
       \/ p.ch = 2 /\ HandleCh2(p) /\ UNCHANGED <<ch1Vars, ch3Vars>>
       \/ p.ch = 3 /\ HandleCh3(p) /\ UNCHANGED <<ch1Vars, ch2Vars>>
    /\ ackNet' = IF NeedAck(p) THEN Emit(ackNet, {ComputeAck'}, AckNetCap)
                 ELSE ackNet
    /\ UNCHANGED <<senderVars, cleanups>>

\* The receiving host sends something of its own: its header has an ack too.
PiggybackAck ==
    /\ ackNet' = Emit(ackNet, {ComputeAck}, AckNetCap)
    /\ UNCHANGED <<senderVars, net, ch1Vars, ch2Vars, ch3Vars, cleanups>>

\* FragmentAssembler::cleanup, when a group has been idle for ten seconds.
AssemblerCleanup(g) ==
    /\ cleanups < MaxCleanups
    /\ pending[g] # NoGroup
    /\ pending' = [pending EXCEPT ![g] = NoGroup]
    /\ cleanups' = cleanups + 1
    /\ UNCHANGED <<senderVars, net, ackNet, ch1Vars, ch3Vars, ch2Next, reorder,
                   deliveredMax, deliveredSeqs, completed, consumed>>

Lose ==
    \/ \E p \in net : net' = net \ {p} /\ UNCHANGED ackNet
    \/ \E a \in ackNet : ackNet' = ackNet \ {a} /\ UNCHANGED net
-----------------------------------------------------------------------------
Init ==
    /\ sendSeq = 0 /\ fragGroupId = 0
    /\ retrans = [ch \in Reliable |-> <<>>]
    /\ skipCount = [ch \in Reliable |-> 0]
    /\ net = {} /\ ackNet = {}
    /\ ch1Last = NoSeq
    /\ ch2Next = 0 /\ deliveredMax = 0 /\ deliveredSeqs = <<>>
    /\ reorder = [s \in SeqNos |-> Absent]
    /\ ch3Seen = <<>>
    /\ pending = [g \in SeqNos |-> NoGroup] /\ completed = <<>>
    /\ log = <<>> /\ consumed = <<>> /\ ch1Out = <<>> /\ ch3Out = <<>>
    /\ cleanups = 0

NetworkLoss ==
    /\ Lose
    /\ UNCHANGED <<senderVars, ch1Vars, ch2Vars, ch3Vars, cleanups>>

Next ==
    \/ \E ch \in Channels, parts \in GroupSizes \cup {1} : PackOutbound(ch, parts)
    \/ \E a \in ackNet : OnAck(a)
    \/ \E due \in SUBSET Unacked : MaintainReliable(due)
    \/ \E p \in net : HandleSessionPacket(p)
    \/ PiggybackAck
    \/ \E g \in SeqNos : AssemblerCleanup(g)
    \/ NetworkLoss

Spec == Init /\ [][Next]_vars
-----------------------------------------------------------------------------
(* What the link promises.                                                 *)

\* Every queue, cache and window of the session stays within the limit the
\* code gives it, and everything has its shape.
TypeOK ==
    /\ sendSeq \in SeqNos /\ fragGroupId \in SeqNos
    /\ retrans \in [Reliable -> Seq(Packets)]
    /\ \A ch \in Reliable : Len(retrans[ch]) <= QueueCap
    /\ skipCount \in [Reliable -> 0 .. U8Mod - 1]
    /\ net \subseteq Packets
    /\ ackNet \subseteq Acks
    /\ ch1Last \in SeqNos \cup {NoSeq}
    /\ ch2Next \in SeqNos /\ deliveredMax \in SeqNos
    /\ reorder \in [SeqNos -> Entries]
    /\ deliveredSeqs \in Seq(SeqNos) /\ Len(deliveredSeqs) <= DeliveredCap
    /\ ch3Seen \in Seq(SeqNos) /\ Len(ch3Seen) <= SeenCap
    /\ completed \in Seq(SeqNos) /\ Len(completed) <= CompletedCap
    /\ DOMAIN pending = SeqNos /\ \A g \in SeqNos : IsGroup(pending[g])
    /\ log \in Seq(Packets)
    /\ consumed \in Seq(Entries)
    /\ ch1Out \in Seq(Nat) /\ ch3Out \in Seq(Nat)
    /\ cleanups \in 0 .. MaxCleanups

\* What Ch2 should hand on for the i-th packet: the message at its first
\* packet, nothing at the others.
EntryOf(i) == IF log[i].msg = log[i].n THEN log[i].msg ELSE Placeholder

\* Ch2 consumes exactly the numbers the sender handed out, in their order,
\* none skipped and none twice, a message of many fragments is put together
\* from its own parts (deliver_ch2_in_order, FragmentAssembler), and of a
\* message that pack_outbound refused nothing is consumed.
InOrder ==
    /\ Len(consumed) <= Len(log)
    /\ \A i \in DOMAIN consumed :
          log[i].ch = 2 /\ log[i].ok /\ consumed[i] = EntryOf(i)

\* The reorder buffer holds nothing stale: every entry belongs to a number
\* that Ch2 has still to consume, and is the right one for it.
ReorderIsFuture ==
    \A s \in SeqNos : reorder[s] # Absent =>
        \E i \in Len(consumed) + 1 .. Len(log) :
            /\ s = Wire(i - 1)
            /\ log[i].ch = 2
            /\ reorder[s] = EntryOf(i)

Queued(i) == \E k \in DOMAIN retrans[log[i].ch] : retrans[log[i].ch][k].n = i - 1

\* The receiver has the i-th packet and will not need it again.
Arrived(i) ==
    IF log[i].ch = 2
    THEN i <= Len(consumed) \/ reorder[Wire(i - 1)] # Absent
    ELSE i - 1 \in ToSet(ch3Out)

\* on_ack takes a packet out of a retransmission queue only when it has
\* arrived: no ack, however late or duplicated, lets the sender forget a
\* packet the receiver still needs.
ForgottenOnlyIfArrived ==
    \A i \in DOMAIN log :
        log[i].ch \in Reliable /\ log[i].ok => Queued(i) \/ Arrived(i)

\* A Ch3 message is handed on at most once, whatever is retransmitted or
\* duplicated: the window of seen numbers outlives every retransmission.
Ch3AtMostOnce == IsInjective(ch3Out)

\* Ch1 never hands on an input that is older than one it has handed on.
Ch1NewestWins ==
    \A i, j \in DOMAIN ch1Out : i < j => ch1Out[i] < ch1Out[j]

\* Once compute_ack covers a packet it goes on covering it for as long as
\* the packet is in the sender's queue, so an ack that is lost is made good
\* by the next one.
AckNeverRetracts ==
    [][\A i \in DOMAIN log :
         /\ log[i].ch \in Reliable
         /\ Queued(i) /\ Queued(i)'
         /\ IsAcked(log[i].seq, ComputeAck)
         => IsAcked(log[i].seq, ComputeAck')]_vars

\* The messages in a sequence of entries.
MessagesOf(entries) ==
    LET upTo[n \in 0 .. Len(entries)] ==
            IF n = 0 THEN <<>>
            ELSE IF entries[n] = Placeholder THEN upTo[n - 1]
            ELSE Append(upTo[n - 1], entries[n])
    IN  upTo[Len(entries)]

\* The messages of Ch2 that pack_outbound reported as sent, and those that
\* deliver_ch2_in_order handed to the logic server.
Accepted ==
    MessagesOf([i \in DOMAIN log |->
                  IF log[i].ch = 2 /\ log[i].ok THEN EntryOf(i) ELSE Placeholder])
HandedOn == MessagesOf(consumed)

Channel == INSTANCE OrderedChannel
    WITH Messages <- 0 .. MaxSeqs, accepted <- Accepted, handedOn <- HandedOn

\* With fragments, losses, duplicates and acks, Ch2 is an ordered channel: a
\* message reported as failed is never handed on, one that is accepted is
\* handed on whole, once, and in its turn.
ImplementsChannel == Channel!Spec
-----------------------------------------------------------------------------
(* Liveness.  maintenance_loop runs every 100 ms and the RTO is at most one *)
(* second, so an unacknowledged packet is sent again and again; a network   *)
(* that delivers at all delivers a packet that is sent again and again, and *)
(* does not duplicate it for ever.                                          *)

Fairness ==
    /\ WF_vars(Unacked # {} /\ MaintainReliable(Unacked))
    /\ \A n \in 0 .. MaxSeqs - 1 :
          SF_vars(\E p \in net :
                    p.n = n /\ HandleSessionPacket(p) /\ p \notin net')
    /\ \A r \in 0 .. MaxSeqs :
          SF_vars(\E a \in ackNet : a.r = r /\ OnAck(a) /\ a \notin ackNet')

FairSpec == Spec /\ Fairness

\* "Ch2 不丢不乱" (T0002, milestone E2): every Ch2 packet accepted for sending
\* is consumed by the receiver.
Ch2Delivered ==
    \A i \in 1 .. MaxSeqs :
        (i \in DOMAIN log /\ log[i].ch = 2 /\ log[i].ok) ~> (Len(consumed) >= i)

\* No packet is retransmitted for ever: each one accepted is confirmed and
\* leaves its queue ("窗口外条目将永远无法被对端确认" is what compute_ack avoids).
QueueDrains ==
    \A i \in 1 .. MaxSeqs :
        (i \in DOMAIN log /\ log[i].ch \in Reliable /\ log[i].ok)
            ~> (i \in DOMAIN log /\ ~Queued(i))
=============================================================================
