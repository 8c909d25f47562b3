------------------------------ MODULE AckProofs ------------------------------
(***************************************************************************)
(* Acknowledgements: what compute_ack says has arrived, whatever becomes of *)
(* the ack, so on_ack never lets the sender forget a packet too early.      *)
(***************************************************************************)
EXTENDS OrderProofs

\* The wrapping comparison of is_acked is right for an ack that is less than
\* half the space old, and the bitmap does not reach around to the window of
\* delivered numbers (512 + 32 of 65536).
AckSizes == Window < HalfSeq /\ DeliveredCap + AckBits <= WireMod

\* What ch3_seen remembers was handed on.
Ch3History ==
    /\ \A i \in DOMAIN ch3Out : /\ ch3Out[i] < Len(log)
                                /\ log[ch3Out[i] + 1].ch = 3 /\ log[ch3Out[i] + 1].ok
    /\ \A i \in DOMAIN ch3Seen : \E j \in DOMAIN ch3Out : ch3Seen[i] = Wire(ch3Out[j])

\* The receiver has the number n and will not need it again.
Came(n) == n < Len(log) /\ log[n + 1].ch \in Reliable /\ Arrived(n + 1)

\* An ack says nothing that is not so.
AckRight(a) ==
    /\ a.r <= Len(consumed) /\ a.ack = Wire(a.r - 1)
    /\ \A i \in a.bits : Came(a.r - 1 + i)

AnswerRight == AckRight(ComputeAck)
AcksRight == \A a \in ackNet : AckRight(a)
-----------------------------------------------------------------------------
(* What compute_ack says.                                                  *)

LEMMA AckPointIs ==
    ASSUME TypeOK, History PROVE AckPoint = Wire(Len(consumed) - 1)
<1>1. Len(consumed) \in Int /\ WireMod \in Nat \ {0}
  BY Constants DEF TypeOK
<1>2. Wire(Len(consumed)) \in Int
  BY <1>1, WireType, Constants
<1>3. WrapAdd(Wire(Len(consumed)), -1) = Wire(Len(consumed) + (-1))
  BY <1>1, WireAdd
<1>4. Wire(Len(consumed)) + (-1) = Wire(Len(consumed)) - 1
      /\ Len(consumed) + (-1) = Len(consumed) - 1
  BY <1>1, <1>2
<1>5. WrapSub(Wire(Len(consumed)), 1) = WrapAdd(Wire(Len(consumed)), -1)
  BY <1>4 DEF WrapSub, WrapAdd
<1>. QED  BY <1>3, <1>4, <1>5 DEF AckPoint, History

\* A number of Ch3 was not consumed by Ch2.
LEMMA Ch3Ahead ==
    ASSUME TypeOK, History, Ch3History, NEW j \in DOMAIN ch3Out
    PROVE  ch3Out[j] \in Nat /\ Len(consumed) <= ch3Out[j] /\ ch3Out[j] < Len(log)
<1>1. ch3Out[j] \in Nat /\ Len(consumed) \in Nat /\ DOMAIN consumed = 1 .. Len(consumed)
  <2>1. ch3Out \in Seq(Nat) /\ consumed \in Seq(Entries)
    BY DEF TypeOK
  <2>. QED  BY <2>1
<1>2. ch3Out[j] < Len(log) /\ log[ch3Out[j] + 1].ch = 3
  BY DEF Ch3History
<1>3. Len(consumed) <= ch3Out[j]
  <2>1. SUFFICES ASSUME ch3Out[j] < Len(consumed) PROVE FALSE
    BY <1>1
  <2>2. ch3Out[j] + 1 \in DOMAIN consumed
    BY <1>1, <2>1
  <2>. QED  BY <1>2, <2>2 DEF History
<1>. QED  BY <1>1, <1>2, <1>3

\* Every bit of an ack stands for a packet that has arrived.
LEMMA ComputeAckRight ==
    Sizes /\ AckSizes => (TypeOK /\ Receiver /\ Ch3History => AnswerRight)
<1>. SUFFICES ASSUME Sizes, AckSizes, TypeOK, Receiver, Ch3History PROVE AnswerRight
  OBVIOUS
<1>. DEFINE c == Len(consumed)
            L == Len(log)
            d == Len(deliveredSeqs)
<1>1. History /\ RightEntries(reorder)
  BY DEF Receiver
<1>2. /\ c \in Nat /\ L \in Nat /\ c <= L /\ L - c <= Window
      /\ Window \in Nat /\ HalfSeq \in Nat /\ WireMod = HalfSeq + HalfSeq
      /\ Window < HalfSeq /\ AckBits \in Nat /\ AckBits < HalfSeq
      /\ DeliveredCap \in Nat /\ DeliveredCap + AckBits <= WireMod
      /\ DOMAIN consumed = 1 .. c
      /\ d \in Nat /\ DOMAIN deliveredSeqs = 1 .. d /\ d <= DeliveredCap
  <2>1. consumed \in Seq(Entries) /\ log \in Seq(Packets)
        /\ deliveredSeqs \in Seq(SeqNos) /\ d <= DeliveredCap
    BY DEF TypeOK
  <2>. QED  BY <1>1, <2>1, Constants, SpaceType, LinkAssumption, SeqSpaceAssumption
            DEF History, AckSizes
<1>3. /\ ComputeAck.r = c /\ ComputeAck.ack = Wire(c - 1)
      /\ ComputeAck.bits = {i \in 1 .. AckBits : Received(WrapAdd(Wire(c - 1), i))}
  BY <1>1, AckPointIs DEF ComputeAck
<1>4. ASSUME NEW i \in 1 .. AckBits, Received(WrapAdd(Wire(c - 1), i))
      PROVE  Came(c - 1 + i)
  <2>. DEFINE n == c - 1 + i
  <2>1. n \in Nat /\ c <= n /\ n < c + AckBits /\ c - 1 \in Int /\ i \in Int
        /\ (c - 1) + i = n
    BY <1>2
  <2>2. WrapAdd(Wire(c - 1), i) = Wire(n) /\ Wire(n) \in SeqNos
    <3>1. WrapAdd(Wire(c - 1), i) = Wire((c - 1) + i)
      BY <2>1, WireAdd
    <3>. QED  BY <2>1, <3>1, WireType
  <2>. HIDE DEF n
  <2>3. ASSUME NEW m \in Nat, c <= m, m < L, Wire(n) = Wire(m) PROVE n = m
    <3>1. -WireMod < n - m /\ n - m < WireMod /\ n \in Int /\ m \in Int
      BY <1>2, <2>1, <2>3
    <3>. QED  BY <2>3, <3>1, WireUnique
  <2>4. CASE reorder[Wire(n)] # Absent
    <3>1. PICK j \in c + 1 .. L : Wire(n) = Wire(j - 1) /\ log[j].ch = 2
      BY <1>1, <2>2, <2>4 DEF RightEntries
    <3>2. j - 1 \in Nat /\ c <= j - 1 /\ j - 1 < L /\ (j - 1) + 1 = j
      BY <1>2, <3>1
    <3>3. n = j - 1 /\ n + 1 = j /\ n < L
      BY <2>3, <3>1, <3>2
    <3>4. log[n + 1].ch = 2 /\ (n + 1) - 1 = n
      BY <2>1, <3>1, <3>3
    <3>. QED  BY <2>4, <3>3, <3>4 DEF Came, Arrived, Reliable, n
  <2>5. CASE Wire(n) \in ToSet(deliveredSeqs)
    <3>1. PICK x \in 1 .. d : Wire(n) = Wire(c - d + x - 1)
      <4>1. \A x \in 1 .. d : deliveredSeqs[x] = Wire(c - d + x - 1)
        BY <1>1, <1>2 DEF History
      <4>2. PICK x \in 1 .. d : Wire(n) = deliveredSeqs[x]
        BY <1>2, <2>5 DEF ToSet
      <4>. QED  BY <4>1, <4>2
    <3>. DEFINE m == c - d + x - 1
    <3>2. -WireMod < n - m /\ n - m < WireMod /\ n \in Int /\ m \in Int /\ m < n
      BY <1>2, <2>1
    <3>. HIDE DEF m
    <3>3. Wire(n) = Wire(m)
      BY <3>1 DEF m
    <3>. QED  BY <3>2, <3>3, WireUnique
  <2>6. CASE Wire(n) \in ToSet(ch3Seen)
    <3>1. PICK x \in DOMAIN ch3Seen : Wire(n) = ch3Seen[x]
      BY <2>6 DEF ToSet
    <3>2. PICK j \in DOMAIN ch3Out : Wire(n) = Wire(ch3Out[j])
      BY <3>1 DEF Ch3History
    <3>3. ch3Out[j] \in Nat /\ c <= ch3Out[j] /\ ch3Out[j] < L
      BY <1>1, Ch3Ahead
    <3>4. n = ch3Out[j]
      BY <2>3, <3>2, <3>3
    <3>5. log[n + 1].ch = 3 /\ n \in ToSet(ch3Out)
      BY <3>4 DEF Ch3History, ToSet
    <3>6. (n + 1) - 1 = n
      BY <2>1
    <3>. QED  BY <3>3, <3>4, <3>5, <3>6 DEF Came, Arrived, Reliable, n
  <2>. QED  BY <1>4, <2>2, <2>4, <2>5, <2>6 DEF Received
<1>5. \A i \in ComputeAck.bits : Came(ComputeAck.r - 1 + i)
  BY <1>3, <1>4
<1>. QED  BY <1>3, <1>5 DEF AnswerRight, AckRight
-----------------------------------------------------------------------------
(* What has arrived stays so.                                              *)

\* What deliver_ch2_in_order takes out of the buffer it has handed on.
LEMMA DeliverKeeps ==
    ASSUME TypeOK, Sizes, LogShape, History, UNCHANGED log,
           NEW r \in [SeqNos -> Entries], RightEntries(r), WholeEntries(r),
           DeliverCh2InOrder(r), NEW n \in Nat,
           Len(consumed) <= n, n < Len(log), r[Wire(n)] # Absent
    PROVE  n < Len(consumed') \/ reorder'[Wire(n)] # Absent
<1>. DEFINE L == Len(log)
            c == Len(consumed)
            k == RunLength(r)
            run == [i \in 1 .. k |-> WrapAdd(ch2Next, i - 1)]
            out == [i \in 1 .. k |-> r[run[i]]]
<1>1. /\ L \in Nat /\ c \in Nat /\ c <= L /\ L - c <= WireMod /\ WireMod \in Nat \ {0}
      /\ k \in 0 .. WireMod /\ k \in Nat /\ consumed \in Seq(Entries)
  <2>1. log \in Seq(Packets) /\ consumed \in Seq(Entries) /\ deliveredSeqs \in Seq(SeqNos)
    BY DEF TypeOK
  <2>2. /\ L \in Nat /\ c \in Nat /\ c <= L /\ L - c <= WireMod /\ WireMod \in Nat \ {0}
    <3>1. L \in Nat /\ c \in Nat
      BY <2>1
    <3>2. c <= L /\ L - c <= Window
      BY Zenon DEF History
    <3>3. Window <= WireMod
      BY Zenon DEF Sizes
    <3>4. Window \in Nat /\ WireMod \in Nat \ {0}
      BY Constants, LinkAssumption
    <3>. HIDE DEF L, c
    <3>. QED  BY <3>1, <3>2, <3>3, <3>4
  <2>3. k \in 0 .. WireMod /\ k \in Nat
    BY <2>2, RunLengthIs
  <2>. QED  BY <2>1, <2>2, <2>3
<1>2. /\ consumed' = consumed \o out
      /\ reorder' = [s \in SeqNos |-> IF s \in ToSet(run) THEN Absent ELSE r[s]]
  BY DEF DeliverCh2InOrder
<1>3. \A i \in 1 .. k : WrapAdd(ch2Next, i - 1) = Wire(c + (i - 1))
                        /\ WrapAdd(ch2Next, i - 1) \in SeqNos
  <2>1. ch2Next = Wire(c)
    BY DEF History
  <2>2. \A i \in 1 .. k : i - 1 \in Int /\ c + (i - 1) \in Int
    BY <1>1
  <2>3. ASSUME NEW j \in Int PROVE WrapAdd(Wire(c), j) = Wire(c + j)
    BY <1>1, WireAdd
  <2>. QED  BY <2>1, <2>2, <2>3, WireType
<1>4. ToSet(run) = {WrapAdd(ch2Next, i - 1) : i \in 1 .. k}
  BY DEF ToSet
<1>5. Len(consumed') = c + k
  <2>1. out \in Seq(Entries) /\ Len(out) = k
    BY <1>1, <1>3
  <2>. QED  BY <1>1, <1>2, <2>1, Concat
<1>6. c + k <= L
  <2>1. History'
    BY DeliverInOrder
  <2>. QED  BY <1>5, <2>1 DEF History
<1>. HIDE DEF run, out, k, L, c
<1>7. CASE Wire(n) \notin ToSet(run)
  BY <1>2, <1>7, WireType
<1>8. CASE Wire(n) \in ToSet(run)
  <2>1. PICK i \in 1 .. k : Wire(n) = Wire(c + (i - 1))
    BY <1>3, <1>4, <1>8
  <2>. DEFINE m == c + (i - 1)
  <2>2. m \in Int /\ m < c + k /\ -WireMod < n - m /\ n - m < WireMod
    BY <1>1, <1>6, <2>1 DEF L, c
  <2>. HIDE DEF m
  <2>3. n = m
    BY <2>1, <2>2, WireUnique DEF m
  <2>. QED  BY <1>5, <2>2, <2>3
<1>. QED  BY <1>7, <1>8

\* handle_ch2 loses nothing that has arrived.
LEMMA HandleCh2Keeps ==
    ASSUME TypeOK, Numbered, Sizes, Fresh, Sender, Receiver,
           NEW p \in net, p.ch = 2, HandleCh2(p), UNCHANGED log,
           p \in Unacked \/ Len(log) - p.n <= Lifetime,
           NEW n \in Nat, n < Len(log),
           n < Len(consumed) \/ reorder[Wire(n)] # Absent
    PROVE  n < Len(consumed') \/ reorder'[Wire(n)] # Absent
<1>1. LogShape /\ QueueShape /\ History /\ RightEntries(reorder)
      /\ WholeEntries(reorder) /\ Groups
  BY DEF Sender, Receiver
<1>2. Wire(n) \in SeqNos /\ Len(consumed) \in Nat
  BY WireType DEF TypeOK
<1>3. ASSUME NEW r \in [SeqNos -> Entries], RightEntries(r), WholeEntries(r),
             DeliverCh2InOrder(r),
             reorder[Wire(n)] # Absent => r[Wire(n)] # Absent
      PROVE  n < Len(consumed') \/ reorder'[Wire(n)] # Absent
  <2>1. CASE n < Len(consumed)
    <3>1. Len(consumed) <= Len(consumed') /\ History'
      BY <1>1, <1>3, DeliverInOrder
    <3>2. Len(consumed') \in Nat
      <4>1. consumed' \in Seq(Entries)
        BY <1>3, DeliverType
      <4>. QED  BY <4>1
    <3>. QED  BY <1>2, <2>1, <3>1, <3>2
  <2>2. CASE Len(consumed) <= n /\ reorder[Wire(n)] # Absent
    BY <1>1, <1>3, <2>2, DeliverKeeps
  <2>. QED  BY <1>2, <2>1, <2>2
<1>4. CASE UNCHANGED <<consumed, reorder>>
  BY <1>4
<1>5. CASE ~IsOldCh2(p) /\ ~p.frag
           /\ DeliverCh2InOrder([reorder EXCEPT ![p.seq] = p.msg])
  <2>. DEFINE r == [reorder EXCEPT ![p.seq] = p.msg]
  <2>1. r \in [SeqNos -> Entries] /\ RightEntries(r) /\ WholeEntries(r)
    BY <1>1, <1>5, PlainEntries
  <2>2. reorder[Wire(n)] # Absent => r[Wire(n)] # Absent
    <3>1. p.msg \in Nat
      BY NetPacket DEF Packets
    <3>2. p.msg # Absent
      BY <3>1 DEF Absent
    <3>. QED  BY <1>2, <3>2 DEF TypeOK
  <2>3. DeliverCh2InOrder(r)
    BY <1>5
  <2>. HIDE DEF r
  <2>. QED  BY <1>3, <2>1, <2>2, <2>3
<1>6. CASE ~IsOldCh2(p) /\ p.frag /\ PushFragment(p) /\ ~UNCHANGED <<consumed, reorder>>
  <2>. DEFINE g == GroupWith(p)
  <2>1. WellFormed(p) /\ Complete(g) /\ DeliverCh2InOrder(WithGroup(g))
    BY <1>6 DEF PushFragment, ch2Vars
  <2>2. p \in Packets
    BY NetPacket
  <2>3. IsGroup(g) /\ g # NoGroup
    BY <2>1, <2>2, GroupWithType
  <2>4. Collects(log, g, p.msg) /\ p.msg \in Nat /\ Len(consumed) <= p.msg
    BY <1>1, <1>6, <2>1, GroupCollects, NewMessage
  <2>. HIDE DEF g
  <2>5. WithGroup(g) \in [SeqNos -> Entries]
    BY <2>3, WithGroupType
  <2>6. RightEntries(WithGroup(g)) /\ WholeEntries(WithGroup(g))
    BY <1>1, <2>1, <2>3, <2>4, GroupEntries
  <2>7. reorder[Wire(n)] # Absent => WithGroup(g)[Wire(n)] # Absent
    <3>1. Joined(g) # Absent
      <4>1. g.parts[0] \in Chunks
        BY <2>3 DEF IsGroup
      <4>. QED  BY <4>1 DEF Joined, Chunks, Absent, Corrupt
    <3>2. Placeholder # Absent
      BY DEF Placeholder, Absent
    <3>. QED  BY <1>2, <3>1, <3>2 DEF WithGroup
  <2>. QED  BY <1>3, <2>1, <2>5, <2>6, <2>7
<1>. QED  BY <1>4, <1>5, <1>6 DEF HandleCh2, ch2Vars

\* A step changes nothing of what has arrived, and the history only grows.
LEMMA CameStable ==
    ASSUME TypeOK, TypeOK', Numbered, Sizes, Fresh, Sender, Receiver, [Next]_vars,
           NEW n \in Nat, Came(n)
    PROVE  Came(n)' /\ log'[n + 1] = log[n + 1]
<1>1. n < Len(log) /\ log[n + 1].ch \in Reliable /\ Arrived(n + 1)
      /\ (n + 1) - 1 = n /\ Len(log) \in Nat
  BY DEF Came, TypeOK
<1>2. ASSUME UNCHANGED <<log, consumed, reorder, ch3Out>>
      PROVE  Came(n)' /\ log'[n + 1] = log[n + 1]
  BY <1>2 DEF Came, Arrived
<1>3. ASSUME NEW ch \in Channels, NEW parts \in GroupSizes \cup {1},
             PackOutbound(ch, parts)
      PROVE  Came(n)' /\ log'[n + 1] = log[n + 1]
  <2>1. /\ Len(log) <= Len(log') /\ Len(log') \in Nat
        /\ \A i \in 1 .. Len(log) : log'[i] = log[i]
    <3>1. parts \in Nat
      BY SendArguments
    <3>2. /\ Taken(ch, parts) \in 1 .. parts /\ Len(log') = Len(log) + Taken(ch, parts)
          /\ \A i \in 1 .. Len(log) : log'[i] = log[i]
      BY <1>3, PackOutboundLog
    <3>. QED  BY <1>1, <3>1, <3>2
  <2>2. n + 1 \in 1 .. Len(log) /\ n < Len(log')
    BY <1>1, <2>1
  <2>3. UNCHANGED <<consumed, reorder, ch3Out>>
    BY <1>3 DEF PackOutbound, ch2Vars, ch3Vars
  <2>. QED  BY <1>1, <2>1, <2>2, <2>3 DEF Came, Arrived
<1>4. ASSUME NEW a \in ackNet, OnAck(a) PROVE UNCHANGED <<log, consumed, reorder, ch3Out>>
  BY <1>4 DEF OnAck, ch2Vars, ch3Vars
<1>5. ASSUME NEW due \in SUBSET Unacked, MaintainReliable(due)
      PROVE  UNCHANGED <<log, consumed, reorder, ch3Out>>
  BY <1>5 DEF MaintainReliable, senderVars, ch2Vars, ch3Vars
<1>6. ASSUME NEW p \in net, HandleSessionPacket(p)
      PROVE  Came(n)' /\ log'[n + 1] = log[n + 1]
  <2>1. UNCHANGED log /\ (p \in Unacked \/ Len(log) - p.n <= Lifetime)
    BY <1>6 DEF HandleSessionPacket, senderVars
  <2>2. CASE p.ch = 2
    <3>1. HandleCh2(p) /\ UNCHANGED ch3Out
      BY <1>6, <2>2 DEF HandleSessionPacket, ch3Vars
    <3>2. CASE log[n + 1].ch = 2
      <4>1. n < Len(consumed) \/ reorder[Wire(n)] # Absent
        <5>1. Len(consumed) \in Nat
          BY DEF TypeOK
        <5>. QED  BY <1>1, <3>2, <5>1 DEF Arrived
      <4>2. n < Len(consumed') \/ reorder'[Wire(n)] # Absent
        BY <1>1, <2>1, <2>2, <3>1, <4>1, HandleCh2Keeps
      <4>3. Len(consumed') \in Nat
        BY DEF TypeOK
      <4>4. Arrived(n + 1)'
        BY <1>1, <2>1, <3>2, <4>2, <4>3 DEF Arrived
      <4>. QED  BY <1>1, <2>1, <4>4 DEF Came
    <3>3. CASE log[n + 1].ch # 2
      BY <1>1, <2>1, <3>1, <3>3 DEF Came, Arrived
    <3>. QED  BY <3>2, <3>3
  <2>3. CASE p.ch # 2
    <3>1. UNCHANGED <<consumed, reorder>>
      <4>1. p.ch \in 0 .. 3
        BY NetPacket DEF Packets
      <4>. QED  BY <1>6, <2>3, <4>1 DEF HandleSessionPacket, ch2Vars
    <3>2. n \in ToSet(ch3Out) => n \in ToSet(ch3Out')
      <4>1. ch3Out' = ch3Out \/ ch3Out' = Append(ch3Out, p.n)
        BY <1>6 DEF HandleSessionPacket, HandleCh3, ch3Vars
      <4>2. ch3Out \in Seq(Nat) /\ p.n \in Nat
        BY NetPacket DEF TypeOK
      <4>3. ASSUME NEW i \in DOMAIN ch3Out
            PROVE  i \in DOMAIN ch3Out' /\ ch3Out'[i] = ch3Out[i]
        BY <4>1, <4>2, <4>3
      <4>. QED  BY <4>3 DEF ToSet
    <3>. QED  BY <1>1, <2>1, <3>1, <3>2 DEF Came, Arrived
  <2>. QED  BY <2>2, <2>3
<1>7. ASSUME PiggybackAck PROVE UNCHANGED <<log, consumed, reorder, ch3Out>>
  BY <1>7 DEF PiggybackAck, senderVars, ch2Vars, ch3Vars
<1>8. ASSUME NEW g \in SeqNos, AssemblerCleanup(g)
      PROVE  UNCHANGED <<log, consumed, reorder, ch3Out>>
  BY <1>8 DEF AssemblerCleanup, senderVars, ch3Vars
<1>9. ASSUME NetworkLoss PROVE UNCHANGED <<log, consumed, reorder, ch3Out>>
  BY <1>9 DEF NetworkLoss, senderVars, ch2Vars, ch3Vars
<1>10. CASE UNCHANGED vars
  BY <1>2, <1>10 DEF vars, senderVars, ch2Vars, ch3Vars
<1>. QED  BY <1>2, <1>3, <1>4, <1>5, <1>6, <1>7, <1>8, <1>9, <1>10 DEF Next

\* A message of Ch3 is one packet, and it was accepted if it was sent.
LEMMA WholeCh3 ==
    ASSUME TypeOK, Numbered, Sender, NEW p \in net, p.ch = 3
    PROVE  p.ok /\ log[p.n + 1].ok
<1>1. p \in Packets /\ p.n \in Nat /\ p.n + 1 \in DOMAIN log /\ p = log[p.n + 1]
  BY NetPacket
<1>2. p.msg < p.n + 1 /\ p.len = 1
  BY <1>1 DEF Sender, LogShape
<1>3. p.msg \in Nat
  BY <1>1 DEF Packets
<1>4. Sendable(p)
  BY DEF Sender, QueueShape
<1>. QED  BY <1>1, <1>2, <1>3, <1>4 DEF Sendable

\* handle_ch3 remembers what it hands on.
LEMMA Ch3HistoryStep ==
    TypeOK /\ TypeOK' /\ Numbered /\ Sender /\ Ch3History /\ [Next]_vars => Ch3History'
<1>. SUFFICES ASSUME TypeOK, TypeOK', Numbered, Sender, Ch3History, [Next]_vars
              PROVE  Ch3History'
  OBVIOUS
<1>1. /\ \A j \in DOMAIN ch3Out : ch3Out[j] \in Nat /\ ch3Out[j] + 1 \in 1 .. Len(log)
      /\ Len(log) \in Nat
  <2>1. ch3Out \in Seq(Nat) /\ Len(log) \in Nat
    BY DEF TypeOK
  <2>2. \A j \in DOMAIN ch3Out : ch3Out[j] < Len(log)
    BY DEF Ch3History
  <2>. QED  BY <2>1, <2>2
<1>2. ASSUME UNCHANGED <<log, ch3Out, ch3Seen>> PROVE Ch3History'
  BY <1>2 DEF Ch3History
<1>3. ASSUME NEW ch \in Channels, NEW parts \in GroupSizes \cup {1},
             PackOutbound(ch, parts)
      PROVE  Ch3History'
  <2>1. /\ Taken(ch, parts) \in 1 .. parts /\ Len(log') = Len(log) + Taken(ch, parts)
        /\ \A i \in 1 .. Len(log) : log'[i] = log[i]
    BY <1>3, PackOutboundLog
  <2>2. parts \in Nat /\ UNCHANGED <<ch3Out, ch3Seen>>
    BY <1>3, SendArguments DEF PackOutbound, ch3Vars
  <2>3. Len(log) <= Len(log') /\ Len(log') \in Nat
    BY <1>1, <2>1, <2>2
  <2>. QED  BY <1>1, <2>1, <2>2, <2>3 DEF Ch3History
<1>4. ASSUME NEW a \in ackNet, OnAck(a) PROVE Ch3History'
  BY <1>2, <1>4 DEF OnAck, ch3Vars
<1>5. ASSUME NEW due \in SUBSET Unacked, MaintainReliable(due) PROVE Ch3History'
  BY <1>2, <1>5 DEF MaintainReliable, senderVars, ch3Vars
<1>6. ASSUME NEW p \in net, HandleSessionPacket(p) PROVE Ch3History'
  <2>1. UNCHANGED log
    BY <1>6 DEF HandleSessionPacket, senderVars
  <2>2. CASE UNCHANGED ch3Vars
    BY <1>2, <2>1, <2>2 DEF ch3Vars
  <2>3. CASE p.ch = 3 /\ ~UNCHANGED ch3Vars
    <3>1. /\ ch3Seen' = LastN(Append(ch3Seen, p.seq), SeenCap)
          /\ ch3Out' = Append(ch3Out, p.n)
      BY <1>6, <2>3 DEF HandleSessionPacket, HandleCh3
    <3>2. p.n \in Nat /\ p.n < Len(log) /\ log[p.n + 1].ch = 3 /\ p.seq = Wire(p.n)
          /\ p.seq \in SeqNos
      BY <2>3, NetPacket DEF Packets
    <3>3. ch3Out \in Seq(Nat) /\ ch3Seen \in Seq(SeqNos) /\ SeenCap \in Nat
      BY Constants DEF TypeOK
    <3>4. log[p.n + 1].ok
      BY <2>3, WholeCh3
    <3>. DEFINE o == Append(ch3Out, p.n)
                s == Append(ch3Seen, p.seq)
    <3>5. /\ DOMAIN o = 1 .. Len(ch3Out) + 1 /\ o[Len(ch3Out) + 1] = p.n
          /\ \A j \in 1 .. Len(ch3Out) : o[j] = ch3Out[j]
          /\ DOMAIN ch3Out = 1 .. Len(ch3Out) /\ Len(ch3Out) \in Nat
      BY <3>2, <3>3
    <3>6. /\ DOMAIN s = 1 .. Len(ch3Seen) + 1 /\ s[Len(ch3Seen) + 1] = p.seq
          /\ \A j \in 1 .. Len(ch3Seen) : s[j] = ch3Seen[j]
          /\ DOMAIN ch3Seen = 1 .. Len(ch3Seen) /\ Len(ch3Seen) \in Nat /\ s \in Seq(SeqNos)
          /\ Len(s) = Len(ch3Seen) + 1
      BY <3>2, <3>3
    <3>. HIDE DEF o, s
    <3>7. \A i \in DOMAIN o : o[i] < Len(log) /\ log[o[i] + 1].ch = 3 /\ log[o[i] + 1].ok
      <4>. SUFFICES ASSUME NEW i \in DOMAIN o
                    PROVE  o[i] < Len(log) /\ log[o[i] + 1].ch = 3 /\ log[o[i] + 1].ok
        OBVIOUS
      <4>1. i \in 1 .. Len(ch3Out) \/ i = Len(ch3Out) + 1
        BY <3>5
      <4>. QED  BY <3>2, <3>5, <3>4, <4>1 DEF Ch3History
    <3>8. ASSUME NEW i \in DOMAIN s PROVE \E j \in DOMAIN o : s[i] = Wire(o[j])
      <4>1. CASE i \in 1 .. Len(ch3Seen)
        <5>1. PICK j \in DOMAIN ch3Out : ch3Seen[i] = Wire(ch3Out[j])
          BY <3>6, <4>1 DEF Ch3History
        <5>2. j \in DOMAIN o /\ o[j] = ch3Out[j]
          BY <3>5
        <5>. QED  BY <3>6, <4>1, <5>1, <5>2
      <4>2. CASE i = Len(ch3Seen) + 1
        <5>1. Len(ch3Out) + 1 \in DOMAIN o
          BY <3>5
        <5>. QED  BY <3>2, <3>5, <3>6, <4>2, <5>1
      <4>. QED  BY <3>6, <4>1, <4>2
    <3>9. ASSUME NEW i \in DOMAIN LastN(s, SeenCap)
          PROVE  \E h \in DOMAIN s : LastN(s, SeenCap)[i] = s[h]
      <4>1. CASE Len(s) <= SeenCap
        BY <4>1, <3>9 DEF LastN
      <4>2. CASE ~(Len(s) <= SeenCap)
        <5>1. LastN(s, SeenCap) = SubSeq(s, Len(s) - SeenCap + 1, Len(s))
          BY <4>2 DEF LastN
        <5>2. DOMAIN LastN(s, SeenCap) = 1 .. SeenCap
          BY <3>3, <3>6, <4>2, <5>1
        <5>3. LastN(s, SeenCap)[i] = s[Len(s) - SeenCap + i]
          BY <3>3, <3>6, <3>9, <4>2, <5>1, <5>2
        <5>4. Len(s) - SeenCap + i \in DOMAIN s
          BY <3>3, <3>6, <3>9, <4>2, <5>2
        <5>. QED  BY <5>3, <5>4
      <4>. QED  BY <4>1, <4>2
    <3>10. ch3Out' = o /\ ch3Seen' = LastN(s, SeenCap)
      BY <3>1 DEF o, s
    <3>. QED  BY <2>1, <3>7, <3>8, <3>9, <3>10 DEF Ch3History
  <2>4. UNCHANGED ch3Vars \/ p.ch = 3
    BY <1>6 DEF HandleSessionPacket
  <2>. QED  BY <2>2, <2>3, <2>4
<1>7. ASSUME PiggybackAck PROVE Ch3History'
  BY <1>2, <1>7 DEF PiggybackAck, senderVars, ch3Vars
<1>8. ASSUME NEW g \in SeqNos, AssemblerCleanup(g) PROVE Ch3History'
  BY <1>2, <1>8 DEF AssemblerCleanup, senderVars, ch3Vars
<1>9. ASSUME NetworkLoss PROVE Ch3History'
  BY <1>2, <1>9 DEF NetworkLoss, senderVars, ch3Vars
<1>10. CASE UNCHANGED vars
  BY <1>2, <1>10 DEF vars, senderVars, ch3Vars
<1>. QED  BY <1>2, <1>3, <1>4, <1>5, <1>6, <1>7, <1>8, <1>9, <1>10 DEF Next
-----------------------------------------------------------------------------
(* What on_ack takes away.                                                 *)

\* Every entry at the front that is taken away is acknowledged.
LEMMA AckedPrefixIs ==
    ASSUME NEW q \in Seq(Packets), NEW a
    PROVE  /\ AckedPrefix(q, a) \in 0 .. Len(q)
           /\ \A k \in 1 .. AckedPrefix(q, a) : IsAcked(q[k].seq, a)
<1>. DEFINE S == {k \in 0 .. Len(q) : k = Len(q) \/ ~IsAcked(q[k + 1].seq, a)}
<1>1. S \in SUBSET Nat /\ Len(q) \in S /\ Len(q) \in Nat
  OBVIOUS
<1>2. Min(S) \in S /\ \A x \in S : Min(S) <= x
  BY <1>1, MinNat
<1>3. AckedPrefix(q, a) = Min(S)
  BY DEF AckedPrefix
<1>. DEFINE P == AckedPrefix(q, a)
<1>4. P \in 0 .. Len(q) /\ \A x \in S : P <= x
  BY <1>2, <1>3
<1>. HIDE DEF P
<1>5. ASSUME NEW k \in 1 .. P PROVE IsAcked(q[k].seq, a)
  <2>1. k - 1 \in 0 .. Len(q) /\ ~(P <= k - 1) /\ k - 1 # Len(q) /\ (k - 1) + 1 = k
    BY <1>1, <1>4
  <2>2. k - 1 \notin S
    BY <1>4, <2>1
  <2>. QED  BY <2>1, <2>2
<1>. QED  BY <1>4, <1>5 DEF P

\* What is_acked says of an ack that says nothing wrong: the packet has come.
LEMMA AckedCame ==
    ASSUME TypeOK, AckSizes, History, NEW a \in Acks, AckRight(a),
           Len(log) - a.r <= Window,
           NEW n \in Nat, n < Len(log), log[n + 1].ch \in Reliable,
           IsAcked(Wire(n), a)
    PROVE  Came(n)
<1>. DEFINE c == Len(consumed)
            L == Len(log)
<1>1. /\ c \in Nat /\ L \in Nat /\ c <= L /\ DOMAIN consumed = 1 .. c
      /\ a.r \in Nat /\ a.r <= c /\ a.ack = Wire(a.r - 1) /\ a.bits \subseteq 1 .. AckBits
      /\ Window \in Nat /\ HalfSeq \in Nat \ {0} /\ Window < HalfSeq
      /\ WireMod = HalfSeq + HalfSeq /\ (n + 1) - 1 = n
  <2>1. consumed \in Seq(Entries) /\ log \in Seq(Packets)
    BY DEF TypeOK
  <2>2. a.r \in Nat /\ a.bits \subseteq 1 .. AckBits
    BY DEF Acks
  <2>3. c <= L /\ a.r <= c /\ a.ack = Wire(a.r - 1) /\ Window < HalfSeq
    BY DEF AckRight, AckSizes, History
  <2>4. Window \in Nat /\ HalfSeq \in Nat \ {0} /\ WireMod = HalfSeq + HalfSeq
    BY SpaceType, LinkAssumption
  <2>5. (n + 1) - 1 = n
    OBVIOUS
  <2>. QED  BY <2>1, <2>2, <2>3, <2>4, <2>5
<1>2. CASE n < a.r
  <2>1. n + 1 <= c /\ n + 1 \in DOMAIN consumed
    BY <1>1, <1>2
  <2>2. log[n + 1].ch = 2
    BY <2>1 DEF History
  <2>. QED  BY <2>1, <2>2 DEF Came, Arrived, c
<1>3. CASE a.r <= n
  <2>. DEFINE m == a.r - 1
  <2>1. m \in Int /\ n - m > 0 /\ n - m < HalfSeq + 1 /\ m + (n - m) = n
        /\ n > m /\ n >= m /\ n - m \in Nat
    BY <1>1, <1>3
  <2>2. n - m < HalfSeq
    BY <1>1, <1>3
  <2>3. n - m < WireMod /\ -WireMod <= n - m
    <3>. DEFINE d == n - m
    <3>1. d \in Nat /\ d < HalfSeq
      BY <2>1, <2>2
    <3>. HIDE DEF d
    <3>2. d < WireMod /\ -WireMod <= d
      BY <1>1, <3>1
    <3>. QED  BY <3>2 DEF d
  <2>. HIDE DEF m
  <2>4. WrapSub(Wire(n), Wire(m)) = n - m
    BY <2>1, <2>3, WireSub
  <2>5. SeqNewer(Wire(n), Wire(m))
    <3>1. -HalfSeq < n - m
      BY <1>1, <2>1
    <3>. QED  BY <2>1, <2>2, <3>1, WireOrder
  <2>6. n - m \in a.bits
    BY <1>1, <2>4, <2>5 DEF IsAcked, m
  <2>7. Came(a.r - 1 + (n - m))
    BY <2>6 DEF AckRight
  <2>8. a.r - 1 + (n - m) = n
    BY <1>1, <2>1 DEF m
  <2>. QED  BY <2>7, <2>8
<1>. QED  BY <1>1, <1>2, <1>3
-----------------------------------------------------------------------------
(* Acks stay right on their way.                                           *)

\* The answer to a packet is right in the state it leaves.
LEMMA NextAnswerRight ==
    Sizes /\ AckSizes /\ TypeOK' /\ Receiver' /\ Ch3History' => AnswerRight'
<1>. SUFFICES ASSUME Sizes, AckSizes
              PROVE  TypeOK' /\ Receiver' /\ Ch3History' => AnswerRight'
  OBVIOUS
<1>1. TypeOK /\ Receiver /\ Ch3History => AnswerRight
  BY ComputeAckRight
<1>. QED  BY <1>1, PTL

\* An ack that was right when it was sent is right when it arrives, however
\* long it takes.
LEMMA AcksRightStep ==
    ASSUME TypeOK, TypeOK', Numbered, Sizes, AckSizes, Fresh, Sender, Receiver,
           Receiver', Ch3History, Ch3History', AcksRight, [Next]_vars
    PROVE  AcksRight'
<1>1. Len(consumed) <= Len(consumed') /\ Len(consumed) \in Nat /\ Len(consumed') \in Nat
  BY ConsumedGrows DEF TypeOK
<1>2. ASSUME NEW a \in Acks, AckRight(a) PROVE AckRight(a)'
  <2>1. a.r \in Nat /\ a.r <= Len(consumed) /\ a.ack = Wire(a.r - 1)
        /\ a.bits \subseteq 1 .. AckBits
    BY <1>2 DEF AckRight, Acks
  <2>2. ASSUME NEW i \in a.bits PROVE Came(a.r - 1 + i)'
    <3>. DEFINE n == a.r - 1 + i
    <3>1. n \in Nat
      BY <2>1, <2>2
    <3>2. Came(n)
      BY <1>2, <2>2 DEF AckRight
    <3>. HIDE DEF n
    <3>3. Came(n)'
      BY <3>1, <3>2, CameStable
    <3>. QED  BY <3>3 DEF n
  <2>3. a.r <= Len(consumed')
    BY <1>1, <2>1
  <2>. QED  BY <2>1, <2>2, <2>3 DEF AckRight
<1>3. AnswerRight /\ AnswerRight'
  BY ComputeAckRight, NextAnswerRight
<1>4. ASSUME NEW a \in ackNet' PROVE a \in ackNet \/ a = ComputeAck \/ a = ComputeAck'
  <2>. SUFFICES ASSUME a \notin ackNet PROVE a = ComputeAck \/ a = ComputeAck'
    OBVIOUS
  <2>1. ASSUME NEW ch \in Channels, NEW parts \in GroupSizes \cup {1},
               PackOutbound(ch, parts)
        PROVE  FALSE
    BY <1>4, <2>1 DEF PackOutbound
  <2>2. ASSUME NEW b \in ackNet, OnAck(b) PROVE FALSE
    BY <1>4, <2>2 DEF OnAck
  <2>3. ASSUME NEW due \in SUBSET Unacked, MaintainReliable(due) PROVE FALSE
    BY <1>4, <2>3 DEF MaintainReliable
  <2>4. ASSUME NEW p \in net, HandleSessionPacket(p) PROVE a = ComputeAck'
    BY <1>4, <2>4 DEF HandleSessionPacket, Emit
  <2>5. ASSUME PiggybackAck PROVE a = ComputeAck
    BY <1>4, <2>5 DEF PiggybackAck, Emit
  <2>6. ASSUME NEW g \in SeqNos, AssemblerCleanup(g) PROVE FALSE
    BY <1>4, <2>6 DEF AssemblerCleanup
  <2>7. ASSUME NetworkLoss PROVE FALSE
    BY <1>4, <2>7 DEF NetworkLoss, Lose
  <2>8. CASE UNCHANGED vars
    BY <1>4, <2>8 DEF vars
  <2>. QED  BY <2>1, <2>2, <2>3, <2>4, <2>5, <2>6, <2>7, <2>8 DEF Next
<1>5. ComputeAck \in Acks
  BY ComputeAckType DEF TypeOK
<1>6. ASSUME NEW a \in ackNet' PROVE AckRight(a)'
  <2>1. CASE a \in ackNet
    BY <1>2, <2>1 DEF AcksRight, TypeOK
  <2>2. CASE a = ComputeAck
    BY <1>2, <1>3, <1>5, <2>2 DEF AnswerRight
  <2>3. CASE a = ComputeAck'
    <3>. HIDE DEF ComputeAck
    <3>. QED  BY <1>3, <2>3 DEF AnswerRight, AckRight
  <2>. QED  BY <1>4, <2>1, <2>2, <2>3
<1>. QED  BY <1>6 DEF AcksRight

\* on_ack forgets a packet only when it has come; pack_outbound queues what
\* it accepts.
LEMMA ForgottenStep ==
    ASSUME TypeOK, TypeOK', Numbered, Sizes, AckSizes, Fresh, Sender, Receiver,
           AcksRight, ForgottenOnlyIfArrived, [Next]_vars
    PROVE  ForgottenOnlyIfArrived'
<1>1. Len(log) \in Nat /\ DOMAIN log = 1 .. Len(log)
  BY DEF TypeOK
<1>2. ASSUME NEW n \in Nat, Came(n)
      PROVE  Arrived(n + 1)' /\ log'[n + 1] = log[n + 1]
  BY <1>2, CameStable DEF Came
<1>3. ASSUME NEW i \in DOMAIN log, log[i].ch \in Reliable, log[i].ok
      PROVE  Queued(i) \/ Came(i - 1)
  <2>1. i - 1 \in Nat /\ (i - 1) + 1 = i /\ i - 1 < Len(log)
    BY <1>1
  <2>. QED  BY <1>3, <2>1 DEF ForgottenOnlyIfArrived, Came
<1>4. ASSUME NEW i \in DOMAIN log, log[i].ch \in Reliable, log[i].ok,
             Queued(i) => Queued(i)' \/ Came(i - 1)
      PROVE  Queued(i)' \/ Arrived(i)'
  <2>. DEFINE n == i - 1
  <2>1. n \in Nat /\ n + 1 = i
    BY <1>1
  <2>2. Queued(i)' \/ Came(n)
    BY <1>3, <1>4
  <2>. HIDE DEF n
  <2>3. Came(n) => Arrived(n + 1)'
    BY <1>2, <2>1
  <2>4. Came(n) => Arrived(i)'
    BY <2>1, <2>3 DEF Arrived
  <2>. QED  BY <2>2, <2>4
<1>5. ASSUME UNCHANGED <<log, retrans>> PROVE ForgottenOnlyIfArrived'
  <2>. SUFFICES ASSUME NEW i \in DOMAIN log, log[i].ch \in Reliable, log[i].ok
                PROVE  Queued(i)' \/ Arrived(i)'
    BY <1>5 DEF ForgottenOnlyIfArrived
  <2>1. Queued(i) => Queued(i)'
    BY <1>5 DEF Queued
  <2>. QED  BY <1>4, <2>1
<1>6. ASSUME NEW ch \in Channels, NEW parts \in GroupSizes \cup {1},
             PackOutbound(ch, parts)
      PROVE  ForgottenOnlyIfArrived'
  <2>. DEFINE used == Taken(ch, parts)
              ok == parts <= Room(ch)
  <2>1. /\ used \in 1 .. parts /\ DOMAIN log' = 1 .. Len(log) + used
        /\ \A i \in 1 .. Len(log) : log'[i] = log[i]
        /\ \A i \in Len(log) + 1 .. Len(log) + used :
              log'[i] = NewPacket(ch, parts, i - Len(log) - 1, ok)
    BY <1>6, PackOutboundLog
  <2>2. \A c \in Reliable : \E d \in Nat :
             /\ c = ch /\ ok => d = used
             /\ DOMAIN retrans'[c] = 1 .. Len(retrans[c]) + d
             /\ \A k \in 1 .. Len(retrans[c]) : retrans'[c][k] = retrans[c][k]
             /\ \A k \in Len(retrans[c]) + 1 .. Len(retrans[c]) + d :
                   retrans'[c][k] = log'[Len(log) + k - Len(retrans[c])]
    BY <1>6, PackOutboundLog
  <2>3. parts \in Nat /\ \A c \in Reliable : Len(retrans[c]) \in Nat
                                              /\ DOMAIN retrans[c] = 1 .. Len(retrans[c])
    BY SendArguments DEF TypeOK
  <2>4. ASSUME NEW i \in 1 .. Len(log), log[i].ch \in Reliable, log[i].ok
        PROVE  Queued(i)' \/ Arrived(i)'
    <3>1. Queued(i) => Queued(i)'
      <4>. SUFFICES ASSUME NEW k \in DOMAIN retrans[log[i].ch],
                           retrans[log[i].ch][k].n = i - 1
                    PROVE  Queued(i)'
        BY DEF Queued
      <4>. DEFINE c == log[i].ch
      <4>1. log'[i] = log[i]
        BY <2>1
      <4>2. k \in DOMAIN retrans'[c] /\ retrans'[c][k] = retrans[c][k]
        <5>. HIDE DEF c, used
        <5>1. c \in Reliable /\ k \in 1 .. Len(retrans[c])
          BY <2>3, <2>4 DEF c
        <5>2. PICK d \in Nat : /\ DOMAIN retrans'[c] = 1 .. Len(retrans[c]) + d
                               /\ retrans'[c][k] = retrans[c][k]
          BY <2>2, <5>1
        <5>. QED  BY <2>3, <5>1, <5>2
      <4>. QED  BY <4>1, <4>2 DEF Queued
    <3>. QED  BY <1>1, <1>4, <2>4, <3>1
  <2>5. ASSUME NEW i \in Len(log) + 1 .. Len(log) + used,
               log'[i].ch \in Reliable, log'[i].ok
        PROVE  Queued(i)'
    <3>1. log'[i].ch = ch /\ log'[i].ok = ok /\ log'[i].n = i - 1
      <4>1. Numbered'
        BY NumberedStep
      <4>2. i \in DOMAIN log'
        BY <1>1, <2>1, <2>3
      <4>3. log'[i].n = i - 1
        BY <4>1, <4>2 DEF Numbered
      <4>4. \A j : NewPacket(ch, parts, j, ok).ch = ch /\ NewPacket(ch, parts, j, ok).ok = ok
        BY DEF NewPacket
      <4>. QED  BY <2>1, <4>3, <4>4
    <3>2. ch \in Reliable /\ ok
      BY <2>5, <3>1
    <3>3. PICK d \in Nat :
             /\ d = used
             /\ DOMAIN retrans'[ch] = 1 .. Len(retrans[ch]) + d
             /\ \A k \in Len(retrans[ch]) + 1 .. Len(retrans[ch]) + d :
                   retrans'[ch][k] = log'[Len(log) + k - Len(retrans[ch])]
      BY <2>2, <3>2
    <3>. DEFINE k == Len(retrans[ch]) + (i - Len(log))
    <3>. HIDE DEF used, ok
    <3>4. /\ k \in Len(retrans[ch]) + 1 .. Len(retrans[ch]) + d /\ k \in DOMAIN retrans'[ch]
          /\ Len(log) + k - Len(retrans[ch]) = i
      BY <1>1, <2>1, <2>3, <2>5, <3>2, <3>3
    <3>. HIDE DEF k
    <3>5. retrans'[ch][k] = log'[i]
      BY <3>3, <3>4
    <3>. QED  BY <3>1, <3>4, <3>5 DEF Queued
  <2>6. \A i \in DOMAIN log' : i \in 1 .. Len(log) \/ i \in Len(log) + 1 .. Len(log) + used
    BY <1>1, <2>1, <2>3
  <2>. HIDE DEF used
  <2>. QED  BY <2>1, <2>4, <2>5, <2>6 DEF ForgottenOnlyIfArrived
<1>7. ASSUME NEW a \in ackNet, OnAck(a) PROVE ForgottenOnlyIfArrived'
  <2>1. /\ UNCHANGED log /\ Len(log) - a.r <= Window
        /\ retrans' = [ch \in Reliable |-> Rest(retrans[ch], a)]
    BY <1>7 DEF OnAck
  <2>2. ASSUME NEW i \in DOMAIN log, log[i].ch \in Reliable, log[i].ok, Queued(i)
        PROVE  Queued(i)' \/ Came(i - 1)
    <3>. DEFINE c == log[i].ch
                q == retrans[c]
                P == AckedPrefix(q, a)
    <3>1. q \in Seq(Packets) /\ c \in Reliable
      BY <2>2 DEF TypeOK
    <3>2. PICK k \in DOMAIN q : q[k].n = i - 1
      BY <2>2 DEF Queued
    <3>3. P \in 0 .. Len(q) /\ \A j \in 1 .. P : IsAcked(q[j].seq, a)
      BY <3>1, AckedPrefixIs
    <3>4. k \in 1 .. Len(q) /\ Len(q) \in Nat
      BY <3>1
    <3>5. retrans'[c] = SubSeq(q, P + 1, Len(q))
      BY <2>1, <3>1 DEF Rest
    <3>. HIDE DEF P
    <3>6. CASE k <= P
      <4>. DEFINE n == i - 1
      <4>1. n \in Nat /\ n + 1 = i /\ n < Len(log)
        BY <1>1
      <4>2. q[k].seq = Wire(n)
        <5>1. q[k].n \in Nat /\ q[k] = log[q[k].n + 1]
          BY <3>1, <3>4, QueueNumbers
        <5>2. log[i].seq = Wire(n)
          BY DEF Numbered
        <5>3. q[k] = log[i]
          BY <3>2, <4>1, <5>1
        <5>. QED  BY <5>2, <5>3
      <4>3. k \in 1 .. P
        BY <3>3, <3>4, <3>6
      <4>4. IsAcked(Wire(n), a)
        <5>1. IsAcked(q[k].seq, a)
          BY <3>3, <4>3
        <5>. QED  BY <4>2, <5>1
      <4>. HIDE DEF n
      <4>5. a \in Acks /\ AckRight(a) /\ History
        BY <1>7 DEF TypeOK, AcksRight, Receiver
      <4>6. log[n + 1].ch \in Reliable
        BY <2>2, <4>1
      <4>7. Came(n)
        BY <2>1, <4>1, <4>4, <4>5, <4>6, AckedCame
      <4>. QED  BY <4>7 DEF n
    <3>7. CASE P < k
      <4>. DEFINE j == k - P
      <4>1. j \in 1 .. Len(q) - P /\ P + j = k
        <5>. HIDE DEF q
        <5>1. P \in Nat /\ k \in Nat /\ k <= Len(q)
          BY <3>3, <3>4
        <5>. QED  BY <3>4, <3>7, <5>1
      <4>2. DOMAIN retrans'[c] = 1 .. Len(q) - P
        BY <3>1, <3>3, <3>4, <3>5
      <4>3. retrans'[c][j] = q[k]
        <5>. HIDE DEF q
        <5>1. \A x \in 1 .. Len(q) - P : SubSeq(q, P + 1, Len(q))[x] = q[P + x]
          BY <3>1, <3>3, <3>4
        <5>. QED  BY <3>5, <4>1, <5>1
      <4>. HIDE DEF j
      <4>4. j \in DOMAIN retrans'[c] /\ retrans'[c][j].n = i - 1
        BY <3>2, <4>1, <4>2, <4>3
      <4>. QED  BY <2>1, <4>4 DEF Queued
    <3>. QED  BY <3>3, <3>4, <3>6, <3>7
  <2>3. ASSUME NEW i \in DOMAIN log, log[i].ch \in Reliable, log[i].ok
        PROVE  Queued(i)' \/ Arrived(i)'
    BY <1>4, <2>2, <2>3
  <2>. QED  BY <2>1, <2>3 DEF ForgottenOnlyIfArrived
<1>8. ASSUME NEW due \in SUBSET Unacked, MaintainReliable(due)
      PROVE  UNCHANGED <<log, retrans>>
  BY <1>8 DEF MaintainReliable, senderVars
<1>9. ASSUME NEW p \in net, HandleSessionPacket(p) PROVE UNCHANGED <<log, retrans>>
  BY <1>9 DEF HandleSessionPacket, senderVars
<1>10. ASSUME PiggybackAck PROVE UNCHANGED <<log, retrans>>
  BY <1>10 DEF PiggybackAck, senderVars
<1>11. ASSUME NEW g \in SeqNos, AssemblerCleanup(g) PROVE UNCHANGED <<log, retrans>>
  BY <1>11 DEF AssemblerCleanup, senderVars
<1>12. ASSUME NetworkLoss PROVE UNCHANGED <<log, retrans>>
  BY <1>12 DEF NetworkLoss, senderVars
<1>13. CASE UNCHANGED vars
  BY <1>5, <1>13 DEF vars, senderVars
<1>. QED  BY <1>5, <1>6, <1>7, <1>8, <1>9, <1>10, <1>11, <1>12, <1>13 DEF Next
-----------------------------------------------------------------------------
(* The theorems.                                                           *)

\* Nothing has been sent or acknowledged yet.
LEMMA InitAcks == Init => Ch3History /\ AcksRight /\ ForgottenOnlyIfArrived
  BY DEF Init, Ch3History, AcksRight, ForgottenOnlyIfArrived

\* The whole invariant is inductive.
LEMMA AckStep ==
    ASSUME Sizes, AckSizes
    PROVE  /\ TypeOK /\ Numbered /\ Fresh /\ Sender /\ Receiver
           /\ Ch3History /\ AcksRight /\ ForgottenOnlyIfArrived /\ [Next]_vars
           => /\ Sender' /\ Receiver'
              /\ Ch3History' /\ AcksRight' /\ ForgottenOnlyIfArrived'
<1>. SUFFICES ASSUME TypeOK, Numbered, Fresh, Sender, Receiver,
                     Ch3History, AcksRight, ForgottenOnlyIfArrived, [Next]_vars
              PROVE  /\ Sender' /\ Receiver'
                     /\ Ch3History' /\ AcksRight' /\ ForgottenOnlyIfArrived'
  OBVIOUS
<1>1. TypeOK'
  BY NextType
<1>2. Sender' /\ Receiver'
  BY <1>1, SenderStep, ReceiverStep
<1>3. Ch3History'
  BY <1>1, Ch3HistoryStep
<1>. QED  BY <1>1, <1>2, <1>3, AcksRightStep, ForgottenStep

\* on_ack takes a packet out of a retransmission queue only when it has
\* arrived, for every size of the queues and windows and whatever acks are
\* lost, late or repeated, as long as the sender stays within half the space
\* of the receiver.
THEOREM NothingForgotten ==
    Sizes /\ AckSizes => (Spec /\ []Fresh => []ForgottenOnlyIfArrived)
<1>. SUFFICES ASSUME Sizes, AckSizes PROVE Spec /\ []Fresh => []ForgottenOnlyIfArrived
  OBVIOUS
<1>1. Init => Sender /\ Receiver /\ Ch3History /\ AcksRight /\ ForgottenOnlyIfArrived
  BY InitOrder, InitAcks
<1>2. /\ TypeOK /\ Numbered /\ Fresh /\ Sender /\ Receiver
      /\ Ch3History /\ AcksRight /\ ForgottenOnlyIfArrived /\ [Next]_vars
      => Sender' /\ Receiver' /\ Ch3History' /\ AcksRight' /\ ForgottenOnlyIfArrived'
  BY AckStep
<1>. QED  BY <1>1, <1>2, TypeCorrect, AlwaysNumbered, PTL DEF Spec
-----------------------------------------------------------------------------
(* The window of seen Ch3 numbers.                                         *)

\* The window outlives a full queue, and a duplicate that still arrives: 64
\* packets in the queue, 256 remembered.
SeenSizes == QueueCap + QueueCap <= SeenCap /\ QueueCap + Lifetime <= SeenCap

\* The numbers in the retransmission queue of Ch3.
Waiting == {retrans[3][k].n : k \in DOMAIN retrans[3]}

\* The older packets that could still push the j-th one handed on out of the
\* window: those handed on after it, and those not handed on yet.
Older(j) ==
    {n \in Nat : /\ n < ch3Out[j]
                 /\ \/ \E i \in DOMAIN ch3Out : j < i /\ ch3Out[i] = n
                    \/ n \in Waiting /\ \A i \in DOMAIN ch3Out : ch3Out[i] # n}

SeenWindow ==
    /\ Len(ch3Seen) = IF Len(ch3Out) <= SeenCap THEN Len(ch3Out) ELSE SeenCap
    /\ \A i \in DOMAIN ch3Seen :
          ch3Seen[i] = Wire(ch3Out[Len(ch3Out) - Len(ch3Seen) + i])
    /\ \A i, j \in DOMAIN ch3Out : ch3Out[i] = ch3Out[j] => i = j
    /\ \A j \in DOMAIN ch3Out : IsFiniteSet(Older(j)) /\ Cardinality(Older(j)) < QueueCap

\* The queue has at most QueueCap numbers, one of which is not the others.
LEMMA WaitingSize ==
    ASSUME TypeOK, NEW n \in Waiting, NEW S \in SUBSET (Waiting \ {n})
    PROVE  IsFiniteSet(S) /\ Cardinality(S) \in Nat /\ Cardinality(S) < QueueCap
<1>. DEFINE q == retrans[3]
            N == Len(q)
            f == [k \in 1 .. N |-> q[k].n]
<1>1. N \in Nat /\ N <= QueueCap /\ DOMAIN q = 1 .. N /\ QueueCap \in Nat
  <2>1. 3 \in Reliable
    BY DEF Reliable
  <2>2. q \in Seq(Packets) /\ N <= QueueCap
    BY <2>1 DEF TypeOK
  <2>. QED  BY <2>2, Constants
<1>. DEFINE D == 1 .. N
<1>2. f \in Surjection(D, Waiting)
  BY <1>1 DEF Surjection, Waiting
<1>3. IsFiniteSet(D) /\ Cardinality(D) = N
  <2>. HIDE DEF N
  <2>1. 1 \in Int /\ N \in Int /\ N \in Nat
    BY <1>1
  <2>2. IsFiniteSet(1 .. N) /\ Cardinality(1 .. N) = IF 1 > N THEN 0 ELSE N - 1 + 1
    BY ONLY <2>1, FS_Interval
  <2>. QED  BY <2>1, <2>2
<1>. HIDE DEF f, D
<1>4. IsFiniteSet(Waiting) /\ Cardinality(Waiting) <= N
  BY <1>2, <1>3, FS_Surjection
<1>5. IsFiniteSet(Waiting \ {n}) /\ Cardinality(Waiting \ {n}) = Cardinality(Waiting) - 1
  BY <1>4, FS_RemoveElement
<1>6. IsFiniteSet(S) /\ Cardinality(S) <= Cardinality(Waiting \ {n})
  BY <1>5, FS_Subset
<1>7. Cardinality(S) \in Nat /\ Cardinality(Waiting) \in Nat
  BY <1>4, <1>6, FS_CardinalityType
<1>. QED  BY <1>1, <1>4, <1>5, <1>6, <1>7

\* What is in the queue, or young enough to be duplicated, is still in the
\* window of seen numbers if it was handed on.
LEMMA StillSeen ==
    ASSUME TypeOK, Numbered, Sender, Ch3History, SeenWindow, SeenSizes,
           NEW j \in DOMAIN ch3Out,
           ch3Out[j] \in Waiting \/ Len(log) - ch3Out[j] <= Lifetime
    PROVE  Wire(ch3Out[j]) \in ToSet(ch3Seen)
<1>. DEFINE n == ch3Out[j]
            m == Len(ch3Out)
            D == j + 1 .. m
            f == [i \in D |-> ch3Out[i]]
            L == Len(log)
            New == IF n \in Waiting THEN {x \in Waiting : n < x} ELSE n + 1 .. L - 1
<1>1. /\ m \in Nat /\ DOMAIN ch3Out = 1 .. m /\ j \in 1 .. m /\ j \in Nat
      /\ \A i \in 1 .. m : ch3Out[i] \in Nat
      /\ L \in Nat /\ n \in Nat /\ n < L
      /\ QueueCap \in Nat \ {0} /\ SeenCap \in Nat /\ Lifetime \in Nat
  <2>1. ch3Out \in Seq(Nat) /\ L \in Nat
    BY DEF TypeOK
  <2>2. n < L
    BY DEF Ch3History
  <2>3. QueueCap \in Nat \ {0} /\ SeenCap \in Nat /\ Lifetime \in Nat
    BY LinkAssumption, Constants
  <2>. QED  BY <2>1, <2>2, <2>3
<1>2. IsFiniteSet(New) /\ Cardinality(New) \in Nat /\ Cardinality(New) + QueueCap <= SeenCap
  <2>1. CASE n \in Waiting
    <3>1. New \in SUBSET (Waiting \ {n})
      BY <1>1, <2>1
    <3>. HIDE DEF New, n
    <3>2. IsFiniteSet(New) /\ Cardinality(New) \in Nat /\ Cardinality(New) < QueueCap
      BY <2>1, <3>1, WaitingSize
    <3>. QED  BY <1>1, <3>2 DEF SeenSizes
  <2>2. CASE n \notin Waiting
    <3>1. New = n + 1 .. L - 1 /\ L - n <= Lifetime
      BY <2>2
    <3>. HIDE DEF New, n, L
    <3>2. n + 1 \in Int /\ L - 1 \in Int
      BY <1>1
    <3>3. IsFiniteSet(n + 1 .. L - 1)
          /\ Cardinality(n + 1 .. L - 1) = IF n + 1 > L - 1 THEN 0 ELSE (L - 1) - (n + 1) + 1
      BY ONLY <3>2, FS_Interval
    <3>4. Cardinality(n + 1 .. L - 1) \in Nat /\ Cardinality(n + 1 .. L - 1) <= Lifetime
      BY <1>1, <3>1, <3>3
    <3>. QED  BY <1>1, <3>1, <3>3, <3>4 DEF SeenSizes
  <2>. QED  BY <2>1, <2>2
<1>3. IsFiniteSet(Older(j)) /\ Cardinality(Older(j)) \in Nat
      /\ Cardinality(Older(j)) < QueueCap
  <2>1. IsFiniteSet(Older(j)) /\ Cardinality(Older(j)) < QueueCap
    BY DEF SeenWindow
  <2>. QED  BY <2>1, FS_CardinalityType
<1>4. ASSUME NEW i \in D PROVE ch3Out[i] \in Older(j) \cup New
  <2>. DEFINE x == ch3Out[i]
  <2>1. i \in DOMAIN ch3Out /\ j < i /\ x \in Nat /\ x # n
    <3>1. i \in 1 .. m /\ j < i /\ i # j
      BY <1>1
    <3>. QED  BY <1>1, <3>1 DEF SeenWindow
  <2>2. x < L /\ log[x + 1].ch = 3 /\ log[x + 1].ok
    BY <2>1 DEF Ch3History
  <2>3. CASE x < n
    BY <2>1, <2>3 DEF Older
  <2>4. CASE n < x /\ n \in Waiting
    <3>1. PICK k \in DOMAIN retrans[3] : retrans[3][k].n = n
      BY <2>4 DEF Waiting
    <3>2. 3 \in Reliable /\ x + 1 \in DOMAIN log /\ (x + 1) - 1 = x
      <4>1. DOMAIN log = 1 .. L
        BY DEF TypeOK
      <4>. HIDE DEF x, L
      <4>. QED  BY <1>1, <2>1, <2>2, <4>1 DEF Reliable
    <3>3. Kept(3, (x + 1) - 1)
      BY <2>2, <3>2 DEF Sender, QueueShape
    <3>4. Kept(3, x)
      BY <3>2, <3>3
    <3>5. retrans[3][k].n <= x
      BY <1>1, <2>1, <2>4, <3>1
    <3>6. x \in Waiting
      BY <3>4, <3>5 DEF Kept, Waiting
    <3>. QED  BY <2>4, <3>6
  <2>5. CASE n < x /\ n \notin Waiting
    <3>1. x \in n + 1 .. L - 1
      <4>. HIDE DEF x, n, L
      <4>. QED  BY <1>1, <2>1, <2>2, <2>5 DEF L
    <3>. QED  BY <2>5, <3>1
  <2>. QED  BY <1>1, <2>1, <2>3, <2>4, <2>5
<1>. HIDE DEF New, n
<1>5. m - j < SeenCap
  <2>. DEFINE T == Older(j) \cup New
  <2>1. f \in Injection(D, T)
    <3>1. f \in [D -> T]
      BY <1>4
    <3>2. \A a, b \in D : f[a] = f[b] => a = b
      BY <1>1 DEF SeenWindow
    <3>. QED  BY <3>1, <3>2 DEF Injection, IsInjective
  <2>2. IsFiniteSet(T) /\ Cardinality(T) <= Cardinality(Older(j)) + Cardinality(New)
        /\ Cardinality(T) \in Nat
    <3>1. /\ IsFiniteSet(Older(j) \cup New) /\ IsFiniteSet(Older(j) \cap New)
          /\ Cardinality(Older(j) \cup New)
              = Cardinality(Older(j)) + Cardinality(New) - Cardinality(Older(j) \cap New)
      BY <1>2, <1>3, FS_Union, FS_Intersection
    <3>2. Cardinality(Older(j) \cup New) \in Nat /\ Cardinality(Older(j) \cap New) \in Nat
      BY <3>1, FS_CardinalityType
    <3>. QED  BY <1>2, <1>3, <3>1, <3>2
  <2>. HIDE DEF f, D, T
  <2>3. IsFiniteSet(D) /\ Cardinality(D) <= Cardinality(T)
    BY <2>1, <2>2, FS_Injection
  <2>4. Cardinality(D) = IF j + 1 > m THEN 0 ELSE m - (j + 1) + 1
    <3>. HIDE DEF m
    <3>1. j + 1 \in Int /\ m \in Int
      BY <1>1
    <3>2. Cardinality(j + 1 .. m) = IF j + 1 > m THEN 0 ELSE m - (j + 1) + 1
      BY ONLY <3>1, FS_Interval
    <3>. QED  BY <3>2 DEF D
  <2>. HIDE DEF m
  <2>5. Cardinality(D) < SeenCap
    <3>1. Cardinality(D) \in Nat
      BY <2>3, FS_CardinalityType
    <3>2. Cardinality(T) < SeenCap
      BY <1>1, <1>2, <1>3, <2>2
    <3>. QED  BY <1>1, <2>2, <2>3, <3>1, <3>2
  <2>6. CASE j + 1 > m
    <3>1. m - j <= 0 /\ m - j \in Int
      BY <1>1, <2>6
    <3>2. 0 < SeenCap
      BY <1>1, <1>2
    <3>. QED  BY <1>1, <3>1, <3>2
  <2>7. CASE ~(j + 1 > m)
    <3>1. Cardinality(D) = m - j
      BY <1>1, <2>4, <2>7
    <3>. QED  BY <2>5, <3>1
  <2>. QED  BY <2>6, <2>7
<1>6. /\ Len(ch3Seen) \in Nat /\ DOMAIN ch3Seen = 1 .. Len(ch3Seen)
      /\ Len(ch3Seen) = (IF m <= SeenCap THEN m ELSE SeenCap)
      /\ \A i \in DOMAIN ch3Seen : ch3Seen[i] = Wire(ch3Out[m - Len(ch3Seen) + i])
  <2>1. ch3Seen \in Seq(SeqNos)
    BY DEF TypeOK
  <2>. QED  BY <2>1 DEF SeenWindow
<1>. DEFINE i == j - (m - Len(ch3Seen))
<1>. HIDE DEF m
<1>7. i \in 1 .. Len(ch3Seen) /\ (m - Len(ch3Seen)) + i = j
  BY <1>1, <1>5, <1>6
<1>. HIDE DEF i
<1>8. ch3Seen[i] = Wire(ch3Out[j])
  BY <1>6, <1>7
<1>. QED  BY <1>6, <1>7, <1>8 DEF ToSet

\* A packet that is not in the window was never handed on, and is in the queue.
LEMMA NewCh3 ==
    ASSUME TypeOK, Numbered, Sender, Ch3History, SeenWindow, SeenSizes,
           ForgottenOnlyIfArrived, NEW p \in net, p.ch = 3,
           p.seq \notin ToSet(ch3Seen), p \in Unacked \/ Len(log) - p.n <= Lifetime
    PROVE  p.n \in Waiting /\ \A i \in DOMAIN ch3Out : ch3Out[i] # p.n
<1>1. p.n \in Nat /\ p.n + 1 \in DOMAIN log /\ p = log[p.n + 1] /\ p.seq = Wire(p.n)
      /\ (p.n + 1) - 1 = p.n
  BY NetPacket
<1>2. p \in Unacked => p.n \in Waiting
  <2>1. SUFFICES ASSUME NEW ch \in Reliable, p \in ToSet(retrans[ch]) PROVE p.n \in Waiting
    BY DEF Unacked
  <2>2. ch = 3
    BY <2>1 DEF Numbered
  <2>. QED  BY <2>1, <2>2 DEF Waiting, ToSet
<1>3. ASSUME NEW i \in DOMAIN ch3Out PROVE ch3Out[i] # p.n
  <2>1. SUFFICES ASSUME ch3Out[i] = p.n PROVE FALSE
    OBVIOUS
  <2>2. ch3Out[i] \in Waiting \/ Len(log) - ch3Out[i] <= Lifetime
    BY <1>2, <2>1
  <2>3. Wire(ch3Out[i]) \in ToSet(ch3Seen)
    BY <2>2, StillSeen
  <2>. QED  BY <1>1, <2>1, <2>3
<1>4. p.n \in Waiting
  <2>1. log[p.n + 1].ch = 3 /\ log[p.n + 1].ok /\ 3 \in Reliable
    BY <1>1, WholeCh3 DEF Reliable
  <2>2. Queued(p.n + 1) \/ Arrived(p.n + 1)
    BY <1>1, <2>1 DEF ForgottenOnlyIfArrived
  <2>3. ~Arrived(p.n + 1)
    BY <1>1, <1>3, <2>1 DEF Arrived, ToSet
  <2>. QED  BY <1>1, <2>1, <2>2, <2>3 DEF Queued, Waiting
<1>. QED  BY <1>3, <1>4

\* handle_ch3 hands it on: nothing becomes a greater danger to the others.
LEMMA SeenNewCh3 ==
    ASSUME TypeOK, SeenWindow, UNCHANGED retrans,
           NEW n \in Waiting, n \in Nat, \A i \in DOMAIN ch3Out : ch3Out[i] # n,
           ch3Seen' = LastN(Append(ch3Seen, Wire(n)), SeenCap),
           ch3Out' = Append(ch3Out, n)
    PROVE  SeenWindow'
<1>. DEFINE m == Len(ch3Out)
            d == Len(ch3Seen)
            o == Append(ch3Out, n)
            s == Append(ch3Seen, Wire(n))
            e == LastN(s, SeenCap)
<1>1. ch3Out \in Seq(Nat) /\ ch3Seen \in Seq(SeqNos) /\ SeenCap \in Nat \ {0}
      /\ Wire(n) \in SeqNos
  BY Constants, WireType DEF TypeOK
<1>2. /\ m \in Nat /\ d \in Nat /\ DOMAIN ch3Out = 1 .. m /\ DOMAIN ch3Seen = 1 .. d
      /\ d = IF m <= SeenCap THEN m ELSE SeenCap
      /\ \A i \in 1 .. d : ch3Seen[i] = Wire(ch3Out[m - d + i])
  <2>1. m \in Nat /\ d \in Nat /\ DOMAIN ch3Out = 1 .. m /\ DOMAIN ch3Seen = 1 .. d
    BY <1>1
  <2>2. d = IF m <= SeenCap THEN m ELSE SeenCap
    BY DEF SeenWindow
  <2>3. \A i \in DOMAIN ch3Seen : ch3Seen[i] = Wire(ch3Out[m - d + i])
    BY DEF SeenWindow
  <2>. QED  BY <2>1, <2>2, <2>3
<1>3. /\ Len(o) = m + 1 /\ DOMAIN o = 1 .. m + 1 /\ o[m + 1] = n
      /\ \A i \in 1 .. m : o[i] = ch3Out[i]
  BY <1>1
<1>4. /\ Len(s) = d + 1 /\ s \in Seq(SeqNos) /\ s[d + 1] = Wire(n)
      /\ \A i \in 1 .. d : s[i] = ch3Seen[i]
  BY <1>1
<1>. HIDE DEF o, s, m, d
<1>5. ASSUME NEW i \in 1 .. d + 1 PROVE s[i] = Wire(o[m - d + i])
  <2>. DEFINE h == m - d + i
  <2>1. CASE i <= d
    <3>1. i \in 1 .. d /\ h \in 1 .. m
      BY <1>1, <1>2, <2>1
    <3>2. o[h] = ch3Out[h] /\ ch3Seen[i] = Wire(ch3Out[h])
      BY <1>2, <1>3, <3>1
    <3>. HIDE DEF h
    <3>3. s[i] = Wire(o[h])
      BY <1>4, <3>1, <3>2
    <3>. QED  BY <3>3 DEF h
  <2>2. CASE i = d + 1
    <3>1. h = m + 1
      BY <1>2, <2>2
    <3>. HIDE DEF h
    <3>2. s[i] = Wire(o[h])
      BY <1>3, <1>4, <2>2, <3>1
    <3>. QED  BY <3>2 DEF h
  <2>. QED  BY <1>2, <2>1, <2>2
<1>6. /\ Len(e) = IF m + 1 <= SeenCap THEN m + 1 ELSE SeenCap
      /\ DOMAIN e = 1 .. Len(e) /\ Len(e) \in Nat
      /\ \A i \in 1 .. Len(e) : e[i] = Wire(o[(m + 1) - Len(e) + i])
  <2>1. CASE d + 1 <= SeenCap
    <3>1. e = s /\ Len(e) = d + 1 /\ d = m
      BY <1>1, <1>2, <1>4, <2>1 DEF LastN
    <3>2. \A i \in 1 .. d + 1 : m - d + i = (m + 1) - (d + 1) + i
      BY <1>2
    <3>3. ASSUME NEW i \in 1 .. d + 1 PROVE e[i] = Wire(o[(m + 1) - (d + 1) + i])
      BY <1>5, <3>1, <3>2
    <3>4. DOMAIN e = 1 .. d + 1 /\ m + 1 <= SeenCap /\ d + 1 = m + 1
      BY <1>1, <1>2, <1>4, <2>1, <3>1
    <3>. HIDE DEF e
    <3>. QED  BY <1>2, <3>1, <3>3, <3>4
  <2>2. CASE d + 1 > SeenCap
    <3>1. d = SeenCap /\ d <= m /\ d >= 1
      BY <1>1, <1>2, <2>2
    <3>2. e = SubSeq(s, 2, d + 1)
      <4>1. ~(d + 1 <= SeenCap) /\ (d + 1) - SeenCap + 1 = 2
        BY <1>1, <1>2, <2>2, <3>1
      <4>. QED  BY <1>4, <4>1 DEF LastN
    <3>3. Len(e) = d /\ DOMAIN e = 1 .. d /\ \A i \in 1 .. d : e[i] = s[i + 1]
      BY <1>2, <1>4, <3>1, <3>2
    <3>. HIDE DEF e
    <3>4. ASSUME NEW i \in 1 .. d PROVE e[i] = Wire(o[(m + 1) - d + i])
      <4>1. i + 1 \in 1 .. d + 1 /\ m - d + (i + 1) = (m + 1) - d + i
        BY <1>2
      <4>2. s[i + 1] = Wire(o[m - d + (i + 1)])
        BY <1>5, <4>1
      <4>. QED  BY <3>3, <4>1, <4>2
    <3>5. Len(e) = IF m + 1 <= SeenCap THEN m + 1 ELSE SeenCap
      BY <1>2, <3>1, <3>3
    <3>. QED  BY <1>2, <3>3, <3>4, <3>5
  <2>. QED  BY <1>1, <1>2, <2>1, <2>2
<1>. HIDE DEF e
<1>7. \A i, j \in 1 .. m + 1 : o[i] = o[j] => i = j
  <2>1. \A i \in 1 .. m + 1 : i \in 1 .. m \/ i = m + 1
    BY <1>2
  <2>2. \A i, j \in 1 .. m : ch3Out[i] = ch3Out[j] => i = j
    BY <1>2 DEF SeenWindow
  <2>. QED  BY <1>2, <1>3, <2>1, <2>2
<1>. DEFINE After(j) == {x \in Nat : /\ x < o[j]
                            /\ \/ \E i \in 1 .. m + 1 : j < i /\ o[i] = x
                               \/ x \in Waiting /\ \A i \in 1 .. m + 1 : o[i] # x}
<1>8. ASSUME NEW j \in 1 .. m + 1
      PROVE  IsFiniteSet(After(j)) /\ Cardinality(After(j)) < QueueCap
  <2>1. CASE j \in 1 .. m
    <3>1. IsFiniteSet(Older(j)) /\ Cardinality(Older(j)) < QueueCap
      BY <1>2, <2>1 DEF SeenWindow
    <3>2. After(j) \in SUBSET Older(j)
      <4>. SUFFICES ASSUME NEW x \in After(j) PROVE x \in Older(j)
        OBVIOUS
      <4>1. x \in Nat /\ x < ch3Out[j]
        BY <1>3, <2>1
      <4>2. \/ \E i \in 1 .. m + 1 : j < i /\ o[i] = x
            \/ x \in Waiting /\ \A i \in 1 .. m + 1 : o[i] # x
        OBVIOUS
      <4>3. \A i \in 1 .. m + 1 : (i \in 1 .. m /\ o[i] = ch3Out[i]) \/ (i = m + 1 /\ o[i] = n)
        BY <1>2, <1>3
      <4>4. \A i \in 1 .. m : i \in 1 .. m + 1 /\ o[i] = ch3Out[i]
        BY <1>2, <1>3
      <4>5. \/ \E i \in 1 .. m : j < i /\ ch3Out[i] = x
            \/ x \in Waiting /\ \A i \in 1 .. m : ch3Out[i] # x
        BY <1>2, <4>2, <4>3, <4>4
      <4>. QED  BY <1>2, <4>1, <4>5 DEF Older
    <3>. HIDE DEF After
    <3>3. IsFiniteSet(After(j)) /\ Cardinality(After(j)) <= Cardinality(Older(j))
      BY <3>1, <3>2, FS_Subset
    <3>4. Cardinality(After(j)) \in Nat /\ Cardinality(Older(j)) \in Nat /\ QueueCap \in Nat
      BY <3>1, <3>3, FS_CardinalityType, Constants
    <3>. QED  BY <3>1, <3>3, <3>4
  <2>2. CASE j = m + 1
    <3>1. After(j) \in SUBSET (Waiting \ {n})
      <4>. SUFFICES ASSUME NEW x \in After(j) PROVE x \in Waiting \ {n}
        OBVIOUS
      <4>1. x \in Nat /\ x < n
        BY <1>3, <2>2
      <4>2. ~\E i \in 1 .. m + 1 : j < i
        BY <1>2, <2>2
      <4>. QED  BY <4>1, <4>2
    <3>. HIDE DEF After
    <3>. QED  BY <3>1, WaitingSize
  <2>. QED  BY <1>2, <2>1, <2>2
<1>9. Waiting' = Waiting
  BY DEF Waiting
<1>10. ch3Out' = o /\ ch3Seen' = e /\ DOMAIN o = 1 .. m + 1
  BY <1>3 DEF o, s, e
<1>11. \A j \in 1 .. m + 1 : Older(j)' = After(j)
  BY <1>9, <1>10 DEF Older
<1>12. \A j \in DOMAIN ch3Out' :
          IsFiniteSet(Older(j)') /\ Cardinality(Older(j)') < QueueCap
  BY <1>8, <1>10, <1>11
<1>13. \A i, j \in DOMAIN ch3Out' : ch3Out'[i] = ch3Out'[j] => i = j
  BY <1>7, <1>10
<1>14. /\ Len(ch3Seen') = IF Len(ch3Out') <= SeenCap THEN Len(ch3Out') ELSE SeenCap
       /\ \A i \in DOMAIN ch3Seen' :
             ch3Seen'[i] = Wire(ch3Out'[Len(ch3Out') - Len(ch3Seen') + i])
  BY <1>3, <1>6, <1>10
<1>. QED  BY <1>12, <1>13, <1>14 DEF SeenWindow

\* Acks only take numbers out of the queue, and new numbers are greater.
LEMMA SeenFrame ==
    ASSUME TypeOK, SeenWindow, UNCHANGED ch3Vars,
           \A n \in Waiting' : n \in Waiting \/ \A j \in DOMAIN ch3Out : ~(n < ch3Out[j])
    PROVE  SeenWindow'
<1>1. ch3Out' = ch3Out /\ ch3Seen' = ch3Seen
  BY DEF ch3Vars
<1>2. ASSUME NEW j \in DOMAIN ch3Out
      PROVE  IsFiniteSet(Older(j)') /\ Cardinality(Older(j)') < QueueCap
  <2>1. Older(j)' \in SUBSET Older(j)
    BY <1>1 DEF Older
  <2>2. IsFiniteSet(Older(j)) /\ Cardinality(Older(j)) < QueueCap
    BY DEF SeenWindow
  <2>. DEFINE S == Older(j)'
  <2>3. S \in SUBSET Older(j)
    BY <2>1
  <2>. HIDE DEF S
  <2>4. IsFiniteSet(S) /\ Cardinality(S) <= Cardinality(Older(j))
    BY <2>2, <2>3, FS_Subset
  <2>5. Cardinality(S) \in Nat /\ Cardinality(Older(j)) \in Nat /\ QueueCap \in Nat
    BY <2>2, <2>4, FS_CardinalityType, Constants
  <2>6. IsFiniteSet(S) /\ Cardinality(S) < QueueCap
    BY <2>2, <2>4, <2>5
  <2>. QED  BY <2>6 DEF S
<1>. QED  BY <1>1, <1>2 DEF SeenWindow

LEMMA SeenStep ==
    ASSUME TypeOK, Numbered, Sender, Ch3History, SeenWindow, SeenSizes,
           ForgottenOnlyIfArrived, [Next]_vars
    PROVE  SeenWindow'
<1>1. 3 \in Reliable /\ retrans[3] \in Seq(Packets)
  BY DEF Reliable, TypeOK
<1>2. ASSUME UNCHANGED <<ch3Vars, retrans>> PROVE SeenWindow'
  <2>1. Waiting' = Waiting
    BY <1>2 DEF Waiting
  <2>. QED  BY <1>2, <2>1, SeenFrame
<1>3. ASSUME NEW ch \in Channels, NEW parts \in GroupSizes \cup {1},
             PackOutbound(ch, parts)
      PROVE  SeenWindow'
  <2>. DEFINE L == Len(log)
              N == Len(retrans[3])
              used == Taken(ch, parts)
  <2>1. /\ used \in 1 .. parts /\ DOMAIN log' = 1 .. L + used
        /\ parts \in Nat /\ L \in Nat /\ N \in Nat
    BY <1>1, <1>3, PackOutboundLog, SendArguments DEF TypeOK
  <2>2. PICK d \in Nat :
             /\ d <= used /\ DOMAIN retrans'[3] = 1 .. N + d
             /\ \A k \in 1 .. N : retrans'[3][k] = retrans[3][k]
             /\ \A k \in N + 1 .. N + d : retrans'[3][k] = log'[L + k - N]
    BY <1>1, <1>3, PackOutboundLog
  <2>3. \A i \in DOMAIN log' : log'[i].n = i - 1
    <3>1. Numbered'
      BY <1>3, NumberedPackOutbound
    <3>. QED  BY <3>1 DEF Numbered
  <2>. HIDE DEF N, L, used
  <2>4. ASSUME NEW n \in Waiting'
        PROVE  n \in Waiting \/ \A j \in DOMAIN ch3Out : ~(n < ch3Out[j])
    <3>1. PICK k \in 1 .. N + d : n = retrans'[3][k].n
      BY <2>2 DEF Waiting
    <3>2. CASE k <= N
      <4>1. k \in 1 .. N /\ k \in DOMAIN retrans[3]
        BY <1>1, <2>1, <3>2 DEF N
      <4>. QED  BY <2>2, <3>1, <4>1 DEF Waiting
    <3>3. CASE k > N
      <4>. DEFINE i == L + k - N
      <4>1. i \in DOMAIN log' /\ i - 1 >= L /\ i \in Nat
        BY <2>1, <2>2, <3>3
      <4>2. k \in N + 1 .. N + d
        BY <2>1, <3>3
      <4>3. retrans'[3][k] = log'[i]
        BY <2>2, <4>2
      <4>. HIDE DEF i
      <4>4. n = i - 1
        BY <2>3, <3>1, <4>1, <4>3
      <4>5. ASSUME NEW j \in DOMAIN ch3Out PROVE ~(n < ch3Out[j])
        <5>1. ch3Out[j] < L /\ ch3Out[j] \in Nat
          BY DEF Ch3History, TypeOK, L
        <5>. QED  BY <2>1, <4>1, <4>4, <5>1
      <4>. QED  BY <4>5
    <3>. QED  BY <2>1, <3>2, <3>3
  <2>. QED  BY <1>3, <2>4, SeenFrame DEF PackOutbound
<1>4. ASSUME NEW a \in ackNet, OnAck(a) PROVE SeenWindow'
  <2>1. retrans'[3] = Rest(retrans[3], a)
    BY <1>1, <1>4 DEF OnAck
  <2>2. ASSUME NEW n \in Waiting' PROVE n \in Waiting
    <3>1. PICK k \in DOMAIN Rest(retrans[3], a) : n = Rest(retrans[3], a)[k].n
      BY <2>1 DEF Waiting
    <3>2. Rest(retrans[3], a)[k] \in ToSet(retrans[3])
      BY <1>1, RestOf DEF ToSet
    <3>. QED  BY <3>1, <3>2 DEF Waiting, ToSet
  <2>. QED  BY <1>4, <2>2, SeenFrame DEF OnAck
<1>5. ASSUME NEW due \in SUBSET Unacked, MaintainReliable(due) PROVE SeenWindow'
  BY <1>2, <1>5 DEF MaintainReliable, senderVars
<1>6. ASSUME NEW p \in net, HandleSessionPacket(p) PROVE SeenWindow'
  <2>1. UNCHANGED retrans /\ (p \in Unacked \/ Len(log) - p.n <= Lifetime)
    BY <1>6 DEF HandleSessionPacket, senderVars
  <2>2. CASE UNCHANGED ch3Vars
    BY <1>2, <2>1, <2>2
  <2>3. CASE ~UNCHANGED ch3Vars
    <3>1. /\ p.ch = 3 /\ p.seq \notin ToSet(ch3Seen)
          /\ ch3Seen' = LastN(Append(ch3Seen, p.seq), SeenCap)
          /\ ch3Out' = Append(ch3Out, p.n)
      BY <1>6, <2>3 DEF HandleSessionPacket, HandleCh3
    <3>2. p.n \in Waiting /\ \A i \in DOMAIN ch3Out : ch3Out[i] # p.n
      BY <2>1, <3>1, NewCh3
    <3>3. p.n \in Nat /\ p.seq = Wire(p.n)
      BY NetPacket
    <3>. QED  BY <2>1, <3>1, <3>2, <3>3, SeenNewCh3
  <2>. QED  BY <2>2, <2>3
<1>7. ASSUME PiggybackAck PROVE SeenWindow'
  BY <1>2, <1>7 DEF PiggybackAck, senderVars
<1>8. ASSUME NEW g \in SeqNos, AssemblerCleanup(g) PROVE SeenWindow'
  BY <1>2, <1>8 DEF AssemblerCleanup, senderVars
<1>9. ASSUME NetworkLoss PROVE SeenWindow'
  BY <1>2, <1>9 DEF NetworkLoss, senderVars
<1>10. CASE UNCHANGED vars
  BY <1>2, <1>10 DEF vars, senderVars
<1>. QED  BY <1>2, <1>3, <1>4, <1>5, <1>6, <1>7, <1>8, <1>9, <1>10 DEF Next

LEMMA InitSeen == Init => SeenWindow
  BY Constants DEF Init, SeenWindow

\* handle_ch3 hands each message on at most once: the window of seen numbers
\* outlives every retransmission and every duplicate that still arrives.
THEOREM Ch3HandedOnOnce ==
    Sizes /\ AckSizes /\ SeenSizes => (Spec /\ []Fresh => []Ch3AtMostOnce)
<1>. SUFFICES ASSUME Sizes, AckSizes, SeenSizes
              PROVE  Spec /\ []Fresh => []Ch3AtMostOnce
  OBVIOUS
<1>1. Init => /\ Sender /\ Receiver /\ Ch3History /\ AcksRight
              /\ ForgottenOnlyIfArrived /\ SeenWindow
  BY InitOrder, InitAcks, InitSeen
<1>2. /\ TypeOK /\ Numbered /\ Fresh /\ Sender /\ Receiver
      /\ Ch3History /\ AcksRight /\ ForgottenOnlyIfArrived /\ SeenWindow /\ [Next]_vars
      => /\ Sender' /\ Receiver' /\ Ch3History' /\ AcksRight'
         /\ ForgottenOnlyIfArrived' /\ SeenWindow'
  BY AckStep, SeenStep
<1>3. SeenWindow => Ch3AtMostOnce
  BY DEF SeenWindow, Ch3AtMostOnce, IsInjective
<1>. QED  BY <1>1, <1>2, <1>3, TypeCorrect, AlwaysNumbered, PTL DEF Spec
-----------------------------------------------------------------------------
(* An ack that is lost is made good by the next one.                       *)

\* compute_ack reaches from the front of the queue to AckBits ahead.
Reached(n) ==
    n < Len(consumed) \/ n - (Len(consumed) - 1) \in 1 .. AckBits

\* Where compute_ack covers a packet that is still to be confirmed.
LEMMA AckedNear ==
    ASSUME TypeOK, Receiver, AckSizes, NEW n \in Nat, n < Len(log),
           IsAcked(Wire(n), ComputeAck)
    PROVE  Reached(n)
<1>. DEFINE c == Len(consumed)
            m == c - 1
<1>1. c \in Nat /\ Len(log) - c <= Window /\ Window < HalfSeq /\ Window \in Nat
      /\ HalfSeq \in Nat \ {0} /\ WireMod = HalfSeq + HalfSeq /\ Len(log) \in Nat
  <2>1. consumed \in Seq(Entries) /\ log \in Seq(Packets)
    BY DEF TypeOK
  <2>2. Len(log) - c <= Window /\ Window < HalfSeq
    BY DEF Receiver, History, AckSizes
  <2>. QED  BY <2>1, <2>2, SpaceType, LinkAssumption
<1>2. ComputeAck.ack = Wire(m) /\ ComputeAck.bits \subseteq 1 .. AckBits
  BY AckPointIs DEF ComputeAck, Receiver
<1>3. SUFFICES ASSUME c <= n PROVE n - m \in 1 .. AckBits
  BY <1>1 DEF Reached
<1>4. m \in Int /\ n > m /\ n >= m /\ n - m < HalfSeq /\ -HalfSeq < n - m
      /\ n - m < WireMod /\ -WireMod <= n - m
  BY <1>1, <1>3
<1>. HIDE DEF m
<1>5. WrapSub(Wire(n), Wire(m)) = n - m
  BY <1>4, WireSub
<1>6. SeqNewer(Wire(n), Wire(m))
  BY <1>4, WireOrder
<1>. QED  BY <1>2, <1>5, <1>6 DEF IsAcked

\* What has come, is queued and is within reach is covered.
LEMMA ComeIsCovered ==
    Sizes /\ AckSizes /\ SeenSizes /\ QueueCap <= HalfSeq
    => (TypeOK /\ Numbered /\ Sender /\ Receiver /\ Ch3History /\ SeenWindow
        => \A n \in Nat : Came(n) /\ Queued(n + 1) /\ Reached(n)
              => IsAcked(Wire(n), ComputeAck))
<1>. SUFFICES ASSUME Sizes, AckSizes, SeenSizes, QueueCap <= HalfSeq, TypeOK, Numbered,
                     Sender, Receiver, Ch3History, SeenWindow,
                     NEW n \in Nat, Came(n), Queued(n + 1), Reached(n)
              PROVE  IsAcked(Wire(n), ComputeAck)
  OBVIOUS
<1>. DEFINE c == Len(consumed)
            m == c - 1
<1>1. c \in Nat /\ Len(log) - c <= Window /\ Window < HalfSeq /\ Window \in Nat
      /\ HalfSeq \in Nat \ {0} /\ WireMod = HalfSeq + HalfSeq /\ Len(log) \in Nat
      /\ QueueCap \in Nat /\ DOMAIN consumed = 1 .. c /\ AckBits \in Nat
  <2>1. consumed \in Seq(Entries) /\ log \in Seq(Packets)
    BY DEF TypeOK
  <2>2. Len(log) - c <= Window /\ Window < HalfSeq
    BY DEF Receiver, History, AckSizes
  <2>. QED  BY <2>1, <2>2, SpaceType, LinkAssumption, Constants, SeqSpaceAssumption
<1>2. /\ ComputeAck.ack = Wire(m)
      /\ ComputeAck.bits = {i \in 1 .. AckBits : Received(WrapAdd(Wire(m), i))}
  BY AckPointIs DEF ComputeAck, Receiver
<1>3. n < Len(log) /\ log[n + 1].ch \in Reliable /\ Arrived(n + 1) /\ (n + 1) - 1 = n
  BY DEF Came
<1>4. PICK k \in DOMAIN retrans[log[n + 1].ch] : retrans[log[n + 1].ch][k].n = n
  BY <1>3 DEF Queued
<1>5. CASE n < c
  <2>1. log[n + 1].ch = 2
    <3>1. n + 1 \in DOMAIN consumed
      BY <1>1, <1>5
    <3>. QED  BY <3>1 DEF Receiver, History
  <2>2. c - n <= QueueCap
    <3>1. k \in DOMAIN retrans[2] /\ retrans[2][k].n = n
      BY <1>4, <2>1
    <3>. QED  BY <3>1, QueueSpan DEF Sender, Receiver
  <2>3. m \in Int /\ -HalfSeq < n - m /\ n - m < HalfSeq /\ ~(n > m)
    BY <1>1, <1>5, <2>2
  <2>. HIDE DEF m
  <2>4. ~SeqNewer(Wire(n), Wire(m))
    BY <2>3, WireOrder
  <2>. QED  BY <1>2, <2>4 DEF IsAcked
<1>6. CASE c <= n
  <2>1. n - m \in 1 .. AckBits
    BY <1>1, <1>6 DEF Reached
  <2>2. m \in Int /\ n >= m /\ n - m < WireMod /\ -WireMod <= n - m /\ n - m \in Int
        /\ m + (n - m) = n
    BY <1>1, <1>3, <1>6
  <2>. HIDE DEF m
  <2>3. WrapSub(Wire(n), Wire(m)) = n - m
    BY <2>2, WireSub
  <2>4. WrapAdd(Wire(m), n - m) = Wire(n)
    BY <2>2, WireAdd
  <2>5. Received(Wire(n))
    <3>1. CASE log[n + 1].ch = 2
      <4>1. ~(n + 1 <= c)
        BY <1>1, <1>6
      <4>. QED  BY <1>3, <3>1, <4>1 DEF Arrived, Received
    <3>2. CASE log[n + 1].ch = 3
      <4>1. PICK j \in DOMAIN ch3Out : ch3Out[j] = n
        BY <1>3, <3>2 DEF Arrived, ToSet
      <4>2. ch3Out[j] \in Waiting
        BY <1>4, <3>2, <4>1 DEF Waiting
      <4>. QED  BY <4>1, <4>2, StillSeen DEF Received
    <3>. QED  BY <1>3, <3>1, <3>2 DEF Reliable
  <2>. QED  BY <1>2, <2>1, <2>3, <2>4, <2>5 DEF IsAcked
<1>. QED  BY <1>1, <1>5, <1>6

\* A step leaves what is covered covered.
LEMMA RetractStep ==
    ASSUME Sizes, AckSizes, SeenSizes, QueueCap <= HalfSeq
    PROVE  /\ TypeOK /\ Numbered /\ Fresh /\ Sender /\ Receiver /\ Ch3History
           /\ [Next]_vars
           /\ TypeOK' /\ Numbered' /\ Sender' /\ Receiver' /\ Ch3History' /\ SeenWindow'
           => [\A i \in DOMAIN log :
                 /\ log[i].ch \in Reliable
                 /\ Queued(i) /\ Queued(i)'
                 /\ IsAcked(log[i].seq, ComputeAck)
                 => IsAcked(log[i].seq, ComputeAck')]_vars
<1>1. TypeOK /\ Numbered /\ Sender /\ Receiver /\ Ch3History /\ SeenWindow
      => \A n \in Nat : Came(n) /\ Queued(n + 1) /\ Reached(n)
            => IsAcked(Wire(n), ComputeAck)
  BY ComeIsCovered
<1>. DEFINE Covers == \A n \in Nat : Came(n) /\ Queued(n + 1) /\ Reached(n)
                          => IsAcked(Wire(n), ComputeAck)
<1>2. TypeOK /\ Numbered /\ Sender /\ Receiver /\ Ch3History /\ SeenWindow => Covers
  BY <1>1
<1>. HIDE DEF Covers
<1>3. TypeOK' /\ Numbered' /\ Sender' /\ Receiver' /\ Ch3History' /\ SeenWindow'
      => Covers'
  BY <1>2, PTL
<1>. SUFFICES ASSUME TypeOK, Numbered, Fresh, Sender, Receiver, Ch3History, [Next]_vars,
                     TypeOK', Numbered', Sender', Receiver', Ch3History', SeenWindow',
                     NEW i \in DOMAIN log, log[i].ch \in Reliable, Queued(i), Queued(i)',
                     IsAcked(log[i].seq, ComputeAck)
              PROVE  IsAcked(log[i].seq, ComputeAck')
  OBVIOUS
<1>. DEFINE n == i - 1
<1>4. n \in Nat /\ n + 1 = i /\ n < Len(log) /\ log[i].seq = Wire(n)
  <2>1. DOMAIN log = 1 .. Len(log) /\ Len(log) \in Nat
    BY DEF TypeOK
  <2>2. log[i].seq = Wire(i - 1)
    BY DEF Numbered
  <2>. QED  BY <2>1, <2>2
<1>. HIDE DEF n
<1>5. Reached(n)
  BY <1>4, AckedNear
<1>6. Came(n)
  <2>1. AckRight(ComputeAck)
    BY ComputeAckRight DEF AnswerRight
  <2>2. ComputeAck \in Acks
    BY ComputeAckType DEF TypeOK
  <2>3. Len(log) - ComputeAck.r <= Window
    BY DEF ComputeAck, Receiver, History
  <2>. DEFINE a == ComputeAck
  <2>4. a \in Acks /\ AckRight(a) /\ Len(log) - a.r <= Window /\ IsAcked(Wire(n), a)
    BY <1>4, <2>1, <2>2, <2>3
  <2>5. log[n + 1].ch \in Reliable
    BY <1>4
  <2>. HIDE DEF a
  <2>. QED  BY <1>4, <2>4, <2>5, AckedCame DEF Receiver
<1>7. Came(n)'
  BY <1>4, <1>6, CameStable
<1>8. Reached(n)'
  <2>1. Len(consumed) <= Len(consumed') /\ Len(consumed) \in Nat /\ Len(consumed') \in Nat
    <3>1. consumed \in Seq(Entries) /\ consumed' \in Seq(Entries)
      BY DEF TypeOK
    <3>. QED  BY <3>1, ConsumedGrows
  <2>2. AckBits \in Nat
    BY SeqSpaceAssumption
  <2>. QED  BY <1>4, <1>5, <2>1, <2>2 DEF Reached
<1>9. Queued(n + 1)'
  BY <1>4
<1>10. Covers'
  BY <1>3
<1>11. IsAcked(Wire(n), ComputeAck)'
  BY <1>4, <1>7, <1>8, <1>9, <1>10 DEF Covers
<1>12. IsAcked(Wire(n), ComputeAck')
  <2>. HIDE DEF ComputeAck
  <2>. QED  BY <1>11 DEF IsAcked
<1>. QED  BY <1>4, <1>12

\* What compute_ack has once confirmed of a packet the sender still keeps, it
\* goes on confirming: not the end of ch3_seen, of delivered_seqs or of the
\* bitmap takes it back.
THEOREM AckHolds ==
    Sizes /\ AckSizes /\ SeenSizes /\ QueueCap <= HalfSeq
    => (Spec /\ []Fresh => AckNeverRetracts)
<1>. SUFFICES ASSUME Sizes, AckSizes, SeenSizes, QueueCap <= HalfSeq
              PROVE  Spec /\ []Fresh => AckNeverRetracts
  OBVIOUS
<1>. DEFINE Inv == /\ Sender /\ Receiver /\ Ch3History /\ AcksRight
                   /\ ForgottenOnlyIfArrived /\ SeenWindow
<1>1. Init => Inv
  BY InitOrder, InitAcks, InitSeen
<1>2. TypeOK /\ Numbered /\ Fresh /\ Inv /\ [Next]_vars => Inv'
  <2>. SUFFICES ASSUME TypeOK, Numbered, Fresh, Inv, [Next]_vars PROVE Inv'
    OBVIOUS
  <2>. QED  BY AckStep, SeenStep
<1>3. /\ TypeOK /\ Numbered /\ Fresh /\ Inv /\ [Next]_vars
      /\ TypeOK' /\ Numbered' /\ Inv'
      => [\A i \in DOMAIN log :
            /\ log[i].ch \in Reliable
            /\ Queued(i) /\ Queued(i)'
            /\ IsAcked(log[i].seq, ComputeAck)
            => IsAcked(log[i].seq, ComputeAck')]_vars
  BY RetractStep
<1>. HIDE DEF Inv
<1>. QED  BY <1>1, <1>2, <1>3, TypeCorrect, AlwaysNumbered, PTL DEF Spec, AckNeverRetracts
-----------------------------------------------------------------------------
(* When nothing is older than a turn of the space.                         *)

\* In a session that ends before its numbers repeat, or whose messages are
\* one packet each, the promises of on_ack, handle_ch3 and compute_ack hold
\* without the timeout of unfinished fragments.
THEOREM LinkWithoutTimeout ==
    Sizes /\ AckSizes /\ SeenSizes /\ QueueCap <= HalfSeq
    /\ (MaxSeqs <= WireMod \/ GroupSizes \subseteq {1})
    => (Spec => /\ []ForgottenOnlyIfArrived /\ []Ch3AtMostOnce /\ AckNeverRetracts)
<1>. SUFFICES ASSUME Sizes, AckSizes, SeenSizes, QueueCap <= HalfSeq,
                     MaxSeqs <= WireMod \/ GroupSizes \subseteq {1}
              PROVE  Spec => /\ []ForgottenOnlyIfArrived /\ []Ch3AtMostOnce
                             /\ AckNeverRetracts
  OBVIOUS
<1>1. Spec => []Fresh
  BY OneTurnFresh, UnfragmentedFresh
<1>2. Spec /\ []Fresh => []ForgottenOnlyIfArrived
  BY NothingForgotten
<1>3. Spec /\ []Fresh => []Ch3AtMostOnce
  BY Ch3HandedOnOnce
<1>4. Spec /\ []Fresh => AckNeverRetracts
  BY AckHolds
<1>. QED  BY <1>1, <1>2, <1>3, <1>4
=============================================================================
