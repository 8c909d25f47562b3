----------------------------- MODULE OrderProofs -----------------------------
(***************************************************************************)
(* Ch2 is handed on in order: InOrder and ReorderIsFuture for every value   *)
(* of the constants, with fragments, losses, duplicates and any number of   *)
(* turns of the sequence space; and so Ch2 implements OrderedChannel.       *)
(***************************************************************************)
EXTENDS ReliableLinkProofs

\* What the code's constants satisfy: a duplicate that still arrives is young
\* enough for the window of delivered numbers (QueueCap 64, DeliveredCap 512),
\* the sender is never a whole turn ahead, and frag_total is not truncated.
Sizes ==
    /\ QueueCap <= DeliveredCap /\ Lifetime <= DeliveredCap
    /\ Window <= WireMod
    /\ GroupSizes \subseteq 1 .. U8Mod - 1

\* No fragment is kept for more than a turn of the sequence space: the ten
\* seconds of FragmentAssembler::cleanup are shorter than 65536 packets take.
Fresh ==
    \A g \in SeqNos : \A i \in DOMAIN pending[g].parts :
        pending[g].parts[i] # NoChunk
            => Len(log) - pending[g].parts[i].msg <= WireMod

(* The inductive invariant, in its parts.                                  *)

\* The numbers of a message are consecutive and its packets agree.
LogShape ==
    \A i \in DOMAIN log :
        /\ log[i].msg < i /\ i <= log[i].msg + log[i].len
        /\ log[i].len < U8Mod /\ (log[i].ch # 2 => log[i].len = 1)
        /\ log[i].frag <=> log[i].len > 1
        /\ log[i].first = Wire(log[i].msg)
        /\ log[i].total = log[i].len
        /\ log[i].no = i - 1 - log[i].msg
        /\ \A j \in log[i].msg + 1 .. i :
              /\ log[j].msg = log[i].msg /\ log[j].len = log[i].len
              /\ log[j].ok = log[i].ok /\ log[j].ch = log[i].ch

\* Of a message that was refused the last part is not queued.
Sendable(p) == p.ok \/ p.n - p.msg + 1 < p.len

\* Acks take packets away from the front only.
Kept(c, n) ==
    (\E k \in DOMAIN retrans[c] : retrans[c][k].n <= n)
        => \E k \in DOMAIN retrans[c] : retrans[c][k].n = n

QueueShape ==
    /\ \A c \in Reliable : \A k, l \in DOMAIN retrans[c] :
          k < l => retrans[c][k].n < retrans[c][l].n
    /\ \A p \in net : Sendable(p)
    /\ \A c \in Reliable : \A p \in ToSet(retrans[c]) : Sendable(p)
    /\ \A i \in DOMAIN log : \A c \in Reliable :
          log[i].ch = c /\ log[i].ok => Kept(c, i - 1)

\* An entry of a reorder buffer r is the right one for a number to come.
RightEntries(r) ==
    \A s \in SeqNos : r[s] # Absent =>
        \E i \in Len(consumed) + 1 .. Len(log) :
            /\ s = Wire(i - 1)
            /\ log[i].ch = 2 /\ log[i].ok
            /\ r[s] = EntryOf(i)

\* A message is in r from one of its numbers to its last one.
WholeEntries(r) ==
    \A i \in Len(consumed) + 1 .. Len(log) - 1 :
        r[Wire(i - 1)] # Absent /\ log[i + 1].msg = log[i].msg => r[Wire(i)] # Absent

\* The history of what was consumed, and the window the code keeps of it.
\* Ch2 never stops inside a message.
History ==
    /\ Len(consumed) <= Len(log) /\ Len(log) - Len(consumed) <= Window
    /\ ch2Next = Wire(Len(consumed))
    /\ \A i \in DOMAIN consumed :
          log[i].ch = 2 /\ log[i].ok /\ consumed[i] = EntryOf(i)
    /\ Len(consumed) < Len(log) => log[Len(consumed) + 1].msg = Len(consumed)
    /\ Len(deliveredSeqs) = IF Len(consumed) <= DeliveredCap
                            THEN Len(consumed) ELSE DeliveredCap
    /\ \A i \in DOMAIN deliveredSeqs :
          deliveredSeqs[i] = Wire(Len(consumed) - Len(deliveredSeqs) + i - 1)

\* In the history l, the part c of a group, at its place i, is that part of
\* the message m.
PartIn(l, c, m, i, total) ==
    /\ m + i < Len(l)
    /\ c = [msg |-> m, i |-> i, len |-> total]
    /\ l[m + i + 1].msg = m /\ l[m + i + 1].len = total
    /\ l[m + i + 1].ch = 2
    /\ l[m + i + 1].ok \/ i + 1 < total

\* The group g collects the message m.
Collects(l, g, m) ==
    /\ g.first = Wire(m)
    /\ \E i \in DOMAIN g.parts : g.parts[i] # NoChunk
    /\ \A i \in DOMAIN g.parts :
          g.parts[i] # NoChunk => PartIn(l, g.parts[i], m, i, g.total)

GroupIn(l, g) == \E m \in Nat : Collects(l, g, m)

Groups == \A g \in SeqNos : pending[g] # NoGroup => GroupIn(log, pending[g])

Sender == LogShape /\ QueueShape
Receiver == History /\ RightEntries(reorder) /\ WholeEntries(reorder) /\ Groups

\* Different numbers within one turn have different wire values.
LEMMA WireUnique ==
    ASSUME NEW n \in Int, NEW m \in Int, -WireMod < n - m, n - m < WireMod,
           Wire(n) = Wire(m)
    PROVE  n = m
<1>1. WrapSub(Wire(n), Wire(m)) = IF n >= m THEN n - m ELSE n - m + WireMod
  BY SpaceType, WireSub
<1>2. WrapSub(Wire(m), Wire(m)) = IF m >= m THEN m - m ELSE m - m + WireMod
  BY SpaceType, WireSub
<1>. QED  BY <1>1, <1>2, SpaceType
-----------------------------------------------------------------------------
(* The sender.                                                             *)

\* How many sequence numbers pack_outbound takes for a message.
Taken(ch, parts) == IF parts <= Room(ch) THEN parts ELSE Room(ch) + 1

\* What pack_outbound does to the history, the network and the queues.
LEMMA PackOutboundLog ==
    ASSUME TypeOK, NEW ch \in Channels, NEW parts \in GroupSizes \cup {1},
           PackOutbound(ch, parts)
    PROVE  /\ Taken(ch, parts) \in 1 .. parts
           /\ Len(log') = Len(log) + Taken(ch, parts)
           /\ DOMAIN log' = 1 .. Len(log) + Taken(ch, parts)
           /\ \A i \in 1 .. Len(log) : log'[i] = log[i]
           /\ \A i \in Len(log) + 1 .. Len(log) + Taken(ch, parts) :
                 log'[i] = NewPacket(ch, parts, i - Len(log) - 1, parts <= Room(ch))
           /\ \A p \in net' : \/ p \in net
                              \/ /\ parts <= Room(ch)
                                 /\ \E i \in Len(log) + 1 .. Len(log') : p = log'[i]
           /\ \A c \in Reliable : \E d \in Nat :
                 /\ d <= Taken(ch, parts)
                 /\ ~(parts <= Room(ch)) => d < Taken(ch, parts)
                 /\ c = ch /\ parts <= Room(ch) => d = Taken(ch, parts)
                 /\ c # ch => d = 0
                 /\ DOMAIN retrans'[c] = 1 .. Len(retrans[c]) + d
                 /\ \A k \in 1 .. Len(retrans[c]) : retrans'[c][k] = retrans[c][k]
                 /\ \A k \in Len(retrans[c]) + 1 .. Len(retrans[c]) + d :
                       retrans'[c][k] = log'[Len(log) + k - Len(retrans[c])]
<1>. DEFINE ok == parts <= Room(ch)
            used == IF ok THEN parts ELSE Room(ch) + 1
            packets == [i \in 1 .. used |-> NewPacket(ch, parts, i - 1, ok)]
            queued == IF ok THEN used ELSE used - 1
<1>1. ch \in 0 .. 3 /\ parts \in Nat /\ parts # 0
  BY SendArguments
<1>2. Room(ch) \in Nat
  BY <1>1, RoomType
<1>3. /\ used \in 1 .. parts /\ used \in Nat /\ queued \in Nat /\ queued <= used
      /\ ok => queued = used
      /\ ~ok => queued < used
  BY <1>1, <1>2
<1>4. /\ retrans' = IF ch \in Reliable
                    THEN [retrans EXCEPT ![ch] = @ \o SubSeq(packets, 1, queued)]
                    ELSE retrans
      /\ net' = IF ok THEN Emit(net, ToSet(packets), NetCap) ELSE net
      /\ log' = log \o packets
  BY DEF PackOutbound
<1>5. Len(packets) = used /\ DOMAIN packets = 1 .. used
  BY <1>3
<1>6. \A i \in 1 .. used : packets[i] = NewPacket(ch, parts, i - 1, ok)
  OBVIOUS
<1>7. log \in Seq(Packets) /\ Len(log) \in Nat
  BY DEF TypeOK
<1>8. packets \in Seq(Packets)
  <2>1. ok \in BOOLEAN /\ \A i \in 1 .. used : i - 1 \in Nat
    BY <1>3
  <2>2. \A i \in 1 .. used : NewPacket(ch, parts, i - 1, ok) \in Packets
    <3>. HIDE DEF ok, used
    <3>. QED  BY <1>1, <2>1, NewPacketType
  <2>. QED  BY <1>3, <2>2
<1>9. Taken(ch, parts) = used
  BY DEF Taken
<1>. HIDE DEF packets, used, queued, ok
<1>10. /\ Len(log') = Len(log) + used /\ DOMAIN log' = 1 .. Len(log) + used
       /\ \A i \in 1 .. Len(log) : log'[i] = log[i]
       /\ \A i \in 1 .. used : log'[Len(log) + i] = packets[i]
  <2>1. Len(log') = Len(log) + used /\ DOMAIN log' = 1 .. Len(log) + used
    <3>1. Len(log \o packets) = Len(log) + Len(packets)
          /\ DOMAIN (log \o packets) = 1 .. Len(log) + Len(packets)
      BY <1>7, <1>8
    <3>. QED  BY <1>4, <1>5, <3>1
  <2>2. \A i \in 1 .. Len(log) : log'[i] = log[i]
    BY <1>4, <1>7, <1>8
  <2>3. \A i \in 1 .. used : log'[Len(log) + i] = packets[i]
    BY <1>3, <1>4, <1>5, <1>7, <1>8
  <2>. QED  BY <2>1, <2>2, <2>3
<1>11. ASSUME NEW i \in Len(log) + 1 .. Len(log) + used
       PROVE  log'[i] = NewPacket(ch, parts, i - Len(log) - 1, ok)
  <2>. DEFINE j == i - Len(log)
  <2>1. j \in 1 .. used /\ i = Len(log) + j
    BY <1>3, <1>7
  <2>2. log'[i] = packets[j]
    BY <1>10, <2>1
  <2>. QED  BY <1>6, <2>1, <2>2
<1>12. ASSUME NEW p \in net', p \notin net
       PROVE  ok /\ \E i \in Len(log) + 1 .. Len(log') : p = log'[i]
  <2>1. ok /\ p \in ToSet(packets)
    BY <1>4, <1>12 DEF Emit
  <2>2. PICK j \in 1 .. used : p = packets[j]
    BY <1>5, <2>1 DEF ToSet
  <2>3. Len(log) + j \in Len(log) + 1 .. Len(log') /\ p = log'[Len(log) + j]
    BY <1>3, <1>7, <1>10, <2>2
  <2>. QED  BY <2>1, <2>3
<1>13. ASSUME NEW c \in Reliable
       PROVE  \E d \in Nat :
                 /\ d <= used
                 /\ ~ok => d < used
                 /\ c = ch /\ ok => d = used
                 /\ c # ch => d = 0
                 /\ DOMAIN retrans'[c] = 1 .. Len(retrans[c]) + d
                 /\ \A k \in 1 .. Len(retrans[c]) : retrans'[c][k] = retrans[c][k]
                 /\ \A k \in Len(retrans[c]) + 1 .. Len(retrans[c]) + d :
                       retrans'[c][k] = log'[Len(log) + k - Len(retrans[c])]
  <2>1. retrans[c] \in Seq(Packets) /\ retrans \in [Reliable -> Seq(Packets)]
        /\ Len(retrans[c]) \in Nat
    BY DEF TypeOK
  <2>2. CASE c = ch
    <3>. DEFINE t == SubSeq(packets, 1, queued)
    <3>1. Len(t) = queued /\ t \in Seq(Packets) /\ \A i \in 1 .. queued : t[i] = packets[i]
      BY <1>3, <1>5, <1>8
    <3>2. retrans'[c] = retrans[c] \o t
      BY <1>4, <2>1, <2>2
    <3>. HIDE DEF t
    <3>3. /\ DOMAIN (retrans[c] \o t) = 1 .. Len(retrans[c]) + queued
          /\ \A k \in 1 .. Len(retrans[c]) : (retrans[c] \o t)[k] = retrans[c][k]
          /\ \A k \in Len(retrans[c]) + 1 .. Len(retrans[c]) + queued :
                (retrans[c] \o t)[k] = t[k - Len(retrans[c])]
      BY <1>3, <2>1, <3>1
    <3>4. ASSUME NEW k \in Len(retrans[c]) + 1 .. Len(retrans[c]) + queued
          PROVE  retrans'[c][k] = log'[Len(log) + k - Len(retrans[c])]
      <4>. DEFINE j == k - Len(retrans[c])
      <4>1. j \in 1 .. queued /\ j \in 1 .. used
            /\ Len(log) + j = Len(log) + k - Len(retrans[c])
        BY <1>3, <1>7, <2>1
      <4>2. retrans'[c][k] = packets[j]
        BY <3>1, <3>2, <3>3, <4>1
      <4>. QED  BY <1>10, <4>1, <4>2
    <3>. QED  BY <1>3, <2>2, <3>2, <3>3, <3>4
  <2>3. CASE c # ch
    <3>1. retrans'[c] = retrans[c]
      BY <1>4, <2>1, <2>3
    <3>2. Len(retrans[c]) + 0 = Len(retrans[c])
      BY <2>1
    <3>. QED  BY <1>3, <2>1, <2>3, <3>1, <3>2
  <2>. QED  BY <2>2, <2>3
<1>. QED  BY <1>3, <1>9, <1>10, <1>11, <1>12, <1>13 DEF ok

\* A number below M is its own remainder.
LEMMA SmallMod ==
    ASSUME NEW M \in Nat \ {0}, NEW a \in 0 .. M - 1
    PROVE  a % M = a
<1>1. a = 0 * M + a
  OBVIOUS
<1>. QED  BY <1>1, ModUnique

\* No message has so many parts that frag_total or frag_no is cut off.
LEMMA NewPacketShape ==
    ASSUME TypeOK, Numbered, Sizes, NEW ch \in Channels,
           NEW parts \in GroupSizes \cup {1}, NEW i \in 0 .. parts - 1, NEW ok
    PROVE  LET p == NewPacket(ch, parts, i, ok)
           IN  /\ p.n = Len(log) + i /\ p.msg = Len(log) /\ p.len = parts
               /\ p.ok = ok /\ p.ch = ch
               /\ p.frag = (parts > 1) /\ p.first = Wire(Len(log))
               /\ p.no = i /\ p.total = parts /\ parts < U8Mod
<1>1. parts \in 1 .. U8Mod - 1 /\ U8Mod \in Nat \ {0}
  BY LinkAssumption, Constants DEF Sizes
<1>2. i % U8Mod = i /\ parts % U8Mod = parts
  <2>1. i \in 0 .. U8Mod - 1 /\ parts \in 0 .. U8Mod - 1
    BY <1>1
  <2>. QED  BY <1>1, <2>1, SmallMod
<1>3. sendSeq = Wire(Len(log))
  BY DEF Numbered
<1>. QED  BY <1>1, <1>2, <1>3 DEF NewPacket

\* pack_outbound gives the parts of a message consecutive numbers.
LEMMA LogShapePackOutbound ==
    ASSUME TypeOK, Numbered, Sizes, LogShape, NEW ch \in Channels,
           NEW parts \in GroupSizes \cup {1}, PackOutbound(ch, parts)
    PROVE  LogShape'
<1>. DEFINE L == Len(log)
            used == Taken(ch, parts)
            ok == parts <= Room(ch)
<1>1. L \in Nat /\ parts \in Nat /\ log \in Seq(Packets)
      /\ DOMAIN log = 1 .. L /\ (ch # 2 => parts = 1)
  <2>1. parts \in Nat /\ parts # 0 /\ (parts > 1 => ch = 2)
    BY SendArguments DEF PackOutbound
  <2>. QED  BY <2>1 DEF TypeOK
<1>2. /\ used \in 1 .. parts
      /\ DOMAIN log' = 1 .. L + used
      /\ \A i \in 1 .. L : log'[i] = log[i]
      /\ \A i \in L + 1 .. L + used : log'[i] = NewPacket(ch, parts, i - L - 1, ok)
  BY PackOutboundLog
<1>3. ASSUME NEW i \in 1 .. L + used, i > L
      PROVE  /\ log'[i].msg = L /\ log'[i].len = parts /\ log'[i].ok = ok
             /\ log'[i].ch = ch /\ log'[i].frag = (parts > 1)
             /\ log'[i].first = Wire(L) /\ log'[i].no = i - L - 1
             /\ log'[i].total = parts /\ parts < U8Mod
  <2>1. i \in L + 1 .. L + used /\ i - L - 1 \in 0 .. parts - 1
    BY <1>1, <1>2, <1>3
  <2>. QED  BY <1>2, <2>1, NewPacketShape
<1>. HIDE DEF used, ok
<1>4. ASSUME NEW i \in 1 .. L + used
      PROVE  /\ log'[i].msg < i /\ i <= log'[i].msg + log'[i].len
             /\ log'[i].len < U8Mod /\ (log'[i].ch # 2 => log'[i].len = 1)
             /\ log'[i].frag <=> log'[i].len > 1
             /\ log'[i].first = Wire(log'[i].msg)
             /\ log'[i].total = log'[i].len
             /\ log'[i].no = i - 1 - log'[i].msg
             /\ \A j \in log'[i].msg + 1 .. i :
                   /\ log'[j].msg = log'[i].msg /\ log'[j].len = log'[i].len
                   /\ log'[j].ok = log'[i].ok /\ log'[j].ch = log'[i].ch
  <2>1. CASE i <= L
    <3>1. log'[i] = log[i] /\ i \in DOMAIN log /\ log[i] \in Packets
          /\ log[i].msg \in Nat
      <4>1. i \in 1 .. L
        BY <1>1, <1>2, <2>1
      <4>2. log[i] \in Packets
        BY <1>1, <4>1
      <4>. QED  BY <1>1, <1>2, <4>1, <4>2 DEF Packets
    <3>2. \A j \in log[i].msg + 1 .. i : log'[j] = log[j]
      BY <1>1, <1>2, <2>1, <3>1
    <3>. QED  BY <3>1, <3>2 DEF LogShape
  <2>2. CASE i > L
    <3>1. \A j \in L + 1 .. i : j \in 1 .. L + used /\ j > L
      BY <1>1, <1>2, <2>2
    <3>2. i <= L + parts
      BY <1>1, <1>2
    <3>3. i - 1 - L = i - L - 1
      BY <1>1
    <3>. QED  BY <1>1, <1>3, <2>2, <3>1, <3>2, <3>3
  <2>. QED  BY <1>1, <2>1, <2>2
<1>. QED  BY <1>2, <1>4 DEF LogShape

\* The numbers in the queue are numbers the sender has handed out.
LEMMA QueueNumbers ==
    ASSUME TypeOK, Numbered, NEW ch \in Reliable, NEW k \in 1 .. Len(retrans[ch])
    PROVE  /\ retrans[ch][k] \in ToSet(retrans[ch]) /\ retrans[ch][k] \in Packets
           /\ retrans[ch][k].n \in Nat /\ retrans[ch][k].n < Len(log)
           /\ retrans[ch][k] = log[retrans[ch][k].n + 1] /\ retrans[ch][k].ch = ch
<1>1. retrans[ch] \in Seq(Packets)
  BY DEF TypeOK
<1>2. retrans[ch][k] \in Packets /\ retrans[ch][k] \in ToSet(retrans[ch])
  BY <1>1 DEF ToSet
<1>3. retrans[ch][k].n \in Nat
  BY <1>2 DEF Packets
<1>. QED  BY <1>2, <1>3 DEF Numbered, IsLogged, IsIn

LEMMA QueueShapePackOutbound ==
    ASSUME TypeOK, Numbered, Sizes, QueueShape, NEW ch \in Channels,
           NEW parts \in GroupSizes \cup {1}, PackOutbound(ch, parts)
    PROVE  QueueShape'
<1>. DEFINE L == Len(log)
            used == Taken(ch, parts)
            ok == parts <= Room(ch)
<1>1. L \in Nat /\ parts \in Nat /\ log \in Seq(Packets) /\ DOMAIN log = 1 .. L
  BY SendArguments DEF TypeOK
<1>2. /\ used \in 1 .. parts
      /\ Len(log') = L + used /\ DOMAIN log' = 1 .. L + used
      /\ \A i \in 1 .. L : log'[i] = log[i]
      /\ \A i \in L + 1 .. L + used : log'[i] = NewPacket(ch, parts, i - L - 1, ok)
      /\ \A p \in net' : p \in net \/ (ok /\ \E i \in L + 1 .. L + used : p = log'[i])
  BY PackOutboundLog
<1>3. ASSUME NEW i \in L + 1 .. L + used
      PROVE  /\ log'[i].n = i - 1 /\ log'[i].msg = L /\ log'[i].len = parts
             /\ log'[i].ok = ok /\ log'[i].ch = ch
  <2>1. i - L - 1 \in 0 .. parts - 1 /\ L + (i - L - 1) = i - 1
    BY <1>1, <1>2
  <2>. QED  BY <1>2, <2>1, NewPacketShape
<1>4. ASSUME NEW c \in Reliable
      PROVE  \E d \in Nat :
                 /\ d <= used
                 /\ ~ok => d < used
                 /\ c = ch /\ ok => d = used
                 /\ c # ch => d = 0
                 /\ DOMAIN retrans'[c] = 1 .. Len(retrans[c]) + d
                 /\ \A k \in 1 .. Len(retrans[c]) : retrans'[c][k] = retrans[c][k]
                 /\ \A k \in Len(retrans[c]) + 1 .. Len(retrans[c]) + d :
                       retrans'[c][k] = log'[L + k - Len(retrans[c])]
  BY PackOutboundLog
<1>. HIDE DEF used, ok
<1>5. \A c \in Reliable : retrans[c] \in Seq(Packets) /\ Len(retrans[c]) \in Nat
  BY DEF TypeOK
<1>7. ASSUME NEW c \in Reliable, NEW k \in DOMAIN retrans'[c], NEW l \in DOMAIN retrans'[c], k < l
      PROVE  retrans'[c][k].n < retrans'[c][l].n
  <2>. DEFINE q == retrans[c]
              N == Len(q)
  <2>1. PICK d \in Nat : /\ d <= used
                         /\ DOMAIN retrans'[c] = 1 .. N + d
                         /\ \A j \in 1 .. N : retrans'[c][j] = q[j]
                         /\ \A j \in N + 1 .. N + d : retrans'[c][j] = log'[L + j - N]
    BY <1>4
  <2>2. N \in Nat /\ q \in Seq(Packets) /\ DOMAIN q = 1 .. N
    BY <1>5
  <2>3. \A j \in 1 .. N : q[j].n \in Nat /\ q[j].n < L
    BY QueueNumbers
  <2>. HIDE DEF q, N
  <2>4. ASSUME NEW j \in N + 1 .. N + d PROVE retrans'[c][j].n = L + j - N - 1
    <3>. DEFINE i == L + j - N
    <3>1. i \in L + 1 .. L + used
      BY <1>1, <1>2, <2>1, <2>2
    <3>2. retrans'[c][j] = log'[i]
      BY <2>1
    <3>. HIDE DEF i
    <3>3. log'[i].n = i - 1
      BY <1>3, <3>1
    <3>. QED  BY <1>1, <2>2, <3>2, <3>3 DEF i
  <2>5. k \in 1 .. N + d /\ l \in 1 .. N + d
    BY <2>1
  <2>6. CASE l <= N
    <3>1. k \in 1 .. N /\ l \in 1 .. N
      BY <1>7, <2>2, <2>5, <2>6
    <3>2. q[k].n < q[l].n
      BY <1>7, <2>2, <3>1 DEF QueueShape, q
    <3>. QED  BY <2>1, <3>1, <3>2
  <2>7. CASE l > N /\ k <= N
    <3>1. k \in 1 .. N /\ l \in N + 1 .. N + d
      BY <2>2, <2>5, <2>7
    <3>2. retrans'[c][k] = q[k] /\ q[k].n \in Nat /\ q[k].n < L
      BY <2>1, <2>3, <3>1
    <3>3. retrans'[c][l].n = L + l - N - 1
      BY <2>4, <3>1
    <3>. QED  BY <1>1, <2>2, <3>1, <3>2, <3>3
  <2>8. CASE l > N /\ k > N
    <3>1. k \in N + 1 .. N + d /\ l \in N + 1 .. N + d
      BY <2>2, <2>5, <2>8
    <3>2. retrans'[c][k].n = L + k - N - 1 /\ retrans'[c][l].n = L + l - N - 1
      BY <2>4, <3>1
    <3>. QED  BY <1>1, <1>7, <2>2, <3>1, <3>2
  <2>. QED  BY <2>2, <2>5, <2>6, <2>7, <2>8
<1>8. ASSUME NEW p \in net' PROVE Sendable(p)
  BY <1>2, <1>3, <1>8 DEF QueueShape, Sendable
<1>9. ASSUME NEW c \in Reliable, NEW p \in ToSet(retrans'[c]) PROVE Sendable(p)
  <2>. DEFINE q == retrans[c]
              N == Len(q)
  <2>1. PICK d \in Nat : /\ d <= used
                         /\ ~ok => d < used
                         /\ DOMAIN retrans'[c] = 1 .. N + d
                         /\ \A j \in 1 .. N : retrans'[c][j] = q[j]
                         /\ \A j \in N + 1 .. N + d : retrans'[c][j] = log'[L + j - N]
    BY <1>4
  <2>2. N \in Nat
    BY <1>5
  <2>3. PICK k \in 1 .. N + d : p = retrans'[c][k]
    BY <1>9, <2>1 DEF ToSet
  <2>4. CASE k <= N
    <3>1. k \in 1 .. N
      BY <2>2, <2>3, <2>4
    <3>2. p \in ToSet(q)
      BY <2>1, <2>3, <3>1, QueueNumbers
    <3>. QED  BY <3>2 DEF QueueShape
  <2>5. CASE k > N
    <3>. HIDE DEF N
    <3>1. k \in N + 1 .. N + d /\ L + k - N \in L + 1 .. L + used
      BY <1>1, <1>2, <2>1, <2>2, <2>3, <2>5
    <3>2. p = log'[L + k - N]
      BY <2>1, <2>3, <3>1
    <3>3. p.n = L + k - N - 1 /\ p.msg = L /\ p.len = parts /\ p.ok = ok
      <4>. DEFINE i == L + k - N
      <4>1. i \in L + 1 .. L + used /\ p = log'[i]
        BY <3>1, <3>2
      <4>. HIDE DEF i
      <4>2. p.n = i - 1 /\ p.msg = L /\ p.len = parts /\ p.ok = ok
        BY <1>3, <4>1
      <4>. QED  BY <1>1, <2>2, <3>1, <4>2 DEF i
    <3>4. ~ok => p.n - p.msg + 1 < p.len
      BY <1>1, <1>2, <2>1, <2>2, <3>1, <3>3
    <3>. QED  BY <3>3, <3>4 DEF Sendable
  <2>. QED  BY <2>2, <2>3, <2>4, <2>5
<1>10. ASSUME NEW c \in Reliable, NEW i \in 1 .. L + used, log'[i].ch = c, log'[i].ok,
              \E k \in DOMAIN retrans'[c] : retrans'[c][k].n <= i - 1
       PROVE  \E k \in DOMAIN retrans'[c] : retrans'[c][k].n = i - 1
  <2>. DEFINE q == retrans[c]
              N == Len(q)
  <2>1. PICK d \in Nat : /\ d <= used
                         /\ c = ch /\ ok => d = used
                         /\ DOMAIN retrans'[c] = 1 .. N + d
                         /\ \A j \in 1 .. N : retrans'[c][j] = q[j]
                         /\ \A j \in N + 1 .. N + d : retrans'[c][j] = log'[L + j - N]
    BY <1>4
  <2>2. N \in Nat /\ q \in Seq(Packets) /\ DOMAIN q = 1 .. N
    BY <1>5
  <2>. HIDE DEF N
  <2>3. CASE i <= L
    <3>1. i \in 1 .. L /\ log'[i] = log[i]
      BY <1>1, <1>2, <2>3
    <3>2. PICK k \in 1 .. N + d : retrans'[c][k].n <= i - 1
      BY <1>10, <2>1
    <3>3. k <= N
      <4>1. SUFFICES ASSUME k > N PROVE FALSE
        BY <2>2
      <4>2. L + k - N \in L + 1 .. L + used /\ k \in N + 1 .. N + d
        BY <1>1, <1>2, <2>1, <2>2, <4>1
      <4>3. retrans'[c][k].n = L + k - N - 1
        <5>. DEFINE m == L + k - N
        <5>1. m \in L + 1 .. L + used /\ retrans'[c][k] = log'[m]
          BY <2>1, <4>2
        <5>. HIDE DEF m
        <5>2. log'[m].n = m - 1
          BY <1>3, <5>1
        <5>. QED  BY <1>1, <2>2, <4>2, <5>1, <5>2 DEF m
      <4>. QED  BY <1>1, <2>2, <2>3, <3>2, <4>1, <4>3
    <3>4. k \in 1 .. N /\ q[k].n <= i - 1
      BY <2>1, <2>2, <3>2, <3>3
    <3>5. PICK j \in 1 .. N : q[j].n = i - 1
      BY <1>1, <1>10, <2>2, <3>1, <3>4 DEF QueueShape, Kept
    <3>6. j \in DOMAIN retrans'[c] /\ retrans'[c][j] = q[j]
      <4>1. j \in 1 .. N + d
        BY <2>2
      <4>. QED  BY <2>1, <4>1
    <3>. QED  BY <3>5, <3>6
  <2>4. CASE i > L
    <3>1. i \in L + 1 .. L + used
      BY <1>1, <1>2, <2>4
    <3>2. c = ch /\ ok /\ d = used
      BY <1>3, <1>10, <2>1, <3>1
    <3>3. N + (i - L) \in N + 1 .. N + d /\ L + (N + (i - L)) - N = i
      BY <1>1, <1>2, <2>2, <3>1, <3>2
    <3>4. retrans'[c][N + (i - L)] = log'[i]
      <4>. DEFINE k == N + (i - L)
      <4>1. k \in N + 1 .. N + d /\ L + k - N = i
        BY <3>3
      <4>. HIDE DEF k
      <4>2. retrans'[c][k] = log'[L + k - N]
        BY <2>1, <4>1
      <4>. QED  BY <4>1, <4>2 DEF k
    <3>5. retrans'[c][N + (i - L)].n = i - 1
      BY <1>3, <3>1, <3>4
    <3>6. N + (i - L) \in 1 .. N + d
      BY <2>2, <3>3
    <3>. QED  BY <2>1, <3>5, <3>6
  <2>. QED  BY <1>1, <1>2, <2>3, <2>4
<1>. QED  BY <1>2, <1>7, <1>8, <1>9, <1>10 DEF QueueShape, Kept

\* What does not number anything and only takes packets away from the front of
\* a queue keeps the shape of the queues.
LEMMA QueueShapeFrame ==
    ASSUME TypeOK, Numbered, QueueShape, UNCHANGED log,
           net' \subseteq net \cup Unacked,
           \A ch \in Reliable : \E d \in 0 .. Len(retrans[ch]) :
               retrans'[ch] = SubSeq(retrans[ch], d + 1, Len(retrans[ch]))
    PROVE  QueueShape'
<1>1. ASSUME NEW ch \in Reliable
      PROVE  \E d \in 0 .. Len(retrans[ch]) :
                /\ DOMAIN retrans'[ch] = 1 .. Len(retrans[ch]) - d
                /\ \A k \in 1 .. Len(retrans[ch]) - d :
                      /\ retrans'[ch][k] = retrans[ch][k + d]
                      /\ k + d \in 1 .. Len(retrans[ch])
  <2>1. PICK d \in 0 .. Len(retrans[ch]) :
            retrans'[ch] = SubSeq(retrans[ch], d + 1, Len(retrans[ch]))
    OBVIOUS
  <2>2. retrans[ch] \in Seq(Packets) /\ Len(retrans[ch]) \in Nat
    BY DEF TypeOK
  <2>3. /\ DOMAIN retrans'[ch] = 1 .. Len(retrans[ch]) - d
        /\ \A k \in 1 .. Len(retrans[ch]) - d :
              retrans'[ch][k] = retrans[ch][k + d] /\ k + d \in 1 .. Len(retrans[ch])
    BY ONLY <2>1, <2>2, SMTT(30)
  <2>. QED  BY <2>3
<1>2. ASSUME NEW ch \in Reliable, NEW p \in ToSet(retrans[ch]) PROVE Sendable(p)
  BY <1>2 DEF QueueShape
<1>3. ASSUME NEW p \in net' PROVE Sendable(p)
  <2>1. p \in net \/ \E ch \in Reliable : p \in ToSet(retrans[ch])
    BY DEF Unacked
  <2>. QED  BY <1>2, <2>1 DEF QueueShape
<1>4. ASSUME NEW ch \in Reliable, NEW p \in ToSet(retrans'[ch]) PROVE Sendable(p)
  <2>1. PICK k \in DOMAIN retrans'[ch] : p = retrans'[ch][k]
    BY <1>4 DEF ToSet
  <2>2. \E j \in 1 .. Len(retrans[ch]) : p = retrans[ch][j]
    BY <1>1, <2>1
  <2>3. p \in ToSet(retrans[ch])
    BY <2>2, QueueNumbers
  <2>. QED  BY <1>2, <2>3
<1>5. ASSUME NEW c \in Reliable
      PROVE  /\ \A k, l \in DOMAIN retrans'[c] : k < l => retrans'[c][k].n < retrans'[c][l].n
             /\ \A i \in DOMAIN log : log[i].ch = c /\ log[i].ok => Kept(c, i - 1)'
  <2>. DEFINE q == retrans[c]
              N == Len(q)
  <2>1. N \in Nat /\ DOMAIN q = 1 .. N
    <3>1. retrans[c] \in Seq(Packets)
      BY DEF TypeOK
    <3>. QED  BY <3>1
  <2>2. PICK d \in 0 .. N :
            /\ DOMAIN retrans'[c] = 1 .. N - d
            /\ \A k \in 1 .. N - d : retrans'[c][k] = q[k + d] /\ k + d \in 1 .. N
    BY <1>1, <2>1
  <2>3. \A j \in 1 .. N : q[j].n \in Nat
    BY <2>1, QueueNumbers
  <2>4. \A k, l \in 1 .. N : k < l => q[k].n < q[l].n
    BY <2>1 DEF QueueShape
  <2>. HIDE DEF N
  <2>5. ASSUME NEW k \in DOMAIN retrans'[c], NEW l \in DOMAIN retrans'[c], k < l
        PROVE  retrans'[c][k].n < retrans'[c][l].n
    <3>1. k \in 1 .. N - d /\ l \in 1 .. N - d
      BY <2>2
    <3>2. k + d \in 1 .. N /\ l + d \in 1 .. N /\ k + d < l + d
      BY <2>1, <2>5, <3>1
    <3>3. q[k + d].n < q[l + d].n
      BY <2>4, <3>2
    <3>. QED  BY <2>2, <3>1, <3>3
  <2>6. ASSUME NEW i \in DOMAIN log, log[i].ch = c, log[i].ok,
                \E k \in DOMAIN retrans'[c] : retrans'[c][k].n <= i - 1
         PROVE  \E k \in DOMAIN retrans'[c] : retrans'[c][k].n = i - 1
    <3>1. i \in Nat
      BY DEF TypeOK
    <3>2. PICK k \in 1 .. N - d : retrans'[c][k].n <= i - 1
      BY <2>2, <2>6
    <3>3. k + d \in 1 .. N /\ q[k + d].n <= i - 1
      BY <2>2, <3>2
    <3>4. PICK j \in 1 .. N : q[j].n = i - 1
      BY <2>1, <2>6, <3>3 DEF QueueShape, Kept
    <3>5. j >= k + d
      <4>1. SUFFICES ASSUME j < k + d PROVE FALSE
        BY <2>1, <3>3
      <4>2. q[j].n < q[k + d].n
        BY <2>4, <3>3, <4>1
      <4>. QED  BY <2>3, <3>1, <3>3, <3>4, <4>2
    <3>6. j - d \in 1 .. N - d /\ (j - d) + d = j
      BY <2>1, <3>2, <3>3, <3>5
    <3>7. retrans'[c][j - d] = q[(j - d) + d]
      BY <2>2, <3>6
    <3>. QED  BY <2>2, <3>4, <3>6, <3>7
  <2>. QED  BY <2>5, <2>6 DEF Kept
<1>. QED  BY <1>3, <1>4, <1>5 DEF QueueShape, Kept

LEMMA SenderStep ==
    TypeOK /\ Numbered /\ Sizes /\ Sender /\ [Next]_vars => Sender'
<1>. SUFFICES ASSUME TypeOK, Numbered, Sizes, LogShape, QueueShape, [Next]_vars
              PROVE  Sender'
  BY DEF Sender
<1>1. ASSUME NEW ch \in Channels, NEW parts \in GroupSizes \cup {1},
             PackOutbound(ch, parts)
      PROVE  Sender'
  BY <1>1, LogShapePackOutbound, QueueShapePackOutbound DEF Sender
<1>2. \A ch \in Reliable : retrans[ch] \in Seq(Packets) /\ Len(retrans[ch]) \in Nat
  BY DEF TypeOK
<1>3. ASSUME UNCHANGED log, net' \subseteq net \cup Unacked,
             \A ch \in Reliable : \E d \in 0 .. Len(retrans[ch]) :
                 retrans'[ch] = SubSeq(retrans[ch], d + 1, Len(retrans[ch]))
      PROVE  Sender'
  BY <1>3, QueueShapeFrame DEF Sender, LogShape
<1>4. ASSUME UNCHANGED <<log, retrans>>, net' \subseteq net \cup Unacked
      PROVE  Sender'
  <2>1. ASSUME NEW ch \in Reliable
        PROVE  0 \in 0 .. Len(retrans[ch])
               /\ retrans'[ch] = SubSeq(retrans[ch], 0 + 1, Len(retrans[ch]))
    BY <1>2, <1>4
  <2>. QED  BY <1>3, <1>4, <2>1
<1>5. ASSUME NEW a \in ackNet, OnAck(a) PROVE Sender'
  <2>1. ASSUME NEW ch \in Reliable
        PROVE  /\ AckedPrefix(retrans[ch], a) \in 0 .. Len(retrans[ch])
               /\ retrans'[ch] = SubSeq(retrans[ch], AckedPrefix(retrans[ch], a) + 1,
                                        Len(retrans[ch]))
    BY <1>2, <1>5, AckedPrefixType DEF OnAck, Rest
  <2>2. ASSUME NEW ch \in Reliable PROVE FastRetransmit(ch, a) \subseteq Unacked
    BY <1>2 DEF FastRetransmit, FrontSkipped, Unacked, ToSet
  <2>3. net' \subseteq net \cup Unacked
    BY <1>5, <2>2 DEF OnAck, Emit
  <2>. QED  BY <1>3, <1>5, <2>1, <2>3 DEF OnAck
<1>6. ASSUME NEW due \in SUBSET Unacked, MaintainReliable(due) PROVE Sender'
  BY <1>4, <1>6 DEF MaintainReliable, Emit, senderVars
<1>7. ASSUME NEW p \in net, HandleSessionPacket(p) PROVE Sender'
  BY <1>4, <1>7 DEF HandleSessionPacket, senderVars
<1>8. ASSUME PiggybackAck PROVE Sender'
  BY <1>4, <1>8 DEF PiggybackAck, senderVars
<1>9. ASSUME NEW g \in SeqNos, AssemblerCleanup(g) PROVE Sender'
  BY <1>4, <1>9 DEF AssemblerCleanup, senderVars
<1>10. ASSUME NetworkLoss PROVE Sender'
  BY <1>4, <1>10 DEF NetworkLoss, Lose, senderVars
<1>11. CASE UNCHANGED vars
  BY <1>4, <1>11 DEF vars, senderVars
<1>. QED  BY <1>1, <1>5, <1>6, <1>7, <1>8, <1>9, <1>10, <1>11 DEF Next
-----------------------------------------------------------------------------
(* The receiver.                                                           *)

\* New numbers, and groups that are given up, leave the receiver as it was.
LEMMA ReceiverGrows ==
    ASSUME TypeOK, TypeOK', Sizes, LogShape, Receiver,
           UNCHANGED <<ch2Next, reorder, deliveredSeqs, consumed>>,
           \A g \in SeqNos : pending'[g] \in {pending[g], NoGroup},
           Len(log) <= Len(log'), Len(log') - Len(consumed) <= Window,
           \A i \in 1 .. Len(log) : log'[i] = log[i],
           Len(log) < Len(log') => log'[Len(log) + 1].msg = Len(log)
    PROVE  Receiver'
<1>. DEFINE L == Len(log)
            M == Len(log')
            c == Len(consumed)
<1>1. /\ L \in Nat /\ M \in Nat /\ c \in Nat /\ c <= L /\ L <= M
      /\ M - c <= Window /\ Window \in Nat /\ Window <= WireMod /\ WireMod \in Nat
      /\ DOMAIN log = 1 .. L /\ DOMAIN consumed = 1 .. c
  <2>1. log \in Seq(Packets) /\ consumed \in Seq(Entries)
    BY DEF TypeOK
  <2>2. log' \in Seq(Packets)
    BY DEF TypeOK
  <2>. QED  BY <2>1, <2>2, Constants, LinkAssumption DEF Receiver, History, Sizes
<1>2. \A i \in 1 .. L : log'[i] = log[i] /\ EntryOf(i)' = EntryOf(i)
  BY DEF EntryOf
<1>. HIDE DEF L, M, c
<1>3. History'
  <2>1. \A i \in DOMAIN consumed : log'[i] = log[i] /\ EntryOf(i)' = EntryOf(i)
    BY <1>1, <1>2
  <2>2. c < M => log'[c + 1].msg = c
    <3>1. CASE c < L
      <4>1. c + 1 \in 1 .. L
        BY <1>1, <3>1
      <4>. QED  BY <1>2, <3>1, <4>1 DEF Receiver, History, c, L
    <3>2. CASE c = L
      BY <3>2 DEF c, L, M
    <3>. QED  BY <1>1, <3>1, <3>2
  <2>3. Len(consumed') <= Len(log') /\ Len(log') - Len(consumed') <= Window
    BY <1>1 DEF c, L, M
  <2>4. Len(consumed') < Len(log') => log'[Len(consumed') + 1].msg = Len(consumed')
    BY <2>2 DEF c, M
  <2>. QED  BY <2>1, <2>3, <2>4 DEF Receiver, History
<1>4. RightEntries(reorder)'
  <2>1. ASSUME NEW s \in SeqNos, reorder[s] # Absent
        PROVE  \E i \in c + 1 .. M : s = Wire(i - 1) /\ log'[i].ch = 2 /\ log'[i].ok
                                     /\ reorder[s] = EntryOf(i)'
    <3>1. PICK i \in c + 1 .. L : s = Wire(i - 1) /\ log[i].ch = 2 /\ log[i].ok
                                  /\ reorder[s] = EntryOf(i)
      BY <2>1 DEF Receiver, RightEntries, c, L
    <3>2. i \in 1 .. L /\ i \in c + 1 .. M
      BY <1>1, <3>1
    <3>. QED  BY <1>2, <3>1, <3>2
  <2>. QED  BY <2>1 DEF RightEntries, c, M
<1>5. WholeEntries(reorder)'
  <2>1. ASSUME NEW i \in c + 1 .. M - 1, reorder[Wire(i - 1)] # Absent,
               log'[i + 1].msg = log'[i].msg
        PROVE  reorder[Wire(i)] # Absent
    <3>1. i \in Int /\ Wire(i - 1) \in SeqNos
      BY WireType
    <3>2. PICK j \in c + 1 .. L : Wire(i - 1) = Wire(j - 1)
      BY <2>1, <3>1 DEF Receiver, RightEntries, c, L
    <3>3. i - 1 = j - 1
      <4>1. -WireMod < (i - 1) - (j - 1) /\ (i - 1) - (j - 1) < WireMod
            /\ i - 1 \in Int /\ j - 1 \in Int
        BY <1>1, <3>1, <3>2
      <4>. QED  BY <3>2, <4>1, WireUnique
    <3>4. i <= L /\ i \in 1 .. L
      BY <1>1, <3>1, <3>2, <3>3
    <3>5. CASE i = L
      <4>1. log'[i + 1].msg = L /\ log[i].msg < i
        <5>1. i + 1 = L + 1 /\ L < M
          BY <1>1, <3>1, <3>5
        <5>2. log[i].msg < i
          BY <1>1, <3>4 DEF LogShape
        <5>. QED  BY <5>1, <5>2 DEF L, M
      <4>2. log[i].msg \in Nat
        <5>1. log[i] \in Packets
          BY <3>4 DEF TypeOK, L
        <5>. QED  BY <5>1 DEF Packets
      <4>. QED  BY <1>1, <1>2, <2>1, <3>4, <3>5, <4>1, <4>2
    <3>6. CASE i < L
      <4>1. i \in c + 1 .. L - 1 /\ i + 1 \in 1 .. L
        BY <1>1, <3>1, <3>6
      <4>2. log[i + 1].msg = log[i].msg
        BY <1>2, <2>1, <3>4, <4>1
      <4>. QED  BY <2>1, <4>1, <4>2 DEF Receiver, WholeEntries, c, L
    <3>. QED  BY <1>1, <3>1, <3>4, <3>5, <3>6
  <2>. QED  BY <2>1 DEF WholeEntries, c, M
<1>6. Groups'
  <2>1. ASSUME NEW p, NEW m \in Nat, NEW i \in Nat, NEW t, PartIn(log, p, m, i, t)
        PROVE  PartIn(log', p, m, i, t)
    <3>1. m + i < L /\ m + i + 1 \in 1 .. L
      BY <1>1, <2>1 DEF PartIn, L
    <3>2. m + i < M
      BY <1>1, <3>1
    <3>. QED  BY <1>2, <2>1, <3>1, <3>2 DEF PartIn, M
  <2>2. ASSUME NEW g \in SeqNos, pending'[g] # NoGroup PROVE GroupIn(log', pending'[g])
    <3>1. pending'[g] = pending[g] /\ GroupIn(log, pending[g]) /\ IsGroup(pending[g])
      BY <2>2 DEF Receiver, Groups, TypeOK
    <3>2. \A i \in DOMAIN pending[g].parts : i \in Nat
      BY <2>2, <3>1 DEF IsGroup
    <3>. QED  BY <2>1, <3>1, <3>2 DEF GroupIn, Collects
  <2>. QED  BY <2>2 DEF Groups
<1>. QED  BY <1>3, <1>4, <1>5, <1>6 DEF Receiver

\* The run that is delivered ends at the first number that is missing.
LEMMA RunLengthIs ==
    ASSUME NEW r
    PROVE  /\ RunLength(r) \in 0 .. WireMod
           /\ \A j \in 0 .. RunLength(r) - 1 : r[WrapAdd(ch2Next, j)] # Absent
           /\ \/ RunLength(r) = WireMod
              \/ r[WrapAdd(ch2Next, RunLength(r))] = Absent
<1>. DEFINE S == {k \in 0 .. WireMod : k = WireMod \/ r[WrapAdd(ch2Next, k)] = Absent}
<1>1. S \in SUBSET Nat /\ WireMod \in S
  BY Constants
<1>2. Min(S) \in S /\ \A x \in S : Min(S) <= x
  BY <1>1, MinNat
<1>3. RunLength(r) = Min(S)
  BY DEF RunLength
<1>4. RunLength(r) \in S /\ \A x \in S : RunLength(r) <= x
  BY <1>2, <1>3
<1>5. ASSUME NEW j \in 0 .. RunLength(r) - 1 PROVE r[WrapAdd(ch2Next, j)] # Absent
  <2>1. j \in 0 .. WireMod /\ ~(RunLength(r) <= j)
    BY <1>4, Constants
  <2>. QED  BY <1>4, <2>1
<1>. QED  BY <1>4, <1>5

\* A sequence followed by another.
LEMMA Concat ==
    ASSUME NEW S, NEW s \in Seq(S), NEW t \in Seq(S)
    PROVE  /\ s \o t \in Seq(S) /\ Len(s \o t) = Len(s) + Len(t)
           /\ DOMAIN (s \o t) = 1 .. Len(s) + Len(t)
           /\ \A i \in 1 .. Len(s) : (s \o t)[i] = s[i]
           /\ \A i \in Len(s) + 1 .. Len(s) + Len(t) : (s \o t)[i] = t[i - Len(s)]
  OBVIOUS

\* delivered_seqs holds the last numbers before the next one.
LEMMA DeliveredWindow ==
    ASSUME NEW d \in Seq(SeqNos), NEW run \in Seq(SeqNos), NEW c \in Nat,
           Len(d) = (IF c <= DeliveredCap THEN c ELSE DeliveredCap),
           \A i \in 1 .. Len(d) : d[i] = Wire(c - Len(d) + i - 1),
           \A i \in 1 .. Len(run) : run[i] = Wire(c + i - 1)
    PROVE  LET e == LastN(d \o run, DeliveredCap)
               b == c + Len(run)
           IN  /\ Len(e) = IF b <= DeliveredCap THEN b ELSE DeliveredCap
               /\ \A i \in 1 .. Len(e) : e[i] = Wire(b - Len(e) + i - 1)
<1>. DEFINE f == d \o run
            n == Len(f)
            e == LastN(f, DeliveredCap)
            b == c + Len(run)
<1>1. DeliveredCap \in Nat \ {0} /\ Len(d) \in Nat /\ Len(run) \in Nat
  BY Constants
<1>2. n = Len(d) + Len(run) /\ n \in Nat /\ f \in Seq(SeqNos)
  <2>1. d \in Seq(SeqNos) /\ run \in Seq(SeqNos)
    OBVIOUS
  <2>2. d \o run \in Seq(SeqNos) /\ Len(d \o run) = Len(d) + Len(run)
    BY ONLY <2>1, Concat
  <2>. QED  BY <1>1, <2>2
<1>3. ASSUME NEW i \in 1 .. n PROVE f[i] = Wire(b - n + i - 1)
  <2>1. CASE i <= Len(d)
    <3>1. f[i] = d[i] /\ i \in 1 .. Len(d)
      BY <1>1, <1>2, <2>1
    <3>2. b - n + i - 1 = c - Len(d) + i - 1
      BY <1>1, <1>2
    <3>. QED  BY <3>1, <3>2
  <2>2. CASE i > Len(d)
    <3>1. f[i] = run[i - Len(d)] /\ i - Len(d) \in 1 .. Len(run)
      BY <1>1, <1>2, <2>2
    <3>2. b - n + i - 1 = c + (i - Len(d)) - 1
      BY <1>1, <1>2
    <3>. QED  BY <3>1, <3>2
  <2>. QED  BY <1>1, <1>2, <2>1, <2>2
<1>4. b \in Nat /\ n <= b /\ (n <= DeliveredCap => n = IF b <= DeliveredCap THEN b ELSE DeliveredCap)
  BY <1>1, <1>2
<1>. HIDE DEF f, b
<1>5. CASE n <= DeliveredCap
  <2>1. e = f
    BY <1>5 DEF LastN
  <2>. HIDE DEF e
  <2>2. Len(e) = IF b <= DeliveredCap THEN b ELSE DeliveredCap
    BY <1>4, <1>5, <2>1
  <2>. QED  BY <1>3, <2>1, <2>2 DEF e, f, b
<1>6. CASE ~(n <= DeliveredCap)
  <2>. DEFINE N == n
  <2>1. e = SubSeq(f, N - DeliveredCap + 1, N) /\ N = Len(f)
    BY <1>6 DEF LastN
  <2>2. N \in Nat /\ f \in Seq(SeqNos) /\ N > DeliveredCap
    BY <1>1, <1>2, <1>6
  <2>. HIDE DEF e, N
  <2>3. Len(e) = DeliveredCap
        /\ \A i \in 1 .. DeliveredCap : e[i] = f[N - DeliveredCap + i]
    BY <1>1, <2>1, <2>2
  <2>4. ASSUME NEW i \in 1 .. DeliveredCap PROVE e[i] = Wire(b - DeliveredCap + i - 1)
    <3>1. N - DeliveredCap + i \in 1 .. N
      BY <1>1, <2>2
    <3>2. b - N + (N - DeliveredCap + i) - 1 = b - DeliveredCap + i - 1
      BY <1>1, <1>4, <2>2
    <3>3. f[N - DeliveredCap + i] = Wire(b - N + (N - DeliveredCap + i) - 1)
      BY <1>3, <3>1 DEF N
    <3>. QED  BY <2>3, <3>2, <3>3
  <2>5. ~(b <= DeliveredCap)
    BY <1>1, <1>4, <2>2 DEF N
  <2>. QED  BY <2>3, <2>4, <2>5 DEF e, f, b
<1>. QED  BY <1>5, <1>6

\* deliver_ch2_in_order hands on the right entries, stops between two messages
\* and leaves the entries of the numbers to come.
LEMMA DeliverInOrder ==
    ASSUME TypeOK, Sizes, LogShape, History, UNCHANGED log,
           NEW r \in [SeqNos -> Entries], RightEntries(r), WholeEntries(r),
           DeliverCh2InOrder(r)
    PROVE  /\ History' /\ RightEntries(reorder)' /\ WholeEntries(reorder)'
           /\ Len(consumed) <= Len(consumed')
<1>. DEFINE L == Len(log)
            c == Len(consumed)
            k == RunLength(r)
            run == [i \in 1 .. k |-> WrapAdd(ch2Next, i - 1)]
            out == [i \in 1 .. k |-> r[run[i]]]
<1>1. log \in Seq(Packets) /\ consumed \in Seq(Entries) /\ deliveredSeqs \in Seq(SeqNos)
  BY DEF TypeOK
<1>2. /\ L \in Nat /\ c \in Nat /\ c <= L /\ L - c <= WireMod /\ WireMod \in Nat \ {0}
      /\ DOMAIN log = 1 .. L /\ DOMAIN consumed = 1 .. c
  BY <1>1, Constants, LinkAssumption DEF History, Sizes
<1>3. k \in 0 .. WireMod /\ k \in Nat
  BY <1>2, RunLengthIs
<1>4. \A j \in Int : WrapAdd(ch2Next, j) = Wire(c + j) /\ WrapAdd(ch2Next, j) \in SeqNos
  <2>1. ch2Next = Wire(c)
    BY DEF History
  <2>2. ASSUME NEW j \in Int PROVE WrapAdd(Wire(c), j) = Wire(c + j)
    BY <1>2, WireAdd
  <2>3. \A j \in Int : Wire(c + j) \in SeqNos
    BY <1>2, WireType
  <2>. QED  BY <2>1, <2>2, <2>3
<1>5. /\ \A j \in 0 .. k - 1 : r[Wire(c + j)] # Absent
      /\ k = WireMod \/ r[Wire(c + k)] = Absent
  <2>1. /\ \A j \in 0 .. k - 1 : r[WrapAdd(ch2Next, j)] # Absent
        /\ k = WireMod \/ r[WrapAdd(ch2Next, k)] = Absent
    BY RunLengthIs
  <2>2. k \in Int /\ \A j \in 0 .. k - 1 : j \in Int
    BY <1>3
  <2>. QED  BY <1>4, <2>1, <2>2
<1>6. /\ run \in Seq(SeqNos) /\ Len(run) = k
      /\ \A i \in 1 .. k : run[i] = Wire(c + i - 1)
  <2>1. \A i \in 1 .. k : i - 1 \in Int /\ c + (i - 1) = c + i - 1
    BY <1>2, <1>3
  <2>. HIDE DEF k, c
  <2>2. \A i \in 1 .. k : WrapAdd(ch2Next, i - 1) = Wire(c + i - 1)
                          /\ WrapAdd(ch2Next, i - 1) \in SeqNos
    BY <1>4, <2>1
  <2>. QED  BY <1>3, <2>2
<1>7. \A i \in 1 .. k : run[i] \in SeqNos
  BY <1>3, <1>6
<1>8. out \in Seq(Entries) /\ Len(out) = k /\ \A i \in 1 .. k : out[i] = r[Wire(c + i - 1)]
  BY <1>3, <1>6, <1>7
<1>9. /\ consumed' = consumed \o out
      /\ reorder' = [s \in SeqNos |-> IF s \in ToSet(run) THEN Absent ELSE r[s]]
      /\ ch2Next' = WrapAdd(ch2Next, k)
      /\ deliveredSeqs' = LastN(deliveredSeqs \o run, DeliveredCap)
  BY DEF DeliverCh2InOrder
<1>10. DOMAIN run = 1 .. k
  OBVIOUS
<1>11. ToSet(run) = {Wire(c + i - 1) : i \in 1 .. k}
  BY <1>6, <1>10 DEF ToSet
<1>. HIDE DEF run, out, k, L, c
<1>12. Len(consumed') = c + k /\ DOMAIN consumed' = 1 .. c + k
       /\ (\A i \in 1 .. c : consumed'[i] = consumed[i])
       /\ (\A i \in c + 1 .. c + k : consumed'[i] = out[i - c])
  BY <1>1, <1>8, <1>9, Concat DEF c
<1>13. ASSUME NEW i \in c + 1 .. c + k
       PROVE  /\ i \in 1 .. L
              /\ log[i].ch = 2 /\ log[i].ok /\ r[Wire(i - 1)] = EntryOf(i)
  <2>1. i \in Int /\ i - 1 - c \in 0 .. k - 1 /\ c + (i - 1 - c) = i - 1
    BY <1>2, <1>3
  <2>2. Wire(i - 1) \in SeqNos /\ r[Wire(i - 1)] # Absent
    BY <1>5, <2>1, WireType
  <2>3. PICK j \in c + 1 .. L : Wire(i - 1) = Wire(j - 1) /\ log[j].ch = 2 /\ log[j].ok
                                /\ r[Wire(i - 1)] = EntryOf(j)
    BY <2>2 DEF RightEntries, c, L
  <2>4. -WireMod < (i - 1) - (j - 1) /\ (i - 1) - (j - 1) < WireMod
        /\ i - 1 \in Int /\ j - 1 \in Int
    BY <1>2, <1>3, <2>1, <2>3
  <2>5. i - 1 = j - 1
    BY <2>3, <2>4, WireUnique
  <2>6. i = j
    BY <2>1, <2>3, <2>5
  <2>. QED  BY <1>2, <2>3, <2>6
<1>14. c + k <= L
  <2>1. k > 0 => c + k \in c + 1 .. c + k
    BY <1>2, <1>3
  <2>2. k > 0 => c + k \in 1 .. L
    BY <1>13, <2>1
  <2>. QED  BY <1>2, <1>3, <2>2
<1>15. ASSUME NEW i \in 1 .. c + k
       PROVE  log[i].ch = 2 /\ log[i].ok /\ consumed'[i] = EntryOf(i)
  <2>1. CASE i <= c
    <3>1. i \in 1 .. c
      BY <1>2, <1>3, <2>1
    <3>. QED  BY <1>2, <1>12, <3>1 DEF History
  <2>2. CASE i > c
    <3>1. i \in c + 1 .. c + k /\ i - c \in 1 .. k /\ c + (i - c) - 1 = i - 1
      BY <1>2, <1>3, <2>2
    <3>2. consumed'[i] = r[Wire(i - 1)]
      BY <1>8, <1>12, <3>1
    <3>. QED  BY <1>13, <3>1, <3>2
  <2>. QED  BY <1>2, <1>3, <2>1, <2>2
<1>16. ASSUME c + k < L PROVE log[c + k + 1].msg = c + k
  <2>1. CASE k = 0
    <3>1. c < L /\ c + k + 1 = c + 1 /\ c + k = c
      BY <1>2, <1>16, <2>1
    <3>. QED  BY <3>1 DEF History, c, L
  <2>2. CASE k # 0
    <3>. DEFINE i == c + k
    <3>1. i \in c + 1 .. L - 1 /\ i \in c + 1 .. c + k /\ k # WireMod
          /\ i \in 1 .. L /\ i + 1 \in 1 .. L /\ i \in Nat /\ (i + 1) - 1 = i
      BY <1>2, <1>3, <1>16, <2>2
    <3>2. r[Wire(i)] = Absent
      BY <1>5, <3>1
    <3>. HIDE DEF i
    <3>3. i - 1 - c \in 0 .. k - 1 /\ c + (i - 1 - c) = i - 1
      BY <1>2, <1>3, <3>1
    <3>4. r[Wire(i - 1)] # Absent
      BY <1>5, <3>3
    <3>5. log[i + 1].msg # log[i].msg
      BY <3>1, <3>2, <3>4 DEF WholeEntries, c, L
    <3>6. /\ log[i + 1].msg < i + 1
          /\ \A j \in log[i + 1].msg + 1 .. i + 1 : log[j].msg = log[i + 1].msg
      BY <1>2, <3>1 DEF LogShape
    <3>7. log[i + 1].msg \in Nat
      <4>1. log[i + 1] \in Packets
        BY <1>1, <3>1 DEF L
      <4>. QED  BY <4>1 DEF Packets
    <3>8. log[i + 1].msg = i
      <4>1. SUFFICES ASSUME log[i + 1].msg < i PROVE FALSE
        BY <3>1, <3>6, <3>7
      <4>2. i \in log[i + 1].msg + 1 .. i + 1
        BY <3>1, <3>7, <4>1
      <4>. QED  BY <3>5, <3>6, <4>2
    <3>. QED  BY <3>8 DEF i
  <2>. QED  BY <2>1, <2>2
<1>17. History'
  <2>1. Len(consumed') <= Len(log') /\ Len(log') - Len(consumed') <= Window
    BY <1>2, <1>3, <1>12, <1>14, LinkAssumption DEF History, c, L
  <2>2. ch2Next' = Wire(Len(consumed'))
    BY <1>3, <1>4, <1>9, <1>12
  <2>3. \A i \in DOMAIN consumed' :
            log'[i].ch = 2 /\ log'[i].ok /\ consumed'[i] = EntryOf(i)'
    BY <1>12, <1>15 DEF EntryOf
  <2>4. Len(consumed') < Len(log') => log'[Len(consumed') + 1].msg = Len(consumed')
    BY <1>12, <1>16 DEF L
  <2>5. /\ Len(deliveredSeqs') = IF c + k <= DeliveredCap THEN c + k ELSE DeliveredCap
        /\ \A i \in 1 .. Len(deliveredSeqs') :
              deliveredSeqs'[i] = Wire((c + k) - Len(deliveredSeqs') + i - 1)
    <3>1. /\ Len(deliveredSeqs) = (IF c <= DeliveredCap THEN c ELSE DeliveredCap)
          /\ \A i \in 1 .. Len(deliveredSeqs) :
                deliveredSeqs[i] = Wire(c - Len(deliveredSeqs) + i - 1)
      BY <1>1 DEF History, c
    <3>2. \A i \in 1 .. Len(run) : run[i] = Wire(c + i - 1)
      BY <1>6
    <3>. DEFINE e == LastN(deliveredSeqs \o run, DeliveredCap)
                b == c + Len(run)
    <3>3. /\ Len(e) = IF b <= DeliveredCap THEN b ELSE DeliveredCap
          /\ \A i \in 1 .. Len(e) : e[i] = Wire(b - Len(e) + i - 1)
      BY <1>1, <1>2, <1>6, <3>1, <3>2, DeliveredWindow
    <3>4. deliveredSeqs' = e /\ b = c + k
      BY <1>6, <1>9
    <3>5. /\ Len(e) = IF c + k <= DeliveredCap THEN c + k ELSE DeliveredCap
          /\ \A i \in 1 .. Len(e) : e[i] = Wire((c + k) - Len(e) + i - 1)
      <4>. HIDE DEF e
      <4>. QED  BY ONLY <3>3, <1>6
    <3>. HIDE DEF e
    <3>. QED  BY ONLY <3>4, <3>5
  <2>6. DOMAIN deliveredSeqs' = 1 .. Len(deliveredSeqs')
    <3>1. deliveredSeqs' \in Seq(SeqNos)
      BY DeliverType
    <3>. QED  BY <3>1
  <2>7. /\ Len(deliveredSeqs') = IF Len(consumed') <= DeliveredCap
                                 THEN Len(consumed') ELSE DeliveredCap
        /\ \A i \in DOMAIN deliveredSeqs' :
              deliveredSeqs'[i] = Wire(Len(consumed') - Len(deliveredSeqs') + i - 1)
    BY <1>12, <2>5, <2>6
  <2>. QED  BY <2>1, <2>2, <2>3, <2>4, <2>7 DEF History
<1>18. RightEntries(reorder)'
  <2>1. ASSUME NEW s \in SeqNos, reorder'[s] # Absent
        PROVE  \E i \in c + k + 1 .. L : s = Wire(i - 1) /\ log[i].ch = 2 /\ log[i].ok
                                         /\ reorder'[s] = EntryOf(i)
    <3>1. s \notin ToSet(run) /\ r[s] # Absent /\ reorder'[s] = r[s]
      BY <1>9, <2>1
    <3>2. PICK i \in c + 1 .. L : s = Wire(i - 1) /\ log[i].ch = 2 /\ log[i].ok
                                  /\ r[s] = EntryOf(i)
      BY <3>1 DEF RightEntries, c, L
    <3>3. i > c + k
      <4>1. SUFFICES ASSUME i <= c + k PROVE FALSE
        BY <1>2, <1>3, <3>2
      <4>2. i - c \in 1 .. k /\ c + (i - c) - 1 = i - 1
        BY <1>2, <1>3, <3>2, <4>1
      <4>. QED  BY <1>11, <3>1, <3>2, <4>2
    <3>4. i \in c + k + 1 .. L
      BY <1>2, <1>3, <3>2, <3>3
    <3>. QED  BY <3>1, <3>2, <3>4
  <2>. QED  BY <1>12, <2>1 DEF RightEntries, EntryOf, L
<1>19. WholeEntries(reorder)'
  <2>1. ASSUME NEW i \in c + k + 1 .. L - 1, reorder'[Wire(i - 1)] # Absent,
               log[i + 1].msg = log[i].msg
        PROVE  reorder'[Wire(i)] # Absent
    <3>1. i \in Int /\ i \in c + 1 .. L - 1 /\ Wire(i - 1) \in SeqNos /\ Wire(i) \in SeqNos
      BY <1>2, <1>3, WireType
    <3>2. r[Wire(i - 1)] # Absent
      BY <1>9, <2>1, <3>1
    <3>3. r[Wire(i)] # Absent
      BY <2>1, <3>1, <3>2 DEF WholeEntries, c, L
    <3>4. Wire(i) \notin ToSet(run)
      <4>1. SUFFICES ASSUME NEW j \in 1 .. k, Wire(i) = Wire(c + j - 1) PROVE FALSE
        BY <1>11
      <4>2. -WireMod < i - (c + j - 1) /\ i - (c + j - 1) < WireMod
            /\ c + j - 1 \in Int /\ i # c + j - 1
        BY <1>2, <1>3, <3>1
      <4>. QED  BY <3>1, <4>1, <4>2, WireUnique
    <3>. QED  BY <1>9, <3>1, <3>3, <3>4
  <2>. QED  BY <1>12, <2>1 DEF WholeEntries, L
<1>20. Len(consumed) <= Len(consumed')
  BY <1>2, <1>3, <1>12 DEF c
<1>. QED  BY <1>17, <1>18, <1>19, <1>20

\* A packet that was consumed and is still queued is one of the last QueueCap:
\* everything sent on Ch2 after it is queued too.
LEMMA QueueSpan ==
    ASSUME TypeOK, Numbered, QueueShape, History, NEW k \in DOMAIN retrans[2]
    PROVE  Len(consumed) - retrans[2][k].n <= QueueCap
<1>. DEFINE q == retrans[2]
            N == Len(q)
            c == Len(consumed)
            n == q[k].n
            I == n .. c - 1
            D == {l \in 1 .. N : q[l].n \in I}
            f == [l \in D |-> q[l].n]
<1>1. /\ N \in Nat /\ N <= QueueCap /\ DOMAIN q = 1 .. N /\ c \in Nat
      /\ DOMAIN consumed = 1 .. c /\ k \in 1 .. N /\ QueueCap \in Nat
  <2>1. 2 \in Reliable
    BY DEF Reliable
  <2>2. retrans[2] \in Seq(Packets) /\ Len(retrans[2]) <= QueueCap
    BY <2>1 DEF TypeOK
  <2>3. consumed \in Seq(Entries)
    BY DEF TypeOK
  <2>. QED  BY <2>2, <2>3, Constants
<1>2. n \in Nat
  BY <1>1, QueueNumbers DEF Reliable
<1>3. ASSUME NEW m \in I PROVE \E l \in D : q[l].n = m
  <2>1. m + 1 \in DOMAIN consumed /\ (m + 1) - 1 = m /\ n <= m
    BY <1>1, <1>2
  <2>2. log[m + 1].ch = 2 /\ log[m + 1].ok /\ m + 1 \in DOMAIN log
    <3>1. m + 1 \in DOMAIN log
      <4>1. log \in Seq(Packets) /\ c <= Len(log)
        BY DEF TypeOK, History
      <4>. QED  BY <1>1, <2>1, <4>1
    <3>. QED  BY <2>1, <3>1 DEF History
  <2>3. Kept(2, (m + 1) - 1)
    BY <2>2 DEF QueueShape, Reliable
  <2>4. Kept(2, m)
    BY <2>1, <2>3
  <2>. QED  BY <1>1, <2>1, <2>4 DEF Kept
<1>4. f \in Surjection(D, I)
  <2>1. f \in [D -> I]
    OBVIOUS
  <2>. QED  BY <1>3, <2>1 DEF Surjection
<1>5. IsFiniteSet(1 .. N) /\ Cardinality(1 .. N) = N
  <2>. HIDE DEF N
  <2>1. 1 \in Int /\ N \in Int /\ N \in Nat
    BY <1>1
  <2>2. IsFiniteSet(1 .. N) /\ Cardinality(1 .. N) = IF 1 > N THEN 0 ELSE N - 1 + 1
    BY ONLY <2>1, FS_Interval
  <2>. QED  BY <2>1, <2>2
<1>. HIDE DEF f
<1>6. IsFiniteSet(D) /\ Cardinality(D) <= N
  <2>1. D \in SUBSET (1 .. N)
    OBVIOUS
  <2>. HIDE DEF D
  <2>. QED  BY <1>5, <2>1, FS_Subset
<1>7. Cardinality(I) <= Cardinality(D)
  <2>. HIDE DEF D, I
  <2>. QED  BY <1>4, <1>6, FS_Surjection
<1>8. Cardinality(I) = IF n > c - 1 THEN 0 ELSE (c - 1) - n + 1
  <2>. HIDE DEF n, c
  <2>1. n \in Int /\ c - 1 \in Int
    BY <1>1, <1>2
  <2>. QED  BY ONLY <2>1, FS_Interval
<1>9. Cardinality(D) \in Nat
  BY <1>6, FS_CardinalityType
<1>. QED
  <2>. HIDE DEF I, D, N, c, n
  <2>1. c - n <= QueueCap
    BY <1>1, <1>2, <1>6, <1>7, <1>8, <1>9
  <2>. QED  BY <2>1 DEF c, n

\* What is in the network is a packet of the log with its own number.
LEMMA NetPacket ==
    ASSUME TypeOK, Numbered, NEW p \in net
    PROVE  /\ p \in Packets /\ p.n \in Nat /\ p.n < Len(log) /\ p.n + 1 \in DOMAIN log
           /\ p = log[p.n + 1] /\ p.seq = Wire(p.n)
<1>1. p \in Packets /\ log \in Seq(Packets)
  BY DEF TypeOK
<1>2. p.n \in Nat
  BY <1>1 DEF Packets
<1>3. p.n < Len(log) /\ p = log[p.n + 1]
  BY DEF Numbered, IsLogged, IsIn
<1>4. p.n + 1 \in DOMAIN log /\ (p.n + 1) - 1 = p.n
  BY <1>1, <1>2, <1>3
<1>5. log[p.n + 1].seq = Wire((p.n + 1) - 1)
  BY <1>4 DEF Numbered
<1>. QED  BY <1>1, <1>2, <1>3, <1>4, <1>5

\* A packet of Ch2 that was consumed already is recognised (delivered_seqs
\* holds more numbers than a queue, and than a duplicate is old).
LEMMA RecognisedOld ==
    ASSUME TypeOK, Numbered, Sizes, QueueShape, History,
           NEW p \in net, p.ch = 2, p.n < Len(consumed),
           p \in Unacked \/ Len(log) - p.n <= Lifetime
    PROVE  p.seq \in ToSet(deliveredSeqs)
<1>. DEFINE c == Len(consumed)
            d == Len(deliveredSeqs)
<1>1. p.n \in Nat /\ p.seq = Wire(p.n)
  BY NetPacket
<1>2. /\ c \in Nat /\ d \in Nat /\ DOMAIN deliveredSeqs = 1 .. d /\ Len(log) \in Nat
      /\ {QueueCap, DeliveredCap, Lifetime} \subseteq Nat
      /\ QueueCap <= DeliveredCap /\ Lifetime <= DeliveredCap
  <2>1. consumed \in Seq(Entries) /\ deliveredSeqs \in Seq(SeqNos) /\ log \in Seq(Packets)
    BY DEF TypeOK
  <2>. QED  BY <2>1, Constants, LinkAssumption DEF Sizes
<1>3. c - p.n <= DeliveredCap
  <2>1. CASE p \in Unacked
    <3>1. PICK ch \in Reliable : p \in ToSet(retrans[ch])
      BY <2>1 DEF Unacked
    <3>2. ch = 2
      BY <3>1 DEF Numbered
    <3>3. PICK k \in DOMAIN retrans[2] : p = retrans[2][k]
      BY <3>1, <3>2 DEF ToSet
    <3>4. c - p.n <= QueueCap
      BY <3>3, QueueSpan
    <3>. QED  BY <1>1, <1>2, <3>4
  <2>2. CASE Len(log) - p.n <= Lifetime
    <3>1. c <= Len(log)
      BY DEF History
    <3>. QED  BY <1>1, <1>2, <2>2, <3>1
  <2>. QED  BY <2>1, <2>2
<1>4. d = (IF c <= DeliveredCap THEN c ELSE DeliveredCap)
      /\ \A i \in 1 .. d : deliveredSeqs[i] = Wire(c - d + i - 1)
  BY <1>2 DEF History
<1>5. p.n < c
  OBVIOUS
<1>. HIDE DEF c, d
<1>. DEFINE i == p.n - (c - d) + 1
<1>6. i \in 1 .. d /\ c - d + i - 1 = p.n
  <2>1. c <= DeliveredCap => d = c
    BY <1>4
  <2>2. ~(c <= DeliveredCap) => d = DeliveredCap
    BY <1>4
  <2>3. PICK n : n = p.n
    OBVIOUS
  <2>4. n \in Nat /\ c \in Nat /\ d \in Nat /\ DeliveredCap \in Nat
    BY <1>1, <1>2, <2>3
  <2>5. n < c /\ c - n <= DeliveredCap
    BY <1>3, <1>5, <2>3
  <2>6. n - (c - d) + 1 \in 1 .. d /\ c - d + (n - (c - d) + 1) - 1 = n
    BY ONLY <2>1, <2>2, <2>4, <2>5
  <2>. QED  BY ONLY <2>3, <2>6 DEF i
<1>. HIDE DEF i
<1>7. deliveredSeqs[i] = Wire(p.n)
  BY <1>4, <1>6
<1>. QED  BY <1>1, <1>2, <1>6, <1>7 DEF ToSet

\* A packet that is not old belongs to a message that is not old.
LEMMA NewMessage ==
    ASSUME TypeOK, Numbered, Sizes, LogShape, QueueShape, History,
           NEW p \in net, p.ch = 2, ~IsOldCh2(p),
           p \in Unacked \/ Len(log) - p.n <= Lifetime
    PROVE  /\ p.msg \in Nat /\ p.len \in Nat
           /\ Len(consumed) <= p.msg /\ p.msg <= p.n /\ p.n < p.msg + p.len
           /\ p.first = Wire(p.msg) /\ p.total = p.len /\ p.no = p.n - p.msg
           /\ p.frag <=> p.len > 1
           /\ Sendable(p)
<1>. DEFINE c == Len(consumed)
            i == p.n + 1
<1>1. p \in Packets /\ p.n \in Nat /\ p.n < Len(log) /\ p.n + 1 \in DOMAIN log
      /\ p = log[p.n + 1]
  BY NetPacket
<1>2. p.msg \in Nat /\ p.len \in Nat
  BY <1>1 DEF Packets
<1>3. c \in Nat /\ Len(log) \in Nat /\ DOMAIN log = 1 .. Len(log)
  <2>1. log \in Seq(Packets) /\ consumed \in Seq(Entries)
    BY DEF TypeOK
  <2>. QED  BY <2>1
<1>4. /\ log[i].msg < i /\ i <= log[i].msg + log[i].len
      /\ log[i].frag <=> log[i].len > 1
      /\ log[i].first = Wire(log[i].msg)
      /\ log[i].total = log[i].len
      /\ log[i].no = i - 1 - log[i].msg
      /\ \A j \in log[i].msg + 1 .. i : log[j].msg = log[i].msg
  BY <1>1 DEF LogShape
<1>5. /\ p.msg <= p.n /\ p.n < p.msg + p.len
      /\ p.first = Wire(p.msg) /\ p.total = p.len /\ p.no = p.n - p.msg
      /\ p.frag <=> p.len > 1
      /\ \A j \in p.msg + 1 .. p.n + 1 : log[j].msg = p.msg
  <2>1. log[i] = p /\ i = p.n + 1 /\ i \in Nat
    BY <1>1
  <2>. HIDE DEF i
  <2>2. /\ p.msg < i /\ i <= p.msg + p.len
        /\ p.frag <=> p.len > 1
        /\ p.first = Wire(p.msg) /\ p.total = p.len
        /\ p.no = i - 1 - p.msg
        /\ \A j \in p.msg + 1 .. i : log[j].msg = p.msg
    BY <1>4, <2>1
  <2>3. i - 1 - p.msg = p.n - p.msg /\ p.msg <= p.n /\ p.n < p.msg + p.len
    BY <1>1, <1>2, <2>1, <2>2
  <2>. QED  BY <2>1, <2>2, <2>3
<1>6. c <= p.n
  <2>1. SUFFICES ASSUME p.n < c PROVE FALSE
    BY <1>1, <1>3
  <2>. QED  BY <2>1, RecognisedOld DEF IsOldCh2
<1>7. c <= p.msg
  <2>1. SUFFICES ASSUME p.msg < c PROVE FALSE
    BY <1>2, <1>3
  <2>2. c + 1 \in p.msg + 1 .. p.n + 1 /\ c < Len(log)
    BY <1>1, <1>2, <1>3, <1>6, <2>1
  <2>3. log[c + 1].msg = c
    BY <2>2 DEF History
  <2>. QED  BY <1>2, <1>3, <1>5, <2>1, <2>2, <2>3
<1>8. Sendable(p)
  BY DEF QueueShape
<1>. QED  BY <1>2, <1>5, <1>7, <1>8

\* A message of one packet is the right entry for its number.
LEMMA PlainEntries ==
    ASSUME TypeOK, Numbered, Sizes, LogShape, QueueShape, History,
           RightEntries(reorder), WholeEntries(reorder),
           NEW p \in net, p.ch = 2, ~IsOldCh2(p), ~p.frag,
           p \in Unacked \/ Len(log) - p.n <= Lifetime
    PROVE  LET r == [reorder EXCEPT ![p.seq] = p.msg]
           IN  r \in [SeqNos -> Entries] /\ RightEntries(r) /\ WholeEntries(r)
<1>. DEFINE r == [reorder EXCEPT ![p.seq] = p.msg]
            c == Len(consumed)
            L == Len(log)
<1>1. p \in Packets /\ p.n \in Nat /\ p.n < L /\ p.n + 1 \in DOMAIN log
      /\ p = log[p.n + 1] /\ p.seq = Wire(p.n)
  BY NetPacket
<1>2. c \in Nat /\ L \in Nat /\ DOMAIN log = 1 .. L /\ L - c <= WireMod /\ WireMod \in Nat
  <2>1. log \in Seq(Packets) /\ consumed \in Seq(Entries)
    BY DEF TypeOK
  <2>. QED  BY <2>1, Constants, LinkAssumption DEF History, Sizes
<1>3. /\ p.len = 1 /\ p.msg = p.n /\ c <= p.n /\ p.msg \in Nat /\ p.ok
  <2>1. /\ p.msg \in Nat /\ p.len \in Nat
        /\ c <= p.msg /\ p.msg <= p.n /\ p.n < p.msg + p.len
        /\ ~(p.len > 1) /\ Sendable(p)
    BY NewMessage
  <2>. QED  BY <1>1, <1>2, <2>1 DEF Sendable
<1>4. /\ reorder \in [SeqNos -> Entries] /\ p.seq \in SeqNos
  BY <1>1, WireType DEF TypeOK
<1>5. /\ r \in [SeqNos -> Entries] /\ r[p.seq] = p.msg
      /\ \A s \in SeqNos : s # p.seq => r[s] = reorder[s]
      /\ r[p.seq] # Absent
  <2>1. p.msg \in Entries /\ p.msg # Absent
    BY <1>3 DEF Entries, Absent
  <2>. QED  BY <1>4, <2>1
<1>. HIDE DEF r, c, L
<1>6. RightEntries(r)
  <2>1. ASSUME NEW s \in SeqNos, r[s] # Absent
        PROVE  \E i \in c + 1 .. L : s = Wire(i - 1) /\ log[i].ch = 2 /\ log[i].ok
                                     /\ r[s] = EntryOf(i)
    <3>1. CASE s = p.seq
      <4>. DEFINE i == p.n + 1
      <4>1. i \in c + 1 .. L /\ i - 1 = p.n /\ log[i] = p
        BY <1>1, <1>2, <1>3
      <4>2. EntryOf(i) = p.msg
        BY <1>3, <4>1 DEF EntryOf
      <4>. QED  BY <1>1, <1>3, <1>5, <3>1, <4>1, <4>2
    <3>2. CASE s # p.seq
      BY <1>5, <2>1, <3>2 DEF RightEntries, c, L
    <3>. QED  BY <3>1, <3>2
  <2>. QED  BY <2>1 DEF RightEntries, c, L
<1>7. WholeEntries(r)
  <2>1. ASSUME NEW i \in c + 1 .. L - 1, r[Wire(i - 1)] # Absent,
               log[i + 1].msg = log[i].msg
        PROVE  r[Wire(i)] # Absent
    <3>1. i \in Int /\ Wire(i - 1) \in SeqNos /\ Wire(i) \in SeqNos
          /\ i + 1 \in DOMAIN log
      BY <1>2, WireType
    <3>2. Wire(i - 1) # p.seq
      <4>1. SUFFICES ASSUME Wire(i - 1) = Wire(p.n) PROVE FALSE
        BY <1>1
      <4>2. -WireMod < (i - 1) - p.n /\ (i - 1) - p.n < WireMod
            /\ i - 1 \in Int /\ p.n \in Int
        BY <1>1, <1>2, <1>3, <3>1
      <4>3. i - 1 = p.n
        BY <4>1, <4>2, WireUnique
      <4>4. log[i] = p /\ i = p.n + 1
        BY <1>1, <3>1, <4>3
      <4>5. /\ i + 1 <= log[i + 1].msg + log[i + 1].len
            /\ \A j \in log[i + 1].msg + 1 .. i + 1 : log[j].len = log[i + 1].len
        BY <3>1 DEF LogShape
      <4>6. log[i + 1].msg = p.n /\ i \in p.n + 1 .. i + 1
        BY <1>1, <1>3, <2>1, <4>4
      <4>7. log[i + 1].len = 1
        BY <1>3, <4>4, <4>5, <4>6
      <4>. QED  BY <1>1, <4>4, <4>5, <4>6, <4>7
    <3>3. reorder[Wire(i - 1)] # Absent
      BY <1>5, <2>1, <3>1, <3>2
    <3>4. reorder[Wire(i)] # Absent
      BY <2>1, <3>3 DEF WholeEntries, c, L
    <3>. QED  BY <1>5, <3>1, <3>4
  <2>. QED  BY <2>1 DEF WholeEntries, c, L
<1>. QED  BY <1>5, <1>6, <1>7 DEF r

\* A fragment joins the parts of its own message only: what is kept under its
\* group number for the same first number is younger than a turn of the space.
LEMMA GroupCollects ==
    ASSUME TypeOK, Numbered, Sizes, Fresh, LogShape, QueueShape, History, Groups,
           NEW p \in net, p.ch = 2, ~IsOldCh2(p), p.frag, WellFormed(p),
           p \in Unacked \/ Len(log) - p.n <= Lifetime
    PROVE  Collects(log, GroupWith(p), p.msg) /\ GroupWith(p).total = p.len
<1>. DEFINE L == Len(log)
            c == Len(consumed)
            old == pending[p.gid]
            again == old # NoGroup /\ old.total = p.total /\ old.first = p.first
            g == IF again THEN old ELSE NewGroup(p)
            G == GroupWith(p)
<1>1. p \in Packets /\ p.n \in Nat /\ p.n < L /\ p = log[p.n + 1]
  BY NetPacket
<1>2. /\ p.msg \in Nat /\ p.len \in Nat
      /\ c <= p.msg /\ p.msg <= p.n /\ p.n < p.msg + p.len
      /\ p.first = Wire(p.msg) /\ p.total = p.len /\ p.no = p.n - p.msg
      /\ Sendable(p)
  BY NewMessage
<1>3. c \in Nat /\ L \in Nat /\ L - c <= WireMod /\ WireMod \in Nat \ {0}
  <2>1. log \in Seq(Packets) /\ consumed \in Seq(Entries)
    BY DEF TypeOK
  <2>. QED  BY <2>1, Constants, LinkAssumption DEF History, Sizes
<1>4. p.gid \in SeqNos
  BY <1>1 DEF Packets
<1>5. IsGroup(G) /\ G # NoGroup
  BY <1>1, GroupWithType
<1>6. G = IF g.parts[p.no] = NoChunk THEN [g EXCEPT !.parts[p.no] = Chunk(p)] ELSE g
  BY DEF GroupWith
<1>7. p.no \in 0 .. p.total - 1 /\ p.no \in Nat /\ p.total \in 1 .. MaxFragments
  BY <1>1, <1>2 DEF WellFormed
<1>8. NewGroup(p).first = p.first /\ NewGroup(p).total = p.total
      /\ NewGroup(p).parts = [i \in 0 .. p.total - 1 |-> NoChunk]
      /\ NewGroup(p) = [first |-> p.first, total |-> p.total,
                        parts |-> [i \in 0 .. p.total - 1 |-> NoChunk]]
  BY DEF NewGroup
<1>. HIDE DEF L, c, G
<1>9. ASSUME again PROVE Collects(log, old, p.msg)
  <2>1. PICK m \in Nat : Collects(log, old, m)
    BY <1>4, <1>9 DEF Groups, GroupIn
  <2>2. PICK i \in DOMAIN old.parts : old.parts[i] # NoChunk
    BY <2>1 DEF Collects
  <2>3. PartIn(log, old.parts[i], m, i, old.total)
    BY <2>1, <2>2 DEF Collects
  <2>4. i \in Nat
    BY <1>4, <1>9, <2>2 DEF TypeOK, IsGroup
  <2>5. old.parts[i].msg = m /\ m + i < L
    BY <2>3 DEF PartIn, L
  <2>6. L - m <= WireMod
    BY <1>4, <2>2, <2>5 DEF Fresh, L
  <2>7. Wire(m) = Wire(p.msg)
    BY <1>2, <1>9, <2>1 DEF Collects
  <2>8. -WireMod < m - p.msg /\ m - p.msg < WireMod /\ m \in Int /\ p.msg \in Int
    BY <1>1, <1>2, <1>3, <2>4, <2>5, <2>6
  <2>9. m = p.msg
    BY <2>7, <2>8, WireUnique
  <2>. QED  BY <2>1, <2>9
<1>10. /\ g.first = p.first /\ g.total = p.total
       /\ DOMAIN g.parts = 0 .. p.total - 1
       /\ g = [first |-> g.first, total |-> g.total, parts |-> g.parts]
       /\ g.parts \in [0 .. p.total - 1 -> Chunks]
  <2>1. CASE again
    <3>1. IsGroup(old)
      BY <1>4 DEF TypeOK
    <3>. QED  BY <2>1, <3>1 DEF IsGroup
  <2>2. CASE ~again
    <3>1. NoChunk \in Chunks
      BY DEF NoChunk, Chunks
    <3>. QED  BY <1>8, <2>2, <3>1
  <2>. QED  BY <2>1, <2>2
<1>11. \A i \in DOMAIN g.parts :
          g.parts[i] # NoChunk => PartIn(log, g.parts[i], p.msg, i, g.total)
  BY <1>8, <1>9 DEF Collects
<1>12. PartIn(log, Chunk(p), p.msg, p.no, p.total)
  <2>1. p.msg + p.no = p.n
    BY <1>1, <1>2
  <2>2. Chunk(p) = [msg |-> p.msg, i |-> p.no, len |-> p.total]
    BY <1>2 DEF Chunk
  <2>3. p.ok \/ p.no + 1 < p.total
    BY <1>2 DEF Sendable
  <2>. QED  BY <1>1, <1>2, <2>1, <2>2, <2>3 DEF PartIn, L
<1>13. Chunk(p) # NoChunk
  BY <1>2, <1>7 DEF Chunk, NoChunk
<1>. HIDE DEF g, again, old
<1>14. /\ G.first = p.first /\ G.total = p.total /\ DOMAIN G.parts = 0 .. p.total - 1
       /\ G.parts[p.no] = IF g.parts[p.no] = NoChunk THEN Chunk(p) ELSE g.parts[p.no]
       /\ \A i \in 0 .. p.total - 1 : i # p.no => G.parts[i] = g.parts[i]
  <2>1. CASE g.parts[p.no] = NoChunk
    <3>1. G.first = g.first /\ G.total = g.total
          /\ G.parts = [g.parts EXCEPT ![p.no] = Chunk(p)]
      BY <1>6, <1>10, <2>1
    <3>. QED  BY <1>7, <1>10, <2>1, <3>1
  <2>2. CASE g.parts[p.no] # NoChunk
    BY <1>6, <1>10, <2>2
  <2>. QED  BY <2>1, <2>2
<1>15. \A i \in DOMAIN G.parts :
          G.parts[i] # NoChunk => PartIn(log, G.parts[i], p.msg, i, G.total)
  BY <1>10, <1>11, <1>12, <1>14
<1>16. p.no \in DOMAIN G.parts /\ G.parts[p.no] # NoChunk
  BY <1>7, <1>13, <1>14
<1>. QED  BY <1>2, <1>14, <1>15, <1>16 DEF Collects, G

\* A complete group is a whole message that pack_outbound did not refuse.
LEMMA CompleteMessage ==
    ASSUME TypeOK, Numbered, LogShape, NEW g, NEW m \in Nat,
           Collects(log, g, m), Complete(g), IsGroup(g), g # NoGroup
    PROVE  /\ Joined(g) = m
           /\ g.total \in Nat \ {0} /\ m + g.total <= Len(log)
           /\ \A i \in m + 1 .. m + g.total :
                 log[i].ch = 2 /\ log[i].ok /\ log[i].msg = m /\ log[i].len = g.total
<1>1. g.total \in Nat \ {0} /\ DOMAIN g.parts = 0 .. g.total - 1
  BY Constants DEF IsGroup
<1>. DEFINE t == g.total
            L == Len(log)
<1>2. \A i \in 0 .. t - 1 : PartIn(log, g.parts[i], m, i, t)
  BY <1>1 DEF Collects, Complete
<1>3. \A i \in 0 .. t - 1 : g.parts[i] = [msg |-> m, i |-> i, len |-> t]
  BY <1>2 DEF PartIn
<1>4. Joined(g) = m
  <2>1. 0 \in 0 .. t - 1
    BY <1>1
  <2>2. g.parts[0].msg = m
    <3>1. g.parts[0] = [msg |-> m, i |-> 0, len |-> t]
      BY <1>3, <2>1
    <3>. QED  BY <3>1
  <2>. QED  BY <1>3, <2>2 DEF Joined
<1>. HIDE DEF t, L
<1>5. m + t <= L
  <2>1. t - 1 \in 0 .. t - 1
    BY <1>1 DEF t
  <2>2. m + (t - 1) < L
    BY <1>2, <2>1 DEF PartIn, L
  <2>3. L \in Nat
    BY DEF TypeOK, L
  <2>. QED  BY <1>1, <2>2, <2>3 DEF t
<1>6. ASSUME NEW i \in m + 1 .. m + t
      PROVE  log[i].ch = 2 /\ log[i].msg = m /\ log[i].len = t
  <2>. DEFINE j == i - m - 1
  <2>1. j \in 0 .. t - 1 /\ m + j + 1 = i
    BY <1>1 DEF t
  <2>. HIDE DEF j
  <2>2. PartIn(log, g.parts[j], m, j, t)
    BY <1>2, <2>1
  <2>3. log[m + j + 1].ch = 2 /\ log[m + j + 1].msg = m /\ log[m + j + 1].len = t
    BY <2>2 DEF PartIn
  <2>. QED  BY <2>1, <2>3
<1>7. log[m + t].ok
  <2>1. t - 1 \in 0 .. t - 1 /\ m + (t - 1) + 1 = m + t /\ ~((t - 1) + 1 < t)
    BY <1>1 DEF t
  <2>2. PartIn(log, g.parts[t - 1], m, t - 1, t)
    BY <1>2, <2>1
  <2>. QED  BY <2>1, <2>2 DEF PartIn
<1>8. ASSUME NEW i \in m + 1 .. m + t PROVE log[i].ok
  <2>1. m + t \in DOMAIN log /\ m + t \in m + 1 .. m + t
    <3>1. log \in Seq(Packets)
      BY DEF TypeOK
    <3>. QED  BY <1>1, <1>5, <3>1 DEF t, L
  <2>2. log[m + t].msg = m
    BY <1>6, <2>1
  <2>3. \A j \in log[m + t].msg + 1 .. m + t : log[j].ok = log[m + t].ok
    BY <2>1 DEF LogShape
  <2>. QED  BY <1>7, <2>2, <2>3
<1>. QED  BY <1>1, <1>4, <1>5, <1>6, <1>8 DEF t, L

\* The entries of a complete group are right for its numbers.
LEMMA GroupEntries ==
    ASSUME TypeOK, Numbered, Sizes, LogShape, History,
           RightEntries(reorder), WholeEntries(reorder),
           NEW g, NEW m \in Nat, Collects(log, g, m), Complete(g), IsGroup(g),
           g # NoGroup, Len(consumed) <= m
    PROVE  RightEntries(WithGroup(g)) /\ WholeEntries(WithGroup(g))
<1>. DEFINE r == WithGroup(g)
            c == Len(consumed)
            L == Len(log)
            t == g.total
<1>1. /\ Joined(g) = m
      /\ t \in Nat \ {0} /\ m + t <= L
      /\ \A i \in m + 1 .. m + t :
            log[i].ch = 2 /\ log[i].ok /\ log[i].msg = m /\ log[i].len = t
  BY CompleteMessage
<1>2. c \in Nat /\ L \in Nat /\ DOMAIN log = 1 .. L /\ L - c <= WireMod
      /\ WireMod \in Nat /\ c <= m
  <2>1. log \in Seq(Packets) /\ consumed \in Seq(Entries)
    BY DEF TypeOK
  <2>. QED  BY <2>1, Constants, LinkAssumption DEF History, Sizes
<1>3. g.first = Wire(m)
  BY DEF Collects
<1>4. GroupSeqs(g) = {Wire(m + j) : j \in 0 .. t - 1}
  <2>1. \A j \in 0 .. t - 1 : WrapAdd(Wire(m), j) = Wire(m + j)
    BY <1>1, WireAdd
  <2>. QED  BY <1>3, <2>1 DEF GroupSeqs
<1>5. \A i \in DOMAIN log : log[i].n = i - 1
  BY DEF Numbered
<1>6. /\ r[Wire(m)] = m
      /\ \A s \in SeqNos : s # Wire(m) /\ s \in GroupSeqs(g) => r[s] = Placeholder
      /\ \A s \in SeqNos : s # Wire(m) /\ s \notin GroupSeqs(g) => r[s] = reorder[s]
  <2>1. Wire(m) \in SeqNos
    BY WireType
  <2>. QED  BY <1>1, <1>3, <2>1 DEF WithGroup
<1>7. Wire(m) \in GroupSeqs(g)
  <2>1. 0 \in 0 .. t - 1 /\ m + 0 = m
    BY <1>1
  <2>. QED  BY <1>4, <2>1
<1>8. \A s \in GroupSeqs(g) : s \in SeqNos => r[s] # Absent
  BY <1>6 DEF Absent, Placeholder
<1>. HIDE DEF r, c, L, t
<1>9. RightEntries(r)
  <2>1. ASSUME NEW s \in SeqNos, r[s] # Absent
        PROVE  \E i \in c + 1 .. L : s = Wire(i - 1) /\ log[i].ch = 2 /\ log[i].ok
                                     /\ r[s] = EntryOf(i)
    <3>1. CASE s \in GroupSeqs(g)
      <4>1. PICK j \in 0 .. t - 1 : s = Wire(m + j)
        BY <1>4, <3>1
      <4>. DEFINE i == m + j + 1
      <4>2. /\ i \in m + 1 .. m + t /\ i \in c + 1 .. L /\ i \in DOMAIN log
            /\ i - 1 = m + j /\ (i = m + 1 <=> j = 0) /\ i \in Nat
        BY <1>1, <1>2, <4>1
      <4>. HIDE DEF i
      <4>3. log[i].ch = 2 /\ log[i].ok /\ log[i].msg = m /\ log[i].n = m + j
        BY <1>1, <1>5, <4>2
      <4>4. r[s] = EntryOf(i)
        <5>1. CASE j = 0
          <6>1. s = Wire(m) /\ m + j = m
            BY <4>1, <5>1
          <6>. QED  BY <1>6, <4>3, <6>1 DEF EntryOf
        <5>2. CASE j # 0
          <6>1. s # Wire(m)
            <7>1. -WireMod < (m + j) - m /\ (m + j) - m < WireMod /\ m + j # m
                  /\ m + j \in Int /\ m \in Int
              BY <1>1, <1>2, <4>1, <5>2
            <7>. QED  BY <4>1, <7>1, WireUnique
          <6>2. m # m + j
            BY <4>1, <5>2
          <6>. QED  BY <1>6, <3>1, <4>3, <6>1, <6>2 DEF EntryOf
        <5>. QED  BY <5>1, <5>2
      <4>. QED  BY <4>1, <4>2, <4>3, <4>4
    <3>2. CASE s \notin GroupSeqs(g)
      <4>1. r[s] = reorder[s]
        BY <1>6, <1>7, <3>2
      <4>. QED  BY <2>1, <4>1 DEF RightEntries, c, L
    <3>. QED  BY <3>1, <3>2
  <2>. QED  BY <2>1 DEF RightEntries, c, L
<1>10. WholeEntries(r)
  <2>1. ASSUME NEW i \in c + 1 .. L - 1, r[Wire(i - 1)] # Absent,
               log[i + 1].msg = log[i].msg
        PROVE  r[Wire(i)] # Absent
    <3>1. i \in Int /\ Wire(i - 1) \in SeqNos /\ Wire(i) \in SeqNos
          /\ i + 1 \in DOMAIN log
      BY <1>2, WireType
    <3>2. CASE Wire(i) \in GroupSeqs(g)
      BY <1>8, <3>1, <3>2
    <3>3. CASE Wire(i) \notin GroupSeqs(g) /\ Wire(i - 1) \in GroupSeqs(g)
      <4>1. PICK j \in 0 .. t - 1 : Wire(i - 1) = Wire(m + j)
        BY <1>4, <3>3
      <4>2. -WireMod < (i - 1) - (m + j) /\ (i - 1) - (m + j) < WireMod
            /\ i - 1 \in Int /\ m + j \in Int
        BY <1>1, <1>2, <3>1, <4>1
      <4>3. i - 1 = m + j
        BY <4>1, <4>2, WireUnique
      <4>4. i \in m + 1 .. m + t
        BY <1>1, <3>1, <4>1, <4>3
      <4>5. log[i + 1].msg = m /\ log[i].len = t
        BY <1>1, <2>1, <4>4
      <4>6. /\ i + 1 <= log[i + 1].msg + log[i + 1].len
            /\ \A l \in log[i + 1].msg + 1 .. i + 1 : log[l].len = log[i + 1].len
        BY <3>1 DEF LogShape
      <4>7. i \in m + 1 .. i + 1
        BY <3>1, <4>4
      <4>8. i + 1 <= m + t
        BY <4>5, <4>6, <4>7
      <4>9. j + 1 \in 0 .. t - 1 /\ m + (j + 1) = i
        BY <1>1, <3>1, <4>1, <4>3, <4>8
      <4>. QED  BY <1>4, <3>3, <4>9
    <3>4. CASE Wire(i) \notin GroupSeqs(g) /\ Wire(i - 1) \notin GroupSeqs(g)
      <4>1. reorder[Wire(i - 1)] # Absent
        BY <1>6, <1>7, <2>1, <3>1, <3>4
      <4>2. reorder[Wire(i)] # Absent
        BY <2>1, <4>1 DEF WholeEntries, c, L
      <4>. QED  BY <1>6, <1>7, <3>1, <3>4, <4>2
    <3>. QED  BY <3>2, <3>3, <3>4
  <2>. QED  BY <2>1 DEF WholeEntries, c, L
<1>. QED  BY <1>9, <1>10 DEF r

\* handle_ch2: whatever the packet is, the receiver stays right.
LEMMA HandleCh2Receiver ==
    ASSUME TypeOK, TypeOK', Numbered, Sizes, Fresh, Sender, Receiver,
           NEW p \in net, p.ch = 2, HandleCh2(p), UNCHANGED log,
           p \in Unacked \/ Len(log) - p.n <= Lifetime
    PROVE  Receiver'
<1>1. LogShape /\ QueueShape /\ History /\ RightEntries(reorder)
      /\ WholeEntries(reorder) /\ Groups
  BY DEF Sender, Receiver
<1>2. Len(log) \in Nat /\ Len(log) - Len(consumed) <= Window
  BY <1>1 DEF TypeOK, History
<1>3. ASSUME UNCHANGED <<ch2Next, reorder, deliveredSeqs, consumed>>,
             \A g \in SeqNos : pending'[g] \in {pending[g], NoGroup}
      PROVE  Receiver'
  BY <1>1, <1>2, <1>3, ReceiverGrows
<1>4. CASE UNCHANGED ch2Vars
  BY <1>3, <1>4 DEF ch2Vars
<1>5. CASE ~IsOldCh2(p) /\ ~p.frag
           /\ DeliverCh2InOrder([reorder EXCEPT ![p.seq] = p.msg])
           /\ UNCHANGED <<pending, completed>>
  <2>. DEFINE r == [reorder EXCEPT ![p.seq] = p.msg]
  <2>1. r \in [SeqNos -> Entries] /\ RightEntries(r) /\ WholeEntries(r)
    BY <1>1, <1>5, PlainEntries
  <2>2. DeliverCh2InOrder(r)
    BY <1>5
  <2>. HIDE DEF r
  <2>3. History' /\ RightEntries(reorder)' /\ WholeEntries(reorder)'
    BY <1>1, <2>1, <2>2, DeliverInOrder
  <2>4. Groups'
    BY <1>1, <1>5 DEF Groups
  <2>. QED  BY <2>3, <2>4 DEF Receiver
<1>6. CASE ~IsOldCh2(p) /\ p.frag /\ PushFragment(p) /\ ~UNCHANGED ch2Vars
  <2>. DEFINE g == GroupWith(p)
  <2>1. WellFormed(p)
    BY <1>6 DEF PushFragment
  <2>2. p \in Packets /\ p.gid \in SeqNos
    BY NetPacket DEF Packets
  <2>3. IsGroup(g) /\ g # NoGroup
    BY <2>1, <2>2, GroupWithType
  <2>4. Collects(log, g, p.msg) /\ p.msg \in Nat /\ Len(consumed) <= p.msg
    BY <1>1, <1>6, <2>1, GroupCollects, NewMessage
  <2>5. DOMAIN pending = SeqNos
    BY DEF TypeOK
  <2>. HIDE DEF g
  <2>6. CASE Complete(g)
    <3>1. /\ pending' = [pending EXCEPT ![p.gid] = NoGroup]
          /\ DeliverCh2InOrder(WithGroup(g))
      BY <1>6, <2>6 DEF PushFragment, g
    <3>2. WithGroup(g) \in [SeqNos -> Entries]
      BY <2>3, WithGroupType
    <3>3. RightEntries(WithGroup(g)) /\ WholeEntries(WithGroup(g))
      BY <1>1, <2>3, <2>4, <2>6, GroupEntries
    <3>4. History' /\ RightEntries(reorder)' /\ WholeEntries(reorder)'
      BY <1>1, <3>1, <3>2, <3>3, DeliverInOrder
    <3>5. Groups'
      BY <1>1, <2>2, <2>5, <3>1 DEF Groups
    <3>. QED  BY <3>4, <3>5 DEF Receiver
  <2>7. CASE ~Complete(g)
    <3>1. /\ pending' = [pending EXCEPT ![p.gid] = g]
          /\ UNCHANGED <<ch2Next, reorder, deliveredSeqs, consumed>>
      BY <1>6, <2>7 DEF PushFragment, g
    <3>2. Groups'
      BY <1>1, <2>2, <2>4, <2>5, <3>1 DEF Groups, GroupIn
    <3>3. History' /\ RightEntries(reorder)' /\ WholeEntries(reorder)'
      BY <1>1, <3>1 DEF History, RightEntries, WholeEntries, EntryOf
    <3>. QED  BY <3>2, <3>3 DEF Receiver
  <2>. QED  BY <2>6, <2>7
<1>. QED  BY <1>4, <1>5, <1>6 DEF HandleCh2

LEMMA ReceiverStep ==
    /\ TypeOK /\ TypeOK' /\ Numbered /\ Sizes /\ Fresh /\ Sender /\ Receiver
    /\ [Next]_vars
    => Receiver'
<1>. SUFFICES ASSUME TypeOK, TypeOK', Numbered, Sizes, Fresh, Sender, Receiver,
                     [Next]_vars
              PROVE  Receiver'
  OBVIOUS
<1>1. LogShape /\ Len(log) \in Nat /\ Len(log) - Len(consumed) <= Window
  BY DEF Sender, Receiver, History, TypeOK
<1>2. ASSUME UNCHANGED <<log, ch2Next, reorder, deliveredSeqs, consumed>>,
             \A g \in SeqNos : pending'[g] \in {pending[g], NoGroup}
      PROVE  Receiver'
  BY <1>1, <1>2, ReceiverGrows
<1>3. ASSUME UNCHANGED <<log, ch2Vars>> PROVE Receiver'
  BY <1>2, <1>3 DEF ch2Vars
<1>4. ASSUME NEW ch \in Channels, NEW parts \in GroupSizes \cup {1},
             PackOutbound(ch, parts)
      PROVE  Receiver'
  <2>. DEFINE used == Taken(ch, parts)
  <2>1. /\ used \in 1 .. parts /\ Len(log') = Len(log) + used
        /\ \A i \in 1 .. Len(log) : log'[i] = log[i]
        /\ \A i \in Len(log) + 1 .. Len(log) + used :
              log'[i] = NewPacket(ch, parts, i - Len(log) - 1, parts <= Room(ch))
    BY <1>4, PackOutboundLog
  <2>2. parts \in Nat
    BY SendArguments
  <2>3. UNCHANGED ch2Vars /\ Len(log) + used - Len(consumed) <= Window
    BY <1>4 DEF PackOutbound, Taken
  <2>. HIDE DEF used
  <2>4. Len(log) + 1 \in Len(log) + 1 .. Len(log) + used
    BY <1>1, <2>1, <2>2
  <2>5. log'[Len(log) + 1].msg = Len(log)
    <3>. DEFINE i == Len(log) + 1
    <3>1. log'[i] = NewPacket(ch, parts, i - Len(log) - 1, parts <= Room(ch))
      BY <2>1, <2>4
    <3>2. \A j, ok : NewPacket(ch, parts, j, ok).msg = Len(log)
      BY DEF NewPacket
    <3>. HIDE DEF i
    <3>3. log'[i].msg = Len(log)
      BY <3>1, <3>2
    <3>. QED  BY <3>3 DEF i
  <2>6. Len(log) <= Len(log') /\ Len(log') - Len(consumed) <= Window
    BY <1>1, <2>1, <2>2, <2>3
  <2>. QED  BY <1>1, <2>1, <2>3, <2>5, <2>6, ReceiverGrows DEF ch2Vars
<1>5. ASSUME NEW a \in ackNet, OnAck(a) PROVE Receiver'
  BY <1>3, <1>5 DEF OnAck
<1>6. ASSUME NEW due \in SUBSET Unacked, MaintainReliable(due) PROVE Receiver'
  BY <1>3, <1>6 DEF MaintainReliable, senderVars
<1>7. ASSUME NEW p \in net, HandleSessionPacket(p) PROVE Receiver'
  <2>1. UNCHANGED log /\ (p \in Unacked \/ Len(log) - p.n <= Lifetime)
    BY <1>7 DEF HandleSessionPacket, senderVars
  <2>2. p.ch \in 0 .. 3
    BY NetPacket DEF Packets
  <2>3. CASE p.ch = 2
    <3>1. HandleCh2(p)
      BY <1>7, <2>3 DEF HandleSessionPacket
    <3>. QED  BY <2>1, <2>3, <3>1, HandleCh2Receiver
  <2>4. CASE p.ch # 2
    <3>1. UNCHANGED ch2Vars
      BY <1>7, <2>2, <2>4 DEF HandleSessionPacket
    <3>. QED  BY <1>3, <2>1, <3>1
  <2>. QED  BY <2>3, <2>4
<1>8. ASSUME PiggybackAck PROVE Receiver'
  BY <1>3, <1>8 DEF PiggybackAck, senderVars
<1>9. ASSUME NEW g \in SeqNos, AssemblerCleanup(g) PROVE Receiver'
  <2>1. UNCHANGED <<log, ch2Next, reorder, deliveredSeqs, consumed>>
    BY <1>9 DEF AssemblerCleanup, senderVars
  <2>2. \A h \in SeqNos : pending'[h] \in {pending[h], NoGroup}
    BY <1>9 DEF AssemblerCleanup, TypeOK
  <2>. QED  BY <1>2, <2>1, <2>2
<1>10. ASSUME NetworkLoss PROVE Receiver'
  BY <1>3, <1>10 DEF NetworkLoss, senderVars
<1>11. CASE UNCHANGED vars
  BY <1>3, <1>11 DEF vars, senderVars
<1>. QED  BY <1>4, <1>5, <1>6, <1>7, <1>8, <1>9, <1>10, <1>11 DEF Next
-----------------------------------------------------------------------------
(* The theorems.                                                           *)

\* The start of a session.
LEMMA InitOrder == Sizes /\ Init => Sender /\ Receiver
<1>. SUFFICES ASSUME Sizes, Init PROVE Sender /\ Receiver
  OBVIOUS
<1>1. Wire(0) = 0
  <2>1. 0 % WireMod = 0
    BY Constants
  <2>. QED  BY <2>1 DEF Wire
<1>2. LogShape
  BY DEF Init, LogShape
<1>3. QueueShape
  BY DEF Init, QueueShape, Kept, Reliable, ToSet
<1>4. History
  BY <1>1, Constants, LinkAssumption DEF Init, History
<1>5. RightEntries(reorder) /\ WholeEntries(reorder)
  BY WireType DEF Init, RightEntries, WholeEntries
<1>6. Groups
  BY DEF Init, Groups
<1>. QED  BY <1>2, <1>3, <1>4, <1>5, <1>6 DEF Sender, Receiver

\* What the invariant says of the link.
LEMMA ReceiverOrder == Receiver => InOrder /\ ReorderIsFuture
  BY DEF Receiver, History, RightEntries, InOrder, ReorderIsFuture

\* deliver_ch2_in_order and the FragmentAssembler hand on what the sender
\* accepted, whole and in its order, for every size of the queues and of the
\* sequence space, across its turns.
THEOREM Ch2Ordered == Sizes => (Spec /\ []Fresh => []InOrder)
<1>. SUFFICES ASSUME Sizes PROVE Spec /\ []Fresh => []InOrder
  OBVIOUS
<1>1. Init => Sender /\ Receiver
  BY InitOrder
<1>2. TypeOK /\ Numbered /\ Fresh /\ Sender /\ Receiver /\ [Next]_vars
      => Sender' /\ Receiver'
  BY NextType, SenderStep, ReceiverStep
<1>3. Receiver => InOrder
  BY ReceiverOrder
<1>. QED  BY <1>1, <1>2, <1>3, TypeCorrect, AlwaysNumbered, PTL DEF Spec

\* Nothing stale is ever in the reorder buffer, under the same conditions.
THEOREM ReorderSound == Sizes => (Spec /\ []Fresh => []ReorderIsFuture)
<1>. SUFFICES ASSUME Sizes PROVE Spec /\ []Fresh => []ReorderIsFuture
  OBVIOUS
<1>1. Init => Sender /\ Receiver
  BY InitOrder
<1>2. TypeOK /\ Numbered /\ Fresh /\ Sender /\ Receiver /\ [Next]_vars
      => Sender' /\ Receiver'
  BY NextType, SenderStep, ReceiverStep
<1>3. Receiver => ReorderIsFuture
  BY ReceiverOrder
<1>. QED  BY <1>1, <1>2, <1>3, TypeCorrect, AlwaysNumbered, PTL DEF Spec
-----------------------------------------------------------------------------
(* When nothing is older than a turn of the space.                         *)

\* In a session that ends before its numbers repeat nothing is that old.
LEMMA OneTurnFresh == MaxSeqs <= WireMod => (Spec => []Fresh)
<1>. SUFFICES ASSUME MaxSeqs <= WireMod PROVE Spec => []Fresh
  OBVIOUS
<1>. DEFINE Short == Len(log) <= MaxSeqs
<1>1. Init => Short
  BY LinkAssumption DEF Init
<1>2. TypeOK /\ Short /\ [Next]_vars => Short'
  <2>. SUFFICES ASSUME TypeOK, Short, [Next]_vars PROVE Short'
    OBVIOUS
  <2>1. ASSUME NEW ch \in Channels, NEW parts \in GroupSizes \cup {1},
               PackOutbound(ch, parts)
        PROVE  Short'
    BY <2>1, PackOutboundLog DEF PackOutbound, Taken
  <2>2. ASSUME UNCHANGED log PROVE Short'
    BY <2>2
  <2>3. ASSUME NEW a \in ackNet, OnAck(a) PROVE UNCHANGED log
    BY <2>3 DEF OnAck
  <2>4. ASSUME NEW due \in SUBSET Unacked, MaintainReliable(due) PROVE UNCHANGED log
    BY <2>4 DEF MaintainReliable, senderVars
  <2>5. ASSUME NEW p \in net, HandleSessionPacket(p) PROVE UNCHANGED log
    BY <2>5 DEF HandleSessionPacket, senderVars
  <2>6. ASSUME PiggybackAck PROVE UNCHANGED log
    BY <2>6 DEF PiggybackAck, senderVars
  <2>7. ASSUME NEW g \in SeqNos, AssemblerCleanup(g) PROVE UNCHANGED log
    BY <2>7 DEF AssemblerCleanup, senderVars
  <2>8. ASSUME NetworkLoss PROVE UNCHANGED log
    BY <2>8 DEF NetworkLoss, senderVars
  <2>9. CASE UNCHANGED vars
    BY <2>2, <2>9 DEF vars, senderVars
  <2>. QED  BY <2>1, <2>2, <2>3, <2>4, <2>5, <2>6, <2>7, <2>8, <2>9 DEF Next
<1>3. TypeOK /\ Short => Fresh
  <2>. SUFFICES ASSUME TypeOK, Short, NEW g \in SeqNos, NEW i \in DOMAIN pending[g].parts
                PROVE  Len(log) - pending[g].parts[i].msg <= WireMod
    BY DEF Fresh
  <2>1. pending[g].parts[i] \in Chunks
    <3>1. IsGroup(pending[g]) /\ pending[g] # NoGroup
      BY DEF TypeOK, NoGroup
    <3>. QED  BY <3>1 DEF IsGroup
  <2>2. pending[g].parts[i].msg \in Nat
    BY <2>1 DEF Chunks
  <2>3. Len(log) \in Nat /\ MaxSeqs \in Nat /\ WireMod \in Nat
    BY LinkAssumption, Constants DEF TypeOK
  <2>. QED  BY <2>2, <2>3
<1>. QED  BY <1>1, <1>2, <1>3, TypeCorrect, PTL DEF Spec

\* Messages of one packet leave nothing to collect.
LEMMA UnfragmentedFresh == GroupSizes \subseteq {1} => (Spec => []Fresh)
<1>. SUFFICES ASSUME GroupSizes \subseteq {1} PROVE Spec => []Fresh
  OBVIOUS
<1>. DEFINE Whole == /\ \A i \in DOMAIN log : ~log[i].frag
                     /\ \A g \in SeqNos : pending[g] = NoGroup
<1>1. Init => Whole
  BY DEF Init
<1>2. TypeOK /\ Numbered /\ Whole /\ [Next]_vars => Whole'
  <2>. SUFFICES ASSUME TypeOK, Numbered, Whole, [Next]_vars PROVE Whole'
    OBVIOUS
  <2>1. ASSUME NEW ch \in Channels, NEW parts \in GroupSizes \cup {1},
               PackOutbound(ch, parts)
        PROVE  Whole'
    <3>1. /\ DOMAIN log' = 1 .. Len(log) + Taken(ch, parts)
          /\ \A i \in 1 .. Len(log) : log'[i] = log[i]
          /\ \A i \in Len(log) + 1 .. Len(log) + Taken(ch, parts) :
                log'[i] = NewPacket(ch, parts, i - Len(log) - 1, parts <= Room(ch))
          /\ Taken(ch, parts) \in 1 .. parts /\ parts = 1
      BY <2>1, PackOutboundLog
    <3>2. \A j, ok : ~NewPacket(ch, parts, j, ok).frag
      <4>1. \A j, ok : NewPacket(ch, parts, j, ok).frag = (parts > 1)
        BY DEF NewPacket
      <4>2. ~(parts > 1)
        BY <3>1
      <4>. QED  BY <4>1, <4>2
    <3>3. Len(log) \in Nat /\ DOMAIN log = 1 .. Len(log)
      BY DEF TypeOK
    <3>4. \A i \in DOMAIN log' : i \in 1 .. Len(log) \/ i \in Len(log) + 1 .. Len(log) + Taken(ch, parts)
      BY <3>1, <3>3
    <3>5. \A i \in DOMAIN log' : ~log'[i].frag
      BY <3>1, <3>2, <3>3, <3>4
    <3>6. UNCHANGED pending
      BY <2>1 DEF PackOutbound, ch2Vars
    <3>. QED  BY <3>5, <3>6
  <2>2. ASSUME UNCHANGED <<log, pending>> PROVE Whole'
    BY <2>2
  <2>3. ASSUME NEW a \in ackNet, OnAck(a) PROVE UNCHANGED <<log, pending>>
    BY <2>3 DEF OnAck, ch2Vars
  <2>4. ASSUME NEW due \in SUBSET Unacked, MaintainReliable(due)
        PROVE  UNCHANGED <<log, pending>>
    BY <2>4 DEF MaintainReliable, senderVars, ch2Vars
  <2>5. ASSUME NEW p \in net, HandleSessionPacket(p) PROVE UNCHANGED <<log, pending>>
    <3>1. ~p.frag /\ p.ch \in 0 .. 3
      BY NetPacket DEF Packets
    <3>2. UNCHANGED ch2Vars \/ HandleCh2(p)
      BY <2>5, <3>1 DEF HandleSessionPacket
    <3>3. UNCHANGED pending
      BY <3>1, <3>2 DEF HandleCh2, ch2Vars
    <3>. QED  BY <2>5, <3>3 DEF HandleSessionPacket, senderVars
  <2>6. ASSUME PiggybackAck PROVE UNCHANGED <<log, pending>>
    BY <2>6 DEF PiggybackAck, senderVars, ch2Vars
  <2>7. ASSUME NEW g \in SeqNos, AssemblerCleanup(g) PROVE FALSE
    BY <2>7 DEF AssemblerCleanup
  <2>8. ASSUME NetworkLoss PROVE UNCHANGED <<log, pending>>
    BY <2>8 DEF NetworkLoss, senderVars, ch2Vars
  <2>9. CASE UNCHANGED vars
    BY <2>2, <2>9 DEF vars, senderVars, ch2Vars
  <2>. QED  BY <2>1, <2>2, <2>3, <2>4, <2>5, <2>6, <2>7, <2>8, <2>9 DEF Next
<1>3. Whole => Fresh
  BY DEF Fresh, NoGroup
<1>. QED  BY <1>1, <1>2, <1>3, TypeCorrect, AlwaysNumbered, PTL DEF Spec

\* A session that ends before its numbers repeat needs no timeout for its
\* order: what deliver_ch2_in_order promises holds from Spec alone.
THEOREM Ch2OrderedOneTurn ==
    Sizes /\ MaxSeqs <= WireMod => (Spec => []InOrder /\ []ReorderIsFuture)
  BY OneTurnFresh, Ch2Ordered, ReorderSound, PTL

\* Nor do messages of one packet, across any number of turns.
THEOREM Ch2OrderedUnfragmented ==
    Sizes /\ GroupSizes \subseteq {1} => (Spec => []InOrder /\ []ReorderIsFuture)
  BY UnfragmentedFresh, Ch2Ordered, ReorderSound, PTL
-----------------------------------------------------------------------------
(* Channel 2 is an ordered channel.                                        *)

\* u[n] has the messages among the first n of a sequence of entries.
Gathers(e, u) ==
    u = [n \in 0 .. Len(e) |->
            IF n = 0 THEN <<>>
            ELSE IF e[n] = Placeholder THEN u[n - 1] ELSE Append(u[n - 1], e[n])]

\* Induction up to N, on the set of numbers for which something holds.
LEMMA StepByStep ==
    ASSUME NEW N \in Nat, NEW S, 0 \in S, \A n \in 1 .. N : n - 1 \in S => n \in S
    PROVE  \A n \in 0 .. N : n \in S
<1>. DEFINE B == {n \in 0 .. N : n \notin S}
<1>. SUFFICES ASSUME B # {} PROVE FALSE
  OBVIOUS
<1>1. B \in SUBSET Nat
  OBVIOUS
<1>2. PICK m \in B : \A x \in B : m <= x
  <2>. HIDE DEF B
  <2>. QED  BY <1>1, MinNat
<1>3. m \in 1 .. N
  <2>1. m \in 0 .. N /\ m # 0
    OBVIOUS
  <2>. QED  BY ONLY <2>1, N \in Nat
<1>4. m - 1 \notin B /\ m - 1 \in 0 .. N
  <2>1. m - 1 \in 0 .. N /\ ~(m <= m - 1)
    BY ONLY <1>3, N \in Nat
  <2>. QED  BY <1>2, <2>1
<1>5. m - 1 \in S
  BY <1>4
<1>. QED  BY <1>3, <1>5

\* The messages of a sequence of entries are a function of where it ends.
LEMMA MessagesAre ==
    ASSUME NEW e, Len(e) \in Nat, \A i \in 1 .. Len(e) : e[i] \in Nat \cup {Placeholder}
    PROVE  \E u \in [0 .. Len(e) -> Seq(Nat)] : Gathers(e, u) /\ MessagesOf(e) = u[Len(e)]
<1>. DEFINE Next1(n, s) == IF e[n] = Placeholder THEN s ELSE Append(s, e[n])
            Upto(m, u) == u = [n \in 0 .. m |-> IF n = 0 THEN <<>> ELSE Next1(n, u[n - 1])]
<1>1. ASSUME NEW n \in 1 .. Len(e), NEW s \in Seq(Nat) PROVE Next1(n, s) \in Seq(Nat)
  OBVIOUS
<1>2. PICK S : S = {m \in 0 .. Len(e) : \E u \in [0 .. m -> Seq(Nat)] : Upto(m, u)}
  OBVIOUS
<1>3. 0 \in S
  <2>1. PICK u : u = [n \in 0 .. 0 |-> <<>>]
    OBVIOUS
  <2>2. u \in [0 .. 0 -> Seq(Nat)] /\ Upto(0, u)
    BY <2>1
  <2>3. 0 \in 0 .. Len(e)
    OBVIOUS
  <2>. HIDE DEF Upto
  <2>. QED  BY <1>2, <2>2, <2>3
<1>4. ASSUME NEW m \in 1 .. Len(e), m - 1 \in S PROVE m \in S
  <2>1. PICK u \in [0 .. m - 1 -> Seq(Nat)] : Upto(m - 1, u)
    BY <1>2, <1>4
  <2>2. \A n \in 0 .. m - 1 : u[n] = IF n = 0 THEN <<>> ELSE Next1(n, u[n - 1])
    BY <2>1
  <2>. HIDE DEF Next1
  <2>3. m \in 0 .. Len(e) /\ m \in 0 .. m /\ m # 0 /\ m - 1 \in 0 .. m - 1 /\ u[m - 1] \in Seq(Nat)
    OBVIOUS
  <2>4. PICK v : v = [n \in 0 .. m |-> IF n = m THEN Next1(m, u[m - 1]) ELSE u[n]]
    OBVIOUS
  <2>5. v[m] = Next1(m, u[m - 1]) /\ \A n \in 0 .. m - 1 : v[n] = u[n]
    BY <2>3, <2>4
  <2>6. v \in [0 .. m -> Seq(Nat)]
    <3>1. Next1(m, u[m - 1]) \in Seq(Nat)
      BY <1>1, <2>3
    <3>2. ASSUME NEW n \in 0 .. m, n # m PROVE u[n] \in Seq(Nat)
      <4>1. n \in 0 .. m - 1
        BY <3>2
      <4>. QED  BY <4>1
    <3>. QED  BY <2>4, <3>1, <3>2
  <2>7. ASSUME NEW n \in 0 .. m
        PROVE  v[n] = IF n = 0 THEN <<>> ELSE Next1(n, v[n - 1])
    <3>1. CASE n = m
      BY <2>3, <2>5, <3>1
    <3>2. CASE n # m
      <4>1. n \in 0 .. m - 1 /\ (n # 0 => n - 1 \in 0 .. m - 1)
        BY <3>2
      <4>. QED  BY <2>2, <2>5, <4>1
    <3>. QED  BY <3>1, <3>2
  <2>8. Upto(m, v)
    BY <2>4, <2>7
  <2>. QED  BY <1>2, <2>3, <2>6, <2>8
<1>5. Len(e) \in S
  <2>1. \A m \in 1 .. Len(e) : m - 1 \in S => m \in S
    BY <1>4
  <2>2. \A m \in 0 .. Len(e) : m \in S
    BY ONLY Len(e) \in Nat, <1>3, <2>1, StepByStep
  <2>. QED  BY <2>2
<1>6. \E u : Gathers(e, u)
  BY <1>2, <1>5 DEF Gathers
<1>7. \E u : Gathers(e, u) /\ MessagesOf(e) = u[Len(e)]
  BY <1>6 DEF Gathers, MessagesOf
<1>8. PICK u : Gathers(e, u) /\ MessagesOf(e) = u[Len(e)]
  BY <1>7
<1>9. \A n \in 0 .. Len(e) : u[n] = IF n = 0 THEN <<>> ELSE Next1(n, u[n - 1])
  BY <1>8 DEF Gathers
<1>10. \A n \in 0 .. Len(e) : u[n] \in Seq(Nat)
  <2>1. PICK T : T = {n \in 0 .. Len(e) : u[n] \in Seq(Nat)}
    OBVIOUS
  <2>2. 0 \in T
    <3>1. 0 \in 0 .. Len(e)
      OBVIOUS
    <3>2. u[0] = <<>>
      BY <1>9, <3>1
    <3>3. u[0] \in Seq(Nat)
      BY <3>2
    <3>. QED  BY <2>1, <3>1, <3>3
  <2>3. ASSUME NEW n \in 1 .. Len(e), n - 1 \in T PROVE n \in T
    <3>1. u[n - 1] \in Seq(Nat) /\ n \in 0 .. Len(e) /\ n # 0
      BY <2>1, <2>3
    <3>2. u[n] = Next1(n, u[n - 1])
      BY <1>9, <3>1
    <3>. HIDE DEF Next1
    <3>3. u[n] \in Seq(Nat)
      BY <1>1, <3>1, <3>2
    <3>. QED  BY <2>1, <3>1, <3>3
  <2>4. \A n \in 1 .. Len(e) : n - 1 \in T => n \in T
    BY <2>3
  <2>5. \A n \in 0 .. Len(e) : n \in T
    BY ONLY Len(e) \in Nat, <2>2, <2>4, StepByStep
  <2>. QED  BY <2>1, <2>5
<1>11. u \in [0 .. Len(e) -> Seq(Nat)]
  BY <1>8, <1>10 DEF Gathers
<1>. QED  BY <1>8, <1>11

\* Entries that are the beginning of others, and the messages in both.
Begins(e, f) == Len(e) <= Len(f) /\ \A i \in 1 .. Len(e) : e[i] = f[i]

AreEntries(e) == Len(e) \in Nat /\ \A i \in 1 .. Len(e) : e[i] \in Nat \cup {Placeholder}

LEMMA MessagesOfBoth ==
    ASSUME NEW e, NEW f, AreEntries(e), AreEntries(f), Begins(e, f)
    PROVE  \E u \in [0 .. Len(f) -> Seq(Nat)] :
              /\ MessagesOf(e) = u[Len(e)] /\ MessagesOf(f) = u[Len(f)]
              /\ \A n \in 1 .. Len(f) : u[n] = IF f[n] = Placeholder THEN u[n - 1]
                                               ELSE Append(u[n - 1], f[n])
<1>1. PICK v \in [0 .. Len(e) -> Seq(Nat)] : Gathers(e, v) /\ MessagesOf(e) = v[Len(e)]
  BY MessagesAre DEF AreEntries
<1>2. PICK u \in [0 .. Len(f) -> Seq(Nat)] : Gathers(f, u) /\ MessagesOf(f) = u[Len(f)]
  BY MessagesAre DEF AreEntries
<1>3. PICK N : N = Len(e)
  OBVIOUS
<1>4. PICK M : M = Len(f)
  OBVIOUS
<1>5. N \in Nat /\ M \in Nat /\ N <= M /\ \A i \in 1 .. N : e[i] = f[i]
  BY <1>3, <1>4 DEF AreEntries, Begins
<1>6. \A n \in 0 .. N : v[n] = IF n = 0 THEN <<>> ELSE IF e[n] = Placeholder
                               THEN v[n - 1] ELSE Append(v[n - 1], e[n])
  BY <1>1, <1>3 DEF Gathers
<1>7. \A n \in 0 .. M : u[n] = IF n = 0 THEN <<>> ELSE IF f[n] = Placeholder
                               THEN u[n - 1] ELSE Append(u[n - 1], f[n])
  BY <1>2, <1>4 DEF Gathers
<1>8. PICK S : S = {n \in 0 .. N : v[n] = u[n]}
  OBVIOUS
<1>9. 0 \in S
  <2>1. 0 \in 0 .. N /\ 0 \in 0 .. M
    BY <1>5
  <2>2. v[0] = u[0]
    BY <1>6, <1>7, <2>1
  <2>. QED  BY <1>8, <2>1, <2>2
<1>10. ASSUME NEW n \in 1 .. N, n - 1 \in S PROVE n \in S
  <2>1. n \in 0 .. N /\ n \in 0 .. M /\ n # 0 /\ v[n - 1] = u[n - 1] /\ e[n] = f[n]
    BY <1>5, <1>8, <1>10
  <2>2. v[n] = u[n]
    BY <1>6, <1>7, <2>1
  <2>. QED  BY <1>8, <2>1, <2>2
<1>11. N \in 0 .. N /\ \A n \in 0 .. N : n \in S
  <2>1. \A n \in 1 .. N : n - 1 \in S => n \in S
    BY <1>10
  <2>2. N \in Nat
    BY <1>5
  <2>. QED  BY ONLY <2>2, <1>9, <2>1, StepByStep
<1>12. MessagesOf(e) = u[N]
  BY <1>1, <1>3, <1>8, <1>11
<1>13. \A n \in 1 .. M : u[n] = IF f[n] = Placeholder THEN u[n - 1]
                                ELSE Append(u[n - 1], f[n])
  <2>1. ASSUME NEW n \in 1 .. M PROVE n \in 0 .. M /\ n # 0
    BY <1>5
  <2>. QED  BY <1>7, <2>1
<1>. QED  BY <1>2, <1>3, <1>4, <1>12, <1>13

\* More entries have the same messages, and perhaps others after them.
LEMMA MessagesGrow ==
    ASSUME NEW e, NEW f, AreEntries(e), AreEntries(f), Begins(e, f)
    PROVE  /\ MessagesOf(e) \in Seq(Nat) /\ MessagesOf(f) \in Seq(Nat)
           /\ Begins(MessagesOf(e), MessagesOf(f))
<1>1. PICK u \in [0 .. Len(f) -> Seq(Nat)] :
              /\ MessagesOf(e) = u[Len(e)] /\ MessagesOf(f) = u[Len(f)]
              /\ \A n \in 1 .. Len(f) : u[n] = IF f[n] = Placeholder THEN u[n - 1]
                                               ELSE Append(u[n - 1], f[n])
  BY MessagesOfBoth
<1>2. PICK N : N = Len(e)
  OBVIOUS
<1>3. PICK M : M = Len(f)
  OBVIOUS
<1>4. N \in Nat /\ M \in Nat /\ N <= M /\ \A n \in 1 .. M : f[n] \in Nat \cup {Placeholder}
  BY <1>2, <1>3 DEF AreEntries, Begins
<1>5. /\ u \in [0 .. M -> Seq(Nat)] /\ MessagesOf(e) = u[N] /\ MessagesOf(f) = u[M]
      /\ \A n \in 1 .. M : u[n] = IF f[n] = Placeholder THEN u[n - 1]
                                  ELSE Append(u[n - 1], f[n])
  BY <1>1, <1>2, <1>3
<1>6. PICK S : S = {d \in 0 .. M - N : Begins(u[N], u[N + d])}
  OBVIOUS
<1>7. 0 \in S
  <2>1. 0 \in 0 .. M - N /\ N + 0 = N /\ N \in 0 .. M
    BY <1>4
  <2>2. u[N] \in Seq(Nat)
    BY <1>5, <2>1
  <2>3. Begins(u[N], u[N])
    BY <2>2 DEF Begins
  <2>. QED  BY <1>6, <2>1, <2>3
<1>8. ASSUME NEW d \in 1 .. M - N, d - 1 \in S PROVE d \in S
  <2>1. PICK n : n = N + d
    OBVIOUS
  <2>2. /\ n \in 1 .. M /\ n - 1 \in 0 .. M /\ n \in 0 .. M /\ N \in 0 .. M
        /\ N + (d - 1) = n - 1 /\ d \in 0 .. M - N
    BY ONLY <1>4, <2>1, <1>8
  <2>3. Begins(u[N], u[n - 1])
    BY <1>6, <1>8, <2>2
  <2>4. u[N] \in Seq(Nat) /\ u[n - 1] \in Seq(Nat)
    BY <1>5, <2>2
  <2>5. Begins(u[N], u[n])
    <3>1. CASE f[n] = Placeholder
      <4>1. u[n] = u[n - 1]
        BY <1>5, <2>2, <3>1
      <4>. QED  BY <2>3, <4>1
    <3>2. CASE f[n] # Placeholder
      <4>1. u[n] = Append(u[n - 1], f[n]) /\ f[n] \in Nat
        BY <1>4, <1>5, <2>2, <3>2
      <4>2. /\ Len(u[n]) = Len(u[n - 1]) + 1 /\ Len(u[n - 1]) \in Nat
            /\ \A i \in 1 .. Len(u[n - 1]) : u[n][i] = u[n - 1][i]
        BY <2>4, <4>1
      <4>3. Len(u[N]) \in Nat
        BY <2>4
      <4>. QED  BY <2>3, <4>2, <4>3 DEF Begins
    <3>. QED  BY <3>1, <3>2
  <2>. QED  BY <1>6, <2>1, <2>2, <2>5
<1>9. \A d \in 0 .. M - N : d \in S
  <2>1. \A d \in 1 .. M - N : d - 1 \in S => d \in S
    BY <1>8
  <2>2. M - N \in Nat
    BY <1>4
  <2>. QED  BY ONLY <2>2, <1>7, <2>1, StepByStep
<1>10. Begins(u[N], u[M])
  <2>1. M - N \in 0 .. M - N /\ N + (M - N) = M
    BY <1>4
  <2>. QED  BY <1>6, <1>9, <2>1
<1>11. N \in 0 .. M /\ M \in 0 .. M
  BY <1>4
<1>. QED  BY <1>5, <1>10, <1>11

\* Placeholders add nothing to the messages.
LEMMA NoMessage ==
    ASSUME NEW e, NEW f, AreEntries(e), AreEntries(f), Begins(e, f),
           \A i \in Len(e) + 1 .. Len(f) : f[i] = Placeholder
    PROVE  MessagesOf(f) = MessagesOf(e)
<1>1. PICK u \in [0 .. Len(f) -> Seq(Nat)] :
              /\ MessagesOf(e) = u[Len(e)] /\ MessagesOf(f) = u[Len(f)]
              /\ \A n \in 1 .. Len(f) : u[n] = IF f[n] = Placeholder THEN u[n - 1]
                                               ELSE Append(u[n - 1], f[n])
  BY MessagesOfBoth
<1>2. PICK N : N = Len(e)
  OBVIOUS
<1>3. PICK M : M = Len(f)
  OBVIOUS
<1>4. /\ N \in Nat /\ M \in Nat /\ N <= M /\ \A n \in N + 1 .. M : f[n] = Placeholder
      /\ MessagesOf(e) = u[N] /\ MessagesOf(f) = u[M]
      /\ \A n \in 1 .. M : u[n] = IF f[n] = Placeholder THEN u[n - 1]
                                  ELSE Append(u[n - 1], f[n])
  BY <1>1, <1>2, <1>3 DEF AreEntries, Begins
<1>5. PICK S : S = {d \in 0 .. M - N : u[N + d] = u[N]}
  OBVIOUS
<1>6. 0 \in S
  <2>1. 0 \in 0 .. M - N /\ N + 0 = N
    BY <1>4
  <2>. QED  BY <1>5, <2>1
<1>7. ASSUME NEW d \in 1 .. M - N, d - 1 \in S PROVE d \in S
  <2>1. PICK n : n = N + d
    OBVIOUS
  <2>2. n \in 1 .. M /\ n \in N + 1 .. M /\ N + (d - 1) = n - 1 /\ d \in 0 .. M - N
    BY ONLY <1>4, <2>1, <1>7
  <2>3. u[n - 1] = u[N]
    BY <1>5, <1>7, <2>2
  <2>4. u[n] = u[n - 1]
    BY <1>4, <2>2
  <2>. QED  BY <1>5, <2>1, <2>2, <2>3, <2>4
<1>8. \A d \in 0 .. M - N : d \in S
  <2>1. \A d \in 1 .. M - N : d - 1 \in S => d \in S
    BY <1>7
  <2>2. M - N \in Nat
    BY <1>4
  <2>. QED  BY ONLY <2>2, <1>6, <2>1, StepByStep
<1>9. M - N \in 0 .. M - N /\ N + (M - N) = M
  BY <1>4
<1>. QED  BY <1>4, <1>5, <1>8, <1>9

\* One message and Placeholders add this message.
LEMMA OneMessage ==
    ASSUME NEW e, NEW f, AreEntries(e), AreEntries(f), Begins(e, f), Len(e) < Len(f),
           f[Len(e) + 1] # Placeholder,
           \A i \in Len(e) + 2 .. Len(f) : f[i] = Placeholder
    PROVE  MessagesOf(f) = Append(MessagesOf(e), f[Len(e) + 1])
<1>1. PICK N : N = Len(e)
  OBVIOUS
<1>2. PICK M : M = Len(f)
  OBVIOUS
<1>3. N \in Nat /\ M \in Nat /\ N < M /\ N + 1 \in 1 .. M /\ N + 1 \in Nat /\ N <= N + 1
  BY <1>1, <1>2 DEF AreEntries
<1>4. PICK g : g = [i \in 1 .. N + 1 |-> f[i]]
  OBVIOUS
<1>5. Len(g) = N + 1 /\ \A i \in 1 .. N + 1 : g[i] = f[i]
  BY <1>3, <1>4
<1>6. \A i \in 1 .. N + 1 : i \in 1 .. M
  BY <1>3
<1>7. AreEntries(g) /\ Begins(g, f)
  BY <1>2, <1>3, <1>5, <1>6 DEF AreEntries, Begins
<1>8. Begins(e, g)
  <2>1. \A i \in 1 .. N : e[i] = f[i] /\ i \in 1 .. N + 1
    BY <1>1, <1>3 DEF Begins
  <2>. QED  BY <1>1, <1>3, <1>5, <2>1 DEF Begins
<1>9. MessagesOf(f) = MessagesOf(g)
  <2>1. \A i \in Len(g) + 1 .. Len(f) : f[i] = Placeholder
    <3>1. Len(g) + 1 = Len(e) + 2
      BY <1>1, <1>3, <1>5
    <3>. QED  BY <3>1
  <2>. QED  BY <1>7, <2>1, NoMessage
<1>10. MessagesOf(g) = Append(MessagesOf(e), g[N + 1])
  <2>1. PICK u \in [0 .. Len(g) -> Seq(Nat)] :
              /\ MessagesOf(e) = u[Len(e)] /\ MessagesOf(g) = u[Len(g)]
              /\ \A n \in 1 .. Len(g) : u[n] = IF g[n] = Placeholder THEN u[n - 1]
                                               ELSE Append(u[n - 1], g[n])
    BY <1>7, <1>8, MessagesOfBoth
  <2>2. PICK n : n = N + 1
    OBVIOUS
  <2>3. n \in 1 .. Len(g) /\ n - 1 = N /\ n = Len(g) /\ N = Len(e)
    BY <1>1, <1>3, <1>5, <2>2
  <2>4. g[n] # Placeholder
    BY <1>1, <1>3, <1>5, <2>2
  <2>5. u[n] = Append(u[n - 1], g[n])
    BY <2>1, <2>3, <2>4, Zenon
  <2>6. MessagesOf(g) = Append(MessagesOf(e), g[n])
    BY <2>1, <2>3, <2>5, Zenon
  <2>. QED  BY <2>2, <2>6, Zenon
<1>. QED  BY <1>1, <1>3, <1>5, <1>9, <1>10

\* The entries that a history of the sender asks for.
SentIn(l) ==
    [i \in DOMAIN l |->
        IF l[i].ch = 2 /\ l[i].ok
        THEN IF l[i].msg = l[i].n THEN l[i].msg ELSE Placeholder
        ELSE Placeholder]

LEMMA AcceptedIs == Accepted = MessagesOf(SentIn(log)) /\ Accepted' = MessagesOf(SentIn(log'))
  BY DEF Accepted, SentIn, EntryOf

\* What was consumed is the beginning of what the sender's history asks for.
LEMMA ConsumedBegins ==
    ASSUME NEW l \in Seq(Packets), NEW c, Len(c) \in Nat, Len(c) <= Len(l),
           \A i \in 1 .. Len(c) :
              /\ l[i].ch = 2 /\ l[i].ok
              /\ c[i] = IF l[i].msg = l[i].n THEN l[i].msg ELSE Placeholder
    PROVE  /\ AreEntries(SentIn(l)) /\ AreEntries(c) /\ Begins(c, SentIn(l))
           /\ Len(SentIn(l)) = Len(l)
<1>1. PICK e : e = SentIn(l)
  OBVIOUS
<1>2. PICK N : N = Len(l)
  OBVIOUS
<1>3. N \in Nat /\ DOMAIN l = 1 .. N /\ Len(c) <= N
  BY <1>2
<1>4. ASSUME NEW i \in 1 .. N
      PROVE  /\ e[i] \in Nat \cup {Placeholder}
             /\ e[i] = IF l[i].ch = 2 /\ l[i].ok
                       THEN IF l[i].msg = l[i].n THEN l[i].msg ELSE Placeholder
                       ELSE Placeholder
  <2>1. l[i] \in Packets
    BY <1>2, <1>3
  <2>2. l[i].msg \in Nat
    BY <2>1 DEF Packets
  <2>. QED  BY <1>1, <1>3, <2>2 DEF SentIn
<1>5. Len(e) = N
  BY <1>1, <1>3 DEF SentIn
<1>6. \A i \in 1 .. Len(c) : i \in 1 .. N
  BY <1>3
<1>7. ASSUME NEW i \in 1 .. Len(c) PROVE c[i] = e[i] /\ c[i] \in Nat \cup {Placeholder}
  BY <1>4, <1>6
<1>8. AreEntries(e) /\ AreEntries(c)
  BY <1>3, <1>4, <1>5, <1>7 DEF AreEntries
<1>9. Begins(c, e)
  BY <1>3, <1>5, <1>7 DEF Begins
<1>. QED  BY <1>1, <1>2, <1>5, <1>8, <1>9

LEMMA PrefixIs ==
    ASSUME NEW s \in Seq(Nat), NEW t \in Seq(Nat), Begins(s, t)
    PROVE  Channel!IsPrefix(s, t)
<1>1. Len(s) \in Nat /\ Len(t) \in Nat /\ Len(s) <= Len(t) /\ \A i \in 1 .. Len(s) : s[i] = t[i]
  BY DEF Begins
<1>2. SubSeq(s, 1, Len(s)) = SubSeq(t, 1, Len(s))
  <2>1. SubSeq(s, 1, Len(s)) = [i \in 1 .. Len(s) |-> s[i]]
    BY <1>1
  <2>2. SubSeq(t, 1, Len(s)) = [i \in 1 .. Len(s) |-> t[i]]
    BY <1>1
  <2>. QED  BY <1>1, <2>1, <2>2
<1>. QED  BY <1>1, <1>2 DEF Channel!IsPrefix

\* deliver_ch2_in_order never takes back what was consumed.
LEMMA DeliveryGrows ==
    ASSUME TypeOK, NEW r, DeliverCh2InOrder(r)
    PROVE  Len(consumed) <= Len(consumed')
<1>1. PICK k : k = RunLength(r)
  OBVIOUS
<1>2. k \in Nat
  <2>1. k \in 0 .. WireMod
    BY <1>1, RunLengthIs
  <2>. QED  BY <2>1, Constants
<1>3. PICK out : out = [i \in 1 .. k |-> r[[j \in 1 .. k |-> WrapAdd(ch2Next, j - 1)][i]]]
  OBVIOUS
<1>4. consumed' = consumed \o out
  BY <1>1, <1>3 DEF DeliverCh2InOrder
<1>5. PICK T : T = Entries \cup {out[i] : i \in 1 .. k}
  OBVIOUS
<1>6. consumed \in Seq(Entries)
  BY DEF TypeOK
<1>7. consumed \in Seq(T) /\ out \in Seq(T)
  <2>1. \A i \in 1 .. k : out[i] \in T
    BY <1>5
  <2>2. out \in [1 .. k -> T]
    BY <1>3, <2>1
  <2>3. Entries \subseteq T
    BY <1>5
  <2>4. consumed \in Seq(T)
    BY ONLY <1>6, <2>3
  <2>. QED  BY <1>2, <2>2, <2>4
<1>8. Len(consumed') = Len(consumed) + Len(out) /\ Len(consumed) \in Nat /\ Len(out) \in Nat
  BY <1>4, <1>7, Concat
<1>. QED  BY <1>8

\* What Ch2 has consumed only grows.
LEMMA ConsumedGrows ==
    ASSUME TypeOK, [Next]_vars
    PROVE  Len(consumed) <= Len(consumed')
<1>1. Len(consumed) \in Nat
  BY DEF TypeOK
<1>2. ASSUME NEW p \in net, HandleSessionPacket(p), ~UNCHANGED consumed
      PROVE  Len(consumed) <= Len(consumed')
  <2>1. HandleCh2(p)
    BY <1>2 DEF HandleSessionPacket, ch2Vars
  <2>2. PICK r : DeliverCh2InOrder(r)
    BY <1>2, <2>1 DEF HandleCh2, PushFragment, ch2Vars
  <2>. QED  BY <2>2, DeliveryGrows
<1>3. ASSUME NEW ch \in Channels, NEW parts \in GroupSizes \cup {1},
             PackOutbound(ch, parts)
      PROVE  UNCHANGED consumed
  BY <1>3 DEF PackOutbound, ch2Vars
<1>4. ASSUME NEW a \in ackNet, OnAck(a) PROVE UNCHANGED consumed
  BY <1>4 DEF OnAck, ch2Vars
<1>5. ASSUME NEW due \in SUBSET Unacked, MaintainReliable(due) PROVE UNCHANGED consumed
  BY <1>5 DEF MaintainReliable, ch2Vars
<1>6. ASSUME PiggybackAck PROVE UNCHANGED consumed
  BY <1>6 DEF PiggybackAck, ch2Vars
<1>7. ASSUME NEW g \in SeqNos, AssemblerCleanup(g) PROVE UNCHANGED consumed
  BY <1>7 DEF AssemblerCleanup
<1>8. ASSUME NetworkLoss PROVE UNCHANGED consumed
  BY <1>8 DEF NetworkLoss, ch2Vars
<1>9. CASE UNCHANGED vars
  BY <1>1, <1>9 DEF vars, ch2Vars
<1>. QED  BY <1>1, <1>2, <1>3, <1>4, <1>5, <1>6, <1>7, <1>8, <1>9 DEF Next

\* What channel 2 consumes while the sender does nothing.
LEMMA HandOnStep ==
    ASSUME TypeOK, TypeOK', History, History', UNCHANGED log,
           Len(consumed) <= Len(consumed')
    PROVE  Channel!HandOn \/ UNCHANGED <<Accepted, HandedOn>>
<1>1. PICK l : l = log
  OBVIOUS
<1>2. PICK c : c = consumed
  OBVIOUS
<1>3. PICK d : d = consumed'
  OBVIOUS
<1>4. /\ l \in Seq(Packets) /\ Len(c) \in Nat /\ Len(d) \in Nat
      /\ DOMAIN c = 1 .. Len(c) /\ DOMAIN d = 1 .. Len(d)
  <2>1. log \in Seq(Packets) /\ consumed \in Seq(Entries) /\ consumed' \in Seq(Entries)
    BY DEF TypeOK
  <2>. QED  BY <1>1, <1>2, <1>3, <2>1
<1>5. Len(c) <= Len(l) /\ Len(d) <= Len(l) /\ Len(c) <= Len(d)
  BY <1>1, <1>2, <1>3 DEF History
<1>6. /\ \A i \in 1 .. Len(c) :
            /\ l[i].ch = 2 /\ l[i].ok
            /\ c[i] = IF l[i].msg = l[i].n THEN l[i].msg ELSE Placeholder
      /\ \A i \in 1 .. Len(d) :
            /\ l[i].ch = 2 /\ l[i].ok
            /\ d[i] = IF l[i].msg = l[i].n THEN l[i].msg ELSE Placeholder
  BY <1>1, <1>2, <1>3, <1>4 DEF History, EntryOf
<1>7. PICK e : e = SentIn(l)
  OBVIOUS
<1>8. AreEntries(e) /\ AreEntries(c) /\ AreEntries(d) /\ Begins(c, e) /\ Begins(d, e)
  BY <1>4, <1>5, <1>6, <1>7, ConsumedBegins
<1>9. Begins(c, d)
  BY <1>4, <1>5, <1>6 DEF Begins
<1>10. PICK a : a = MessagesOf(e)
  OBVIOUS
<1>11. PICK h : h = MessagesOf(c)
  OBVIOUS
<1>12. PICK g : g = MessagesOf(d)
  OBVIOUS
<1>13. /\ a \in Seq(Nat) /\ h \in Seq(Nat) /\ g \in Seq(Nat)
       /\ Begins(h, g) /\ Begins(g, a)
  BY <1>8, <1>9, <1>10, <1>11, <1>12, MessagesGrow
<1>14. Channel!IsPrefix(h, g) /\ Channel!IsPrefix(g, a)
  BY <1>13, PrefixIs
<1>15. Accepted = a /\ Accepted' = a /\ HandedOn = h /\ HandedOn' = g
  BY <1>1, <1>2, <1>3, <1>7, <1>10, <1>11, <1>12, AcceptedIs DEF HandedOn
<1>. QED  BY <1>14, <1>15 DEF Channel!HandOn

\* pack_outbound: a message is accepted when all of its parts are queued.
LEMMA AcceptStep ==
    ASSUME TypeOK, TypeOK', Numbered, Sizes, NEW ch \in Channels,
           NEW parts \in GroupSizes \cup {1}, PackOutbound(ch, parts)
    PROVE  Channel!Accept \/ UNCHANGED <<Accepted, HandedOn>>
<1>1. PICK l : l = log
  OBVIOUS
<1>2. PICK m : m = log'
  OBVIOUS
<1>3. PICK N : N = Len(log)
  OBVIOUS
<1>4. PICK M : M = Len(log')
  OBVIOUS
<1>5. l \in Seq(Packets) /\ m \in Seq(Packets) /\ N \in Nat /\ M \in Nat
  <2>1. log \in Seq(Packets) /\ log' \in Seq(Packets)
    BY DEF TypeOK
  <2>. QED  BY <1>1, <1>2, <1>3, <1>4, <2>1
<1>6. PICK used : used = Taken(ch, parts)
  OBVIOUS
<1>7. PICK ok : ok = (parts <= Room(ch))
  OBVIOUS
<1>8. /\ used \in 1 .. parts /\ parts \in Nat /\ M = N + used
      /\ \A i \in 1 .. N : m[i] = l[i]
      /\ \A i \in N + 1 .. M : m[i] = NewPacket(ch, parts, i - N - 1, ok)
  BY <1>1, <1>2, <1>3, <1>4, <1>6, <1>7, PackOutboundLog, SendArguments
<1>9. ASSUME NEW i \in N + 1 .. M
      PROVE  m[i].ch = ch /\ m[i].ok = ok /\ m[i].msg = N /\ m[i].n = i - 1
  <2>1. PICK j : j = i - N - 1
    OBVIOUS
  <2>2. j \in 0 .. parts - 1 /\ N + j = i - 1
    BY ONLY <1>5, <1>8, <2>1
  <2>3. /\ NewPacket(ch, parts, j, ok).n = Len(log) + j
        /\ NewPacket(ch, parts, j, ok).msg = Len(log)
        /\ NewPacket(ch, parts, j, ok).ok = ok /\ NewPacket(ch, parts, j, ok).ch = ch
    BY <2>2, NewPacketShape
  <2>. QED  BY <1>3, <1>8, <2>1, <2>2, <2>3
<1>10. PICK e : e = SentIn(l)
  OBVIOUS
<1>11. PICK f : f = SentIn(m)
  OBVIOUS
<1>12. Len(l) = N /\ Len(m) = M /\ DOMAIN l = 1 .. N /\ DOMAIN m = 1 .. M
  BY <1>1, <1>2, <1>3, <1>4, <1>5
<1>13. AreEntries(e) /\ AreEntries(f) /\ Len(e) = N /\ Len(f) = M
  <2>1. PICK none : none = <<>>
    OBVIOUS
  <2>2. Len(none) \in Nat /\ Len(none) <= N /\ Len(none) <= M /\ \A i \in 1 .. Len(none) : FALSE
    BY <1>5, <2>1
  <2>3. AreEntries(SentIn(l)) /\ Len(SentIn(l)) = Len(l)
    BY <1>5, <1>12, <2>2, ConsumedBegins
  <2>4. AreEntries(SentIn(m)) /\ Len(SentIn(m)) = Len(m)
    BY <1>5, <1>12, <2>2, ConsumedBegins
  <2>. QED  BY <1>10, <1>11, <1>12, <2>3, <2>4
<1>14. \A i \in 1 .. N : e[i] = f[i]
  <2>1. \A i \in 1 .. N : i \in 1 .. M
    BY <1>5, <1>8
  <2>. QED  BY <1>8, <1>10, <1>11, <1>12, <2>1 DEF SentIn
<1>15. Begins(e, f)
  BY <1>5, <1>8, <1>13, <1>14 DEF Begins
<1>16. ASSUME NEW i \in N + 1 .. M
       PROVE  f[i] = IF ch = 2 /\ ok /\ i = N + 1 THEN N ELSE Placeholder
  <2>1. i \in 1 .. M /\ (N = i - 1 <=> i = N + 1)
    BY ONLY <1>5, i \in N + 1 .. M
  <2>. QED  BY <1>9, <1>11, <1>12, <2>1 DEF SentIn
<1>17. HandedOn' = HandedOn /\ N \in 0 .. MaxSeqs
  <2>1. consumed' = consumed
    BY DEF PackOutbound, ch2Vars
  <2>2. N + used <= MaxSeqs /\ MaxSeqs \in Nat
    BY <1>3, <1>6, LinkAssumption DEF PackOutbound, Taken
  <2>. QED  BY <1>5, <1>8, <2>1, <2>2 DEF HandedOn
<1>18. Accepted = MessagesOf(e) /\ Accepted' = MessagesOf(f)
  BY <1>1, <1>2, <1>10, <1>11, AcceptedIs
<1>19. CASE ch = 2 /\ ok
  <2>1. /\ Len(e) < Len(f) /\ f[Len(e) + 1] = N /\ N # Placeholder
    <3>1. N + 1 \in N + 1 .. M /\ N < M
      BY <1>5, <1>8
    <3>. QED  BY <1>5, <1>13, <1>16, <1>19, <3>1 DEF Placeholder
  <2>2. \A i \in Len(e) + 2 .. Len(f) : f[i] = Placeholder
    <3>1. ASSUME NEW i \in N + 2 .. M PROVE i \in N + 1 .. M /\ i # N + 1
      BY <1>5
    <3>. QED  BY <1>13, <1>16, <3>1
  <2>3. MessagesOf(f) = Append(MessagesOf(e), N)
    BY <1>13, <1>15, <2>1, <2>2, OneMessage
  <2>. QED  BY <1>17, <1>18, <2>3 DEF Channel!Accept
<1>20. CASE ~(ch = 2 /\ ok)
  <2>1. \A i \in Len(e) + 1 .. Len(f) : f[i] = Placeholder
    BY <1>13, <1>16, <1>20
  <2>2. MessagesOf(f) = MessagesOf(e)
    BY <1>13, <1>15, <2>1, NoMessage
  <2>. QED  BY <1>17, <1>18, <2>2
<1>. QED  BY <1>19, <1>20

\* Whatever the network does, a step of the link is one of the channel's.
LEMMA ChannelStep ==
    /\ TypeOK /\ TypeOK' /\ Numbered /\ Sizes /\ Receiver /\ Receiver' /\ [Next]_vars
    => [Channel!Next]_<<Accepted, HandedOn>>
<1>. SUFFICES ASSUME TypeOK, TypeOK', Numbered, Sizes, Receiver, Receiver', [Next]_vars
              PROVE  Channel!Next \/ UNCHANGED <<Accepted, HandedOn>>
  OBVIOUS
<1>1. History /\ History'
  BY DEF Receiver
<1>2. Len(consumed) <= Len(consumed')
  BY ConsumedGrows
<1>3. CASE UNCHANGED log
  BY <1>1, <1>2, <1>3, HandOnStep DEF Channel!Next
<1>4. ASSUME NEW ch \in Channels, NEW parts \in GroupSizes \cup {1},
             PackOutbound(ch, parts)
      PROVE  Channel!Next \/ UNCHANGED <<Accepted, HandedOn>>
  BY <1>4, AcceptStep DEF Channel!Next
<1>5. ASSUME ~UNCHANGED log
      PROVE  \E ch \in Channels, parts \in GroupSizes \cup {1} : PackOutbound(ch, parts)
  BY <1>5 DEF Next, vars, senderVars, OnAck, MaintainReliable, HandleSessionPacket,
              PiggybackAck, AssemblerCleanup, NetworkLoss
<1>. QED  BY <1>3, <1>4, <1>5

\* Before the first step nothing was accepted and nothing handed on.
LEMMA InitChannel == Init => Channel!Init
<1>. SUFFICES ASSUME Init PROVE Channel!Init
  OBVIOUS
<1>1. PICK none : none = <<>>
  OBVIOUS
<1>2. log = none /\ consumed = none /\ Len(none) = 0 /\ none \in Seq(Packets)
  BY <1>1 DEF Init
<1>3. PICK e : e = SentIn(log)
  OBVIOUS
<1>4. AreEntries(e) /\ Len(e) = 0 /\ AreEntries(none)
  <2>1. Len(none) \in Nat /\ Len(none) <= Len(log) /\ \A i \in 1 .. Len(none) : FALSE
    BY <1>2
  <2>2. log \in Seq(Packets) /\ Len(log) = 0
    BY <1>2
  <2>. QED  BY <1>2, <1>3, <2>1, <2>2, ConsumedBegins
<1>5. ASSUME NEW f, AreEntries(f), Len(f) = 0 PROVE MessagesOf(f) = <<>>
  <2>1. PICK u : Gathers(f, u) /\ MessagesOf(f) = u[0]
    BY <1>5, MessagesAre DEF AreEntries
  <2>2. 0 \in 0 .. Len(f)
    BY <1>5
  <2>3. u[0] = <<>>
    BY <2>1, <2>2 DEF Gathers
  <2>. QED  BY <2>1, <2>3
<1>6. MessagesOf(e) = <<>> /\ MessagesOf(none) = <<>>
  BY <1>2, <1>4, <1>5
<1>7. Accepted = <<>> /\ HandedOn = <<>>
  BY <1>2, <1>3, <1>6, AcceptedIs DEF HandedOn
<1>. QED  BY <1>7 DEF Channel!Init

\* Channel 2 implements the ordered channel (table.rs, fragment.rs): the
\* messages that pack_outbound reported as sent are handed on whole, in their
\* order, each once, for every size of the queues and of the sequence space.
THEOREM Ch2IsAChannel == Sizes => (Spec /\ []Fresh => ImplementsChannel)
<1>. SUFFICES ASSUME Sizes PROVE Spec /\ []Fresh => ImplementsChannel
  OBVIOUS
<1>1. Init => Sender /\ Receiver
  BY InitOrder
<1>2. TypeOK /\ Numbered /\ Fresh /\ Sender /\ Receiver /\ [Next]_vars
      => Sender' /\ Receiver'
  BY NextType, SenderStep, ReceiverStep
<1>3. TypeOK /\ TypeOK' /\ Numbered /\ Receiver /\ Receiver' /\ [Next]_vars
      => [Channel!Next]_<<Accepted, HandedOn>>
  BY ChannelStep
<1>. QED
  BY InitChannel, <1>1, <1>2, <1>3, TypeCorrect, AlwaysNumbered, PTL
  DEF Spec, ImplementsChannel, Channel!Spec

\* The same without a hypothesis on fragments: in fewer packets than there
\* are sequence numbers, or without fragments, none is kept for a turn.
THEOREM ChannelWithoutTimeout ==
    Sizes /\ (MaxSeqs <= WireMod \/ GroupSizes \subseteq {1}) => (Spec => ImplementsChannel)
<1>1. Sizes /\ MaxSeqs <= WireMod => (Spec => ImplementsChannel)
  BY OneTurnFresh, Ch2IsAChannel, PTL
<1>2. Sizes /\ GroupSizes \subseteq {1} => (Spec => ImplementsChannel)
  BY UnfragmentedFresh, Ch2IsAChannel, PTL
<1>. QED  BY <1>1, <1>2
=============================================================================
