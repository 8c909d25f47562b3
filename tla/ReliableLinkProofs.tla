------------------------- MODULE ReliableLinkProofs -------------------------
(***************************************************************************)
(* Proofs about SeqSpace and ReliableLink, for every value of their          *)
(* constants.                                                              *)
(***************************************************************************)
EXTENDS ReliableLink, FiniteSetTheorems, TLAPS
-----------------------------------------------------------------------------
(* The wrapping sequence numbers: within half of their space the wire order *)
(* is the order of the numbers.                                            *)

LEMMA SpaceType ==
    HalfSeq \in Nat \ {0} /\ WireMod \in Nat \ {0} /\ WireMod = HalfSeq + HalfSeq
  BY SeqSpaceAssumption DEF WireMod

\* A multiple of M that is closer to 0 than M is 0.
LEMMA SmallMultiple ==
    ASSUME NEW M \in Nat \ {0}, NEW k \in Int, NEW r \in Int,
           r = k * M, -M < r, r < M
    PROVE  k = 0
<1>1. CASE k >= 1
  <2>1. (k - 1) * M >= 0
    BY <1>1
  <2>2. k * M = (k - 1) * M + M
    OBVIOUS
  <2>. QED  BY <2>1, <2>2
<1>2. CASE k <= -1
  <2>1. (-1 - k) * M >= 0
    BY <1>2
  <2>2. k * M = -((-1 - k) * M) - M
    OBVIOUS
  <2>. QED  BY <2>1, <2>2
<1>. QED  BY <1>1, <1>2

\* The remainder is the one number of 0 .. M-1 that is congruent.
LEMMA ModUnique ==
    ASSUME NEW M \in Nat \ {0}, NEW a \in Int, NEW k \in Int,
           NEW r \in 0 .. M - 1, a = k * M + r
    PROVE  a % M = r
<1>. DEFINE q == a \div M
<1>1. q \in Int /\ a % M \in 0 .. M - 1 /\ a = M * q + (a % M)
  OBVIOUS
<1>. HIDE DEF q
<1>2. (q - k) * M = r - (a % M)
  <2>1. (q - k) * M = q * M - k * M /\ q * M = M * q
    BY <1>1
  <2>. QED  BY <1>1, <2>1
<1>3. q - k \in Int /\ r - (a % M) \in Int /\ -M < r - (a % M) /\ r - (a % M) < M
  BY <1>1
<1>4. q - k = 0
  BY <1>2, <1>3, SmallMultiple
<1>. QED  BY <1>1, <1>2, <1>4

LEMMA WireType ==
    /\ \A n \in Int : Wire(n) \in SeqNos
    /\ \A s, d \in Int : WrapAdd(s, d) \in SeqNos /\ WrapSub(s, d) \in SeqNos
  BY SpaceType DEF Wire, WrapAdd, WrapSub, SeqNos

\* A number is its wire value and a number of times around the space.
LEMMA WireTurns ==
    ASSUME NEW n \in Int
    PROVE  \E q \in Int : n = q * WireMod + Wire(n)
<1>. DEFINE W == WireMod
<1>1. W \in Nat \ {0}
  BY SpaceType
<1>. HIDE DEF W
<1>2. n = W * (n \div W) + (n % W) /\ n \div W \in Int
  BY <1>1
<1>3. n = (n \div W) * W + (n % W)
  BY <1>1, <1>2
<1>. QED  BY <1>2, <1>3 DEF Wire, W

\* wrapping_add follows the numbers around the end of the space.
LEMMA WireAdd ==
    ASSUME NEW n \in Int, NEW d \in Int
    PROVE  WrapAdd(Wire(n), d) = Wire(n + d)
<1>. DEFINE W == WireMod
<1>1. W \in Nat \ {0} /\ Wire(n) \in Int /\ Wire(n + d) \in 0 .. W - 1
  BY SpaceType, WireType DEF SeqNos
<1>2. PICK q \in Int : n = q * W + Wire(n)
  BY WireTurns
<1>3. PICK t \in Int : n + d = t * W + Wire(n + d)
  BY WireTurns
<1>. HIDE DEF W
<1>4. Wire(n) + d = (t - q) * W + Wire(n + d)
  <2>1. (t - q) * W = t * W - q * W
    BY <1>1
  <2>. QED  BY <1>1, <1>2, <1>3, <2>1
<1>5. (Wire(n) + d) % W = Wire(n + d)
  <2>. DEFINE x == Wire(n) + d
              r == Wire(n + d)
  <2>1. x \in Int /\ t - q \in Int /\ r \in 0 .. W - 1 /\ x = (t - q) * W + r
    BY <1>1, <1>4
  <2>. HIDE DEF x, r
  <2>2. (x % W) = r
    BY <1>1, <2>1, ModUnique
  <2>. QED  BY <2>2 DEF x, r
<1>. QED  BY <1>5 DEF WrapAdd, W

\* wrapping_sub gives the distance of two numbers, forwards or around.
LEMMA WireSub ==
    ASSUME NEW n \in Int, NEW m \in Int,
           -WireMod <= n - m, n - m < WireMod
    PROVE  WrapSub(Wire(n), Wire(m)) = IF n >= m THEN n - m ELSE n - m + WireMod
<1>. DEFINE W == WireMod
            r == IF n >= m THEN n - m ELSE n - m + W
<1>1. W \in Nat \ {0} /\ Wire(n) \in Int /\ Wire(m) \in Int
  BY SpaceType, WireType DEF SeqNos
<1>2. PICK q \in Int : n = q * W + Wire(n)
  BY WireTurns
<1>3. PICK t \in Int : m = t * W + Wire(m)
  BY WireTurns
<1>4. r \in 0 .. W - 1
  BY <1>1
<1>. HIDE DEF W
<1>5. \E k \in Int : Wire(n) - Wire(m) = k * W + r
  <2>1. (t - q) * W = t * W - q * W /\ (t - q - 1) * W = t * W - q * W - W
    BY <1>1
  <2>2. CASE n >= m
    <3>1. Wire(n) - Wire(m) = (t - q) * W + r
      BY <1>1, <1>2, <1>3, <2>1, <2>2
    <3>2. t - q \in Int
      OBVIOUS
    <3>. QED  BY <3>1, <3>2
  <2>3. CASE n < m
    <3>1. Wire(n) - Wire(m) = (t - q - 1) * W + r
      BY <1>1, <1>2, <1>3, <2>1, <2>3
    <3>2. t - q - 1 \in Int
      OBVIOUS
    <3>. QED  BY <3>1, <3>2
  <2>. QED  BY <2>2, <2>3
<1>6. (Wire(n) - Wire(m)) % W = r
  <2>1. PICK k \in Int : Wire(n) - Wire(m) = k * W + r
    BY <1>5
  <2>. HIDE DEF r
  <2>2. Wire(n) - Wire(m) \in Int
    BY <1>1
  <2>. QED  BY <1>1, <1>4, <2>1, <2>2, ModUnique
<1>. QED  BY <1>6 DEF WrapSub, W

\* Within half of the space the wire order is the order of the numbers.
THEOREM WireOrder ==
    ASSUME NEW n \in Int, NEW m \in Int, -HalfSeq < n - m, n - m < HalfSeq
    PROVE  /\ SeqNewer(Wire(n), Wire(m)) <=> n > m
           /\ SeqLt(Wire(n), Wire(m)) <=> n < m
           /\ Wire(n) = Wire(m) <=> n = m
<1>1. HalfSeq \in Nat \ {0} /\ WireMod = HalfSeq + HalfSeq
  BY SpaceType
<1>2. WrapSub(Wire(n), Wire(m)) = IF n >= m THEN n - m ELSE n - m + WireMod
  BY <1>1, WireSub
<1>3. SeqNewer(Wire(n), Wire(m)) <=> n > m
  BY <1>1, <1>2 DEF SeqNewer
<1>4. SeqLt(Wire(n), Wire(m)) <=> n < m
  BY <1>1, <1>2 DEF SeqLt
<1>5. Wire(n) = Wire(m) => n = m
  <2>1. WrapSub(Wire(m), Wire(m)) = 0
    BY <1>1, WireSub
  <2>. QED  BY <1>1, <1>2, <2>1
<1>. QED  BY <1>3, <1>4, <1>5

\* A number that is at most half of the space behind is not newer.
THEOREM NotNewer ==
    ASSUME NEW n \in Int, NEW m \in Int, n <= m, m - n <= HalfSeq
    PROVE  ~SeqNewer(Wire(n), Wire(m))
<1>1. HalfSeq \in Nat \ {0} /\ WireMod = HalfSeq + HalfSeq
  BY SpaceType
<1>2. WrapSub(Wire(n), Wire(m)) = IF n >= m THEN n - m ELSE n - m + WireMod
  BY <1>1, WireSub
<1>. QED  BY <1>1, <1>2 DEF SeqNewer
-----------------------------------------------------------------------------
(* The link.                                                               *)

\* The assumptions in the form the provers use them.
LEMMA Constants ==
    /\ HalfSeq \in Nat \ {0} /\ WireMod \in Nat \ {0} /\ SeqNos = 0 .. WireMod - 1
    /\ {QueueCap, DeliveredCap, SeenCap, CompletedCap} \subseteq Nat \ {0}
    /\ MaxFragments \in Nat \ {0} /\ U8Mod \in Nat \ {0}
    /\ Channels \subseteq 0 .. 3 /\ GroupSizes \subseteq Nat \ {0}
  BY SeqSpaceAssumption, LinkAssumption DEF WireMod, SeqNos
-----------------------------------------------------------------------------
(* What the helpers return.                                                *)

LEMMA SendArguments ==
    \A ch \in Channels, parts \in GroupSizes \cup {1} :
        ch \in 0 .. 3 /\ parts \in Nat /\ parts # 0
  BY Constants

\* Min of FiniteSetsExt is what its name says on a set of naturals.
LEMMA MinNat ==
    ASSUME NEW S \in SUBSET Nat, S # {}
    PROVE  Min(S) \in S /\ \A x \in S : Min(S) <= x
<1>1. PICK m \in S : \A x \in S : <<x, m>> \notin OpToRel(<, Nat)
  BY NatLessThanWellFounded, WFMin
<1>2. ASSUME NEW x \in S PROVE m <= x
  <2>1. x \in Nat /\ m \in Nat
    OBVIOUS
  <2>2. ~(x < m)
    BY <1>1, <2>1, Zenon DEF OpToRel
  <2>. QED  BY <2>1, <2>2
<1>. QED  BY <1>2 DEF Min

\* LastN keeps a window within its capacity (ch3_seen, delivered_seqs and
\* completed are trimmed with while len > cap { pop_front }).
LEMMA LastNType ==
    ASSUME NEW S, NEW s \in Seq(S), NEW n \in Nat
    PROVE  LastN(s, n) \in Seq(S) /\ Len(LastN(s, n)) <= n
  BY DEF LastN

\* What a full network keeps is what it had or what was sent.
LEMMA EmitType ==
    ASSUME NEW S, NEW flight \in SUBSET S, NEW sent \in SUBSET S, NEW cap
    PROVE  Emit(flight, sent, cap) \in SUBSET S
  BY DEF Emit

\* pack_outbound builds packets, whatever it casts to u8.
LEMMA NewPacketType ==
    ASSUME TypeOK, NEW ch \in 0 .. 3, NEW parts \in Nat, NEW i \in Nat,
           NEW ok \in BOOLEAN
    PROVE  NewPacket(ch, parts, i, ok) \in Packets
<1>1. Len(log) \in Nat /\ Len(log) + i \in Nat
  BY DEF TypeOK
<1>2. WrapAdd(sendSeq, i) \in SeqNos /\ sendSeq \in SeqNos /\ fragGroupId \in SeqNos
  <2>1. sendSeq \in SeqNos /\ fragGroupId \in SeqNos
    BY DEF TypeOK
  <2>2. sendSeq \in Int
    BY <2>1, Constants
  <2>. QED  BY <2>1, <2>2, WireType
<1>3. i % U8Mod \in 0 .. U8Mod - 1 /\ parts % U8Mod \in 0 .. U8Mod - 1
  BY Constants
<1>4. 0 \in SeqNos
  BY Constants
<1>. QED  BY <1>1, <1>2, <1>3, <1>4 DEF NewPacket, Packets

\* AckedPrefix is a length of a prefix of the queue.
LEMMA AckedPrefixType ==
    ASSUME NEW q \in Seq(Packets), NEW a
    PROVE  AckedPrefix(q, a) \in 0 .. Len(q)
<1>. DEFINE S == {k \in 0 .. Len(q) : k = Len(q) \/ ~IsAcked(q[k + 1].seq, a)}
<1>1. S \in SUBSET Nat /\ Len(q) \in S
  OBVIOUS
<1>2. Min(S) \in S
  BY <1>1, MinNat
<1>. QED  BY <1>2 DEF AckedPrefix

\* on_ack only takes entries away.
LEMMA RestType ==
    ASSUME NEW q \in Seq(Packets), NEW a
    PROVE  Rest(q, a) \in Seq(Packets) /\ Len(Rest(q, a)) <= Len(q)
  BY AckedPrefixType DEF Rest

\* deliver_ch2_in_order goes at most once around the sequence space.
LEMMA RunLengthType ==
    ASSUME NEW r
    PROVE  RunLength(r) \in 0 .. WireMod
<1>. DEFINE S == {k \in 0 .. WireMod : k = WireMod \/ r[WrapAdd(ch2Next, k)] = Absent}
<1>1. S \in SUBSET Nat /\ WireMod \in S
  BY Constants
<1>2. Min(S) \in S
  BY <1>1, MinNat
<1>. QED  BY <1>2 DEF RunLength

\* The group a fragment lands in is a group of its own total.
LEMMA GroupWithType ==
    ASSUME TypeOK, NEW p \in Packets, WellFormed(p)
    PROVE  /\ IsGroup(GroupWith(p)) /\ GroupWith(p) # NoGroup
<1>1. Chunk(p) \in Chunks
  BY DEF Chunk, Chunks, Packets
<1>2. NoChunk \in Chunks
  BY DEF NoChunk, Chunks
<1>3. p.first \in SeqNos /\ p.total \in 1 .. MaxFragments /\ p.no \in 0 .. p.total - 1
  BY DEF WellFormed, Packets
<1>4. IsGroup(NewGroup(p)) /\ NewGroup(p).total = p.total /\ NewGroup(p).first = p.first
  BY <1>2, <1>3 DEF NewGroup, IsGroup
<1>. DEFINE old == pending[p.gid]
            g == IF old # NoGroup /\ old.total = p.total /\ old.first = p.first
                 THEN old ELSE NewGroup(p)
<1>5. IsGroup(old)
  BY DEF TypeOK, Packets
<1>6. IsGroup(g) /\ g.total = p.total /\ g.first = p.first
  BY <1>4, <1>5
<1>7. g # NoGroup
  BY <1>6, <1>3 DEF NoGroup
<1>8. g \in [first : SeqNos, total : 1 .. MaxFragments, parts : {g.parts}]
      /\ g.parts \in [0 .. g.total - 1 -> Chunks]
  BY <1>6, <1>7 DEF IsGroup
<1>. HIDE DEF g
<1>9. IsGroup([g EXCEPT !.parts[p.no] = Chunk(p)])
      /\ [g EXCEPT !.parts[p.no] = Chunk(p)] # NoGroup
  <2>. DEFINE h == [g EXCEPT !.parts[p.no] = Chunk(p)]
  <2>1. h.first = g.first /\ h.total = g.total
        /\ h.parts = [g.parts EXCEPT ![p.no] = Chunk(p)]
    BY <1>8
  <2>2. h \in [first : SeqNos, total : 1 .. MaxFragments, parts : {h.parts}]
    BY <1>8, <2>1
  <2>3. h.parts \in [0 .. h.total - 1 -> Chunks]
    BY <1>8, <1>1, <2>1
  <2>4. h # NoGroup
    BY <2>1, <1>6, <1>3 DEF NoGroup
  <2>. QED  BY <2>2, <2>3, <2>4 DEF IsGroup
<1>10. GroupWith(p) = IF g.parts[p.no] = NoChunk
                      THEN [g EXCEPT !.parts[p.no] = Chunk(p)] ELSE g
  BY DEF GroupWith, g
<1>. QED  BY <1>6, <1>7, <1>9, <1>10

\* A complete group yields an entry of the reorder buffer for each number.
LEMMA WithGroupType ==
    ASSUME TypeOK, NEW g, IsGroup(g), g # NoGroup
    PROVE  WithGroup(g) \in [SeqNos -> Entries]
<1>1. g.parts[0] \in Chunks
  BY DEF IsGroup
<1>2. Joined(g) \in Entries
  BY <1>1 DEF Joined, Chunks, Entries
<1>3. Placeholder \in Entries /\ \A s \in SeqNos : reorder[s] \in Entries
  BY DEF TypeOK, Entries
<1>. QED  BY <1>2, <1>3 DEF WithGroup
-----------------------------------------------------------------------------
(* The type invariant.                                                     *)

\* deliver_ch2_in_order keeps the Ch2 state and its window well-formed.
LEMMA DeliverType ==
    ASSUME TypeOK, NEW r \in [SeqNos -> Entries], DeliverCh2InOrder(r)
    PROVE  /\ ch2Next' \in SeqNos /\ deliveredMax' \in SeqNos
           /\ reorder' \in [SeqNos -> Entries]
           /\ deliveredSeqs' \in Seq(SeqNos) /\ Len(deliveredSeqs') <= DeliveredCap
           /\ consumed' \in Seq(Entries)
<1>. DEFINE k == RunLength(r)
            run == [i \in 1 .. k |-> WrapAdd(ch2Next, i - 1)]
            out == [i \in 1 .. k |-> r[run[i]]]
<1>1. k \in Nat
  BY RunLengthType, Constants
<1>2. ch2Next \in Int /\ \A i \in 1 .. k : WrapAdd(ch2Next, i - 1) \in SeqNos
  <2>1. ch2Next \in Int
    BY Constants DEF TypeOK
  <2>2. \A i \in 1 .. k : i - 1 \in Int
    BY <1>1
  <2>. QED  BY <2>1, <2>2, WireType
<1>3. run \in Seq(SeqNos) /\ Len(run) = k
  BY <1>1, <1>2
<1>4. out \in Seq(Entries)
  BY <1>1, <1>2
<1>5. consumed' \in Seq(Entries)
  <2>1. consumed' = consumed \o out
    BY DEF DeliverCh2InOrder
  <2>2. consumed \in Seq(Entries)
    BY DEF TypeOK
  <2>. HIDE DEF out
  <2>. QED  BY <1>4, <2>1, <2>2
<1>6. deliveredSeqs \o run \in Seq(SeqNos)
  BY <1>3 DEF TypeOK
<1>7. deliveredSeqs' \in Seq(SeqNos) /\ Len(deliveredSeqs') <= DeliveredCap
  BY <1>6, LastNType, Constants DEF DeliverCh2InOrder
<1>8. reorder' \in [SeqNos -> Entries]
  BY DEF DeliverCh2InOrder, Entries
<1>9. ch2Next' \in SeqNos
  BY <1>1, <1>2, WireType DEF DeliverCh2InOrder
<1>10. deliveredMax' \in SeqNos
  <2>1. k # 0 => run[k] \in SeqNos
    BY <1>1, <1>3
  <2>. QED  BY <2>1 DEF DeliverCh2InOrder, TypeOK
<1>. QED  BY <1>5, <1>7, <1>8, <1>9, <1>10

\* Init has the right type.
LEMMA InitType == Init => TypeOK
<1>. SUFFICES ASSUME Init PROVE TypeOK
  OBVIOUS
<1>1. 0 \in SeqNos /\ 0 \in 0 .. U8Mod - 1 /\ 0 \in 0 .. MaxCleanups
  BY Constants, LinkAssumption
<1>2. reorder \in [SeqNos -> Entries]
  BY DEF Init, Entries
<1>3. DOMAIN pending = SeqNos /\ \A g \in SeqNos : IsGroup(pending[g])
  BY DEF Init, IsGroup
<1>4. /\ retrans \in [Reliable -> Seq(Packets)]
      /\ \A ch \in Reliable : Len(retrans[ch]) <= QueueCap
      /\ skipCount \in [Reliable -> 0 .. U8Mod - 1]
  BY <1>1, Constants DEF Init
<1>5. /\ log \in Seq(Packets) /\ consumed \in Seq(Entries)
      /\ ch1Out \in Seq(Nat) /\ ch3Out \in Seq(Nat)
      /\ deliveredSeqs \in Seq(SeqNos) /\ Len(deliveredSeqs) <= DeliveredCap
      /\ ch3Seen \in Seq(SeqNos) /\ Len(ch3Seen) <= SeenCap
      /\ completed \in Seq(SeqNos) /\ Len(completed) <= CompletedCap
  BY Constants DEF Init
<1>. QED  BY <1>1, <1>2, <1>3, <1>4, <1>5 DEF Init, TypeOK

\* The room left in a queue: what the queues hold already never exceeds it.
LEMMA RoomType ==
    ASSUME TypeOK, NEW ch \in 0 .. 3
    PROVE  Room(ch) \in Nat /\ (ch \in Reliable => Room(ch) = QueueCap - Len(retrans[ch]))
<1>1. ch \in Reliable => Len(retrans[ch]) \in Nat /\ Len(retrans[ch]) <= QueueCap
  BY DEF TypeOK
<1>. QED  BY <1>1, Constants DEF Room

\* pack_outbound: a queue never grows beyond its limit, whatever is refused.
LEMMA PackOutboundType ==
    ASSUME TypeOK, NEW ch \in Channels, NEW parts \in GroupSizes \cup {1},
           PackOutbound(ch, parts)
    PROVE  TypeOK'
<1>. DEFINE ok == parts <= Room(ch)
            used == IF ok THEN parts ELSE Room(ch) + 1
            packets == [i \in 1 .. used |-> NewPacket(ch, parts, i - 1, ok)]
            queued == IF ok THEN used ELSE used - 1
<1>1. ch \in 0 .. 3 /\ parts \in Nat /\ parts # 0
  BY SendArguments
<1>2. Room(ch) \in Nat /\ (ch \in Reliable => Room(ch) = QueueCap - Len(retrans[ch]))
  BY <1>1, RoomType
<1>3. used \in Nat /\ queued \in 0 .. used /\ queued <= Room(ch)
  BY <1>1, <1>2
<1>4. \A i \in 1 .. used : NewPacket(ch, parts, i - 1, ok) \in Packets
  <2>1. ok \in BOOLEAN /\ \A i \in 1 .. used : i - 1 \in Nat
    BY <1>3
  <2>. HIDE DEF ok, used
  <2>. QED  BY <1>1, <2>1, NewPacketType
<1>5. packets \in Seq(Packets) /\ Len(packets) = used
  BY <1>3, <1>4
<1>6. /\ sendSeq' = WrapAdd(sendSeq, used)
      /\ fragGroupId' = IF parts > 1 THEN WrapAdd(fragGroupId, 1) ELSE fragGroupId
      /\ retrans' = IF ch \in Reliable
                    THEN [retrans EXCEPT ![ch] = @ \o SubSeq(packets, 1, queued)]
                    ELSE retrans
      /\ net' = IF ok THEN Emit(net, ToSet(packets), NetCap) ELSE net
      /\ log' = log \o packets
      /\ UNCHANGED <<skipCount, ackNet, ch1Vars, ch2Vars, ch3Vars, cleanups>>
  BY DEF PackOutbound
<1>7. sendSeq' \in SeqNos /\ fragGroupId' \in SeqNos
  <2>1. sendSeq \in SeqNos /\ fragGroupId \in SeqNos
    BY DEF TypeOK
  <2>2. sendSeq \in Int /\ fragGroupId \in Int /\ used \in Int
    BY <2>1, <1>3, Constants
  <2>. QED  BY <1>6, <2>1, <2>2, WireType
<1>. HIDE DEF packets, used, queued
<1>8. SubSeq(packets, 1, queued) \in Seq(Packets) /\ Len(SubSeq(packets, 1, queued)) = queued
  BY <1>3, <1>5
<1>9. /\ retrans' \in [Reliable -> Seq(Packets)]
      /\ \A c \in Reliable : Len(retrans'[c]) <= QueueCap
  <2>1. /\ retrans \in [Reliable -> Seq(Packets)]
        /\ \A c \in Reliable : Len(retrans[c]) <= QueueCap
    BY DEF TypeOK
  <2>2. CASE ch \in Reliable
    <3>1. retrans[ch] \o SubSeq(packets, 1, queued) \in Seq(Packets)
          /\ Len(retrans[ch] \o SubSeq(packets, 1, queued)) = Len(retrans[ch]) + queued
      BY <1>8, <2>1, <2>2
    <3>2. Len(retrans[ch]) + queued <= QueueCap
      BY <1>2, <1>3, <2>1, <2>2, Constants
    <3>. QED  BY <1>6, <2>1, <2>2, <3>1, <3>2
  <2>3. CASE ch \notin Reliable
    BY <1>6, <2>1, <2>3
  <2>. QED  BY <2>2, <2>3
<1>10. net' \subseteq Packets
  <2>1. ToSet(packets) \in SUBSET Packets /\ net \in SUBSET Packets
    BY <1>5 DEF ToSet, TypeOK
  <2>. QED  BY <1>6, <2>1, EmitType
<1>11. log' \in Seq(Packets)
  BY <1>5, <1>6 DEF TypeOK
<1>. QED  BY <1>6, <1>7, <1>9, <1>10, <1>11 DEF TypeOK, ch1Vars, ch2Vars, ch3Vars

\* on_ack: the queues only lose entries.
LEMMA OnAckType ==
    ASSUME TypeOK, NEW a \in ackNet, OnAck(a)
    PROVE  TypeOK'
<1>1. /\ retrans \in [Reliable -> Seq(Packets)]
      /\ \A ch \in Reliable : Len(retrans[ch]) <= QueueCap
      /\ skipCount \in [Reliable -> 0 .. U8Mod - 1]
      /\ net \in SUBSET Packets /\ ackNet \subseteq Acks
  BY DEF TypeOK
<1>2. /\ retrans' = [ch \in Reliable |-> Rest(retrans[ch], a)]
      /\ skipCount' = [ch \in Reliable |-> Skips(ch, a)]
      /\ net' = Emit(net, UNION {FastRetransmit(ch, a) : ch \in Reliable}, NetCap)
      /\ ackNet' \in {ackNet, ackNet \ {a}}
      /\ UNCHANGED <<sendSeq, fragGroupId, log, ch1Vars, ch2Vars, ch3Vars, cleanups>>
  BY DEF OnAck
<1>3. /\ retrans' \in [Reliable -> Seq(Packets)]
      /\ \A ch \in Reliable : Len(retrans'[ch]) <= QueueCap
  <2>1. ASSUME NEW ch \in Reliable
        PROVE  Rest(retrans[ch], a) \in Seq(Packets) /\ Len(Rest(retrans[ch], a)) <= QueueCap
    <3>1. retrans[ch] \in Seq(Packets) /\ Len(retrans[ch]) <= QueueCap
      BY <1>1
    <3>2. Rest(retrans[ch], a) \in Seq(Packets)
          /\ Len(Rest(retrans[ch], a)) <= Len(retrans[ch])
      BY <3>1, RestType
    <3>. QED  BY <3>1, <3>2, Constants
  <2>. QED  BY <1>2, <2>1
<1>4. skipCount' \in [Reliable -> 0 .. U8Mod - 1]
  <2>1. ASSUME NEW ch \in Reliable PROVE Skips(ch, a) \in 0 .. U8Mod - 1
    BY <1>1, Constants DEF Skips
  <2>. QED  BY <1>2, <2>1
<1>5. net' \subseteq Packets
  <2>1. ASSUME NEW ch \in Reliable PROVE FastRetransmit(ch, a) \in SUBSET Packets
    BY <1>1 DEF FastRetransmit, FrontSkipped
  <2>2. UNION {FastRetransmit(ch, a) : ch \in Reliable} \in SUBSET Packets
    BY <2>1
  <2>. QED  BY <1>1, <1>2, <2>2, EmitType
<1>6. ackNet' \subseteq Acks
  BY <1>1, <1>2
<1>. QED  BY <1>2, <1>3, <1>4, <1>5, <1>6 DEF TypeOK, ch1Vars, ch2Vars, ch3Vars

\* compute_ack yields an ack, of the state before a step and after it.
LEMMA ComputeAckType ==
    /\ ch2Next \in SeqNos /\ consumed \in Seq(Entries) => ComputeAck \in Acks
    /\ ch2Next' \in SeqNos /\ consumed' \in Seq(Entries) => ComputeAck' \in Acks
<1>1. ASSUME NEW c \in SeqNos, NEW B \in SUBSET (1 .. AckBits), NEW n \in Nat
      PROVE  [ack |-> WrapSub(c, 1), bits |-> B, r |-> n] \in Acks
  <2>1. c \in Int /\ 1 \in Int
    BY Constants
  <2>. QED  BY <2>1, WireType DEF Acks
<1>2. ASSUME ch2Next \in SeqNos, consumed \in Seq(Entries) PROVE ComputeAck \in Acks
  BY <1>1, <1>2 DEF ComputeAck, AckPoint
<1>3. ASSUME ch2Next' \in SeqNos, consumed' \in Seq(Entries) PROVE ComputeAck' \in Acks
  BY <1>1, <1>3 DEF ComputeAck, AckPoint
<1>. QED  BY <1>2, <1>3

\* Every message that waits for retransmission is a packet.
LEMMA UnackedType ==
    ASSUME TypeOK PROVE Unacked \in SUBSET Packets
<1>1. ASSUME NEW ch \in Reliable PROVE ToSet(retrans[ch]) \in SUBSET Packets
  BY DEF TypeOK, ToSet
<1>. QED  BY <1>1 DEF Unacked

\* handle_ch2: an old packet, a fragment, or a message of one packet.
LEMMA HandleCh2Type ==
    ASSUME TypeOK, NEW p \in Packets, HandleCh2(p)
    PROVE  /\ ch2Next' \in SeqNos /\ deliveredMax' \in SeqNos
           /\ reorder' \in [SeqNos -> Entries]
           /\ deliveredSeqs' \in Seq(SeqNos) /\ Len(deliveredSeqs') <= DeliveredCap
           /\ consumed' \in Seq(Entries)
           /\ DOMAIN pending' = SeqNos /\ \A g \in SeqNos : IsGroup(pending'[g])
           /\ completed' \in Seq(SeqNos) /\ Len(completed') <= CompletedCap
<1>1. CASE UNCHANGED ch2Vars
  BY <1>1 DEF ch2Vars, TypeOK
<1>2. CASE ~UNCHANGED ch2Vars /\ PushFragment(p)
  <2>. DEFINE g == GroupWith(p)
  <2>1. WellFormed(p)
    BY <1>2 DEF PushFragment
  <2>2. IsGroup(g) /\ g # NoGroup
    BY <2>1, GroupWithType
  <2>3. p.gid \in SeqNos
    BY DEF Packets
  <2>. HIDE DEF g
  <2>4. CASE Complete(g)
    <3>1. /\ pending' = [pending EXCEPT ![p.gid] = NoGroup]
          /\ completed' = LastN(Append(completed, p.gid), CompletedCap)
          /\ DeliverCh2InOrder(WithGroup(g))
      BY <1>2, <2>4 DEF PushFragment, g
    <3>2. WithGroup(g) \in [SeqNos -> Entries]
      BY <2>2, WithGroupType
    <3>3. Append(completed, p.gid) \in Seq(SeqNos)
      BY <2>3 DEF TypeOK
    <3>4. completed' \in Seq(SeqNos) /\ Len(completed') <= CompletedCap
      BY <3>1, <3>3, LastNType, Constants
    <3>5. DOMAIN pending' = SeqNos /\ \A h \in SeqNos : IsGroup(pending'[h])
      BY <3>1 DEF TypeOK, IsGroup
    <3>. QED  BY <3>1, <3>2, <3>4, <3>5, DeliverType
  <2>5. CASE ~Complete(g)
    <3>1. /\ pending' = [pending EXCEPT ![p.gid] = g]
          /\ UNCHANGED <<completed, ch2Next, reorder, deliveredMax,
                         deliveredSeqs, consumed>>
      BY <1>2, <2>5 DEF PushFragment, g
    <3>2. DOMAIN pending' = SeqNos /\ \A h \in SeqNos : IsGroup(pending'[h])
      BY <2>2, <3>1 DEF TypeOK
    <3>. QED  BY <3>1, <3>2 DEF TypeOK
  <2>. QED  BY <2>4, <2>5
<1>3. CASE DeliverCh2InOrder([reorder EXCEPT ![p.seq] = p.msg]) /\ UNCHANGED <<pending, completed>>
  <2>1. [reorder EXCEPT ![p.seq] = p.msg] \in [SeqNos -> Entries]
    BY DEF TypeOK, Packets, Entries
  <2>2. /\ ch2Next' \in SeqNos /\ deliveredMax' \in SeqNos
        /\ reorder' \in [SeqNos -> Entries]
        /\ deliveredSeqs' \in Seq(SeqNos) /\ Len(deliveredSeqs') <= DeliveredCap
        /\ consumed' \in Seq(Entries)
    BY <1>3, <2>1, DeliverType
  <2>. QED  BY <1>3, <2>2 DEF TypeOK
<1>. QED  BY <1>1, <1>2, <1>3 DEF HandleCh2

\* handle_session_packet, on each of the four channels.
LEMMA HandleSessionPacketType ==
    ASSUME TypeOK, NEW p \in net, HandleSessionPacket(p)
    PROVE  TypeOK'
<1>1. p \in Packets /\ p.ch \in 0 .. 3 /\ p.n \in Nat /\ p.seq \in SeqNos
  BY DEF TypeOK, Packets
<1>2. /\ ch2Next' \in SeqNos /\ deliveredMax' \in SeqNos
      /\ reorder' \in [SeqNos -> Entries]
      /\ deliveredSeqs' \in Seq(SeqNos) /\ Len(deliveredSeqs') <= DeliveredCap
      /\ consumed' \in Seq(Entries)
      /\ DOMAIN pending' = SeqNos /\ \A g \in SeqNos : IsGroup(pending'[g])
      /\ completed' \in Seq(SeqNos) /\ Len(completed') <= CompletedCap
  <2>1. CASE p.ch = 2
    BY <1>1, <2>1, HandleCh2Type DEF HandleSessionPacket
  <2>2. CASE p.ch # 2
    <3>1. UNCHANGED ch2Vars
      BY <1>1, <2>2 DEF HandleSessionPacket
    <3>. QED  BY <3>1 DEF ch2Vars, TypeOK
  <2>. QED  BY <2>1, <2>2
<1>3. ch1Last' \in SeqNos \cup {NoSeq} /\ ch1Out' \in Seq(Nat)
  <2>1. HandleCh1(p) \/ UNCHANGED ch1Vars
    BY DEF HandleSessionPacket
  <2>2. ch1Last \in SeqNos \cup {NoSeq} /\ ch1Out \in Seq(Nat)
    BY DEF TypeOK
  <2>3. CASE UNCHANGED ch1Vars
    BY <2>2, <2>3 DEF ch1Vars
  <2>4. CASE ch1Last' = p.seq /\ ch1Out' = Append(ch1Out, p.n)
    <3>1. Append(ch1Out, p.n) \in Seq(Nat)
      BY <1>1, <2>2
    <3>. QED  BY <1>1, <2>4, <3>1
  <2>. QED  BY <2>1, <2>3, <2>4 DEF HandleCh1
<1>4. /\ ch3Seen' \in Seq(SeqNos) /\ Len(ch3Seen') <= SeenCap
      /\ ch3Out' \in Seq(Nat)
  <2>1. HandleCh3(p) \/ UNCHANGED ch3Vars
    BY DEF HandleSessionPacket
  <2>2. CASE UNCHANGED ch3Vars
    BY <2>2 DEF ch3Vars, TypeOK
  <2>3. CASE ~UNCHANGED ch3Vars
    <3>1. /\ ch3Seen' = LastN(Append(ch3Seen, p.seq), SeenCap)
          /\ ch3Out' = Append(ch3Out, p.n)
      BY <2>1, <2>3 DEF HandleCh3
    <3>2. Append(ch3Seen, p.seq) \in Seq(SeqNos) /\ ch3Out' \in Seq(Nat)
      BY <1>1, <3>1 DEF TypeOK
    <3>. QED  BY <3>1, <3>2, LastNType, Constants
  <2>. QED  BY <2>2, <2>3
<1>5. ackNet' \subseteq Acks
  <2>1. {ComputeAck'} \in SUBSET Acks /\ ackNet \in SUBSET Acks
    BY <1>2, ComputeAckType DEF TypeOK
  <2>2. ackNet' = ackNet \/ ackNet' = Emit(ackNet, {ComputeAck'}, AckNetCap)
    BY DEF HandleSessionPacket
  <2>. QED  BY <2>1, <2>2, EmitType
<1>6. net' \subseteq Packets /\ UNCHANGED <<senderVars, cleanups>>
  BY DEF HandleSessionPacket, TypeOK
<1>. QED  BY <1>2, <1>3, <1>4, <1>5, <1>6 DEF TypeOK, senderVars

\* The type invariant is inductive.
LEMMA NextType == TypeOK /\ [Next]_vars => TypeOK'
<1>. SUFFICES ASSUME TypeOK, [Next]_vars PROVE TypeOK'
  OBVIOUS
<1>1. ASSUME NEW ch \in Channels, NEW parts \in GroupSizes \cup {1},
             PackOutbound(ch, parts)
      PROVE  TypeOK'
  BY <1>1, PackOutboundType
<1>2. ASSUME NEW a \in ackNet, OnAck(a) PROVE TypeOK'
  BY <1>2, OnAckType
<1>3. ASSUME NEW due \in SUBSET Unacked, MaintainReliable(due) PROVE TypeOK'
  <2>1. due \in SUBSET Packets /\ net \in SUBSET Packets
    BY UnackedType DEF TypeOK
  <2>2. net' \subseteq Packets
    BY <1>3, <2>1, EmitType DEF MaintainReliable
  <2>. QED  BY <1>3, <2>2 DEF MaintainReliable, TypeOK, senderVars, ch1Vars, ch2Vars, ch3Vars
<1>4. ASSUME NEW p \in net, HandleSessionPacket(p) PROVE TypeOK'
  BY <1>4, HandleSessionPacketType
<1>5. ASSUME PiggybackAck PROVE TypeOK'
  <2>1. {ComputeAck} \in SUBSET Acks /\ ackNet \in SUBSET Acks
    BY ComputeAckType DEF TypeOK
  <2>2. ackNet' \subseteq Acks
    BY <1>5, <2>1, EmitType DEF PiggybackAck
  <2>. QED  BY <1>5, <2>2 DEF PiggybackAck, TypeOK, senderVars, ch1Vars, ch2Vars, ch3Vars
<1>6. ASSUME NEW g \in SeqNos, AssemblerCleanup(g) PROVE TypeOK'
  <2>1. DOMAIN pending' = SeqNos /\ \A h \in SeqNos : IsGroup(pending'[h])
    BY <1>6 DEF AssemblerCleanup, TypeOK, IsGroup
  <2>2. cleanups' \in 0 .. MaxCleanups
    <3>1. cleanups \in 0 .. MaxCleanups /\ MaxCleanups \in Nat
      BY LinkAssumption DEF TypeOK
    <3>2. cleanups < MaxCleanups /\ cleanups' = cleanups + 1
      BY <1>6 DEF AssemblerCleanup
    <3>. QED  BY <3>1, <3>2
  <2>3. UNCHANGED <<senderVars, net, ackNet, ch1Vars, ch3Vars, ch2Next, reorder,
                    deliveredMax, deliveredSeqs, completed, consumed>>
    BY <1>6 DEF AssemblerCleanup
  <2>. QED  BY <2>1, <2>2, <2>3 DEF TypeOK, senderVars, ch1Vars, ch3Vars
<1>7. ASSUME NetworkLoss PROVE TypeOK'
  <2>1. net' \subseteq net /\ ackNet' \subseteq ackNet
    BY <1>7 DEF NetworkLoss, Lose
  <2>2. net' \subseteq Packets /\ ackNet' \subseteq Acks
    BY <2>1 DEF TypeOK
  <2>3. UNCHANGED <<senderVars, ch1Vars, ch2Vars, ch3Vars, cleanups>>
    BY <1>7 DEF NetworkLoss
  <2>. QED  BY <2>2, <2>3 DEF TypeOK, senderVars, ch1Vars, ch2Vars, ch3Vars
<1>8. CASE UNCHANGED vars
  BY <1>8 DEF vars, TypeOK, senderVars, ch1Vars, ch2Vars, ch3Vars
<1>. QED  BY <1>1, <1>2, <1>3, <1>4, <1>5, <1>6, <1>7, <1>8 DEF Next

\* No queue, window or cache of a session ever exceeds its limit (retrans,
\* ch3_seen, delivered_seqs, completed), and every number stays a u16.
THEOREM TypeCorrect == Spec => []TypeOK
<1>1. Init => TypeOK
  BY InitType
<1>2. TypeOK /\ [Next]_vars => TypeOK'
  BY NextType
<1>. QED  BY <1>1, <1>2, PTL DEF Spec
-----------------------------------------------------------------------------
(* The numbering of packets.                                               *)

\* A packet that was sent, under its own number.
IsIn(l, p) == p.n < Len(l) /\ p = l[p.n + 1]
IsLogged(p) == IsIn(log, p)

\* send_seq is the wire value of the next number, and whatever is in the
\* network or in a queue is a packet that was sent under its own number.
Numbered ==
    /\ sendSeq = Wire(Len(log))
    /\ \A i \in DOMAIN log : log[i].n = i - 1 /\ log[i].seq = Wire(i - 1)
    /\ \A p \in net : IsLogged(p)
    /\ \A ch \in Reliable : \A p \in ToSet(retrans[ch]) : IsLogged(p) /\ p.ch = ch

\* ch1_last is the number of the newest input handed on.
Ch1History ==
    /\ ch1Last = NoSeq <=> ch1Out = <<>>
    /\ ch1Out # <<>> => ch1Last = Wire(ch1Out[Len(ch1Out)])
    /\ \A i \in DOMAIN ch1Out : ch1Out[i] < Len(log)

\* What on_ack leaves in a queue was in it.
LEMMA RestOf ==
    ASSUME NEW q \in Seq(Packets), NEW a
    PROVE  ToSet(Rest(q, a)) \subseteq ToSet(q)
<1>1. AckedPrefix(q, a) \in 0 .. Len(q)
  BY AckedPrefixType
<1>2. ASSUME NEW k \in DOMAIN Rest(q, a) PROVE Rest(q, a)[k] \in ToSet(q)
  <2>1. Rest(q, a)[k] = q[k + AckedPrefix(q, a)] /\ k + AckedPrefix(q, a) \in 1 .. Len(q)
    BY <1>1 DEF Rest
  <2>. QED  BY <2>1 DEF ToSet
<1>. QED  BY <1>2 DEF ToSet

\* As long as nothing is numbered, what is only sent again or taken away
\* leaves the numbering as it is.
LEMMA NumberedFrame ==
    ASSUME Numbered, UNCHANGED <<sendSeq, log>>,
           net' \subseteq net \cup Unacked,
           \A ch \in Reliable : ToSet(retrans'[ch]) \subseteq ToSet(retrans[ch])
    PROVE  Numbered'
<1>1. log' = log
  OBVIOUS
<1>2. \A p \in Unacked : IsLogged(p)
  BY DEF Unacked, Numbered
<1>. QED  BY <1>1, <1>2 DEF Numbered, IsLogged

\* pack_outbound numbers what it sends one after the other.
LEMMA NumberedPackOutbound ==
    ASSUME TypeOK, Numbered, NEW ch \in Channels, NEW parts \in GroupSizes \cup {1},
           PackOutbound(ch, parts)
    PROVE  Numbered'
<1>. DEFINE ok == parts <= Room(ch)
            used == IF ok THEN parts ELSE Room(ch) + 1
            packets == [i \in 1 .. used |-> NewPacket(ch, parts, i - 1, ok)]
            queued == IF ok THEN used ELSE used - 1
<1>1. ch \in 0 .. 3 /\ parts \in Nat
  BY SendArguments
<1>2. Room(ch) \in Nat
  BY <1>1, RoomType
<1>3. used \in Nat /\ queued \in 0 .. used
  BY <1>1, <1>2
<1>4. /\ sendSeq' = WrapAdd(sendSeq, used)
      /\ retrans' = IF ch \in Reliable
                    THEN [retrans EXCEPT ![ch] = @ \o SubSeq(packets, 1, queued)]
                    ELSE retrans
      /\ net' = IF ok THEN Emit(net, ToSet(packets), NetCap) ELSE net
      /\ log' = log \o packets
  BY DEF PackOutbound
<1>5. Len(packets) = used /\ DOMAIN packets = 1 .. used
  BY <1>3
<1>6. \A i \in 1 .. used : /\ packets[i].n = Len(log) + i - 1
                          /\ packets[i].seq = WrapAdd(sendSeq, i - 1)
                          /\ packets[i].ch = ch
  BY <1>3 DEF NewPacket, TypeOK
<1>7. log \in Seq(Packets) /\ Len(log) \in Nat
  BY DEF TypeOK
<1>8. packets \in Seq(Packets)
  <2>1. ok \in BOOLEAN /\ \A i \in 1 .. used : i - 1 \in Nat
    BY <1>3
  <2>2. \A i \in 1 .. used : NewPacket(ch, parts, i - 1, ok) \in Packets
    <3>. HIDE DEF ok, used
    <3>. QED  BY <1>1, <2>1, NewPacketType
  <2>. QED  BY <1>3, <2>2
<1>. HIDE DEF packets, used, queued
<1>9. /\ Len(log') = Len(log) + used
      /\ \A i \in 1 .. Len(log) : log'[i] = log[i]
      /\ \A i \in 1 .. used : log'[Len(log) + i] = packets[i]
  <2>1. Len(log') = Len(log) + used
    <3>1. log' = log \o packets
      BY <1>4
    <3>2. Len(log \o packets) = Len(log) + Len(packets)
      BY <1>7, <1>8
    <3>. QED  BY <1>5, <3>1, <3>2
  <2>2. \A i \in 1 .. Len(log) : log'[i] = log[i]
    BY <1>4, <1>7, <1>8
  <2>3. \A i \in 1 .. used : log'[Len(log) + i] = packets[i]
    BY <1>3, <1>4, <1>5, <1>7, <1>8
  <2>. QED  BY <2>1, <2>2, <2>3
<1>10. sendSeq' = Wire(Len(log'))
  <2>1. sendSeq = Wire(Len(log)) /\ Len(log) \in Int /\ used \in Int
    BY <1>3, <1>7 DEF Numbered
  <2>. QED  BY <1>4, <1>9, <2>1, WireAdd
<1>11. ASSUME NEW i \in DOMAIN log' PROVE log'[i].n = i - 1 /\ log'[i].seq = Wire(i - 1)
  <2>1. i \in 1 .. Len(log) + used
    BY <1>3, <1>4, <1>7, <1>8, <1>9
  <2>2. CASE i <= Len(log)
    BY <1>7, <1>9, <2>1, <2>2 DEF Numbered
  <2>3. CASE i > Len(log)
    <3>. DEFINE j == i - Len(log)
    <3>1. j \in 1 .. used /\ i = Len(log) + j /\ j - 1 \in Int
      BY <1>3, <1>7, <2>1, <2>3
    <3>2. log'[i].n = Len(log) + j - 1 /\ log'[i].seq = WrapAdd(sendSeq, j - 1)
      BY <1>6, <1>9, <3>1
    <3>3. WrapAdd(sendSeq, j - 1) = Wire(Len(log) + (j - 1))
      BY <1>7, <3>1, WireAdd DEF Numbered
    <3>4. Len(log) + (j - 1) = i - 1 /\ Len(log) + j - 1 = i - 1
      BY <1>7, <3>1
    <3>. QED  BY <3>2, <3>3, <3>4
  <2>. QED  BY <1>7, <2>1, <2>2, <2>3
<1>12. ASSUME NEW p, IsIn(log, p), p.n \in Nat PROVE IsIn(log', p)
  BY <1>3, <1>7, <1>9, <1>12 DEF IsIn
<1>13. ASSUME NEW i \in 1 .. used PROVE IsIn(log', packets[i]) /\ packets[i].ch = ch
  <2>1. packets[i].n = Len(log) + i - 1 /\ packets[i].n + 1 = Len(log) + i
    BY <1>6, <1>7
  <2>2. packets[i].n < Len(log')
    BY <1>3, <1>7, <1>9, <2>1
  <2>. QED  BY <1>6, <1>9, <2>1, <2>2 DEF IsIn
<1>14. ASSUME NEW p \in net' PROVE IsIn(log', p)
  <2>1. p \in net \/ p \in ToSet(packets)
    BY <1>4 DEF Emit
  <2>2. p \in net => p.n \in Nat /\ IsIn(log, p)
    BY DEF TypeOK, Numbered, Packets, IsLogged
  <2>3. p \in ToSet(packets) => \E i \in 1 .. used : p = packets[i]
    BY <1>5 DEF ToSet
  <2>. QED  BY <1>12, <1>13, <2>1, <2>2, <2>3
<1>15. ASSUME NEW c \in Reliable, NEW p \in ToSet(retrans'[c])
       PROVE  IsIn(log', p) /\ p.ch = c
  <2>1. retrans[c] \in Seq(Packets) /\ retrans \in [Reliable -> Seq(Packets)]
    BY DEF TypeOK
  <2>2. p \in ToSet(retrans[c]) => p.n \in Nat /\ IsIn(log, p) /\ p.ch = c
    <3>1. p \in ToSet(retrans[c]) => p \in Packets
      BY <2>1 DEF ToSet
    <3>. QED  BY <3>1 DEF Packets, Numbered, IsLogged
  <2>3. p \in ToSet(retrans[c]) \/ (c = ch /\ \E i \in 1 .. used : p = packets[i])
    <3>1. CASE c = ch
      <4>. DEFINE t == SubSeq(packets, 1, queued)
      <4>1. Len(t) = queued /\ t \in Seq(Packets) /\ \A i \in 1 .. queued : t[i] = packets[i]
        BY <1>3, <1>5, <1>8
      <4>2. retrans'[c] = retrans[c] \o t
        BY <1>4, <2>1, <3>1
      <4>. HIDE DEF t
      <4>3. PICK k \in DOMAIN (retrans[c] \o t) : p = (retrans[c] \o t)[k]
        BY <4>2 DEF ToSet
      <4>4. CASE k <= Len(retrans[c])
        BY <2>1, <4>1, <4>3, <4>4 DEF ToSet
      <4>5. CASE k > Len(retrans[c])
        <5>1. k - Len(retrans[c]) \in 1 .. queued /\ p = t[k - Len(retrans[c])]
          BY <1>3, <2>1, <4>1, <4>3, <4>5
        <5>2. k - Len(retrans[c]) \in 1 .. used
          BY <1>3, <5>1
        <5>. QED  BY <3>1, <4>1, <5>1, <5>2
      <4>. QED  BY <1>3, <2>1, <4>1, <4>3, <4>4, <4>5
    <3>2. CASE c # ch
      BY <1>4, <2>1, <3>2
    <3>. QED  BY <3>1, <3>2
  <2>. QED  BY <1>12, <1>13, <2>2, <2>3
<1>. QED  BY <1>10, <1>11, <1>14, <1>15 DEF Numbered, IsLogged

LEMMA NumberedStep == TypeOK /\ Numbered /\ [Next]_vars => Numbered'
<1>. SUFFICES ASSUME TypeOK, Numbered, [Next]_vars PROVE Numbered'
  OBVIOUS
<1>1. ASSUME NEW ch \in Channels, NEW parts \in GroupSizes \cup {1},
             PackOutbound(ch, parts)
      PROVE  Numbered'
  BY <1>1, NumberedPackOutbound
<1>2. ASSUME NEW a \in ackNet, OnAck(a) PROVE Numbered'
  <2>1. ASSUME NEW ch \in Reliable
        PROVE  /\ retrans[ch] \in Seq(Packets)
               /\ retrans'[ch] = Rest(retrans[ch], a)
    BY <1>2 DEF TypeOK, OnAck
  <2>2. \A ch \in Reliable : ToSet(retrans'[ch]) \subseteq ToSet(retrans[ch])
    BY <2>1, RestOf
  <2>3. ASSUME NEW ch \in Reliable PROVE FastRetransmit(ch, a) \subseteq Unacked
    BY <2>1 DEF FastRetransmit, FrontSkipped, Unacked, ToSet
  <2>4. net' \subseteq net \cup Unacked
    BY <1>2, <2>3 DEF OnAck, Emit
  <2>. QED  BY <1>2, <2>2, <2>4, NumberedFrame DEF OnAck
<1>3. ASSUME NEW due \in SUBSET Unacked, MaintainReliable(due) PROVE Numbered'
  BY <1>3, NumberedFrame DEF MaintainReliable, Emit, senderVars
<1>4. ASSUME NEW p \in net, HandleSessionPacket(p) PROVE Numbered'
  BY <1>4, NumberedFrame DEF HandleSessionPacket, senderVars
<1>5. ASSUME PiggybackAck PROVE Numbered'
  BY <1>5, NumberedFrame DEF PiggybackAck, senderVars
<1>6. ASSUME NEW g \in SeqNos, AssemblerCleanup(g) PROVE Numbered'
  BY <1>6, NumberedFrame DEF AssemblerCleanup, senderVars
<1>7. ASSUME NetworkLoss PROVE Numbered'
  BY <1>7, NumberedFrame DEF NetworkLoss, Lose, senderVars
<1>8. CASE UNCHANGED vars
  BY <1>8, NumberedFrame DEF vars, senderVars
<1>. QED  BY <1>1, <1>2, <1>3, <1>4, <1>5, <1>6, <1>7, <1>8 DEF Next

THEOREM AlwaysNumbered == Spec => []Numbered
<1>1. Init => Numbered
  <2>1. Wire(0) = 0
    <3>1. 0 % WireMod = 0
      BY Constants
    <3>. QED  BY <3>1 DEF Wire
  <2>. QED  BY <2>1 DEF Init, Numbered, ToSet
<1>2. TypeOK /\ Numbered /\ [Next]_vars => Numbered'
  BY NumberedStep
<1>. QED  BY <1>1, <1>2, TypeCorrect, PTL DEF Spec
-----------------------------------------------------------------------------
(* Ch1: only newer inputs are handed on.                                   *)

\* An input that handle_session_packet takes for newer is newer, as long as
\* no duplicate is older than half of the sequence space.
LEMMA NewerInput ==
    ASSUME TypeOK, Numbered, Ch1History, Lifetime <= HalfSeq,
           NEW p \in net, HandleSessionPacket(p), p.ch = 1,
           ch1Out # <<>>, SeqNewer(p.seq, ch1Last)
    PROVE  ch1Out[Len(ch1Out)] < p.n
<1>. DEFINE last == ch1Out[Len(ch1Out)]
<1>1. p.n \in Nat /\ p.seq = Wire(p.n) /\ Len(log) \in Nat
  <2>1. p.n \in Nat /\ p.n < Len(log) /\ p = log[p.n + 1] /\ log \in Seq(Packets)
    BY DEF Numbered, IsLogged, IsIn, TypeOK, Packets
  <2>2. p.n + 1 \in DOMAIN log /\ (p.n + 1) - 1 = p.n
    BY <2>1
  <2>3. log[p.n + 1].seq = Wire((p.n + 1) - 1)
    BY <2>2 DEF Numbered
  <2>. QED  BY <2>1, <2>2, <2>3
<1>2. last \in Nat /\ last < Len(log) /\ ch1Last = Wire(last)
  BY DEF Ch1History, TypeOK
<1>3. p \notin Unacked
  BY DEF Unacked, Numbered, Reliable
<1>4. Len(log) - p.n <= Lifetime
  BY <1>3 DEF HandleSessionPacket
<1>. HIDE DEF last
<1>5. Lifetime \in Int /\ HalfSeq \in Int
  BY LinkAssumption, Constants
<1>6. CASE p.n <= last
  <2>1. last - p.n <= HalfSeq
    BY <1>1, <1>2, <1>4, <1>5
  <2>. QED  BY <1>1, <1>2, <1>6, <2>1, NotNewer
<1>. QED  BY <1>1, <1>2, <1>6 DEF last

LEMMA Ch1Step ==
    /\ TypeOK /\ Numbered /\ Ch1History /\ Ch1NewestWins /\ Lifetime <= HalfSeq
    /\ [Next]_vars
    => Ch1History' /\ Ch1NewestWins'
<1>. SUFFICES ASSUME TypeOK, Numbered, Ch1History, Ch1NewestWins, Lifetime <= HalfSeq,
                     [Next]_vars
              PROVE  Ch1History' /\ Ch1NewestWins'
  OBVIOUS
<1>1. log \in Seq(Packets) /\ Len(log) \in Nat /\ ch1Out \in Seq(Nat)
  BY DEF TypeOK
<1>2. ASSUME NEW ch \in Channels, NEW parts \in GroupSizes \cup {1},
             PackOutbound(ch, parts)
      PROVE  UNCHANGED ch1Vars /\ Len(log) <= Len(log')
  <2>. DEFINE ok == parts <= Room(ch)
              used == IF ok THEN parts ELSE Room(ch) + 1
              packets == [i \in 1 .. used |-> NewPacket(ch, parts, i - 1, ok)]
  <2>1. used \in Nat
    <3>1. parts \in Nat /\ ch \in 0 .. 3
      BY SendArguments
    <3>2. Room(ch) \in Nat
      BY <3>1, RoomType
    <3>. QED  BY <3>1, <3>2
  <2>2. UNCHANGED ch1Vars /\ log' = log \o packets
    BY <1>2 DEF PackOutbound
  <2>3. packets \in Seq(Packets) /\ Len(packets) = used
    <3>1. ok \in BOOLEAN /\ ch \in 0 .. 3 /\ parts \in Nat
          /\ \A i \in 1 .. used : i - 1 \in Nat
      BY <2>1, SendArguments
    <3>2. \A i \in 1 .. used : NewPacket(ch, parts, i - 1, ok) \in Packets
      <4>. HIDE DEF ok, used
      <4>. QED  BY <3>1, NewPacketType
    <3>. QED  BY <2>1, <3>2
  <2>. HIDE DEF packets, used
  <2>4. Len(log \o packets) = Len(log) + Len(packets)
    <3>1. log \in Seq(Packets) /\ packets \in Seq(Packets)
      BY <1>1, <2>3
    <3>. QED  BY <3>1
  <2>. QED  BY <1>1, <2>1, <2>2, <2>3, <2>4
<1>3. ASSUME UNCHANGED ch1Vars, Len(log) <= Len(log'), Len(log') \in Nat
      PROVE  Ch1History' /\ Ch1NewestWins'
  BY <1>1, <1>3 DEF ch1Vars, Ch1History, Ch1NewestWins
<1>4. Len(log') \in Nat
  BY NextType DEF TypeOK
<1>5. ASSUME NEW p \in net, HandleSessionPacket(p)
      PROVE  Ch1History' /\ Ch1NewestWins'
  <2>1. UNCHANGED log
    BY <1>5 DEF HandleSessionPacket, senderVars
  <2>2. CASE UNCHANGED ch1Vars
    BY <1>1, <1>3, <2>1, <2>2
  <2>3. CASE ~UNCHANGED ch1Vars
    <3>1. p.ch = 1 /\ HandleCh1(p)
      BY <1>5, <2>3 DEF HandleSessionPacket
    <3>2. /\ ch1Last = NoSeq \/ SeqNewer(p.seq, ch1Last)
          /\ ch1Last' = p.seq /\ ch1Out' = Append(ch1Out, p.n)
      BY <2>3, <3>1 DEF HandleCh1
    <3>3. p.n \in Nat /\ p.n < Len(log) /\ p.seq = Wire(p.n) /\ p.seq # NoSeq
      <4>1. p.n \in Nat /\ p.n < Len(log) /\ p = log[p.n + 1]
        BY DEF Numbered, IsLogged, IsIn, TypeOK, Packets
      <4>2. p.n + 1 \in DOMAIN log /\ (p.n + 1) - 1 = p.n
        BY <1>1, <4>1
      <4>3. log[p.n + 1].seq = Wire((p.n + 1) - 1)
        BY <4>2 DEF Numbered
      <4>4. Wire(p.n) \in SeqNos
        BY <4>1, WireType
      <4>. QED  BY <4>1, <4>2, <4>3, <4>4, Constants DEF NoSeq
    <3>4. ch1Out # <<>> => ch1Out[Len(ch1Out)] < p.n
      BY <1>5, <3>1, <3>2, NewerInput DEF Ch1History
    <3>5. Ch1History'
      <4>1. Len(ch1Out') = Len(ch1Out) + 1 /\ ch1Out'[Len(ch1Out')] = p.n
            /\ \A i \in 1 .. Len(ch1Out) : ch1Out'[i] = ch1Out[i]
        BY <1>1, <3>2, <3>3
      <4>2. ch1Out' # <<>> /\ DOMAIN ch1Out' = 1 .. Len(ch1Out) + 1
        BY <1>1, <3>2, <3>3
      <4>. QED  BY <1>1, <2>1, <3>2, <3>3, <4>1, <4>2 DEF Ch1History
    <3>6. ASSUME NEW i \in DOMAIN ch1Out', NEW j \in DOMAIN ch1Out', i < j
          PROVE  ch1Out'[i] < ch1Out'[j]
      <4>1. i \in 1 .. Len(ch1Out) + 1 /\ j \in 1 .. Len(ch1Out) + 1
        BY <1>1, <3>2, <3>3
      <4>2. CASE j <= Len(ch1Out)
        BY <1>1, <3>2, <3>3, <3>6, <4>1, <4>2 DEF Ch1NewestWins
      <4>3. CASE j = Len(ch1Out) + 1
        <5>1. i \in 1 .. Len(ch1Out) /\ ch1Out'[j] = p.n /\ ch1Out'[i] = ch1Out[i]
          BY <1>1, <3>2, <3>3, <3>6, <4>1, <4>3
        <5>2. ch1Out # <<>> /\ ch1Out[Len(ch1Out)] < p.n /\ ch1Out[Len(ch1Out)] \in Nat
          BY <1>1, <3>4, <5>1
        <5>3. ch1Out[i] <= ch1Out[Len(ch1Out)] /\ ch1Out[i] \in Nat
          <6>1. i \in DOMAIN ch1Out /\ Len(ch1Out) \in DOMAIN ch1Out
                /\ ch1Out[i] \in Nat /\ ch1Out[Len(ch1Out)] \in Nat
            BY <1>1, <5>1
          <6>2. i = Len(ch1Out) \/ i < Len(ch1Out)
            BY <1>1, <5>1
          <6>3. i < Len(ch1Out) => ch1Out[i] < ch1Out[Len(ch1Out)]
            BY <6>1 DEF Ch1NewestWins
          <6>. QED  BY <6>1, <6>2, <6>3
        <5>. QED  BY <3>3, <5>1, <5>2, <5>3
      <4>. QED  BY <1>1, <4>1, <4>2, <4>3
    <3>. QED  BY <3>5, <3>6 DEF Ch1NewestWins
  <2>. QED  BY <2>2, <2>3
<1>6. ASSUME UNCHANGED <<ch1Vars, log>> PROVE Ch1History' /\ Ch1NewestWins'
  BY <1>1, <1>3, <1>4, <1>6
<1>7. ASSUME NEW a \in ackNet, OnAck(a) PROVE UNCHANGED <<ch1Vars, log>>
  BY <1>7 DEF OnAck
<1>8. ASSUME NEW due \in SUBSET Unacked, MaintainReliable(due)
      PROVE  UNCHANGED <<ch1Vars, log>>
  BY <1>8 DEF MaintainReliable, senderVars
<1>9. ASSUME PiggybackAck PROVE UNCHANGED <<ch1Vars, log>>
  BY <1>9 DEF PiggybackAck, senderVars
<1>10. ASSUME NEW g \in SeqNos, AssemblerCleanup(g) PROVE UNCHANGED <<ch1Vars, log>>
  BY <1>10 DEF AssemblerCleanup, senderVars
<1>11. ASSUME NetworkLoss PROVE UNCHANGED <<ch1Vars, log>>
  BY <1>11 DEF NetworkLoss, senderVars
<1>12. CASE UNCHANGED vars
  BY <1>6, <1>12 DEF vars, senderVars
<1>. QED  BY <1>2, <1>3, <1>4, <1>5, <1>6, <1>7, <1>8, <1>9, <1>10, <1>11, <1>12 DEF Next

\* Ch1 hands on ever newer inputs (handle_session_packet, ch1_last), for as
\* long as no duplicate is older than half of the sequence space.
THEOREM Ch1Sequenced == Lifetime <= HalfSeq => (Spec => []Ch1NewestWins)
<1>. SUFFICES ASSUME Lifetime <= HalfSeq PROVE Spec => []Ch1NewestWins
  OBVIOUS
<1>1. Init => Ch1History /\ Ch1NewestWins
  BY DEF Init, Ch1History, Ch1NewestWins
<1>2. TypeOK /\ Numbered /\ Ch1History /\ Ch1NewestWins /\ [Next]_vars
      => Ch1History' /\ Ch1NewestWins'
  BY Ch1Step
<1>. QED  BY <1>1, <1>2, TypeCorrect, AlwaysNumbered, PTL DEF Spec
=============================================================================
