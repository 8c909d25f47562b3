--------------------------- MODULE RoomTickProofs ---------------------------
(***************************************************************************)
(* A room's tick, for every value of the constants: the jitter buffer keeps *)
(* the order of the client, the room is given its inputs one after another, *)
(* a delta is made against a snapshot that was reported, and full ones come *)
(* in time.                                                                *)
(***************************************************************************)
EXTENDS RoomTick, WellFoundedInduction, TLAPS

\* The assumptions in the form the provers use them.
LEMMA Constants ==
    /\ SeqHalf \in Nat \ {0} /\ JitterTicks \in Nat \ {0} /\ JitterCap \in Nat \ {0}
    /\ InputMod \in Nat \ {0} /\ InputMod = SeqHalf + SeqHalf
    /\ Players \subseteq Nat /\ Rtts \subseteq Nat /\ 0 \in Rtts
    /\ TickHz \in Nat \ {0} /\ RingSize \in Nat \ {0} /\ TickMod \in Nat \ {0}
    /\ SnapshotHz \in Nat /\ KeyInterval \in Nat /\ FirstInput \in Nat
    /\ MaxTick \in Nat /\ MaxEvents \in Nat /\ MaxInputs \in Nat
    /\ Skew \in [Players -> Nat]
  BY JitterAssumption, RoomTickAssumption DEF InputMod
-----------------------------------------------------------------------------
(* Numbers modulo M.                                                       *)

\* A multiple of M that is closer to 0 than M is 0.
LEMMA SmallMultiple ==
    ASSUME NEW M \in Nat \ {0}, NEW k \in Int, NEW r \in Int,
           r = k * M, -M < r, r < M
    PROVE  k = 0
<1>1. CASE k >= 1
  <2>1. (k - 1) * M >= 0
    BY <1>1
  <2>2. k * M = (k - 1) * M + M
    OBVIOUS
  <2>. QED  BY <2>1, <2>2
<1>2. CASE k <= -1
  <2>1. (-1 - k) * M >= 0
    BY <1>2
  <2>2. k * M = -((-1 - k) * M) - M
    OBVIOUS
  <2>. QED  BY <2>1, <2>2
<1>. QED  BY <1>1, <1>2

LEMMA Turns ==
    ASSUME NEW M \in Nat \ {0}, NEW a \in Int
    PROVE  a % M \in 0 .. M - 1 /\ \E q \in Int : a = q * M + (a % M)
<1>1. a \div M \in Int /\ a % M \in 0 .. M - 1 /\ a = M * (a \div M) + (a % M)
  OBVIOUS
<1>2. M * (a \div M) = (a \div M) * M
  OBVIOUS
<1>. QED  BY <1>1, <1>2

\* The remainder is the one number of 0 .. M-1 that is congruent.
LEMMA ModUnique ==
    ASSUME NEW M \in Nat \ {0}, NEW a \in Int, NEW k \in Int,
           NEW r \in 0 .. M - 1, a = k * M + r
    PROVE  a % M = r
<1>1. a % M \in 0 .. M - 1
  BY Turns
<1>2. PICK q \in Int : a = q * M + (a % M)
  BY Turns
<1>3. (q - k) * M = r - (a % M)
  <2>1. (q - k) * M = q * M - k * M
    OBVIOUS
  <2>. QED  BY <1>1, <1>2, <2>1
<1>4. q - k \in Int /\ r - (a % M) \in Int /\ -M < r - (a % M) /\ r - (a % M) < M
  BY <1>1
<1>5. q - k = 0
  BY <1>3, <1>4, SmallMultiple
<1>. QED  BY <1>2, <1>5

\* Different numbers that are closer than M have different remainders.
LEMMA ModSame ==
    ASSUME NEW M \in Nat \ {0}, NEW a \in Int, NEW b \in Int,
           -M < a - b, a - b < M, a % M = b % M
    PROVE  a = b
<1>1. PICK q \in Int : a = q * M + (a % M)
  BY Turns
<1>2. PICK t \in Int : b = t * M + (b % M)
  BY Turns
<1>3. a % M \in Int /\ q * M \in Int /\ t * M \in Int
  BY Turns
<1>4. (q - t) * M = a - b
  <2>1. (q - t) * M = q * M - t * M
    OBVIOUS
  <2>. QED  BY <1>1, <1>2, <1>3, <2>1
<1>5. q - t \in Int /\ a - b \in Int
  OBVIOUS
<1>6. q - t = 0
  BY <1>4, <1>5, SmallMultiple
<1>. QED  BY <1>1, <1>2, <1>6

\* The difference of the remainders is the distance, forwards or around.
LEMMA ModSub ==
    ASSUME NEW M \in Nat \ {0}, NEW a \in Int, NEW b \in Int,
           -M <= a - b, a - b < M
    PROVE  ((a % M) - (b % M)) % M = IF a >= b THEN a - b ELSE a - b + M
<1>1. PICK q \in Int : a = q * M + (a % M)
  BY Turns
<1>2. PICK t \in Int : b = t * M + (b % M)
  BY Turns
<1>3. a % M \in Int /\ b % M \in Int
  BY Turns
<1>4. PICK ra : ra = a % M
  OBVIOUS
<1>5. PICK rb : rb = b % M
  OBVIOUS
<1>6. PICK r : r = IF a >= b THEN a - b ELSE a - b + M
  OBVIOUS
<1>7. /\ ra \in Int /\ rb \in Int /\ r \in 0 .. M - 1 /\ ra - rb \in Int
      /\ q * M \in Int /\ t * M \in Int
      /\ (t - q) * M = t * M - q * M /\ (t - q - 1) * M = t * M - q * M - M
  BY <1>3, <1>4, <1>5, <1>6
<1>8. a = q * M + ra /\ b = t * M + rb
  BY <1>1, <1>2, <1>4, <1>5
<1>9. \E k \in Int : ra - rb = k * M + r
  <2>1. CASE a >= b
    <3>1. ra - rb = (t - q) * M + r /\ t - q \in Int
      BY <1>6, <1>7, <1>8, <2>1
    <3>. QED  BY <3>1
  <2>2. CASE a < b
    <3>1. ra - rb = (t - q - 1) * M + r /\ t - q - 1 \in Int
      BY <1>6, <1>7, <1>8, <2>2
    <3>. QED  BY <3>1
  <2>. QED  BY <2>1, <2>2
<1>10. (ra - rb) % M = r
  BY <1>7, <1>9, ModUnique
<1>. QED  BY <1>4, <1>5, <1>6, <1>10

\* One further, on both sides of the wrap.
LEMMA ModNext ==
    ASSUME NEW M \in Nat \ {0}, NEW a \in Int
    PROVE  ((a % M) + 1) % M = (a + 1) % M
<1>1. PICK q \in Int : a = q * M + (a % M)
  BY Turns
<1>2. PICK c : c = a + 1
  OBVIOUS
<1>3. c \in Int
  BY <1>2
<1>4. PICK t \in Int : c = t * M + (c % M)
  BY <1>3, Turns
<1>5. PICK ra : ra = a % M
  OBVIOUS
<1>6. PICK rc : rc = c % M
  OBVIOUS
<1>7. /\ ra \in Int /\ ra + 1 \in Int /\ rc \in 0 .. M - 1
      /\ q * M \in Int /\ t * M \in Int /\ t - q \in Int
      /\ (t - q) * M = t * M - q * M
  BY <1>3, <1>5, <1>6, Turns
<1>8. ra + 1 = (t - q) * M + rc
  BY <1>1, <1>2, <1>4, <1>5, <1>6, <1>7
<1>9. (ra + 1) % M = rc
  BY <1>7, <1>8, ModUnique
<1>. QED  BY <1>2, <1>5, <1>6, <1>9

\* Within half of the range the comparison of two InputSeqs is that of the
\* inputs.
LEMMA InputOrder ==
    ASSUME NEW a \in Int, NEW b \in Int, -SeqHalf < a - b, a - b < SeqHalf
    PROVE  /\ Newer(InputSeq(a), InputSeq(b)) <=> a > b
           /\ InputSeq(a) = InputSeq(b) <=> a = b
           /\ InputSeq(a) = NextSeq(InputSeq(b)) /\ a > b => a = b + 1
<1>1. SeqHalf \in Nat \ {0} /\ InputMod \in Nat \ {0} /\ InputMod = SeqHalf + SeqHalf
  BY Constants
<1>2. (InputSeq(a) - InputSeq(b)) % InputMod = IF a >= b THEN a - b ELSE a - b + InputMod
  <2>1. -InputMod <= a - b /\ a - b < InputMod
    BY <1>1
  <2>. QED  BY <1>1, <2>1, ModSub DEF InputSeq
<1>3. Newer(InputSeq(a), InputSeq(b)) <=> a > b
  BY <1>1, <1>2 DEF Newer
<1>4. InputSeq(a) = InputSeq(b) <=> a = b
  BY <1>1, ModSame DEF InputSeq
<1>5. ASSUME InputSeq(a) = NextSeq(InputSeq(b)), a > b PROVE a = b + 1
  <2>1. a % InputMod = (b + 1) % InputMod
    BY <1>1, <1>5, ModNext DEF InputSeq, NextSeq
  <2>2. -InputMod < a - (b + 1) /\ a - (b + 1) < InputMod /\ b + 1 \in Int
    BY <1>1
  <2>. QED  BY <1>1, <2>1, <2>2, ModSame
<1>. QED  BY <1>3, <1>4, <1>5
-----------------------------------------------------------------------------
(* Sets of numbers, and sequences.                                         *)

LEMMA MinNat ==
    ASSUME NEW S \in SUBSET Nat, S # {}
    PROVE  Min(S) \in S /\ \A x \in S : Min(S) <= x
<1>1. PICK m \in S : \A x \in S : <<x, m>> \notin OpToRel(<, Nat)
  BY NatLessThanWellFounded, WFMin
<1>2. ASSUME NEW x \in S PROVE m <= x
  <2>1. x \in Nat /\ m \in Nat
    OBVIOUS
  <2>2. ~(x < m)
    BY <1>1, <2>1, Zenon DEF OpToRel
  <2>. QED  BY <2>1, <2>2
<1>. QED  BY <1>2 DEF Min

LEMMA MaxUpTo ==
    ASSUME NEW n \in Nat, NEW S \in SUBSET (0 .. n), S # {}
    PROVE  Max(S) \in S /\ \A x \in S : Max(S) >= x
<1>. DEFINE D == {n - x : x \in S}
<1>1. D \in SUBSET Nat /\ D # {}
  <2>1. \A x \in S : n - x \in Nat
    OBVIOUS
  <2>2. PICK x \in S : TRUE
    OBVIOUS
  <2>3. n - x \in D
    BY <2>2
  <2>. QED  BY <2>1, <2>3
<1>2. Min(D) \in D /\ \A y \in D : Min(D) <= y
  BY <1>1, MinNat
<1>3. PICK m \in S : Min(D) = n - m
  BY <1>2
<1>4. ASSUME NEW x \in S PROVE m >= x
  <2>1. n - x \in D /\ x \in Nat /\ m \in Nat
    OBVIOUS
  <2>2. Min(D) <= n - x
    BY <1>2, <2>1, Zenon
  <2>3. n - m <= n - x
    BY <1>3, <2>2
  <2>. QED  BY <2>1, <2>3
<1>. QED  BY <1>4 DEF Max

LEMMA Concatenated ==
    ASSUME NEW S, NEW q \in Seq(S), NEW r \in Seq(S)
    PROVE  /\ q \o r \in Seq(S) /\ Len(q \o r) = Len(q) + Len(r)
           /\ DOMAIN (q \o r) = 1 .. Len(q) + Len(r)
           /\ \A i \in 1 .. Len(q) : (q \o r)[i] = q[i]
           /\ \A i \in 1 .. Len(r) : (q \o r)[Len(q) + i] = r[i]
  OBVIOUS

LEMMA Cut ==
    ASSUME NEW S, NEW q \in Seq(S), NEW a \in 1 .. Len(q) + 1, NEW b \in Int, b <= Len(q)
    PROVE  /\ SubSeq(q, a, b) \in Seq(S)
           /\ a <= b + 1 => Len(SubSeq(q, a, b)) = b - a + 1
           /\ a > b => SubSeq(q, a, b) = <<>>
           /\ \A i \in 1 .. b - a + 1 : SubSeq(q, a, b)[i] = q[a + i - 1]
  OBVIOUS

\* The sequence r over S is q with e at the place k.
HasBetween(r, S, q, k, e) ==
    /\ r \in Seq(S) /\ Len(r) = Len(q) + 1
    /\ \A i \in 1 .. Len(r) :
          r[i] = IF i < k THEN q[i] ELSE IF i = k THEN e ELSE q[i - 1]

\* InsertAt of SequencesExt.
LEMMA Inserted ==
    ASSUME NEW S, NEW q \in Seq(S), NEW k \in 1 .. Len(q) + 1, NEW e \in S,
           NEW r, r = InsertAt(q, k, e)
    PROVE  HasBetween(r, S, q, k, e)
<1>1. PICK front : front = SubSeq(q, 1, k - 1)
  OBVIOUS
<1>2. PICK back : back = SubSeq(q, k, Len(q))
  OBVIOUS
<1>3. /\ front \in Seq(S) /\ Len(front) = k - 1
      /\ \A i \in 1 .. k - 1 : front[i] = q[i]
  BY <1>1, Cut
<1>4. /\ back \in Seq(S) /\ Len(back) = Len(q) - k + 1
      /\ \A i \in 1 .. Len(q) - k + 1 : back[i] = q[k + i - 1]
  BY <1>2, Cut
<1>5. PICK one : one = <<e>>
  OBVIOUS
<1>6. one \in Seq(S) /\ Len(one) = 1 /\ one[1] = e
  BY <1>5
<1>7. PICK fe : fe = front \o one
  OBVIOUS
<1>8. /\ fe \in Seq(S) /\ Len(fe) = k /\ fe[k] = e
      /\ \A i \in 1 .. k - 1 : fe[i] = q[i]
  <2>1. k - 1 + 1 = k /\ k - 1 \in Nat
    OBVIOUS
  <2>2. /\ fe \in Seq(S) /\ Len(fe) = Len(front) + Len(one)
        /\ \A i \in 1 .. Len(front) : fe[i] = front[i]
        /\ \A i \in 1 .. Len(one) : fe[Len(front) + i] = one[i]
    <3>1. front \in Seq(S) /\ one \in Seq(S)
      BY <1>3, <1>6
    <3>. QED  BY ONLY <1>7, <3>1, Concatenated
  <2>. QED  BY <1>3, <1>6, <2>1, <2>2
<1>9. r = fe \o back
  BY <1>1, <1>2, <1>5, <1>7 DEF InsertAt
<1>10. r \in Seq(S) /\ Len(r) = Len(q) + 1
  <2>1. r \in Seq(S) /\ Len(r) = Len(fe) + Len(back)
    BY <1>4, <1>8, <1>9, Concatenated
  <2>. QED  BY <1>4, <1>8, <2>1
<1>11. ASSUME NEW i \in 1 .. Len(r)
       PROVE  r[i] = IF i < k THEN q[i] ELSE IF i = k THEN e ELSE q[i - 1]
  <2>1. CASE i <= k
    BY <1>4, <1>8, <1>9, <2>1
  <2>2. CASE i > k
    <3>1. i - k \in 1 .. Len(back) /\ i = Len(fe) + (i - k)
      BY <1>4, <1>8, <1>10, <2>2
    <3>2. r[i] = back[i - k]
      BY <1>4, <1>8, <1>9, <3>1, Concatenated
    <3>. QED  BY <1>4, <2>2, <3>1, <3>2
  <2>. QED  BY <2>1, <2>2
<1>. QED  BY <1>10, <1>11 DEF HasBetween

\* Append, and Tail.
LEMMA Appended ==
    ASSUME NEW S, NEW q \in Seq(S), NEW e \in S, NEW r, r = Append(q, e)
    PROVE  /\ r \in Seq(S) /\ Len(r) = Len(q) + 1 /\ r[Len(q) + 1] = e
           /\ \A i \in 1 .. Len(q) : r[i] = q[i]
  OBVIOUS

LEMMA Tailed ==
    ASSUME NEW S, NEW q \in Seq(S), q # <<>>, NEW r, r = Tail(q)
    PROVE  /\ r \in Seq(S) /\ Len(r) = Len(q) - 1
           /\ \A i \in 1 .. Len(r) : r[i] = q[i + 1]
  OBVIOUS
-----------------------------------------------------------------------------
(* What the operators on a player return.                                  *)

Inputs == [n : Nat, seq : 0 .. InputMod - 1, ct : Nat, due : Nat]

\* A player whose buffer and ring are within their capacities.
Fits(s) == s \in PState /\ Len(s.jbuf) <= JitterCap /\ Len(s.ring) <= RingSize

\* A new input is put between the older and the newer ones, and a full buffer
\* loses its head for it.
LEMMA InsertIs ==
    ASSUME NEW s \in PState, Len(s.jbuf) <= JitterCap, NEW e \in Inputs, ~Known(s, e)
    PROVE  \E kept \in Seq(Inputs), pos \in Nat :
              /\ kept = s.jbuf \/ (s.jbuf # <<>> /\ kept = Tail(s.jbuf))
              /\ Len(kept) < JitterCap /\ pos \in 1 .. Len(kept) + 1
              /\ InsertJitter(s, e) = [s EXCEPT !.jbuf = InsertAt(kept, pos, e)]
              /\ \A i \in 1 .. pos - 1 : ~Newer(kept[i].seq, e.seq)
              /\ pos <= Len(kept) => Newer(kept[pos].seq, e.seq)
<1>1. s.jbuf \in Seq(Inputs) /\ JitterCap \in Nat \ {0}
  BY Constants DEF PState, Inputs
<1>2. PICK kept : kept = IF Len(s.jbuf) >= JitterCap THEN Tail(s.jbuf) ELSE s.jbuf
  OBVIOUS
<1>3. /\ kept \in Seq(Inputs) /\ Len(kept) < JitterCap
      /\ kept = s.jbuf \/ (s.jbuf # <<>> /\ kept = Tail(s.jbuf))
  BY <1>1, <1>2
<1>4. PICK newer : newer = {i \in DOMAIN kept : Newer(kept[i].seq, e.seq)}
  OBVIOUS
<1>5. newer \in SUBSET Nat
  BY <1>3, <1>4
<1>6. PICK pos : pos = IF newer = {} THEN Len(kept) + 1 ELSE Min(newer)
  OBVIOUS
<1>7. InsertJitter(s, e) = [s EXCEPT !.jbuf = InsertAt(kept, pos, e)]
  BY <1>2, <1>4, <1>6, Zenon DEF InsertJitter
<1>8. CASE newer = {}
  <2>1. pos \in Nat /\ pos = Len(kept) + 1
    BY <1>3, <1>6, <1>8
  <2>2. \A i \in 1 .. pos - 1 : ~Newer(kept[i].seq, e.seq)
    BY <1>3, <1>4, <1>8, <2>1
  <2>. QED  BY <1>3, <1>7, <2>1, <2>2
<1>9. CASE newer # {}
  <2>1. pos \in newer /\ \A i \in newer : pos <= i
    BY <1>5, <1>6, <1>9, MinNat
  <2>2. pos \in Nat /\ pos \in 1 .. Len(kept) /\ Newer(kept[pos].seq, e.seq)
    BY <1>3, <1>4, <2>1
  <2>3. \A i \in 1 .. pos - 1 : ~Newer(kept[i].seq, e.seq)
    BY <1>3, <1>4, <2>1, <2>2
  <2>4. pos \in 1 .. Len(kept) + 1
    BY <1>3, <2>2
  <2>. QED  BY <1>3, <1>7, <2>2, <2>3, <2>4, Zenon
<1>. QED  BY <1>8, <1>9

\* The first k inputs of the buffer are taken, each of which follows the one
\* before it.
LEMMA ReadyIs ==
    ASSUME NEW s \in PState, NEW t \in Nat
    PROVE  \E k \in 0 .. Len(s.jbuf) :
              /\ Ready(s, t) = SubSeq(s.jbuf, 1, k)
              /\ \A i \in 1 .. k : Follows(s, i)
              /\ k = 0 => AfterDelivery(s, t) = s
              /\ k > 0 => AfterDelivery(s, t) =
                             [s EXCEPT !.jbuf = SubSeq(s.jbuf, k + 1, Len(s.jbuf)),
                                       !.lastSeq = s.jbuf[k].seq, !.hasInput = TRUE,
                                       !.last = s.jbuf[k].n]
<1>1. s.jbuf \in Seq(Inputs) /\ Len(s.jbuf) \in Nat
  BY DEF PState, Inputs
<1>2. PICK S : S = {k \in 0 .. Len(s.jbuf) :
                       \A i \in 1 .. k : s.jbuf[i].due <= t /\ Follows(s, i)}
  OBVIOUS
<1>3. S \in SUBSET (0 .. Len(s.jbuf)) /\ 0 \in S
  BY <1>1, <1>2
<1>4. Max(S) \in S
  BY <1>1, <1>3, MaxUpTo
<1>5. PICK k : k = Max(S)
  OBVIOUS
<1>6. k \in 0 .. Len(s.jbuf) /\ \A i \in 1 .. k : Follows(s, i)
  BY <1>2, <1>4, <1>5
<1>7. Ready(s, t) = SubSeq(s.jbuf, 1, k)
  BY <1>2, <1>5, Zenon DEF Ready, ReadyCount
<1>8. PICK q : q = Ready(s, t)
  OBVIOUS
<1>9. Len(q) = k /\ (k > 0 => q[k] = s.jbuf[k]) /\ (k = 0 <=> q = <<>>)
  <2>1. k \in Int /\ k <= Len(s.jbuf) /\ 1 \in 1 .. Len(s.jbuf) + 1
    BY <1>1, <1>6
  <2>2. /\ q \in Seq(Inputs) /\ (1 <= k + 1 => Len(q) = k - 1 + 1)
        /\ \A i \in 1 .. k - 1 + 1 : q[i] = s.jbuf[1 + i - 1]
    BY <1>1, <1>7, <1>8, <2>1, Cut
  <2>3. Len(q) = k
    BY <1>6, <2>2
  <2>. QED  BY <1>6, <2>2, <2>3
<1>10. k = 0 => AfterDelivery(s, t) = s
  BY <1>8, <1>9, Zenon DEF AfterDelivery
<1>11. k > 0 => AfterDelivery(s, t) =
                   [s EXCEPT !.jbuf = SubSeq(s.jbuf, k + 1, Len(s.jbuf)),
                             !.lastSeq = s.jbuf[k].seq, !.hasInput = TRUE,
                             !.last = s.jbuf[k].n]
  <2>1. AfterDelivery(s, t) =
          IF q = <<>> THEN s
          ELSE [s EXCEPT !.jbuf = SubSeq(s.jbuf, Len(q) + 1, Len(s.jbuf)),
                         !.lastSeq = q[Len(q)].seq, !.hasInput = TRUE,
                         !.last = q[Len(q)].n]
    BY <1>8 DEF AfterDelivery, Last
  <2>2. ASSUME k > 0 PROVE q # <<>> /\ Len(q) = k /\ q[Len(q)] = s.jbuf[k]
    BY <1>6, <1>9, <2>2
  <2>. QED  BY <2>1, <2>2, Zenon
<1>. QED  BY <1>6, <1>7, <1>10, <1>11
-----------------------------------------------------------------------------
(* Type correctness.                                                       *)

LEMMA NewFits == Fits(NewPlayer) /\ NewPlayer.force \in BOOLEAN
<1>1. PICK none : none = <<>>
  OBVIOUS
<1>2. none \in Seq(Inputs) /\ none \in Seq(Nat) /\ Len(none) = 0
  BY <1>1
<1>3. 0 \in 0 .. InputMod - 1 /\ 0 \in 0 .. TickMod - 1 /\ JitterCap >= 0 /\ RingSize >= 0
  BY Constants
<1>4. NewPlayer = [jbuf |-> none, lastSeq |-> 0, hasInput |-> FALSE, last |-> None,
                   rtt |-> 0, recv |-> 0, ring |-> none, force |-> FALSE, degrade |-> 0]
  BY <1>1 DEF NewPlayer
<1>5. NewPlayer \in PState
  BY <1>2, <1>3, <1>4, Constants DEF PState, Inputs
<1>6. NewPlayer.jbuf = none /\ NewPlayer.ring = none /\ NewPlayer.force = FALSE
  BY <1>4
<1>. QED  BY <1>2, <1>3, <1>5, <1>6 DEF Fits

LEMMA EntryType ==
    ASSUME NEW p \in Players, NEW n \in Nat, n >= FirstInput, NEW rtt \in Rtts,
           NEW t \in Nat
    PROVE  /\ Entry(n, n - FirstInput + Skew[p], t + Depth(rtt)) \in Inputs
           /\ Entry(n, n - FirstInput + Skew[p], t + Depth(rtt)).n = n
           /\ Entry(n, n - FirstInput + Skew[p], t + Depth(rtt)).seq = InputSeq(n)
<1>1. Skew[p] \in Nat /\ rtt \in Nat /\ JitterTicks \in Nat /\ FirstInput \in Nat
      /\ InputMod \in Nat \ {0}
  BY Constants
<1>2. n - FirstInput + Skew[p] \in Nat
  BY <1>1
<1>3. rtt \div 60 \in Nat
  BY <1>1
<1>4. t + Depth(rtt) \in Nat
  BY <1>1, <1>3 DEF Depth
<1>5. InputSeq(n) \in 0 .. InputMod - 1
  BY <1>1 DEF InputSeq
<1>. QED  BY <1>2, <1>4, <1>5 DEF Entry, Inputs

LEMMA InsertFits ==
    ASSUME NEW s, Fits(s), NEW e \in Inputs
    PROVE  /\ Fits(InsertJitter(s, e))
           /\ InsertJitter(s, e).ring = s.ring /\ InsertJitter(s, e).recv = s.recv
           /\ InsertJitter(s, e).rtt = s.rtt
<1>1. s \in PState /\ Len(s.jbuf) <= JitterCap
  BY DEF Fits
<1>2. CASE Known(s, e)
  BY <1>2 DEF InsertJitter
<1>3. CASE ~Known(s, e)
  <2>1. PICK kept \in Seq(Inputs), pos \in Nat :
           /\ Len(kept) < JitterCap /\ pos \in 1 .. Len(kept) + 1
           /\ InsertJitter(s, e) = [s EXCEPT !.jbuf = InsertAt(kept, pos, e)]
    BY <1>1, <1>3, InsertIs
  <2>2. PICK buf : buf = InsertAt(kept, pos, e)
    OBVIOUS
  <2>3. buf \in Seq(Inputs) /\ Len(buf) = Len(kept) + 1
    <3>1. kept \in Seq(Inputs) /\ e \in Inputs /\ pos \in 1 .. Len(kept) + 1
      BY <2>1
    <3>2. HasBetween(buf, Inputs, kept, pos, e)
      BY ONLY <2>2, <3>1, Inserted
    <3>. QED  BY ONLY <3>2 DEF HasBetween
  <2>4. Len(buf) <= JitterCap
    BY <2>1, <2>3, Constants
  <2>5. InsertJitter(s, e) = [s EXCEPT !.jbuf = buf]
    BY <2>1, <2>2
  <2>. QED  BY <2>3, <2>4, <2>5 DEF Fits, PState, Inputs
<1>. QED  BY <1>2, <1>3

LEMMA DeliveryFits ==
    ASSUME NEW s, Fits(s), NEW t \in Nat
    PROVE  /\ Fits(AfterDelivery(s, t))
           /\ AfterDelivery(s, t).ring = s.ring /\ AfterDelivery(s, t).recv = s.recv
           /\ AfterDelivery(s, t).force = s.force
           /\ Ready(s, t) \in Seq(Inputs)
<1>1. s \in PState /\ Len(s.jbuf) <= JitterCap /\ s.jbuf \in Seq(Inputs)
  BY DEF Fits, PState, Inputs
<1>2. PICK k \in 0 .. Len(s.jbuf) :
         /\ Ready(s, t) = SubSeq(s.jbuf, 1, k)
         /\ k = 0 => AfterDelivery(s, t) = s
         /\ k > 0 => AfterDelivery(s, t) =
                        [s EXCEPT !.jbuf = SubSeq(s.jbuf, k + 1, Len(s.jbuf)),
                                  !.lastSeq = s.jbuf[k].seq, !.hasInput = TRUE,
                                  !.last = s.jbuf[k].n]
  BY <1>1, ReadyIs
<1>3. Ready(s, t) \in Seq(Inputs)
  <2>1. 1 \in 1 .. Len(s.jbuf) + 1 /\ k \in Int /\ k <= Len(s.jbuf)
    BY <1>1
  <2>. QED  BY <1>1, <1>2, <2>1, Cut
<1>4. CASE k = 0
  BY <1>2, <1>3, <1>4
<1>5. CASE k > 0
  <2>1. PICK rest : rest = SubSeq(s.jbuf, k + 1, Len(s.jbuf))
    OBVIOUS
  <2>2. rest \in Seq(Inputs) /\ Len(rest) <= JitterCap
    <3>1. k + 1 \in 1 .. Len(s.jbuf) + 1 /\ Len(s.jbuf) \in Int /\ k \in Nat
      BY <1>1, <1>5
    <3>2. rest \in Seq(Inputs) /\ Len(rest) = Len(s.jbuf) - (k + 1) + 1
      <4>1. k + 1 <= Len(s.jbuf) + 1
        BY <3>1
      <4>. QED  BY <1>1, <2>1, <3>1, <4>1, Cut
    <3>. QED  BY <1>1, <3>1, <3>2, Constants
  <2>3. PICK last : last = s.jbuf[k]
    OBVIOUS
  <2>4. last \in Inputs
    BY <1>1, <1>5, <2>3
  <2>5. AfterDelivery(s, t) = [s EXCEPT !.jbuf = rest, !.lastSeq = last.seq,
                                        !.hasInput = TRUE, !.last = last.n]
    BY <1>2, <1>5, <2>1, <2>3
  <2>6. last.seq \in 0 .. InputMod - 1 /\ last.n \in Nat
    BY <2>4 DEF Inputs
  <2>. QED  BY <1>3, <2>2, <2>5, <2>6 DEF Fits, PState, Inputs
<1>. QED  BY <1>4, <1>5

LEMMA PushFits ==
    ASSUME NEW ring \in Seq(Nat), Len(ring) <= RingSize, NEW t \in Nat
    PROVE  PushBaseline(ring, t) \in Seq(Nat) /\ Len(PushBaseline(ring, t)) <= RingSize
<1>1. PICK r : r = Append(ring, t)
  OBVIOUS
<1>2. r \in Seq(Nat) /\ Len(r) = Len(ring) + 1
  BY <1>1, Appended
<1>3. PushBaseline(ring, t) = IF Len(r) > RingSize THEN Tail(r) ELSE r
  BY <1>1 DEF PushBaseline
<1>4. RingSize \in Nat \ {0} /\ Len(ring) \in Nat
  BY Constants
<1>. QED  BY <1>2, <1>3, <1>4

LEMMA SnappedFits ==
    ASSUME NEW s, Fits(s), tick \in Nat
    PROVE  Fits(Snapped(s))
<1>1. PICK ring : ring = PushBaseline(s.ring, tick)
  OBVIOUS
<1>2. ring \in Seq(Nat) /\ Len(ring) <= RingSize
  BY <1>1, PushFits DEF Fits, PState
<1>3. Snapped(s) = IF Scheduled THEN [s EXCEPT !.force = FALSE, !.ring = ring] ELSE s
  BY <1>1 DEF Snapped
<1>. QED  BY <1>2, <1>3 DEF Fits, PState

LEMMA SettledFits ==
    ASSUME NEW s, Fits(s), NEW use
    PROVE  Fits(Settled(s, use))
<1>1. s.degrade \in 0 .. 2
  BY DEF Fits, PState
<1>2. CASE use = "over" /\ s.degrade < 2
  <2>1. Settled(s, use) = [s EXCEPT !.degrade = @ + 1]
    BY <1>2 DEF Settled
  <2>2. PICK d : d = s.degrade + 1
    OBVIOUS
  <2>3. d \in 0 .. 2 /\ Settled(s, use) = [s EXCEPT !.degrade = d]
    BY <1>1, <1>2, <2>1, <2>2
  <2>. QED  BY <2>3 DEF Fits, PState
<1>3. CASE ~(use = "over" /\ s.degrade < 2) /\ use = "half" /\ s.degrade > 0
  <2>1. Settled(s, use) = [s EXCEPT !.degrade = @ - 1]
    BY <1>3 DEF Settled
  <2>2. PICK d : d = s.degrade - 1
    OBVIOUS
  <2>3. d \in 0 .. 2 /\ Settled(s, use) = [s EXCEPT !.degrade = d]
    BY <1>1, <1>3, <2>1, <2>2
  <2>. QED  BY <2>3 DEF Fits, PState
<1>4. CASE ~(use = "over" /\ s.degrade < 2) /\ ~(use = "half" /\ s.degrade > 0)
  <2>1. Settled(s, use) = s
    BY <1>4 DEF Settled
  <2>. QED  BY <2>1
<1>. QED  BY <1>2, <1>3, <1>4

LEMMA HereFits ==
    ASSUME TypeOK, NEW p \in Here
    PROVE  p \in Players /\ Fits(st[p])
  BY DEF TypeOK, Here, Fits

PlayersOK ==
    /\ st \in [Players -> PState \cup {None}]
    /\ \A p \in Here : Len(st[p].jbuf) <= JitterCap /\ Len(st[p].ring) <= RingSize

\* One player changes, or leaves.
LEMMA PlayerChanges ==
    ASSUME TypeOK, NEW p \in Players, NEW s, Fits(s) \/ s = None,
           st' = [st EXCEPT ![p] = s]
    PROVE  PlayersOK'
<1>1. st \in [Players -> PState \cup {None}] /\ s \in PState \cup {None}
  BY DEF TypeOK, Fits
<1>2. st' \in [Players -> PState \cup {None}]
  BY <1>1
<1>3. ASSUME NEW q \in Here'
      PROVE  Len(st'[q].jbuf) <= JitterCap /\ Len(st'[q].ring) <= RingSize
  <2>1. q \in Players /\ st'[q] # None
    BY <1>3 DEF Here
  <2>2. CASE q = p
    BY <1>1, <2>1, <2>2 DEF Fits
  <2>3. CASE q # p
    <3>1. st'[q] = st[q] /\ q \in Here
      BY <1>1, <2>1, <2>3 DEF Here
    <3>. QED  BY <3>1 DEF TypeOK
  <2>. QED  BY <2>2, <2>3
<1>. QED  BY <1>2, <1>3 DEF PlayersOK

LEMMA InitType == Init => TypeOK
<1>. SUFFICES ASSUME Init PROVE TypeOK
  OBVIOUS
<1>. USE DEF Init
<1>1. tick \in 0 .. MaxTick /\ overload \in BOOLEAN /\ panicked \in BOOLEAN
      /\ events \in 0 .. MaxEvents
  <2>1. tick = 0 /\ overload = FALSE /\ panicked = FALSE /\ events = 0
    OBVIOUS
  <2>2. MaxTick >= 0 /\ MaxEvents >= 0 /\ MaxTick \in Nat /\ MaxEvents \in Nat
    BY Constants
  <2>3. tick \in 0 .. MaxTick /\ events \in 0 .. MaxEvents
    BY ONLY <2>1, <2>2
  <2>. QED  BY ONLY <2>1, <2>3, Zenon
<1>2. PICK new : new = NewPlayer
  OBVIOUS
<1>3. Fits(new)
  BY <1>2, NewFits
<1>4. st = [p \in Players |-> new]
  BY <1>2
<1>5. PlayersOK
  BY <1>3, <1>4 DEF PlayersOK, Here, Fits
<1>6. PICK none : none = <<>>
  OBVIOUS
<1>7. none \in Seq(Nat)
  BY <1>6
<1>8. heard \in [Players -> Seq(Nat)]
  BY <1>6, <1>7
<1>9. /\ made \in [Players -> SUBSET Nat] /\ told \in [Players -> Nat]
      /\ snap \in [Players -> [base : Nat \cup {None}, told : Nat] \cup {None}]
      /\ since \in [Players -> Nat] /\ lastFull \in [Players -> Nat]
  OBVIOUS
<1>. QED  BY <1>1, <1>5, <1>8, <1>9 DEF TypeOK, PlayersOK

LEMMA EventType == TypeOK /\ Event => TypeOK'
<1>. SUFFICES ASSUME TypeOK, Event PROVE TypeOK'
  OBVIOUS
<1>. USE DEF TypeOK
<1>1. events' \in 0 .. MaxEvents
  BY Constants DEF Event
<1>2. PICK none : none = <<>>
  OBVIOUS
<1>3. none \in Seq(Nat)
  BY <1>2
<1>4. CASE Overload
  BY <1>1, <1>4 DEF Overload, historyVars, Here
<1>5. ASSUME NEW p \in Players, Join(p) PROVE TypeOK'
  <2>1. PICK new : new = NewPlayer
    OBVIOUS
  <2>2. Fits(new) /\ st' = [st EXCEPT ![p] = new]
    BY <1>5, <2>1, NewFits DEF Join
  <2>3. PlayersOK'
    BY <2>2, PlayerChanges
  <2>4. heard' = [heard EXCEPT ![p] = none]
    BY <1>2, <1>5 DEF Join
  <2>5. heard' \in [Players -> Seq(Nat)]
    BY <1>3, <2>4
  <2>. QED  BY <1>1, <1>5, <2>3, <2>5 DEF Join, PlayersOK
<1>6. ASSUME NEW p \in Players, NEW s, Update(p, s), Fits(s) \/ s = None PROVE TypeOK'
  <2>1. st' = [st EXCEPT ![p] = s]
    BY <1>6 DEF Update
  <2>2. PlayersOK'
    BY <1>6, <2>1, PlayerChanges
  <2>. QED  BY <1>1, <1>6, <2>2 DEF Update, historyVars, PlayersOK
<1>7. ASSUME NEW p \in Players, Leave(p) PROVE TypeOK'
  BY <1>6, <1>7 DEF Leave
<1>8. ASSUME NEW p \in Players, NEW rtt \in Rtts, Stats(p, rtt) PROVE TypeOK'
  <2>1. Fits(st[p])
    BY <1>8, HereFits DEF Stats, Update, Here
  <2>2. Fits([st[p] EXCEPT !.rtt = rtt])
    BY <2>1 DEF Fits, PState
  <2>. QED  BY <1>6, <1>8, <2>2 DEF Stats
<1>9. ASSUME NEW p \in Players, RequestKeyframe(p) PROVE TypeOK'
  <2>1. Fits(st[p])
    BY <1>9, HereFits DEF RequestKeyframe, Update, Here
  <2>2. Fits([st[p] EXCEPT !.force = TRUE])
    BY <2>1 DEF Fits, PState
  <2>. QED  BY <1>6, <1>9, <2>2 DEF RequestKeyframe
<1>10. ASSUME NEW p \in Players, Resume(p) PROVE TypeOK'
  <2>1. Fits(st[p])
    BY <1>10, HereFits DEF Resume, Here
  <2>2. PICK s : s = Resumed(st[p])
    OBVIOUS
  <2>3. s = [st[p] EXCEPT !.ring = none, !.jbuf = none, !.lastSeq = 0, !.hasInput = FALSE]
    BY <1>2, <2>2 DEF Resumed
  <2>4. none \in Seq(Inputs) /\ Len(none) = 0
    BY <1>2
  <2>5. 0 \in 0 .. InputMod - 1 /\ JitterCap >= 0 /\ RingSize >= 0
    BY Constants
  <2>6. Fits(s)
    BY <1>3, <2>1, <2>3, <2>4, <2>5 DEF Fits, PState, Inputs
  <2>7. PlayersOK'
    <3>1. st' = [st EXCEPT ![p] = s]
      BY <1>10, <2>2 DEF Resume
    <3>. QED  BY <2>6, <3>1, PlayerChanges
  <2>8. heard' = [heard EXCEPT ![p] = none]
    BY <1>2, <1>10 DEF Resume
  <2>9. heard' \in [Players -> Seq(Nat)]
    BY <1>3, <2>8
  <2>. QED  BY <1>1, <1>10, <2>7, <2>9 DEF Resume, PlayersOK
<1>11. ASSUME NEW p \in Players, NEW n \in FirstInput .. FirstInput + MaxInputs - 1,
              NEW r \in 0 .. MaxTick, HandleCh1Input(p, n, r)
       PROVE  TypeOK'
  <2>1. Fits(st[p])
    BY <1>11, HereFits DEF HandleCh1Input, Here
  <2>2. PICK e : e = Entry(n, n - FirstInput + Skew[p], tick + Depth(st[p].rtt))
    OBVIOUS
  <2>3. n \in Nat /\ n >= FirstInput /\ tick \in Nat /\ st[p].rtt \in Rtts /\ r \in Nat
    BY <2>1, Constants DEF Fits, PState
  <2>4. e \in Inputs
    BY <2>2, <2>3, EntryType
  <2>5. PICK s : s = InsertJitter(st[p], e)
    OBVIOUS
  <2>6. Fits(s)
    BY <2>1, <2>4, <2>5, InsertFits
  <2>7. r % TickMod \in 0 .. TickMod - 1
    BY <2>3, Constants
  <2>8. Fits([s EXCEPT !.recv = r % TickMod])
    BY <2>6, <2>7 DEF Fits, PState
  <2>9. st' = [st EXCEPT ![p] = [s EXCEPT !.recv = r % TickMod]]
    BY <1>11, <2>2, <2>5 DEF HandleCh1Input
  <2>10. PlayersOK'
    BY <2>8, <2>9, PlayerChanges
  <2>. QED  BY <1>1, <1>11, <2>3, <2>10 DEF HandleCh1Input, PlayersOK
<1>. QED  BY <1>4, <1>5, <1>7, <1>8, <1>9, <1>10, <1>11, Zenon DEF Event

LEMMA TickType == TypeOK /\ DoTick => TypeOK'
<1>. SUFFICES ASSUME TypeOK, DoTick PROVE TypeOK'
  OBVIOUS
<1>1. tick \in 0 .. MaxTick /\ tick \in Nat /\ tick < MaxTick /\ events' = events
  BY Constants DEF TypeOK, DoTick
<1>2. PICK order \in SetToSeqs(Here) :
         \/ Panic(order)
         \/ \E uses \in [Here -> Uses] :
               /\ ~SettlesNow => \A p \in Here : uses[p] = "between"
               /\ Complete(order, uses)
  BY DEF DoTick
<1>3. CASE Panic(order)
  BY <1>1, <1>3 DEF Panic, TypeOK, historyVars, Here
<1>4. ASSUME NEW uses, Complete(order, uses) PROVE TypeOK'
  <2>1. tick' \in 0 .. MaxTick
    BY <1>1, <1>4, Constants DEF Complete
  <2>2. ASSUME NEW p \in Here
        PROVE  /\ Fits(Fed(p)) /\ Ready(st[p], tick) \in Seq(Inputs)
               /\ Baseline(Fed(p)) \in Nat \cup {None}
    <3>1. Fits(st[p])
      BY HereFits
    <3>2. Fits(Fed(p)) /\ Ready(st[p], tick) \in Seq(Inputs)
      BY <1>1, <3>1, DeliveryFits DEF Fed
    <3>3. Fed(p).recv \in Nat
      BY <3>2, Constants DEF Fits, PState
    <3>. QED  BY <3>2, <3>3 DEF Baseline
  <2>3. PlayersOK'
    <3>1. st' = [p \in Players |->
              IF p \notin Here THEN None
              ELSE IF SettlesNow THEN Settled(Snapped(Fed(p)), uses[p])
              ELSE Snapped(Fed(p))]
      BY <1>4, Zenon DEF Complete
    <3>2. ASSUME NEW p \in Here PROVE Fits(st'[p])
      <4>1. p \in Players /\ Fits(Snapped(Fed(p)))
        BY <1>1, <2>2, SnappedFits, HereFits
      <4>2. Fits(Settled(Snapped(Fed(p)), uses[p]))
        BY <4>1, SettledFits
      <4>. QED  BY <3>1, <4>1, <4>2
    <3>3. \A p \in Players : p \notin Here => st'[p] = None
      BY <3>1
    <3>. QED  BY <3>1, <3>2, <3>3 DEF PlayersOK, Here, Fits
  <2>4. heard' \in [Players -> Seq(Nat)]
    <3>1. ASSUME NEW p \in Here
          PROVE  heard[p] \o [i \in DOMAIN Ready(st[p], tick) |-> Ready(st[p], tick)[i].n]
                   \in Seq(Nat)
      <4>1. PICK q : q = Ready(st[p], tick)
        OBVIOUS
      <4>2. q \in Seq(Inputs) /\ heard[p] \in Seq(Nat)
        BY <2>2, <4>1, HereFits DEF TypeOK
      <4>3. \A i \in DOMAIN q : q[i].n \in Nat
        <5>1. \A i \in DOMAIN q : q[i] \in Inputs
          BY <4>2
        <5>. QED  BY <5>1 DEF Inputs
      <4>4. PICK ns : ns = [i \in DOMAIN q |-> q[i].n]
        OBVIOUS
      <4>5. ns \in Seq(Nat)
        BY <4>2, <4>3, <4>4
      <4>6. heard[p] \o ns \in Seq(Nat)
        BY <4>2, <4>5
      <4>. QED  BY <4>1, <4>4, <4>6
    <3>2. heard' = [p \in Players |->
              IF p \in Here THEN heard[p] \o [i \in DOMAIN Ready(st[p], tick) |->
                                                 Ready(st[p], tick)[i].n]
              ELSE heard[p]]
      BY <1>4, Zenon DEF Complete
    <3>3. heard \in [Players -> Seq(Nat)]
      BY DEF TypeOK
    <3>. QED  BY <3>1, <3>2, <3>3
  <2>5. made' \in [Players -> SUBSET Nat]
    <3>1. made \in [Players -> SUBSET Nat]
      BY DEF TypeOK
    <3>2. made' = [p \in Players |->
              IF p \in Here /\ Scheduled THEN made[p] \cup {tick} ELSE made[p]]
      BY <1>4, Zenon DEF Complete
    <3>. QED  BY <1>1, <3>1, <3>2
  <2>6. snap' \in [Players -> [base : Nat \cup {None}, told : Nat] \cup {None}]
    <3>1. snap \in [Players -> [base : Nat \cup {None}, told : Nat] \cup {None}]
          /\ told \in [Players -> Nat]
      BY DEF TypeOK
    <3>2. snap' = [p \in Players |->
              IF p \in Here /\ Scheduled THEN [base |-> Baseline(Fed(p)), told |-> told[p]]
              ELSE snap[p]]
      BY <1>4, Zenon DEF Complete
    <3>. QED  BY <2>2, <3>1, <3>2
  <2>7. lastFull' \in [Players -> Nat]
    <3>1. lastFull \in [Players -> Nat]
      BY DEF TypeOK
    <3>2. lastFull' = [p \in Players |->
              IF p \in Here /\ Scheduled /\ Baseline(Fed(p)) = None THEN tick
              ELSE lastFull[p]]
      BY <1>4, Zenon DEF Complete
    <3>. QED  BY <1>1, <3>1, <3>2
  <2>8. UNCHANGED <<overload, panicked, told, since>>
    BY <1>4 DEF Complete
  <2>. QED  BY <1>1, <2>1, <2>3, <2>4, <2>5, <2>6, <2>7, <2>8 DEF TypeOK, PlayersOK
<1>. QED  BY <1>2, <1>3, <1>4

LEMMA NextType == TypeOK /\ [Next]_vars => TypeOK'
<1>1. TypeOK /\ UNCHANGED vars => TypeOK'
  BY DEF vars, historyVars, TypeOK, Here
<1>. QED  BY <1>1, EventType, TickType DEF Next

\* The state of the room is what the code's types say: no buffer and no ring
\* outgrows its capacity (insertJitter, pushBaseline), no degradation leaves
\* 0 .. 2 (settleDegrade).
THEOREM RoomTypes == Spec => []TypeOK
  BY InitType, NextType, PTL DEF Spec
-----------------------------------------------------------------------------
(* The order of the inputs.                                                *)

Close(a, b) == a - b < SeqHalf /\ b - a < SeqHalf

\* A player's buffer s.jbuf and the inputs h that the room was given: the
\* buffer is ascending, newer than what was given, and spans less than half of
\* the range of InputSeq.
PlayerInOrder(s, h) ==
    /\ s.hasInput <=> h # <<>>
    /\ h # <<>> => s.lastSeq = InputSeq(Last(h))
    /\ \A i \in DOMAIN s.jbuf :
          /\ s.jbuf[i].seq = InputSeq(s.jbuf[i].n)
          /\ h # <<>> => s.jbuf[i].n > Last(h) /\ s.jbuf[i].n - Last(h) < SeqHalf
    /\ \A i, j \in DOMAIN s.jbuf : i < j =>
          s.jbuf[i].n < s.jbuf[j].n /\ s.jbuf[j].n - s.jbuf[i].n < SeqHalf
    /\ \A i \in 1 .. Len(h) - 1 : h[i + 1] = h[i] + 1

InOrder == \A p \in Here : PlayerInOrder(st[p], heard[p])

\* An input that comes is within half of the range of InputSeq of the one that
\* the room was given last, and of those in the buffer.
Near ==
    \A p \in Players, n \in FirstInput .. FirstInput + MaxInputs - 1, r \in 0 .. MaxTick :
        HandleCh1Input(p, n, r) =>
            /\ heard[p] # <<>> => Close(n, Last(heard[p]))
            /\ \A i \in DOMAIN st[p].jbuf : Close(n, st[p].jbuf[i].n)

\* All inputs of a player are among the first MaxInputs.
Sent == FirstInput .. FirstInput + MaxInputs - 1

PlayerInRange(s, h) ==
    /\ \A i \in DOMAIN s.jbuf : s.jbuf[i].n \in Sent
    /\ \A i \in DOMAIN h : h[i] \in Sent

InRange == \A p \in Here : PlayerInRange(st[p], heard[p])
LEMMA InsertInOrder ==
    ASSUME NEW s, Fits(s), NEW h \in Seq(Nat), PlayerInOrder(s, h),
           NEW e \in Inputs, e.seq = InputSeq(e.n),
           h # <<>> => Close(e.n, Last(h)),
           \A i \in DOMAIN s.jbuf : Close(e.n, s.jbuf[i].n)
    PROVE  PlayerInOrder(InsertJitter(s, e), h)
<1>1. CASE Known(s, e)
  BY <1>1 DEF InsertJitter
<1>2. CASE ~Known(s, e)
  <2>1. /\ s \in PState /\ Len(s.jbuf) <= JitterCap /\ s.jbuf \in Seq(Inputs)
        /\ e.n \in Nat /\ SeqHalf \in Nat \ {0} /\ \A x \in Inputs : x.n \in Nat
    BY Constants DEF Fits, PState, Inputs
  <2>2. PICK kept \in Seq(Inputs), pos \in Nat :
           /\ kept = s.jbuf \/ (s.jbuf # <<>> /\ kept = Tail(s.jbuf))
           /\ Len(kept) < JitterCap /\ pos \in 1 .. Len(kept) + 1
           /\ InsertJitter(s, e) = [s EXCEPT !.jbuf = InsertAt(kept, pos, e)]
           /\ \A i \in 1 .. pos - 1 : ~Newer(kept[i].seq, e.seq)
           /\ pos <= Len(kept) => Newer(kept[pos].seq, e.seq)
    BY <1>2, <2>1, InsertIs
  \* The new input follows what the room was given.
  <2>3. h # <<>> => e.n > Last(h) /\ e.n - Last(h) < SeqHalf
    <3>1. SUFFICES ASSUME h # <<>> PROVE e.n > Last(h) /\ e.n - Last(h) < SeqHalf
      OBVIOUS
    <3>2. Last(h) \in Nat
      BY <3>1 DEF Last
    <3>3. Newer(InputSeq(e.n), InputSeq(Last(h)))
      BY <1>2, <3>1 DEF Known, PlayerInOrder
    <3>4. -SeqHalf < e.n - Last(h) /\ e.n - Last(h) < SeqHalf
      BY <2>1, <3>1, <3>2 DEF Close
    <3>. QED  BY <2>1, <3>2, <3>3, <3>4, InputOrder
  <2>4. ASSUME NEW i \in 1 .. Len(kept)
        PROVE  /\ kept[i] \in Inputs /\ kept[i].n \in Nat
               /\ kept[i].seq = InputSeq(kept[i].n)
               /\ h # <<>> => kept[i].n > Last(h) /\ kept[i].n - Last(h) < SeqHalf
               /\ -SeqHalf < kept[i].n - e.n /\ kept[i].n - e.n < SeqHalf
               /\ kept[i].n # e.n
               /\ Newer(kept[i].seq, e.seq) <=> kept[i].n > e.n
    <3>1. \E j \in DOMAIN s.jbuf : kept[i] = s.jbuf[j]
      <4>1. CASE kept = s.jbuf
        BY <2>1, <4>1
      <4>2. CASE s.jbuf # <<>> /\ kept = Tail(s.jbuf)
        <5>1. kept[i] = s.jbuf[i + 1] /\ i + 1 \in DOMAIN s.jbuf
          BY <2>1, <4>2
        <5>. QED  BY <5>1
      <4>. QED  BY <2>2, <4>1, <4>2
    <3>2. PICK j \in DOMAIN s.jbuf : kept[i] = s.jbuf[j]
      BY <3>1
    <3>3. kept[i] \in Inputs /\ kept[i].n \in Nat
      BY <2>1
    <3>4. /\ kept[i].seq = InputSeq(kept[i].n)
          /\ h # <<>> => kept[i].n > Last(h) /\ kept[i].n - Last(h) < SeqHalf
      BY <3>2, Zenon DEF PlayerInOrder
    <3>5. -SeqHalf < kept[i].n - e.n /\ kept[i].n - e.n < SeqHalf
      BY <2>1, <3>2, <3>3 DEF Close
    <3>6. kept[i].seq # e.seq
      BY <1>2, <3>2 DEF Known
    <3>7. /\ Newer(InputSeq(kept[i].n), InputSeq(e.n)) <=> kept[i].n > e.n
          /\ InputSeq(kept[i].n) = InputSeq(e.n) <=> kept[i].n = e.n
      <4>1. kept[i].n \in Int /\ e.n \in Int
        BY <2>1, <3>3
      <4>. QED  BY <3>5, <4>1, InputOrder
    <3>. QED  BY <3>3, <3>4, <3>5, <3>6, <3>7
  <2>5. ASSUME NEW i \in 1 .. Len(kept), NEW j \in 1 .. Len(kept), i < j
        PROVE  kept[i].n < kept[j].n /\ kept[j].n - kept[i].n < SeqHalf
    <3>1. \E a, b \in DOMAIN s.jbuf : a < b /\ kept[i] = s.jbuf[a] /\ kept[j] = s.jbuf[b]
      <4>1. CASE kept = s.jbuf
        BY <2>1, <2>5, <4>1
      <4>2. CASE s.jbuf # <<>> /\ kept = Tail(s.jbuf)
        <5>1. /\ kept[i] = s.jbuf[i + 1] /\ i + 1 \in DOMAIN s.jbuf
              /\ kept[j] = s.jbuf[j + 1] /\ j + 1 \in DOMAIN s.jbuf /\ i + 1 < j + 1
          BY <2>1, <2>5, <4>2
        <5>. QED  BY <5>1, Zenon
      <4>. QED  BY <2>2, <4>1, <4>2
    <3>. QED  BY <3>1, Zenon DEF PlayerInOrder
  <2>6. PICK buf : buf = InsertAt(kept, pos, e)
    OBVIOUS
  <2>7. /\ buf \in Seq(Inputs) /\ Len(buf) = Len(kept) + 1
        /\ \A i \in 1 .. Len(buf) :
              buf[i] = IF i < pos THEN kept[i] ELSE IF i = pos THEN e ELSE kept[i - 1]
    <3>1. kept \in Seq(Inputs) /\ e \in Inputs /\ pos \in 1 .. Len(kept) + 1
      BY <2>2
    <3>2. HasBetween(buf, Inputs, kept, pos, e)
      BY ONLY <2>6, <3>1, Inserted
    <3>. QED  BY ONLY <3>2 DEF HasBetween
  <2>8. ASSUME NEW i \in 1 .. Len(buf)
        PROVE  /\ buf[i].seq = InputSeq(buf[i].n)
               /\ h # <<>> => buf[i].n > Last(h) /\ buf[i].n - Last(h) < SeqHalf
    <3>1. CASE i < pos
      BY <2>2, <2>4, <2>7, <3>1
    <3>2. CASE i = pos
      BY <2>3, <2>7, <3>2
    <3>3. CASE i > pos
      <4>1. i - 1 \in 1 .. Len(kept) /\ buf[i] = kept[i - 1]
        BY <2>2, <2>7, <3>3
      <4>. QED  BY <2>4, <4>1
    <3>. QED  BY <2>2, <3>1, <3>2, <3>3
  \* The inputs before the new one are older, the others newer.
  <2>9. ASSUME NEW i \in 1 .. Len(kept)
        PROVE  IF i < pos THEN kept[i].n < e.n ELSE kept[i].n > e.n
    <3>1. CASE i < pos
      <4>1. i \in 1 .. pos - 1
        BY <2>2, <3>1
      <4>2. ~Newer(kept[i].seq, e.seq)
        BY <2>2, <4>1
      <4>. QED  BY <2>1, <2>4, <3>1, <4>2
    <3>2. CASE ~(i < pos)
      <4>1. pos \in 1 .. Len(kept)
        BY <2>2, <3>2
      <4>2. kept[pos].n > e.n /\ kept[pos].n \in Nat
        BY <2>2, <2>4, <4>1
      <4>3. pos < i => kept[pos].n < kept[i].n
        BY <2>5, <4>1
      <4>4. kept[i].n \in Nat
        BY <2>4
      <4>. QED  BY <2>1, <2>2, <3>2, <4>2, <4>3, <4>4
    <3>. QED  BY <3>1, <3>2
  <2>10. ASSUME NEW i \in 1 .. Len(buf), NEW j \in 1 .. Len(buf), i < j
         PROVE  buf[i].n < buf[j].n /\ buf[j].n - buf[i].n < SeqHalf
    <3>1. CASE j < pos
      <4>1. i \in 1 .. Len(kept) /\ j \in 1 .. Len(kept) /\ i < pos
        BY <2>2, <2>10, <3>1
      <4>. QED  BY <2>5, <2>7, <2>10, <3>1, <4>1
    <3>2. CASE j = pos
      <4>1. i \in 1 .. Len(kept) /\ i < pos /\ buf[i] = kept[i] /\ buf[j] = e
        BY <2>2, <2>7, <2>10, <3>2
      <4>. QED  BY <2>1, <2>4, <2>9, <4>1
    <3>3. CASE j > pos /\ i < pos
      <4>1. /\ i \in 1 .. Len(kept) /\ j - 1 \in 1 .. Len(kept) /\ i < j - 1
            /\ buf[i] = kept[i] /\ buf[j] = kept[j - 1]
        <5>1. i \in 1 .. Len(kept) /\ j - 1 \in 1 .. Len(kept) /\ i < j - 1
          BY <2>2, <2>7, <3>3
        <5>. QED  BY <2>7, <3>3, <5>1
      <4>. QED  BY <2>5, <4>1
    <3>4. CASE j > pos /\ i = pos
      <4>1. j - 1 \in 1 .. Len(kept) /\ ~(j - 1 < pos) /\ buf[i] = e /\ buf[j] = kept[j - 1]
        BY <2>2, <2>7, <3>4
      <4>. QED  BY <2>1, <2>4, <2>9, <4>1
    <3>5. CASE j > pos /\ i > pos
      <4>1. /\ i - 1 \in 1 .. Len(kept) /\ j - 1 \in 1 .. Len(kept) /\ i - 1 < j - 1
            /\ buf[i] = kept[i - 1] /\ buf[j] = kept[j - 1]
        BY <2>2, <2>7, <2>10, <3>5
      <4>. QED  BY <2>5, <4>1
    <3>. QED  BY <2>2, <2>10, <3>1, <3>2, <3>3, <3>4, <3>5
  <2>11. PICK r : r = InsertJitter(s, e)
    OBVIOUS
  <2>12. r.jbuf = buf /\ r.hasInput = s.hasInput /\ r.lastSeq = s.lastSeq
    BY <2>1, <2>2, <2>6, <2>11 DEF PState
  <2>13. DOMAIN buf = 1 .. Len(buf)
    BY <2>7
  <2>. QED  BY <2>8, <2>10, <2>11, <2>12, <2>13 DEF PlayerInOrder
<1>. QED  BY <1>1, <1>2

\* What the room has been given after a tick.
Given(h, s, t) == h \o [i \in DOMAIN Ready(s, t) |-> Ready(s, t)[i].n]

\* The first k inputs of the buffer go to those the room was given.
Hands(k, s, h, r, h2) ==
    /\ \A i \in 1 .. k : Follows(s, i)
    /\ Len(h2) = Len(h) + k
    /\ \A i \in 1 .. Len(h) : h2[i] = h[i]
    /\ \A i \in 1 .. k : h2[Len(h) + i] = s.jbuf[i].n
    /\ Len(r.jbuf) = Len(s.jbuf) - k
    /\ \A i \in 1 .. Len(r.jbuf) : r.jbuf[i] = s.jbuf[k + i]
    /\ k = 0 => r = s
    /\ k > 0 => r.hasInput = TRUE /\ r.lastSeq = s.jbuf[k].seq

LEMMA HandedOn ==
    ASSUME NEW s \in PState, NEW t \in Nat, NEW h \in Seq(Nat),
           NEW r, r = AfterDelivery(s, t),
           NEW h2, h2 = Given(h, s, t)
    PROVE  /\ h2 \in Seq(Nat) /\ r.jbuf \in Seq(Inputs)
           /\ \E k \in 0 .. Len(s.jbuf) : Hands(k, s, h, r, h2)
<1>1. s.jbuf \in Seq(Inputs) /\ Len(s.jbuf) \in Nat
  BY DEF PState, Inputs
<1>2. PICK k \in 0 .. Len(s.jbuf) :
         /\ Ready(s, t) = SubSeq(s.jbuf, 1, k)
         /\ \A i \in 1 .. k : Follows(s, i)
         /\ k = 0 => AfterDelivery(s, t) = s
         /\ k > 0 => AfterDelivery(s, t) =
                        [s EXCEPT !.jbuf = SubSeq(s.jbuf, k + 1, Len(s.jbuf)),
                                  !.lastSeq = s.jbuf[k].seq, !.hasInput = TRUE,
                                  !.last = s.jbuf[k].n]
  BY ReadyIs
<1>3. PICK ready : ready = Ready(s, t)
  OBVIOUS
<1>4. ready \in Seq(Inputs) /\ Len(ready) = k /\ \A i \in 1 .. k : ready[i] = s.jbuf[i]
  <2>1. 1 \in 1 .. Len(s.jbuf) + 1 /\ k \in Int /\ k <= Len(s.jbuf) /\ k \in Nat
    BY <1>1
  <2>2. /\ ready \in Seq(Inputs) /\ (1 <= k + 1 => Len(ready) = k - 1 + 1)
        /\ \A i \in 1 .. k - 1 + 1 : ready[i] = s.jbuf[1 + i - 1]
    BY <1>1, <1>2, <1>3, <2>1, Cut
  <2>. QED  BY <2>1, <2>2
<1>5. PICK ns : ns = [i \in DOMAIN ready |-> ready[i].n]
  OBVIOUS
<1>6. ns \in Seq(Nat) /\ Len(ns) = k /\ \A i \in 1 .. k : ns[i] = s.jbuf[i].n
  <2>1. DOMAIN ready = 1 .. k /\ k \in Nat /\ \A i \in 1 .. k : ready[i] \in Inputs
    BY <1>4
  <2>2. \A i \in 1 .. k : ready[i].n \in Nat
    BY <2>1 DEF Inputs
  <2>3. ns = [i \in 1 .. k |-> ready[i].n]
    BY <1>5, <2>1
  <2>. QED  BY <1>4, <2>1, <2>2, <2>3
<1>7. h2 = h \o ns
  BY <1>3, <1>5 DEF Given
<1>8. /\ h2 \in Seq(Nat) /\ Len(h2) = Len(h) + k
      /\ \A i \in 1 .. Len(h) : h2[i] = h[i]
      /\ \A i \in 1 .. k : h2[Len(h) + i] = s.jbuf[i].n
  <2>1. ns \in Seq(Nat)
    BY <1>6
  <2>2. /\ h2 \in Seq(Nat) /\ Len(h2) = Len(h) + Len(ns)
        /\ \A i \in 1 .. Len(h) : h2[i] = h[i]
        /\ \A i \in 1 .. Len(ns) : h2[Len(h) + i] = ns[i]
    <3>1. h \in Seq(Nat)
      OBVIOUS
    <3>. QED  BY ONLY <1>7, <2>1, <3>1, Concatenated
  <2>. QED  BY <1>6, <2>2
<1>9. /\ r.jbuf \in Seq(Inputs) /\ Len(r.jbuf) = Len(s.jbuf) - k
      /\ \A i \in 1 .. Len(r.jbuf) : r.jbuf[i] = s.jbuf[k + i]
      /\ k > 0 => r.hasInput = TRUE /\ r.lastSeq = s.jbuf[k].seq
  <2>1. CASE k = 0
    <3>1. r.jbuf = s.jbuf /\ Len(s.jbuf) - k = Len(s.jbuf) /\ ~(k > 0)
      BY <1>1, <1>2, <2>1
    <3>2. \A i \in 1 .. Len(s.jbuf) : k + i = i
      BY <2>1
    <3>. QED  BY <1>1, <3>1, <3>2
  <2>2. CASE k > 0
    <3>1. PICK rest : rest = SubSeq(s.jbuf, k + 1, Len(s.jbuf))
      OBVIOUS
    <3>2. /\ k + 1 \in 1 .. Len(s.jbuf) + 1 /\ Len(s.jbuf) \in Int
          /\ k + 1 <= Len(s.jbuf) + 1 /\ Len(s.jbuf) <= Len(s.jbuf)
      BY <1>1
    <3>3. /\ rest \in Seq(Inputs) /\ Len(rest) = Len(s.jbuf) - (k + 1) + 1
          /\ \A i \in 1 .. Len(s.jbuf) - (k + 1) + 1 : rest[i] = s.jbuf[(k + 1) + i - 1]
      BY <1>1, <3>1, <3>2, Cut
    <3>4. Len(rest) = Len(s.jbuf) - k /\ Len(s.jbuf) - (k + 1) + 1 = Len(s.jbuf) - k
      BY <1>1, <3>3
    <3>5. ASSUME NEW i \in 1 .. Len(rest) PROVE rest[i] = s.jbuf[k + i]
      <4>1. i \in 1 .. Len(s.jbuf) - (k + 1) + 1 /\ (k + 1) + i - 1 = k + i
        BY <1>1, <3>4
      <4>. QED  BY <3>3, <4>1
    <3>6. r = [s EXCEPT !.jbuf = rest, !.lastSeq = s.jbuf[k].seq, !.hasInput = TRUE,
                        !.last = s.jbuf[k].n]
      BY <1>2, <2>2, <3>1
    <3>7. r.jbuf = rest /\ r.hasInput = TRUE /\ r.lastSeq = s.jbuf[k].seq
      BY <3>6 DEF PState
    <3>. QED  BY <3>3, <3>4, <3>5, <3>7
  <2>3. k = 0 \/ k > 0
    OBVIOUS
  <2>. QED  BY <2>1, <2>2, <2>3, Zenon
<1>10. k = 0 => r = s
  BY <1>2
<1>11. Hands(k, s, h, r, h2)
  BY <1>2, <1>8, <1>9, <1>10, Zenon DEF Hands
<1>. QED  BY <1>8, <1>9, <1>11

LEMMA DeliveryInOrder ==
    ASSUME NEW s \in PState, NEW t \in Nat, NEW h \in Seq(Nat), PlayerInOrder(s, h),
           NEW r, r = AfterDelivery(s, t),
           NEW h2, h2 = Given(h, s, t)
    PROVE  PlayerInOrder(r, h2)
<1>1. /\ s.jbuf \in Seq(Inputs) /\ SeqHalf \in Nat \ {0} /\ s.hasInput \in BOOLEAN
      /\ \A i \in 1 .. Len(s.jbuf) : s.jbuf[i].n \in Nat
  <2>1. s.jbuf \in Seq(Inputs) /\ s.hasInput \in BOOLEAN
    BY DEF PState, Inputs
  <2>2. \A i \in 1 .. Len(s.jbuf) : s.jbuf[i] \in Inputs
    BY <2>1
  <2>. QED  BY <2>1, <2>2, Constants DEF Inputs
<1>9. PICK k \in 0 .. Len(s.jbuf) : Hands(k, s, h, r, h2)
  BY HandedOn
<1>2. /\ \A i \in 1 .. k : Follows(s, i)
      /\ Len(h2) = Len(h) + k
      /\ \A i \in 1 .. Len(h) : h2[i] = h[i]
      /\ \A i \in 1 .. k : h2[Len(h) + i] = s.jbuf[i].n
      /\ Len(r.jbuf) = Len(s.jbuf) - k
      /\ \A i \in 1 .. Len(r.jbuf) : r.jbuf[i] = s.jbuf[k + i]
      /\ k = 0 => r = s
      /\ k > 0 => r.hasInput = TRUE /\ r.lastSeq = s.jbuf[k].seq
  BY <1>9, Zenon DEF Hands
<1>3. h2 \in Seq(Nat) /\ r.jbuf \in Seq(Inputs)
  BY HandedOn, Zenon
<1>4. CASE k = 0
  <2>1. Len(h2) = Len(h) /\ \A i \in 1 .. Len(h) : h2[i] = h[i]
    BY <1>2, <1>4
  <2>2. h \in Seq(Nat) /\ h2 \in Seq(Nat)
    BY <1>3
  <2>3. h2 = h
    BY ONLY <2>1, <2>2
  <2>. QED  BY <1>2, <1>4, <2>3
<1>5. CASE k > 0
  <2>1. /\ h2 # <<>> /\ Last(h2) = s.jbuf[k].n
    <3>1. Len(h2) = Len(h) + k /\ Len(h) \in Nat /\ k \in 1 .. k
      BY <1>2, <1>5
    <3>2. h2[Len(h2)] = s.jbuf[k].n
      BY <1>2, <3>1
    <3>. QED  BY <1>3, <1>5, <3>1, <3>2 DEF Last
  <2>2. ASSUME NEW i \in DOMAIN s.jbuf, NEW j \in DOMAIN s.jbuf, i < j
        PROVE  s.jbuf[i].n < s.jbuf[j].n /\ s.jbuf[j].n - s.jbuf[i].n < SeqHalf
    BY <2>2, Zenon DEF PlayerInOrder
  <2>3. \A i \in DOMAIN s.jbuf : s.jbuf[i].seq = InputSeq(s.jbuf[i].n)
    BY Zenon DEF PlayerInOrder
  <2>4. k \in DOMAIN s.jbuf
    BY <1>1, <1>5
  <2>5. r.lastSeq = InputSeq(Last(h2))
    BY <1>2, <1>5, <2>1, <2>3, <2>4
  <2>11. ASSUME NEW i \in 1 .. Len(r.jbuf)
         PROVE  r.jbuf[i] = s.jbuf[k + i] /\ k + i \in DOMAIN s.jbuf /\ k < k + i
    <3>1. k + i \in 1 .. Len(s.jbuf) /\ k < k + i
      <4>1. Len(r.jbuf) = Len(s.jbuf) - k /\ Len(s.jbuf) \in Nat
        BY <1>1, <1>2
      <4>. QED  BY <4>1
    <3>. QED  BY <1>1, <1>2, <3>1
  <2>6. ASSUME NEW i \in DOMAIN r.jbuf
        PROVE  /\ r.jbuf[i].seq = InputSeq(r.jbuf[i].n)
               /\ r.jbuf[i].n > Last(h2) /\ r.jbuf[i].n - Last(h2) < SeqHalf
    <3>1. i \in 1 .. Len(r.jbuf)
      BY <1>3
    <3>2. r.jbuf[i] = s.jbuf[k + i] /\ k + i \in DOMAIN s.jbuf /\ k < k + i
      BY <2>11, <3>1
    <3>. QED  BY <1>1, <2>1, <2>2, <2>3, <2>4, <3>2
  <2>7. ASSUME NEW i \in DOMAIN r.jbuf, NEW j \in DOMAIN r.jbuf, i < j
        PROVE  r.jbuf[i].n < r.jbuf[j].n /\ r.jbuf[j].n - r.jbuf[i].n < SeqHalf
    <3>1. i \in 1 .. Len(r.jbuf) /\ j \in 1 .. Len(r.jbuf)
      BY <1>3
    <3>2. /\ r.jbuf[i] = s.jbuf[k + i] /\ k + i \in DOMAIN s.jbuf
          /\ r.jbuf[j] = s.jbuf[k + j] /\ k + j \in DOMAIN s.jbuf /\ k + i < k + j
      BY <2>7, <2>11, <3>1
    <3>. QED  BY <2>2, <3>2
  \* The first of them continues what was given before, each other one the one
  \* before it.
  <2>8. ASSUME h # <<>> PROVE s.jbuf[1].n = Last(h) + 1
    <3>1. 1 \in DOMAIN s.jbuf /\ s.jbuf[1].n \in Nat
      BY <1>1, <2>4
    <3>2. Follows(s, 1) /\ s.hasInput
      BY <1>2, <1>5, <2>8 DEF PlayerInOrder
    <3>3. InputSeq(s.jbuf[1].n) = NextSeq(InputSeq(Last(h)))
      BY <2>3, <2>8, <3>1, <3>2 DEF Follows, PlayerInOrder
    <3>4. s.jbuf[1].n > Last(h) /\ s.jbuf[1].n - Last(h) < SeqHalf
      BY <2>8, <3>1, Zenon DEF PlayerInOrder
    <3>5. Last(h) \in Nat
      BY <2>8 DEF Last
    <3>6. -SeqHalf < s.jbuf[1].n - Last(h) /\ s.jbuf[1].n \in Int /\ Last(h) \in Int
      BY <1>1, <3>1, <3>4, <3>5
    <3>. QED  BY <3>3, <3>4, <3>6, InputOrder
  <2>9. ASSUME NEW i \in 2 .. k PROVE s.jbuf[i].n = s.jbuf[i - 1].n + 1
    <3>1. i \in DOMAIN s.jbuf /\ i - 1 \in DOMAIN s.jbuf /\ i - 1 < i /\ i # 1 /\ i \in 1 .. k
      BY <1>1
    <3>2. InputSeq(s.jbuf[i].n) = NextSeq(InputSeq(s.jbuf[i - 1].n))
      BY <1>2, <2>3, <3>1 DEF Follows
    <3>3. s.jbuf[i - 1].n < s.jbuf[i].n /\ s.jbuf[i].n - s.jbuf[i - 1].n < SeqHalf
      BY <2>2, <3>1
    <3>4. s.jbuf[i].n \in Nat /\ s.jbuf[i - 1].n \in Nat
      BY <1>1, <3>1
    <3>5. /\ s.jbuf[i].n \in Int /\ s.jbuf[i - 1].n \in Int
          /\ s.jbuf[i].n > s.jbuf[i - 1].n /\ -SeqHalf < s.jbuf[i].n - s.jbuf[i - 1].n
      BY <1>1, <3>3, <3>4
    <3>. QED  BY <3>2, <3>3, <3>5, InputOrder
  <2>10. ASSUME NEW i \in 1 .. Len(h2) - 1 PROVE h2[i + 1] = h2[i] + 1
    <3>1. Len(h2) = Len(h) + k /\ Len(h) \in Nat
      BY <1>2
    <3>2. CASE i < Len(h)
      <4>1. i \in 1 .. Len(h) - 1 /\ i \in 1 .. Len(h) /\ i + 1 \in 1 .. Len(h)
        BY <3>1, <3>2
      <4>2. h[i + 1] = h[i] + 1
        BY <4>1, Zenon DEF PlayerInOrder
      <4>. QED  BY <1>2, <4>1, <4>2
    <3>3. CASE i = Len(h)
      <4>1. i \in 1 .. Len(h) /\ h # <<>> /\ 1 \in 1 .. k
        BY <1>5, <3>1, <3>3
      <4>2. h2[i] = Last(h) /\ h2[i + 1] = s.jbuf[1].n
        BY <1>2, <3>3, <4>1 DEF Last
      <4>. QED  BY <2>8, <4>1, <4>2
    <3>4. CASE i > Len(h)
      <4>1. PICK j : j = i - Len(h)
        OBVIOUS
      <4>2. j \in 1 .. k /\ j + 1 \in 2 .. k /\ i = Len(h) + j /\ i + 1 = Len(h) + (j + 1)
            /\ j + 1 \in 1 .. k /\ j + 1 - 1 = j
        BY <3>1, <3>4, <4>1
      <4>3. h2[i] = s.jbuf[j].n /\ h2[i + 1] = s.jbuf[j + 1].n
        BY <1>2, <4>2
      <4>4. PICK m : m = j + 1
        OBVIOUS
      <4>5. m \in 2 .. k /\ m - 1 = j
        BY <4>2, <4>4
      <4>6. s.jbuf[m].n = s.jbuf[m - 1].n + 1
        BY <2>9, <4>5
      <4>. QED  BY <4>3, <4>4, <4>5, <4>6
    <3>. QED  BY <3>1, <3>2, <3>3, <3>4
  <2>. QED  BY <1>2, <1>5, <2>1, <2>5, <2>6, <2>7, <2>10 DEF PlayerInOrder
<1>. QED  BY <1>4, <1>5

\* Only one player changes.
LEMMA OneInOrder ==
    ASSUME InOrder, NEW p \in Players,
           \A q \in Players : q # p => st'[q] = st[q] /\ heard'[q] = heard[q],
           st'[p] # None => PlayerInOrder(st'[p], heard'[p])
    PROVE  InOrder'
<1>1. ASSUME NEW q \in Here' PROVE PlayerInOrder(st'[q], heard'[q])
  <2>1. q \in Players /\ st'[q] # None
    BY <1>1 DEF Here
  <2>2. CASE q = p
    BY <2>1, <2>2
  <2>3. CASE q # p
    <3>1. q \in Here /\ st'[q] = st[q] /\ heard'[q] = heard[q]
      BY <2>1, <2>3 DEF Here
    <3>. QED  BY <3>1 DEF InOrder
  <2>. QED  BY <2>2, <2>3
<1>. QED  BY <1>1 DEF InOrder

LEMMA Cleared == \A s : s.jbuf = <<>> /\ s.hasInput = FALSE => PlayerInOrder(s, <<>>)
<1>1. Len(<<>>) = 0 /\ DOMAIN <<>> = {} /\ 1 .. 0 - 1 = {}
  OBVIOUS
<1>. QED  BY <1>1 DEF PlayerInOrder

LEMMA InitInOrder == Init => InOrder
<1>1. NewPlayer.jbuf = <<>> /\ NewPlayer.hasInput = FALSE
  BY DEF NewPlayer
<1>2. ASSUME Init, NEW p \in Here PROVE st[p] = NewPlayer /\ heard[p] = <<>>
  BY <1>2 DEF Init, Here
<1>. QED  BY <1>1, <1>2, Cleared DEF InOrder

LEMMA EventInOrder == TypeOK /\ InOrder /\ Near /\ Event => InOrder'
<1>. SUFFICES ASSUME TypeOK, InOrder, Near, Event PROVE InOrder'
  OBVIOUS
<1>1. st \in [Players -> PState \cup {None}] /\ heard \in [Players -> Seq(Nat)]
      /\ tick \in Nat
  BY Constants DEF TypeOK
<1>2. CASE Overload
  BY <1>2 DEF Overload, historyVars, InOrder, Here
<1>3. ASSUME NEW p \in Players, Join(p) PROVE InOrder'
  <2>1. st' = [st EXCEPT ![p] = NewPlayer] /\ heard' = [heard EXCEPT ![p] = <<>>]
    BY <1>3 DEF Join
  <2>2. /\ st'[p] = NewPlayer /\ heard'[p] = <<>>
        /\ \A q \in Players : q # p => st'[q] = st[q] /\ heard'[q] = heard[q]
    BY <1>1, <2>1
  <2>3. NewPlayer.jbuf = <<>> /\ NewPlayer.hasInput = FALSE
    BY DEF NewPlayer
  <2>4. PlayerInOrder(st'[p], heard'[p])
    BY <2>2, <2>3, Cleared
  <2>. QED  BY <2>2, <2>4, OneInOrder
<1>4. ASSUME NEW p \in Players, NEW s, Update(p, s),
             s = None \/ (s.jbuf = st[p].jbuf /\ s.hasInput = st[p].hasInput
                          /\ s.lastSeq = st[p].lastSeq)
      PROVE  InOrder'
  <2>1. st' = [st EXCEPT ![p] = s] /\ heard' = heard /\ p \in Here
    BY <1>4 DEF Update, historyVars, Here
  <2>2. st'[p] = s /\ \A q \in Players : q # p => st'[q] = st[q] /\ heard'[q] = heard[q]
    BY <1>1, <2>1
  <2>3. PlayerInOrder(st[p], heard[p])
    BY <2>1 DEF InOrder
  <2>4. st'[p] # None => PlayerInOrder(st'[p], heard'[p])
    BY <1>4, <2>1, <2>2, <2>3 DEF PlayerInOrder
  <2>. QED  BY <2>2, <2>4, OneInOrder
<1>5. ASSUME NEW p \in Players, Leave(p) PROVE InOrder'
  BY <1>4, <1>5 DEF Leave
<1>6. ASSUME NEW p \in Players, NEW rtt \in Rtts, Stats(p, rtt) PROVE InOrder'
  <2>1. PICK s : s = [st[p] EXCEPT !.rtt = rtt]
    OBVIOUS
  <2>2. st[p] \in PState
    BY <1>1, <1>6 DEF Stats, Update
  <2>3. s.jbuf = st[p].jbuf /\ s.hasInput = st[p].hasInput /\ s.lastSeq = st[p].lastSeq
    BY <2>1, <2>2 DEF PState
  <2>. QED  BY <1>4, <1>6, <2>1, <2>3 DEF Stats
<1>7. ASSUME NEW p \in Players, RequestKeyframe(p) PROVE InOrder'
  <2>1. PICK s : s = [st[p] EXCEPT !.force = TRUE]
    OBVIOUS
  <2>2. st[p] \in PState
    BY <1>1, <1>7 DEF RequestKeyframe, Update
  <2>3. s.jbuf = st[p].jbuf /\ s.hasInput = st[p].hasInput /\ s.lastSeq = st[p].lastSeq
    BY <2>1, <2>2 DEF PState
  <2>. QED  BY <1>4, <1>7, <2>1, <2>3 DEF RequestKeyframe
<1>8. ASSUME NEW p \in Players, Resume(p) PROVE InOrder'
  <2>1. st' = [st EXCEPT ![p] = Resumed(st[p])] /\ heard' = [heard EXCEPT ![p] = <<>>]
    BY <1>8 DEF Resume
  <2>2. /\ st'[p] = Resumed(st[p]) /\ heard'[p] = <<>>
        /\ \A q \in Players : q # p => st'[q] = st[q] /\ heard'[q] = heard[q]
    BY <1>1, <2>1
  <2>3. st[p] \in PState
    BY <1>1, <1>8 DEF Resume
  <2>4. Resumed(st[p]).jbuf = <<>> /\ Resumed(st[p]).hasInput = FALSE
    BY <2>3 DEF Resumed, PState
  <2>5. PlayerInOrder(st'[p], heard'[p])
    BY <2>2, <2>4, Cleared
  <2>. QED  BY <2>2, <2>5, OneInOrder
<1>9. ASSUME NEW p \in Players, NEW n \in FirstInput .. FirstInput + MaxInputs - 1,
             NEW r \in 0 .. MaxTick, HandleCh1Input(p, n, r)
      PROVE  InOrder'
  <2>1. p \in Here /\ Fits(st[p]) /\ heard' = heard /\ heard[p] \in Seq(Nat)
    BY <1>1, <1>9, HereFits DEF HandleCh1Input, Here
  <2>2. PICK e : e = Entry(n, n - FirstInput + Skew[p], tick + Depth(st[p].rtt))
    OBVIOUS
  <2>3. n \in Nat /\ n >= FirstInput /\ st[p].rtt \in Rtts
    BY <2>1, Constants DEF Fits, PState
  <2>4. e \in Inputs /\ e.n = n /\ e.seq = InputSeq(n)
    BY <1>1, <2>2, <2>3, EntryType
  <2>5. PICK s : s = InsertJitter(st[p], e)
    OBVIOUS
  <2>6. /\ heard[p] # <<>> => Close(n, Last(heard[p]))
        /\ \A i \in DOMAIN st[p].jbuf : Close(n, st[p].jbuf[i].n)
    BY <1>9, Zenon DEF Near
  <2>7. PlayerInOrder(s, heard[p])
    <3>1. PlayerInOrder(st[p], heard[p])
      BY <2>1 DEF InOrder
    <3>2. /\ e.seq = InputSeq(e.n) /\ (heard[p] # <<>> => Close(e.n, Last(heard[p])))
          /\ \A i \in DOMAIN st[p].jbuf : Close(e.n, st[p].jbuf[i].n)
      BY <2>4, <2>6
    <3>. QED  BY <2>1, <2>4, <2>5, <3>1, <3>2, InsertInOrder
  <2>8. PICK s2 : s2 = [s EXCEPT !.recv = r % TickMod]
    OBVIOUS
  <2>9. st' = [st EXCEPT ![p] = s2]
    BY <1>9, <2>2, <2>5, <2>8 DEF HandleCh1Input
  <2>10. s2.jbuf = s.jbuf /\ s2.hasInput = s.hasInput /\ s2.lastSeq = s.lastSeq
    <3>1. s \in PState
      BY <2>1, <2>4, <2>5, InsertFits DEF Fits
    <3>. QED  BY <2>8, <3>1 DEF PState
  <2>11. PlayerInOrder(s2, heard[p])
    BY <2>7, <2>10 DEF PlayerInOrder
  <2>12. /\ st'[p] = s2 /\ heard'[p] = heard[p]
         /\ \A q \in Players : q # p => st'[q] = st[q] /\ heard'[q] = heard[q]
    BY <1>1, <2>1, <2>9
  <2>. QED  BY <2>11, <2>12, OneInOrder
<1>. QED  BY <1>2, <1>3, <1>5, <1>6, <1>7, <1>8, <1>9, Zenon DEF Event

\* What a tick leaves of a player's buffer.
LEMMA TickBuffer ==
    ASSUME TypeOK, NEW order, NEW uses, Complete(order, uses), NEW p \in Here'
    PROVE  /\ p \in Here
           /\ heard'[p] = Given(heard[p], st[p], tick)
           /\ st'[p].jbuf = Fed(p).jbuf /\ st'[p].hasInput = Fed(p).hasInput
           /\ st'[p].lastSeq = Fed(p).lastSeq /\ st'[p].recv = Fed(p).recv
           /\ st'[p].ring = IF Scheduled THEN PushBaseline(st[p].ring, tick) ELSE st[p].ring
<1>1. st' = [q \in Players |->
          IF q \notin Here THEN None
          ELSE IF SettlesNow THEN Settled(Snapped(Fed(q)), uses[q])
          ELSE Snapped(Fed(q))]
  BY Zenon DEF Complete
<1>2. p \in Players /\ p \in Here
  BY <1>1 DEF Here
<1>3. heard'[p] = Given(heard[p], st[p], tick)
  <2>1. heard' = [q \in Players |->
            IF q \in Here THEN heard[q] \o [i \in DOMAIN Ready(st[q], tick) |->
                                               Ready(st[q], tick)[i].n]
            ELSE heard[q]]
    BY Zenon DEF Complete
  <2>. QED  BY <1>2, <2>1, Zenon DEF Given
<1>4. PICK s : s = Fed(p)
  OBVIOUS
<1>5. tick \in Nat
  BY Constants DEF TypeOK
<1>6. s \in PState /\ s.ring = st[p].ring
  BY <1>2, <1>4, <1>5, HereFits, DeliveryFits DEF Fed, Fits
<1>7. PICK x : x = Snapped(s)
  OBVIOUS
<1>8. /\ x \in PState /\ x.jbuf = s.jbuf /\ x.hasInput = s.hasInput
      /\ x.lastSeq = s.lastSeq /\ x.recv = s.recv
      /\ x.ring = IF Scheduled THEN PushBaseline(st[p].ring, tick) ELSE st[p].ring
  <2>1. x \in PState
    <3>1. Fits(s)
      BY <1>2, <1>4, <1>5, HereFits, DeliveryFits DEF Fed
    <3>. QED  BY <1>5, <1>7, <3>1, SnappedFits DEF Fits
  <2>2. PICK ring : ring = PushBaseline(s.ring, tick)
    OBVIOUS
  <2>3. x = IF Scheduled THEN [s EXCEPT !.force = FALSE, !.ring = ring] ELSE s
    BY <1>7, <2>2 DEF Snapped
  <2>. QED  BY <1>6, <2>1, <2>2, <2>3 DEF PState
<1>9. PICK y : y = Settled(x, uses[p])
  OBVIOUS
<1>10. /\ y.jbuf = x.jbuf /\ y.hasInput = x.hasInput /\ y.lastSeq = x.lastSeq
       /\ y.recv = x.recv /\ y.ring = x.ring
  <2>1. \/ y = [x EXCEPT !.degrade = @ + 1] \/ y = [x EXCEPT !.degrade = @ - 1] \/ y = x
    BY <1>9 DEF Settled
  <2>2. ASSUME NEW d, y = [x EXCEPT !.degrade = d]
        PROVE  /\ y.jbuf = x.jbuf /\ y.hasInput = x.hasInput /\ y.lastSeq = x.lastSeq
               /\ y.recv = x.recv /\ y.ring = x.ring
    BY <1>8, <2>2 DEF PState
  <2>. QED  BY <2>1, <2>2
<1>11. st'[p] = x \/ st'[p] = y
  BY <1>1, <1>2, <1>4, <1>7, <1>9
<1>. QED  BY <1>2, <1>3, <1>4, <1>8, <1>10, <1>11

LEMMA TickInOrder == TypeOK /\ InOrder /\ DoTick => InOrder'
<1>. SUFFICES ASSUME TypeOK, InOrder, DoTick PROVE InOrder'
  OBVIOUS
<1>1. PICK order \in SetToSeqs(Here) :
         Panic(order) \/ \E uses \in [Here -> Uses] : Complete(order, uses)
  BY DEF DoTick
<1>2. CASE Panic(order)
  BY <1>2 DEF Panic, historyVars, InOrder, Here
<1>3. ASSUME NEW uses, Complete(order, uses) PROVE InOrder'
  <2>1. ASSUME NEW p \in Here' PROVE PlayerInOrder(st'[p], heard'[p])
    <3>1. /\ p \in Here /\ heard'[p] = Given(heard[p], st[p], tick)
          /\ st'[p].jbuf = Fed(p).jbuf /\ st'[p].hasInput = Fed(p).hasInput
          /\ st'[p].lastSeq = Fed(p).lastSeq
      BY <1>3, TickBuffer
    <3>2. st[p] \in PState /\ heard[p] \in Seq(Nat) /\ tick \in Nat
      <4>1. p \in Players /\ Fits(st[p])
        BY <3>1, HereFits
      <4>. QED  BY <4>1, Constants DEF Fits, TypeOK
    <3>3. PlayerInOrder(st[p], heard[p])
      BY <3>1 DEF InOrder
    <3>4. PlayerInOrder(Fed(p), heard'[p])
      BY <3>1, <3>2, <3>3, DeliveryInOrder DEF Fed
    <3>. QED  BY <3>1, <3>4 DEF PlayerInOrder
  <2>. QED  BY <2>1 DEF InOrder
<1>. QED  BY <1>1, <1>2, <1>3

LEMMA NextInOrder == TypeOK /\ InOrder /\ [Near]_vars /\ [Next]_vars => InOrder'
<1>1. InOrder /\ UNCHANGED vars => InOrder'
  BY DEF vars, historyVars, InOrder, Here
<1>. QED  BY <1>1, EventInOrder, TickInOrder DEF Next

LEMMA OrderSeen == TypeOK /\ InOrder => InputsInOrder /\ BufferOrdered
<1>. SUFFICES ASSUME TypeOK, InOrder PROVE InputsInOrder /\ BufferOrdered
  OBVIOUS
<1>1. ASSUME NEW p \in Here PROVE PlayerInOrder(st[p], heard[p])
  BY DEF InOrder
<1>2. InputsInOrder
  BY <1>1, Zenon DEF InputsInOrder, PlayerInOrder
<1>3. ASSUME NEW p \in Here
      PROVE  /\ \A i, j \in DOMAIN st[p].jbuf : i < j => st[p].jbuf[i].n < st[p].jbuf[j].n
             /\ heard[p] # <<>> /\ st[p].jbuf # <<>> /\ 1 \in DOMAIN st[p].jbuf
                   => st[p].jbuf[1].n > Last(heard[p])
  BY <1>1, Zenon DEF PlayerInOrder
<1>4. ASSUME NEW p \in Here PROVE st[p].jbuf # <<>> => 1 \in DOMAIN st[p].jbuf
  <2>1. st[p].jbuf \in Seq(Inputs)
    BY HereFits DEF Fits, PState, Inputs
  <2>. QED  BY <2>1
<1>. QED  BY <1>2, <1>3, <1>4, Zenon DEF BufferOrdered

\* As long as no input comes half of the range of InputSeq early or late
\* (seqNewer), a room is given a player's inputs without a gap and none twice,
\* and the jitter buffer stays in the order in which the client sent
\* (insertJitter, deliverReadyInputs), across the wrap too.
THEOREM InputsOrdered == Spec /\ [][Near]_vars => [](InputsInOrder /\ BufferOrdered)
<1>1. Init => TypeOK /\ InOrder
  BY InitType, InitInOrder
<1>2. TypeOK /\ InOrder /\ [Near]_vars /\ [Next]_vars => (TypeOK /\ InOrder)'
  BY NextType, NextInOrder
<1>3. TypeOK /\ InOrder => InputsInOrder /\ BufferOrdered
  BY OrderSeen
<1>. QED  BY <1>1, <1>2, <1>3, PTL DEF Spec
-----------------------------------------------------------------------------
(* With few enough inputs, all are near.                                   *)

LEMMA OneInRange ==
    ASSUME InRange, NEW p \in Players,
           \A q \in Players : q # p => st'[q] = st[q] /\ heard'[q] = heard[q],
           st'[p] # None => PlayerInRange(st'[p], heard'[p])
    PROVE  InRange'
<1>1. ASSUME NEW q \in Here' PROVE PlayerInRange(st'[q], heard'[q])
  <2>1. q \in Players /\ st'[q] # None
    BY <1>1 DEF Here
  <2>2. CASE q = p
    BY <2>1, <2>2
  <2>3. CASE q # p
    <3>1. q \in Here /\ st'[q] = st[q] /\ heard'[q] = heard[q]
      BY <2>1, <2>3 DEF Here
    <3>. QED  BY <3>1 DEF InRange
  <2>. QED  BY <2>2, <2>3
<1>. QED  BY <1>1 DEF InRange, PlayerInRange, Sent

LEMMA ClearedInRange == \A s : s.jbuf = <<>> => PlayerInRange(s, <<>>)
<1>1. DOMAIN <<>> = {}
  OBVIOUS
<1>. QED  BY <1>1 DEF PlayerInRange

LEMMA InsertInRange ==
    ASSUME NEW s, Fits(s), NEW h, PlayerInRange(s, h), NEW e \in Inputs, e.n \in Sent
    PROVE  PlayerInRange(InsertJitter(s, e), h)
<1>1. CASE Known(s, e)
  BY <1>1 DEF InsertJitter
<1>2. CASE ~Known(s, e)
  <2>1. s \in PState /\ Len(s.jbuf) <= JitterCap /\ s.jbuf \in Seq(Inputs)
    BY DEF Fits, PState, Inputs
  <2>2. PICK kept \in Seq(Inputs), pos \in Nat :
           /\ kept = s.jbuf \/ (s.jbuf # <<>> /\ kept = Tail(s.jbuf))
           /\ pos \in 1 .. Len(kept) + 1
           /\ InsertJitter(s, e) = [s EXCEPT !.jbuf = InsertAt(kept, pos, e)]
    BY <1>2, <2>1, InsertIs
  <2>3. ASSUME NEW i \in 1 .. Len(kept) PROVE kept[i].n \in Sent
    <3>1. \E j \in DOMAIN s.jbuf : kept[i] = s.jbuf[j]
      <4>1. CASE kept = s.jbuf
        BY <2>1, <4>1
      <4>2. CASE s.jbuf # <<>> /\ kept = Tail(s.jbuf)
        <5>1. kept[i] = s.jbuf[i + 1] /\ i + 1 \in DOMAIN s.jbuf
          BY <2>1, <4>2
        <5>. QED  BY <5>1
      <4>. QED  BY <2>2, <4>1, <4>2
    <3>. QED  BY <3>1, Zenon DEF PlayerInRange
  <2>4. PICK buf : buf = InsertAt(kept, pos, e)
    OBVIOUS
  <2>5. /\ buf \in Seq(Inputs) /\ Len(buf) = Len(kept) + 1
        /\ \A i \in 1 .. Len(buf) :
              buf[i] = IF i < pos THEN kept[i] ELSE IF i = pos THEN e ELSE kept[i - 1]
    <3>1. kept \in Seq(Inputs) /\ e \in Inputs /\ pos \in 1 .. Len(kept) + 1
      BY <2>2
    <3>2. HasBetween(buf, Inputs, kept, pos, e)
      BY ONLY <2>4, <3>1, Inserted
    <3>. QED  BY ONLY <3>2 DEF HasBetween
  <2>6. ASSUME NEW i \in 1 .. Len(buf) PROVE buf[i].n \in Sent
    <3>1. CASE i < pos
      BY <2>2, <2>3, <2>5, <3>1
    <3>2. CASE i = pos
      BY <2>5, <3>2
    <3>3. CASE i > pos
      <4>1. i - 1 \in 1 .. Len(kept) /\ buf[i] = kept[i - 1]
        BY <2>2, <2>5, <3>3
      <4>. QED  BY <2>3, <4>1
    <3>. QED  BY <2>2, <3>1, <3>2, <3>3
  <2>7. InsertJitter(s, e).jbuf = buf /\ DOMAIN buf = 1 .. Len(buf)
    BY <2>1, <2>2, <2>4, <2>5 DEF PState
  <2>. QED  BY <2>6, <2>7 DEF PlayerInRange
<1>. QED  BY <1>1, <1>2

LEMMA DeliveryInRange ==
    ASSUME NEW s \in PState, NEW t \in Nat, NEW h \in Seq(Nat), PlayerInRange(s, h),
           NEW r, r = AfterDelivery(s, t), NEW h2, h2 = Given(h, s, t)
    PROVE  PlayerInRange(r, h2)
<1>1. PICK k \in 0 .. Len(s.jbuf) : Hands(k, s, h, r, h2)
  BY HandedOn
<1>2. /\ Len(h2) = Len(h) + k
      /\ \A i \in 1 .. Len(h) : h2[i] = h[i]
      /\ \A i \in 1 .. k : h2[Len(h) + i] = s.jbuf[i].n
      /\ Len(r.jbuf) = Len(s.jbuf) - k
      /\ \A i \in 1 .. Len(r.jbuf) : r.jbuf[i] = s.jbuf[k + i]
  BY <1>1, Zenon DEF Hands
<1>3. h2 \in Seq(Nat) /\ r.jbuf \in Seq(Inputs) /\ s.jbuf \in Seq(Inputs)
      /\ Len(s.jbuf) \in Nat /\ Len(h) \in Nat
  <2>1. h2 \in Seq(Nat) /\ r.jbuf \in Seq(Inputs)
    BY HandedOn
  <2>2. s.jbuf \in Seq(Inputs)
    BY DEF PState, Inputs
  <2>. QED  BY <2>1, <2>2
<1>4. \A i \in 1 .. Len(s.jbuf) : s.jbuf[i].n \in Sent
  BY <1>3 DEF PlayerInRange
<1>5. \A i \in 1 .. Len(h) : h[i] \in Sent
  BY DEF PlayerInRange
<1>6. ASSUME NEW i \in DOMAIN r.jbuf PROVE r.jbuf[i].n \in Sent
  <2>1. i \in 1 .. Len(r.jbuf) /\ k + i \in 1 .. Len(s.jbuf)
    <3>1. i \in 1 .. Len(r.jbuf)
      BY <1>3
    <3>. QED  BY <1>2, <1>3, <3>1
  <2>. QED  BY <1>2, <1>4, <2>1
<1>7. ASSUME NEW i \in DOMAIN h2 PROVE h2[i] \in Sent
  <2>1. i \in 1 .. Len(h) + k
    BY <1>2, <1>3
  <2>2. CASE i <= Len(h)
    BY <1>2, <1>5, <2>1, <2>2
  <2>3. CASE i > Len(h)
    <3>1. PICK j : j = i - Len(h)
      OBVIOUS
    <3>2. j \in 1 .. k /\ j \in 1 .. Len(s.jbuf) /\ i = Len(h) + j
      BY <1>3, <2>1, <2>3, <3>1
    <3>3. h2[i] = s.jbuf[j].n
      BY <1>2, <3>2
    <3>. QED  BY <1>4, <3>2, <3>3
  <2>. QED  BY <1>3, <2>1, <2>2, <2>3
<1>. QED  BY <1>6, <1>7 DEF PlayerInRange

LEMMA InitInRange == Init => InRange
<1>1. NewPlayer.jbuf = <<>>
  BY DEF NewPlayer
<1>2. ASSUME Init, NEW p \in Here PROVE st[p] = NewPlayer /\ heard[p] = <<>>
  BY <1>2 DEF Init, Here
<1>. QED  BY <1>1, <1>2, ClearedInRange DEF InRange

LEMMA NextInRange == TypeOK /\ InRange /\ [Next]_vars => InRange'
<1>. SUFFICES ASSUME TypeOK, InRange, [Next]_vars PROVE InRange'
  OBVIOUS
<1>1. st \in [Players -> PState \cup {None}] /\ heard \in [Players -> Seq(Nat)]
      /\ tick \in Nat
  BY Constants DEF TypeOK
<1>2. CASE UNCHANGED <<st, heard>>
  BY <1>2 DEF InRange, Here, PlayerInRange, Sent
<1>3. ASSUME NEW p \in Players, NEW s, st' = [st EXCEPT ![p] = s],
             heard' = [heard EXCEPT ![p] = <<>>], s.jbuf = <<>>
      PROVE  InRange'
  <2>1. /\ st'[p] = s /\ heard'[p] = <<>>
        /\ \A q \in Players : q # p => st'[q] = st[q] /\ heard'[q] = heard[q]
    BY <1>1, <1>3
  <2>2. PlayerInRange(st'[p], heard'[p])
    BY <1>3, <2>1, ClearedInRange
  <2>. QED  BY <2>1, <2>2, OneInRange
<1>4. ASSUME NEW p \in Players, Join(p) PROVE InRange'
  <2>1. NewPlayer.jbuf = <<>>
    BY DEF NewPlayer
  <2>. QED  BY <1>3, <1>4, <2>1 DEF Join
<1>5. ASSUME NEW p \in Players, Resume(p) PROVE InRange'
  <2>1. st[p] \in PState
    BY <1>1, <1>5 DEF Resume
  <2>2. Resumed(st[p]).jbuf = <<>>
    BY <2>1 DEF Resumed, PState
  <2>. QED  BY <1>3, <1>5, <2>2 DEF Resume
<1>6. ASSUME NEW p \in Players, NEW s, Update(p, s), s = None \/ s.jbuf = st[p].jbuf
      PROVE  InRange'
  <2>1. st' = [st EXCEPT ![p] = s] /\ heard' = heard /\ p \in Here
    BY <1>6 DEF Update, historyVars, Here
  <2>2. st'[p] = s /\ \A q \in Players : q # p => st'[q] = st[q] /\ heard'[q] = heard[q]
    BY <1>1, <2>1
  <2>3. PlayerInRange(st[p], heard[p])
    BY <2>1 DEF InRange
  <2>4. st'[p] # None => PlayerInRange(st'[p], heard'[p])
    BY <1>6, <2>1, <2>2, <2>3 DEF PlayerInRange
  <2>. QED  BY <2>2, <2>4, OneInRange
<1>7. ASSUME NEW p \in Players, NEW rtt \in Rtts,
             Leave(p) \/ Stats(p, rtt) \/ RequestKeyframe(p)
      PROVE  InRange'
  <2>1. CASE Leave(p)
    BY <1>6, <2>1 DEF Leave
  <2>2. CASE Stats(p, rtt)
    <3>1. [st[p] EXCEPT !.rtt = rtt].jbuf = st[p].jbuf
      BY <1>1, <2>2 DEF Stats, Update, PState
    <3>. QED  BY <1>6, <2>2, <3>1 DEF Stats
  <2>3. CASE RequestKeyframe(p)
    <3>1. [st[p] EXCEPT !.force = TRUE].jbuf = st[p].jbuf
      BY <1>1, <2>3 DEF RequestKeyframe, Update, PState
    <3>. QED  BY <1>6, <2>3, <3>1 DEF RequestKeyframe
  <2>. QED  BY <1>7, <2>1, <2>2, <2>3
<1>8. ASSUME NEW p \in Players, NEW n \in FirstInput .. FirstInput + MaxInputs - 1,
             NEW r \in 0 .. MaxTick, HandleCh1Input(p, n, r)
      PROVE  InRange'
  <2>1. p \in Here /\ Fits(st[p]) /\ heard' = heard
    BY <1>8, HereFits DEF HandleCh1Input, Here
  <2>2. PICK e : e = Entry(n, n - FirstInput + Skew[p], tick + Depth(st[p].rtt))
    OBVIOUS
  <2>3. n \in Nat /\ n >= FirstInput /\ st[p].rtt \in Rtts
    BY <2>1, Constants DEF Fits, PState
  <2>4. e \in Inputs /\ e.n \in Sent
    BY <1>1, <2>2, <2>3, EntryType DEF Sent
  <2>5. PICK s : s = InsertJitter(st[p], e)
    OBVIOUS
  <2>6. PlayerInRange(s, heard[p]) /\ s \in PState
    BY <2>1, <2>4, <2>5, InsertInRange, InsertFits DEF InRange, Fits
  <2>7. PICK s2 : s2 = [s EXCEPT !.recv = r % TickMod]
    OBVIOUS
  <2>8. st' = [st EXCEPT ![p] = s2] /\ s2.jbuf = s.jbuf
    BY <1>8, <2>2, <2>5, <2>6, <2>7 DEF HandleCh1Input, PState
  <2>9. /\ st'[p] = s2 /\ heard'[p] = heard[p]
        /\ \A q \in Players : q # p => st'[q] = st[q] /\ heard'[q] = heard[q]
    BY <1>1, <2>1, <2>8
  <2>10. PlayerInRange(st'[p], heard'[p])
    BY <2>6, <2>8, <2>9 DEF PlayerInRange
  <2>. QED  BY <2>9, <2>10, OneInRange
<1>9. ASSUME NEW order, NEW uses, Complete(order, uses) PROVE InRange'
  <2>1. ASSUME NEW p \in Here' PROVE PlayerInRange(st'[p], heard'[p])
    <3>1. /\ p \in Here /\ heard'[p] = Given(heard[p], st[p], tick)
          /\ st'[p].jbuf = Fed(p).jbuf
      BY <1>9, TickBuffer
    <3>2. st[p] \in PState /\ heard[p] \in Seq(Nat) /\ PlayerInRange(st[p], heard[p])
      <4>1. p \in Players /\ Fits(st[p])
        BY <3>1, HereFits
      <4>. QED  BY <1>1, <3>1, <4>1 DEF Fits, InRange
    <3>3. PlayerInRange(Fed(p), heard'[p])
      BY <1>1, <3>1, <3>2, DeliveryInRange DEF Fed
    <3>. QED  BY <3>1, <3>3 DEF PlayerInRange
  <2>. QED  BY <2>1 DEF InRange, PlayerInRange, Sent
<1>10. CASE Event
  <2>1. CASE Overload
    BY <1>2, <2>1 DEF Overload, historyVars
  <2>2. 0 \in Rtts
    BY Constants
  <2>. QED  BY <1>4, <1>5, <1>7, <1>8, <1>10, <2>1, <2>2, Zenon DEF Event
<1>11. CASE DoTick
  <2>1. PICK order \in SetToSeqs(Here) :
           Panic(order) \/ \E uses \in [Here -> Uses] : Complete(order, uses)
    BY <1>11 DEF DoTick
  <2>2. CASE Panic(order)
    BY <1>2, <2>2 DEF Panic, historyVars
  <2>. QED  BY <1>9, <2>1, <2>2
<1>12. CASE UNCHANGED vars
  BY <1>2, <1>12 DEF vars, historyVars
<1>. QED  BY <1>10, <1>11, <1>12 DEF Next

LEMMA FewNear == (MaxInputs <= SeqHalf) /\ TypeOK /\ InRange => Near
<1>. SUFFICES ASSUME MaxInputs <= SeqHalf, TypeOK, InRange,
                     NEW p \in Players, NEW n \in Sent, NEW r \in 0 .. MaxTick,
                     HandleCh1Input(p, n, r)
              PROVE  /\ heard[p] # <<>> => Close(n, Last(heard[p]))
                     /\ \A i \in DOMAIN st[p].jbuf : Close(n, st[p].jbuf[i].n)
  BY DEF Near, Sent
<1>1. \A m \in Sent : Close(n, m)
  BY Constants DEF Sent, Close
<1>2. PlayerInRange(st[p], heard[p]) /\ heard[p] \in Seq(Nat)
  BY DEF HandleCh1Input, Here, InRange, TypeOK
<1>3. heard[p] # <<>> => Last(heard[p]) \in Sent
  BY <1>2 DEF PlayerInRange, Last
<1>4. \A i \in DOMAIN st[p].jbuf : st[p].jbuf[i].n \in Sent
  BY <1>2 DEF PlayerInRange
<1>. QED  BY <1>1, <1>3, <1>4

\* The same of every run in which a client sends no more inputs than half of
\* the range of InputSeq, whatever is lost, repeated or reordered.
THEOREM FewInputsOrdered ==
    MaxInputs <= SeqHalf => (Spec => [](InputsInOrder /\ BufferOrdered))
<1>. SUFFICES ASSUME MaxInputs <= SeqHalf
              PROVE  Spec => [](InputsInOrder /\ BufferOrdered)
  OBVIOUS
<1>1. Init => TypeOK /\ InOrder /\ InRange
  BY InitType, InitInOrder, InitInRange
<1>2. TypeOK /\ InOrder /\ InRange /\ [Next]_vars => (TypeOK /\ InOrder /\ InRange)'
  BY NextType, NextInOrder, NextInRange, FewNear
<1>3. TypeOK /\ InOrder /\ InRange => InputsInOrder /\ BufferOrdered
  BY OrderSeen
<1>. QED  BY <1>1, <1>2, <1>3, PTL DEF Spec
-----------------------------------------------------------------------------
(* Full snapshots, and baselines.                                          *)

\* The period of the snapshots when the rate is halved k times.
Period(k) ==
    LET hz   == Halved(SnapshotHz, k)
        rate == IF SnapshotHz = 0 THEN 0 ELSE IF hz < 1 THEN 1 ELSE hz
    IN IF rate = 0 \/ rate >= TickHz THEN 1 ELSE (TickHz + rate - 1) \div rate

\* Every tick at which a full snapshot is due makes snapshots, whatever the
\* rate: 100 is a multiple of 2, 4, 10 and 20.
KeyOnSchedule == \A k \in 0 .. 3 : KeyInterval % Period(k) = 0

KeyInTime ==
    \A p \in Here : KeyInterval > 0 /\ tick > 0 =>
        lastFull[p] >= (tick - 1) - ((tick - 1) % KeyInterval)
\* A multiple of a multiple.
LEMMA Divides ==
    ASSUME NEW a \in Nat, NEW b \in Nat \ {0}, NEW c \in Nat \ {0}, a % b = 0, b % c = 0
    PROVE  a % c = 0
<1>1. PICK q \in Int : a = q * b
  <2>1. a \in Int
    OBVIOUS
  <2>2. PICK q \in Int : a = q * b + (a % b)
    BY <2>1, Turns
  <2>3. q * b \in Int
    OBVIOUS
  <2>. QED  BY <2>2, <2>3
<1>2. PICK t \in Int : b = t * c
  <2>1. b \in Int
    OBVIOUS
  <2>2. PICK t \in Int : b = t * c + (b % c)
    BY <2>1, Turns
  <2>3. t * c \in Int
    OBVIOUS
  <2>. QED  BY <2>2, <2>3
<1>3. PICK k : k = q * t
  OBVIOUS
<1>4. k \in Int /\ q * (t * c) = (q * t) * c
  BY <1>3
<1>5. a = k * c + 0
  <2>1. k * c \in Int
    BY <1>4
  <2>. QED  BY <1>1, <1>2, <1>3, <1>4, <2>1
<1>6. 0 \in 0 .. c - 1
  OBVIOUS
<1>. QED  BY <1>4, <1>5, <1>6, ModUnique

\* Between two multiples of M the last one stays.
LEMMA SameLap ==
    ASSUME NEW M \in Nat \ {0}, NEW t \in Nat, t % M # 0
    PROVE  t > 0 /\ (t - 1) - ((t - 1) % M) = t - (t % M)
<1>1. t \in Int /\ t % M \in 1 .. M - 1
  BY Turns
<1>2. PICK q \in Int : t = q * M + (t % M)
  BY <1>1, Turns
<1>3. PICK r : r = (t % M) - 1
  OBVIOUS
<1>4. r \in 0 .. M - 1 /\ q * M \in Int
  BY <1>1, <1>3
<1>5. t - 1 = q * M + r /\ t - 1 \in Int
  BY <1>1, <1>2, <1>3, <1>4
<1>6. (t - 1) % M = r
  BY <1>4, <1>5, ModUnique
<1>7. t > 0
  <2>1. t = 0 => t % M = 0
    BY ModUnique
  <2>. QED  BY <2>1
<1>. QED  BY <1>1, <1>3, <1>6, <1>7

LEMMA PeriodType == \A k \in 0 .. 3 : Period(k) \in Nat \ {0}
<1>. SUFFICES ASSUME NEW k \in 0 .. 3 PROVE Period(k) \in Nat \ {0}
  OBVIOUS
<1>1. Halved(SnapshotHz, k) \in Nat
  <2>1. k = 0 \/ k = 1 \/ k = 2 \/ k = 3
    OBVIOUS
  <2>2. 2^0 = 1 /\ 2^1 = 2 /\ 2^2 = 4 /\ 2^3 = 8
    OBVIOUS
  <2>3. SnapshotHz \in Nat
    BY Constants
  <2>4. \A d \in {1, 2, 4, 8} : SnapshotHz \div d \in Nat
    BY <2>3
  <2>5. 2^k \in {1, 2, 4, 8}
    BY <2>1, <2>2
  <2>. QED  BY <2>4, <2>5 DEF Halved
<1>2. PICK hz : hz = Halved(SnapshotHz, k)
  OBVIOUS
<1>3. PICK rate : rate = IF SnapshotHz = 0 THEN 0 ELSE IF hz < 1 THEN 1 ELSE hz
  OBVIOUS
<1>4. Period(k) = IF rate = 0 \/ rate >= TickHz THEN 1 ELSE (TickHz + rate - 1) \div rate
  BY <1>2, <1>3 DEF Period
<1>5. rate \in Nat /\ TickHz \in Nat
  BY <1>1, <1>2, <1>3, Constants
<1>6. ASSUME rate # 0, ~(rate >= TickHz)
      PROVE  (TickHz + rate - 1) \div rate \in Nat \ {0}
  <2>1. PICK a : a = TickHz + rate - 1
    OBVIOUS
  <2>2. a \in Nat /\ a >= rate /\ rate \in Nat \ {0}
    BY <1>5, <1>6, <2>1
  <2>3. PICK q : q = a \div rate
    OBVIOUS
  <2>4. q \in Int /\ a % rate \in 0 .. rate - 1 /\ a = rate * q + (a % rate)
    BY <2>2, <2>3
  <2>5. q >= 1
    <3>1. SUFFICES ASSUME q <= 0 PROVE FALSE
      BY <2>4
    <3>2. rate * q <= 0
      BY <2>2, <2>4, <3>1
    <3>. QED  BY <2>2, <2>4, <3>2
  <2>. QED  BY <2>1, <2>3, <2>4, <2>5
<1>. QED  BY <1>4, <1>6

LEMMA SomePeriod == TypeOK => \E k \in 0 .. 3 : SnapshotEvery = Period(k)
<1>. SUFFICES ASSUME TypeOK PROVE \E k \in 0 .. 3 : SnapshotEvery = Period(k)
  OBVIOUS
<1>1. PICK S : S = {0} \cup {st[p].degrade : p \in Here}
  OBVIOUS
<1>2. S \in SUBSET (0 .. 2) /\ S # {}
  <2>1. \A p \in Here : st[p].degrade \in 0 .. 2
    BY HereFits DEF Fits, PState
  <2>. QED  BY <1>1, <2>1
<1>3. Max(S) \in 0 .. 2
  BY <1>2, MaxUpTo
<1>4. PICK k : k = Max(S) + (IF overload THEN 1 ELSE 0)
  OBVIOUS
<1>5. k \in 0 .. 3
  BY <1>3, <1>4 DEF TypeOK
<1>6. SnapshotRate =
        LET hz == Halved(SnapshotHz, k)
        IN  IF SnapshotHz = 0 THEN 0 ELSE IF hz < 1 THEN 1 ELSE hz
  BY <1>1, <1>4, Zenon DEF SnapshotRate
<1>7. SnapshotEvery = Period(k)
  BY <1>6, Zenon DEF SnapshotEvery, Period
<1>. QED  BY <1>5, <1>7

\* A tick that is a multiple of every period makes snapshots.
LEMMA OnSchedule ==
    ASSUME TypeOK, NEW lap \in Nat \ {0}, \A k \in 0 .. 3 : lap % Period(k) = 0,
           tick % lap = 0
    PROVE  Scheduled
<1>1. PICK k \in 0 .. 3 : SnapshotEvery = Period(k)
  BY SomePeriod
<1>2. Period(k) \in Nat \ {0} /\ tick \in Nat
  BY PeriodType, Constants DEF TypeOK
<1>3. tick % Period(k) = 0
  BY <1>2, Divides
<1>. QED  BY <1>1, <1>3 DEF Scheduled

LEMMA NextKeyInTime ==
    KeyOnSchedule /\ TypeOK /\ KeyInTime /\ [Next]_vars => KeyInTime'
<1>. SUFFICES ASSUME KeyOnSchedule, TypeOK, KeyInTime, [Next]_vars, KeyInterval > 0
              PROVE  KeyInTime'
  BY DEF KeyInTime
<1>1. KeyInterval \in Nat \ {0} /\ tick \in Nat /\ lastFull \in [Players -> Nat]
  BY Constants DEF TypeOK
<1>2. CASE UNCHANGED <<tick, lastFull>> /\ \A p \in Players : st'[p] # None => st[p] # None
  BY <1>2 DEF KeyInTime, Here
<1>3. ASSUME NEW p \in Players, Join(p) PROVE KeyInTime'
  <2>1. /\ tick' = tick /\ lastFull' = [lastFull EXCEPT ![p] = tick]
        /\ st' = [st EXCEPT ![p] = NewPlayer] /\ st \in [Players -> PState \cup {None}]
    BY <1>3 DEF Join, TypeOK
  <2>2. ASSUME NEW q \in Here', tick > 0
        PROVE  lastFull'[q] >= (tick - 1) - ((tick - 1) % KeyInterval)
    <3>1. q \in Players
      BY DEF Here
    <3>2. CASE q = p
      <4>1. tick - 1 \in Int
        BY <1>1
      <4>2. (tick - 1) % KeyInterval \in 0 .. KeyInterval - 1
        BY <1>1, <4>1, Turns
      <4>3. lastFull'[q] = tick
        BY <1>1, <2>1, <3>2
      <4>. QED  BY <1>1, <4>2, <4>3
    <3>3. CASE q # p
      <4>1. q \in Here /\ lastFull'[q] = lastFull[q]
        BY <1>1, <2>1, <3>1, <3>3 DEF Here
      <4>. QED  BY <2>2, <4>1 DEF KeyInTime
    <3>. QED  BY <3>2, <3>3
  <2>. QED  BY <2>1, <2>2 DEF KeyInTime
<1>4. ASSUME NEW order, NEW uses, Complete(order, uses) PROVE KeyInTime'
  <2>1. /\ tick' = tick + 1
        /\ lastFull' = [q \in Players |->
               IF q \in Here /\ Scheduled /\ Baseline(Fed(q)) = None THEN tick
               ELSE lastFull[q]]
    BY <1>4, Zenon DEF Complete
  <2>2. tick % KeyInterval \in 0 .. KeyInterval - 1
    BY <1>1, Turns
  <2>3. ASSUME NEW q \in Here'
        PROVE  lastFull'[q] >= tick - (tick % KeyInterval)
    <3>1. q \in Here /\ q \in Players
      BY <1>4, TickBuffer DEF Here
    <3>2. CASE tick % KeyInterval = 0
      <4>1. Scheduled
        BY <1>1, <3>2, OnSchedule DEF KeyOnSchedule
      <4>2. Baseline(Fed(q)) = None
        BY <3>2 DEF Baseline, ForceKey
      <4>3. lastFull'[q] = tick
        BY <2>1, <3>1, <4>1, <4>2
      <4>. QED  BY <1>1, <3>2, <4>3
    <3>3. CASE tick % KeyInterval # 0
      <4>1. tick > 0 /\ (tick - 1) - ((tick - 1) % KeyInterval) = tick - (tick % KeyInterval)
        BY <1>1, <3>3, SameLap
      <4>2. lastFull[q] >= tick - (tick % KeyInterval)
        BY <3>1, <4>1 DEF KeyInTime
      <4>3. lastFull'[q] = tick \/ lastFull'[q] = lastFull[q]
        BY <2>1, <3>1
      <4>. QED  BY <1>1, <2>2, <4>2, <4>3
    <3>. QED  BY <3>2, <3>3
  <2>4. (tick + 1) - 1 = tick
    BY <1>1
  <2>5. tick' - 1 = tick
    BY <2>1, <2>4
  <2>. QED  BY <2>3, <2>5 DEF KeyInTime
<1>5. CASE Event
  <2>1. CASE Overload
    BY <1>2, <2>1 DEF Overload, historyVars
  <2>2. ASSUME NEW p \in Players, NEW s, Update(p, s) PROVE KeyInTime'
    <3>1. \A q \in Players : st'[q] # None => st[q] # None
      BY <2>2 DEF Update, TypeOK
    <3>. QED  BY <1>2, <2>2, <3>1 DEF Update, historyVars
  <2>3. ASSUME NEW p \in Players, Resume(p) PROVE KeyInTime'
    <3>1. \A q \in Players : st'[q] # None => st[q] # None
      BY <2>3 DEF Resume, TypeOK
    <3>. QED  BY <1>2, <2>3, <3>1 DEF Resume
  <2>4. ASSUME NEW p \in Players, NEW n, NEW r, HandleCh1Input(p, n, r) PROVE KeyInTime'
    <3>1. \A q \in Players : st'[q] # None => st[q] # None
      BY <2>4 DEF HandleCh1Input, TypeOK
    <3>. QED  BY <1>2, <2>4, <3>1 DEF HandleCh1Input
  <2>. QED  BY <1>3, <1>5, <2>1, <2>2, <2>3, <2>4, Zenon
            DEF Event, Leave, Stats, RequestKeyframe
<1>6. CASE DoTick
  <2>1. PICK order \in SetToSeqs(Here) :
           Panic(order) \/ \E uses \in [Here -> Uses] : Complete(order, uses)
    BY <1>6 DEF DoTick
  <2>2. CASE Panic(order)
    BY <1>2, <2>2 DEF Panic, historyVars
  <2>. QED  BY <1>4, <2>1, <2>2
<1>7. CASE UNCHANGED vars
  BY <1>2, <1>7 DEF vars, historyVars
<1>. QED  BY <1>5, <1>6, <1>7 DEF Next

\* When the interval of full snapshots is a multiple of every period that the
\* rate may take, no degradation and no overload puts the full snapshot of a
\* player off (scheduleSnapshots, snapshotEvery).
THEOREM KeyframesInTime == KeyOnSchedule => (Spec => []KeyframeInTime)
<1>. SUFFICES ASSUME KeyOnSchedule PROVE Spec => []KeyframeInTime
  OBVIOUS
<1>1. Init => TypeOK /\ KeyInTime
  <2>1. Init => KeyInTime
    BY DEF Init, KeyInTime
  <2>. QED  BY <2>1, InitType
<1>2. TypeOK /\ KeyInTime /\ [Next]_vars => (TypeOK /\ KeyInTime)'
  BY NextType, NextKeyInTime
<1>3. TypeOK /\ KeyInTime => KeyframeInTime
  <2>. SUFFICES ASSUME TypeOK, KeyInTime, NEW p \in Here, KeyInterval > 0
                PROVE  tick - lastFull[p] <= KeyInterval
    BY DEF KeyframeInTime
  <2>1. KeyInterval \in Nat \ {0} /\ tick \in Nat /\ lastFull[p] \in Nat
    <3>1. p \in Players
      BY HereFits
    <3>. QED  BY <3>1, Constants DEF TypeOK
  <2>2. CASE tick = 0
    BY <2>1, <2>2
  <2>3. CASE tick > 0
    <3>1. lastFull[p] >= (tick - 1) - ((tick - 1) % KeyInterval)
      BY <2>3 DEF KeyInTime
    <3>2. tick - 1 \in Int
      BY <2>1
    <3>3. (tick - 1) % KeyInterval \in 0 .. KeyInterval - 1
      BY <2>1, <3>2, Turns
    <3>. QED  BY <2>1, <3>1, <3>3
  <2>. QED  BY <2>1, <2>2, <2>3
<1>. QED  BY <1>1, <1>2, <1>3, PTL DEF Spec
-----------------------------------------------------------------------------
(* Baselines.                                                              *)

\* Every lap-th tick makes snapshots, whatever the rate.
IsLap(lap) == \A k \in 0 .. 3 : lap % Period(k) = 0

\* At tick t, with m the ticks of the snapshots made for a player, r the one it
\* reported and b the tick of its join or resume: the ring holds ticks since b,
\* among them the last one made, and one in each lap at least.
RecentRing(lap, s, m, r, b, t) ==
    /\ \A x \in m : x < t
    /\ r \in m \cup {0} /\ s.recv = r % TickMod
    /\ b <= t
    /\ \A i \in DOMAIN s.ring :
          /\ s.ring[i] >= b /\ s.ring[i] < t
          /\ Last(s.ring) - s.ring[i] <= (Len(s.ring) - i) * lap
    /\ s.ring # <<>> =>
          /\ \A x \in m : x <= Last(s.ring)
          /\ Last(s.ring) >= (t - 1) - ((t - 1) % lap)

RingIsRecent(lap) ==
    \A p \in Here : RecentRing(lap, st[p], made[p], told[p], since[p], tick)

\* The ring does not reach back TickMod ticks: 31 * 20 is less than 65536.
RingFits ==
    \E lap \in Nat \ {0} : IsLap(lap) /\ (RingSize - 1) * lap < TickMod

LEMMA OneRecent ==
    ASSUME NEW lap, RingIsRecent(lap), BaselineHeld, NEW p \in Players, tick' = tick,
           \A q \in Players : q # p =>
               /\ st'[q] = st[q] /\ made'[q] = made[q] /\ told'[q] = told[q]
               /\ snap'[q] = snap[q] /\ since'[q] = since[q],
           st'[p] # None =>
               /\ RecentRing(lap, st'[p], made'[p], told'[p], since'[p], tick)
               /\ snap'[p] = None \/ (p \in Here /\ snap'[p] = snap[p] /\ since'[p] = since[p])
    PROVE  RingIsRecent(lap)' /\ BaselineHeld'
<1>1. ASSUME NEW q \in Here'
      PROVE  /\ RecentRing(lap, st'[q], made'[q], told'[q], since'[q], tick)
             /\ \/ snap'[q] = None
                \/ q \in Here /\ snap'[q] = snap[q] /\ since'[q] = since[q]
  <2>1. q \in Players /\ st'[q] # None
    BY <1>1 DEF Here
  <2>2. CASE q = p
    BY <2>1, <2>2
  <2>3. CASE q # p
    <3>1. /\ st'[q] = st[q] /\ made'[q] = made[q] /\ told'[q] = told[q]
          /\ snap'[q] = snap[q] /\ since'[q] = since[q] /\ q \in Here
      BY <2>1, <2>3 DEF Here
    <3>. QED  BY <3>1 DEF RingIsRecent
  <2>. QED  BY <2>2, <2>3
<1>2. RingIsRecent(lap)'
  BY <1>1 DEF RingIsRecent, RecentRing
<1>3. BaselineHeld'
  BY <1>1, Zenon DEF BaselineHeld
<1>. QED  BY <1>2, <1>3

LEMMA EmptyRecent ==
    ASSUME NEW lap, NEW s, s.ring = <<>>, NEW m, NEW r, NEW b, NEW t,
           \A x \in m : x < t, r \in m \cup {0}, s.recv = r % TickMod, b <= t
    PROVE  RecentRing(lap, s, m, r, b, t)
<1>1. DOMAIN <<>> = {}
  OBVIOUS
<1>. QED  BY <1>1 DEF RecentRing

LEMMA EventRecent ==
    ASSUME NEW lap, TypeOK, RingIsRecent(lap), BaselineHeld, Event
    PROVE  RingIsRecent(lap)' /\ BaselineHeld'
<1>1. /\ st \in [Players -> PState \cup {None}] /\ tick \in Nat
      /\ made \in [Players -> SUBSET Nat] /\ told \in [Players -> Nat]
      /\ since \in [Players -> Nat] /\ DOMAIN snap = Players
  BY Constants DEF TypeOK
<1>2. CASE Overload
  BY <1>2 DEF Overload, historyVars, RingIsRecent, BaselineHeld, Here, RecentRing
<1>3. ASSUME NEW p \in Players, Join(p) PROVE RingIsRecent(lap)' /\ BaselineHeld'
  <2>1. PICK none : none = <<>>
    OBVIOUS
  <2>2. /\ tick' = tick /\ st'[p] = NewPlayer /\ made'[p] = {} /\ told'[p] = 0
        /\ snap'[p] = None /\ since'[p] = tick
        /\ \A q \in Players : q # p =>
               /\ st'[q] = st[q] /\ made'[q] = made[q] /\ told'[q] = told[q]
               /\ snap'[q] = snap[q] /\ since'[q] = since[q]
    BY <1>1, <1>3 DEF Join
  <2>3. NewPlayer.ring = <<>> /\ NewPlayer.recv = 0
    BY DEF NewPlayer
  <2>4. 0 % TickMod = 0
    BY Constants, ModUnique
  <2>5. RecentRing(lap, NewPlayer, {}, 0, tick, tick)
    BY <1>1, <2>3, <2>4, EmptyRecent
  <2>. QED  BY <2>2, <2>5, OneRecent
<1>4. ASSUME NEW p \in Players, NEW s, Update(p, s),
             s = None \/ (s.ring = st[p].ring /\ s.recv = st[p].recv)
      PROVE  RingIsRecent(lap)' /\ BaselineHeld'
  <2>1. /\ st' = [st EXCEPT ![p] = s] /\ p \in Here /\ tick' = tick
        /\ made' = made /\ told' = told /\ snap' = snap /\ since' = since
    BY <1>4 DEF Update, historyVars, Here
  <2>2. st'[p] = s /\ \A q \in Players : q # p => st'[q] = st[q]
    BY <1>1, <2>1
  <2>3. RecentRing(lap, st[p], made[p], told[p], since[p], tick)
    BY <2>1 DEF RingIsRecent
  <2>4. s # None => RecentRing(lap, s, made[p], told[p], since[p], tick)
    BY <1>4, <2>3 DEF RecentRing
  <2>. QED  BY <2>1, <2>2, <2>4, OneRecent
<1>5. ASSUME NEW p \in Players, NEW rtt \in Rtts,
             Leave(p) \/ Stats(p, rtt) \/ RequestKeyframe(p)
      PROVE  RingIsRecent(lap)' /\ BaselineHeld'
  <2>1. CASE Leave(p)
    BY <1>4, <2>1 DEF Leave
  <2>2. CASE Stats(p, rtt)
    <3>1. PICK s : s = [st[p] EXCEPT !.rtt = rtt]
      OBVIOUS
    <3>2. st[p] \in PState
      BY <1>1, <2>2 DEF Stats, Update
    <3>3. s.ring = st[p].ring /\ s.recv = st[p].recv
      BY <3>1, <3>2 DEF PState
    <3>. QED  BY <1>4, <2>2, <3>1, <3>3 DEF Stats
  <2>3. CASE RequestKeyframe(p)
    <3>1. PICK s : s = [st[p] EXCEPT !.force = TRUE]
      OBVIOUS
    <3>2. st[p] \in PState
      BY <1>1, <2>3 DEF RequestKeyframe, Update
    <3>3. s.ring = st[p].ring /\ s.recv = st[p].recv
      BY <3>1, <3>2 DEF PState
    <3>. QED  BY <1>4, <2>3, <3>1, <3>3 DEF RequestKeyframe
  <2>. QED  BY <1>5, <2>1, <2>2, <2>3
<1>6. ASSUME NEW p \in Players, Resume(p) PROVE RingIsRecent(lap)' /\ BaselineHeld'
  <2>1. /\ p \in Here /\ tick' = tick /\ st'[p] = Resumed(st[p])
        /\ snap'[p] = None /\ since'[p] = tick /\ made' = made /\ told' = told
        /\ \A q \in Players : q # p =>
               /\ st'[q] = st[q] /\ snap'[q] = snap[q] /\ since'[q] = since[q]
    BY <1>1, <1>6 DEF Resume, Here
  <2>2. st[p] \in PState
    BY <1>1, <1>6 DEF Resume
  <2>3. Resumed(st[p]).ring = <<>> /\ Resumed(st[p]).recv = st[p].recv
    BY <2>2 DEF Resumed, PState
  <2>4. RecentRing(lap, st[p], made[p], told[p], since[p], tick)
    BY <2>1 DEF RingIsRecent
  <2>5. /\ \A x \in made[p] : x < tick
        /\ told[p] \in made[p] \cup {0} /\ st[p].recv = told[p] % TickMod
    BY <2>4 DEF RecentRing
  <2>6. RecentRing(lap, Resumed(st[p]), made[p], told[p], tick, tick)
    BY <1>1, <2>3, <2>5, EmptyRecent
  <2>. QED  BY <2>1, <2>6, OneRecent
<1>7. ASSUME NEW p \in Players, NEW n \in FirstInput .. FirstInput + MaxInputs - 1,
             NEW r \in 0 .. MaxTick, HandleCh1Input(p, n, r)
      PROVE  RingIsRecent(lap)' /\ BaselineHeld'
  <2>1. p \in Here /\ Fits(st[p])
    BY <1>1, <1>7, HereFits DEF HandleCh1Input, Here
  <2>2. PICK e : e = Entry(n, n - FirstInput + Skew[p], tick + Depth(st[p].rtt))
    OBVIOUS
  <2>3. n \in Nat /\ n >= FirstInput /\ st[p].rtt \in Rtts
    <3>1. st[p].rtt \in Rtts
      BY <2>1 DEF Fits, PState
    <3>2. n \in Nat /\ n >= FirstInput
      BY Constants
    <3>. QED  BY <3>1, <3>2
  <2>4. e \in Inputs
    BY <1>1, <2>2, <2>3, EntryType
  <2>5. PICK s : s = InsertJitter(st[p], e)
    OBVIOUS
  <2>6. s \in PState /\ s.ring = st[p].ring
    BY <2>1, <2>4, <2>5, InsertFits DEF Fits
  <2>7. PICK s2 : s2 = [s EXCEPT !.recv = r % TickMod]
    OBVIOUS
  <2>8. s2.ring = st[p].ring /\ s2.recv = r % TickMod
    BY <2>6, <2>7 DEF PState
  <2>9. /\ st' = [st EXCEPT ![p] = s2] /\ told' = [told EXCEPT ![p] = r]
        /\ tick' = tick /\ made' = made /\ snap' = snap /\ since' = since
        /\ r \in made[p] \cup {0}
    BY <1>7, <2>2, <2>5, <2>7 DEF HandleCh1Input
  <2>10. /\ st'[p] = s2 /\ told'[p] = r
         /\ \A q \in Players : q # p => st'[q] = st[q] /\ told'[q] = told[q]
    BY <1>1, <2>9
  <2>11. RecentRing(lap, st[p], made[p], told[p], since[p], tick)
    BY <2>1 DEF RingIsRecent
  <2>12. RecentRing(lap, s2, made[p], r, since[p], tick)
    BY <2>8, <2>9, <2>11 DEF RecentRing
  <2>. QED  BY <2>1, <2>9, <2>10, <2>12, OneRecent
<1>8. 0 \in Rtts
  BY Constants
<1>. QED  BY <1>2, <1>3, <1>5, <1>6, <1>7, <1>8, Zenon DEF Event

\* The snapshot of a tick goes into the ring.
LEMMA PushRecent ==
    ASSUME NEW lap \in Nat \ {0}, NEW ring \in Seq(Nat), Len(ring) <= RingSize,
           NEW t \in Nat, NEW b \in Nat, b <= t,
           \A i \in 1 .. Len(ring) :
              /\ ring[i] >= b /\ ring[i] < t
              /\ Last(ring) - ring[i] <= (Len(ring) - i) * lap,
           ring # <<>> => Last(ring) >= (t - 1) - ((t - 1) % lap),
           NEW r, r = PushBaseline(ring, t)
    PROVE  /\ r \in Seq(Nat) /\ r # <<>> /\ Last(r) = t
           /\ \A i \in 1 .. Len(r) :
                 r[i] >= b /\ r[i] < t + 1 /\ Last(r) - r[i] <= (Len(r) - i) * lap
<1>1. PICK a : a = Append(ring, t)
  OBVIOUS
<1>2. PICK n : n = Len(ring)
  OBVIOUS
<1>3. /\ n \in Nat /\ a \in Seq(Nat) /\ Len(a) = n + 1 /\ a[n + 1] = t
      /\ \A i \in 1 .. n : a[i] = ring[i] /\ ring[i] \in Nat
  BY <1>1, <1>2, Appended
<1>4. ASSUME NEW i \in 1 .. n + 1
      PROVE  a[i] \in Nat /\ a[i] >= b /\ a[i] < t + 1 /\ t - a[i] <= ((n + 1) - i) * lap
  <2>1. CASE i = n + 1
    <3>1. ((n + 1) - i) * lap = 0
      BY <1>3, <2>1
    <3>. QED  BY <1>3, <2>1, <3>1
  <2>2. CASE i \in 1 .. n
    <3>1. ring # <<>> /\ n \in 1 .. n /\ Last(ring) = ring[n]
      BY <1>2, <1>3, <2>2 DEF Last
    <3>2. t - ring[n] <= lap
      <4>1. t - 1 \in Int
        OBVIOUS
      <4>2. (t - 1) % lap \in 0 .. lap - 1
        BY <4>1, Turns
      <4>3. ring[n] >= (t - 1) - ((t - 1) % lap)
        BY <3>1
      <4>4. PICK m : m = (t - 1) % lap
        OBVIOUS
      <4>5. m \in 0 .. lap - 1 /\ ring[n] >= (t - 1) - m /\ ring[n] \in Nat
        BY <1>3, <3>1, <4>2, <4>3, <4>4
      <4>6. t \in Nat /\ lap \in Nat
        OBVIOUS
      <4>. QED  BY ONLY <4>5, <4>6
    <3>3. ring[n] - ring[i] <= (n - i) * lap
      BY <1>2, <2>2, <3>1
    <3>4. ((n + 1) - i) * lap = (n - i) * lap + lap /\ (n - i) * lap \in Int
      BY <1>3, <2>2
    <3>5. ring[i] \in Nat /\ ring[n] \in Nat /\ a[i] = ring[i]
      BY <1>3, <2>2, <3>1
    <3>6. ring[i] >= b /\ ring[i] < t
      BY <1>2, <2>2
    <3>7. t - ring[i] <= ((n + 1) - i) * lap
      <4>1. PICK x : x = (n - i) * lap
        OBVIOUS
      <4>2. PICK y : y = ((n + 1) - i) * lap
        OBVIOUS
      <4>3. x \in Int /\ y = x + lap /\ ring[n] - ring[i] <= x
        BY <3>3, <3>4, <4>1, <4>2
      <4>4. t \in Nat /\ lap \in Nat
        OBVIOUS
      <4>5. ring[i] \in Nat /\ ring[n] \in Nat
        BY <3>5
      <4>6. t - ring[i] <= y
        BY ONLY <3>2, <4>3, <4>4, <4>5
      <4>. QED  BY <4>2, <4>6
    <3>. QED  BY <3>5, <3>6, <3>7
  <2>. QED  BY <1>3, <2>1, <2>2
<1>5. r = IF Len(a) > RingSize THEN Tail(a) ELSE a
  BY <1>1 DEF PushBaseline
<1>6. CASE r = a
  <2>1. r # <<>> /\ Last(r) = t
    BY <1>3, <1>6 DEF Last
  <2>. QED  BY <1>3, <1>4, <1>6, <2>1
<1>7. CASE Len(a) > RingSize /\ r = Tail(a)
  <2>1. a # <<>> /\ n >= 1
    BY <1>3, <1>7, Constants
  <2>2. r \in Seq(Nat) /\ Len(r) = n /\ \A i \in 1 .. n : r[i] = a[i + 1]
    <3>1. r \in Seq(Nat) /\ Len(r) = Len(a) - 1 /\ \A i \in 1 .. Len(r) : r[i] = a[i + 1]
      BY <1>3, <1>7, <2>1, Tailed
    <3>. QED  BY <1>3, <3>1
  <2>3. r # <<>> /\ Last(r) = t
    BY <1>3, <2>1, <2>2 DEF Last
  <2>4. ASSUME NEW i \in 1 .. n
        PROVE  r[i] >= b /\ r[i] < t + 1 /\ t - r[i] <= (n - i) * lap
    <3>1. PICK j : j = i + 1
      OBVIOUS
    <3>2. j \in 1 .. n + 1 /\ r[i] = a[j] /\ (n + 1) - j = n - i
      BY <1>3, <2>2, <3>1
    <3>3. a[j] >= b /\ a[j] < t + 1 /\ t - a[j] <= ((n + 1) - j) * lap
      BY <1>4, <3>2
    <3>. QED  BY <3>2, <3>3
  <2>. QED  BY <2>2, <2>3, <2>4
<1>. QED  BY <1>5, <1>6, <1>7

\* A tick that makes no snapshot is in the lap of the tick before it.
LEMMA QuietRecent ==
    ASSUME TypeOK, NEW lap \in Nat \ {0}, IsLap(lap), ~Scheduled
    PROVE  (tick - 1) - ((tick - 1) % lap) = tick - (tick % lap)
<1>1. tick \in Nat
  BY Constants DEF TypeOK
<1>2. tick % lap # 0
  BY <1>1, OnSchedule DEF IsLap
<1>. QED  BY <1>1, <1>2, SameLap

\* The baseline of a delta is the snapshot that the client has reported.
LEMMA BaselineIs ==
    ASSUME NEW lap \in Nat \ {0}, (RingSize - 1) * lap < TickMod,
           NEW s \in PState, Len(s.ring) <= RingSize,
           NEW m \in SUBSET Nat, NEW r \in Nat, NEW b \in Nat, NEW t \in Nat,
           RecentRing(lap, s, m, r, b, t), Baseline(s) \notin {None, 0}
    PROVE  Baseline(s) = r /\ r >= b
<1>1. /\ s.ring \in Seq(Nat) /\ RingSize \in Nat \ {0} /\ TickMod \in Nat \ {0}
      /\ \A i \in 1 .. Len(s.ring) : s.ring[i] \in Nat
  BY Constants DEF PState
<1>2. Baseline(s) = s.recv /\ BaselineHas(s)
  BY DEF Baseline
<1>3. PICK i \in 1 .. Len(s.ring) : s.ring[i] = s.recv
  <2>1. DOMAIN s.ring = 1 .. Len(s.ring)
    BY <1>1
  <2>. QED  BY <1>2, <2>1, Zenon DEF BaselineHas
<1>4. s.recv = r % TickMod /\ r \in m \cup {0}
  BY DEF RecentRing
<1>5. r # 0
  <2>1. 0 % TickMod = 0
    BY <1>1, ModUnique
  <2>. QED  BY <1>2, <1>4, <2>1
<1>6. s.ring # <<>> /\ Last(s.ring) \in Nat /\ r <= Last(s.ring)
  <2>1. s.ring # <<>> /\ Len(s.ring) \in 1 .. Len(s.ring)
    BY <1>1, <1>3
  <2>2. Last(s.ring) \in Nat
    BY <1>1, <2>1 DEF Last
  <2>. QED  BY <1>4, <1>5, <2>1, <2>2 DEF RecentRing
<1>7. s.ring[i] >= b /\ Last(s.ring) - s.ring[i] <= (Len(s.ring) - i) * lap
  <2>1. i \in DOMAIN s.ring
    BY <1>1
  <2>. QED  BY <2>1, Zenon DEF RecentRing
<1>8. (Len(s.ring) - i) * lap <= (RingSize - 1) * lap
  <2>1. PICK x : x = Len(s.ring) - i
    OBVIOUS
  <2>2. PICK y : y = RingSize - 1
    OBVIOUS
  <2>3. x \in Nat /\ y \in Nat /\ x <= y
    BY <1>1, <2>1, <2>2
  <2>4. PICK d : d = y - x
    OBVIOUS
  <2>5. d \in Nat /\ y = x + d
    BY <2>3, <2>4
  <2>6. d * lap \in Int /\ d * lap >= 0 /\ x * lap \in Int /\ (x + d) * lap = x * lap + d * lap
    BY <2>3, <2>5
  <2>7. x * lap <= y * lap
    BY <2>5, <2>6
  <2>. QED  BY <2>1, <2>2, <2>7
<1>9. Last(s.ring) - s.ring[i] < TickMod
  <2>1. PICK x : x = (Len(s.ring) - i) * lap
    OBVIOUS
  <2>2. PICK y : y = (RingSize - 1) * lap
    OBVIOUS
  <2>3. x \in Int /\ y \in Int
    BY <1>1, <2>1, <2>2
  <2>4. x <= y /\ y < TickMod /\ Last(s.ring) - s.ring[i] <= x
    BY <1>7, <1>8, <2>1, <2>2
  <2>5. Last(s.ring) - s.ring[i] \in Int /\ TickMod \in Int
    BY <1>1, <1>6
  <2>. QED  BY ONLY <2>3, <2>4, <2>5
<1>10. s.ring[i] = r
  <2>1. s.ring[i] \in 0 .. TickMod - 1
    <3>1. r \in Int
      OBVIOUS
    <3>. QED  BY <1>1, <1>3, <1>4, <3>1, Turns
  <2>2. s.ring[i] % TickMod = r % TickMod
    <3>1. s.ring[i] % TickMod = s.ring[i]
      <4>1. PICK x : x = s.ring[i]
        OBVIOUS
      <4>2. x \in 0 .. TickMod - 1
        BY <2>1, <4>1
      <4>3. x % TickMod = x
        BY ONLY <1>1, <4>2
      <4>. QED  BY <4>1, <4>3
    <3>. QED  BY <1>3, <1>4, <3>1
  <2>3. -TickMod < r - s.ring[i] /\ r - s.ring[i] < TickMod
    <3>1. s.ring[i] \in Int /\ Last(s.ring) \in Int /\ r \in Nat /\ TickMod \in Nat
      BY <1>1, <1>6
    <3>2. r <= Last(s.ring)
      BY <1>6
    <3>. QED  BY ONLY <1>9, <2>1, <3>1, <3>2
  <2>4. r \in Int /\ s.ring[i] \in Int
    BY <1>1
  <2>. QED  BY <1>1, <2>2, <2>3, <2>4, ModSame
<1>. QED  BY <1>2, <1>3, <1>7, <1>10

LEMMA TickRecent ==
    ASSUME NEW lap \in Nat \ {0}, IsLap(lap), (RingSize - 1) * lap < TickMod,
           TypeOK, RingIsRecent(lap), BaselineHeld,
           NEW order, NEW uses, Complete(order, uses)
    PROVE  RingIsRecent(lap)' /\ BaselineHeld'
<1>1. /\ tick \in Nat /\ made \in [Players -> SUBSET Nat] /\ told \in [Players -> Nat]
      /\ since \in [Players -> Nat]
  BY Constants DEF TypeOK
<1>2. tick' = tick + 1 /\ told' = told /\ since' = since
  BY DEF Complete
<1>3. ASSUME NEW p \in Here'
      PROVE  /\ RecentRing(lap, st'[p], made'[p], told'[p], since'[p], tick')
             /\ (snap'[p] # None /\ snap'[p].base \notin {None, 0}) =>
                    snap'[p].base = snap'[p].told /\ snap'[p].base >= since'[p]
  <2>1. p \in Here /\ p \in Players
    BY TickBuffer DEF Here
  <2>2. /\ st'[p].recv = Fed(p).recv
        /\ st'[p].ring = IF Scheduled THEN PushBaseline(st[p].ring, tick) ELSE st[p].ring
    BY TickBuffer
  <2>3. /\ Fits(Fed(p)) /\ Fed(p).ring = st[p].ring /\ Fed(p).recv = st[p].recv
        /\ st[p].ring \in Seq(Nat) /\ Len(st[p].ring) <= RingSize
    <3>1. Fits(st[p])
      BY <2>1, HereFits
    <3>2. st[p].ring \in Seq(Nat) /\ Len(st[p].ring) <= RingSize
      BY <3>1 DEF Fits, PState
    <3>. QED  BY <1>1, <3>1, <3>2, DeliveryFits DEF Fed
  <2>4. RecentRing(lap, st[p], made[p], told[p], since[p], tick)
    BY <2>1 DEF RingIsRecent
  <2>5. /\ \A x \in made[p] : x < tick
        /\ told[p] \in made[p] \cup {0} /\ st[p].recv = told[p] % TickMod
        /\ since[p] <= tick
        /\ \A i \in 1 .. Len(st[p].ring) :
              /\ st[p].ring[i] >= since[p] /\ st[p].ring[i] < tick
              /\ Last(st[p].ring) - st[p].ring[i] <= (Len(st[p].ring) - i) * lap
        /\ st[p].ring # <<>> =>
              /\ \A x \in made[p] : x <= Last(st[p].ring)
              /\ Last(st[p].ring) >= (tick - 1) - ((tick - 1) % lap)
    <3>1. DOMAIN st[p].ring = 1 .. Len(st[p].ring)
      BY <2>3
    <3>. QED  BY <2>4, <3>1, Zenon DEF RecentRing
  <2>6. told[p] \in Nat /\ since[p] \in Nat /\ made[p] \in SUBSET Nat
    BY <1>1, <2>1
  <2>7. made'[p] = IF Scheduled THEN made[p] \cup {tick} ELSE made[p]
    <3>1. made' = [q \in Players |->
              IF q \in Here /\ Scheduled THEN made[q] \cup {tick} ELSE made[q]]
      BY Zenon DEF Complete
    <3>. QED  BY <2>1, <3>1
  <2>8. snap'[p] = IF Scheduled THEN [base |-> Baseline(Fed(p)), told |-> told[p]] ELSE snap[p]
    <3>1. snap' = [q \in Players |->
              IF q \in Here /\ Scheduled THEN [base |-> Baseline(Fed(q)), told |-> told[q]]
              ELSE snap[q]]
      BY Zenon DEF Complete
    <3>. QED  BY <2>1, <3>1
  <2>9. tick' - 1 = tick
    BY <1>1, <1>2
  <2>10. tick % lap \in 0 .. lap - 1
    <3>1. tick \in Int
      BY <1>1
    <3>. QED  BY <3>1, Turns
  <2>11. CASE Scheduled
    <3>1. PICK r : r = PushBaseline(st[p].ring, tick)
      OBVIOUS
    <3>2. /\ r \in Seq(Nat) /\ r # <<>> /\ Last(r) = tick
          /\ \A i \in 1 .. Len(r) :
                r[i] >= since[p] /\ r[i] < tick + 1 /\ Last(r) - r[i] <= (Len(r) - i) * lap
      <4>1. PICK ring : ring = st[p].ring
        OBVIOUS
      <4>2. PICK b : b = since[p]
        OBVIOUS
      <4>3. /\ ring \in Seq(Nat) /\ Len(ring) <= RingSize /\ b \in Nat /\ b <= tick
            /\ r = PushBaseline(ring, tick)
            /\ \A i \in 1 .. Len(ring) :
                  /\ ring[i] >= b /\ ring[i] < tick
                  /\ Last(ring) - ring[i] <= (Len(ring) - i) * lap
            /\ ring # <<>> => Last(ring) >= (tick - 1) - ((tick - 1) % lap)
        BY <2>3, <2>5, <2>6, <3>1, <4>1, <4>2, Zenon
      <4>4. /\ r \in Seq(Nat) /\ r # <<>> /\ Last(r) = tick
            /\ \A i \in 1 .. Len(r) :
                  r[i] >= b /\ r[i] < tick + 1 /\ Last(r) - r[i] <= (Len(r) - i) * lap
        BY <1>1, <4>3, PushRecent
      <4>. QED  BY <4>2, <4>4
    <3>3. st'[p].ring = r /\ made'[p] = made[p] \cup {tick}
      BY <2>2, <2>7, <2>11, <3>1
    <3>4. \A x \in made'[p] : x < tick' /\ x <= tick
      BY <1>1, <1>2, <2>5, <2>6, <3>3
    <3>5. tick >= tick - (tick % lap)
      BY <1>1, <2>10
    <3>6. DOMAIN r = 1 .. Len(r)
      BY <3>2
    <3>7. since'[p] <= tick'
      BY <1>1, <1>2, <2>5, <2>6
    <3>8. RecentRing(lap, st'[p], made'[p], told'[p], since'[p], tick')
      <4>1. /\ \A x \in made'[p] : x < tick'
            /\ told'[p] \in made'[p] \cup {0} /\ st'[p].recv = told'[p] % TickMod
            /\ since'[p] <= tick'
        BY <1>2, <2>2, <2>3, <2>5, <3>3, <3>4, <3>7
      <4>2. \A i \in DOMAIN st'[p].ring :
              /\ st'[p].ring[i] >= since'[p] /\ st'[p].ring[i] < tick'
              /\ Last(st'[p].ring) - st'[p].ring[i] <= (Len(st'[p].ring) - i) * lap
        BY <1>2, <3>2, <3>3, <3>6
      <4>3. /\ \A x \in made'[p] : x <= Last(st'[p].ring)
            /\ Last(st'[p].ring) >= (tick' - 1) - ((tick' - 1) % lap)
        BY <2>9, <3>2, <3>3, <3>4, <3>5
      <4>. QED  BY <4>1, <4>2, <4>3, Zenon DEF RecentRing
    <3>9. Baseline(Fed(p)) \notin {None, 0} =>
              Baseline(Fed(p)) = told[p] /\ told[p] >= since[p]
      <4>1. Fed(p) \in PState /\ Len(Fed(p).ring) <= RingSize
        BY <2>3 DEF Fits
      <4>2. RecentRing(lap, Fed(p), made[p], told[p], since[p], tick)
        BY <2>3, <2>4 DEF RecentRing
      <4>. QED  BY <1>1, <2>6, <4>1, <4>2, BaselineIs
    <3>10. snap'[p].base = Baseline(Fed(p)) /\ snap'[p].told = told[p]
      BY <2>8, <2>11
    <3>. QED  BY <1>2, <3>8, <3>9, <3>10
  <2>12. CASE ~Scheduled
    <3>1. (tick - 1) - ((tick - 1) % lap) = tick - (tick % lap)
      BY <2>12, QuietRecent
    <3>2. st'[p].ring = st[p].ring /\ made'[p] = made[p] /\ snap'[p] = snap[p]
      BY <2>2, <2>7, <2>8, <2>12
    <3>3. /\ \A x \in made[p] : x < tick'
          /\ since'[p] <= tick'
          /\ \A i \in 1 .. Len(st[p].ring) : st[p].ring[i] < tick'
      <4>1. \A i \in 1 .. Len(st[p].ring) : st[p].ring[i] \in Nat
        BY <2>3
      <4>2. tick' = tick + 1 /\ tick \in Nat /\ since' = since
        BY <1>1, <1>2
      <4>3. \A x \in made[p] : x \in Nat /\ x < tick
        BY <2>5, <2>6
      <4>4. \A i \in 1 .. Len(st[p].ring) : st[p].ring[i] < tick
        BY <2>5
      <4>5. since[p] \in Nat /\ since[p] <= tick
        BY <2>5, <2>6
      <4>. QED  BY ONLY <4>1, <4>2, <4>3, <4>4, <4>5
    <3>4. RecentRing(lap, st'[p], made'[p], told'[p], since'[p], tick')
      <4>1. /\ \A x \in made'[p] : x < tick'
            /\ told'[p] \in made'[p] \cup {0} /\ st'[p].recv = told'[p] % TickMod
            /\ since'[p] <= tick'
        BY <1>2, <2>2, <2>3, <2>5, <3>2, <3>3
      <4>2. DOMAIN st'[p].ring = 1 .. Len(st[p].ring)
        BY <2>3, <3>2
      <4>3. \A i \in DOMAIN st'[p].ring :
              /\ st'[p].ring[i] >= since'[p] /\ st'[p].ring[i] < tick'
              /\ Last(st'[p].ring) - st'[p].ring[i] <= (Len(st'[p].ring) - i) * lap
        BY <1>2, <2>5, <3>2, <3>3, <4>2
      <4>4. st'[p].ring # <<>> =>
              /\ \A x \in made'[p] : x <= Last(st'[p].ring)
              /\ Last(st'[p].ring) >= (tick' - 1) - ((tick' - 1) % lap)
        BY <2>5, <2>9, <3>1, <3>2
      <4>. QED  BY <4>1, <4>3, <4>4, Zenon DEF RecentRing
    <3>. QED  BY <1>2, <2>1, <3>2, <3>4 DEF BaselineHeld
  <2>. QED  BY <2>11, <2>12
<1>4. RingIsRecent(lap)'
  BY <1>3 DEF RingIsRecent, RecentRing
<1>5. BaselineHeld'
  BY <1>3, Zenon DEF BaselineHeld
<1>. QED  BY <1>4, <1>5

\* When the snapshots in the ring are less than 65536 ticks apart, a delta is
\* made against a snapshot that the client has reported, and after a resume
\* against one made since (baselineHas, scheduleSnapshots, inResume).
THEOREM BaselinesHeld == RingFits => (Spec => []BaselineHeld)
<1>. SUFFICES ASSUME NEW lap \in Nat \ {0}, IsLap(lap), (RingSize - 1) * lap < TickMod
              PROVE  Spec => []BaselineHeld
  BY DEF RingFits
<1>1. Init => TypeOK /\ RingIsRecent(lap) /\ BaselineHeld
  <2>. SUFFICES ASSUME Init PROVE RingIsRecent(lap) /\ BaselineHeld
    BY InitType
  <2>1. NewPlayer.ring = <<>> /\ NewPlayer.recv = 0
    BY DEF NewPlayer
  <2>2. 0 % TickMod = 0
    BY Constants, ModUnique
  <2>3. RecentRing(lap, NewPlayer, {}, 0, 0, 0)
    BY <2>1, <2>2, EmptyRecent
  <2>4. \A p \in Here : st[p] = NewPlayer /\ made[p] = {} /\ told[p] = 0 /\ since[p] = 0
                        /\ snap[p] = None
    BY DEF Init, Here
  <2>5. tick = 0
    BY DEF Init
  <2>. QED  BY <2>3, <2>4, <2>5 DEF RingIsRecent, BaselineHeld
<1>2. TypeOK /\ RingIsRecent(lap) /\ BaselineHeld /\ [Next]_vars
        => (TypeOK /\ RingIsRecent(lap) /\ BaselineHeld)'
  <2>. SUFFICES ASSUME TypeOK, RingIsRecent(lap), BaselineHeld, [Next]_vars
                PROVE  RingIsRecent(lap)' /\ BaselineHeld'
    BY NextType
  <2>1. CASE UNCHANGED <<tick, st, historyVars>>
    BY <2>1 DEF historyVars, RingIsRecent, BaselineHeld, Here, RecentRing
  <2>2. CASE Event
    BY <2>2, EventRecent
  <2>3. CASE DoTick
    <3>1. PICK order \in SetToSeqs(Here) :
             Panic(order) \/ \E uses \in [Here -> Uses] : Complete(order, uses)
      BY <2>3 DEF DoTick
    <3>2. CASE Panic(order)
      BY <2>1, <3>2 DEF Panic
    <3>. QED  BY <3>1, <3>2, TickRecent
  <2>4. CASE UNCHANGED vars
    BY <2>1, <2>4 DEF vars
  <2>. QED  BY <2>2, <2>3, <2>4 DEF Next
<1>. QED  BY <1>1, <1>2, PTL DEF Spec
=============================================================================
