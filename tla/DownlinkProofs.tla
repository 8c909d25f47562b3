--------------------------- MODULE DownlinkProofs ---------------------------
(***************************************************************************)
(* The way down, for every value of the constants: the read loop takes off  *)
(* the stream the frames that were written, whatever pieces it gets; every  *)
(* connection has its channel; a client gets its own traffic only; and what *)
(* is sent to a session within a second is within the budget.               *)
(***************************************************************************)
EXTENDS Downlink, WellFoundedInduction, TLAPS

\* The assumptions in the form the provers use them.
LEMMA Constants ==
    /\ Kinds \subseteq {"tcp", "ws"}
    /\ PortMod \in Nat \ {0} /\ ChanCap \in Nat \ {0} /\ QueueCap \in Nat \ {0}
    /\ Threshold \in Nat \ {0} /\ HeaderLen \in Nat \ {0} /\ ChunkLen \in Nat \ {0}
    /\ IdLen \in Nat /\ TagLen \in Nat /\ HelloLen \in Nat /\ MaxBody \in Nat
    /\ MaxConns \in Nat /\ MaxBreaks \in Nat /\ MaxFrames \in Nat
    /\ Script \subseteq Frames
  BY DownlinkAssumption
-----------------------------------------------------------------------------
(* Sequences.                                                              *)

LEMMA Concatenated ==
    ASSUME NEW S, NEW q \in Seq(S), NEW r \in Seq(S)
    PROVE  /\ q \o r \in Seq(S) /\ Len(q \o r) = Len(q) + Len(r)
           /\ DOMAIN (q \o r) = 1 .. Len(q) + Len(r)
           /\ \A i \in 1 .. Len(q) : (q \o r)[i] = q[i]
           /\ \A i \in 1 .. Len(r) : (q \o r)[Len(q) + i] = r[i]
  OBVIOUS

LEMMA Cut ==
    ASSUME NEW S, NEW q \in Seq(S), NEW a \in 1 .. Len(q) + 1, NEW b \in Int, b <= Len(q)
    PROVE  /\ SubSeq(q, a, b) \in Seq(S)
           /\ a <= b + 1 => Len(SubSeq(q, a, b)) = b - a + 1
           /\ a > b => SubSeq(q, a, b) = <<>>
           /\ \A i \in 1 .. b - a + 1 : SubSeq(q, a, b)[i] = q[a + i - 1]
  OBVIOUS

\* Two sequences of one length with the same elements.
LEMMA SameSeq ==
    ASSUME NEW S, NEW T, NEW q \in Seq(S), NEW r \in Seq(T), Len(q) = Len(r),
           \A i \in 1 .. Len(q) : q[i] = r[i]
    PROVE  q = r
  OBVIOUS

\* The concatenation without its first elements.
LEMMA FrontTaken ==
    ASSUME NEW S, NEW q \in Seq(S), NEW r \in Seq(S), NEW n \in Nat, n <= Len(q),
           NEW rest, rest = SubSeq(q, n + 1, Len(q)) \o r
    PROVE  /\ rest \in Seq(S) /\ Len(rest) = Len(q \o r) - n
           /\ \A i \in 1 .. Len(rest) : rest[i] = (q \o r)[n + i]
<1>. DEFINE back == SubSeq(q, n + 1, Len(q))
<1>1. /\ back \in Seq(S) /\ Len(back) = Len(q) - n
      /\ \A i \in 1 .. Len(q) - n : back[i] = q[n + i]
  <2>1. n + 1 \in 1 .. Len(q) + 1 /\ Len(q) \in Int /\ n + 1 <= Len(q) + 1
    OBVIOUS
  <2>2. /\ back \in Seq(S) /\ Len(back) = Len(q) - (n + 1) + 1
        /\ \A i \in 1 .. Len(q) - (n + 1) + 1 : back[i] = q[(n + 1) + i - 1]
    BY <2>1, Cut
  <2>. QED  BY <2>2
<1>2. rest = back \o r
  OBVIOUS
<1>. HIDE DEF back
<1>3. /\ rest \in Seq(S) /\ Len(rest) = Len(back) + Len(r)
      /\ \A i \in 1 .. Len(back) : rest[i] = back[i]
      /\ \A i \in 1 .. Len(r) : rest[Len(back) + i] = r[i]
  <2>1. back \in Seq(S)
    BY <1>1
  <2>. QED  BY ONLY <2>1, r \in Seq(S), <1>2, Concatenated
<1>4. /\ Len(q \o r) = Len(q) + Len(r)
      /\ \A i \in 1 .. Len(q) : (q \o r)[i] = q[i]
      /\ \A i \in 1 .. Len(r) : (q \o r)[Len(q) + i] = r[i]
  BY Concatenated
<1>5. ASSUME NEW i \in 1 .. Len(rest) PROVE rest[i] = (q \o r)[n + i]
  <2>1. CASE i <= Len(q) - n
    <3>1. i \in 1 .. Len(q) - n /\ n + i \in 1 .. Len(q)
      BY <1>3, <2>1
    <3>. QED  BY <1>1, <1>3, <1>4, <3>1
  <2>2. CASE ~(i <= Len(q) - n)
    <3>. DEFINE j == i - (Len(q) - n)
    <3>1. j \in 1 .. Len(r) /\ i = Len(back) + j /\ n + i = Len(q) + j
      BY <1>1, <1>3, <2>2
    <3>. HIDE DEF j
    <3>. QED  BY <1>3, <1>4, <3>1
  <2>. QED  BY <2>1, <2>2
<1>. QED  BY <1>1, <1>3, <1>4, <1>5

\* What goes from the front of one sequence to the end of the one before it.
Moves(q, r, n, left, back) ==
    left = q \o SubSeq(r, 1, n) /\ back = SubSeq(r, n + 1, Len(r))

LEMMA Moved ==
    ASSUME NEW S, NEW q \in Seq(S), NEW r \in Seq(S), NEW n \in Nat, n <= Len(r),
           NEW left, NEW back, Moves(q, r, n, left, back)
    PROVE  left \in Seq(S) /\ back \in Seq(S) /\ left \o back = q \o r
<1>. DEFINE front == SubSeq(r, 1, n)
            new == left \o back
            old == q \o r
<1>1. /\ front \in Seq(S) /\ Len(front) = n /\ \A i \in 1 .. n : front[i] = r[i]
  <2>1. 1 \in 1 .. Len(r) + 1 /\ n \in Int /\ 1 <= n + 1
    OBVIOUS
  <2>2. /\ front \in Seq(S) /\ Len(front) = n - 1 + 1
        /\ \A i \in 1 .. n - 1 + 1 : front[i] = r[1 + i - 1]
    BY <2>1, Cut
  <2>. QED  BY <2>2
<1>2. /\ back \in Seq(S) /\ Len(back) = Len(r) - n
      /\ \A i \in 1 .. Len(r) - n : back[i] = r[n + i]
  <2>3. back = SubSeq(r, n + 1, Len(r))
    BY DEF Moves
  <2>1. n + 1 \in 1 .. Len(r) + 1 /\ Len(r) \in Int /\ n + 1 <= Len(r) + 1
    OBVIOUS
  <2>2. /\ back \in Seq(S) /\ Len(back) = Len(r) - (n + 1) + 1
        /\ \A i \in 1 .. Len(r) - (n + 1) + 1 : back[i] = r[(n + 1) + i - 1]
    BY <2>1, <2>3, Cut
  <2>. QED  BY <2>2
<1>9. left = q \o front
  BY DEF Moves
<1>. HIDE DEF front
<1>3. /\ left \in Seq(S) /\ Len(left) = Len(q) + n
      /\ \A i \in 1 .. Len(q) : left[i] = q[i]
      /\ \A i \in 1 .. n : left[Len(q) + i] = r[i]
  <2>1. /\ left \in Seq(S) /\ Len(left) = Len(q) + Len(front)
        /\ \A i \in 1 .. Len(q) : left[i] = q[i]
        /\ \A i \in 1 .. Len(front) : left[Len(q) + i] = front[i]
    <3>1. front \in Seq(S)
      BY <1>1
    <3>. QED  BY ONLY <3>1, <1>9, q \in Seq(S), Concatenated
  <2>. QED  BY <1>1, <2>1
<1>4. /\ new \in Seq(S) /\ Len(new) = Len(left) + Len(back)
      /\ \A i \in 1 .. Len(left) : new[i] = left[i]
      /\ \A i \in 1 .. Len(back) : new[Len(left) + i] = back[i]
  <2>1. left \in Seq(S) /\ back \in Seq(S)
    BY <1>2, <1>3
  <2>. QED  BY ONLY <2>1, Concatenated
<1>5. /\ old \in Seq(S) /\ Len(old) = Len(q) + Len(r)
      /\ \A i \in 1 .. Len(q) : old[i] = q[i]
      /\ \A i \in 1 .. Len(r) : old[Len(q) + i] = r[i]
  BY Concatenated
<1>. HIDE DEF new, old
<1>6. Len(new) = Len(old)
  BY <1>2, <1>3, <1>4, <1>5
<1>7. ASSUME NEW i \in 1 .. Len(new) PROVE new[i] = old[i]
  <2>1. CASE i <= Len(q)
    <3>1. i \in 1 .. Len(q) /\ i \in 1 .. Len(left)
      BY <1>3, <2>1
    <3>. QED  BY <1>3, <1>4, <1>5, <3>1
  <2>2. CASE ~(i <= Len(q)) /\ i <= Len(q) + n
    <3>. DEFINE j == i - Len(q)
    <3>1. j \in 1 .. n /\ j \in 1 .. Len(r) /\ i = Len(q) + j /\ i \in 1 .. Len(left)
      BY <1>3, <2>2
    <3>. HIDE DEF j
    <3>. QED  BY <1>3, <1>4, <1>5, <3>1
  <2>3. CASE ~(i <= Len(q) + n)
    <3>. DEFINE j == i - (Len(q) + n)
    <3>1. /\ Len(back) = Len(r) - n /\ Len(left) = Len(q) + n
          /\ Len(new) = Len(left) + Len(back) /\ Len(q) \in Nat /\ Len(r) \in Nat
      BY <1>2, <1>3, <1>4
    <3>2. /\ j \in 1 .. Len(r) - n /\ j \in 1 .. Len(back) /\ n + j \in 1 .. Len(r)
          /\ i = Len(left) + j /\ i = Len(q) + (n + j)
      BY ONLY i \in 1 .. Len(new), n \in Nat, <2>3, <3>1
    <3>. HIDE DEF j
    <3>3. new[i] = back[j]
      BY <1>4, <3>2
    <3>4. old[i] = r[n + j]
      BY <1>5, <3>2
    <3>. QED  BY <1>2, <3>2, <3>3, <3>4
  <2>. QED  BY <2>1, <2>2, <2>3
<1>8. new = old
  BY <1>4, <1>5, <1>6, <1>7, SameSeq
<1>. QED  BY <1>2, <1>3, <1>8 DEF new, old

LEMMA Associative ==
    ASSUME NEW S, NEW q \in Seq(S), NEW r \in Seq(S), NEW t \in Seq(S)
    PROVE  q \o (r \o t) = (q \o r) \o t
  OBVIOUS

LEMMA PrefixIs ==
    ASSUME NEW S, NEW q \in Seq(S), NEW r \in Seq(S), Len(q) <= Len(r),
           \A i \in 1 .. Len(q) : q[i] = r[i]
    PROVE  IsPrefix(q, r)
<1>. DEFINE a == SubSeq(q, 1, Len(q))
            b == SubSeq(r, 1, Len(q))
<1>1. Len(q) \in Nat /\ Len(r) \in Nat
  OBVIOUS
<1>2. a \in Seq(S) /\ Len(a) = Len(q) /\ \A i \in 1 .. Len(q) : a[i] = q[i]
  OBVIOUS
<1>3. b \in Seq(S) /\ Len(b) = Len(q) /\ \A i \in 1 .. Len(q) : b[i] = r[i]
  OBVIOUS
<1>. HIDE DEF a, b
<1>4. a = b
  BY <1>1, <1>2, <1>3, SameSeq
<1>. QED  BY <1>4 DEF IsPrefix, a, b

\* Of the numbers a and j, the first without n.
LEMMA Shifted ==
    ASSUME NEW a \in Nat, NEW n \in Nat, n <= a,
           NEW j \in Nat, j >= 1, NEW m \in Nat, j <= m, NEW l \in Nat, a + m <= l
    PROVE  /\ (a - n) + j \in Nat /\ (a - n) + j >= 1 /\ n + ((a - n) + j) = a + j
           /\ (a - n) + j <= l - n
  OBVIOUS
-----------------------------------------------------------------------------
(* The bytes of the frames.                                                *)

Bytewise == [of : Frames, at : Nat]

LEMMA FrameLength ==
    ASSUME NEW f \in Frames
    PROVE  BodyLen(f) \in Nat
<1>1. Len(f.to) \in Nat /\ f.size \in Nat
  BY DEF Frames
<1>2. /\ IdLen * Len(f.to) \in Nat
      /\ IdLen + TagLen + f.size \in Nat
  BY <1>1, Constants
<1>3. 1 + IdLen * Len(f.to) + TagLen + f.size \in Nat
  BY <1>1, <1>2, Constants
<1>4. IdLen + 1 \in Nat /\ IdLen + 2 \in Nat /\ HelloLen \in Nat
  BY Constants
<1>. QED  BY <1>2, <1>3, <1>4, Zenon DEF BodyLen

LEMMA EncodedBytes ==
    ASSUME NEW f \in Frames
    PROVE  /\ Encoded(f) \in Seq(Bytewise)
           /\ Len(Encoded(f)) = HeaderLen + BodyLen(f)
           /\ \A i \in 1 .. HeaderLen + BodyLen(f) : Encoded(f)[i] = [of |-> f, at |-> i]
<1>. DEFINE n == HeaderLen + BodyLen(f)
            bytes == [i \in 1 .. n |-> [of |-> f, at |-> i]]
<1>1. n \in Nat
  BY FrameLength, Constants
<1>. HIDE DEF n
<1>2. \A i \in 1 .. n : [of |-> f, at |-> i] \in Bytewise
  BY <1>1 DEF Bytewise
<1>3. bytes \in Seq(Bytewise) /\ Len(bytes) = n
  BY <1>1, <1>2
<1>4. \A i \in 1 .. n : bytes[i] = [of |-> f, at |-> i]
  OBVIOUS
<1>. QED  BY <1>3, <1>4 DEF n, Encoded
-----------------------------------------------------------------------------
(* The frames in the stream.                                               *)

\* In bytes lie the frames after the first h, one behind another: the i-th ends
\* at pos[i].
Laid(pos, h, frames, bytes) ==
    /\ pos \in [h .. Len(frames) -> Nat]
    /\ pos[h] = 0 /\ pos[Len(frames)] = Len(bytes)
    /\ \A i, k \in h .. Len(frames) : i <= k => pos[i] <= pos[k]
    /\ \A i \in h + 1 .. Len(frames) :
          /\ pos[i] = pos[i - 1] + (HeaderLen + BodyLen(frames[i]))
          /\ \A j \in 1 .. HeaderLen + BodyLen(frames[i]) :
                bytes[pos[i - 1] + j] = [of |-> frames[i], at |-> j]

\* One more frame is written.
LEMMA LaidWrite ==
    ASSUME NEW frames \in Seq(Frames), NEW h \in Nat, h <= Len(frames),
           NEW bytes \in Seq(Bytewise), NEW pos, Laid(pos, h, frames, bytes),
           NEW f \in Frames
    PROVE  \E new : Laid(new, h, Append(frames, f), bytes \o Encoded(f))
<1>. DEFINE w == Len(frames)
            n == HeaderLen + BodyLen(f)
            longer == Append(frames, f)
            all == bytes \o Encoded(f)
            new == [i \in h .. w + 1 |-> IF i = w + 1 THEN Len(bytes) + n ELSE pos[i]]
<1>1. /\ n \in Nat /\ w \in Nat /\ h <= w /\ Len(bytes) \in Nat
      /\ Len(longer) = w + 1 /\ longer[w + 1] = f
      /\ \A i \in 1 .. w : longer[i] = frames[i]
  BY FrameLength, Constants
<1>2. /\ Encoded(f) \in Seq(Bytewise) /\ Len(Encoded(f)) = n
      /\ \A i \in 1 .. n : Encoded(f)[i] = [of |-> f, at |-> i]
  BY EncodedBytes
<1>. HIDE DEF n
<1>3. /\ Len(all) = Len(bytes) + n
      /\ \A i \in 1 .. Len(bytes) : all[i] = bytes[i]
      /\ \A i \in 1 .. n : all[Len(bytes) + i] = [of |-> f, at |-> i]
  <2>. DEFINE enc == Encoded(f)
  <2>1. enc \in Seq(Bytewise)
    BY <1>2
  <2>2. Len(enc) = n /\ \A i \in 1 .. n : enc[i] = [of |-> f, at |-> i]
    BY <1>2
  <2>3. all = bytes \o enc
    OBVIOUS
  <2>. HIDE DEF enc, all
  <2>4. /\ Len(all) = Len(bytes) + Len(enc)
        /\ \A i \in 1 .. Len(bytes) : all[i] = bytes[i]
        /\ \A i \in 1 .. Len(enc) : all[Len(bytes) + i] = enc[i]
    BY <2>1, <2>3, Concatenated
  <2>. QED  BY <2>2, <2>4
<1>4. /\ pos \in [h .. w -> Nat] /\ pos[h] = 0 /\ pos[w] = Len(bytes)
      /\ \A i, k \in h .. w : i <= k => pos[i] <= pos[k]
  BY DEF Laid
<1>5. \A i \in h + 1 .. w :
          /\ pos[i] = pos[i - 1] + (HeaderLen + BodyLen(frames[i]))
          /\ \A j \in 1 .. HeaderLen + BodyLen(frames[i]) :
                bytes[pos[i - 1] + j] = [of |-> frames[i], at |-> j]
  BY DEF Laid
<1>. HIDE DEF w, longer, all
<1>6. /\ new \in [h .. w + 1 -> Nat]
      /\ \A i \in h .. w : new[i] = pos[i]
      /\ new[w + 1] = Len(bytes) + n
  BY <1>1, <1>4
<1>. HIDE DEF new
<1>7. new[h] = 0 /\ new[w + 1] = Len(all)
  BY <1>1, <1>3, <1>4, <1>6 DEF w
<1>8. ASSUME NEW i \in h .. w + 1, NEW k \in h .. w + 1, i <= k PROVE new[i] <= new[k]
  <2>1. CASE k # w + 1
    <3>1. i \in h .. w /\ k \in h .. w
      BY <1>1, <1>8, <2>1
    <3>. QED  BY <1>4, <1>6, <1>8, <3>1
  <2>2. CASE k = w + 1 /\ i # w + 1
    <3>1. i \in h .. w /\ w \in h .. w /\ i <= w
      BY <1>1, <1>8, <2>2 DEF w
    <3>2. pos[i] <= pos[w] /\ pos[i] \in Nat
      BY <1>4, <3>1
    <3>. QED  BY <1>1, <1>4, <1>6, <2>2, <3>1, <3>2
  <2>3. CASE k = w + 1 /\ i = w + 1
    BY <1>1, <1>6, <2>3
  <2>. QED  BY <2>1, <2>2, <2>3
<1>9. ASSUME NEW i \in h + 1 .. w + 1
      PROVE  /\ new[i] = new[i - 1] + (HeaderLen + BodyLen(longer[i]))
             /\ \A j \in 1 .. HeaderLen + BodyLen(longer[i]) :
                   all[new[i - 1] + j] = [of |-> longer[i], at |-> j]
  <2>1. CASE i # w + 1
    <3>1. /\ i \in h + 1 .. w /\ i \in h .. w /\ i - 1 \in h .. w /\ i \in 1 .. w
      BY <1>1, <1>9, <2>1
    <3>2. longer[i] = frames[i] /\ new[i] = pos[i] /\ new[i - 1] = pos[i - 1]
      BY <1>1, <1>6, <3>1
    <3>3. frames[i] \in Frames
      BY <3>1 DEF w
    <3>. DEFINE m == HeaderLen + BodyLen(frames[i])
    <3>4. m \in Nat
      BY <3>3, FrameLength, Constants
    <3>5. pos[i] = pos[i - 1] + m /\ pos[i] <= Len(bytes) /\ pos[i - 1] \in Nat
      <4>1. w \in h .. w /\ i <= w
        BY <1>1, <3>1
      <4>. QED  BY <1>4, <1>5, <3>1, <4>1
    <3>6. \A j \in 1 .. m : bytes[pos[i - 1] + j] = [of |-> frames[i], at |-> j]
      BY <1>5, <3>1
    <3>. HIDE DEF m
    <3>7. \A j \in 1 .. m : pos[i - 1] + j \in 1 .. Len(bytes)
      BY <1>1, <3>4, <3>5
    <3>8. \A j \in 1 .. m : all[pos[i - 1] + j] = [of |-> frames[i], at |-> j]
      BY <1>3, <3>6, <3>7
    <3>. QED  BY <3>2, <3>5, <3>8 DEF m
  <2>2. CASE i = w + 1
    <3>1. longer[i] = f /\ new[i] = Len(bytes) + n /\ i - 1 = w /\ w \in h .. w
      BY <1>1, <1>6, <2>2 DEF w
    <3>2. new[i - 1] = Len(bytes)
      BY <1>4, <1>6, <3>1
    <3>. QED  BY <1>3, <3>1, <3>2 DEF n
  <2>. QED  BY <2>1, <2>2
<1>10. Laid(new, h, longer, all)
  BY <1>1, <1>6, <1>7, <1>8, <1>9 DEF Laid
<1>. QED  BY <1>10 DEF longer, all

\* What the first bytes say.
LEMMA FirstFrame ==
    ASSUME NEW frames \in Seq(Frames), NEW h \in Nat, h <= Len(frames),
           NEW bytes \in Seq(Bytewise), bytes # <<>>,
           NEW pos, Laid(pos, h, frames, bytes)
    PROVE  /\ h + 1 \in 1 .. Len(frames)
           /\ bytes[1].of = frames[h + 1]
           /\ pos[h + 1] = HeaderLen + BodyLen(frames[h + 1])
           /\ pos[h + 1] \in Nat /\ pos[h + 1] <= Len(bytes)
           /\ \A j \in 1 .. pos[h + 1] : bytes[j] = [of |-> frames[h + 1], at |-> j]
<1>1. Len(frames) \in Nat /\ Len(bytes) \in Nat /\ Len(bytes) # 0
  OBVIOUS
<1>2. h < Len(frames)
  <2>1. h # Len(frames)
    BY <1>1 DEF Laid
  <2>. QED  BY <1>1, <2>1
<1>3. /\ h + 1 \in h + 1 .. Len(frames) /\ h + 1 \in h .. Len(frames) /\ (h + 1) - 1 = h
      /\ h + 1 \in 1 .. Len(frames) /\ Len(frames) \in h .. Len(frames)
      /\ h + 1 <= Len(frames)
  BY <1>1, <1>2
<1>. DEFINE n == HeaderLen + BodyLen(frames[h + 1])
<1>4. n \in Nat /\ n >= 1
  <2>1. BodyLen(frames[h + 1]) \in Nat
    BY <1>3, FrameLength
  <2>. QED  BY <2>1, Constants
<1>5. /\ pos[h + 1] = pos[h] + n /\ pos[h] = 0
      /\ \A j \in 1 .. n : bytes[pos[h] + j] = [of |-> frames[h + 1], at |-> j]
  BY <1>3 DEF Laid
<1>6. pos[h + 1] <= Len(bytes)
  BY <1>3 DEF Laid
<1>. HIDE DEF n
<1>7. pos[h + 1] = n /\ \A j \in 1 .. n : bytes[j] = [of |-> frames[h + 1], at |-> j]
  BY <1>4, <1>5
<1>8. bytes[1] = [of |-> frames[h + 1], at |-> 1]
  BY <1>4, <1>7
<1>. QED  BY <1>3, <1>4, <1>6, <1>7, <1>8 DEF n

\* The first frame is taken off.
LEMMA LaidTake ==
    ASSUME NEW frames \in Seq(Frames), NEW h \in Nat, h <= Len(frames),
           NEW bytes \in Seq(Bytewise), bytes # <<>>,
           NEW pos, Laid(pos, h, frames, bytes),
           NEW n, n = HeaderLen + BodyLen(frames[h + 1]),
           NEW rest \in Seq(Bytewise), Len(rest) = Len(bytes) - n,
           \A i \in 1 .. Len(rest) : rest[i] = bytes[n + i]
    PROVE  \E new : Laid(new, h + 1, frames, rest)
<1>. DEFINE w == Len(frames)
            new == [i \in h + 1 .. w |-> pos[i] - n]
<1>1. /\ w \in Nat /\ h + 1 \in 1 .. w /\ Len(bytes) \in Nat
      /\ n \in Nat /\ pos[h + 1] = n /\ n <= Len(bytes)
  BY FirstFrame
<1>2. /\ pos \in [h .. w -> Nat] /\ pos[w] = Len(bytes)
      /\ \A i, k \in h .. w : i <= k => pos[i] <= pos[k]
  BY DEF Laid
<1>3. \A i \in h + 1 .. w :
          /\ pos[i] = pos[i - 1] + (HeaderLen + BodyLen(frames[i]))
          /\ \A j \in 1 .. HeaderLen + BodyLen(frames[i]) :
                bytes[pos[i - 1] + j] = [of |-> frames[i], at |-> j]
  BY DEF Laid
<1>. HIDE DEF w
<1>4. ASSUME NEW i \in h + 1 .. w
      PROVE  /\ i \in h .. w /\ pos[i] \in Nat /\ n <= pos[i] /\ pos[i] <= Len(bytes)
             /\ new[i] = pos[i] - n
  <2>1. /\ i \in h .. w /\ h + 1 \in h .. w /\ w \in h .. w /\ h + 1 <= i /\ i <= w
    BY <1>1, <1>4
  <2>. QED  BY <1>1, <1>2, <1>4, <2>1
<1>5. new \in [h + 1 .. w -> Nat]
  BY <1>1, <1>4
<1>. HIDE DEF new
<1>6. new[h + 1] = 0 /\ new[w] = Len(rest)
  <2>1. h + 1 \in h + 1 .. w /\ w \in h + 1 .. w
    BY <1>1
  <2>. QED  BY <1>1, <1>2, <1>4, <2>1
<1>7. ASSUME NEW i \in h + 1 .. w, NEW k \in h + 1 .. w, i <= k PROVE new[i] <= new[k]
  <2>1. pos[i] <= pos[k]
    BY <1>2, <1>4, <1>7
  <2>. QED  BY <1>1, <1>4, <2>1
<1>8. ASSUME NEW i \in (h + 1) + 1 .. w
      PROVE  /\ new[i] = new[i - 1] + (HeaderLen + BodyLen(frames[i]))
             /\ \A j \in 1 .. HeaderLen + BodyLen(frames[i]) :
                   rest[new[i - 1] + j] = [of |-> frames[i], at |-> j]
  <2>1. i \in h + 1 .. w /\ i - 1 \in h + 1 .. w /\ i \in 1 .. w
    BY <1>1, <1>8
  <2>. DEFINE m == HeaderLen + BodyLen(frames[i])
  <2>2. m \in Nat
    <3>1. frames[i] \in Frames
      BY <2>1 DEF w
    <3>. QED  BY <3>1, FrameLength, Constants
  <2>3. /\ pos[i] = pos[i - 1] + m
        /\ \A j \in 1 .. m : bytes[pos[i - 1] + j] = [of |-> frames[i], at |-> j]
    BY <1>3, <2>1
  <2>. HIDE DEF m
  <2>4. /\ pos[i - 1] \in Nat /\ n <= pos[i - 1] /\ new[i - 1] = pos[i - 1] - n
        /\ pos[i] <= Len(bytes) /\ new[i] = pos[i] - n /\ pos[i] \in Nat
    BY <1>4, <2>1
  <2>5. new[i] = new[i - 1] + m
    BY <1>1, <2>2, <2>3, <2>4
  <2>6. ASSUME NEW j \in 1 .. m
        PROVE  rest[new[i - 1] + j] = [of |-> frames[i], at |-> j]
    <3>1. /\ pos[i - 1] \in Nat /\ n \in Nat /\ n <= pos[i - 1]
          /\ new[i - 1] = pos[i - 1] - n
          /\ j \in Nat /\ j >= 1 /\ m \in Nat /\ j <= m
          /\ Len(bytes) \in Nat /\ pos[i - 1] + m <= Len(bytes)
      BY <1>1, <2>2, <2>3, <2>4
    <3>2. /\ (pos[i - 1] - n) + j \in Nat /\ (pos[i - 1] - n) + j >= 1
          /\ n + ((pos[i - 1] - n) + j) = pos[i - 1] + j
          /\ (pos[i - 1] - n) + j <= Len(bytes) - n
      BY ONLY <3>1, Shifted
    <3>3. /\ new[i - 1] + j \in Nat /\ new[i - 1] + j >= 1
          /\ n + (new[i - 1] + j) = pos[i - 1] + j
          /\ new[i - 1] + j <= Len(bytes) - n
      BY <3>1, <3>2
    <3>4. new[i - 1] + j \in 1 .. Len(rest)
      BY <1>1, <3>3
    <3>5. rest[new[i - 1] + j] = bytes[pos[i - 1] + j]
      BY <3>3, <3>4
    <3>. QED  BY <2>3, <3>5
  <2>. QED  BY <2>5, <2>6 DEF m
<1>9. Laid(new, h + 1, frames, rest)
  BY <1>5, <1>6, <1>7, <1>8 DEF Laid, w
<1>. QED  BY <1>9
-----------------------------------------------------------------------------
(* The read loop takes off the frames that were written.                   *)

LinkShapes ==
    /\ stream \in Seq(Bytewise) /\ readBuf \in Seq(Bytewise)
    /\ written \in Seq(Frames) /\ handled \in Seq(Frames)

\* What was handled is the beginning of what was written; the rest lies in the
\* buffer and the socket.
StreamInv ==
    /\ LinkShapes
    /\ Len(handled) <= Len(written)
    /\ \A i \in 1 .. Len(handled) : handled[i] = written[i]
    /\ \A i \in 1 .. Len(written) : BodyLen(written[i]) <= MaxBody
    /\ \E pos : Laid(pos, Len(handled), written, readBuf \o stream)

\* The frame at the front of the buffer is the next one that was written.
LEMMA NextFrame ==
    ASSUME StreamInv, readBuf # <<>>
    PROVE  LET f == written[Len(handled) + 1]
               n == HeaderLen + BodyLen(f)
           IN  /\ Len(handled) + 1 \in 1 .. Len(written) /\ f \in Frames
               /\ readBuf[1].of = f /\ Total(readBuf) = n
               /\ n \in Nat /\ n <= HeaderLen + MaxBody
               /\ n <= Len(readBuf \o stream)
               /\ \A j \in 1 .. Len(readBuf) :
                     j <= n => readBuf[j] = [of |-> f, at |-> j]
<1>. DEFINE h == Len(handled)
            f == written[h + 1]
            n == HeaderLen + BodyLen(f)
            all == readBuf \o stream
<1>1. /\ readBuf \in Seq(Bytewise) /\ stream \in Seq(Bytewise)
      /\ written \in Seq(Frames) /\ h \in Nat /\ h <= Len(written)
  BY DEF StreamInv, LinkShapes
<1>2. /\ all \in Seq(Bytewise) /\ Len(readBuf) \in Nat /\ Len(readBuf) >= 1
      /\ \A i \in 1 .. Len(readBuf) : all[i] = readBuf[i]
      /\ Len(all) = Len(readBuf) + Len(stream)
  BY <1>1, Concatenated
<1>3. PICK pos : Laid(pos, h, written, all)
  BY DEF StreamInv
<1>. HIDE DEF all, h
<1>4. all # <<>>
  BY <1>1, <1>2
<1>5. /\ h + 1 \in 1 .. Len(written) /\ all[1].of = f /\ n \in Nat /\ n <= Len(all)
      /\ \A j \in 1 .. n : all[j] = [of |-> f, at |-> j]
  <2>1. /\ h + 1 \in 1 .. Len(written) /\ all[1].of = f /\ pos[h + 1] = n
        /\ pos[h + 1] \in Nat /\ pos[h + 1] <= Len(all)
        /\ \A j \in 1 .. pos[h + 1] : all[j] = [of |-> f, at |-> j]
    BY <1>1, <1>2, <1>3, <1>4, FirstFrame
  <2>. QED  BY <2>1
<1>6. f \in Frames /\ BodyLen(f) \in Nat /\ BodyLen(f) <= MaxBody
  <2>1. f \in Frames
    BY <1>1, <1>5
  <2>. QED  BY <1>5, <2>1, FrameLength DEF StreamInv
<1>7. readBuf[1].of = f /\ Total(readBuf) = n
  BY <1>2, <1>5 DEF Total
<1>. HIDE DEF f
<1>8. n <= HeaderLen + MaxBody
  BY <1>6, Constants
<1>. HIDE DEF n
<1>9. \A j \in 1 .. Len(readBuf) : j <= n => readBuf[j] = [of |-> f, at |-> j]
  BY <1>2, <1>5
<1>. QED  BY <1>5, <1>6, <1>7, <1>8, <1>9 DEF n, f, h, all

LEMMA StreamInit == Init => StreamInv
<1>. SUFFICES ASSUME Init PROVE StreamInv
  OBVIOUS
<1>1. /\ stream = <<>> /\ readBuf = <<>> /\ written = <<>> /\ handled = <<>>
  BY DEF Init
<1>2. Laid([i \in 0 .. 0 |-> 0], 0, <<>>, <<>>)
  BY DEF Laid
<1>3. readBuf \o stream = <<>> /\ Len(handled) = 0
  BY <1>1
<1>4. \E pos : Laid(pos, Len(handled), written, readBuf \o stream)
  BY <1>1, <1>2, <1>3, Zenon
<1>. QED  BY <1>1, <1>4 DEF StreamInv, LinkShapes

LEMMA StreamWrite ==
    ASSUME StreamInv, NEW f \in Script, Write(f)
    PROVE  StreamInv'
<1>. DEFINE all == readBuf \o stream
            enc == Encoded(f)
<1>1. /\ readBuf \in Seq(Bytewise) /\ stream \in Seq(Bytewise)
      /\ written \in Seq(Frames) /\ handled \in Seq(Frames)
      /\ Len(handled) \in Nat /\ Len(handled) <= Len(written)
  BY DEF StreamInv, LinkShapes
<1>2. f \in Frames
  BY Constants
<1>3. /\ stream' = stream \o enc /\ written' = Append(written, f)
      /\ BodyLen(f) <= MaxBody
      /\ readBuf' = readBuf /\ handled' = handled
  BY DEF Write
<1>4. enc \in Seq(Bytewise)
  BY <1>2, EncodedBytes
<1>5. \E pos : Laid(pos, Len(handled), Append(written, f), all \o enc)
  <2>1. all \in Seq(Bytewise)
    BY <1>1
  <2>2. PICK pos : Laid(pos, Len(handled), written, all)
    BY DEF StreamInv
  <2>. HIDE DEF all
  <2>. QED  BY <1>1, <1>2, <2>1, <2>2, LaidWrite
<1>. HIDE DEF enc
<1>6. readBuf \o (stream \o enc) = all \o enc
  <2>1. readBuf \in Seq(Bytewise) /\ stream \in Seq(Bytewise)
    BY <1>1
  <2>. QED  BY ONLY <1>4, <2>1, Associative DEF all
<1>7. LinkShapes'
  BY <1>1, <1>2, <1>3, <1>4 DEF LinkShapes
<1>8. /\ Len(written') = Len(written) + 1 /\ written'[Len(written) + 1] = f
      /\ \A i \in 1 .. Len(written) : written'[i] = written[i]
  BY <1>1, <1>2, <1>3
<1>9. /\ Len(handled') <= Len(written')
      /\ \A i \in 1 .. Len(handled') : handled'[i] = written'[i]
  BY <1>1, <1>3, <1>8 DEF StreamInv
<1>10. \A i \in 1 .. Len(written') : BodyLen(written'[i]) <= MaxBody
  <2>. SUFFICES ASSUME NEW i \in 1 .. Len(written') PROVE BodyLen(written'[i]) <= MaxBody
    OBVIOUS
  <2>1. CASE i = Len(written) + 1
    BY <1>3, <1>8, <2>1
  <2>2. CASE i # Len(written) + 1
    <3>1. i \in 1 .. Len(written)
      BY <1>1, <1>8, <2>2
    <3>. QED  BY <1>8, <3>1 DEF StreamInv
  <2>. QED  BY <2>1, <2>2
<1>11. (\E pos : Laid(pos, Len(handled), written, readBuf \o stream))'
  BY <1>3, <1>5, <1>6
<1>. QED  BY <1>7, <1>9, <1>10, <1>11 DEF StreamInv

LEMMA StreamRead ==
    ASSUME StreamInv, NEW n, ReadChunk(n)
    PROVE  StreamInv'
<1>1. /\ readBuf \in Seq(Bytewise) /\ stream \in Seq(Bytewise)
  BY DEF StreamInv, LinkShapes
<1>2. /\ n \in 1 .. Len(stream) /\ n \in Nat /\ n <= Len(stream)
      /\ readBuf' = readBuf \o SubSeq(stream, 1, n)
      /\ stream' = SubSeq(stream, n + 1, Len(stream))
      /\ written' = written /\ handled' = handled
  BY <1>1 DEF ReadChunk
<1>3. /\ readBuf' \in Seq(Bytewise) /\ stream' \in Seq(Bytewise)
      /\ readBuf' \o stream' = readBuf \o stream
  <2>1. PICK left, back : left = readBuf' /\ back = stream'
    OBVIOUS
  <2>2. Moves(readBuf, stream, n, left, back)
    BY <1>2, <2>1 DEF Moves
  <2>3. n \in Nat /\ n <= Len(stream)
    BY <1>2
  <2>4. left \in Seq(Bytewise) /\ back \in Seq(Bytewise) /\ left \o back = readBuf \o stream
    BY ONLY <1>1, <2>2, <2>3, Moved
  <2>. QED  BY <2>1, <2>4
<1>4. (\E pos : Laid(pos, Len(handled), written, readBuf \o stream))'
  BY <1>2, <1>3 DEF StreamInv
<1>. QED  BY <1>2, <1>3, <1>4 DEF StreamInv, LinkShapes

LEMMA StreamBreak ==
    ASSUME StreamInv, LinkBreak
    PROVE  StreamInv'
<1>1. stream' = <<>> /\ readBuf' = <<>> /\ written' = <<>> /\ handled' = <<>>
  BY DEF LinkBreak
<1>2. Laid([i \in 0 .. 0 |-> 0], 0, <<>>, <<>>)
  BY DEF Laid
<1>3. readBuf' \o stream' = <<>> /\ Len(handled') = 0
  BY <1>1
<1>4. (\E pos : Laid(pos, Len(handled), written, readBuf \o stream))'
  BY <1>1, <1>2, <1>3, Zenon
<1>. QED  BY <1>1, <1>4 DEF StreamInv, LinkShapes

\* What the read loop decodes is the frame that was written.
LEMMA DecodedIs ==
    ASSUME StreamInv, HasFrame(readBuf)
    PROVE  /\ readBuf # <<>> /\ Decoded(readBuf) = written[Len(handled) + 1]
           /\ Total(readBuf) \in Nat /\ Total(readBuf) <= Len(readBuf)
           /\ Len(handled) + 1 \in 1 .. Len(written)
           /\ Total(readBuf) = HeaderLen + BodyLen(written[Len(handled) + 1])
<1>. DEFINE f == written[Len(handled) + 1]
            n == HeaderLen + BodyLen(f)
<1>1. readBuf \in Seq(Bytewise)
  BY DEF StreamInv, LinkShapes
<1>2. readBuf # <<>> /\ Len(readBuf) >= Total(readBuf)
  BY <1>1, Constants DEF HasFrame
<1>3. /\ Len(handled) + 1 \in 1 .. Len(written) /\ f \in Frames
      /\ readBuf[1].of = f /\ Total(readBuf) = n /\ n \in Nat
      /\ \A j \in 1 .. Len(readBuf) : j <= n => readBuf[j] = [of |-> f, at |-> j]
  BY <1>2, NextFrame
<1>. DEFINE front == SubSeq(readBuf, 1, n)
<1>4. /\ Encoded(f) \in Seq(Bytewise) /\ Len(Encoded(f)) = n
      /\ \A i \in 1 .. n : Encoded(f)[i] = [of |-> f, at |-> i]
  BY <1>3, EncodedBytes
<1>. HIDE DEF n, f
<1>5. /\ front \in Seq(Bytewise) /\ Len(front) = n
      /\ \A i \in 1 .. n : front[i] = [of |-> f, at |-> i]
  <2>1. 1 \in 1 .. Len(readBuf) + 1 /\ n \in Int /\ n <= Len(readBuf) /\ 1 <= n + 1
    BY <1>1, <1>2, <1>3
  <2>2. /\ front \in Seq(Bytewise) /\ Len(front) = n - 1 + 1
        /\ \A i \in 1 .. n - 1 + 1 : front[i] = readBuf[1 + i - 1]
    BY <1>1, <2>1, Cut
  <2>. QED  BY <1>1, <1>2, <1>3, <2>2
<1>. HIDE DEF front
<1>6. front = Encoded(f)
  BY <1>4, <1>5, SameSeq
<1>7. Decoded(readBuf) = f
  BY <1>3, <1>6 DEF Decoded, front
<1>. QED  BY <1>2, <1>3, <1>7 DEF f, n

LEMMA StreamTake ==
    ASSUME StreamInv, HandleLogicFrame
    PROVE  StreamInv'
<1>. DEFINE h == Len(handled)
            f == written[h + 1]
            n == Total(readBuf)
            all == readBuf \o stream
            rest == SubSeq(readBuf, n + 1, Len(readBuf)) \o stream
<1>1. /\ readBuf \in Seq(Bytewise) /\ stream \in Seq(Bytewise)
      /\ written \in Seq(Frames) /\ handled \in Seq(Frames)
      /\ h \in Nat /\ h <= Len(written)
  BY DEF StreamInv, LinkShapes
<1>2. HasFrame(readBuf)
  BY DEF HandleLogicFrame
<1>3. /\ readBuf # <<>> /\ Decoded(readBuf) = f /\ n \in Nat /\ n <= Len(readBuf)
      /\ h + 1 \in 1 .. Len(written) /\ n = HeaderLen + BodyLen(f)
  BY <1>2, DecodedIs
<1>4. /\ readBuf' = SubSeq(readBuf, n + 1, Len(readBuf)) /\ handled' = Append(handled, f)
      /\ stream' = stream /\ written' = written
  BY <1>3 DEF HandleLogicFrame
<1>5. /\ all \in Seq(Bytewise) /\ all # <<>> /\ Len(all) \in Nat
  <2>1. /\ all \in Seq(Bytewise) /\ Len(all) = Len(readBuf) + Len(stream)
    BY <1>1, Concatenated
  <2>2. Len(readBuf) # 0 /\ Len(readBuf) \in Nat /\ Len(stream) \in Nat
    BY <1>1, <1>3
  <2>. HIDE DEF all
  <2>. QED  BY <2>1, <2>2
<1>6. /\ rest \in Seq(Bytewise) /\ Len(rest) = Len(all) - n
      /\ \A i \in 1 .. Len(rest) : rest[i] = all[n + i]
  <2>1. readBuf \in Seq(Bytewise) /\ stream \in Seq(Bytewise)
    BY <1>1
  <2>2. n \in Nat /\ n <= Len(readBuf)
    BY <1>3
  <2>. HIDE DEF n
  <2>. QED  BY ONLY <2>1, <2>2, FrontTaken DEF rest, all
<1>7. PICK place : Laid(place, h, written, all)
  BY DEF StreamInv
<1>8. readBuf' \in Seq(Bytewise)
  <2>1. n + 1 \in 1 .. Len(readBuf) + 1 /\ Len(readBuf) \in Int
    BY <1>1, <1>3
  <2>. HIDE DEF n
  <2>. QED  BY <1>1, <1>4, <2>1, Cut
<1>9. readBuf' \o stream' = rest
  BY <1>4
<1>. HIDE DEF all, rest, n
<1>10. \E new : Laid(new, h + 1, written, rest)
  <2>1. written \in Seq(Frames) /\ h \in Nat /\ h <= Len(written)
    BY <1>1
  <2>2. n = HeaderLen + BodyLen(written[h + 1])
    BY <1>3
  <2>3. all \in Seq(Bytewise) /\ all # <<>>
    BY <1>5
  <2>. HIDE DEF h
  <2>. QED  BY ONLY <1>6, <1>7, <2>1, <2>2, <2>3, LaidTake
<1>11. /\ Len(handled') = h + 1 /\ handled'[h + 1] = f
       /\ \A i \in 1 .. h : handled'[i] = handled[i]
  BY <1>1, <1>4
<1>12. f \in Frames /\ handled' \in Seq(Frames)
  <2>1. f \in Frames
    BY <1>1, <1>3
  <2>. HIDE DEF f
  <2>. QED  BY <1>1, <1>4, <2>1
<1>13. LinkShapes'
  BY <1>1, <1>4, <1>8, <1>12 DEF LinkShapes
<1>14. /\ Len(handled') <= Len(written')
       /\ \A i \in 1 .. Len(handled') : handled'[i] = written'[i]
  <2>1. \A i \in 1 .. h : handled[i] = written[i]
    BY DEF StreamInv
  <2>. HIDE DEF h
  <2>2. h + 1 <= Len(written)
    BY <1>1, <1>3
  <2>3. ASSUME NEW i \in 1 .. h + 1 PROVE handled'[i] = written[i]
    <3>1. CASE i = h + 1
      BY <1>11, <3>1
    <3>2. CASE i # h + 1
      <4>1. i \in 1 .. h
        BY <1>1, <3>2
      <4>. QED  BY <1>11, <2>1, <4>1
    <3>. QED  BY <3>1, <3>2
  <2>. QED  BY <1>4, <1>11, <2>2, <2>3
<1>15. (\E pos : Laid(pos, Len(handled), written, readBuf \o stream))'
  BY <1>4, <1>9, <1>10, <1>11
<1>16. \A i \in 1 .. Len(written') : BodyLen(written'[i]) <= MaxBody
  BY <1>4 DEF StreamInv
<1>. QED  BY <1>13, <1>14, <1>15, <1>16 DEF StreamInv

LEMMA StreamNext == StreamInv /\ [Next]_vars => StreamInv'
<1>. SUFFICES ASSUME StreamInv, [Next]_vars PROVE StreamInv'
  OBVIOUS
<1>1. CASE \E f \in Script : Write(f)
  BY <1>1, StreamWrite
<1>2. CASE \E n \in 1 .. ChunkLen : ReadChunk(n)
  BY <1>2, StreamRead
<1>3. CASE LinkBreak
  BY <1>3, StreamBreak
<1>4. CASE HandleLogicFrame
  BY <1>4, StreamTake
<1>5. CASE UNCHANGED <<stream, readBuf, written, handled>>
  BY <1>5 DEF StreamInv, LinkShapes
<1>6. CASE SendOutbound
  BY <1>5, <1>6 DEF SendOutbound
<1>7. CASE \E c \in Clients : MaintainReliable(c) \/ ReceiveUdp(c) \/ Maintain(c)
  BY <1>5, <1>7 DEF MaintainReliable, ReceiveUdp, HandleDatagram, Maintain, linkVars
<1>8. CASE Tick
  BY <1>5, <1>8 DEF Tick, linkVars
<1>9. CASE \E c \in Clients, k \in Kinds : Accept(c, k)
  BY <1>5, <1>9 DEF Accept, linkVars
<1>10. CASE \E i \in DOMAIN conns : Connection(i)
  BY <1>5, <1>10 DEF Connection, ConnStart, UpgradeFails, ConnRead, HandleDatagram,
                     ConnWrite, ConnEnd, linkVars
<1>11. CASE UNCHANGED vars
  BY <1>5, <1>11 DEF vars, linkVars
<1>. QED
  BY <1>1, <1>2, <1>3, <1>4, <1>6, <1>7, <1>8, <1>9, <1>10, <1>11, Zenon DEF Next

LEMMA StreamFrames == StreamInv => FramesWhole
<1>. SUFFICES ASSUME StreamInv PROVE FramesWhole
  OBVIOUS
<1>1. /\ written \in Seq(Frames) /\ handled \in Seq(Frames) /\ readBuf \in Seq(Bytewise)
      /\ Len(handled) <= Len(written)
      /\ \A i \in 1 .. Len(handled) : handled[i] = written[i]
  BY DEF StreamInv, LinkShapes
<1>2. IsPrefix(handled, written)
  BY <1>1, PrefixIs
<1>3. ~OverLimit
  <2>. SUFFICES ASSUME OverLimit PROVE FALSE
    OBVIOUS
  <2>1. ~HasFrame(readBuf) /\ Len(readBuf) > MaxBody + HeaderLen
    BY DEF OverLimit
  <2>2. readBuf # <<>> /\ Len(readBuf) >= HeaderLen /\ Len(readBuf) \in Nat
    BY <1>1, <2>1, Constants
  <2>3. Total(readBuf) \in Nat /\ Total(readBuf) <= HeaderLen + MaxBody
    BY <2>2, NextFrame
  <2>. QED  BY <2>1, <2>2, <2>3, Constants DEF HasFrame
<1>. QED  BY <1>2, <1>3 DEF FramesWhole

\* Whatever pieces the socket delivers, the read loop takes off the frames that
\* were written, in order and whole, and its buffer never runs over
\* (uds.rs try_decode and read_frame).
THEOREM FramesAsWritten == Spec => []FramesWhole
<1>1. Init => StreamInv
  BY StreamInit
<1>2. StreamInv /\ [Next]_vars => StreamInv'
  BY StreamNext
<1>3. StreamInv => FramesWhole
  BY StreamFrames
<1>. QED  BY <1>1, <1>2, <1>3, PTL DEF Spec
-----------------------------------------------------------------------------
(* What the operators on packets and connections give.                     *)

\* The packets that are meant for client c.
Own(c) == {p \in Packets : p.to = c}

\* Min of FiniteSetsExt on a set of naturals, and on two integers.
LEMMA MinNat ==
    ASSUME NEW S \in SUBSET Nat, S # {}
    PROVE  Min(S) \in S /\ \A x \in S : Min(S) <= x
<1>1. PICK m \in S : \A x \in S : <<x, m>> \notin OpToRel(<, Nat)
  BY NatLessThanWellFounded, WFMin
<1>2. ASSUME NEW x \in S PROVE m <= x
  <2>1. x \in Nat /\ m \in Nat
    OBVIOUS
  <2>2. ~(x < m)
    BY <1>1, <2>1, Zenon DEF OpToRel
  <2>. QED  BY <2>1, <2>2
<1>. QED  BY <1>2 DEF Min

LEMMA MinTwo ==
    ASSUME NEW a \in Int, NEW b \in Int
    PROVE  Min({a, b}) \in {a, b} /\ Min({a, b}) <= a /\ Min({a, b}) <= b
<1>1. CASE a <= b
  <2>1. a \in {a, b} /\ \A x \in {a, b} : a <= x
    BY <1>1
  <2>2. Min({a, b}) \in {a, b} /\ \A x \in {a, b} : Min({a, b}) <= x
    BY <2>1, Zenon DEF Min
  <2>. QED  BY <2>2
<1>2. CASE ~(a <= b)
  <2>1. b \in {a, b} /\ \A x \in {a, b} : b <= x
    BY <1>2
  <2>2. Min({a, b}) \in {a, b} /\ \A x \in {a, b} : Min({a, b}) <= x
    BY <2>1, Zenon DEF Min
  <2>. QED  BY <2>2
<1>. QED  BY <1>1, <1>2

\* One element of a sequence is replaced.
LEMMA ReplacedAt ==
    ASSUME NEW S, NEW q \in Seq(S), NEW i \in DOMAIN q, NEW x \in S,
           NEW r, r = [q EXCEPT ![i] = x]
    PROVE  /\ r \in Seq(S) /\ Len(r) = Len(q) /\ DOMAIN r = DOMAIN q
           /\ r[i] = x /\ \A j \in DOMAIN q : j # i => r[j] = q[j]
  OBVIOUS

LEMMA HeadTail ==
    ASSUME NEW S, NEW q \in Seq(S), q # <<>>
    PROVE  Head(q) \in S /\ Tail(q) \in Seq(S)
  OBVIOUS

LEMMA FrontIn ==
    ASSUME NEW S, NEW q \in Seq(S), NEW b \in Int, b <= Len(q)
    PROVE  SubSeq(q, 1, b) \in Seq(S) /\ (b >= 0 => Len(SubSeq(q, 1, b)) = b)
<1>1. 1 \in 1 .. Len(q) + 1
  OBVIOUS
<1>2. SubSeq(q, 1, b) \in Seq(S) /\ (1 <= b + 1 => Len(SubSeq(q, 1, b)) = b - 1 + 1)
  BY <1>1, Cut
<1>3. b >= 0 => 1 <= b + 1 /\ b - 1 + 1 = b
  OBVIOUS
<1>. QED  BY <1>2, <1>3

\* Packets of one session, each of them to its client (pack_outbound).
LEMMA PackedOwn ==
    ASSUME NEW m \in Sends, sends \in Nat, Encodes(m)
    PROVE  /\ Parts(m) \in Nat /\ Packed(m) \in Seq(Own(m.to))
           /\ Len(Packed(m)) = Parts(m)
<1>1. m.to \in Clients /\ m.ch \in Nat /\ m.size \in Nat
  BY DEF Sends
<1>2. m.ch \in 0 .. 3
  BY <1>1 DEF Encodes
<1>3. Parts(m) \in Nat
  <2>1. (m.size + Threshold - 1) \div Threshold \in Nat
    <3>1. m.size + Threshold - 1 \in Nat /\ Threshold \in Nat \ {0}
      BY <1>1, Constants
    <3>. QED  BY <3>1
  <2>. QED  BY <2>1 DEF Parts
<1>. DEFINE n == Parts(m)
            part(i) == [to |-> m.to, ch |-> m.ch, msg |-> sends, part |-> i]
<1>4. \A i \in 1 .. n : part(i) \in Own(m.to)
  BY <1>1, <1>2, <1>3 DEF Own, Packets
<1>5. Packed(m) = [i \in 1 .. n |-> part(i)]
  BY DEF Packed
<1>. HIDE DEF n, part
<1>6. n \in Nat
  BY <1>3 DEF n
<1>7. [i \in 1 .. n |-> part(i)] \in Seq(Own(m.to)) /\ Len([i \in 1 .. n |-> part(i)]) = n
  BY <1>4, <1>6
<1>. QED  BY <1>3, <1>5, <1>7 DEF n

\* What the client confirms leaves a queue of its packets (on_ack).
LEMMA ConfirmedIn ==
    ASSUME NEW T, NEW q \in Seq(T), NEW got
    PROVE  Confirmed(q, got) \in Seq(T) /\ Len(Confirmed(q, got)) <= Len(q)
<1>. DEFINE S == {k \in 0 .. Len(q) : k = Len(q) \/ q[k + 1] \notin got}
<1>1. S \in SUBSET Nat /\ S # {}
  <2>1. Len(q) \in S
    OBVIOUS
  <2>. QED  BY <2>1
<1>2. Min(S) \in 0 .. Len(q)
  <2>1. Min(S) \in S
    BY <1>1, MinNat
  <2>. QED  BY <2>1
<1>3. Confirmed(q, got) = SubSeq(q, 1 + Min(S), Len(q))
  BY DEF Confirmed
<1>. DEFINE n == Min(S)
<1>4. n \in 0 .. Len(q)
  BY <1>2
<1>. HIDE DEF n, S
<1>5. 1 + n \in 1 .. Len(q) + 1 /\ Len(q) \in Int /\ 1 + n <= Len(q) + 1
  BY <1>4
<1>6. /\ SubSeq(q, 1 + n, Len(q)) \in Seq(T)
      /\ Len(SubSeq(q, 1 + n, Len(q))) = Len(q) - (1 + n) + 1
  BY <1>5, Cut
<1>. QED  BY <1>3, <1>4, <1>6 DEF n

\* What a channel of a connection has, and gets (mpsc::Sender::try_send).
LEMMA TrySendIn ==
    ASSUME NEW T, NEW chan \in Seq(T), NEW packets \in Seq(T)
    PROVE  TrySend(chan, packets) \in Seq(T) /\ Len(TrySend(chan, packets)) <= ChanCap
<1>. DEFINE all == chan \o packets
            n == Min({Len(all), ChanCap})
<1>1. all \in Seq(T) /\ Len(all) \in Int
  OBVIOUS
<1>. HIDE DEF all
<1>2. n \in Int /\ n <= Len(all) /\ n <= ChanCap /\ n >= 0
  <2>1. ChanCap \in Int /\ ChanCap >= 0
    BY Constants
  <2>. DEFINE l == Len(all)
  <2>2. l \in Int /\ l >= 0
    BY <1>1
  <2>. HIDE DEF l
  <2>3. /\ Min({l, ChanCap}) \in {l, ChanCap}
        /\ Min({l, ChanCap}) <= l /\ Min({l, ChanCap}) <= ChanCap
    BY ONLY <2>1, <2>2, MinTwo
  <2>. QED  BY <2>1, <2>2, <2>3 DEF l
<1>3. TrySend(chan, packets) = SubSeq(all, 1, n)
  BY DEF TrySend, all
<1>. HIDE DEF n
<1>4. SubSeq(all, 1, n) \in Seq(T) /\ Len(SubSeq(all, 1, n)) = n
  BY <1>1, <1>2, FrontIn
<1>. QED  BY <1>2, <1>3, <1>4
-----------------------------------------------------------------------------
(* A connection has its channel in writers, and a client its own traffic.   *)

\* The number that the next connection of a kind gets is in use by none: no
\* connection that lives has it, and no session keeps its address.  65536
\* connections later than the first one next_port gives numbers again.
PortsFree ==
    Len(conns) < MaxConns =>
      \A k \in Kinds :
        /\ \A i \in DOMAIN conns :
             conns[i].state # "closed" => conns[i].peer # NewPeer(k)
        /\ \A c \in Clients : InTable(c) => peer[c] # NewPeer(k)

SessionShapes ==
    /\ todo \in Seq(Sends) /\ sends \in Nat
    /\ status \in [Clients -> {"none", "active", "grace", "gone"}]
    /\ peer \in [Clients -> Peers]
    /\ \A c \in Clients : peer[c] = UdpPeer(c) \/ IsVirtual(peer[c])

\* Everything in a session's queues is for its client.
RetransOwn ==
    /\ retrans \in [Clients -> [Reliable -> Seq(Packets)]]
    /\ \A c \in Clients, ch \in Reliable : retrans[c][ch] \in Seq(Own(c))

\* Everything in a connection's channel is for its client.
ChanOwn ==
    /\ conns \in Seq(Connections)
    /\ \A i \in DOMAIN conns : conns[i].chan \in Seq(Own(conns[i].owner))

PortShapes ==
    /\ nextPort \in [Kinds -> 0 .. PortMod - 1]
    /\ writers \in [VirtualPeers -> Nat]

ReceivedOwn ==
    /\ received \in [Clients -> SUBSET Packets]
    /\ \A c \in Clients : received[c] \subseteq Own(c)

\* No two connections that live have one peer.
Distinct ==
    \A i, j \in DOMAIN conns :
        /\ conns[i].state # "closed" /\ conns[j].state # "closed"
        /\ conns[i].peer = conns[j].peer
        => i = j

\* What is in writers is a connection under its own peer.
WritersKnown ==
    \A p \in VirtualPeers :
        writers[p] # NoConn => writers[p] \in DOMAIN conns /\ conns[writers[p]].peer = p

\* A session keeps an address that no other client's connection has.
PeerOwn ==
    \A c \in Clients : InTable(c) =>
        \A i \in DOMAIN conns :
            conns[i].state # "closed" /\ conns[i].peer = peer[c] => conns[i].owner = c

\* Connections, writers and sessions agree.
Agree == Distinct /\ WritersMatch /\ WritersKnown /\ PeerOwn

WayInv ==
    /\ SessionShapes /\ RetransOwn /\ ChanOwn /\ PortShapes
    /\ ReceivedOwn /\ Agree

DownInv == StreamInv /\ WayInv

\* With fewer connections than numbers, no number is given twice: next_port is
\* still above those of its kind, or it has just come to 0.
FreshPorts ==
    Len(conns) < MaxConns =>
      \A k \in Kinds :
        IF nextPort[k] # 0
        THEN /\ nextPort[k] <= Len(conns) + 1
             /\ \A i \in DOMAIN conns :
                  conns[i].peer[1] = k => conns[i].peer[2] \in 1 .. nextPort[k] - 1
        ELSE /\ Len(conns) + 1 >= PortMod
             /\ \A i \in DOMAIN conns : conns[i].peer[1] = k => conns[i].peer[2] # 0

\* The address of a session is that of its client or of a connection, of now
\* or before.
PeerKnown ==
    \A c \in Clients :
        peer[c] = UdpPeer(c) \/ \E i \in DOMAIN conns : peer[c] = conns[i].peer

-----------------------------------------------------------------------------
(* The steps, one by one.                                                  *)

LEMMA WayInit == Init => WayInv
<1>. SUFFICES ASSUME Init PROVE WayInv
  OBVIOUS
<1>1. /\ todo = <<>> /\ sends = 0 /\ conns = <<>>
      /\ status = [c \in Clients |-> "none"]
      /\ peer = [c \in Clients |-> UdpPeer(c)]
      /\ retrans = [c \in Clients |-> NoPackets]
      /\ nextPort = [k \in Kinds |-> 1 % PortMod]
      /\ writers = [p \in VirtualPeers |-> NoConn]
      /\ received = [c \in Clients |-> {}]
  BY DEF Init
<1>2. SessionShapes
  BY <1>1 DEF SessionShapes, Peers
<1>3. RetransOwn
  BY <1>1 DEF RetransOwn, NoPackets
<1>4. ChanOwn
  BY <1>1 DEF ChanOwn
<1>5. PortShapes
  <2>1. 1 % PortMod \in 0 .. PortMod - 1
    BY Constants
  <2>2. nextPort \in [Kinds -> 0 .. PortMod - 1]
    BY <1>1, <2>1
  <2>3. writers \in [VirtualPeers -> Nat]
    BY <1>1 DEF NoConn
  <2>. QED  BY <2>2, <2>3 DEF PortShapes
<1>6. ReceivedOwn
  BY <1>1 DEF ReceivedOwn
<1>7. Agree
  BY <1>1 DEF Agree, Distinct, WritersMatch, WritersKnown, PeerOwn
<1>. QED  BY <1>2, <1>3, <1>4, <1>5, <1>6, <1>7 DEF WayInv

\* A step after which every connection has its owner, its peer and its state
\* changes nothing between connections, writers and sessions, unless it
\* brings a session or moves one.
LEMMA AgreeKept ==
    ASSUME Agree, writers' = writers, DOMAIN conns' = DOMAIN conns,
           \A i \in DOMAIN conns : /\ conns'[i].owner = conns[i].owner
                                   /\ conns'[i].peer = conns[i].peer
                                   /\ conns'[i].state = conns[i].state,
           \A c \in Clients : InTable(c)' => InTable(c) /\ peer'[c] = peer[c]
    PROVE  Agree'
<1>1. Distinct'
  BY DEF Agree, Distinct
<1>2. WritersMatch'
  BY DEF Agree, WritersMatch
<1>3. WritersKnown'
  BY DEF Agree, WritersKnown
<1>4. PeerOwn'
  BY DEF Agree, PeerOwn
<1>. QED  BY <1>1, <1>2, <1>3, <1>4 DEF Agree

\* Steps that leave sessions and connections alone.
LEMMA WayQuiet ==
    ASSUME WayInv, todo' \in Seq(Sends),
           UNCHANGED <<status, peer, retrans, nextPort, conns, writers, received, sends>>
    PROVE  WayInv'
<1>1. SessionShapes' /\ RetransOwn' /\ ChanOwn' /\ PortShapes' /\ ReceivedOwn'
  BY DEF WayInv, SessionShapes, RetransOwn, ChanOwn, PortShapes, ReceivedOwn
<1>2. Agree'
  BY AgreeKept DEF WayInv, InTable
<1>. QED  BY <1>1, <1>2 DEF WayInv

\* Steps that change sessions only, and bring none and move none.
LEMMA WaySession ==
    ASSUME WayInv, SessionShapes', RetransOwn',
           UNCHANGED <<peer, nextPort, conns, writers, received>>,
           \A c \in Clients : InTable(c)' => InTable(c)
    PROVE  WayInv'
<1>1. ChanOwn' /\ PortShapes' /\ ReceivedOwn'
  BY DEF WayInv, ChanOwn, PortShapes, ReceivedOwn
<1>2. Agree'
  BY AgreeKept DEF WayInv
<1>. QED  BY <1>1, <1>2 DEF WayInv

\* A frame of the logic server: its sends are those of its addressees, and a
\* session that is kicked leaves its queues behind.
LEMMA WayHandle ==
    ASSUME StreamInv, WayInv, HandleLogicFrame
    PROVE  WayInv'
<1>. DEFINE f == Decoded(readBuf)
<1>1. f \in Frames
  <2>1. HasFrame(readBuf)
    BY DEF HandleLogicFrame
  <2>2. f = written[Len(handled) + 1] /\ Len(handled) + 1 \in 1 .. Len(written)
    BY <2>1, DecodedIs
  <2>. QED  BY <2>2 DEF StreamInv, LinkShapes
<1>. HIDE DEF f
<1>2. UNCHANGED <<nextPort, conns, writers, received, sends>>
  BY DEF HandleLogicFrame, connVars
<1>3. CASE /\ f.ty \in {"send", "multicast"}
           /\ todo' = [i \in DOMAIN f.to |->
                         [to |-> f.to[i], ch |-> f.ch, size |-> f.size]]
           /\ UNCHANGED sessionVars
  <2>1. todo' \in Seq(Sends)
    <3>1. f.to \in Seq(Clients) /\ f.ch \in Nat /\ f.size \in Nat
      BY <1>1 DEF Frames
    <3>2. /\ Len(f.to) \in Nat /\ DOMAIN f.to = 1 .. Len(f.to)
          /\ \A i \in 1 .. Len(f.to) :
               [to |-> f.to[i], ch |-> f.ch, size |-> f.size] \in Sends
      BY <3>1 DEF Sends
    <3>. QED  BY <1>3, <3>2
  <2>. QED  BY <1>2, <1>3, <2>1, WayQuiet DEF sessionVars
<1>4. CASE f.ty = "kick" /\ Kick(f.to[1]) /\ UNCHANGED todo
  <2>. DEFINE k == f.to[1]
  <2>1. /\ status' = [status EXCEPT ![k] = IF InTable(k) THEN "gone" ELSE @]
        /\ retrans' = [retrans EXCEPT ![k] = NoPackets]
        /\ UNCHANGED <<peer, todo>>
    BY <1>4 DEF Kick
  <2>. HIDE DEF k
  <2>2. /\ status \in [Clients -> {"none", "active", "grace", "gone"}]
        /\ retrans \in [Clients -> [Reliable -> Seq(Packets)]]
        /\ \A c \in Clients, ch \in Reliable : retrans[c][ch] \in Seq(Own(c))
    BY DEF WayInv, SessionShapes, RetransOwn
  <2>3. /\ status' \in [Clients -> {"none", "active", "grace", "gone"}]
        /\ \A c \in Clients : status'[c] = status[c] \/ status'[c] = "gone"
    BY <2>1, <2>2
  <2>4. SessionShapes'
    BY <1>2, <2>1, <2>3 DEF WayInv, SessionShapes
  <2>5. \A c \in Clients : InTable(c)' => InTable(c)
    BY <2>3 DEF InTable
  <2>6. NoPackets \in [Reliable -> Seq(Packets)]
        /\ \A c \in Clients, ch \in Reliable : NoPackets[ch] \in Seq(Own(c))
    BY DEF NoPackets
  <2>7. /\ retrans' \in [Clients -> [Reliable -> Seq(Packets)]]
        /\ \A c \in Clients : retrans'[c] = retrans[c] \/ retrans'[c] = NoPackets
    BY <2>1, <2>2, <2>6
  <2>8. RetransOwn'
    BY <2>2, <2>6, <2>7 DEF RetransOwn
  <2>. QED  BY <1>2, <2>1, <2>4, <2>5, <2>8, WaySession
<1>5. CASE \/ f.ty = "budget" /\ SetBudget(f.to[1], f.kbps) /\ UNCHANGED todo
           \/ f.ty \in {"hello", "other"} /\ UNCHANGED <<todo, sessionVars>>
  <2>1. UNCHANGED <<status, peer, retrans, todo>>
    BY <1>5 DEF SetBudget, sessionVars
  <2>. QED  BY <1>2, <2>1, WayQuiet DEF WayInv, SessionShapes
<1>. QED  BY <1>3, <1>4, <1>5, Zenon DEF HandleLogicFrame, f

\* What UDP carries to the address of a session's client, or to none.
LEMMA UdpOwn ==
    ASSUME WayInv, NEW c \in Clients, NEW packets \in SUBSET Own(c),
           SendUdp(packets, peer[c])
    PROVE  ReceivedOwn'
<1>1. /\ received \in [Clients -> SUBSET Packets]
      /\ \A d \in Clients : received[d] \subseteq Own(d)
      /\ peer[c] = UdpPeer(c) \/ IsVirtual(peer[c])
  BY DEF WayInv, ReceivedOwn, SessionShapes
<1>2. CASE IsVirtual(peer[c])
  BY <1>1, <1>2 DEF SendUdp, ReceivedOwn
<1>3. CASE ~IsVirtual(peer[c])
  <2>1. PICK d \in Clients, got \in SUBSET packets :
           peer[c] = UdpPeer(d) /\ Receive(d, got)
    BY <1>3 DEF SendUdp
  <2>2. c = d
    BY <1>1, <1>3, <2>1 DEF UdpPeer
  <2>3. received' = [received EXCEPT ![c] = @ \cup got]
    BY <2>1, <2>2 DEF Receive
  <2>4. got \subseteq Own(c) /\ Own(c) \subseteq Packets
    BY DEF Own
  <2>. QED  BY <1>1, <2>3, <2>4 DEF ReceivedOwn
<1>. QED  BY <1>2, <1>3

\* One connection is replaced by another form of itself.
LEMMA ConnReplaced ==
    ASSUME ChanOwn, NEW i \in DOMAIN conns, NEW x \in Connections,
           x.owner = conns[i].owner, x.peer = conns[i].peer,
           x.chan \in Seq(Own(x.owner)), conns' = [conns EXCEPT ![i] = x]
    PROVE  /\ ChanOwn' /\ DOMAIN conns' = DOMAIN conns /\ conns'[i] = x
           /\ Len(conns') = Len(conns)
           /\ \A j \in DOMAIN conns : /\ j # i => conns'[j] = conns[j]
                                      /\ conns'[j].owner = conns[j].owner
                                      /\ conns'[j].peer = conns[j].peer
<1>1. /\ conns \in Seq(Connections)
      /\ \A j \in DOMAIN conns : conns[j].chan \in Seq(Own(conns[j].owner))
  BY DEF ChanOwn
<1>2. PICK new : new = conns'
  OBVIOUS
<1>3. /\ new \in Seq(Connections) /\ Len(new) = Len(conns) /\ DOMAIN new = DOMAIN conns
      /\ new[i] = x /\ \A j \in DOMAIN conns : j # i => new[j] = conns[j]
  <2>1. new = [conns EXCEPT ![i] = x]
    BY <1>2
  <2>. QED  BY <1>1, <2>1, ReplacedAt
<1>4. ASSUME NEW j \in DOMAIN conns
      PROVE  /\ new[j].owner = conns[j].owner /\ new[j].peer = conns[j].peer
             /\ new[j].chan \in Seq(Own(new[j].owner))
  BY <1>1, <1>3
<1>5. ChanOwn'
  BY <1>2, <1>3, <1>4 DEF ChanOwn
<1>. QED  BY <1>2, <1>3, <1>4, <1>5

\* The parts of a connection.
LEMMA ConnParts ==
    ASSUME ChanOwn, NEW i \in DOMAIN conns
    PROVE  /\ i \in Nat /\ i # NoConn /\ conns[i] \in Connections
           /\ conns[i].owner \in Clients /\ conns[i].peer \in VirtualPeers
           /\ conns[i].chan \in Seq(Packets) /\ conns[i].chan \in Seq(Own(conns[i].owner))
           /\ conns[i].state \in {"accepted", "open", "closed"}
<1>1. conns \in Seq(Connections) /\ conns[i].chan \in Seq(Own(conns[i].owner))
  BY DEF ChanOwn
<1>2. i \in 1 .. Len(conns) /\ Len(conns) \in Nat /\ conns[i] \in Connections
  BY <1>1
<1>3. i \in Nat /\ i # NoConn
  BY <1>2 DEF NoConn
<1>4. /\ conns[i].owner \in Clients /\ conns[i].peer \in VirtualPeers
      /\ conns[i].chan \in Seq(Packets)
      /\ conns[i].state \in {"accepted", "open", "closed"}
  BY <1>2 DEF Connections
<1>. QED  BY <1>1, <1>2, <1>3, <1>4

\* A packet goes the way of its session's peer (dispatch_send): the connection
\* that is found there is the client's.
LEMMA DispatchOwn ==
    ASSUME WayInv, NEW c \in Clients, InTable(c), NEW packets \in Seq(Own(c)),
           Dispatch(packets, peer[c]), UNCHANGED <<status, peer, writers>>
    PROVE  ReceivedOwn' /\ ChanOwn' /\ Agree'
<1>1. CASE ~IsVirtual(peer[c])
  <2>1. SendUdp(ToSet(packets), peer[c]) /\ UNCHANGED conns
    BY <1>1 DEF Dispatch
  <2>2. ToSet(packets) \in SUBSET Own(c)
    BY DEF ToSet
  <2>3. ReceivedOwn'
    BY <2>1, <2>2, UdpOwn
  <2>4. ChanOwn' /\ Agree'
    BY <2>1, AgreeKept DEF WayInv, ChanOwn, InTable
  <2>. QED  BY <2>3, <2>4
<1>2. CASE IsVirtual(peer[c]) /\ writers[peer[c]] = NoConn
  <2>1. UNCHANGED <<conns, received>>
    BY <1>2 DEF Dispatch
  <2>. QED  BY <2>1, AgreeKept DEF WayInv, ChanOwn, InTable, ReceivedOwn
<1>3. CASE IsVirtual(peer[c]) /\ writers[peer[c]] # NoConn
  <2>. DEFINE i == writers[peer[c]]
              x == [conns[i] EXCEPT !.chan = TrySend(@, packets)]
  <2>1. conns' = [conns EXCEPT ![i] = x] /\ UNCHANGED received
    BY <1>3 DEF Dispatch
  <2>2. i \in DOMAIN conns /\ conns[i].peer = peer[c]
    BY <1>3 DEF WayInv, Agree, WritersKnown, IsVirtual
  <2>3. conns[i].state = "open" /\ conns[i].owner = c
    BY <2>2 DEF WayInv, Agree, WritersMatch, PeerOwn
  <2>. HIDE DEF i
  <2>4. conns[i] \in Connections /\ conns[i].chan \in Seq(Own(c)) /\ ChanOwn
    BY <2>2, <2>3, ConnParts DEF WayInv
  <2>5. TrySend(conns[i].chan, packets) \in Seq(Own(c))
    BY <2>4, TrySendIn
  <2>6. Own(c) \subseteq Packets
    BY DEF Own
  <2>7. TrySend(conns[i].chan, packets) \in Seq(Packets)
    BY <2>5, <2>6
  <2>8. /\ x \in Connections /\ x.owner = conns[i].owner /\ x.peer = conns[i].peer
        /\ x.state = conns[i].state /\ x.chan \in Seq(Own(x.owner))
    BY <2>3, <2>4, <2>5, <2>7 DEF Connections
  <2>. HIDE DEF x
  <2>9. /\ ChanOwn' /\ DOMAIN conns' = DOMAIN conns /\ conns'[i] = x
        /\ \A j \in DOMAIN conns : /\ j # i => conns'[j] = conns[j]
                                   /\ conns'[j].owner = conns[j].owner
                                   /\ conns'[j].peer = conns[j].peer
    BY <2>1, <2>2, <2>4, <2>8, ConnReplaced
  <2>10. \A j \in DOMAIN conns : conns'[j].state = conns[j].state
    BY <2>8, <2>9
  <2>11. Agree'
    BY <2>9, <2>10, AgreeKept DEF WayInv, InTable
  <2>12. ReceivedOwn'
    BY <2>1 DEF WayInv, ReceivedOwn
  <2>. QED  BY <2>9, <2>11, <2>12
<1>. QED  BY <1>1, <1>2, <1>3

LEMMA WaySend ==
    ASSUME WayInv, SendOutbound
    PROVE  WayInv'
<1>. DEFINE m == Head(todo)
<1>1. /\ todo # <<>> /\ todo' = Tail(todo) /\ sends' = sends + 1 /\ PackOutbound(m)
      /\ UNCHANGED <<status, peer, nextPort, writers>>
      /\ IF PackOk(m) /\ InBudget(m) THEN Dispatch(Packed(m), peer[m.to])
         ELSE UNCHANGED <<conns, received>>
  BY DEF SendOutbound
<1>2. m \in Sends /\ m.to \in Clients /\ todo' \in Seq(Sends) /\ sends \in Nat
  <2>1. todo \in Seq(Sends) /\ sends \in Nat
    BY DEF WayInv, SessionShapes
  <2>2. m \in Sends /\ Tail(todo) \in Seq(Sends)
    BY <1>1, <2>1
  <2>. QED  BY <1>1, <2>1, <2>2 DEF Sends
<1>. HIDE DEF m
<1>3. SessionShapes'
  BY <1>1, <1>2 DEF WayInv, SessionShapes
<1>4. PortShapes'
  BY <1>1 DEF WayInv, PortShapes
<1>5. /\ retrans \in [Clients -> [Reliable -> Seq(Packets)]]
      /\ \A c \in Clients, ch \in Reliable : retrans[c][ch] \in Seq(Own(c))
  BY DEF WayInv, RetransOwn
<1>6. RetransOwn'
  <2>1. CASE ~(Packs(m) /\ m.ch \in Reliable)
    BY <1>1, <1>5, <2>1 DEF PackOutbound, RetransOwn
  <2>2. CASE Packs(m) /\ m.ch \in Reliable
    <3>. DEFINE q == retrans[m.to][m.ch]
                n == Pushed(m)
                new == q \o SubSeq(Packed(m), 1, n)
    <3>1. Parts(m) \in Nat /\ Packed(m) \in Seq(Own(m.to)) /\ Len(Packed(m)) = Parts(m)
      BY <1>2, <2>2, PackedOwn DEF Packs
    <3>2. q \in Seq(Own(m.to)) /\ Len(q) \in Nat
      BY <1>2, <1>5, <2>2
    <3>3. n \in Int /\ n <= Len(Packed(m))
      <4>1. n = Min({Parts(m), QueueCap - Len(q)})
        BY <2>2 DEF Pushed
      <4>2. QueueCap - Len(q) \in Int /\ Parts(m) \in Int
        BY <3>1, <3>2, Constants
      <4>. HIDE DEF n, q
      <4>3. Min({Parts(m), QueueCap - Len(q)}) \in Int
            /\ Min({Parts(m), QueueCap - Len(q)}) <= Parts(m)
        BY ONLY <4>2, MinTwo
      <4>. QED  BY <3>1, <4>1, <4>3
    <3>4. SubSeq(Packed(m), 1, n) \in Seq(Own(m.to))
      <4>. HIDE DEF n
      <4>. QED  BY <3>1, <3>3, FrontIn
    <3>5. retrans' = [retrans EXCEPT ![m.to][m.ch] = new]
      BY <1>1, <2>2 DEF PackOutbound
    <3>6. new \in Seq(Own(m.to)) /\ new \in Seq(Packets)
      <4>. DEFINE front == SubSeq(Packed(m), 1, n)
      <4>1. front \in Seq(Own(m.to)) /\ Own(m.to) \subseteq Packets
        BY <3>4 DEF Own
      <4>. HIDE DEF front, q
      <4>2. q \o front \in Seq(Own(m.to))
        BY <3>2, <4>1
      <4>3. q \o front \in Seq(Packets)
        BY <4>1, <4>2
      <4>. QED  BY <4>2, <4>3 DEF front
    <3>. HIDE DEF new
    <3>7. retrans' \in [Clients -> [Reliable -> Seq(Packets)]]
      BY <1>2, <1>5, <2>2, <3>5, <3>6
    <3>8. ASSUME NEW c \in Clients, NEW ch \in Reliable PROVE retrans'[c][ch] \in Seq(Own(c))
      <4>1. CASE c = m.to /\ ch = m.ch
        BY <1>2, <1>5, <2>2, <3>5, <3>6, <4>1
      <4>2. CASE ~(c = m.to /\ ch = m.ch)
        <5>1. retrans'[c][ch] = retrans[c][ch]
          BY <1>2, <1>5, <2>2, <3>5, <4>2
        <5>. QED  BY <1>5, <5>1
      <4>. QED  BY <4>1, <4>2
    <3>. QED  BY <3>7, <3>8 DEF RetransOwn
  <2>. QED  BY <2>1, <2>2
<1>7. ReceivedOwn' /\ ChanOwn' /\ Agree'
  <2>1. CASE PackOk(m) /\ InBudget(m)
    <3>1. status[m.to] = "active" /\ Encodes(m)
      BY <2>1 DEF PackOk, Packs
    <3>2. InTable(m.to) /\ Packed(m) \in Seq(Own(m.to))
      BY <1>2, <3>1, PackedOwn DEF InTable
    <3>. QED  BY <1>1, <1>2, <2>1, <3>2, DispatchOwn
  <2>2. CASE ~(PackOk(m) /\ InBudget(m))
    <3>1. UNCHANGED <<conns, received>>
      BY <1>1, <2>2
    <3>. QED  BY <1>1, <3>1, AgreeKept DEF WayInv, ChanOwn, ReceivedOwn, InTable
  <2>. QED  BY <2>1, <2>2
<1>. QED  BY <1>3, <1>4, <1>6, <1>7 DEF WayInv

\* Retransmission goes to the address of the session by UDP.
LEMMA WayMaintainReliable ==
    ASSUME WayInv, NEW c \in Clients, MaintainReliable(c)
    PROVE  WayInv'
<1>1. SendUdp(Queued(c), peer[c])
      /\ UNCHANGED <<todo, sends, status, peer, retrans, nextPort, conns, writers>>
  BY DEF MaintainReliable, linkVars, sessionVars, connVars
<1>2. Queued(c) \in SUBSET Own(c)
  <2>1. \A ch \in Reliable : retrans[c][ch] \in Seq(Own(c))
    BY DEF WayInv, RetransOwn
  <2>2. \A ch \in Reliable : ToSet(retrans[c][ch]) \subseteq Own(c)
    BY <2>1 DEF ToSet
  <2>. QED  BY <2>2 DEF Queued
<1>3. ReceivedOwn'
  BY <1>1, <1>2, UdpOwn
<1>4. SessionShapes' /\ RetransOwn' /\ ChanOwn' /\ PortShapes'
  BY <1>1 DEF WayInv, SessionShapes, RetransOwn, ChanOwn, PortShapes
<1>5. Agree'
  BY <1>1, AgreeKept DEF WayInv, InTable
<1>. QED  BY <1>3, <1>4, <1>5 DEF WayInv

\* A datagram moves its session to the address it comes from, which is the
\* client's own, or that of its connection.
LEMMA WayDatagram ==
    ASSUME WayInv, NEW c \in Clients, NEW p \in Peers,
           p = UdpPeer(c) \/ IsVirtual(p),
           \A i \in DOMAIN conns :
               conns[i].state # "closed" /\ conns[i].peer = p => conns[i].owner = c,
           HandleDatagram(c, p)
    PROVE  WayInv'
<1>1. /\ status' = [status EXCEPT ![c] = IF @ = "gone" THEN @ ELSE "active"]
      /\ peer' = [peer EXCEPT ![c] = IF status[c] = "gone" THEN @ ELSE p]
      /\ retrans' = IF status[c] = "active"
                    THEN [retrans EXCEPT ![c] =
                            [ch \in Reliable |-> Confirmed(@[ch], received[c])]]
                    ELSE retrans
      /\ UNCHANGED <<todo, sends, nextPort, conns, writers, received>>
  BY DEF HandleDatagram, linkVars, connVars
<1>2. /\ status \in [Clients -> {"none", "active", "grace", "gone"}]
      /\ peer \in [Clients -> Peers]
      /\ \A d \in Clients : peer[d] = UdpPeer(d) \/ IsVirtual(peer[d])
      /\ todo \in Seq(Sends) /\ sends \in Nat
  BY DEF WayInv, SessionShapes
<1>3. SessionShapes'
  BY <1>1, <1>2 DEF SessionShapes
<1>4. /\ retrans \in [Clients -> [Reliable -> Seq(Packets)]]
      /\ \A d \in Clients, ch \in Reliable : retrans[d][ch] \in Seq(Own(d))
  BY DEF WayInv, RetransOwn
<1>5. RetransOwn'
  <2>. DEFINE new == [ch \in Reliable |-> Confirmed(retrans[c][ch], received[c])]
  <2>1. \A ch \in Reliable : Confirmed(retrans[c][ch], received[c]) \in Seq(Own(c))
    BY <1>4, ConfirmedIn
  <2>2. Own(c) \subseteq Packets
    BY DEF Own
  <2>3. \A ch \in Reliable : Confirmed(retrans[c][ch], received[c]) \in Seq(Packets)
    BY <2>1, <2>2
  <2>4. new \in [Reliable -> Seq(Packets)] /\ \A ch \in Reliable : new[ch] \in Seq(Own(c))
    BY <2>1, <2>3
  <2>5. retrans' = IF status[c] = "active" THEN [retrans EXCEPT ![c] = new] ELSE retrans
    BY <1>1
  <2>. HIDE DEF new
  <2>6. /\ retrans' \in [Clients -> [Reliable -> Seq(Packets)]]
        /\ \A d \in Clients : d # c => retrans'[d] = retrans[d]
        /\ retrans'[c] = new \/ retrans'[c] = retrans[c]
    BY <1>4, <2>4, <2>5
  <2>. QED  BY <1>4, <2>4, <2>6 DEF RetransOwn
<1>6. ChanOwn' /\ PortShapes' /\ ReceivedOwn'
  BY <1>1 DEF WayInv, ChanOwn, PortShapes, ReceivedOwn
<1>7. Distinct' /\ WritersMatch' /\ WritersKnown'
  BY <1>1 DEF WayInv, Agree, Distinct, WritersMatch, WritersKnown
<1>8. PeerOwn'
  <2>. SUFFICES ASSUME NEW d \in Clients, InTable(d)', NEW i \in DOMAIN conns,
                       conns[i].state # "closed", conns[i].peer = peer'[d]
                PROVE  conns[i].owner = d
    BY <1>1 DEF PeerOwn
  <2>1. CASE d # c
    <3>1. InTable(d) /\ peer'[d] = peer[d]
      BY <1>1, <1>2, <2>1 DEF InTable
    <3>. QED  BY <3>1 DEF WayInv, Agree, PeerOwn
  <2>2. CASE d = c
    <3>1. status[c] # "gone"
      BY <1>1, <1>2, <2>2 DEF InTable
    <3>2. peer'[c] = p
      BY <1>1, <1>2, <3>1
    <3>. QED  BY <2>2, <3>2
  <2>. QED  BY <2>1, <2>2
<1>. QED  BY <1>3, <1>5, <1>6, <1>7, <1>8 DEF WayInv, Agree

LEMMA WayReceiveUdp ==
    ASSUME WayInv, NEW c \in Clients, ReceiveUdp(c)
    PROVE  WayInv'
<1>1. UdpPeer(c) \in Peers /\ UdpPeer(c) \notin VirtualPeers
  BY Constants DEF Peers, UdpPeer, VirtualPeers
<1>2. \A i \in DOMAIN conns : conns[i].peer \in VirtualPeers
  BY ConnParts DEF WayInv
<1>3. \A i \in DOMAIN conns :
          conns[i].state # "closed" /\ conns[i].peer = UdpPeer(c) => conns[i].owner = c
  BY <1>1, <1>2
<1>. QED  BY <1>1, <1>3, WayDatagram DEF ReceiveUdp

LEMMA WayConnRead ==
    ASSUME WayInv, NEW i \in DOMAIN conns, ConnRead(i)
    PROVE  WayInv'
<1>1. conns[i].state = "open" /\ HandleDatagram(conns[i].owner, conns[i].peer)
  BY DEF ConnRead
<1>2. conns[i].owner \in Clients /\ conns[i].peer \in Peers /\ IsVirtual(conns[i].peer)
  BY ConnParts DEF WayInv, Peers, IsVirtual
<1>3. \A j \in DOMAIN conns :
          conns[j].state # "closed" /\ conns[j].peer = conns[i].peer
            => conns[j].owner = conns[i].owner
  BY <1>1 DEF WayInv, Agree, Distinct
<1>. QED  BY <1>1, <1>2, <1>3, WayDatagram

LEMMA WayMaintain ==
    ASSUME WayInv, NEW c \in Clients, Maintain(c)
    PROVE  WayInv'
<1>1. /\ status' = [status EXCEPT ![c] = IF @ = "active" THEN "grace" ELSE "gone"]
      /\ InTable(c)
      /\ retrans' = IF status[c] = "grace"
                    THEN [retrans EXCEPT ![c] = NoPackets] ELSE retrans
      /\ UNCHANGED <<todo, sends, peer, nextPort, conns, writers, received>>
  BY DEF Maintain, linkVars, connVars
<1>2. /\ status \in [Clients -> {"none", "active", "grace", "gone"}]
      /\ retrans \in [Clients -> [Reliable -> Seq(Packets)]]
      /\ \A d \in Clients, ch \in Reliable : retrans[d][ch] \in Seq(Own(d))
  BY DEF WayInv, SessionShapes, RetransOwn
<1>3. /\ status' \in [Clients -> {"none", "active", "grace", "gone"}]
      /\ \A d \in Clients : status'[d] = status[d] \/ d = c
  BY <1>1, <1>2
<1>4. SessionShapes'
  BY <1>1, <1>3 DEF WayInv, SessionShapes
<1>5. \A d \in Clients : InTable(d)' => InTable(d)
  BY <1>1, <1>3 DEF InTable
<1>6. NoPackets \in [Reliable -> Seq(Packets)]
      /\ \A d \in Clients, ch \in Reliable : NoPackets[ch] \in Seq(Own(d))
  BY DEF NoPackets
<1>7. /\ retrans' \in [Clients -> [Reliable -> Seq(Packets)]]
      /\ \A d \in Clients : retrans'[d] = retrans[d] \/ retrans'[d] = NoPackets
  BY <1>1, <1>2, <1>6
<1>8. RetransOwn'
  BY <1>2, <1>6, <1>7 DEF RetransOwn
<1>. QED  BY <1>1, <1>4, <1>5, <1>8, WaySession

\* A connection is accepted: its number is in use by none.
LEMMA WayAccept ==
    ASSUME WayInv, PortsFree, NEW c \in Clients, NEW k \in Kinds, Accept(c, k)
    PROVE  WayInv'
<1>. DEFINE n == Len(conns) + 1
            x == [owner |-> c, peer |-> NewPeer(k), chan |-> <<>>, state |-> "accepted"]
<1>1. /\ Len(conns) < MaxConns /\ conns' = Append(conns, x)
      /\ nextPort' = [nextPort EXCEPT ![k] = (@ + 1) % PortMod]
      /\ UNCHANGED <<todo, sends, status, peer, retrans, writers, received>>
  BY DEF Accept, linkVars, sessionVars
<1>2. /\ nextPort \in [Kinds -> 0 .. PortMod - 1] /\ writers \in [VirtualPeers -> Nat]
      /\ conns \in Seq(Connections)
      /\ \A i \in DOMAIN conns : conns[i].chan \in Seq(Own(conns[i].owner))
  BY DEF WayInv, PortShapes, ChanOwn
<1>3. NewPeer(k) \in VirtualPeers
  BY <1>2 DEF NewPeer, VirtualPeers
<1>4. /\ x \in Connections /\ x.owner = c /\ x.peer = NewPeer(k) /\ x.chan = <<>>
      /\ x.state = "accepted"
  BY <1>3 DEF Connections
<1>. HIDE DEF x
<1>5. PICK new : new = conns'
  OBVIOUS
<1>6. /\ new \in Seq(Connections) /\ DOMAIN new = DOMAIN conns \cup {n} /\ new[n] = x
      /\ n \notin DOMAIN conns /\ n # NoConn
      /\ \A i \in DOMAIN conns : new[i] = conns[i]
  BY <1>1, <1>2, <1>4, <1>5 DEF NoConn
<1>. HIDE DEF n
<1>7. ChanOwn'
  <2>1. ASSUME NEW i \in DOMAIN new PROVE new[i].chan \in Seq(Own(new[i].owner))
    <3>1. CASE i \in DOMAIN conns
      <4>1. new[i] = conns[i]
        BY <1>6, <3>1
      <4>. QED  BY <1>2, <3>1, <4>1
    <3>2. CASE i = n
      <4>1. new[i].chan = <<>>
        BY <1>4, <1>6, <3>2
      <4>. QED  BY <4>1
    <3>. QED  BY <1>6, <3>1, <3>2
  <2>. QED  BY <1>5, <1>6, <2>1 DEF ChanOwn
<1>8. PortShapes'
  <2>1. (nextPort[k] + 1) % PortMod \in 0 .. PortMod - 1
    <3>1. nextPort[k] + 1 \in Nat /\ PortMod \in Nat \ {0}
      BY <1>2, Constants
    <3>. QED  BY <3>1
  <2>. QED  BY <1>1, <1>2, <2>1 DEF PortShapes
<1>9. SessionShapes' /\ RetransOwn' /\ ReceivedOwn'
  BY <1>1 DEF WayInv, SessionShapes, RetransOwn, ReceivedOwn
<1>10. /\ \A i \in DOMAIN conns : conns[i].state # "closed" => conns[i].peer # NewPeer(k)
       /\ \A d \in Clients : InTable(d) => peer[d] # NewPeer(k)
  BY <1>1 DEF PortsFree
<1>11. Distinct'
  <2>1. \A i, j \in DOMAIN new :
            /\ new[i].state # "closed" /\ new[j].state # "closed"
            /\ new[i].peer = new[j].peer
            => i = j
    BY <1>4, <1>6, <1>10 DEF WayInv, Agree, Distinct
  <2>. QED  BY <1>5, <2>1 DEF Distinct
<1>12. WritersKnown'
  <2>1. \A p \in VirtualPeers :
            writers[p] # NoConn => writers[p] \in DOMAIN new /\ new[writers[p]].peer = p
    BY <1>6 DEF WayInv, Agree, WritersKnown
  <2>. QED  BY <1>1, <1>5, <2>1 DEF WritersKnown
<1>13. WritersMatch'
  <2>1. ASSUME NEW i \in DOMAIN new
        PROVE  new[i].state = "open" <=> writers[new[i].peer] = i
    <3>1. CASE i \in DOMAIN conns
      BY <1>6, <3>1 DEF WayInv, Agree, WritersMatch
    <3>2. CASE i = n
      <4>1. writers[NewPeer(k)] # n
        BY <1>3, <1>6 DEF WayInv, Agree, WritersKnown
      <4>. QED  BY <1>4, <1>6, <3>2, <4>1
    <3>. QED  BY <1>6, <3>1, <3>2
  <2>. QED  BY <1>1, <1>5, <2>1 DEF WritersMatch
<1>14. PeerOwn'
  <2>1. \A d \in Clients : InTable(d) =>
          \A i \in DOMAIN new :
            new[i].state # "closed" /\ new[i].peer = peer[d] => new[i].owner = d
    BY <1>4, <1>6, <1>10 DEF WayInv, Agree, PeerOwn
  <2>. QED  BY <1>1, <1>5, <2>1 DEF PeerOwn, InTable
<1>. QED  BY <1>7, <1>8, <1>9, <1>11, <1>12, <1>13, <1>14 DEF WayInv, Agree

\* A connection takes another state or channel; the rest stays.
LEMMA WayConn ==
    ASSUME WayInv, NEW i \in DOMAIN conns, NEW x \in Connections,
           x.owner = conns[i].owner, x.peer = conns[i].peer,
           x.chan \in Seq(Own(x.owner)), conns' = [conns EXCEPT ![i] = x],
           conns[i].state # "closed", ReceivedOwn', WritersMatch', WritersKnown',
           writers' \in [VirtualPeers -> Nat],
           UNCHANGED <<todo, sends, status, peer, retrans, nextPort>>
    PROVE  WayInv'
<1>1. /\ ChanOwn' /\ DOMAIN conns' = DOMAIN conns /\ conns'[i] = x
      /\ \A j \in DOMAIN conns : /\ j # i => conns'[j] = conns[j]
                                 /\ conns'[j].owner = conns[j].owner
                                 /\ conns'[j].peer = conns[j].peer
  BY ConnReplaced DEF WayInv
<1>2. \A j \in DOMAIN conns : conns'[j].state # "closed" => conns[j].state # "closed"
  BY <1>1
<1>3. Distinct'
  BY <1>1, <1>2 DEF WayInv, Agree, Distinct
<1>4. PeerOwn'
  BY <1>1, <1>2 DEF WayInv, Agree, PeerOwn, InTable
<1>5. SessionShapes' /\ RetransOwn' /\ PortShapes'
  BY DEF WayInv, SessionShapes, RetransOwn, PortShapes
<1>. QED  BY <1>1, <1>3, <1>4, <1>5 DEF WayInv, Agree

\* conn_loop begins: no other connection that lives has the peer.
LEMMA WayConnStart ==
    ASSUME WayInv, NEW i \in DOMAIN conns, ConnStart(i)
    PROVE  WayInv'
<1>. DEFINE x == [conns[i] EXCEPT !.state = "open"]
            p == conns[i].peer
<1>1. /\ conns[i].state = "accepted" /\ conns' = [conns EXCEPT ![i] = x]
      /\ writers' = [writers EXCEPT ![p] = i]
      /\ UNCHANGED <<todo, sends, status, peer, retrans, nextPort, received>>
  BY DEF ConnStart, linkVars, sessionVars
<1>2. /\ i \in Nat /\ i # NoConn /\ conns[i] \in Connections /\ p \in VirtualPeers
      /\ conns[i].chan \in Seq(Own(conns[i].owner)) /\ ChanOwn
  BY ConnParts DEF WayInv
<1>3. /\ x \in Connections /\ x.owner = conns[i].owner /\ x.peer = p
      /\ x.state = "open" /\ x.chan \in Seq(Own(x.owner))
  BY <1>2 DEF Connections
<1>. HIDE DEF x
<1>4. /\ DOMAIN conns' = DOMAIN conns /\ conns'[i] = x
      /\ \A j \in DOMAIN conns : /\ j # i => conns'[j] = conns[j]
                                 /\ conns'[j].peer = conns[j].peer
  BY <1>1, <1>2, <1>3, ConnReplaced
<1>5. /\ writers' \in [VirtualPeers -> Nat] /\ writers'[p] = i
      /\ \A q \in VirtualPeers : q # p => writers'[q] = writers[q]
  BY <1>1, <1>2 DEF WayInv, PortShapes
<1>6. \A j \in DOMAIN conns : j # i /\ conns[j].peer = p => conns[j].state = "closed"
  BY <1>1 DEF WayInv, Agree, Distinct
<1>7. \A j \in DOMAIN conns : conns[j].peer \in VirtualPeers
  BY <1>2, ConnParts
<1>8. WritersMatch'
  <2>1. ASSUME NEW j \in DOMAIN conns
        PROVE  conns'[j].state = "open" <=> writers'[conns'[j].peer] = j
    <3>1. CASE j = i
      BY <1>3, <1>4, <1>5, <3>1
    <3>2. CASE j # i /\ conns[j].peer = p
      BY <1>4, <1>5, <1>6, <3>2
    <3>3. CASE j # i /\ conns[j].peer # p
      BY <1>4, <1>5, <1>7, <3>3 DEF WayInv, Agree, WritersMatch
    <3>. QED  BY <3>1, <3>2, <3>3
  <2>. QED  BY <1>4, <2>1 DEF WritersMatch
<1>9. WritersKnown'
  BY <1>4, <1>5 DEF WayInv, Agree, WritersKnown
<1>10. ReceivedOwn'
  BY <1>1 DEF WayInv, ReceivedOwn
<1>11. conns[i].state # "closed"
  BY <1>1
<1>. HIDE DEF p
<1>. QED  BY <1>1, <1>2, <1>3, <1>5, <1>8, <1>9, <1>10, <1>11, WayConn DEF p

LEMMA WayUpgradeFails ==
    ASSUME WayInv, NEW i \in DOMAIN conns, UpgradeFails(i)
    PROVE  WayInv'
<1>. DEFINE x == [conns[i] EXCEPT !.state = "closed"]
<1>1. /\ conns[i].state = "accepted" /\ conns' = [conns EXCEPT ![i] = x]
      /\ UNCHANGED <<todo, sends, status, peer, retrans, nextPort, writers, received>>
  BY DEF UpgradeFails, linkVars, sessionVars
<1>2. /\ conns[i] \in Connections /\ conns[i].chan \in Seq(Own(conns[i].owner)) /\ ChanOwn
  BY ConnParts DEF WayInv
<1>3. /\ x \in Connections /\ x.owner = conns[i].owner /\ x.peer = conns[i].peer
      /\ x.state = "closed" /\ x.chan \in Seq(Own(x.owner))
  BY <1>2 DEF Connections
<1>. HIDE DEF x
<1>4. /\ DOMAIN conns' = DOMAIN conns /\ conns'[i] = x
      /\ \A j \in DOMAIN conns : /\ j # i => conns'[j] = conns[j]
                                 /\ conns'[j].peer = conns[j].peer
  BY <1>1, <1>2, <1>3, ConnReplaced
<1>5. WritersMatch' /\ WritersKnown'
  BY <1>1, <1>3, <1>4 DEF WayInv, Agree, WritersMatch, WritersKnown
<1>6. ReceivedOwn' /\ writers' \in [VirtualPeers -> Nat] /\ conns[i].state # "closed"
  BY <1>1 DEF WayInv, ReceivedOwn, PortShapes
<1>. QED  BY <1>1, <1>3, <1>5, <1>6, WayConn

\* The write task writes to its own client.
LEMMA WayConnWrite ==
    ASSUME WayInv, NEW i \in DOMAIN conns, ConnWrite(i)
    PROVE  WayInv'
<1>. DEFINE q == conns[i].chan
            c == conns[i].owner
            x == [conns[i] EXCEPT !.chan = Tail(@)]
<1>1. /\ conns[i].state = "open" /\ q # <<>> /\ conns' = [conns EXCEPT ![i] = x]
      /\ received' = [received EXCEPT ![c] = @ \cup {Head(q)}]
      /\ UNCHANGED <<todo, sends, status, peer, retrans, nextPort, writers>>
  BY DEF ConnWrite, Receive, linkVars, sessionVars
<1>2. /\ conns[i] \in Connections /\ c \in Clients /\ q \in Seq(Own(c))
      /\ q \in Seq(Packets) /\ ChanOwn
  BY ConnParts DEF WayInv
<1>3. Tail(q) \in Seq(Own(c)) /\ Tail(q) \in Seq(Packets) /\ Head(q) \in Own(c)
  <2>. HIDE DEF q, c
  <2>. QED  BY <1>1, <1>2, HeadTail
<1>4. /\ x \in Connections /\ x.owner = c /\ x.peer = conns[i].peer
      /\ x.state = "open" /\ x.chan \in Seq(Own(x.owner))
  BY <1>1, <1>2, <1>3 DEF Connections
<1>. HIDE DEF x
<1>5. /\ DOMAIN conns' = DOMAIN conns /\ conns'[i] = x
      /\ \A j \in DOMAIN conns : /\ j # i => conns'[j] = conns[j]
                                 /\ conns'[j].peer = conns[j].peer
  BY <1>1, <1>2, <1>4, ConnReplaced
<1>6. WritersMatch' /\ WritersKnown'
  BY <1>1, <1>4, <1>5 DEF WayInv, Agree, WritersMatch, WritersKnown
<1>7. ReceivedOwn'
  <2>1. /\ received \in [Clients -> SUBSET Packets]
        /\ \A d \in Clients : received[d] \subseteq Own(d)
    BY DEF WayInv, ReceivedOwn
  <2>2. Head(q) \in Packets
    BY <1>3 DEF Own
  <2>. HIDE DEF q, c
  <2>. QED  BY <1>1, <1>2, <1>3, <2>1, <2>2 DEF ReceivedOwn
<1>8. writers' \in [VirtualPeers -> Nat] /\ conns[i].state # "closed"
  BY <1>1 DEF WayInv, PortShapes
<1>. QED  BY <1>1, <1>4, <1>6, <1>7, <1>8, WayConn

\* The read loop ends: the channel that goes out of writers is its own.
LEMMA WayConnEnd ==
    ASSUME WayInv, NEW i \in DOMAIN conns, ConnEnd(i)
    PROVE  WayInv'
<1>. DEFINE x == [conns[i] EXCEPT !.state = "closed", !.chan = <<>>]
            p == conns[i].peer
<1>1. /\ conns[i].state = "open" /\ conns' = [conns EXCEPT ![i] = x]
      /\ writers' = [writers EXCEPT ![p] = NoConn]
      /\ UNCHANGED <<todo, sends, status, peer, retrans, nextPort, received>>
  <2>1. conns' = [conns EXCEPT ![i].state = "closed", ![i].chan = <<>>]
    BY DEF ConnEnd
  <2>2. conns' = [conns EXCEPT ![i] = x]
    <3>1. conns \in Seq(Connections) /\ conns[i] \in Connections
      BY ConnParts DEF WayInv, ChanOwn
    <3>. QED  BY <2>1, <3>1 DEF Connections
  <2>. QED  BY <2>2 DEF ConnEnd, Removed, linkVars, sessionVars
<1>2. /\ i \in Nat /\ i # NoConn /\ conns[i] \in Connections /\ p \in VirtualPeers /\ ChanOwn
  BY ConnParts DEF WayInv
<1>3. /\ x \in Connections /\ x.owner = conns[i].owner /\ x.peer = p
      /\ x.state = "closed" /\ x.chan \in Seq(Own(x.owner))
  <2>1. PICK none : none = <<>>
    OBVIOUS
  <2>2. none \in Seq(Packets) /\ none \in Seq(Own(conns[i].owner))
    BY <2>1
  <2>3. x = [conns[i] EXCEPT !.state = "closed", !.chan = none]
    BY <2>1
  <2>. HIDE DEF x, p
  <2>4. x \in Connections
    BY <1>2, <2>2, <2>3 DEF Connections
  <2>5. /\ x.owner = conns[i].owner /\ x.peer = conns[i].peer /\ x.state = "closed"
        /\ x.chan = none
    BY <1>2, <2>3 DEF Connections
  <2>. QED  BY <2>2, <2>4, <2>5 DEF p
<1>. HIDE DEF x
<1>4. /\ DOMAIN conns' = DOMAIN conns /\ conns'[i] = x
      /\ \A j \in DOMAIN conns : /\ j # i => conns'[j] = conns[j]
                                 /\ conns'[j].peer = conns[j].peer
  BY <1>1, <1>2, <1>3, ConnReplaced
<1>5. /\ writers' \in [VirtualPeers -> Nat] /\ writers'[p] = NoConn
      /\ \A q \in VirtualPeers : q # p => writers'[q] = writers[q]
  BY <1>1, <1>2 DEF WayInv, PortShapes, NoConn
<1>6. \A j \in DOMAIN conns : j # i /\ conns[j].peer = p => conns[j].state = "closed"
  BY <1>1 DEF WayInv, Agree, Distinct
<1>7. \A j \in DOMAIN conns : conns[j].peer \in VirtualPeers /\ j # NoConn
  BY <1>2, ConnParts
<1>8. WritersMatch'
  <2>1. ASSUME NEW j \in DOMAIN conns
        PROVE  conns'[j].state = "open" <=> writers'[conns'[j].peer] = j
    <3>1. CASE j = i
      BY <1>3, <1>4, <1>5, <1>7, <3>1
    <3>2. CASE j # i /\ conns[j].peer = p
      BY <1>4, <1>5, <1>6, <1>7, <3>2
    <3>3. CASE j # i /\ conns[j].peer # p
      BY <1>4, <1>5, <1>7, <3>3 DEF WayInv, Agree, WritersMatch
    <3>. QED  BY <3>1, <3>2, <3>3
  <2>. QED  BY <1>4, <2>1 DEF WritersMatch
<1>9. WritersKnown'
  BY <1>4, <1>5 DEF WayInv, Agree, WritersKnown
<1>10. ReceivedOwn' /\ conns[i].state # "closed"
  BY <1>1 DEF WayInv, ReceivedOwn
<1>. HIDE DEF p
<1>. QED  BY <1>1, <1>2, <1>3, <1>5, <1>8, <1>9, <1>10, WayConn DEF p

LEMMA DownNext == DownInv /\ PortsFree /\ [Next]_vars => DownInv'
<1>. SUFFICES ASSUME StreamInv, WayInv, PortsFree, [Next]_vars PROVE StreamInv' /\ WayInv'
  BY DEF DownInv
<1>1. StreamInv'
  BY StreamNext
<1>2. CASE \/ \E f \in Script : Write(f)
           \/ \E n \in 1 .. ChunkLen : ReadChunk(n)
           \/ LinkBreak \/ Tick \/ UNCHANGED vars
  <2>1. UNCHANGED <<status, peer, retrans, nextPort, conns, writers, received, sends>>
        /\ (todo' = todo \/ todo' = <<>>)
    BY <1>2 DEF Write, ReadChunk, LinkBreak, Tick, vars, linkVars, sessionVars, connVars
  <2>2. todo' \in Seq(Sends)
    <3>1. todo \in Seq(Sends) /\ <<>> \in Seq(Sends)
      BY DEF WayInv, SessionShapes
    <3>. QED  BY <2>1, <3>1
  <2>. QED  BY <1>1, <2>1, <2>2, WayQuiet
<1>3. CASE HandleLogicFrame
  BY <1>1, <1>3, WayHandle
<1>4. CASE SendOutbound
  BY <1>1, <1>4, WaySend
<1>5. CASE \E c \in Clients : MaintainReliable(c) \/ ReceiveUdp(c) \/ Maintain(c)
  BY <1>1, <1>5, WayMaintainReliable, WayReceiveUdp, WayMaintain
<1>6. CASE \E c \in Clients, k \in Kinds : Accept(c, k)
  BY <1>1, <1>6, WayAccept
<1>7. CASE \E i \in DOMAIN conns : Connection(i)
  BY <1>1, <1>7, WayConnStart, WayUpgradeFails, WayConnRead, WayConnWrite, WayConnEnd
     DEF Connection
<1>8. WayInv'
  BY <1>2, <1>3, <1>4, <1>5, <1>6, <1>7, Zenon DEF Next
<1>. QED  BY <1>1, <1>8

LEMMA DownInit == Init => DownInv
  BY StreamInit, WayInit DEF DownInv

LEMMA DownHolds == DownInv => WritersMatch /\ OwnTraffic
  BY DEF DownInv, WayInv, Agree, ReceivedOwn, Own, OwnTraffic

\* As long as next_port gives no number that is in use, a connection is in
\* writers, under its own peer, exactly from its start to its end (conn_loop
\* of tcp.rs and ws.rs inserts and removes by the peer alone).
THEOREM ConnectionsMatch == Spec /\ []PortsFree => []WritersMatch
<1>1. Init => DownInv
  BY DownInit
<1>2. DownInv /\ PortsFree /\ [Next]_vars => DownInv'
  BY DownNext
<1>3. DownInv => WritersMatch
  BY DownHolds
<1>. QED  BY <1>1, <1>2, <1>3, PTL DEF Spec

\* As long as next_port gives no number that is in use, nobody is sent what was
\* meant for another, whatever addresses the sessions keep (dispatch_send).
THEOREM TrafficIsOwn == Spec /\ []PortsFree => []OwnTraffic
<1>1. Init => DownInv
  BY DownInit
<1>2. DownInv /\ PortsFree /\ [Next]_vars => DownInv'
  BY DownNext
<1>3. DownInv => OwnTraffic
  BY DownHolds
<1>. QED  BY <1>1, <1>2, <1>3, PTL DEF Spec
-----------------------------------------------------------------------------
(* Fewer connections than numbers.                                         *)

FreshInv == DownInv /\ FreshPorts /\ PeerKnown

LEMMA FreshFree ==
    ASSUME FreshInv
    PROVE  PortsFree
<1>. SUFFICES ASSUME Len(conns) < MaxConns, NEW k \in Kinds
              PROVE  /\ \A i \in DOMAIN conns : conns[i].peer # NewPeer(k)
                     /\ \A c \in Clients : peer[c] # NewPeer(k)
  BY DEF PortsFree
<1>1. nextPort[k] \in Nat /\ NewPeer(k) = <<k, nextPort[k]>>
  BY Constants DEF FreshInv, DownInv, WayInv, PortShapes, NewPeer
<1>2. \A i \in DOMAIN conns : conns[i].peer # NewPeer(k)
  <2>. SUFFICES ASSUME NEW i \in DOMAIN conns, conns[i].peer = NewPeer(k) PROVE FALSE
    OBVIOUS
  <2>1. conns[i].peer[1] = k /\ conns[i].peer[2] = nextPort[k]
    BY <1>1
  <2>. QED  BY <1>1, <2>1 DEF FreshInv, FreshPorts
<1>3. \A c \in Clients : UdpPeer(c) # NewPeer(k)
  BY <1>1, Constants DEF UdpPeer
<1>. QED  BY <1>2, <1>3 DEF FreshInv, PeerKnown

\* Steps that accept no connection.
LEMMA FreshKept ==
    ASSUME FreshInv, nextPort' = nextPort, Len(conns') = Len(conns),
           DOMAIN conns' = DOMAIN conns,
           \A i \in DOMAIN conns : conns'[i].peer = conns[i].peer,
           \A c \in Clients :
               \/ peer'[c] = peer[c] \/ peer'[c] = UdpPeer(c)
               \/ \E i \in DOMAIN conns : peer'[c] = conns[i].peer
    PROVE  FreshPorts' /\ PeerKnown'
<1>1. FreshPorts'
  BY DEF FreshInv, FreshPorts
<1>2. PeerKnown'
  <2>. SUFFICES ASSUME NEW c \in Clients
                PROVE  \/ peer'[c] = UdpPeer(c)
                       \/ \E i \in DOMAIN conns : peer'[c] = conns'[i].peer
    BY DEF PeerKnown
  <2>1. peer[c] = UdpPeer(c) \/ \E i \in DOMAIN conns : peer[c] = conns[i].peer
    BY DEF FreshInv, PeerKnown
  <2>. QED  BY <2>1
<1>. QED  BY <1>1, <1>2

\* A connection is accepted: next_port goes on by one.
LEMMA FreshAccept ==
    ASSUME FreshInv, MaxConns <= PortMod, NEW c \in Clients, NEW k \in Kinds, Accept(c, k)
    PROVE  FreshPorts' /\ PeerKnown'
<1>. DEFINE n == Len(conns) + 1
            x == [owner |-> c, peer |-> NewPeer(k), chan |-> <<>>, state |-> "accepted"]
<1>1. /\ Len(conns) < MaxConns /\ conns' = Append(conns, x) /\ peer' = peer
      /\ nextPort' = [nextPort EXCEPT ![k] = (@ + 1) % PortMod]
  BY DEF Accept, sessionVars
<1>2. /\ nextPort \in [Kinds -> 0 .. PortMod - 1] /\ conns \in Seq(Connections)
  BY DEF FreshInv, DownInv, WayInv, PortShapes, ChanOwn
<1>3. x.peer = <<k, nextPort[k]>> /\ x.peer[1] = k /\ x.peer[2] = nextPort[k]
  BY DEF NewPeer
<1>. HIDE DEF x
<1>4. PICK new : new = conns'
  OBVIOUS
<1>5. /\ DOMAIN new = DOMAIN conns \cup {n} /\ new[n] = x /\ Len(new) = n
      /\ n \notin DOMAIN conns /\ Len(conns) \in Nat
      /\ \A i \in DOMAIN conns : new[i] = conns[i]
  BY <1>1, <1>2, <1>4
<1>6. PeerKnown'
  <2>1. \A d \in Clients :
            peer[d] = UdpPeer(d) \/ \E i \in DOMAIN new : peer[d] = new[i].peer
    BY <1>5 DEF FreshInv, PeerKnown
  <2>. QED  BY <1>1, <1>4, <2>1 DEF PeerKnown
<1>7. FreshPorts'
  <2>. DEFINE Fresh(l, q, p, s) ==
           IF p[s] # 0
           THEN /\ p[s] <= l + 1
                /\ \A i \in DOMAIN q : q[i].peer[1] = s => q[i].peer[2] \in 1 .. p[s] - 1
           ELSE /\ l + 1 >= PortMod
                /\ \A i \in DOMAIN q : q[i].peer[1] = s => q[i].peer[2] # 0
  <2>1. \A s \in Kinds : Fresh(Len(conns), conns, nextPort, s)
    BY <1>1 DEF FreshInv, FreshPorts
  <2>. SUFFICES ASSUME n < MaxConns, NEW s \in Kinds
                PROVE  Fresh(n, new, nextPort', s)
    BY <1>4, <1>5 DEF FreshPorts
  <2>2. PortMod \in Nat \ {0} /\ MaxConns \in Nat /\ n < PortMod
    BY <1>5, Constants
  <2>3. CASE s # k
    <3>1. nextPort'[s] = nextPort[s] /\ nextPort[s] \in Nat
      BY <1>1, <1>2, <2>3, Constants
    <3>2. \A i \in DOMAIN new : new[i].peer[1] = s => i \in DOMAIN conns
      BY <1>3, <1>5, <2>3
    <3>. QED  BY <1>5, <2>1, <2>2, <3>1, <3>2
  <2>4. CASE s = k
    <3>. DEFINE p == nextPort[k]
    <3>1. p \in Nat /\ p < PortMod /\ nextPort'[k] = (p + 1) % PortMod
      BY <1>1, <1>2, Constants
    <3>2. Fresh(Len(conns), conns, nextPort, k)
      BY <2>1
    <3>. HIDE DEF n
    <3>3. n = Len(conns) + 1 /\ n \in Nat /\ Len(conns) \in Nat
      BY <1>5 DEF n
    <3>4. p # 0 /\ p <= Len(conns) + 1
      BY <2>2, <3>1, <3>2, <3>3
    <3>5. \A i \in DOMAIN conns : conns[i].peer[1] = k => conns[i].peer[2] \in 1 .. p - 1
      BY <3>2, <3>4
    <3>6. x.peer[1] = k /\ x.peer[2] = p
      BY <1>3
    <3>. HIDE DEF p, Fresh
    <3>7. \A i \in DOMAIN new : new[i].peer[1] = k => new[i].peer[2] \in 1 .. p
      <4>. SUFFICES ASSUME NEW i \in DOMAIN new, new[i].peer[1] = k
                    PROVE  new[i].peer[2] \in 1 .. p
        OBVIOUS
      <4>1. CASE i \in DOMAIN conns
        <5>1. new[i] = conns[i]
          BY <1>5, <4>1
        <5>2. conns[i].peer[2] \in 1 .. p - 1
          BY <3>5, <4>1, <5>1
        <5>. QED  BY <3>1, <5>1, <5>2
      <4>2. CASE i = n
        <5>1. new[i].peer[2] = p
          BY <1>5, <3>6, <4>2
        <5>. QED  BY <3>1, <3>4, <5>1
      <4>. QED  BY <1>5, <4>1, <4>2
    <3>8. CASE p + 1 < PortMod
      <4>1. nextPort'[k] = p + 1
        BY <2>2, <3>1, <3>8
      <4>. QED  BY <2>4, <3>1, <3>3, <3>4, <3>7, <4>1 DEF Fresh
    <3>9. CASE p + 1 = PortMod
      <4>1. nextPort'[k] = 0
        BY <2>2, <3>1, <3>9
      <4>2. \A i \in DOMAIN new : new[i].peer[1] = k => new[i].peer[2] # 0
        BY <3>7
      <4>3. n + 1 >= PortMod
        BY <2>2, <3>1, <3>3, <3>4, <3>9
      <4>. QED  BY <2>4, <4>1, <4>2, <4>3 DEF Fresh
    <3>. QED  BY <2>2, <3>1, <3>8, <3>9
  <2>. QED  BY <2>3, <2>4
<1>. QED  BY <1>6, <1>7

LEMMA FreshNext ==
    ASSUME FreshInv, MaxConns <= PortMod, [Next]_vars
    PROVE  FreshInv'
<1>1. DownInv'
  BY FreshFree, DownNext DEF FreshInv
<1>2. SUFFICES FreshPorts' /\ PeerKnown'
  BY <1>1 DEF FreshInv
<1>3. WayInv /\ ChanOwn /\ conns \in Seq(Connections)
  BY DEF FreshInv, DownInv, WayInv, ChanOwn
<1>4. CASE \E c \in Clients, k \in Kinds : Accept(c, k)
  BY <1>4, FreshAccept
<1>5. CASE /\ UNCHANGED <<nextPort, conns>>
           /\ \A c \in Clients :
                \/ peer'[c] = peer[c] \/ peer'[c] = UdpPeer(c)
                \/ \E i \in DOMAIN conns : peer'[c] = conns[i].peer
  BY <1>5, FreshKept
<1>6. CASE \/ \E f \in Script : Write(f)
           \/ \E n \in 1 .. ChunkLen : ReadChunk(n)
           \/ LinkBreak \/ Tick \/ HandleLogicFrame \/ UNCHANGED vars
  <2>1. UNCHANGED <<nextPort, conns, peer>>
    BY <1>6 DEF Write, ReadChunk, LinkBreak, Tick, HandleLogicFrame, Kick, SetBudget,
                vars, sessionVars, connVars
  <2>. QED  BY <1>5, <2>1
<1>7. CASE \E c \in Clients : MaintainReliable(c) \/ ReceiveUdp(c) \/ Maintain(c)
  <2>1. UNCHANGED <<nextPort, conns>>
    BY <1>7 DEF MaintainReliable, ReceiveUdp, HandleDatagram, Maintain, connVars
  <2>2. \A c \in Clients : peer'[c] = peer[c] \/ peer'[c] = UdpPeer(c)
    <3>1. peer \in [Clients -> Peers]
      BY <1>3 DEF WayInv, SessionShapes
    <3>. QED  BY <1>7, <3>1 DEF MaintainReliable, ReceiveUdp, HandleDatagram, Maintain,
                                sessionVars
  <2>. QED  BY <1>5, <2>1, <2>2
<1>8. CASE SendOutbound
  <2>1. UNCHANGED <<nextPort, peer>>
    BY <1>8 DEF SendOutbound
  <2>2. conns' = conns \/ \E i \in DOMAIN conns : \E q :
                            conns' = [conns EXCEPT ![i] = [conns[i] EXCEPT !.chan = q]]
    <3>1. PICK m : m = Head(todo)
      OBVIOUS
    <3>2. conns' = conns \/ Dispatch(Packed(m), peer[m.to])
      BY <1>8, <3>1 DEF SendOutbound
    <3>3. CASE conns' = conns
      BY <3>3
    <3>4. CASE Dispatch(Packed(m), peer[m.to]) /\ conns' # conns
      <4>. DEFINE i == writers[peer[m.to]]
                  q == TrySend(conns[i].chan, Packed(m))
      <4>1. IsVirtual(peer[m.to]) /\ i # NoConn
        BY <3>4 DEF Dispatch
      <4>2. conns' = [conns EXCEPT ![i] = [conns[i] EXCEPT !.chan = q]]
        BY <3>4, <4>1 DEF Dispatch
      <4>3. i \in DOMAIN conns
        BY <1>3, <4>1 DEF WayInv, Agree, WritersKnown, IsVirtual
      <4>. HIDE DEF i, q
      <4>. QED  BY <4>2, <4>3
    <3>. QED  BY <3>2, <3>3, <3>4
  <2>3. CASE conns' = conns
    BY <1>5, <2>1, <2>3
  <2>4. CASE \E i \in DOMAIN conns : \E q :
               conns' = [conns EXCEPT ![i] = [conns[i] EXCEPT !.chan = q]]
    <3>1. PICK i \in DOMAIN conns :
             \E q : conns' = [conns EXCEPT ![i] = [conns[i] EXCEPT !.chan = q]]
      BY <2>4
    <3>6. PICK q : conns' = [conns EXCEPT ![i] = [conns[i] EXCEPT !.chan = q]]
      BY <3>1
    <3>. DEFINE x == [conns[i] EXCEPT !.chan = q]
    <3>2. x.peer = conns[i].peer
      BY <1>3 DEF Connections
    <3>3. conns' = [conns EXCEPT ![i] = x]
      BY <3>6
    <3>. HIDE DEF x
    <3>4. PICK new : new = conns'
      OBVIOUS
    <3>5. /\ Len(new) = Len(conns) /\ DOMAIN new = DOMAIN conns
          /\ \A j \in DOMAIN conns : new[j].peer = conns[j].peer
      BY <1>3, <3>2, <3>3, <3>4
    <3>. QED  BY <2>1, <3>4, <3>5, FreshKept
  <2>. QED  BY <2>2, <2>3, <2>4
<1>9. CASE \E i \in DOMAIN conns : ConnRead(i)
  <2>1. PICK i \in DOMAIN conns : ConnRead(i)
    BY <1>9
  <2>2. /\ UNCHANGED <<nextPort, conns>>
        /\ peer' = [peer EXCEPT ![conns[i].owner] =
                      IF status[conns[i].owner] = "gone" THEN @ ELSE conns[i].peer]
    BY <2>1 DEF ConnRead, HandleDatagram, connVars
  <2>3. peer \in [Clients -> Peers]
    BY <1>3 DEF WayInv, SessionShapes
  <2>4. \A c \in Clients : peer'[c] = peer[c] \/ peer'[c] = conns[i].peer
    BY <2>2, <2>3
  <2>. QED  BY <1>5, <2>2, <2>4
<1>10. CASE \E i \in DOMAIN conns :
              ConnStart(i) \/ UpgradeFails(i) \/ ConnWrite(i) \/ ConnEnd(i)
  <2>1. PICK i \in DOMAIN conns :
           ConnStart(i) \/ UpgradeFails(i) \/ ConnWrite(i) \/ ConnEnd(i)
    BY <1>10
  <2>2. UNCHANGED <<nextPort, peer>>
    BY <2>1 DEF ConnStart, UpgradeFails, ConnWrite, ConnEnd, sessionVars
  <2>3. conns[i] \in Connections
    BY <1>3
  <2>4. PICK x : x.peer = conns[i].peer /\ conns' = [conns EXCEPT ![i] = x]
    <3>1. CASE ConnStart(i)
      <4>. DEFINE x == [conns[i] EXCEPT !.state = "open"]
      <4>1. x.peer = conns[i].peer /\ conns' = [conns EXCEPT ![i] = x]
        BY <2>3, <3>1 DEF ConnStart, Connections
      <4>. QED  BY <4>1
    <3>2. CASE UpgradeFails(i)
      <4>. DEFINE x == [conns[i] EXCEPT !.state = "closed"]
      <4>1. x.peer = conns[i].peer /\ conns' = [conns EXCEPT ![i] = x]
        BY <2>3, <3>2 DEF UpgradeFails, Connections
      <4>. QED  BY <4>1
    <3>3. CASE ConnWrite(i)
      <4>. DEFINE x == [conns[i] EXCEPT !.chan = Tail(@)]
      <4>1. x.peer = conns[i].peer /\ conns' = [conns EXCEPT ![i] = x]
        BY <2>3, <3>3 DEF ConnWrite, Connections
      <4>. QED  BY <4>1
    <3>4. CASE ConnEnd(i)
      <4>. DEFINE x == [conns[i] EXCEPT !.state = "closed", !.chan = <<>>]
      <4>1. x.peer = conns[i].peer
        BY <2>3 DEF Connections
      <4>2. conns' = [conns EXCEPT ![i] = x]
        BY <1>3, <2>3, <3>4 DEF ConnEnd, Connections
      <4>. QED  BY <4>1, <4>2
    <3>. QED  BY <2>1, <3>1, <3>2, <3>3, <3>4
  <2>5. PICK new : new = conns'
    OBVIOUS
  <2>6. /\ Len(new) = Len(conns) /\ DOMAIN new = DOMAIN conns
        /\ \A j \in DOMAIN conns : new[j].peer = conns[j].peer
    BY <1>3, <2>4, <2>5
  <2>. QED  BY <2>2, <2>5, <2>6, FreshKept
<1>. QED  BY <1>4, <1>6, <1>7, <1>8, <1>9, <1>10, Zenon DEF Next, Connection

LEMMA FreshInit == Init => FreshInv
<1>. SUFFICES ASSUME Init PROVE FreshPorts /\ PeerKnown
  BY DownInit DEF FreshInv
<1>1. /\ conns = <<>> /\ nextPort = [k \in Kinds |-> 1 % PortMod]
      /\ peer = [c \in Clients |-> UdpPeer(c)]
  BY DEF Init
<1>2. PeerKnown
  BY <1>1 DEF PeerKnown
<1>3. FreshPorts
  <2>1. CASE PortMod = 1
    <3>1. 1 % PortMod = 0
      BY <2>1
    <3>. QED  BY <1>1, <2>1, <3>1 DEF FreshPorts
  <2>2. CASE PortMod # 1
    <3>1. 1 % PortMod = 1
      BY <2>2, Constants
    <3>. QED  BY <1>1, <3>1 DEF FreshPorts
  <2>. QED  BY <2>1, <2>2
<1>. QED  BY <1>2, <1>3

\* An engine that has accepted no more connections of its transports than there
\* are numbers (65536) has every connection in writers and sends nobody
\* another's traffic, without any condition on its clients.
THEOREM EnoughPorts == (MaxConns <= PortMod) /\ Spec => [](WritersMatch /\ OwnTraffic)
<1>1. Init => FreshInv
  BY FreshInit
<1>2. (MaxConns <= PortMod) /\ FreshInv /\ [Next]_vars => FreshInv'
  BY FreshNext
<1>3. FreshInv => WritersMatch /\ OwnTraffic
  BY DownHolds DEF FreshInv
<1>4. CASE MaxConns <= PortMod
  <2>1. FreshInv /\ [Next]_vars => FreshInv'
    BY <1>2, <1>4
  <2>. QED  BY <1>1, <1>3, <2>1, PTL DEF Spec
<1>5. CASE ~(MaxConns <= PortMod)
  BY <1>5
<1>. QED  BY <1>4, <1>5
-----------------------------------------------------------------------------
(* Types.                                                                  *)

LinkTypes == todo \in Seq(Sends) /\ breaks \in 0 .. MaxBreaks

SessionTypes ==
    /\ status \in [Clients -> {"none", "active", "grace", "gone"}]
    /\ peer \in [Clients -> Peers]
    /\ budget \in [Clients -> Nat \cup {NoBudget}]

QueueTypes ==
    /\ retrans \in [Clients -> [Reliable -> Seq(Packets)]]
    /\ \A c \in Clients, ch \in Reliable : Len(retrans[c][ch]) <= QueueCap

BudgetTypes ==
    /\ window \in [Clients -> Seq([at : Nat, bytes : Nat])]
    /\ allowed \in [Clients -> Seq([at : Nat, bytes : Nat, limit : Nat])]

ConnTypes ==
    /\ conns \in Seq(Connections) /\ Len(conns) <= MaxConns
    /\ \A i \in DOMAIN conns : Len(conns[i].chan) <= ChanCap

WriterTypes ==
    /\ nextPort \in [Kinds -> 0 .. PortMod - 1]
    /\ writers \in [VirtualPeers -> Nat]
    /\ \A p \in VirtualPeers : writers[p] \in DOMAIN conns \cup {NoConn}

HistoryTypes ==
    received \in [Clients -> SUBSET Packets] /\ sends \in Nat /\ now \in 0 .. MaxTime

LEMMA TypeParts ==
    TypeOK <=> /\ LinkShapes /\ LinkTypes /\ SessionTypes /\ QueueTypes
               /\ BudgetTypes /\ ConnTypes /\ WriterTypes /\ HistoryTypes
  BY DEF TypeOK, LinkShapes, LinkTypes, SessionTypes, QueueTypes, BudgetTypes,
         ConnTypes, WriterTypes, HistoryTypes, Bytewise

LEMMA InitTypes == Init => TypeOK
<1>. SUFFICES ASSUME Init PROVE TypeOK
  OBVIOUS
<1>1. /\ status = [c \in Clients |-> "none"] /\ peer = [c \in Clients |-> UdpPeer(c)]
      /\ retrans = [c \in Clients |-> NoPackets]
      /\ budget = [c \in Clients |-> NoBudget]
      /\ window = [c \in Clients |-> <<>>] /\ allowed = [c \in Clients |-> <<>>]
      /\ nextPort = [k \in Kinds |-> 1 % PortMod]
      /\ conns = <<>> /\ writers = [p \in VirtualPeers |-> NoConn]
      /\ received = [c \in Clients |-> {}] /\ sends = 0 /\ now = 0
      /\ todo = <<>> /\ breaks = 0
  BY DEF Init
<1>2. LinkShapes
  BY StreamInit DEF StreamInv
<1>3. LinkTypes
  BY <1>1, Constants DEF LinkTypes
<1>4. SessionTypes
  BY <1>1 DEF SessionTypes, Peers
<1>5. QueueTypes
  BY <1>1, Constants DEF QueueTypes, NoPackets
<1>6. BudgetTypes
  BY <1>1 DEF BudgetTypes
<1>7. ConnTypes
  BY <1>1, Constants DEF ConnTypes
<1>8. WriterTypes
  <2>1. 1 % PortMod \in 0 .. PortMod - 1
    BY Constants
  <2>2. nextPort \in [Kinds -> 0 .. PortMod - 1]
    BY <1>1, <2>1
  <2>3. writers \in [VirtualPeers -> Nat] /\ \A p \in VirtualPeers : writers[p] = NoConn
    BY <1>1 DEF NoConn
  <2>. QED  BY <2>2, <2>3 DEF WriterTypes
<1>9. HistoryTypes
  BY <1>1, DownlinkAssumption DEF HistoryTypes
<1>. QED  BY <1>2, <1>3, <1>4, <1>5, <1>6, <1>7, <1>8, <1>9, TypeParts

\* What the sender packs goes into a queue as far as there is room.
LEMMA PackTypes ==
    ASSUME QueueTypes, HistoryTypes, NEW m \in Sends, PackOutbound(m)
    PROVE  QueueTypes'
<1>1. CASE ~(Packs(m) /\ m.ch \in Reliable)
  BY <1>1 DEF PackOutbound, QueueTypes
<1>2. CASE Packs(m) /\ m.ch \in Reliable
  <2>. DEFINE q == retrans[m.to][m.ch]
              n == Pushed(m)
              front == SubSeq(Packed(m), 1, n)
  <2>1. m.to \in Clients /\ sends \in Nat
    BY DEF Sends, HistoryTypes
  <2>2. q \in Seq(Packets) /\ Len(q) \in Nat /\ Len(q) <= QueueCap
    BY <1>2, <2>1 DEF QueueTypes
  <2>3. Parts(m) \in Nat /\ Packed(m) \in Seq(Packets) /\ Len(Packed(m)) = Parts(m)
    <3>1. Packed(m) \in Seq(Own(m.to)) /\ Own(m.to) \subseteq Packets
      BY <1>2, <2>1, PackedOwn DEF Packs, Own
    <3>2. Packed(m) \in Seq(Packets)
      <4>. DEFINE pk == Packed(m)
      <4>1. pk \in Seq(Own(m.to))
        BY <3>1
      <4>. HIDE DEF pk
      <4>2. pk \in Seq(Packets)
        BY <3>1, <4>1
      <4>. QED  BY <4>2 DEF pk
    <3>. QED  BY <1>2, <2>1, <3>2, PackedOwn DEF Packs
  <2>4. n \in Nat /\ n <= Parts(m) /\ n <= QueueCap - Len(q)
    <3>1. n = Min({Parts(m), QueueCap - Len(q)})
      BY <1>2 DEF Pushed
    <3>2. QueueCap - Len(q) \in Nat /\ Parts(m) \in Nat
      BY <2>2, <2>3, Constants
    <3>. DEFINE room == QueueCap - Len(q)
    <3>3. room \in Int /\ Parts(m) \in Int
      BY <3>2
    <3>. HIDE DEF room
    <3>4. /\ Min({Parts(m), room}) \in {Parts(m), room}
          /\ Min({Parts(m), room}) <= Parts(m) /\ Min({Parts(m), room}) <= room
      BY ONLY <3>3, MinTwo
    <3>. QED  BY <3>1, <3>2, <3>3, <3>4 DEF room
  <2>5. front \in Seq(Packets) /\ Len(front) = n
    <3>. HIDE DEF n
    <3>1. n \in Int /\ n <= Len(Packed(m)) /\ n >= 0
      BY <2>3, <2>4
    <3>. QED  BY <2>3, <3>1, FrontIn
  <2>6. retrans' = [retrans EXCEPT ![m.to][m.ch] = q \o front]
    BY <1>2 DEF PackOutbound
  <2>. HIDE DEF q, n, front
  <2>7. q \o front \in Seq(Packets) /\ Len(q \o front) <= QueueCap
    BY <2>2, <2>4, <2>5, Constants
  <2>. QED  BY <1>2, <2>1, <2>6, <2>7 DEF QueueTypes
<1>. QED  BY <1>1, <1>2

\* What check_budget keeps of its records: those from the first young one on.
LEMMA RecentIs ==
    ASSUME BudgetTypes, now \in Nat, NEW c \in Clients
    PROVE  \E k \in 1 .. Len(window[c]) + 1 :
              /\ Recent(c) = SubSeq(window[c], k, Len(window[c]))
              /\ Recent(c) \in Seq([at : Nat, bytes : Nat])
              /\ Len(Recent(c)) = Len(window[c]) - k + 1
              /\ \A i \in 1 .. k - 1 : ~(now - window[c][i].at < Second)
<1>. DEFINE w == window[c]
            young == {i \in DOMAIN w : now - w[i].at < Second}
            S == young \cup {Len(w) + 1}
            k == Min(S)
<1>1. w \in Seq([at : Nat, bytes : Nat])
  BY DEF BudgetTypes
<1>2. Recent(c) = SubSeq(w, k, Len(w))
  BY DEF Recent
<1>. HIDE DEF w
<1>3. DOMAIN w = 1 .. Len(w) /\ Len(w) \in Nat
  BY <1>1
<1>4. S \in SUBSET Nat /\ S # {} /\ \A x \in S : x \in 1 .. Len(w) + 1
  BY <1>3
<1>. HIDE DEF S
<1>5. k \in S /\ \A x \in S : k <= x
  BY <1>4, MinNat
<1>6. k \in 1 .. Len(w) + 1
  BY <1>4, <1>5
<1>. HIDE DEF k
<1>7. ASSUME NEW i \in 1 .. k - 1 PROVE ~(now - w[i].at < Second)
  <2>1. i \in DOMAIN w /\ i < k
    BY <1>3, <1>6
  <2>2. i \notin S
    BY <1>5, <1>6, <2>1
  <2>. QED  BY <2>1, <2>2 DEF S
<1>8. /\ SubSeq(w, k, Len(w)) \in Seq([at : Nat, bytes : Nat])
      /\ Len(SubSeq(w, k, Len(w))) = Len(w) - k + 1
  <2>1. k \in 1 .. Len(w) + 1 /\ Len(w) \in Int /\ Len(w) <= Len(w) /\ k <= Len(w) + 1
    BY <1>3, <1>6
  <2>. QED  BY <1>1, <2>1, Cut
<1>. QED  BY <1>2, <1>6, <1>7, <1>8 DEF w

\* The numbers of a message.
LEMMA MessageSize ==
    ASSUME NEW m \in Sends
    PROVE  m.to \in Clients /\ Parts(m) \in Nat /\ Bytes(m) \in Nat
<1>1. m.to \in Clients /\ m.size \in Nat
  BY DEF Sends
<1>2. Parts(m) \in Nat
  <2>1. m.size + Threshold - 1 \in Nat /\ Threshold \in Nat \ {0}
    BY <1>1, Constants
  <2>2. (m.size + Threshold - 1) \div Threshold \in Nat
    BY <2>1
  <2>. QED  BY <2>2 DEF Parts
<1>3. Overhead * Parts(m) \in Nat
  <2>1. Overhead \in Nat
    BY DownlinkAssumption
  <2>. QED  BY <1>2, <2>1
<1>. QED  BY <1>1, <1>2, <1>3 DEF Bytes

\* check_budget.
LEMMA CheckTypes ==
    ASSUME BudgetTypes, SessionTypes, HistoryTypes, NEW m \in Sends, CheckBudget(m)
    PROVE  BudgetTypes'
<1>1. m.to \in Clients /\ Bytes(m) \in Nat
  BY MessageSize
<1>2. now \in Nat
  BY DownlinkAssumption DEF HistoryTypes
<1>3. CASE budget[m.to] = NoBudget
  BY <1>3 DEF CheckBudget, BudgetTypes
<1>4. CASE budget[m.to] # NoBudget
  <2>. DEFINE rec == [at |-> now, bytes |-> Bytes(m)]
              lim == budget[m.to] * BytesPerKbps
              entry == [at |-> now, bytes |-> Bytes(m), limit |-> lim]
              more == IF InBudget(m) THEN <<rec>> ELSE <<>>
  <2>1. rec \in [at : Nat, bytes : Nat]
    BY <1>1, <1>2
  <2>2. entry \in [at : Nat, bytes : Nat, limit : Nat]
    <3>1. budget[m.to] \in Nat /\ BytesPerKbps \in Nat
      BY <1>1, <1>4, DownlinkAssumption DEF SessionTypes
    <3>2. lim \in Nat
      BY <3>1
    <3>. HIDE DEF lim
    <3>. QED  BY <1>1, <1>2, <3>2
  <2>3. Recent(m.to) \in Seq([at : Nat, bytes : Nat])
    BY <1>1, <1>2, RecentIs
  <2>4. more \in Seq([at : Nat, bytes : Nat])
    <3>1. CASE InBudget(m)
      <4>1. more = <<rec>>
        BY <3>1
      <4>. HIDE DEF rec, more
      <4>. QED  BY <2>1, <4>1
    <3>2. CASE ~InBudget(m)
      <4>1. more = <<>>
        BY <3>2
      <4>. HIDE DEF more
      <4>. QED  BY <4>1
    <3>. QED  BY <3>1, <3>2
  <2>5. /\ window' = [window EXCEPT ![m.to] = Recent(m.to) \o more]
        /\ allowed' = IF InBudget(m) THEN [allowed EXCEPT ![m.to] = Append(@, entry)]
                      ELSE allowed
    BY <1>4 DEF CheckBudget
  <2>. HIDE DEF more, entry
  <2>6. Recent(m.to) \o more \in Seq([at : Nat, bytes : Nat])
    BY <2>3, <2>4
  <2>7. Append(allowed[m.to], entry) \in Seq([at : Nat, bytes : Nat, limit : Nat])
    BY <1>1, <2>2 DEF BudgetTypes
  <2>. QED  BY <1>1, <2>5, <2>6, <2>7 DEF BudgetTypes
<1>. QED  BY <1>3, <1>4

\* A connection gets another form.
LEMMA ConnSet ==
    ASSUME ConnTypes, WriterTypes, NEW i \in DOMAIN conns, NEW x \in Connections,
           Len(x.chan) <= ChanCap, conns' = [conns EXCEPT ![i] = x]
    PROVE  ConnTypes' /\ DOMAIN conns' = DOMAIN conns
<1>1. /\ conns \in Seq(Connections) /\ Len(conns) <= MaxConns
      /\ \A j \in DOMAIN conns : Len(conns[j].chan) <= ChanCap
  BY DEF ConnTypes
<1>2. PICK new : new = conns'
  OBVIOUS
<1>3. /\ new \in Seq(Connections) /\ Len(new) = Len(conns) /\ DOMAIN new = DOMAIN conns
      /\ new[i] = x /\ \A j \in DOMAIN conns : j # i => new[j] = conns[j]
  <2>1. new = [conns EXCEPT ![i] = x]
    BY <1>2
  <2>. QED  BY <1>1, <2>1, ReplacedAt
<1>4. \A j \in DOMAIN new : Len(new[j].chan) <= ChanCap
  BY <1>1, <1>3
<1>. QED  BY <1>1, <1>2, <1>3, <1>4 DEF ConnTypes

\* The parts of a connection.
LEMMA ConnFields ==
    ASSUME ConnTypes, NEW i \in DOMAIN conns
    PROVE  /\ i \in Nat /\ conns[i] \in Connections
           /\ conns[i].owner \in Clients /\ conns[i].peer \in VirtualPeers
           /\ conns[i].chan \in Seq(Packets) /\ Len(conns[i].chan) <= ChanCap
<1>1. conns \in Seq(Connections) /\ Len(conns[i].chan) <= ChanCap
  BY DEF ConnTypes
<1>2. i \in 1 .. Len(conns) /\ Len(conns) \in Nat /\ conns[i] \in Connections
  BY <1>1
<1>3. i \in Nat
  BY <1>2
<1>. QED  BY <1>1, <1>2, <1>3 DEF Connections

LEMMA UdpTypes ==
    ASSUME HistoryTypes, NEW packets \in SUBSET Packets, NEW p, SendUdp(packets, p),
           UNCHANGED now, sends' \in Nat
    PROVE  HistoryTypes'
<1>1. CASE IsVirtual(p)
  BY <1>1 DEF SendUdp, HistoryTypes
<1>2. CASE ~IsVirtual(p)
  <2>1. PICK c \in Clients, got \in SUBSET packets :
           received' = [received EXCEPT ![c] = @ \cup got]
    BY <1>2 DEF SendUdp, Receive
  <2>. QED  BY <2>1 DEF HistoryTypes
<1>. QED  BY <1>1, <1>2

LEMMA DispatchTypes ==
    ASSUME HistoryTypes, ConnTypes, WriterTypes, NEW packets \in Seq(Packets), NEW p,
           Dispatch(packets, p), UNCHANGED <<now, nextPort, writers>>, sends' \in Nat
    PROVE  HistoryTypes' /\ ConnTypes' /\ WriterTypes'
<1>1. CASE ~IsVirtual(p)
  <2>1. SendUdp(ToSet(packets), p) /\ UNCHANGED conns
    BY <1>1 DEF Dispatch
  <2>2. ToSet(packets) \in SUBSET Packets
    BY DEF ToSet
  <2>3. HistoryTypes'
    BY <2>1, <2>2, UdpTypes
  <2>. QED  BY <2>1, <2>3 DEF ConnTypes, WriterTypes
<1>2. CASE IsVirtual(p)
  <2>1. received' = received
    BY <1>2 DEF Dispatch
  <2>2. HistoryTypes'
    BY <2>1 DEF HistoryTypes
  <2>3. CASE writers[p] = NoConn
    <3>1. conns' = conns
      BY <1>2, <2>3 DEF Dispatch
    <3>. QED  BY <2>2, <3>1 DEF ConnTypes, WriterTypes
  <2>4. CASE writers[p] # NoConn
    <3>. DEFINE i == writers[p]
                x == [conns[i] EXCEPT !.chan = TrySend(@, packets)]
    <3>1. conns' = [conns EXCEPT ![i] = x]
      BY <1>2, <2>4 DEF Dispatch
    <3>2. i \in DOMAIN conns
      BY <1>2, <2>4 DEF IsVirtual, WriterTypes
    <3>. HIDE DEF i
    <3>3. conns[i] \in Connections /\ conns[i].chan \in Seq(Packets)
      BY <3>2, ConnFields
    <3>4. /\ TrySend(conns[i].chan, packets) \in Seq(Packets)
          /\ Len(TrySend(conns[i].chan, packets)) <= ChanCap
      BY <3>3, TrySendIn
    <3>5. x \in Connections /\ Len(x.chan) <= ChanCap
      BY <3>3, <3>4 DEF Connections
    <3>. HIDE DEF x
    <3>6. ConnTypes' /\ DOMAIN conns' = DOMAIN conns
      BY <3>1, <3>2, <3>5, ConnSet
    <3>. QED  BY <2>2, <3>6 DEF WriterTypes
  <2>. QED  BY <2>3, <2>4
<1>. QED  BY <1>1, <1>2

\* One call of send_outbound.
LEMMA SendTypes ==
    ASSUME TypeOK, SendOutbound
    PROVE  /\ LinkTypes' /\ SessionTypes' /\ QueueTypes' /\ BudgetTypes'
           /\ ConnTypes' /\ WriterTypes' /\ HistoryTypes'
<1>. DEFINE m == Head(todo)
<1>1. /\ todo # <<>> /\ todo' = Tail(todo) /\ sends' = sends + 1 /\ PackOutbound(m)
      /\ IF PackOk(m) THEN CheckBudget(m) ELSE UNCHANGED <<window, allowed>>
      /\ IF PackOk(m) /\ InBudget(m) THEN Dispatch(Packed(m), peer[m.to])
         ELSE UNCHANGED <<conns, received>>
      /\ UNCHANGED <<breaks, status, peer, budget, nextPort, writers, now>>
  BY DEF SendOutbound
<1>2. /\ LinkTypes /\ SessionTypes /\ QueueTypes /\ BudgetTypes
      /\ ConnTypes /\ WriterTypes /\ HistoryTypes
  BY TypeParts
<1>3. todo \in Seq(Sends) /\ m \in Sends /\ Tail(todo) \in Seq(Sends) /\ sends \in Nat
  <2>1. todo \in Seq(Sends) /\ sends \in Nat
    BY <1>2 DEF LinkTypes, HistoryTypes
  <2>. QED  BY <1>1, <2>1, HeadTail
<1>. HIDE DEF m
<1>4. LinkTypes'
  BY <1>1, <1>2, <1>3 DEF LinkTypes
<1>5. SessionTypes'
  BY <1>1, <1>2 DEF SessionTypes
<1>6. QueueTypes'
  BY <1>1, <1>2, <1>3, PackTypes
<1>7. BudgetTypes'
  <2>1. CASE PackOk(m)
    BY <1>1, <1>2, <1>3, <2>1, CheckTypes
  <2>2. CASE ~PackOk(m)
    BY <1>1, <1>2, <2>2 DEF BudgetTypes
  <2>. QED  BY <2>1, <2>2
<1>8. HistoryTypes' /\ ConnTypes' /\ WriterTypes'
  <2>1. sends' \in Nat
    BY <1>1, <1>3
  <2>2. CASE PackOk(m) /\ InBudget(m)
    <3>1. Packed(m) \in Seq(Own(m.to)) /\ Own(m.to) \subseteq Packets
      BY <1>3, <2>2, PackedOwn DEF PackOk, Packs, Own
    <3>2. Packed(m) \in Seq(Packets)
      <4>. DEFINE pk == Packed(m)
      <4>1. pk \in Seq(Own(m.to))
        BY <3>1
      <4>. HIDE DEF pk
      <4>2. pk \in Seq(Packets)
        BY <3>1, <4>1
      <4>. QED  BY <4>2 DEF pk
    <3>. QED  BY <1>1, <1>2, <2>1, <2>2, <3>2, DispatchTypes
  <2>3. CASE ~(PackOk(m) /\ InBudget(m))
    <3>1. UNCHANGED <<conns, received>>
      BY <1>1, <2>3
    <3>. QED  BY <1>1, <1>2, <2>1, <3>1 DEF HistoryTypes, ConnTypes, WriterTypes
  <2>. QED  BY <2>2, <2>3
<1>. QED  BY <1>4, <1>5, <1>6, <1>7, <1>8

\* A frame of the logic server.
LEMMA HandleTypes ==
    ASSUME StreamInv, TypeOK, HandleLogicFrame
    PROVE  LinkTypes' /\ SessionTypes' /\ QueueTypes' /\ BudgetTypes'
<1>. DEFINE f == Decoded(readBuf)
<1>1. f \in Frames
  <2>1. HasFrame(readBuf)
    BY DEF HandleLogicFrame
  <2>2. f = written[Len(handled) + 1] /\ Len(handled) + 1 \in 1 .. Len(written)
    BY <2>1, DecodedIs
  <2>. QED  BY <2>2 DEF StreamInv, LinkShapes
<1>. HIDE DEF f
<1>2. LinkTypes /\ SessionTypes /\ QueueTypes /\ BudgetTypes
  BY TypeParts
<1>3. UNCHANGED <<breaks, allowed>>
  BY DEF HandleLogicFrame
<1>4. CASE /\ f.ty \in {"send", "multicast"}
           /\ todo' = [i \in DOMAIN f.to |->
                         [to |-> f.to[i], ch |-> f.ch, size |-> f.size]]
           /\ UNCHANGED sessionVars
  <2>1. todo' \in Seq(Sends)
    <3>1. f.to \in Seq(Clients) /\ f.ch \in Nat /\ f.size \in Nat
      BY <1>1 DEF Frames
    <3>2. /\ Len(f.to) \in Nat /\ DOMAIN f.to = 1 .. Len(f.to)
          /\ \A i \in 1 .. Len(f.to) :
               [to |-> f.to[i], ch |-> f.ch, size |-> f.size] \in Sends
      BY <3>1 DEF Sends
    <3>. QED  BY <1>4, <3>2
  <2>2. UNCHANGED <<status, peer, retrans, budget, window>>
    BY <1>4 DEF sessionVars
  <2>. QED  BY <1>2, <1>3, <2>1, <2>2
            DEF LinkTypes, SessionTypes, QueueTypes, BudgetTypes
<1>5. CASE f.ty = "kick" /\ Kick(f.to[1]) /\ UNCHANGED todo
  <2>. DEFINE k == f.to[1]
  <2>1. /\ status' = [status EXCEPT ![k] = IF InTable(k) THEN "gone" ELSE @]
        /\ retrans' = [retrans EXCEPT ![k] = NoPackets]
        /\ UNCHANGED <<peer, budget, window, todo>>
    BY <1>5 DEF Kick
  <2>. HIDE DEF k
  <2>2. LinkTypes' /\ BudgetTypes'
    BY <1>2, <1>3, <2>1 DEF LinkTypes, BudgetTypes
  <2>3. SessionTypes'
    BY <1>2, <2>1 DEF SessionTypes
  <2>4. NoPackets \in [Reliable -> Seq(Packets)] /\ \A ch \in Reliable : Len(NoPackets[ch]) = 0
    BY DEF NoPackets
  <2>5. QueueTypes'
    <3>1. /\ retrans \in [Clients -> [Reliable -> Seq(Packets)]]
          /\ \A c \in Clients, ch \in Reliable : Len(retrans[c][ch]) <= QueueCap
      BY <1>2 DEF QueueTypes
    <3>2. /\ retrans' \in [Clients -> [Reliable -> Seq(Packets)]]
          /\ \A c \in Clients : retrans'[c] = retrans[c] \/ retrans'[c] = NoPackets
      BY <2>1, <2>4, <3>1
    <3>3. 0 <= QueueCap
      BY Constants
    <3>. QED  BY <2>4, <3>1, <3>2, <3>3 DEF QueueTypes
  <2>. QED  BY <2>2, <2>3, <2>5
<1>6. CASE f.ty = "budget" /\ SetBudget(f.to[1], f.kbps) /\ UNCHANGED todo
  <2>. DEFINE k == f.to[1]
  <2>1. /\ budget' = [budget EXCEPT ![k] = IF InTable(k) THEN f.kbps ELSE @]
        /\ UNCHANGED <<status, peer, retrans, window, todo>>
    BY <1>6 DEF SetBudget
  <2>2. f.kbps \in Nat
    BY <1>1 DEF Frames
  <2>. HIDE DEF k
  <2>3. SessionTypes'
    BY <1>2, <2>1, <2>2 DEF SessionTypes
  <2>. QED  BY <1>2, <1>3, <2>1, <2>3 DEF LinkTypes, QueueTypes, BudgetTypes
<1>7. CASE f.ty \in {"hello", "other"} /\ UNCHANGED <<todo, sessionVars>>
  BY <1>2, <1>3, <1>7
     DEF sessionVars, LinkTypes, SessionTypes, QueueTypes, BudgetTypes
<1>. QED  BY <1>4, <1>5, <1>6, <1>7, Zenon DEF HandleLogicFrame, f

\* A datagram of a client.
LEMMA DatagramTypes ==
    ASSUME SessionTypes, QueueTypes, NEW c, NEW p \in Peers, HandleDatagram(c, p)
    PROVE  SessionTypes' /\ QueueTypes'
<1>1. /\ status' = [status EXCEPT ![c] = IF @ = "gone" THEN @ ELSE "active"]
      /\ peer' = [peer EXCEPT ![c] = IF status[c] = "gone" THEN @ ELSE p]
      /\ retrans' = IF status[c] = "active"
                    THEN [retrans EXCEPT ![c] =
                            [ch \in Reliable |-> Confirmed(@[ch], received[c])]]
                    ELSE retrans
      /\ budget' = budget
  BY DEF HandleDatagram
<1>2. SessionTypes'
  BY <1>1 DEF SessionTypes
<1>3. CASE status[c] # "active" \/ c \notin Clients
  BY <1>1, <1>2, <1>3 DEF QueueTypes
<1>4. CASE status[c] = "active" /\ c \in Clients
  <2>. DEFINE new == [ch \in Reliable |-> Confirmed(retrans[c][ch], received[c])]
  <2>1. \A ch \in Reliable : retrans[c][ch] \in Seq(Packets) /\ Len(retrans[c][ch]) <= QueueCap
    BY <1>4 DEF QueueTypes
  <2>2. ASSUME NEW ch \in Reliable
        PROVE  /\ Confirmed(retrans[c][ch], received[c]) \in Seq(Packets)
               /\ Len(Confirmed(retrans[c][ch], received[c])) <= QueueCap
    <3>. DEFINE q == retrans[c][ch]
                r == Confirmed(q, received[c])
    <3>1. r \in Seq(Packets) /\ Len(r) <= Len(q)
      BY <2>1, ConfirmedIn
    <3>2. Len(q) <= QueueCap /\ Len(q) \in Nat
      BY <2>1
    <3>. HIDE DEF q, r
    <3>3. Len(r) <= QueueCap
      BY <3>1, <3>2, Constants
    <3>. QED  BY <3>1, <3>3 DEF q, r
  <2>3. new \in [Reliable -> Seq(Packets)] /\ \A ch \in Reliable : Len(new[ch]) <= QueueCap
    BY <2>2
  <2>4. retrans' = [retrans EXCEPT ![c] = new]
    BY <1>1, <1>4
  <2>. HIDE DEF new
  <2>. QED  BY <1>2, <1>4, <2>3, <2>4 DEF QueueTypes
<1>. QED  BY <1>2, <1>3, <1>4

LEMMA MaintainTypes ==
    ASSUME SessionTypes, QueueTypes, NEW c \in Clients, Maintain(c)
    PROVE  SessionTypes' /\ QueueTypes'
<1>1. /\ status' = [status EXCEPT ![c] = IF @ = "active" THEN "grace" ELSE "gone"]
      /\ retrans' = IF status[c] = "grace"
                    THEN [retrans EXCEPT ![c] = NoPackets] ELSE retrans
      /\ UNCHANGED <<peer, budget>>
  BY DEF Maintain
<1>2. SessionTypes'
  BY <1>1 DEF SessionTypes
<1>3. NoPackets \in [Reliable -> Seq(Packets)] /\ \A ch \in Reliable : Len(NoPackets[ch]) = 0
  BY DEF NoPackets
<1>4. /\ retrans \in [Clients -> [Reliable -> Seq(Packets)]]
      /\ \A d \in Clients, ch \in Reliable : Len(retrans[d][ch]) <= QueueCap
  BY DEF QueueTypes
<1>5. /\ retrans' \in [Clients -> [Reliable -> Seq(Packets)]]
      /\ \A d \in Clients : retrans'[d] = retrans[d] \/ retrans'[d] = NoPackets
  BY <1>1, <1>3, <1>4
<1>6. 0 <= QueueCap
  BY Constants
<1>. QED  BY <1>2, <1>3, <1>4, <1>5, <1>6 DEF QueueTypes

\* What an accepted connection is.
LEMMA AcceptTypes ==
    ASSUME ConnTypes, WriterTypes, NEW c \in Clients, NEW k \in Kinds, Accept(c, k)
    PROVE  ConnTypes' /\ WriterTypes'
<1>. DEFINE x == [owner |-> c, peer |-> NewPeer(k), chan |-> <<>>, state |-> "accepted"]
<1>1. /\ Len(conns) < MaxConns /\ conns' = Append(conns, x)
      /\ nextPort' = [nextPort EXCEPT ![k] = (@ + 1) % PortMod]
      /\ writers' = writers
  BY DEF Accept
<1>2. /\ nextPort \in [Kinds -> 0 .. PortMod - 1] /\ writers \in [VirtualPeers -> Nat]
      /\ \A p \in VirtualPeers : writers[p] \in DOMAIN conns \cup {NoConn}
      /\ conns \in Seq(Connections)
      /\ \A i \in DOMAIN conns : Len(conns[i].chan) <= ChanCap
  BY DEF ConnTypes, WriterTypes
<1>3. NewPeer(k) \in VirtualPeers
  BY <1>2 DEF NewPeer, VirtualPeers
<1>4. x \in Connections /\ x.chan = <<>>
  BY <1>3 DEF Connections
<1>. HIDE DEF x
<1>5. PICK new : new = conns'
  OBVIOUS
<1>6. /\ new \in Seq(Connections) /\ Len(new) = Len(conns) + 1
      /\ \A i \in DOMAIN conns : i \in DOMAIN new /\ new[i] = conns[i]
      /\ \A i \in DOMAIN new : i \in DOMAIN conns \/ new[i] = x
  <2>1. new = Append(conns, x)
    BY <1>1, <1>5
  <2>. QED  BY <1>2, <1>4, <2>1
<1>7. Len(new) <= MaxConns
  <2>1. Len(conns) \in Nat /\ MaxConns \in Nat
    BY <1>2, Constants
  <2>. QED  BY <1>1, <1>6, <2>1
<1>8. ConnTypes'
  <2>1. \A i \in DOMAIN new : Len(new[i].chan) <= ChanCap
    BY <1>2, <1>4, <1>6, Constants
  <2>. QED  BY <1>5, <1>6, <1>7, <2>1 DEF ConnTypes
<1>9. nextPort' \in [Kinds -> 0 .. PortMod - 1]
  <2>1. nextPort[k] \in Nat
    BY <1>2
  <2>2. (nextPort[k] + 1) % PortMod \in 0 .. PortMod - 1
    BY <2>1, Constants
  <2>. QED  BY <1>1, <1>2, <2>2
<1>10. WriterTypes'
  BY <1>1, <1>2, <1>5, <1>6, <1>9 DEF WriterTypes
<1>. QED  BY <1>8, <1>10

\* What a connection does, beside reading.
LEMMA ConnectionTypes ==
    ASSUME ConnTypes, WriterTypes, HistoryTypes, NEW i \in DOMAIN conns,
           ConnStart(i) \/ UpgradeFails(i) \/ ConnWrite(i) \/ ConnEnd(i)
    PROVE  ConnTypes' /\ WriterTypes' /\ HistoryTypes'
<1>1. /\ i \in Nat /\ conns[i] \in Connections
      /\ conns[i].owner \in Clients /\ conns[i].peer \in VirtualPeers
      /\ conns[i].chan \in Seq(Packets) /\ Len(conns[i].chan) <= ChanCap
      /\ Len(conns[i].chan) \in Nat
  BY ConnFields
<1>2. /\ nextPort \in [Kinds -> 0 .. PortMod - 1] /\ writers \in [VirtualPeers -> Nat]
      /\ \A p \in VirtualPeers : writers[p] \in DOMAIN conns \cup {NoConn}
  BY DEF WriterTypes
<1>3. CASE ConnStart(i)
  <2>. DEFINE x == [conns[i] EXCEPT !.state = "open"]
  <2>1. /\ conns' = [conns EXCEPT ![i] = x]
        /\ writers' = [writers EXCEPT ![conns[i].peer] = i]
        /\ UNCHANGED <<nextPort, received, sends, now>>
    BY <1>3 DEF ConnStart
  <2>2. x \in Connections /\ Len(x.chan) <= ChanCap
    BY <1>1 DEF Connections
  <2>. HIDE DEF x
  <2>3. ConnTypes' /\ DOMAIN conns' = DOMAIN conns
    BY <2>1, <2>2, ConnSet
  <2>4. WriterTypes'
    BY <1>1, <1>2, <2>1, <2>3 DEF WriterTypes
  <2>. QED  BY <2>1, <2>3, <2>4 DEF HistoryTypes
<1>4. CASE UpgradeFails(i)
  <2>. DEFINE x == [conns[i] EXCEPT !.state = "closed"]
  <2>1. /\ conns' = [conns EXCEPT ![i] = x]
        /\ UNCHANGED <<writers, nextPort, received, sends, now>>
    BY <1>4 DEF UpgradeFails
  <2>2. x \in Connections /\ Len(x.chan) <= ChanCap
    BY <1>1 DEF Connections
  <2>. HIDE DEF x
  <2>3. ConnTypes' /\ DOMAIN conns' = DOMAIN conns
    BY <2>1, <2>2, ConnSet
  <2>. QED  BY <2>1, <2>3 DEF HistoryTypes, WriterTypes
<1>5. CASE ConnWrite(i)
  <2>. DEFINE x == [conns[i] EXCEPT !.chan = Tail(@)]
  <2>1. /\ conns[i].chan # <<>> /\ conns' = [conns EXCEPT ![i] = x]
        /\ received' = [received EXCEPT ![conns[i].owner] = @ \cup {Head(conns[i].chan)}]
        /\ UNCHANGED <<writers, nextPort, sends, now>>
    BY <1>5 DEF ConnWrite, Receive
  <2>2. /\ Head(conns[i].chan) \in Packets /\ Tail(conns[i].chan) \in Seq(Packets)
        /\ Len(Tail(conns[i].chan)) <= ChanCap
    <3>. DEFINE q == conns[i].chan
    <3>1. q \in Seq(Packets) /\ q # <<>> /\ Len(q) <= ChanCap
      BY <1>1, <2>1
    <3>2. ChanCap \in Nat
      BY Constants
    <3>. HIDE DEF q
    <3>3. Head(q) \in Packets /\ Tail(q) \in Seq(Packets) /\ Len(Tail(q)) = Len(q) - 1
      BY <3>1
    <3>4. Len(q) \in Nat
      BY <3>1
    <3>. QED  BY <3>1, <3>2, <3>3, <3>4 DEF q
  <2>3. x \in Connections /\ Len(x.chan) <= ChanCap
    BY <1>1, <2>2 DEF Connections
  <2>. HIDE DEF x
  <2>4. ConnTypes' /\ DOMAIN conns' = DOMAIN conns
    BY <2>1, <2>3, ConnSet
  <2>5. HistoryTypes'
    BY <1>1, <2>1, <2>2 DEF HistoryTypes
  <2>. QED  BY <2>1, <2>4, <2>5 DEF WriterTypes
<1>6. CASE ConnEnd(i)
  <2>. DEFINE x == [conns[i] EXCEPT !.state = "closed", !.chan = <<>>]
  <2>1. /\ conns' = [conns EXCEPT ![i] = x]
        /\ writers' = [writers EXCEPT ![conns[i].peer] = NoConn]
        /\ UNCHANGED <<nextPort, received, sends, now>>
    BY <1>6 DEF ConnEnd, Removed
  <2>2. x \in Connections /\ Len(x.chan) <= ChanCap
    <3>1. PICK none : none = <<>>
      OBVIOUS
    <3>2. none \in Seq(Packets) /\ Len(none) <= ChanCap
      BY <3>1, Constants
    <3>3. x = [conns[i] EXCEPT !.state = "closed", !.chan = none]
      BY <3>1
    <3>. HIDE DEF x
    <3>. QED  BY <1>1, <3>2, <3>3 DEF Connections
  <2>. HIDE DEF x
  <2>3. ConnTypes' /\ DOMAIN conns' = DOMAIN conns
    BY <2>1, <2>2, ConnSet
  <2>4. WriterTypes'
    BY <1>1, <1>2, <2>1, <2>3 DEF WriterTypes, NoConn
  <2>. QED  BY <2>1, <2>3, <2>4 DEF HistoryTypes
<1>. QED  BY <1>3, <1>4, <1>5, <1>6

LEMMA NextTypes == StreamInv /\ TypeOK /\ [Next]_vars => TypeOK'
<1>. SUFFICES ASSUME StreamInv, TypeOK, [Next]_vars PROVE TypeOK'
  OBVIOUS
<1>1. LinkShapes'
  BY StreamNext DEF StreamInv
<1>2. /\ LinkTypes /\ SessionTypes /\ QueueTypes /\ BudgetTypes
      /\ ConnTypes /\ WriterTypes /\ HistoryTypes
  BY TypeParts
<1>. SUFFICES /\ LinkTypes' /\ SessionTypes' /\ QueueTypes' /\ BudgetTypes'
              /\ ConnTypes' /\ WriterTypes' /\ HistoryTypes'
  BY <1>1 DEF TypeOK, LinkShapes, LinkTypes, SessionTypes, QueueTypes, BudgetTypes,
            ConnTypes, WriterTypes, HistoryTypes, Bytewise
<1>3. UNCHANGED <<todo, breaks>> => LinkTypes'
  BY <1>2 DEF LinkTypes
<1>4. UNCHANGED sessionVars => SessionTypes' /\ QueueTypes'
  BY <1>2 DEF sessionVars, SessionTypes, QueueTypes
<1>5. UNCHANGED <<window, allowed>> => BudgetTypes'
  BY <1>2 DEF BudgetTypes
<1>6. UNCHANGED connVars => ConnTypes' /\ WriterTypes'
  BY <1>2 DEF connVars, ConnTypes, WriterTypes
<1>7. UNCHANGED <<received, sends, now>> => HistoryTypes'
  BY <1>2 DEF HistoryTypes
<1>8. CASE UNCHANGED vars
  BY <1>3, <1>4, <1>5, <1>6, <1>7, <1>8 DEF vars, linkVars, sessionVars
<1>9. ASSUME NEW f \in Script, Write(f)
      PROVE  /\ LinkTypes' /\ SessionTypes' /\ QueueTypes' /\ BudgetTypes'
             /\ ConnTypes' /\ WriterTypes' /\ HistoryTypes'
  BY <1>3, <1>4, <1>5, <1>6, <1>7, <1>9 DEF Write, sessionVars
<1>10. ASSUME NEW n \in 1 .. ChunkLen, ReadChunk(n)
       PROVE  /\ LinkTypes' /\ SessionTypes' /\ QueueTypes' /\ BudgetTypes'
              /\ ConnTypes' /\ WriterTypes' /\ HistoryTypes'
  BY <1>3, <1>4, <1>5, <1>6, <1>7, <1>10 DEF ReadChunk, sessionVars
<1>11. CASE LinkBreak
  <2>1. LinkTypes'
    BY <1>2, <1>11, Constants DEF LinkBreak, LinkTypes
  <2>. QED  BY <1>4, <1>5, <1>6, <1>7, <1>11, <2>1 DEF LinkBreak, sessionVars
<1>12. CASE HandleLogicFrame
  <2>1. UNCHANGED connVars /\ UNCHANGED <<received, sends, now>>
    BY <1>12 DEF HandleLogicFrame
  <2>. QED  BY <1>6, <1>7, <1>12, <2>1, HandleTypes
<1>13. CASE SendOutbound
  BY <1>13, SendTypes
<1>14. ASSUME NEW c \in Clients, MaintainReliable(c)
       PROVE  /\ LinkTypes' /\ SessionTypes' /\ QueueTypes' /\ BudgetTypes'
              /\ ConnTypes' /\ WriterTypes' /\ HistoryTypes'
  <2>1. SendUdp(Queued(c), peer[c]) /\ UNCHANGED now /\ sends' = sends
        /\ UNCHANGED <<todo, breaks>> /\ UNCHANGED sessionVars
        /\ UNCHANGED <<window, allowed>> /\ UNCHANGED connVars
    BY <1>14 DEF MaintainReliable, linkVars, sessionVars
  <2>2. Queued(c) \in SUBSET Packets
    <3>1. \A ch \in Reliable : retrans[c][ch] \in Seq(Packets)
      BY <1>2 DEF QueueTypes
    <3>2. \A ch \in Reliable : ToSet(retrans[c][ch]) \subseteq Packets
      BY <3>1 DEF ToSet
    <3>. QED  BY <3>2 DEF Queued
  <2>3. sends' \in Nat
    BY <1>2, <2>1 DEF HistoryTypes
  <2>4. HistoryTypes'
    BY <1>2, <2>1, <2>2, <2>3, UdpTypes
  <2>. QED  BY <1>3, <1>4, <1>5, <1>6, <2>1, <2>4
<1>15. ASSUME NEW c \in Clients, ReceiveUdp(c)
       PROVE  /\ LinkTypes' /\ SessionTypes' /\ QueueTypes' /\ BudgetTypes'
              /\ ConnTypes' /\ WriterTypes' /\ HistoryTypes'
  <2>1. HandleDatagram(c, UdpPeer(c)) /\ UdpPeer(c) \in Peers
    BY <1>15 DEF ReceiveUdp, Peers
  <2>2. /\ UNCHANGED <<todo, breaks>> /\ UNCHANGED <<window, allowed>>
        /\ UNCHANGED connVars /\ UNCHANGED <<received, sends, now>>
    BY <2>1 DEF HandleDatagram, linkVars
  <2>. QED  BY <1>2, <1>3, <1>5, <1>6, <1>7, <2>1, <2>2, DatagramTypes
<1>16. ASSUME NEW c \in Clients, Maintain(c)
       PROVE  /\ LinkTypes' /\ SessionTypes' /\ QueueTypes' /\ BudgetTypes'
              /\ ConnTypes' /\ WriterTypes' /\ HistoryTypes'
  <2>1. /\ UNCHANGED <<todo, breaks>> /\ UNCHANGED <<window, allowed>>
        /\ UNCHANGED connVars /\ UNCHANGED <<received, sends, now>>
    BY <1>16 DEF Maintain, linkVars
  <2>. QED  BY <1>2, <1>3, <1>5, <1>6, <1>7, <1>16, <2>1, MaintainTypes
<1>17. CASE Tick
  <2>1. now < MaxTime /\ now' = now + 1 /\ UNCHANGED <<received, sends>>
    BY <1>17 DEF Tick
  <2>2. HistoryTypes'
    BY <1>2, <2>1, DownlinkAssumption DEF HistoryTypes
  <2>. QED  BY <1>3, <1>4, <1>5, <1>6, <1>17, <2>2 DEF Tick, linkVars, sessionVars
<1>18. ASSUME NEW c \in Clients, NEW k \in Kinds, Accept(c, k)
       PROVE  /\ LinkTypes' /\ SessionTypes' /\ QueueTypes' /\ BudgetTypes'
              /\ ConnTypes' /\ WriterTypes' /\ HistoryTypes'
  <2>1. /\ UNCHANGED <<todo, breaks>> /\ UNCHANGED sessionVars
        /\ UNCHANGED <<window, allowed>> /\ UNCHANGED <<received, sends, now>>
    BY <1>18 DEF Accept, linkVars, sessionVars
  <2>. QED  BY <1>2, <1>3, <1>4, <1>5, <1>7, <1>18, <2>1, AcceptTypes
<1>19. ASSUME NEW i \in DOMAIN conns, ConnRead(i)
       PROVE  /\ LinkTypes' /\ SessionTypes' /\ QueueTypes' /\ BudgetTypes'
              /\ ConnTypes' /\ WriterTypes' /\ HistoryTypes'
  <2>1. HandleDatagram(conns[i].owner, conns[i].peer) /\ conns[i].peer \in Peers
    BY <1>2, <1>19, ConnFields DEF ConnRead, Peers
  <2>2. /\ UNCHANGED <<todo, breaks>> /\ UNCHANGED <<window, allowed>>
        /\ UNCHANGED connVars /\ UNCHANGED <<received, sends, now>>
    BY <2>1 DEF HandleDatagram, linkVars
  <2>. QED  BY <1>2, <1>3, <1>5, <1>6, <1>7, <2>1, <2>2, DatagramTypes
<1>20. ASSUME NEW i \in DOMAIN conns,
              ConnStart(i) \/ UpgradeFails(i) \/ ConnWrite(i) \/ ConnEnd(i)
       PROVE  /\ LinkTypes' /\ SessionTypes' /\ QueueTypes' /\ BudgetTypes'
              /\ ConnTypes' /\ WriterTypes' /\ HistoryTypes'
  <2>1. /\ UNCHANGED <<todo, breaks>> /\ UNCHANGED sessionVars
        /\ UNCHANGED <<window, allowed>>
    BY <1>20 DEF ConnStart, UpgradeFails, ConnWrite, ConnEnd, linkVars, sessionVars
  <2>. QED  BY <1>2, <1>3, <1>4, <1>5, <1>20, <2>1, ConnectionTypes
<1>. QED  BY <1>8, <1>9, <1>10, <1>11, <1>12, <1>13, <1>14, <1>15, <1>16, <1>17,
            <1>18, <1>19, <1>20 DEF Next, Connection

\* The channel of a connection has no more than ChanCap packets, a
\* retransmission queue no more than QueueCap, every entry of writers is a
\* connection there has been, and everything has its type.
THEOREM DownlinkTypes == Spec => []TypeOK
<1>1. Init => StreamInv /\ TypeOK
  BY StreamInit, InitTypes
<1>2. StreamInv /\ TypeOK /\ [Next]_vars => (StreamInv /\ TypeOK)'
  BY StreamNext, NextTypes
<1>. QED  BY <1>1, <1>2, PTL DEF Spec
-----------------------------------------------------------------------------
(* The budget.                                                             *)

\* s has the sums of the first bytes of w.
Running(w, s) ==
    s[0] = 0 /\ \A i \in 1 .. Len(w) : s[i] = s[i - 1] + w[i].bytes

\* t has the sums of v, in naturals.
Sums(v, t) ==
    /\ Len(v) \in Nat /\ Running(v, t)
    /\ \A i \in 1 .. Len(v) : v[i].bytes \in Nat
    /\ \A i \in 0 .. Len(v) : t[i] \in Nat

\* The elements of w are those of v after the d-th.
PartOf(w, v, d) ==
    /\ Len(w) \in Nat /\ d \in Nat /\ d + Len(w) <= Len(v)
    /\ \A i \in 1 .. Len(w) : w[i].bytes = v[d + i].bytes

\* Where the elements of w are those of v from the d-th on, so are the sums.
LEMMA RunningFrom ==
    ASSUME NEW w, NEW v, NEW s, NEW t, NEW d,
           PartOf(w, v, d), Running(w, s), Sums(v, t)
    PROVE  \A i \in 0 .. Len(w) : s[i] = t[d + i] - t[d]
<1>. DEFINE n == Len(w)
<1>0. /\ n \in Nat /\ d \in Nat /\ Len(v) \in Nat /\ d + n <= Len(v)
      /\ \A i \in 1 .. n : w[i].bytes = v[d + i].bytes
      /\ \A i \in 1 .. Len(v) : v[i].bytes \in Nat
      /\ \A i \in 0 .. Len(v) : t[i] \in Nat
      /\ s[0] = 0 /\ \A i \in 1 .. n : s[i] = s[i - 1] + w[i].bytes
      /\ \A i \in 1 .. Len(v) : t[i] = t[i - 1] + v[i].bytes
  BY DEF PartOf, Sums, Running
<1>. HIDE DEF n
<1>. SUFFICES \A i \in 0 .. n : s[i] = t[d + i] - t[d]
  BY DEF n
<1>. DEFINE B == {i \in 0 .. n : s[i] # t[d + i] - t[d]}
<1>. SUFFICES ASSUME B # {} PROVE FALSE
  OBVIOUS
<1>1. B \in SUBSET Nat
  BY <1>0
<1>2. Min(B) \in B /\ \A x \in B : Min(B) <= x
  BY <1>1, MinNat
<1>3. PICK m : m = Min(B)
  OBVIOUS
<1>4. m \in 0 .. n /\ s[m] # t[d + m] - t[d] /\ \A x \in B : m <= x
  BY <1>2, <1>3
<1>5. m # 0
  <2>1. d \in 0 .. Len(v) /\ t[d] \in Nat /\ d + 0 = d
    BY <1>0
  <2>2. s[0] = t[d + 0] - t[d]
    BY <1>0, <2>1
  <2>. QED  BY <1>4, <2>2
<1>6. m - 1 \in 0 .. n /\ m - 1 \notin B
  <2>. HIDE DEF B
  <2>1. m - 1 \in 0 .. n /\ ~(m <= m - 1)
    BY <1>0, <1>4, <1>5
  <2>. QED  BY <1>4, <2>1
<1>7. s[m - 1] = t[d + (m - 1)] - t[d]
  BY <1>6
<1>8. d + m \in 1 .. Len(v) /\ m \in 1 .. n
  BY <1>0, <1>4, <1>5
<1>9. s[m] = s[m - 1] + w[m].bytes /\ t[d + m] = t[(d + m) - 1] + v[d + m].bytes
  BY <1>0, <1>8
<1>10. /\ t[(d + m) - 1] \in Nat /\ t[d] \in Nat /\ v[d + m].bytes \in Nat
       /\ (d + m) - 1 = d + (m - 1) /\ w[m].bytes = v[d + m].bytes
  <2>1. m \in Nat /\ m >= 1 /\ d + m <= Len(v)
    BY <1>0, <1>8
  <2>2. (d + m) - 1 \in 0 .. Len(v) /\ d \in 0 .. Len(v) /\ (d + m) - 1 = d + (m - 1)
    BY <1>0, <2>1
  <2>3. t[(d + m) - 1] \in Nat /\ t[d] \in Nat
    BY <1>0, <2>2
  <2>4. v[d + m].bytes \in Nat /\ w[m].bytes = v[d + m].bytes
    BY <1>0, <1>8
  <2>. QED  BY <2>2, <2>3, <2>4
<1>11. s[m] = t[d + m] - t[d]
  BY <1>7, <1>9, <1>10
<1>. QED  BY <1>4, <1>11

LEMMA RunningGrows ==
    ASSUME NEW w, NEW t, Sums(w, t), NEW i \in 0 .. Len(w), NEW j \in i .. Len(w)
    PROVE  t[i] <= t[j]
<1>0. /\ Len(w) \in Nat /\ \A k \in 1 .. Len(w) : w[k].bytes \in Nat
      /\ \A k \in 0 .. Len(w) : t[k] \in Nat
      /\ \A k \in 1 .. Len(w) : t[k] = t[k - 1] + w[k].bytes
  BY DEF Sums, Running
<1>. DEFINE B == {k \in i .. Len(w) : ~(t[i] <= t[k])}
<1>. SUFFICES ASSUME B # {} PROVE FALSE
  OBVIOUS
<1>1. B \in SUBSET Nat
  BY <1>0
<1>2. Min(B) \in B /\ \A x \in B : Min(B) <= x
  BY <1>1, MinNat
<1>3. PICK m : m = Min(B)
  OBVIOUS
<1>4. m \in i .. Len(w) /\ ~(t[i] <= t[m]) /\ \A x \in B : m <= x
  BY <1>2, <1>3
<1>5. m # i
  BY <1>0, <1>4
<1>6. m - 1 \in i .. Len(w) /\ m - 1 \notin B /\ m \in 1 .. Len(w)
  BY <1>0, <1>4, <1>5
<1>7. t[i] <= t[m - 1]
  BY <1>6
<1>8. t[m] = t[m - 1] + w[m].bytes /\ w[m].bytes \in Nat
  BY <1>0, <1>6
<1>9. t[i] \in Nat /\ t[m - 1] \in Nat
  <2>1. m - 1 \in 0 .. Len(w)
    BY <1>0, <1>6
  <2>. QED  BY <1>0, <2>1
<1>. QED  BY <1>4, <1>7, <1>8, <1>9

\* SumBytes is the last of the sums.
LEMMA SumIs ==
    ASSUME NEW w, Len(w) \in Nat, \A i \in 1 .. Len(w) : w[i].bytes \in Nat
    PROVE  \E t \in [0 .. Len(w) -> Nat] : Sums(w, t) /\ SumBytes(w) = t[Len(w)]
<1>. DEFINE Upto(n, s) == s = [i \in 0 .. n |-> IF i = 0 THEN 0 ELSE s[i - 1] + w[i].bytes]
            B == {n \in 0 .. Len(w) : ~ \E s \in [0 .. n -> Nat] : Upto(n, s)}
<1>1. B = {}
  <2>. SUFFICES ASSUME B # {} PROVE FALSE
    OBVIOUS
  <2>1. B \in SUBSET Nat
    OBVIOUS
  <2>2. Min(B) \in B /\ \A x \in B : Min(B) <= x
    BY <2>1, MinNat
  <2>3. PICK m : m = Min(B)
    OBVIOUS
  <2>4. /\ m \in 0 .. Len(w) /\ ~ \E s \in [0 .. m -> Nat] : Upto(m, s)
        /\ \A x \in B : m <= x
    BY <2>2, <2>3
  <2>5. m # 0
    <3>1. [i \in 0 .. 0 |-> 0] \in [0 .. 0 -> Nat]
          /\ Upto(0, [i \in 0 .. 0 |-> 0])
      OBVIOUS
    <3>. QED  BY <2>4, <3>1
  <2>6. m - 1 \in 0 .. Len(w) /\ m - 1 \notin B
    <3>. HIDE DEF B
    <3>1. m \in Nat /\ m <= Len(w) /\ m # 0
      BY <2>4, <2>5
    <3>2. m - 1 \in 0 .. Len(w) /\ ~(m <= m - 1)
      BY <3>1
    <3>. QED  BY <2>4, <3>2
  <2>7. PICK s \in [0 .. m - 1 -> Nat] : Upto(m - 1, s)
    BY <2>6
  <2>8. \A i \in 0 .. m - 1 : s[i] = IF i = 0 THEN 0 ELSE s[i - 1] + w[i].bytes
    BY <2>7
  <2>. DEFINE r == [i \in 0 .. m |-> IF i = m THEN s[m - 1] + w[m].bytes ELSE s[i]]
  <2>9. r \in [0 .. m -> Nat]
    BY <2>4, <2>5
  <2>10. Upto(m, r)
    <3>1. ASSUME NEW i \in 0 .. m
          PROVE  r[i] = IF i = 0 THEN 0 ELSE r[i - 1] + w[i].bytes
      <4>1. CASE i = m
        <5>1. m - 1 \in 0 .. m /\ m - 1 # m
          BY <2>4, <2>5
        <5>2. r[m - 1] = s[m - 1] /\ r[m] = s[m - 1] + w[m].bytes
          <6>. HIDE DEF Upto
          <6>. QED  BY <2>4, <5>1
        <5>. QED  BY <2>5, <4>1, <5>2
      <4>2. CASE i # m
        <5>1. i \in 0 .. m - 1 /\ (i # 0 => i - 1 \in 0 .. m - 1)
          BY <2>4, <4>2
        <5>2. r[i] = s[i] /\ (i # 0 => r[i - 1] = s[i - 1])
          <6>. HIDE DEF Upto
          <6>1. \A x \in 0 .. m - 1 : x \in 0 .. m /\ x # m
            BY <2>4
          <6>. QED  BY <5>1, <6>1
        <5>3. s[i] = IF i = 0 THEN 0 ELSE s[i - 1] + w[i].bytes
          BY <2>8, <5>1
        <5>. QED  BY <5>2, <5>3
      <4>. QED  BY <4>1, <4>2
    <3>. QED  BY <3>1
  <2>. QED  BY <2>4, <2>9, <2>10
<1>2. Len(w) \notin B
  BY <1>1
<1>3. PICK t \in [0 .. Len(w) -> Nat] : Upto(Len(w), t)
  BY <1>2
<1>4. Running(w, t)
  <2>1. \A i \in 0 .. Len(w) : t[i] = IF i = 0 THEN 0 ELSE t[i - 1] + w[i].bytes
    BY <1>3
  <2>. HIDE DEF Upto
  <2>. QED  BY <2>1 DEF Running
<1>5. \E s : Upto(Len(w), s) /\ SumBytes(w) = s[Len(w)]
  BY <1>3 DEF SumBytes
<1>6. PICK s : Upto(Len(w), s) /\ SumBytes(w) = s[Len(w)]
  BY <1>5
<1>7. Running(w, s)
  <2>1. \A i \in 0 .. Len(w) : s[i] = IF i = 0 THEN 0 ELSE s[i - 1] + w[i].bytes
    BY <1>6
  <2>. HIDE DEF Upto
  <2>. QED  BY <2>1 DEF Running
<1>. HIDE DEF Upto
<1>8. Sums(w, t)
  <2>1. \A i \in 0 .. Len(w) : t[i] \in Nat
    OBVIOUS
  <2>. QED  BY <1>4, <2>1 DEF Sums
<1>9. s[Len(w)] = t[0 + Len(w)] - t[0]
  <2>1. PartOf(w, w, 0)
    <3>1. /\ Len(w) \in Nat /\ 0 \in Nat /\ 0 + Len(w) <= Len(w)
          /\ \A i \in 1 .. Len(w) : 0 + i = i
      OBVIOUS
    <3>. QED  BY <3>1 DEF PartOf
  <2>2. \A i \in 0 .. Len(w) : s[i] = t[0 + i] - t[0]
    BY ONLY <1>7, <1>8, <2>1, RunningFrom
  <2>. QED  BY <2>2
<1>10. s[Len(w)] = t[Len(w)]
  <2>1. t[0] = 0 /\ t[Len(w)] \in Nat /\ 0 + Len(w) = Len(w)
    BY <1>4 DEF Running
  <2>. QED  BY <1>9, <2>1
<1>. QED  BY <1>6, <1>8, <1>10

\* The sum of a part of a sequence.
LEMMA SumPart ==
    ASSUME NEW v, NEW t, Sums(v, t), NEW w, NEW d, PartOf(w, v, d)
    PROVE  SumBytes(w) = t[d + Len(w)] - t[d]
<1>1. Len(w) \in Nat /\ \A i \in 1 .. Len(w) : w[i].bytes \in Nat
  <2>1. ASSUME NEW i \in 1 .. Len(w) PROVE w[i].bytes \in Nat
    <3>1. d + i \in 1 .. Len(v) /\ w[i].bytes = v[d + i].bytes
      BY DEF Sums, PartOf
    <3>. QED  BY <3>1 DEF Sums
  <2>. QED  BY <2>1 DEF PartOf
<1>2. PICK s \in [0 .. Len(w) -> Nat] : Sums(w, s) /\ SumBytes(w) = s[Len(w)]
  BY <1>1, SumIs
<1>3. \A i \in 0 .. Len(w) : s[i] = t[d + i] - t[d]
  BY <1>2, RunningFrom DEF Sums
<1>. QED  BY <1>1, <1>2, <1>3
-----------------------------------------------------------------------------
(* What check_budget remembers, and what it let through.                   *)

\* The window of a session is the end of what was let through; what is no
\* longer there is a second old; and times do not go back.
Remembers(w, a, t) ==
    LET d == Len(a) - Len(w) IN
    /\ Len(w) <= Len(a)
    /\ \A i \in 1 .. Len(w) : w[i].at = a[d + i].at /\ w[i].bytes = a[d + i].bytes
    /\ \A i \in 1 .. d : ~(t - a[i].at < Second)
    /\ \A i, j \in 1 .. Len(a) : i <= j => a[i].at <= a[j].at
    /\ \A i \in 1 .. Len(a) : a[i].at <= t

WindowInv == \A c \in Clients : Remembers(window[c], allowed[c], now)

\* Within the limit of every moment.
Within(a) ==
    \A i, j \in DOMAIN a :
        i <= j /\ a[j].at - a[i].at < Second => SumBytes(SubSeq(a, i, j)) <= a[j].limit

Records == [at : Nat, bytes : Nat]
Allowances == [at : Nat, bytes : Nat, limit : Nat]

\* One more message is within the limit.
LEMMA OneMore ==
    ASSUME NEW a \in Seq(Allowances), NEW w \in Seq(Records), NEW t \in Nat,
           Remembers(w, a, t), Within(a), NEW e \in Allowances, e.at = t,
           NEW k \in 1 .. Len(w) + 1, \A i \in 1 .. k - 1 : ~(t - w[i].at < Second),
           NEW r, r = SubSeq(w, k, Len(w)), SumBytes(r) + e.bytes <= e.limit
    PROVE  Within(Append(a, e))
<1>. DEFINE b == Append(a, e)
            n == Len(a)
            d == n - Len(w)
            f == d + k - 1
<1>1. /\ b \in Seq(Allowances) /\ Len(b) = n + 1 /\ n \in Nat /\ b[n + 1] = e
      /\ \A i \in 1 .. n : b[i] = a[i]
  OBVIOUS
<1>2. d \in Nat /\ f \in Nat /\ f <= n /\ Len(w) \in Nat /\ k \in Nat /\ n - f = Len(w) - k + 1
  <2>1. Len(w) <= Len(a) /\ Len(w) \in Nat /\ Len(a) \in Nat
    BY DEF Remembers
  <2>. QED  BY <2>1
<1>. HIDE DEF b
<1>3. \A i \in 1 .. n + 1 : b[i].bytes \in Nat /\ b[i].at \in Nat /\ b[i].limit \in Nat
  <2>1. \A i \in 1 .. n + 1 : b[i] \in Allowances
    BY <1>1
  <2>. QED  BY <2>1 DEF Allowances
<1>4. PICK s \in [0 .. n + 1 -> Nat] : Sums(b, s)
  <2>1. Len(b) \in Nat /\ \A i \in 1 .. Len(b) : b[i].bytes \in Nat
    BY <1>1, <1>3
  <2>. QED  BY <1>1, <2>1, SumIs
<1>5. \A i \in 0 .. n + 1 : s[i] \in Nat
  OBVIOUS
<1>6. ASSUME NEW i \in 1 .. n, NEW j \in 1 .. n,
             i <= j, b[j].at - b[i].at < Second
      PROVE  SumBytes(SubSeq(b, i, j)) <= b[j].limit
  <2>1. SubSeq(b, i, j) = SubSeq(a, i, j)
    <3>1. /\ i \in 1 .. Len(b) + 1 /\ j \in Int /\ j <= Len(b)
          /\ i \in 1 .. Len(a) + 1 /\ j <= Len(a) /\ i <= j + 1
      BY <1>1, <1>6
    <3>2. /\ SubSeq(a, i, j) \in Seq(Allowances) /\ Len(SubSeq(a, i, j)) = j - i + 1
          /\ \A x \in 1 .. j - i + 1 : SubSeq(a, i, j)[x] = a[i + x - 1]
      BY <3>1, Cut
    <3>3. /\ SubSeq(b, i, j) \in Seq(Allowances) /\ Len(SubSeq(b, i, j)) = j - i + 1
          /\ \A x \in 1 .. j - i + 1 : SubSeq(b, i, j)[x] = b[i + x - 1]
      BY <1>1, <3>1, Cut
    <3>4. \A x \in 1 .. j - i + 1 : i + x - 1 \in 1 .. n
      BY <1>6
    <3>. DEFINE p == SubSeq(a, i, j)
                q == SubSeq(b, i, j)
    <3>5. \A x \in 1 .. j - i + 1 : p[x] = q[x]
      BY <1>1, <3>2, <3>3, <3>4
    <3>. HIDE DEF p, q
    <3>6. p = q
      BY <3>2, <3>3, <3>5, SameSeq DEF p, q
    <3>. QED  BY <3>6 DEF p, q
  <2>2. b[i] = a[i] /\ b[j] = a[j] /\ i \in DOMAIN a /\ j \in DOMAIN a
    BY <1>1
  <2>. QED  BY <1>6, <2>1, <2>2 DEF Within
<1>7. ASSUME NEW i \in 1 .. n + 1, b[n + 1].at - b[i].at < Second
      PROVE  SumBytes(SubSeq(b, i, n + 1)) <= b[n + 1].limit
  <2>1. i - 1 \in f .. n
    <3>1. SUFFICES ASSUME i <= f PROVE FALSE
      BY <1>2
    <3>2. i \in 1 .. n /\ t - a[i].at < Second
      BY <1>1, <1>2, <1>7, <3>1
    <3>3. CASE i <= d
      <4>1. i \in 1 .. d
        BY <1>2, <3>2, <3>3
      <4>. QED  BY <3>2, <4>1 DEF Remembers
    <3>4. CASE i > d
      <4>. DEFINE x == i - d
      <4>1. x \in 1 .. k - 1 /\ x \in 1 .. Len(w) /\ d + x = i
        BY <1>2, <3>1, <3>4
      <4>. HIDE DEF x, d
      <4>2. w[x].at = a[d + x].at
        BY <4>1 DEF Remembers, d
      <4>. QED  BY <3>2, <4>1, <4>2
    <3>. QED  BY <1>2, <3>3, <3>4
  <2>. DEFINE part == SubSeq(b, i, n + 1)
  <2>2. /\ Len(part) = n + 1 - i + 1
        /\ \A x \in 1 .. n + 1 - i + 1 : part[x] = b[i + x - 1]
    <3>1. i \in 1 .. Len(b) + 1 /\ n + 1 \in Int /\ n + 1 <= Len(b) /\ i <= (n + 1) + 1
      BY <1>1
    <3>. QED  BY <1>1, <3>1, Cut
  <2>3. /\ Len(r) = n - f /\ \A x \in 1 .. n - f : r[x] = w[k + x - 1]
    <3>1. Len(w) \in Int /\ Len(w) <= Len(w) /\ k <= Len(w) + 1
      BY <1>2
    <3>2. /\ Len(SubSeq(w, k, Len(w))) = Len(w) - k + 1
          /\ \A x \in 1 .. Len(w) - k + 1 : SubSeq(w, k, Len(w))[x] = w[k + x - 1]
      BY <3>1, Cut
    <3>. QED  BY <1>2, <3>2
  <2>. HIDE DEF part
  <2>4. SumBytes(part) = s[(i - 1) + Len(part)] - s[i - 1]
    <3>1. /\ Len(part) \in Nat /\ i - 1 \in Nat /\ (i - 1) + Len(part) <= Len(b)
          /\ \A x \in 1 .. Len(part) : (i - 1) + x = i + x - 1
      BY <1>1, <2>2
    <3>2. \A x \in 1 .. Len(part) : part[x].bytes = b[(i - 1) + x].bytes
      BY <2>2, <3>1
    <3>3. PartOf(part, b, i - 1)
      BY <3>1, <3>2 DEF PartOf
    <3>. QED  BY ONLY <1>4, <3>3, SumPart, SMTT(30)
  <2>5. SumBytes(r) = s[f + Len(r)] - s[f]
    <3>1. Len(r) \in Nat /\ f + Len(r) <= Len(b)
      BY <1>1, <1>2, <2>3
    <3>2. ASSUME NEW x \in 1 .. Len(r) PROVE r[x].bytes = b[f + x].bytes
      <4>1. /\ k + x - 1 \in 1 .. Len(w) /\ f + x \in 1 .. n
            /\ d + (k + x - 1) = f + x /\ x \in 1 .. n - f
        BY <1>2, <2>3
      <4>2. r[x] = w[k + x - 1] /\ b[f + x] = a[f + x]
        BY <1>1, <2>3, <4>1
      <4>. DEFINE y == k + x - 1
      <4>3. y \in 1 .. Len(w) /\ d + y = f + x
        BY <4>1
      <4>. HIDE DEF y, d, f
      <4>4. w[y].bytes = a[d + y].bytes
        BY <4>3 DEF Remembers, d
      <4>. QED  BY <4>2, <4>3, <4>4 DEF y
    <3>. HIDE DEF f
    <3>3. PartOf(r, b, f)
      BY <1>2, <3>1, <3>2 DEF PartOf
    <3>. QED  BY ONLY <1>4, <3>3, SumPart, SMTT(30)
  <2>6. (i - 1) + Len(part) = n + 1 /\ f + Len(r) = n
    BY <1>2, <2>2, <2>3
  <2>7. s[n + 1] = s[n] + e.bytes
    <3>1. n + 1 \in 1 .. Len(b) /\ (n + 1) - 1 = n
      BY <1>1
    <3>2. s[n + 1] = s[(n + 1) - 1] + b[n + 1].bytes
      BY <1>4, <3>1 DEF Sums, Running
    <3>. QED  BY <1>1, <3>1, <3>2
  <2>8. s[f] <= s[i - 1]
    <3>1. f \in 0 .. Len(b) /\ i - 1 \in f .. Len(b) /\ Len(b) \in Nat
      BY <1>1, <1>2, <2>1
    <3>. DEFINE g == i - 1
    <3>3. g \in f .. Len(b)
      BY <3>1
    <3>. HIDE DEF f, g
    <3>4. s[f] <= s[g]
      BY <1>4, <3>1, <3>3, RunningGrows
    <3>. QED  BY <3>4 DEF g
  <2>9. /\ s[f] \in Nat /\ s[i - 1] \in Nat /\ s[n] \in Nat /\ s[n + 1] \in Nat
        /\ e.bytes \in Nat /\ e.limit \in Nat
    <3>1. f \in 0 .. n + 1 /\ i - 1 \in 0 .. n + 1 /\ n \in 0 .. n + 1 /\ n + 1 \in 0 .. n + 1
      BY <1>2, <2>1
    <3>. QED  BY <1>5, <3>1 DEF Allowances
  <2>10. SumBytes(part) = s[n + 1] - s[i - 1] /\ SumBytes(r) = s[n] - s[f]
    BY <2>4, <2>5, <2>6
  <2>. HIDE DEF f
  <2>11. PICK x, y, p, q : x = s[i - 1] /\ y = s[f] /\ p = SumBytes(part) /\ q = SumBytes(r)
    OBVIOUS
  <2>12. p <= q + e.bytes
    <3>1. PICK u, z, eb : u = s[n + 1] /\ z = s[n] /\ eb = e.bytes
      OBVIOUS
    <3>2. u = z + eb /\ y <= x /\ p = u - x /\ q = z - y
      BY <2>7, <2>8, <2>10, <2>11, <3>1, Zenon
    <3>3. x \in Nat /\ y \in Nat /\ z \in Nat /\ u \in Nat /\ eb \in Nat
      BY <2>9, <2>11, <3>1, Zenon
    <3>4. p <= q + eb
      BY ONLY <3>2, <3>3
    <3>. QED  BY <3>1, <3>4, Zenon
  <2>13. q + e.bytes <= e.limit /\ p \in Int /\ q \in Int
    <3>1. SumBytes(r) + e.bytes <= e.limit
      OBVIOUS
    <3>2. p = s[n + 1] - x /\ q = s[n] - y
      BY <2>10, <2>11, Zenon
    <3>3. x \in Nat /\ y \in Nat /\ s[n] \in Nat /\ s[n + 1] \in Nat
      BY <2>9, <2>11, Zenon
    <3>4. p \in Int /\ q \in Int
      BY ONLY <3>2, <3>3
    <3>. QED  BY <2>11, <3>1, <3>4, Zenon
  <2>14. p <= e.limit
    BY ONLY <2>9, <2>12, <2>13
  <2>. QED  BY <1>1, <2>11, <2>14, Zenon DEF part
<1>8. ASSUME NEW i \in DOMAIN b, NEW j \in DOMAIN b, i <= j, b[j].at - b[i].at < Second
      PROVE  SumBytes(SubSeq(b, i, j)) <= b[j].limit
  <2>1. i \in 1 .. n + 1 /\ j \in 1 .. n + 1
    BY <1>1
  <2>2. CASE j = n + 1
    BY <1>7, <1>8, <2>1, <2>2
  <2>3. CASE j # n + 1
    <3>1. i \in 1 .. n /\ j \in 1 .. n
      BY <1>1, <1>8, <2>1, <2>3
    <3>. QED  BY <1>6, <1>8, <3>1
  <2>. QED  BY <2>2, <2>3
<1>. QED  BY <1>8 DEF Within, b

\* Nothing of the budget changes.
LEMMA BudgetQuiet ==
    ASSUME WindowInv, BudgetKept, now' = now \/ (now \in Nat /\ now' = now + 1),
           BudgetTypes, UNCHANGED <<window, allowed>>
    PROVE  WindowInv' /\ BudgetKept'
<1>1. BudgetKept'
  BY DEF BudgetKept
<1>2. CASE now' = now
  BY <1>1, <1>2 DEF WindowInv
<1>3. CASE now \in Nat /\ now' = now + 1
  <2>. SUFFICES ASSUME NEW c \in Clients PROVE Remembers(window[c], allowed[c], now')
    BY <1>1 DEF WindowInv
  <2>1. PICK w, a, t : w = window[c] /\ a = allowed[c] /\ t = now'
    OBVIOUS
  <2>2. a \in Seq(Allowances) /\ w \in Seq(Records) /\ Second \in Nat
    BY <2>1, Constants, DownlinkAssumption DEF BudgetTypes, Allowances, Records
  <2>3. Remembers(w, a, now)
    BY <2>1 DEF WindowInv
  <2>4. \A i \in 1 .. Len(a) : a[i].at \in Nat
    <3>1. \A i \in 1 .. Len(a) : a[i] \in Allowances
      BY <2>2
    <3>. QED  BY <3>1 DEF Allowances
  <2>5. t = now + 1 /\ now \in Nat
    BY <1>3, <2>1
  <2>6. \A i \in 1 .. Len(a) - Len(w) : i \in 1 .. Len(a)
    BY <2>2
  <2>7. \A i \in 1 .. Len(a) - Len(w) : ~(t - a[i].at < Second)
    BY <2>2, <2>3, <2>4, <2>5, <2>6 DEF Remembers
  <2>8. \A i \in 1 .. Len(a) : a[i].at <= t
    BY <2>3, <2>4, <2>5 DEF Remembers
  <2>9. Remembers(w, a, t)
    BY <2>3, <2>7, <2>8 DEF Remembers
  <2>. QED  BY <2>1, <2>9
<1>. QED  BY <1>2, <1>3

\* check_budget forgets what is old, and remembers what it lets through.
LEMMA CheckKeeps ==
    ASSUME NEW a \in Seq(Allowances), NEW w \in Seq(Records), NEW t \in Nat,
           Remembers(w, a, t), NEW k \in 1 .. Len(w) + 1,
           \A i \in 1 .. k - 1 : ~(t - w[i].at < Second),
           NEW r, r = SubSeq(w, k, Len(w))
    PROVE  /\ Remembers(r, a, t)
           /\ \A e \in Allowances, x \in Records :
                 e.at = t /\ x.at = t /\ x.bytes = e.bytes
                   => Remembers(Append(r, x), Append(a, e), t)
<1>. DEFINE n == Len(a)
            d == n - Len(w)
            f == d + k - 1
<1>1. /\ d \in Nat /\ f \in Nat /\ f <= n /\ Len(w) \in Nat /\ n \in Nat
      /\ k \in Nat /\ k >= 1 /\ n - f = Len(w) - k + 1
  <2>1. Len(w) <= Len(a) /\ Len(w) \in Nat /\ Len(a) \in Nat
    BY DEF Remembers
  <2>. QED  BY <2>1
<1>2. /\ r \in Seq(Records) /\ Len(r) = n - f
      /\ \A x \in 1 .. n - f : r[x] = w[k + x - 1]
  <2>1. Len(w) \in Int /\ Len(w) <= Len(w) /\ k <= Len(w) + 1
    BY <1>1
  <2>2. /\ SubSeq(w, k, Len(w)) \in Seq(Records)
        /\ Len(SubSeq(w, k, Len(w))) = Len(w) - k + 1
        /\ \A x \in 1 .. Len(w) - k + 1 : SubSeq(w, k, Len(w))[x] = w[k + x - 1]
    BY <2>1, Cut
  <2>. QED  BY <1>1, <2>2
<1>3. ASSUME NEW x \in 1 .. n - f
      PROVE  r[x].at = a[f + x].at /\ r[x].bytes = a[f + x].bytes
  <2>1. k + x - 1 \in 1 .. Len(w) /\ d + (k + x - 1) = f + x
    BY <1>1
  <2>. DEFINE y == k + x - 1
  <2>2. y \in 1 .. Len(w) /\ d + y = f + x
    BY <2>1
  <2>. HIDE DEF y, d, f
  <2>3. w[y].at = a[d + y].at /\ w[y].bytes = a[d + y].bytes
    BY <2>2 DEF Remembers, d
  <2>. QED  BY <1>2, <2>2, <2>3 DEF y
<1>4. ASSUME NEW i \in 1 .. f PROVE ~(t - a[i].at < Second)
  <2>1. CASE i <= d
    <3>1. i \in 1 .. d
      BY <1>1, <2>1
    <3>. QED  BY <3>1 DEF Remembers
  <2>2. CASE i > d
    <3>. DEFINE x == i - d
    <3>1. x \in 1 .. k - 1 /\ x \in 1 .. Len(w) /\ d + x = i
      BY <1>1, <2>2
    <3>. HIDE DEF x, d
    <3>2. w[x].at = a[d + x].at
      BY <3>1 DEF Remembers, d
    <3>. QED  BY <3>1, <3>2
  <2>. QED  BY <1>1, <2>1, <2>2
<1>5. /\ \A i, j \in 1 .. n : i <= j => a[i].at <= a[j].at
      /\ \A i \in 1 .. n : a[i].at <= t
  BY DEF Remembers
<1>6. n - Len(r) = f
  BY <1>1, <1>2
<1>. HIDE DEF d, f
<1>7. Remembers(r, a, t)
  BY <1>1, <1>2, <1>3, <1>4, <1>5, <1>6 DEF Remembers
<1>8. ASSUME NEW e \in Allowances, NEW x \in Records, e.at = t, x.at = t, x.bytes = e.bytes
      PROVE  Remembers(Append(r, x), Append(a, e), t)
  <2>1. PICK q, b : q = Append(r, x) /\ b = Append(a, e)
    OBVIOUS
  <2>2. /\ Len(b) = n + 1 /\ b[n + 1] = e /\ \A i \in 1 .. n : b[i] = a[i]
        /\ Len(q) = n - f + 1 /\ q[n - f + 1] = x /\ \A i \in 1 .. n - f : q[i] = r[i]
    BY <1>2, <2>1
  <2>3. Len(q) <= Len(b) /\ Len(b) - Len(q) = f
    BY <1>1, <2>2
  <2>4. ASSUME NEW i \in 1 .. Len(q) PROVE q[i].at = b[f + i].at /\ q[i].bytes = b[f + i].bytes
    <3>1. CASE i = n - f + 1
      <4>1. f + i = n + 1
        BY <1>1, <3>1
      <4>. QED  BY <1>8, <2>2, <3>1, <4>1
    <3>2. CASE i # n - f + 1
      <4>1. i \in 1 .. n - f /\ f + i \in 1 .. n
        BY <1>1, <2>2, <3>2
      <4>. QED  BY <1>3, <2>2, <4>1
    <3>. QED  BY <3>1, <3>2
  <2>5. ASSUME NEW i \in 1 .. f PROVE ~(t - b[i].at < Second)
    <3>1. i \in 1 .. n
      BY <1>1
    <3>. QED  BY <1>4, <2>2, <3>1
  <2>6. ASSUME NEW i \in 1 .. Len(b) PROVE b[i].at <= t /\ (i = n + 1 \/ i \in 1 .. n)
    <3>1. i = n + 1 \/ i \in 1 .. n
      BY <1>1, <2>2
    <3>2. t <= t
      OBVIOUS
    <3>3. i \in 1 .. n => b[i] = a[i] /\ a[i].at <= t
      BY <1>5, <2>2
    <3>4. i = n + 1 => b[i].at = t
      BY <1>8, <2>2
    <3>. QED  BY <3>1, <3>2, <3>3, <3>4
  <2>7. ASSUME NEW i \in 1 .. Len(b), NEW j \in 1 .. Len(b), i <= j
        PROVE  b[i].at <= b[j].at
    <3>1. CASE j = n + 1
      BY <1>8, <2>2, <2>6, <3>1
    <3>2. CASE j \in 1 .. n
      <4>1. i \in 1 .. n
        BY <1>1, <2>7, <3>2
      <4>. QED  BY <1>5, <2>2, <2>7, <3>2, <4>1
    <3>. QED  BY <2>6, <3>1, <3>2
  <2>8. Remembers(q, b, t)
    BY <2>3, <2>4, <2>5, <2>6, <2>7 DEF Remembers
  <2>. QED  BY <2>1, <2>8
<1>. QED  BY <1>7, <1>8

LEMMA CheckBudgetKept ==
    ASSUME TypeOK, WindowInv, BudgetKept, NEW m \in Sends, CheckBudget(m), now' = now
    PROVE  WindowInv' /\ BudgetKept'
<1>1. BudgetTypes /\ SessionTypes /\ now \in Nat
  BY TypeParts, DownlinkAssumption DEF HistoryTypes
<1>2. m.to \in Clients /\ Bytes(m) \in Nat
  BY MessageSize
<1>3. CASE budget[m.to] = NoBudget
  <2>1. UNCHANGED <<window, allowed>>
    BY <1>3 DEF CheckBudget
  <2>. QED  BY <1>1, <2>1, BudgetQuiet
<1>4. CASE budget[m.to] # NoBudget
  <2>. DEFINE c == m.to
              rec == [at |-> now, bytes |-> Bytes(m)]
              lim == budget[m.to] * BytesPerKbps
              entry == [at |-> now, bytes |-> Bytes(m), limit |-> lim]
  <2>1. /\ window' = [window EXCEPT ![c] =
                        Recent(c) \o (IF InBudget(m) THEN <<rec>> ELSE <<>>)]
        /\ allowed' = IF InBudget(m) THEN [allowed EXCEPT ![c] = Append(@, entry)]
                      ELSE allowed
    BY <1>4 DEF CheckBudget
  <2>2. /\ window \in [Clients -> Seq(Records)] /\ allowed \in [Clients -> Seq(Allowances)]
        /\ c \in Clients
    BY <1>1, <1>2 DEF BudgetTypes, Records, Allowances
  <2>3. lim \in Nat
    <3>1. budget[m.to] \in Nat /\ BytesPerKbps \in Nat
      BY <1>1, <1>2, <1>4, DownlinkAssumption DEF SessionTypes
    <3>. QED  BY <3>1
  <2>4. SumBytes(Recent(c)) + Bytes(m) <= lim \/ ~InBudget(m)
    BY <1>4 DEF InBudget
  <2>5. PICK k \in 1 .. Len(window[c]) + 1 :
           /\ Recent(c) = SubSeq(window[c], k, Len(window[c]))
           /\ Recent(c) \in Seq(Records)
           /\ \A i \in 1 .. k - 1 : ~(now - window[c][i].at < Second)
    BY <1>1, <1>2, RecentIs DEF Records
  <2>. HIDE DEF lim
  <2>6. rec \in Records /\ entry \in Allowances
    BY <1>1, <1>2, <2>3 DEF Records, Allowances
  <2>7. /\ rec.at = now /\ entry.at = now /\ rec.bytes = entry.bytes
        /\ entry.bytes = Bytes(m) /\ entry.limit = lim
    OBVIOUS
  <2>. HIDE DEF rec, entry, c
  <2>8. Remembers(window[c], allowed[c], now)
    BY <2>2 DEF WindowInv
  <2>9. Within(allowed[c])
    BY <2>2 DEF BudgetKept, Within
  <2>10. /\ Remembers(Recent(c), allowed[c], now)
         /\ Remembers(Append(Recent(c), rec), Append(allowed[c], entry), now)
    <3>1. PICK a, w, r : a = allowed[c] /\ w = window[c] /\ r = Recent(c)
      OBVIOUS
    <3>2. /\ a \in Seq(Allowances) /\ w \in Seq(Records) /\ now \in Nat
          /\ Remembers(w, a, now) /\ k \in 1 .. Len(w) + 1 /\ r = SubSeq(w, k, Len(w))
          /\ \A i \in 1 .. k - 1 : ~(now - w[i].at < Second)
      BY <1>1, <2>2, <2>5, <2>8, <3>1
    <3>3. /\ Remembers(r, a, now)
          /\ \A e \in Allowances, x \in Records :
                e.at = now /\ x.at = now /\ x.bytes = e.bytes
                  => Remembers(Append(r, x), Append(a, e), now)
      BY ONLY <3>2, CheckKeeps
    <3>. QED  BY <2>6, <2>7, <3>1, <3>3
  <2>11. CASE InBudget(m)
    <3>1. window'[c] = Append(Recent(c), rec) /\ allowed'[c] = Append(allowed[c], entry)
      <4>1. window'[c] = Recent(c) \o <<rec>> /\ allowed'[c] = Append(allowed[c], entry)
        BY <2>1, <2>2, <2>11
      <4>2. Recent(c) \o <<rec>> = Append(Recent(c), rec)
        BY <2>5, <2>6
      <4>. QED  BY <4>1, <4>2
    <3>2. \A d \in Clients : d # c => window'[d] = window[d] /\ allowed'[d] = allowed[d]
      BY <2>1, <2>2, <2>11
    <3>3. WindowInv'
      <4>. SUFFICES ASSUME NEW d \in Clients PROVE Remembers(window'[d], allowed'[d], now')
        BY DEF WindowInv
      <4>1. CASE d = c
        BY <2>10, <3>1, <4>1
      <4>2. CASE d # c
        <5>1. window'[d] = window[d] /\ allowed'[d] = allowed[d]
          BY <3>2, <4>2
        <5>. QED  BY <5>1 DEF WindowInv
      <4>. QED  BY <4>1, <4>2
    <3>4. Within(allowed'[c])
      <4>1. PICK a, w, r : a = allowed[c] /\ w = window[c] /\ r = Recent(c)
        OBVIOUS
      <4>2. /\ a \in Seq(Allowances) /\ w \in Seq(Records) /\ now \in Nat
            /\ Remembers(w, a, now) /\ Within(a) /\ k \in 1 .. Len(w) + 1
            /\ r = SubSeq(w, k, Len(w)) /\ \A i \in 1 .. k - 1 : ~(now - w[i].at < Second)
        BY <1>1, <2>2, <2>5, <2>8, <2>9, <4>1
      <4>3. SumBytes(r) + entry.bytes <= entry.limit
        BY <2>4, <2>7, <2>11, <4>1 DEF c
      <4>4. Within(Append(a, entry))
        BY ONLY <2>6, <2>7, <4>2, <4>3, OneMore
      <4>. QED  BY <3>1, <4>1, <4>4
    <3>5. BudgetKept'
      <4>. SUFFICES ASSUME NEW d \in Clients PROVE Within(allowed'[d])
        BY DEF BudgetKept, Within
      <4>1. CASE d # c
        <5>1. allowed'[d] = allowed[d]
          BY <3>2, <4>1
        <5>2. Within(allowed[d])
          BY DEF BudgetKept, Within
        <5>. QED  BY <5>1, <5>2
      <4>. QED  BY <3>4, <4>1
    <3>. QED  BY <3>3, <3>5
  <2>12. CASE ~InBudget(m)
    <3>1. window' = [window EXCEPT ![c] = Recent(c)] /\ allowed' = allowed
      <4>1. window' = [window EXCEPT ![c] = Recent(c) \o <<>>] /\ allowed' = allowed
        BY <2>1, <2>12
      <4>2. Recent(c) \o <<>> = Recent(c)
        BY <2>5
      <4>. QED  BY <4>1, <4>2
    <3>2. BudgetKept'
      BY <3>1 DEF BudgetKept
    <3>3. WindowInv'
      <4>. SUFFICES ASSUME NEW d \in Clients PROVE Remembers(window'[d], allowed'[d], now')
        BY DEF WindowInv
      <4>1. CASE d = c
        BY <2>2, <2>10, <3>1, <4>1
      <4>2. CASE d # c
        <5>1. window'[d] = window[d] /\ allowed'[d] = allowed[d]
          BY <2>2, <3>1, <4>2
        <5>. QED  BY <5>1 DEF WindowInv
      <4>. QED  BY <4>1, <4>2
    <3>. QED  BY <3>2, <3>3
  <2>. QED  BY <2>11, <2>12
<1>. QED  BY <1>3, <1>4

LEMMA BudgetInit == Init => WindowInv /\ BudgetKept
<1>. SUFFICES ASSUME Init PROVE WindowInv /\ BudgetKept
  OBVIOUS
<1>1. window = [c \in Clients |-> <<>>] /\ allowed = [c \in Clients |-> <<>>]
  BY DEF Init
<1>2. \A c \in Clients : window[c] = <<>> /\ allowed[c] = <<>>
  BY <1>1
<1>3. WindowInv
  <2>1. PICK none : none = <<>>
    OBVIOUS
  <2>2. Len(none) = 0
    BY <2>1
  <2>3. Remembers(none, none, now)
    BY <2>2 DEF Remembers
  <2>. QED  BY <1>2, <2>1, <2>3 DEF WindowInv
<1>4. BudgetKept
  BY <1>2 DEF BudgetKept
<1>. QED  BY <1>3, <1>4

LEMMA BudgetNext == TypeOK /\ WindowInv /\ BudgetKept /\ [Next]_vars => (WindowInv /\ BudgetKept)'
<1>. SUFFICES ASSUME TypeOK, WindowInv, BudgetKept, [Next]_vars PROVE WindowInv' /\ BudgetKept'
  OBVIOUS
<1>1. BudgetTypes /\ now \in Nat
  BY TypeParts, DownlinkAssumption DEF HistoryTypes
<1>2. CASE SendOutbound
  <2>. DEFINE m == Head(todo)
  <2>1. /\ todo # <<>> /\ now' = now
        /\ IF PackOk(m) THEN CheckBudget(m) ELSE UNCHANGED <<window, allowed>>
    BY <1>2 DEF SendOutbound
  <2>2. m \in Sends
    <3>1. todo \in Seq(Sends)
      BY DEF TypeOK
    <3>. QED  BY <2>1, <3>1, HeadTail
  <2>. HIDE DEF m
  <2>3. CASE PackOk(m)
    BY <2>1, <2>2, <2>3, CheckBudgetKept
  <2>4. CASE ~PackOk(m)
    BY <1>1, <2>1, <2>4, BudgetQuiet
  <2>. QED  BY <2>3, <2>4
<1>3. CASE HandleLogicFrame
  <2>1. UNCHANGED <<window, allowed, now>>
    BY <1>3 DEF HandleLogicFrame, sessionVars, Kick, SetBudget
  <2>. QED  BY <1>1, <2>1, BudgetQuiet
<1>4. CASE Tick
  <2>1. now' = now + 1 /\ UNCHANGED <<window, allowed>>
    BY <1>4 DEF Tick, sessionVars
  <2>. QED  BY <1>1, <2>1, BudgetQuiet
<1>5. ASSUME \/ \E f \in Script : Write(f)
             \/ \E n \in 1 .. ChunkLen : ReadChunk(n)
             \/ LinkBreak
             \/ \E c \in Clients : MaintainReliable(c) \/ ReceiveUdp(c) \/ Maintain(c)
             \/ \E c \in Clients, k \in Kinds : Accept(c, k)
             \/ \E i \in DOMAIN conns : Connection(i)
             \/ UNCHANGED vars
      PROVE  UNCHANGED <<window, allowed, now>>
  BY <1>5 DEF Write, ReadChunk, LinkBreak, MaintainReliable, ReceiveUdp, Maintain, Accept,
              Connection, ConnStart, UpgradeFails, ConnRead, ConnWrite, ConnEnd,
              HandleDatagram, vars, sessionVars
<1>. QED  BY <1>1, <1>2, <1>3, <1>4, <1>5, BudgetQuiet DEF Next

\* In the second up to a message that check_budget lets through, the session
\* is given no more than its budget of then, although check_budget looks at
\* its own records only and throws away those it takes for old.
THEOREM WithinBudget == Spec => []BudgetKept
<1>1. Init => StreamInv /\ TypeOK /\ WindowInv /\ BudgetKept
  BY StreamInit, InitTypes, BudgetInit
<1>2. StreamInv /\ TypeOK /\ WindowInv /\ BudgetKept /\ [Next]_vars
        => (StreamInv /\ TypeOK /\ WindowInv /\ BudgetKept)'
  BY StreamNext, NextTypes, BudgetNext
<1>. QED  BY <1>1, <1>2, PTL DEF Spec
=============================================================================
