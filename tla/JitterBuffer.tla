---------------------------- MODULE JitterBuffer ----------------------------
(***************************************************************************)
(* The jitter buffer of a player (soup-sdk-go/jitter.go) as functions of    *)
(* the part of pstate that it uses: jbuf, lastSeq, hasInput and, as last,   *)
(* the payload to repeat.  An input n of the client has the InputSeq n       *)
(* modulo 2 * SeqHalf; n stands for the payload too, which is not empty.    *)
(***************************************************************************)
EXTENDS Integers, Sequences, FiniteSets, FiniteSetsExt, SequencesExt

CONSTANTS
    SeqHalf,      \* 32768: half the range of InputSeq
    JitterTicks,  \* Config.JitterBufferTicks (2)
    JitterCap,    \* jcap: JitterBufferTicks * 4 + 4
    None          \* no payload

ASSUME JitterAssumption ==
    /\ {SeqHalf, JitterTicks, JitterCap} \subseteq Nat \ {0}

InputMod == 2 * SeqHalf
InputSeq(n) == n % InputMod
NextSeq(s) == (s + 1) % InputMod

\* A slip: the plain comparison.
MutNewer(a, b) == a > b

\* int16(a-b) > 0
Newer(a, b) == (a - b) % InputMod \in 1 .. SeqHalf - 1

\* jitterDepth: two to five ticks, one more for each 60 ms.
Depth(rtt) ==
    LET d == JitterTicks + rtt \div 60 IN
    IF d < 2 THEN 2 ELSE IF d > 5 THEN 5 ELSE d

Entry(n, ct, due) == [n |-> n, seq |-> InputSeq(n), ct |-> ct, due |-> due]

Known(st, e) ==
    \/ st.hasInput /\ ~Newer(e.seq, st.lastSeq)
    \/ \E i \in DOMAIN st.jbuf : st.jbuf[i].seq = e.seq

(***************************************************************************)
(* insertJitter: an input already handed on or in the buffer is ignored; a  *)
(* full buffer loses its head; the input goes before the first newer one.   *)
(***************************************************************************)
InsertJitter(st, e) ==
    LET kept  == IF Len(st.jbuf) >= JitterCap THEN Tail(st.jbuf) ELSE st.jbuf
        newer == {i \in DOMAIN kept : Newer(kept[i].seq, e.seq)}
        pos   == IF newer = {} THEN Len(kept) + 1 ELSE Min(newer)
    IN IF Known(st, e) THEN st
       ELSE [st EXCEPT !.jbuf = InsertAt(kept, pos, e)]

\* A slip: a hole does not hold up delivery.
MutFollows(st, i) == TRUE

\* The i-th input of the buffer continues what was handed on.
Follows(st, i) ==
    IF i = 1 THEN st.hasInput => st.jbuf[1].seq = NextSeq(st.lastSeq)
    ELSE st.jbuf[i].seq = NextSeq(st.jbuf[i - 1].seq)

\* How many inputs deliverReadyInputs takes out of the buffer at this tick.
ReadyCount(st, tick) ==
    Max({k \in 0 .. Len(st.jbuf) :
            \A i \in 1 .. k : st.jbuf[i].due <= tick /\ Follows(st, i)})

Ready(st, tick) == SubSeq(st.jbuf, 1, ReadyCount(st, tick))

\* What it leaves behind.
AfterDelivery(st, tick) ==
    LET ready == Ready(st, tick) IN
    IF ready = <<>> THEN st
    ELSE [st EXCEPT !.jbuf = SubSeq(@, Len(ready) + 1, Len(@)),
                    !.lastSeq = Last(ready).seq, !.hasInput = TRUE,
                    !.last = Last(ready).n]

Pending(p, n, ct, again) == [player |-> p, n |-> n, ct |-> ct, again |-> again]

(***************************************************************************)
(* What player p contributes to pend: the ready inputs and, when the buffer *)
(* is empty then, the last one again.                                       *)
(***************************************************************************)
Contribution(p, st, tick) ==
    LET ready == Ready(st, tick)
        rest  == AfterDelivery(st, tick)
    IN [i \in DOMAIN ready |-> Pending(p, ready[i].n, ready[i].ct, FALSE)]
       \o (IF rest.jbuf = <<>> /\ rest.last # None
           THEN <<Pending(p, rest.last, tick, TRUE)>> ELSE <<>>)

\* The order of the sort.
Later(a, b) == a.ct > b.ct \/ (a.ct = b.ct /\ a.player > b.player)

(***************************************************************************)
(* One round of the insertion sort.  `j > 0 && A || B` guards only A: an     *)
(* element that gets to the front has B read pend[-1], which panics.        *)
(***************************************************************************)
SortRound(acc, e) ==
    LET before == {j \in DOMAIN acc.out : ~Later(acc.out[j], e)} IN
    IF acc.panic \/ (acc.out # <<>> /\ before = {}) THEN [acc EXCEPT !.panic = TRUE]
    ELSE [acc EXCEPT !.out = InsertAt(@, Cardinality(before) + 1, e)]

SortPending(pend) == FoldLeft(SortRound, [out |-> <<>>, panic |-> FALSE], pend)
=============================================================================
