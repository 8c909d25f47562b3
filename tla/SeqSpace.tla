------------------------------ MODULE SeqSpace ------------------------------
(***************************************************************************)
(* The 16-bit sequence space of the datagram header.  A sequence number on  *)
(* the wire is a value of 0 .. WireMod-1; the operators below are the       *)
(* wrapping comparisons of session/table.rs and reliable/retransmit.rs and  *)
(* the interpretation of the (ack, ack_bits) pair of a header.              *)
(*                                                                         *)
(* The code has WireMod = 65536 and AckBits = 32; both are parameters so    *)
(* that a small instance wraps around within a few packets.                 *)
(***************************************************************************)
EXTENDS Integers

CONSTANTS HalfSeq,   \* 32768 in the code: half of the sequence space
          AckBits    \* 32 in the code: the width of ack_bits

ASSUME SeqSpaceAssumption ==
    /\ HalfSeq \in Nat \ {0}
    /\ AckBits \in Nat
    /\ AckBits < HalfSeq

WireMod == 2 * HalfSeq

SeqNos == 0 .. WireMod - 1

\* The wire value of the n-th sequence number a sender hands out.
Wire(n) == n % WireMod

\* u16::wrapping_add and u16::wrapping_sub
WrapAdd(s, d) == (s + d) % WireMod
WrapSub(a, b) == (a - b) % WireMod

\* A slip: the plain comparison, right until the first wrap.
MutSeqNewer(a, b) == a > b

\* (a.wrapping_sub(b) as i16) > 0
SeqNewer(a, b) == WrapSub(a, b) \in 1 .. HalfSeq - 1

\* (a.wrapping_sub(b) as i16) < 0
SeqLt(a, b) == WrapSub(a, b) >= HalfSeq

\* A slip: the bit of the number after the one asked for.
MutIsAcked(seq, a) ==
    \/ ~SeqNewer(seq, a.ack)
    \/ WrapSub(seq, a.ack) + 1 \in a.bits

(***************************************************************************)
(* is_acked: everything up to ack is acknowledged, and of the AckBits       *)
(* numbers after it those whose bit is set.  a.bits is the set of the       *)
(* distances from ack whose bit is 1.                                       *)
(***************************************************************************)
IsAcked(seq, a) ==
    \/ ~SeqNewer(seq, a.ack)
    \/ WrapSub(seq, a.ack) \in a.bits
=============================================================================
