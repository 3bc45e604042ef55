------------------------------- MODULE Erasure -------------------------------
(***************************************************************************)
(* The 2-of-4 erasure code.  A byte is the set of its one bits, so that    *)
(* the field's addition is the symmetric difference of sets.  Every        *)
(* operator works on single bytes: the code applies them to each position  *)
(* of a buffer.                                                            *)
(***************************************************************************)
EXTENDS Integers, Sequences

Bits == 0 .. 7
Byte == SUBSET Bits

Xor(a, b) == (a \ b) \cup (b \ a)

\* a << 1, reduced by x^8 + x^4 + x^3 + x + 1 when a bit is carried out.
Doubled(a) == Xor({i + 1 : i \in a \ {7}}, IF 7 \in a THEN {0, 1, 3, 4} ELSE {})

\* The loop of gf_mul: a is doubled for every bit of b and added where the bit is set.
Added(result, b, i, a) == IF i \in b THEN Xor(result, a) ELSE result
GfMul(a, b) ==
  LET a1 == Doubled(a)   a2 == Doubled(a1)  a3 == Doubled(a2)  a4 == Doubled(a3)
      a5 == Doubled(a4)  a6 == Doubled(a5)  a7 == Doubled(a6)
      r0 == Added({}, b, 0, a)   r1 == Added(r0, b, 1, a1)  r2 == Added(r1, b, 2, a2)
      r3 == Added(r2, b, 3, a3)  r4 == Added(r3, b, 4, a4)  r5 == Added(r4, b, 5, a5)
      r6 == Added(r5, b, 6, a6)
  IN Added(r6, b, 7, a7)

One   == {0}
Two   == {1}
Three == {0, 1}
GfInv(x) == IF x = {} THEN {} ELSE CHOOSE c \in Byte : GfMul(x, c) = One

Parity0(d0, d1) == Xor(d0, d1)
Parity1(d0, d1) == Xor(GfMul(d0, Two), GfMul(d1, Three))

\* The four shards' bytes for one position of the two halves.
Encoded(d0, d1) == <<d0, d1, Parity0(d0, d1), Parity1(d0, d1)>>

\* Pairs of shards in the order they are tried; shards are numbered from 1.
Order == <<<<1, 2>>, <<1, 3>>, <<2, 3>>, <<1, 4>>, <<2, 4>>, <<3, 4>>>>
Usable(present) == {i \in 1 .. 6 : {Order[i][1], Order[i][2]} \subseteq present}
ChoosePair(present) ==
  Order[CHOOSE i \in Usable(present) : \A j \in Usable(present) : i <= j]

InvTwo   == GfInv(Two)
\* Mutation of InvThree: the inverse of the wrong coefficient.
InvMistaken == GfInv(Two)
InvThree == GfInv(Three)

\* Both data bytes from the bytes of a pair.
Reconstruct(pair, a, b) ==
  CASE pair = <<1, 2>> -> <<a, b>>
    [] pair = <<1, 3>> -> <<a, Xor(a, b)>>
    [] pair = <<2, 3>> -> <<Xor(a, b), a>>
    [] pair = <<1, 4>> -> <<a, GfMul(Xor(b, GfMul(a, Two)), InvThree)>>
    [] pair = <<2, 4>> -> <<GfMul(Xor(b, GfMul(a, Three)), InvTwo), a>>
    [] pair = <<3, 4>> -> <<Xor(a, Xor(b, GfMul(a, Two))), Xor(b, GfMul(a, Two))>>
=============================================================================
