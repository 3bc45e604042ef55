--------------------------- MODULE RecoveryProofs ---------------------------
(***************************************************************************)
(* What the erasure code computes, for every pair of data bytes: each of   *)
(* its six recovery rules gives the data back.  Two of them divide in the  *)
(* field by a coefficient of the parity; that its inverse divides rests on *)
(* the reduction by x^8 + x^4 + x^3 + x + 1, which doubling applies.       *)
(***************************************************************************)
EXTENDS Recovery, FiniteSetTheorems, SequenceTheorems, TLAPS

LEMMA XorByte == ASSUME NEW a \in Byte, NEW b \in Byte PROVE Xor(a, b) \in Byte
BY DEF Xor, Byte

LEMMA XorCancels ==
  ASSUME NEW a \in Byte, NEW b \in Byte
  PROVE  Xor(a, Xor(a, b)) = b /\ Xor(b, Xor(a, b)) = a
BY DEF Xor, Byte

LEMMA XorSame ==
  ASSUME NEW a \in Byte, NEW b \in Byte, NEW c \in Byte
  PROVE  Xor(Xor(a, Xor(b, c)), Xor(a, b)) = c
BY DEF Xor, Byte

\* What a byte's double holds, bit by bit.
LEMMA DoubledBits ==
  ASSUME NEW a \in Byte
  PROVE  /\ Doubled(a) \in Byte
         /\ \A i \in Bits : i \in Doubled(a) <=>
              (((i > 0 /\ i - 1 \in a) /\ ~(7 \in a /\ i \in {0, 1, 3, 4}))
               \/ (~(i > 0 /\ i - 1 \in a) /\ (7 \in a /\ i \in {0, 1, 3, 4})))
<1> DEFINE shifted == {i + 1 : i \in a \ {7}}
           carry == IF 7 \in a THEN {0, 1, 3, 4} ELSE {}
<1>1. shifted \in Byte /\ \A i \in Bits : i \in shifted <=> (i > 0 /\ i - 1 \in a)
  BY DEF Byte, Bits
<1>2. carry \in Byte /\ \A i \in Bits : i \in carry <=> (7 \in a /\ i \in {0, 1, 3, 4})
  BY DEF Byte, Bits
<1>3. Doubled(a) = Xor(shifted, carry)
  BY DEF Doubled
<1> HIDE DEF shifted, carry
<1> QED BY <1>1, <1>2, <1>3 DEF Xor, Byte

\* Doubling distributes over the field's addition.
LEMMA DoubledLinear ==
  ASSUME NEW a \in Byte, NEW b \in Byte
  PROVE  Doubled(Xor(a, b)) = Xor(Doubled(a), Doubled(b))
<1> DEFINE c == Xor(a, b)
<1>1. c \in Byte /\ \A i \in Bits : i \in c <=> (i \in a /\ i \notin b) \/ (i \in b /\ i \notin a)
  BY DEF Xor, Byte
<1>2. /\ Doubled(a) \in Byte /\ Doubled(b) \in Byte /\ Doubled(c) \in Byte
      /\ Xor(Doubled(a), Doubled(b)) \in Byte
  BY <1>1, DoubledBits, XorByte
<1>3. ASSUME NEW i \in Bits
      PROVE  i \in Doubled(c) <=> i \in Xor(Doubled(a), Doubled(b))
  <2> HIDE DEF c
  <2>1. 7 \in Bits /\ (i > 0 => i - 1 \in Bits)
    BY <1>3 DEF Bits
  <2>2. i \in Doubled(a) <=>
          (((i > 0 /\ i - 1 \in a) /\ ~(7 \in a /\ i \in {0, 1, 3, 4}))
           \/ (~(i > 0 /\ i - 1 \in a) /\ (7 \in a /\ i \in {0, 1, 3, 4})))
    BY <1>3, DoubledBits
  <2>3. i \in Doubled(b) <=>
          (((i > 0 /\ i - 1 \in b) /\ ~(7 \in b /\ i \in {0, 1, 3, 4}))
           \/ (~(i > 0 /\ i - 1 \in b) /\ (7 \in b /\ i \in {0, 1, 3, 4})))
    BY <1>3, DoubledBits
  <2>4. i \in Doubled(c) <=>
          (((i > 0 /\ i - 1 \in c) /\ ~(7 \in c /\ i \in {0, 1, 3, 4}))
           \/ (~(i > 0 /\ i - 1 \in c) /\ (7 \in c /\ i \in {0, 1, 3, 4})))
    BY <1>1, <1>3, DoubledBits
  <2>5. 7 \in c <=> (7 \in a /\ 7 \notin b) \/ (7 \in b /\ 7 \notin a)
    BY <1>1, <2>1
  <2>6. i > 0 => (i - 1 \in c <=> (i - 1 \in a /\ i - 1 \notin b) \/ (i - 1 \in b /\ i - 1 \notin a))
    BY <1>1, <2>1
  <2>7. i \in Xor(Doubled(a), Doubled(b)) <=>
          (i \in Doubled(a) /\ i \notin Doubled(b)) \/ (i \in Doubled(b) /\ i \notin Doubled(a))
    BY DEF Xor
  <2> QED BY <2>2, <2>3, <2>4, <2>5, <2>6, <2>7
<1> QED BY <1>2, <1>3 DEF Byte

\* The field's product by two and by three, which are the only coefficients of the parity.
LEMMA MulTwoThree ==
  ASSUME NEW a \in Byte
  PROVE  GfMul(a, Two) = Doubled(a) /\ GfMul(a, Three) = Xor(a, Doubled(a))
<1>1. \A x : Xor({}, x) = x
  BY DEF Xor
<1>2. \A r, x :
           /\ Added(r, Two, 0, x) = r /\ Added(r, Two, 1, x) = Xor(r, x)
           /\ Added(r, Two, 2, x) = r /\ Added(r, Two, 3, x) = r
           /\ Added(r, Two, 4, x) = r /\ Added(r, Two, 5, x) = r
           /\ Added(r, Two, 6, x) = r /\ Added(r, Two, 7, x) = r
  BY DEF Added, Two
<1>3. \A r, x :
           /\ Added(r, Three, 0, x) = Xor(r, x) /\ Added(r, Three, 1, x) = Xor(r, x)
           /\ Added(r, Three, 2, x) = r /\ Added(r, Three, 3, x) = r
           /\ Added(r, Three, 4, x) = r /\ Added(r, Three, 5, x) = r
           /\ Added(r, Three, 6, x) = r /\ Added(r, Three, 7, x) = r
  BY DEF Added, Three
<1>4. GfMul(a, Two) = Xor({}, Doubled(a))
  BY <1>2 DEF GfMul
<1>5. GfMul(a, Three) = Xor(Xor({}, a), Doubled(a))
  BY <1>3 DEF GfMul
<1> QED BY <1>1, <1>4, <1>5

-----------------------------------------------------------------------------
(* The inverses of two and three *)

\* b is a's double, bit by bit.
Doubles(b, a) ==
  /\ 0 \in b <=> 7 \in a
  /\ 1 \in b <=> ~(0 \in a <=> 7 \in a)
  /\ 2 \in b <=> 1 \in a
  /\ 3 \in b <=> ~(2 \in a <=> 7 \in a)
  /\ 4 \in b <=> ~(3 \in a <=> 7 \in a)
  /\ 5 \in b <=> 4 \in a
  /\ 6 \in b <=> 5 \in a
  /\ 7 \in b <=> 6 \in a

LEMMA DoubledIsDoubles ==
  ASSUME NEW a \in Byte
  PROVE  Doubled(a) \in Byte /\ Doubles(Doubled(a), a)
<1>1. ASSUME NEW i \in Bits
      PROVE  i \in Doubled(a) <=>
              (((i > 0 /\ i - 1 \in a) /\ ~(7 \in a /\ i \in {0, 1, 3, 4}))
               \/ (~(i > 0 /\ i - 1 \in a) /\ (7 \in a /\ i \in {0, 1, 3, 4})))
  BY DoubledBits
<1>2. 0 \in Doubled(a) <=> 7 \in a
  BY <1>1 DEF Bits
<1>3. 1 \in Doubled(a) <=> ~(0 \in a <=> 7 \in a)
  BY <1>1 DEF Bits
<1>4. 2 \in Doubled(a) <=> 1 \in a
  BY <1>1 DEF Bits
<1>5. 3 \in Doubled(a) <=> ~(2 \in a <=> 7 \in a)
  BY <1>1 DEF Bits
<1>6. 4 \in Doubled(a) <=> ~(3 \in a <=> 7 \in a)
  BY <1>1 DEF Bits
<1>7. /\ 5 \in Doubled(a) <=> 4 \in a
      /\ 6 \in Doubled(a) <=> 5 \in a
      /\ 7 \in Doubled(a) <=> 6 \in a
  BY <1>1 DEF Bits
<1> QED BY <1>2, <1>3, <1>4, <1>5, <1>6, <1>7, DoubledBits DEF Doubles

LEMMA SameByte ==
  ASSUME NEW a \in Byte, NEW b \in Byte,
         0 \in a <=> 0 \in b, 1 \in a <=> 1 \in b, 2 \in a <=> 2 \in b, 3 \in a <=> 3 \in b,
         4 \in a <=> 4 \in b, 5 \in a <=> 5 \in b, 6 \in a <=> 6 \in b, 7 \in a <=> 7 \in b
  PROVE  a = b
<1>1. \A i \in Bits : i \in a <=> i \in b
  BY DEF Bits
<1> QED BY <1>1 DEF Byte

LEMMA XorBits ==
  \A a, b, i : i \in Xor(a, b) <=> ~(i \in a <=> i \in b)
BY DEF Xor

\* Doubled eight times, a byte is reduced by the field's polynomial.
LEMMA EighthDouble ==
  ASSUME NEW a \in Byte, NEW a1, NEW a2, NEW a3, NEW a4, NEW a5, NEW a6, NEW a7, NEW a8,
         a1 = Doubled(a), a2 = Doubled(a1), a3 = Doubled(a2), a4 = Doubled(a3),
         a5 = Doubled(a4), a6 = Doubled(a5), a7 = Doubled(a6), a8 = Doubled(a7)
  PROVE  a8 = Xor(a, Xor(a1, Xor(a3, a4)))
<1>1. a1 \in Byte /\ Doubles(a1, a)
  BY DoubledIsDoubles
<1>2. a2 \in Byte /\ Doubles(a2, a1)
  BY <1>1, DoubledIsDoubles
<1>3. a3 \in Byte /\ Doubles(a3, a2)
  BY <1>2, DoubledIsDoubles
<1>4. a4 \in Byte /\ Doubles(a4, a3)
  BY <1>3, DoubledIsDoubles
<1>5. a5 \in Byte /\ Doubles(a5, a4)
  BY <1>4, DoubledIsDoubles
<1>6. a6 \in Byte /\ Doubles(a6, a5)
  BY <1>5, DoubledIsDoubles
<1>7. a7 \in Byte /\ Doubles(a7, a6)
  BY <1>6, DoubledIsDoubles
<1>8. a8 \in Byte /\ Doubles(a8, a7)
  BY <1>7, DoubledIsDoubles
<1> DEFINE z == Xor(a, Xor(a1, Xor(a3, a4)))
<1>9. z \in Byte
  BY <1>1, <1>3, <1>4, XorByte
<1>10. \A i : i \in z <=> ~(i \in a <=> ~(i \in a1 <=> ~(i \in a3 <=> i \in a4)))
  BY XorBits
<1> HIDE DEF z
<1>11. /\ 0 \in a8 <=> 0 \in z
       /\ 1 \in a8 <=> 1 \in z
       /\ 2 \in a8 <=> 2 \in z
       /\ 3 \in a8 <=> 3 \in z
       /\ 4 \in a8 <=> 4 \in z
       /\ 5 \in a8 <=> 5 \in z
       /\ 6 \in a8 <=> 6 \in z
       /\ 7 \in a8 <=> 7 \in z
  BY ONLY <1>1, <1>2, <1>3, <1>4, <1>5, <1>6, <1>7, <1>8, <1>10 DEF Doubles
<1>12. a8 = z
  BY <1>8, <1>9, <1>11, SameByte
<1> QED BY <1>12 DEF z

LEMMA AddedBits ==
  \A r, b, k, x, i : i \in Added(r, b, k, x) <=> ~(i \in r <=> (k \in b /\ i \in x))
BY XorBits DEF Added

\* The product with two or three on the left is the product on the right.
LEMMA TwoThreeTimes ==
  ASSUME NEW c \in Byte
  PROVE  /\ \A i \in Bits : i \in GfMul(Two, c) <=> i \in Doubled(c)
         /\ \A i \in Bits : i \in GfMul(Three, c) <=> i \in Xor(c, Doubled(c))
<1>1. Doubles(Doubled(c), c)
  BY DoubledIsDoubles
<1>2. /\ Doubled({1}) = {2} /\ Doubled({2}) = {3} /\ Doubled({3}) = {4} /\ Doubled({4}) = {5}
      /\ Doubled({5}) = {6} /\ Doubled({6}) = {7}
  BY DEF Doubled, Xor
<1>3. Doubled({7}) = {0, 1, 3, 4}
  BY DEF Doubled, Xor
<1>4. ASSUME NEW i \in Bits PROVE i \in GfMul(Two, c) <=> i \in Doubled(c)
  <2>1. GfMul(Two, c) =
          Added(Added(Added(Added(Added(Added(Added(Added({}, c, 0, {1}), c, 1, {2}), c, 2, {3}),
            c, 3, {4}), c, 4, {5}), c, 5, {6}), c, 6, {7}), c, 7, {0, 1, 3, 4})
    BY <1>2, <1>3 DEF GfMul, Two
  <2>2. i \in GfMul(Two, c) <=>
          ~(~(~(~(~(~(~(~(FALSE <=> (0 \in c /\ i = 1)) <=> (1 \in c /\ i = 2))
            <=> (2 \in c /\ i = 3)) <=> (3 \in c /\ i = 4)) <=> (4 \in c /\ i = 5))
            <=> (5 \in c /\ i = 6)) <=> (6 \in c /\ i = 7)) <=> (7 \in c /\ i \in {0, 1, 3, 4}))
    BY <2>1, AddedBits
  <2>3. i \in {0, 1, 2, 3, 4, 5, 6, 7}
    BY DEF Bits
  <2> QED BY <1>1, <2>2, <2>3 DEF Doubles
<1>5. /\ Doubled({0, 1}) = {1, 2} /\ Doubled({1, 2}) = {2, 3} /\ Doubled({2, 3}) = {3, 4}
      /\ Doubled({3, 4}) = {4, 5} /\ Doubled({4, 5}) = {5, 6} /\ Doubled({5, 6}) = {6, 7}
  BY DEF Doubled, Xor
<1>6. Doubled({6, 7}) = {0, 1, 3, 4, 7}
  BY DEF Doubled, Xor
<1>7. ASSUME NEW i \in Bits PROVE i \in GfMul(Three, c) <=> i \in Xor(c, Doubled(c))
  <2>1. GfMul(Three, c) =
          Added(Added(Added(Added(Added(Added(Added(Added({}, c, 0, {0, 1}), c, 1, {1, 2}),
            c, 2, {2, 3}), c, 3, {3, 4}), c, 4, {4, 5}), c, 5, {5, 6}), c, 6, {6, 7}),
            c, 7, {0, 1, 3, 4, 7})
    BY <1>5, <1>6 DEF GfMul, Three
  <2>2. i \in GfMul(Three, c) <=>
          ~(~(~(~(~(~(~(~(FALSE <=> (0 \in c /\ i \in {0, 1})) <=> (1 \in c /\ i \in {1, 2}))
            <=> (2 \in c /\ i \in {2, 3})) <=> (3 \in c /\ i \in {3, 4}))
            <=> (4 \in c /\ i \in {4, 5})) <=> (5 \in c /\ i \in {5, 6}))
            <=> (6 \in c /\ i \in {6, 7})) <=> (7 \in c /\ i \in {0, 1, 3, 4, 7}))
    BY <2>1, AddedBits
  <2>3. i \in {0, 1, 2, 3, 4, 5, 6, 7}
    BY DEF Bits
  <2>4. i \in Xor(c, Doubled(c)) <=> ~(i \in c <=> i \in Doubled(c))
    BY XorBits
  <2> QED BY <1>1, <2>2, <2>3, <2>4 DEF Doubles
<1> QED BY <1>4, <1>7

LEMMA GfMulByte ==
  ASSUME NEW a \in Byte, NEW b \in Byte PROVE GfMul(a, b) \in Byte
<1>1. \A r \in Byte, k \in Bits, x \in Byte : Added(r, b, k, x) \in Byte
  BY XorByte DEF Added
<1>2. {} \in Byte /\ \A x \in Byte : Doubled(x) \in Byte
  BY DoubledBits DEF Byte
<1>3. /\ 0 \in Bits /\ 1 \in Bits /\ 2 \in Bits /\ 3 \in Bits
      /\ 4 \in Bits /\ 5 \in Bits /\ 6 \in Bits /\ 7 \in Bits
  BY DEF Bits
<1> QED BY <1>1, <1>2, <1>3 DEF GfMul

\* The product does not depend on the side on which two or three stands.
LEMMA TwoThreeLeft ==
  ASSUME NEW c \in Byte
  PROVE  GfMul(Two, c) = Doubled(c) /\ GfMul(Three, c) = Xor(c, Doubled(c))
<1>1. /\ GfMul(Two, c) \in Byte /\ GfMul(Three, c) \in Byte
      /\ Doubled(c) \in Byte /\ Xor(c, Doubled(c)) \in Byte
  BY GfMulByte, DoubledBits, XorByte DEF Two, Three, Byte, Bits
<1> QED BY <1>1, TwoThreeTimes DEF Byte

LEMMA OneIs == One \in Byte /\ 0 \in One /\ \A i \in 1 .. 7 : i \notin One
BY DEF One, Byte, Bits

\* Exactly one byte times two, and exactly one times three, is one.
LEMMA InvTwoIs == InvTwo = {0, 2, 3, 7}
<1>1. {0, 2, 3, 7} \in Byte
  BY DEF Byte, Bits
<1>2. ASSUME NEW c \in Byte PROVE GfMul(Two, c) = One <=> c = {0, 2, 3, 7}
  <2>1. Doubled(c) \in Byte /\ Doubles(Doubled(c), c) /\ GfMul(Two, c) = Doubled(c)
    BY DoubledIsDoubles, TwoThreeLeft
  <2>2. Doubled(c) = One <=> /\ 0 \in Doubled(c) /\ 1 \notin Doubled(c) /\ 2 \notin Doubled(c)
                             /\ 3 \notin Doubled(c) /\ 4 \notin Doubled(c) /\ 5 \notin Doubled(c)
                             /\ 6 \notin Doubled(c) /\ 7 \notin Doubled(c)
    BY <2>1, OneIs, SameByte
  <2>3. c = {0, 2, 3, 7} <=> /\ 0 \in c /\ 1 \notin c /\ 2 \in c /\ 3 \in c
                             /\ 4 \notin c /\ 5 \notin c /\ 6 \notin c /\ 7 \in c
    BY <1>1, SameByte
  <2> QED BY <2>1, <2>2, <2>3 DEF Doubles
<1>3. Two # {}
  BY DEF Two
<1> QED BY <1>1, <1>2, <1>3 DEF InvTwo, GfInv

LEMMA InvThreeIs == InvThree = {1, 2, 4, 5, 6, 7}
<1>1. {1, 2, 4, 5, 6, 7} \in Byte
  BY DEF Byte, Bits
<1>2. ASSUME NEW c \in Byte PROVE GfMul(Three, c) = One <=> c = {1, 2, 4, 5, 6, 7}
  <2> DEFINE z == Xor(c, Doubled(c))
  <2>1. /\ Doubled(c) \in Byte /\ Doubles(Doubled(c), c) /\ GfMul(Three, c) = z
        /\ z \in Byte /\ \A i : i \in z <=> ~(i \in c <=> i \in Doubled(c))
    BY DoubledIsDoubles, TwoThreeLeft, XorByte, XorBits
  <2> HIDE DEF z
  <2>2. z = One <=> /\ 0 \in z /\ 1 \notin z /\ 2 \notin z /\ 3 \notin z
                    /\ 4 \notin z /\ 5 \notin z /\ 6 \notin z /\ 7 \notin z
    BY <2>1, OneIs, SameByte
  <2>3. c = {1, 2, 4, 5, 6, 7} <=> /\ 0 \notin c /\ 1 \in c /\ 2 \in c /\ 3 \notin c
                                   /\ 4 \in c /\ 5 \in c /\ 6 \in c /\ 7 \in c
    BY <1>1, SameByte
  <2> QED BY <2>1, <2>2, <2>3 DEF Doubles
<1>3. Three # {}
  BY DEF Three
<1> QED BY <1>1, <1>2, <1>3 DEF InvThree, GfInv

\* What a byte was multiplied by is divided out again: (x^8 + x^4 + x^3 + x + 1) is zero.
LEMMA DividedByTwo ==
  ASSUME NEW a \in Byte PROVE GfMul(Doubled(a), InvTwo) = a
<1> DEFINE a1 == Doubled(a)   a2 == Doubled(a1)  a3 == Doubled(a2)  a4 == Doubled(a3)
           a5 == Doubled(a4)  a6 == Doubled(a5)  a7 == Doubled(a6)  a8 == Doubled(a7)
<1>1. /\ a1 \in Byte /\ a2 \in Byte /\ a3 \in Byte /\ a4 \in Byte
      /\ a5 \in Byte /\ a6 \in Byte /\ a7 \in Byte /\ a8 \in Byte
  BY DoubledBits
<1>2. a8 = Xor(a, Xor(a1, Xor(a3, a4)))
  BY EighthDouble
<1>3. GfMul(a1, InvTwo) = Xor(Xor(Xor(Xor({}, a1), a3), a4), a8)
  <2> DEFINE b == {0, 2, 3, 7}
  <2>1. \A r, x :
           /\ Added(r, b, 0, x) = Xor(r, x) /\ Added(r, b, 1, x) = r
           /\ Added(r, b, 2, x) = Xor(r, x) /\ Added(r, b, 3, x) = Xor(r, x)
           /\ Added(r, b, 4, x) = r /\ Added(r, b, 5, x) = r
           /\ Added(r, b, 6, x) = r /\ Added(r, b, 7, x) = Xor(r, x)
    BY DEF Added
  <2> HIDE DEF b
  <2>2. GfMul(a1, b) = Xor(Xor(Xor(Xor({}, a1), a3), a4), a8)
    BY <2>1 DEF GfMul
  <2> QED BY <2>2, InvTwoIs DEF b
<1> HIDE DEF a1, a2, a3, a4, a5, a6, a7, a8
<1>4. Xor(Xor(Xor(Xor({}, a1), a3), a4), Xor(a, Xor(a1, Xor(a3, a4)))) = a
  BY <1>1 DEF Xor, Byte
<1>5. GfMul(a1, InvTwo) = a
  BY <1>2, <1>3, <1>4
<1> QED BY <1>5 DEF a1

LEMMA DividedByThree ==
  ASSUME NEW a \in Byte PROVE GfMul(Xor(a, Doubled(a)), InvThree) = a
<1> DEFINE a1 == Doubled(a)   a2 == Doubled(a1)  a3 == Doubled(a2)  a4 == Doubled(a3)
           a5 == Doubled(a4)  a6 == Doubled(a5)  a7 == Doubled(a6)  a8 == Doubled(a7)
           y == Xor(a, a1)
<1>1. /\ a1 \in Byte /\ a2 \in Byte /\ a3 \in Byte /\ a4 \in Byte
      /\ a5 \in Byte /\ a6 \in Byte /\ a7 \in Byte /\ a8 \in Byte
  BY DoubledBits
<1>2. a8 = Xor(a, Xor(a1, Xor(a3, a4)))
  BY EighthDouble
<1>3. /\ Doubled(y) = Xor(a1, a2)
      /\ Doubled(Xor(a1, a2)) = Xor(a2, a3) /\ Doubled(Xor(a2, a3)) = Xor(a3, a4)
      /\ Doubled(Xor(a3, a4)) = Xor(a4, a5) /\ Doubled(Xor(a4, a5)) = Xor(a5, a6)
      /\ Doubled(Xor(a5, a6)) = Xor(a6, a7) /\ Doubled(Xor(a6, a7)) = Xor(a7, a8)
  BY <1>1, DoubledLinear
<1> HIDE DEF a1, a2, a3, a4, a5, a6, a7, a8, y
<1>4. GfMul(y, InvThree) =
        Xor(Xor(Xor(Xor(Xor(Xor({}, Xor(a1, a2)), Xor(a2, a3)), Xor(a4, a5)), Xor(a5, a6)),
            Xor(a6, a7)), Xor(a7, a8))
  <2> DEFINE b == {1, 2, 4, 5, 6, 7}
  <2>1. \A r, x :
           /\ Added(r, b, 0, x) = r /\ Added(r, b, 1, x) = Xor(r, x)
           /\ Added(r, b, 2, x) = Xor(r, x) /\ Added(r, b, 3, x) = r
           /\ Added(r, b, 4, x) = Xor(r, x) /\ Added(r, b, 5, x) = Xor(r, x)
           /\ Added(r, b, 6, x) = Xor(r, x) /\ Added(r, b, 7, x) = Xor(r, x)
    BY DEF Added
  <2> HIDE DEF b
  <2>2. GfMul(y, b) =
          Xor(Xor(Xor(Xor(Xor(Xor({}, Xor(a1, a2)), Xor(a2, a3)), Xor(a4, a5)), Xor(a5, a6)),
              Xor(a6, a7)), Xor(a7, a8))
    BY <1>3, <2>1 DEF GfMul
  <2> QED BY <2>2, InvThreeIs DEF b
<1>5. Xor(Xor(Xor(Xor(Xor(Xor({}, Xor(a1, a2)), Xor(a2, a3)), Xor(a4, a5)), Xor(a5, a6)),
            Xor(a6, a7)), Xor(a7, Xor(a, Xor(a1, Xor(a3, a4))))) = a
  BY <1>1 DEF Xor, Byte
<1>6. GfMul(y, InvThree) = a
  BY <1>2, <1>4, <1>5
<1> QED BY <1>6 DEF y, a1

\* For every data byte of either half: any two of the four shards, whichever they are, give
\* the data back (reconstruct, make_parity0, make_parity1, gf_mul, gf_inv).
THEOREM EveryPairRebuilds ==
  ASSUME NEW d0 \in Byte, NEW d1 \in Byte, NEW i \in 1 .. 6
  PROVE  Reconstruct(Order[i], Encoded(d0, d1)[Order[i][1]], Encoded(d0, d1)[Order[i][2]])
           = <<d0, d1>>
<1> DEFINE p0 == Parity0(d0, d1)
           p1 == Parity1(d0, d1)
           pair == Order[i]
<1>1. /\ Encoded(d0, d1)[1] = d0 /\ Encoded(d0, d1)[2] = d1
      /\ Encoded(d0, d1)[3] = p0 /\ Encoded(d0, d1)[4] = p1
  BY DEF Encoded
<1>2. Xor(d0, p0) = d1 /\ Xor(d1, p0) = d0 /\ p0 \in Byte
  BY XorCancels, XorByte DEF Parity0
<1>3. Doubled(d0) \in Byte /\ Doubled(d1) \in Byte
  BY DoubledBits
<1>4. p1 = Xor(Doubled(d0), Xor(d1, Doubled(d1)))
  BY MulTwoThree DEF Parity1
<1>5. Xor(p1, GfMul(p0, Two)) = d1
  <2>1. GfMul(p0, Two) = Xor(Doubled(d0), Doubled(d1))
    BY <1>2, MulTwoThree, DoubledLinear DEF Parity0
  <2> HIDE DEF p0, p1
  <2>2. Xor(Xor(Doubled(d0), Xor(d1, Doubled(d1))), Xor(Doubled(d0), Doubled(d1))) = d1
    BY <1>3 DEF Xor, Byte
  <2> QED BY <1>4, <2>1, <2>2
<1>6. Xor(p0, d1) = d0
  BY XorCancels DEF Parity0, Xor
<1>7. GfMul(Xor(p1, GfMul(d0, Two)), InvThree) = d1
  <2> HIDE DEF p1
  <2>1. Xor(Xor(Doubled(d0), Xor(d1, Doubled(d1))), Doubled(d0)) = Xor(d1, Doubled(d1))
    BY <1>3 DEF Xor, Byte
  <2> QED BY <1>4, <2>1, MulTwoThree, DividedByThree
<1>8. GfMul(Xor(p1, GfMul(d1, Three)), InvTwo) = d0
  <2> HIDE DEF p1
  <2>1. Xor(Xor(Doubled(d0), Xor(d1, Doubled(d1))), Xor(d1, Doubled(d1))) = Doubled(d0)
    BY <1>3 DEF Xor, Byte
  <2> QED BY <1>4, <2>1, MulTwoThree, DividedByTwo
<1> HIDE DEF p0, p1, pair
<1>9. \/ pair = <<1, 2>> \/ pair = <<1, 3>> \/ pair = <<2, 3>>
      \/ pair = <<1, 4>> \/ pair = <<2, 4>> \/ pair = <<3, 4>>
  BY DEF Order, pair
<1>10. CASE pair = <<1, 2>>
  <2>1. pair[1] = 1 /\ pair[2] = 2
    BY <1>10
  <2>2. Reconstruct(pair, d0, d1) = <<d0, d1>>
    BY <1>10 DEF Reconstruct
  <2> QED BY <1>1, <2>1, <2>2 DEF pair
<1>11. CASE pair = <<1, 3>>
  <2>1. pair[1] = 1 /\ pair[2] = 3 /\ pair # <<1, 2>>
    BY <1>11
  <2>2. Reconstruct(pair, d0, p0) = <<d0, Xor(d0, p0)>>
    BY <1>11, <2>1 DEF Reconstruct
  <2> QED BY <1>1, <1>2, <2>1, <2>2 DEF pair
<1>12. CASE pair = <<2, 3>>
  <2>1. pair[1] = 2 /\ pair[2] = 3 /\ pair \notin {<<1, 2>>, <<1, 3>>}
    BY <1>12
  <2>2. Reconstruct(pair, d1, p0) = <<Xor(d1, p0), d1>>
    BY <1>12, <2>1 DEF Reconstruct
  <2> QED BY <1>1, <1>2, <2>1, <2>2 DEF pair
<1>13. CASE pair = <<1, 4>>
  <2>1. pair[1] = 1 /\ pair[2] = 4 /\ pair \notin {<<1, 2>>, <<1, 3>>, <<2, 3>>}
    BY <1>13
  <2>2. Reconstruct(pair, d0, p1) = <<d0, GfMul(Xor(p1, GfMul(d0, Two)), InvThree)>>
    BY <1>13, <2>1 DEF Reconstruct
  <2> QED BY <1>1, <1>7, <2>1, <2>2 DEF pair
<1>14. CASE pair = <<2, 4>>
  <2>1. pair[1] = 2 /\ pair[2] = 4 /\ pair \notin {<<1, 2>>, <<1, 3>>, <<2, 3>>, <<1, 4>>}
    BY <1>14
  <2>2. Reconstruct(pair, d1, p1) = <<GfMul(Xor(p1, GfMul(d1, Three)), InvTwo), d1>>
    BY <1>14, <2>1 DEF Reconstruct
  <2> QED BY <1>1, <1>8, <2>1, <2>2 DEF pair
<1>15. CASE pair = <<3, 4>>
  <2>1. /\ pair[1] = 3 /\ pair[2] = 4
        /\ pair \notin {<<1, 2>>, <<1, 3>>, <<2, 3>>, <<1, 4>>, <<2, 4>>}
    BY <1>15
  <2>2. Reconstruct(pair, p0, p1) = <<Xor(p0, Xor(p1, GfMul(p0, Two))), Xor(p1, GfMul(p0, Two))>>
    BY <1>15, <2>1 DEF Reconstruct
  <2> QED BY <1>1, <1>5, <1>6, <2>1, <2>2 DEF pair
<1> QED BY <1>9, <1>10, <1>11, <1>12, <1>13, <1>14, <1>15
-----------------------------------------------------------------------------
(* Blocks, and how many plain bytes they hold *)

\* The plain bytes in the first k blocks of a file of n bytes, and those of its i-th block.
Upto(n, k)     == Smaller(n, k * BlockSize)
Piece(pl, n, i) == SubSeq(pl, i * BlockSize + 1, i * BlockSize + BlockLen(n, i))

\* st is a header for n bytes and the first k blocks of a seal of pl, under the mask m.
SealedAs(st, n, k, pl, m) ==
  /\ n \in 0 .. MaxSize /\ k \in 0 .. BlockCount(n)
  /\ st \in Seq(Byte) /\ Len(st) = k + 1 /\ st[1] = Xor(Coded(Header(n)), m)
  /\ pl \in Seq({0, 1}) /\ Len(pl) = Upto(n, k)
  /\ \A i \in 0 .. k - 1 : st[i + 2] = Xor(Coded(Block(n, i, Piece(pl, n, i))), m)

ShardsOf(st) ==
  [i \in 1 .. 4 |-> [k \in 1 .. Half(Len(st)) |->
     Encoded(Padded(st, k), Padded(st, Half(Len(st)) + k))[i]]]

-----------------------------------------------------------------------------
(* What holds at each step *)

\* Nothing of the destination has been touched.
Before == dest \in {"absent", "old"} /\ index = 0 /\ out = <<>> /\ why = "none"

\* The stream as it was sealed, of all of the plain bytes.
Kept == SealedAs(whole, Len(sealed), BlockCount(Len(sealed)), sealed, mask)

\* What came back: a header and blocks of that stream, or zeroes, and through shards the
\* stream itself unless its last write was lost.
Arrived ==
  /\ Len(stream) \in Nat /\ Len(stream) <= Len(whole)
  /\ stream # <<>> => \E n \in 0 .. MaxSize : stream[1] = Xor(Coded(Header(n)), mask)
  /\ \A i \in 2 .. Len(stream) :
       stream[i] = Zeroes \/ \E j \in 2 .. Len(whole) : stream[i] = whole[j]
  /\ stream # whole => left < Budget /\ (good = {} \/ cut)

\* A block that opened was sealed under this header, and is the next of the file.
Opened ==
  /\ stream # <<>> /\ stream[1] = Xor(Coded(Header(header)), mask)
  /\ index \in 0 .. BlockCount(header) /\ (index > 0 => header = Len(sealed))
  /\ out \in Seq({0, 1}) /\ Len(out) = Upto(header, index)
  /\ \A i \in 1 .. Len(out) : out[i] = sealed[i]

InStart  == Before /\ good = {} /\ sealed = <<>>
InSeal   == /\ Before /\ good = {} /\ SealedAs(stream, header, Len(stream) - 1, sealed, mask)
            /\ Len(source) # header => left < Budget
InSealed == Before /\ good = {} /\ Kept /\ stream = whole
InShards == InSealed /\ shards = ShardsOf(stream)
InJoin   == /\ Before /\ Kept /\ stream = whole /\ shards = ShardsOf(stream)
            /\ good \in SUBSET (1 .. 4) /\ Cardinality(good) >= 2
InStream == Before /\ Kept /\ Arrived
InOpen   == dest = "partial" /\ why = "none" /\ Kept /\ Arrived /\ Opened
InDone   == why # "disk" => out = sealed \/ Emptied
InFailed ==
  /\ dest \in {"old", "absent"}
  /\ \/ why \in {"source", "disk"} /\ left < Budget
     \/ why = "shards" /\ Cardinality(good) < 2
     \/ why = "stream" /\ (right => stream # whole /\ left < Budget /\ (good = {} \/ cut))
InKilled == dest # "whole"

Phases ==
  {"start", "seal", "sealed", "shards", "join", "stream", "open", "done", "failed", "killed"}

Safe ==
  /\ pc \in Phases /\ mask \in Byte /\ right \in BOOLEAN /\ left \in 0 .. Budget
  /\ source \in Seq({0, 1}) /\ Len(source) \in 0 .. MaxSize /\ header \in 0 .. MaxSize
  /\ pc = "start" => InStart
  /\ pc = "seal" => InSeal
  /\ pc = "sealed" => InSealed
  /\ pc = "shards" => InShards
  /\ pc = "join" => InJoin
  /\ pc = "stream" => InStream
  /\ pc = "open" => InOpen
  /\ pc = "done" => InDone
  /\ pc = "failed" => InFailed
  /\ pc = "killed" => InKilled

-----------------------------------------------------------------------------
(* Lemmas: counting blocks, and reading back what was encoded *)

LEMMA Counting ==
  ASSUME NEW n \in 0 .. MaxSize
  PROVE  /\ BlockCount(n) \in 0 .. n /\ (n > 0 => BlockCount(n) > 0)
         /\ Upto(n, 0) = 0 /\ Upto(n, BlockCount(n)) = n
         /\ \A k \in 0 .. BlockCount(n) - 1 :
              /\ k * BlockSize \in 0 .. n - 1 /\ BlockLen(n, k) \in 1 .. 3
              /\ Upto(n, k) = k * BlockSize
              /\ Upto(n, k + 1) = k * BlockSize + BlockLen(n, k)
              /\ Upto(n, k + 1) <= n
              /\ \A i \in 0 .. k - 1 : i * BlockSize + BlockLen(n, i) <= k * BlockSize
<1>1. n \in 0 .. 3
  BY RecoveryAssumption
<1>2. CASE BlockSize = 1
  BY <1>1, <1>2 DEF BlockCount, Upto, BlockLen, Smaller
<1>3. CASE BlockSize = 2
  BY <1>1, <1>3 DEF BlockCount, Upto, BlockLen, Smaller
<1>4. CASE BlockSize = 3
  BY <1>1, <1>4 DEF BlockCount, Upto, BlockLen, Smaller
<1> QED BY <1>2, <1>3, <1>4, RecoveryAssumption

\* A block's plain bytes, cut from those of the file.
LEMMA PieceOf ==
  ASSUME NEW n \in 0 .. MaxSize, NEW i \in 0 .. BlockCount(n) - 1,
         NEW pl \in Seq({0, 1}), i * BlockSize + BlockLen(n, i) <= Len(pl)
  PROVE  /\ Piece(pl, n, i) \in Seq({0, 1}) /\ Len(Piece(pl, n, i)) = BlockLen(n, i)
         /\ Piece(pl, n, i) \in [1 .. BlockLen(n, i) -> {0, 1}]
         /\ \A j \in 1 .. BlockLen(n, i) : Piece(pl, n, i)[j] = pl[i * BlockSize + j]
<1> DEFINE from == i * BlockSize
           len == BlockLen(n, i)
           d == SubSeq(pl, from + 1, from + len)
<1>1. from \in Nat /\ len \in 1 .. 3
  BY Counting
<1>2. from + len <= Len(pl)
  OBVIOUS
<1> HIDE DEF from, len
<1>3. \A j \in from + 1 .. from + len : pl[j] \in {0, 1}
  BY <1>1, <1>2, ElementOfSeq, LenProperties
<1>4. /\ d \in Seq({0, 1}) /\ Len(d) = IF from + 1 <= from + len THEN from + len - (from + 1) + 1 ELSE 0
      /\ \A j \in 1 .. from + len - (from + 1) + 1 : d[j] = pl[from + 1 + j - 1]
  BY <1>1, <1>3, SubSeqProperties
<1>5. Len(d) = len /\ \A j \in 1 .. len : d[j] = pl[from + j]
  BY <1>1, <1>4
<1> HIDE DEF d
<1>6. d \in [1 .. len -> {0, 1}]
  BY <1>4, <1>5, LenProperties
<1>7. Piece(pl, n, i) = d
  BY DEF Piece, d, from, len
<1> QED BY <1>4, <1>5, <1>6, <1>7 DEF from, len

LEMMA UnitKinds ==
  ASSUME NEW u
  PROVE  u \in Units <=>
           \/ \E n \in 0 .. MaxSize : u = Header(n)
           \/ \E n \in 1 .. MaxSize : \E i \in 0 .. BlockCount(n) - 1 :
                \E d \in [1 .. BlockLen(n, i) -> {0, 1}] : u = Block(n, i, d)
BY DEF Units

LEMMA SmallBits ==
  ASSUME NEW k \in 0 .. 3
  PROVE  /\ BitsOf(k) \subseteq {0, 1}
         /\ 0 \in BitsOf(k) <=> k \in {1, 3}
         /\ 1 \in BitsOf(k) <=> k \in {2, 3}
<1>1. 0 \in BitsOf(k) <=> (k \div 1) % 2 = 1
  BY DEF BitsOf
<1>2. 1 \in BitsOf(k) <=> (k \div 2) % 2 = 1
  BY DEF BitsOf
<1>3. k \in {0, 1, 2, 3}
  OBVIOUS
<1> QED BY <1>1, <1>2, <1>3 DEF BitsOf

LEMMA HeaderUnit ==
  ASSUME NEW n \in 0 .. MaxSize
  PROVE  /\ Header(n) \in Units /\ Header(n).size = n /\ Header(n).index = -1
         /\ Header(n).data = <<>>
BY UnitKinds DEF Header

LEMMA BlockUnit ==
  ASSUME NEW n \in 0 .. MaxSize, NEW i \in 0 .. BlockCount(n) - 1,
         NEW d \in [1 .. BlockLen(n, i) -> {0, 1}]
  PROVE  /\ Block(n, i, d) \in Units /\ Block(n, i, d).size = n /\ Block(n, i, d).index = i
         /\ Block(n, i, d).data = d
<1>1. n \in 1 .. MaxSize
  BY Counting, RecoveryAssumption
<1> QED BY <1>1, UnitKinds DEF Block

\* The fields of a unit.
LEMMA UnitFields ==
  ASSUME NEW u \in Units
  PROVE  /\ u = [size |-> u.size, index |-> u.index, data |-> u.data]
         /\ u.size \in 0 .. MaxSize /\ u.size \in 0 .. 3
         /\ \/ u.index = -1 /\ u.data = <<>>
            \/ /\ u.index \in 0 .. BlockCount(u.size) - 1 /\ u.index \in 0 .. 2
               /\ u.data \in [1 .. BlockLen(u.size, u.index) -> {0, 1}]
               /\ BlockLen(u.size, u.index) \in 1 .. 3
<1>1. CASE \E n \in 0 .. MaxSize : u = Header(n)
  BY <1>1, RecoveryAssumption DEF Header
<1>2. CASE \E n \in 1 .. MaxSize : \E i \in 0 .. BlockCount(n) - 1 :
             \E d \in [1 .. BlockLen(n, i) -> {0, 1}] : u = Block(n, i, d)
  <2>1. PICK n \in 1 .. MaxSize : \E i \in 0 .. BlockCount(n) - 1 :
               \E d \in [1 .. BlockLen(n, i) -> {0, 1}] : u = Block(n, i, d)
    BY <1>2
  <2>8. PICK i \in 0 .. BlockCount(n) - 1 :
               \E d \in [1 .. BlockLen(n, i) -> {0, 1}] : u = Block(n, i, d)
    BY <2>1
  <2>2. PICK d \in [1 .. BlockLen(n, i) -> {0, 1}] : u = Block(n, i, d)
    BY <2>8
  <2>3. u = [size |-> n, index |-> i, data |-> d]
    BY <2>2 DEF Block
  <2>4. n \in 0 .. MaxSize /\ BlockCount(n) \in 0 .. n /\ n \in 0 .. 3
    BY Counting, RecoveryAssumption
  <2>5. i \in 0 .. BlockCount(n) - 1 /\ i \in 0 .. 2
    BY <2>1, <2>4
  <2>6. BlockLen(n, i) \in 1 .. 3
    BY <2>4, <2>5, Counting
  <2>7. u.size = n /\ u.index = i /\ u.data = d
    BY <2>3
  <2> QED BY <2>3, <2>4, <2>5, <2>6, <2>7, <2>2
<1> QED BY <1>1, <1>2, UnitKinds

\* Each field has bits of its own.
LEMMA CodedBits ==
  ASSUME NEW u \in Units
  PROVE  /\ Coded(u) \in Byte
         /\ 7 \in Coded(u) <=> u.index = -1
         /\ 0 \in Coded(u) <=> u.size \in {1, 3}
         /\ 1 \in Coded(u) <=> u.size \in {2, 3}
         /\ u.index # -1 => /\ 2 \in Coded(u) <=> u.index \in {1, 3}
                            /\ 3 \in Coded(u) <=> u.index \in {2, 3}
                            /\ \A k \in 1 .. 3 : 3 + k \in Coded(u) <=>
                                                  (k \in DOMAIN u.data /\ u.data[k] = 1)
<1>1. /\ BitsOf(u.size) \subseteq {0, 1}
      /\ 0 \in BitsOf(u.size) <=> u.size \in {1, 3}
      /\ 1 \in BitsOf(u.size) <=> u.size \in {2, 3}
  BY UnitFields, SmallBits
<1>2. CASE u.index = -1
  <2>1. Coded(u) = BitsOf(u.size) \cup {7}
    BY <1>2 DEF Coded
  <2> QED BY <1>1, <1>2, <2>1 DEF Byte, Bits
<1>3. CASE u.index # -1
  <2> DEFINE place == {i + 2 : i \in BitsOf(u.index)}
             ones == {3 + k : k \in {j \in DOMAIN u.data : u.data[j] = 1}}
  <2>1. Coded(u) = BitsOf(u.size) \cup (place \cup ones)
    BY <1>3 DEF Coded
  <2>2. u.index \in 0 .. 3 /\ DOMAIN u.data \subseteq 1 .. 3
    BY <1>3, UnitFields
  <2>3. /\ BitsOf(u.index) \subseteq {0, 1}
        /\ 0 \in BitsOf(u.index) <=> u.index \in {1, 3}
        /\ 1 \in BitsOf(u.index) <=> u.index \in {2, 3}
    BY <2>2, SmallBits
  <2>4. /\ place \subseteq {2, 3}
        /\ 2 \in place <=> u.index \in {1, 3}
        /\ 3 \in place <=> u.index \in {2, 3}
    BY <2>3
  <2>5. /\ ones \subseteq {4, 5, 6}
        /\ \A k \in 1 .. 3 : 3 + k \in ones <=> (k \in DOMAIN u.data /\ u.data[k] = 1)
    BY <2>2
  <2> HIDE DEF place, ones
  <2>6. Coded(u) \in Byte /\ 7 \notin Coded(u)
    <3>1. \A x \in Coded(u) : x \in {0, 1, 2, 3, 4, 5, 6}
      BY <1>1, <2>1, <2>4, <2>5
    <3>2. \A x \in {0, 1, 2, 3, 4, 5, 6} : x \in Bits /\ x # 7
      BY DEF Bits
    <3> QED BY <3>1, <3>2 DEF Byte
  <2>7. /\ 0 \in Coded(u) <=> 0 \in BitsOf(u.size)
        /\ 1 \in Coded(u) <=> 1 \in BitsOf(u.size)
        /\ 2 \in Coded(u) <=> 2 \in place
        /\ 3 \in Coded(u) <=> 3 \in place
    BY <1>1, <2>1, <2>4, <2>5
  <2>8. \A k \in 1 .. 3 : 3 + k \in Coded(u) <=> 3 + k \in ones
    BY <1>1, <2>1, <2>4
  <2> QED BY <1>1, <1>3, <2>4, <2>5, <2>6, <2>7, <2>8
<1> QED BY <1>2, <1>3

\* Two units with the same byte are the same unit.
LEMMA CodedOnce ==
  ASSUME NEW u \in Units, NEW v \in Units, Coded(u) = Coded(v)
  PROVE  u = v
<1>1. u.size = v.size
  <2>1. u.size \in {0, 1, 2, 3} /\ v.size \in {0, 1, 2, 3}
    BY UnitFields
  <2> QED BY <2>1, CodedBits
<1>2. u.index = v.index /\ u.data = v.data
  <2>1. u.index = -1 <=> v.index = -1
    BY CodedBits
  <2>2. CASE u.index = -1
    BY <2>1, <2>2, UnitFields
  <2>3. CASE u.index # -1
    <3>1. u.index \in {0, 1, 2} /\ v.index \in {0, 1, 2}
      BY <2>1, <2>3, UnitFields
    <3>2. u.index = v.index
      BY <2>1, <2>3, <3>1, CodedBits
    <3> DEFINE l == BlockLen(u.size, u.index)
    <3>3. u.data \in [1 .. l -> {0, 1}] /\ v.data \in [1 .. l -> {0, 1}] /\ l \in 1 .. 3
      BY <1>1, <2>1, <2>3, <3>2, UnitFields
    <3> HIDE DEF l
    <3>4. ASSUME NEW k \in 1 .. l PROVE u.data[k] = v.data[k]
      <4>1. k \in 1 .. 3 /\ k \in DOMAIN u.data /\ k \in DOMAIN v.data
        BY <3>3
      <4>2. u.data[k] = 1 <=> v.data[k] = 1
        BY <2>1, <2>3, <4>1, CodedBits
      <4>3. u.data[k] \in {0, 1} /\ v.data[k] \in {0, 1}
        BY <3>3
      <4> QED BY <4>2, <4>3
    <3>5. u.data = v.data
      BY <3>3, <3>4
    <3> QED BY <3>2, <3>5
  <2> QED BY <2>2, <2>3
<1> QED BY <1>1, <1>2, UnitFields

LEMMA XorInjective ==
  ASSUME NEW a \in Byte, NEW b \in Byte, NEW m \in Byte, Xor(a, m) = Xor(b, m)
  PROVE  a = b
<1>1. \A i : i \in Xor(a, m) <=> ~(i \in a <=> i \in m)
  BY XorBits
<1>2. \A i : i \in Xor(b, m) <=> ~(i \in b <=> i \in m)
  BY XorBits
<1>3. \A i \in Bits : i \in a <=> i \in b
  BY <1>1, <1>2
<1> QED BY <1>3 DEF Byte

\* A unit is read back as it was written.
LEMMA ReadBack ==
  ASSUME mask \in Byte, NEW u \in Units
  PROVE  Xor(Coded(u), mask) \in Byte /\ UnitOf(Xor(Coded(u), mask)) = u
<1> DEFINE b == Xor(Coded(u), mask)
           fits == {v \in Units : Xor(Coded(v), mask) = b}
<1>1. \A v \in fits : v = u
  BY CodedBits, CodedOnce, XorInjective
<1>2. u \in fits
  OBVIOUS
<1>3. UnitOf(b) = IF fits = {} THEN Noise ELSE CHOOSE v \in fits : TRUE
  BY DEF UnitOf
<1> HIDE DEF fits
<1>4. UnitOf(b) = u
  BY <1>1, <1>2, <1>3
<1>5. b \in Byte
  BY CodedBits, XorByte
<1> QED BY <1>4, <1>5

-----------------------------------------------------------------------------
(* Lemmas: a seal grows block by block, and opens again *)

LEMMA SealBegins ==
  ASSUME NEW n \in 0 .. MaxSize, NEW m \in Byte
  PROVE  SealedAs(<<Xor(Coded(Header(n)), m)>>, n, 0, <<>>, m)
<1>1. Xor(Coded(Header(n)), m) \in Byte
  BY HeaderUnit, CodedBits, XorByte
<1>2. Upto(n, 0) = 0 /\ 0 \in 0 .. BlockCount(n)
  BY Counting
<1> QED BY <1>1, <1>2 DEF SealedAs

LEMMA SealGrows ==
  ASSUME NEW st, NEW n, NEW k, NEW pl, NEW m \in Byte,
         SealedAs(st, n, k, pl, m), k < BlockCount(n),
         NEW d \in Seq({0, 1}), Len(d) = BlockLen(n, k)
  PROVE  SealedAs(Append(st, Xor(Coded(Block(n, k, d)), m)), n, k + 1, pl \o d, m)
<1> DEFINE b == Xor(Coded(Block(n, k, d)), m)
           st1 == Append(st, b)
           pl1 == pl \o d
<1>1. /\ n \in 0 .. MaxSize /\ k \in 0 .. BlockCount(n)
      /\ st \in Seq(Byte) /\ Len(st) = k + 1 /\ st[1] = Xor(Coded(Header(n)), m)
      /\ pl \in Seq({0, 1}) /\ Len(pl) = Upto(n, k)
      /\ \A i \in 0 .. k - 1 : st[i + 2] = Xor(Coded(Block(n, i, Piece(pl, n, i))), m)
  BY DEF SealedAs
<1>2. BlockCount(n) \in 0 .. n /\ n \in Nat /\ k \in 0 .. BlockCount(n) - 1 /\ k + 1 \in 0 .. BlockCount(n)
  BY <1>1, Counting, RecoveryAssumption
<1>3. /\ k * BlockSize \in Nat /\ BlockLen(n, k) \in 1 .. 3 /\ Len(pl) = k * BlockSize
      /\ Upto(n, k + 1) = k * BlockSize + BlockLen(n, k)
      /\ \A i \in 0 .. k - 1 : i * BlockSize + BlockLen(n, i) <= k * BlockSize
  BY <1>1, <1>2, Counting
<1>4. d \in [1 .. BlockLen(n, k) -> {0, 1}]
  BY LenProperties
<1>5. b \in Byte
  BY <1>1, <1>2, <1>4, BlockUnit, CodedBits, XorByte
<1>6. /\ st1 \in Seq(Byte) /\ Len(st1) = k + 2 /\ st1[k + 2] = b
      /\ \A i \in 1 .. k + 1 : st1[i] = st[i]
  <2> HIDE DEF b
  <2> QED BY <1>1, <1>2, <1>5
<1>7. /\ pl1 \in Seq({0, 1}) /\ Len(pl1) = Len(pl) + Len(d)
      /\ \A i \in 1 .. Len(pl) : pl1[i] = pl[i]
      /\ \A i \in 1 .. Len(d) : pl1[Len(pl) + i] = d[i]
  <2>1. /\ pl1 \in Seq({0, 1}) /\ Len(pl1) = Len(pl) + Len(d)
        /\ \A i \in 1 .. Len(pl) + Len(d) : pl1[i] = IF i <= Len(pl) THEN pl[i] ELSE d[i - Len(pl)]
    BY <1>1, ConcatProperties
  <2>2. Len(pl) \in Nat /\ Len(d) \in Nat
    BY <1>1, LenProperties
  <2> HIDE DEF pl1
  <2> QED BY <2>1, <2>2
<1> HIDE DEF st1, pl1
<1>8. ASSUME NEW i \in 0 .. k - 1 PROVE Piece(pl1, n, i) = Piece(pl, n, i)
  <2>1. /\ i \in 0 .. BlockCount(n) - 1 /\ i * BlockSize + BlockLen(n, i) <= Len(pl)
        /\ i * BlockSize \in Nat /\ BlockLen(n, i) \in 1 .. 3
    BY <1>1, <1>2, <1>3, Counting
  <2>2. i * BlockSize + BlockLen(n, i) <= Len(pl1)
    BY <1>3, <1>7, <2>1
  <2>3. /\ Piece(pl, n, i) \in Seq({0, 1}) /\ Len(Piece(pl, n, i)) = BlockLen(n, i)
        /\ \A j \in 1 .. BlockLen(n, i) : Piece(pl, n, i)[j] = pl[i * BlockSize + j]
    BY <1>1, <2>1, PieceOf
  <2>4. /\ Piece(pl1, n, i) \in Seq({0, 1}) /\ Len(Piece(pl1, n, i)) = BlockLen(n, i)
        /\ \A j \in 1 .. BlockLen(n, i) : Piece(pl1, n, i)[j] = pl1[i * BlockSize + j]
    BY <1>1, <1>7, <2>1, <2>2, PieceOf
  <2>5. \A j \in 1 .. BlockLen(n, i) : i * BlockSize + j \in 1 .. Len(pl)
    BY <1>3, <2>1
  <2>6. \A j \in 1 .. BlockLen(n, i) : Piece(pl1, n, i)[j] = Piece(pl, n, i)[j]
    BY <1>7, <2>3, <2>4, <2>5
  <2> QED BY <2>3, <2>4, <2>6, SeqEqual
<1>9. Piece(pl1, n, k) = d
  <2>1. k * BlockSize + BlockLen(n, k) <= Len(pl1)
    BY <1>3, <1>7
  <2>2. /\ Piece(pl1, n, k) \in Seq({0, 1}) /\ Len(Piece(pl1, n, k)) = Len(d)
        /\ \A j \in 1 .. Len(d) : Piece(pl1, n, k)[j] = pl1[k * BlockSize + j]
    BY <1>1, <1>2, <1>7, <2>1, PieceOf
  <2>3. \A j \in 1 .. Len(d) : Piece(pl1, n, k)[j] = d[j]
    BY <1>3, <1>7, <2>2
  <2> QED BY <2>2, <2>3, SeqEqual
<1>10. ASSUME NEW i \in 0 .. k PROVE st1[i + 2] = Xor(Coded(Block(n, i, Piece(pl1, n, i))), m)
  <2>1. CASE i = k
    BY <1>6, <1>9, <2>1 DEF b
  <2>2. CASE i # k
    <3>1. i \in 0 .. k - 1 /\ i + 2 \in 1 .. k + 1
      BY <1>2, <2>2
    <3> QED BY <1>1, <1>6, <1>8, <3>1
  <2> QED BY <2>1, <2>2
<1>11. Len(pl1) = Upto(n, k + 1)
  BY <1>3, <1>7
<1>12. st1[1] = Xor(Coded(Header(n)), m) /\ Len(st1) = k + 1 + 1 /\ k + 1 - 1 = k
  BY <1>1, <1>2, <1>6
<1>13. SealedAs(st1, n, k + 1, pl1, m)
  BY ONLY <1>1, <1>2, <1>6, <1>7, <1>10, <1>11, <1>12 DEF SealedAs
<1> QED BY <1>13 DEF st1, pl1, b

\* What a complete seal holds, part by part.
LEMMA KeptParts ==
  ASSUME Kept, mask \in Byte
  PROVE  /\ Len(sealed) \in 0 .. MaxSize /\ sealed \in Seq({0, 1})
         /\ BlockCount(Len(sealed)) \in Nat
         /\ whole \in Seq(Byte) /\ Len(whole) = BlockCount(Len(sealed)) + 1
         /\ whole[1] = Xor(Coded(Header(Len(sealed))), mask)
         /\ UnitOf(whole[1]) = Header(Len(sealed))
         /\ \A j \in 2 .. Len(whole) :
              LET d == Piece(sealed, Len(sealed), j - 2) IN
              /\ j - 2 \in 0 .. BlockCount(Len(sealed)) - 1
              /\ d \in Seq({0, 1}) /\ Len(d) = BlockLen(Len(sealed), j - 2)
              /\ \A i \in 1 .. Len(d) : d[i] = sealed[(j - 2) * BlockSize + i]
              /\ UnitOf(whole[j]) = Block(Len(sealed), j - 2, d)
              /\ Block(Len(sealed), j - 2, d) \in Units
<1> DEFINE n == Len(sealed)
<1>1. /\ n \in 0 .. MaxSize /\ sealed \in Seq({0, 1}) /\ n = Upto(n, BlockCount(n))
      /\ whole \in Seq(Byte) /\ Len(whole) = BlockCount(n) + 1
      /\ whole[1] = Xor(Coded(Header(n)), mask)
      /\ \A i \in 0 .. BlockCount(n) - 1 :
           whole[i + 2] = Xor(Coded(Block(n, i, Piece(sealed, n, i))), mask)
  BY DEF Kept, SealedAs
<1>2. BlockCount(n) \in Nat
  BY <1>1, Counting, RecoveryAssumption
<1>3. UnitOf(whole[1]) = Header(n)
  BY <1>1, HeaderUnit, ReadBack
<1>4. ASSUME NEW j \in 2 .. Len(whole)
      PROVE  LET d == Piece(sealed, n, j - 2) IN
             /\ j - 2 \in 0 .. BlockCount(n) - 1
             /\ d \in Seq({0, 1}) /\ Len(d) = BlockLen(n, j - 2)
             /\ \A i \in 1 .. Len(d) : d[i] = sealed[(j - 2) * BlockSize + i]
             /\ UnitOf(whole[j]) = Block(n, j - 2, d)
             /\ Block(n, j - 2, d) \in Units
  <2> DEFINE k == j - 2
             d == Piece(sealed, n, k)
  <2>1. k \in 0 .. BlockCount(n) - 1 /\ k + 2 = j
    BY <1>1, <1>2
  <2>2. k * BlockSize + BlockLen(n, k) <= n
    BY <1>1, <2>1, Counting
  <2> HIDE DEF k
  <2>3. /\ d \in Seq({0, 1}) /\ Len(d) = BlockLen(n, k)
        /\ d \in [1 .. BlockLen(n, k) -> {0, 1}]
        /\ \A i \in 1 .. BlockLen(n, k) : d[i] = sealed[k * BlockSize + i]
    BY <1>1, <2>1, <2>2, PieceOf
  <2> HIDE DEF d
  <2>4. Block(n, k, d) \in Units
    BY <1>1, <2>1, <2>3, BlockUnit
  <2>5. whole[j] = Xor(Coded(Block(n, k, d)), mask)
    BY <1>1, <2>1 DEF d
  <2>6. UnitOf(whole[j]) = Block(n, k, d)
    BY <2>4, <2>5, ReadBack
  <2> QED BY <2>1, <2>3, <2>4, <2>6 DEF d, k
<1> QED BY <1>1, <1>2, <1>3, <1>4

-----------------------------------------------------------------------------
(* Every step keeps what holds *)

LEMMA PlainFiles ==
  ASSUME NEW s \in Plain(MaxSize)
  PROVE  s \in Seq({0, 1}) /\ Len(s) \in 0 .. MaxSize
<1>1. PICK k \in 0 .. MaxSize : s \in [1 .. k -> {0, 1}]
  BY DEF Plain
<1>2. k \in Nat
  BY RecoveryAssumption
<1>3. s \in Seq({0, 1}) /\ Len(s) = k
  BY <1>1, <1>2
<1> QED BY <1>3

\* A hazard that strikes is counted.
LEMMA StrikeCounts ==
  ASSUME Safe, Strikes PROVE left' \in 0 .. Budget /\ left' < Budget
BY RecoveryAssumption DEF Safe, Strikes

LEMMA SafeInit == Init => Safe
<1> SUFFICES ASSUME Init PROVE Safe
  OBVIOUS
<1>1. source \in Seq({0, 1}) /\ Len(source) \in 0 .. MaxSize
  BY PlainFiles DEF Init
<1>2. /\ mask \in Byte /\ right \in BOOLEAN /\ header \in 0 .. MaxSize /\ pc = "start"
      /\ left \in 0 .. Budget
  BY RecoveryAssumption DEF Init
<1>3. InStart
  BY DEF Init, InStart, Before
<1> QED BY <1>1, <1>2, <1>3 DEF Safe, Phases

LEMMA BeginSealSafe == ASSUME Safe, BeginSeal PROVE Safe'
<1>1. /\ pc = "start" /\ InStart /\ pc' = "seal" /\ mask \in Byte /\ right \in BOOLEAN
      /\ source \in Seq({0, 1}) /\ Len(source) \in 0 .. MaxSize
      /\ header' = Len(source) /\ stream' = <<Xor(Coded(Header(Len(source))), mask)>>
      /\ left \in 0 .. Budget
      /\ UNCHANGED <<source, mask, right, good, dest, index, out, why, sealed, left>>
  BY DEF BeginSeal, Safe, Masked
<1>2. SealedAs(stream', header', 0, <<>>, mask)
  BY <1>1, SealBegins
<1>3. Len(stream') - 1 = 0
  BY <1>1
<1>4. InSeal'
  BY <1>1, <1>2, <1>3 DEF InSeal, InStart, Before
<1> QED BY <1>1, <1>4 DEF Safe, Phases

LEMMA ChangeSafe == ASSUME Safe, Change PROVE Safe'
<1>1. source' \in Seq({0, 1}) /\ Len(source') \in 0 .. MaxSize
  BY PlainFiles DEF Change
<1>2. left' \in 0 .. Budget /\ left' < Budget
  BY StrikeCounts DEF Change
<1>3. CASE pc = "start"
  BY <1>1, <1>2, <1>3 DEF Change, Safe, Phases, InStart, Before
<1>4. CASE pc = "seal"
  <2>1. InSeal'
    BY <1>2, <1>4 DEF Change, Safe, InSeal, Before
  <2> QED BY <1>1, <1>2, <1>4, <2>1 DEF Change, Safe, Phases
<1> QED BY <1>3, <1>4 DEF Change

LEMMA SealBlockSafe == ASSUME Safe, SealBlock PROVE Safe'
<1> DEFINE k == Len(stream) - 1
           want == BlockLen(header, k)
           from == Len(sealed) + 1
           data == SubSeq(source, from, from + want - 1)
<1>1. /\ pc = "seal" /\ InSeal /\ mask \in Byte /\ right \in BOOLEAN /\ left \in 0 .. Budget
      /\ source \in Seq({0, 1}) /\ Len(source) \in 0 .. MaxSize /\ header \in 0 .. MaxSize
      /\ Len(sealed) < header
      /\ UNCHANGED <<source, header, mask, right, good, index, dest, out>>
  BY DEF SealBlock, Safe
<1>2. /\ SealedAs(stream, header, k, sealed, mask) /\ k \in 0 .. BlockCount(header)
      /\ sealed \in Seq({0, 1}) /\ Len(sealed) = Upto(header, k) /\ stream \in Seq(Byte)
  BY <1>1 DEF InSeal, SealedAs
<1>3. CASE Len(source) < from + want - 1 /\ left' = left /\ Ends("failed", "source")
  <2>1. k < BlockCount(header) /\ BlockCount(header) \in Nat /\ header \in Nat /\ k \in Nat
    BY <1>1, <1>2, Counting, RecoveryAssumption
  <2>2. Len(sealed) = k * BlockSize /\ k * BlockSize \in Nat /\ k * BlockSize + want <= header
    BY <1>1, <1>2, <2>1, Counting
  <2>3. want \in Nat
    BY <1>1, <2>1, Counting
  <2> HIDE DEF k, want
  <2>4. Len(source) < header
    <3> DEFINE done == k * BlockSize
    <3>1. from + want - 1 = done + want
      BY <2>2, <2>3
    <3> HIDE DEF done, from
    <3>2. Len(source) < done + want
      BY <1>3, <3>1
    <3>3. done \in Nat /\ done + want <= header
      BY <2>2 DEF done
    <3> QED BY <1>1, <2>1, <2>3, <3>2, <3>3
  <2>5. left' < Budget
    BY <1>1, <1>3, <2>1, <2>4 DEF InSeal
  <2>6. pc' = "failed" /\ InFailed'
    BY <1>1, <1>3, <2>5 DEF Ends, InFailed, InSeal, Before
  <2> QED BY <1>1, <1>3, <2>6 DEF Safe, Phases
<1>4. CASE /\ Len(source) >= from + want - 1 /\ left' = left
           /\ stream' = Append(stream, Masked(Block(header, k, data)))
           /\ sealed' = sealed \o data /\ UNCHANGED <<pc, why>>
  <2>1. /\ stream' = Append(stream, Xor(Coded(Block(header, k, data)), mask))
        /\ sealed' = sealed \o data /\ pc' = pc /\ why' = why
    BY <1>4 DEF Masked
  <2>2. k < BlockCount(header) /\ BlockCount(header) \in Nat /\ header \in Nat /\ k \in Nat
    BY <1>1, <1>2, Counting, RecoveryAssumption
  <2>3. want \in 1 .. 3 /\ Len(sealed) \in Nat /\ Len(source) \in Nat
    BY <1>1, <1>2, <2>2, Counting, LenProperties
  <2> HIDE DEF k, want
  <2>4. data \in Seq({0, 1}) /\ Len(data) = want
    <3> DEFINE till == from + want - 1
    <3>1. \A i \in from .. till : source[i] \in {0, 1}
      BY <1>1, <1>4, <2>3, ElementOfSeq
    <3>2. from \in Int /\ till \in Int /\ from <= till /\ till - from + 1 = want
      BY <2>3
    <3> HIDE DEF from, till
    <3>3. SubSeq(source, from, till) \in Seq({0, 1}) /\ Len(SubSeq(source, from, till)) = want
      BY <3>1, <3>2, SubSeqProperties
    <3> QED BY <3>3 DEF from, till
  <2>5. SealedAs(stream', header, k + 1, sealed', mask)
    <3> HIDE DEF data
    <3> QED BY <1>1, <1>2, <2>1, <2>2, <2>4, SealGrows DEF want
  <2>6. Len(stream') - 1 = k + 1
    BY <2>2, <2>5 DEF SealedAs
  <2>7. InSeal'
    BY <1>1, <1>4, <2>1, <2>5, <2>6 DEF InSeal, Before
  <2> QED BY <1>1, <1>4, <2>1, <2>7 DEF Safe, Phases
<1>5. CASE Strikes /\ Ends("failed", "disk")
  <2>1. left' \in 0 .. Budget /\ left' < Budget
    BY <1>5, StrikeCounts
  <2>2. pc' = "failed" /\ InFailed'
    BY <1>1, <1>5, <2>1 DEF Ends, InFailed, InSeal, Before
  <2> QED BY <1>1, <2>1, <2>2 DEF Safe, Phases
<1> QED BY <1>3, <1>4, <1>5 DEF SealBlock

LEMMA EndSealSafe == ASSUME Safe, EndSeal PROVE Safe'
<1>1. /\ pc = "seal" /\ InSeal /\ pc' = "sealed" /\ whole' = stream /\ Len(sealed) = header
      /\ header \in 0 .. MaxSize /\ Safe
      /\ UNCHANGED <<source, header, mask, stream, good, right, index, dest, out, sealed, why,
                     left>>
  BY DEF EndSeal, Safe
<1> DEFINE k == Len(stream) - 1
<1>2. /\ SealedAs(stream, header, k, sealed, mask) /\ k \in 0 .. BlockCount(header)
      /\ Len(sealed) = Upto(header, k)
  BY <1>1 DEF InSeal, SealedAs
<1>3. BlockCount(header) \in Nat /\ header \in Nat
  BY <1>1, Counting, RecoveryAssumption
<1>4. k = BlockCount(header)
  <2> HIDE DEF k
  <2>1. CASE k < BlockCount(header)
    <3>1. k \in 0 .. BlockCount(header) - 1
      BY <1>2, <1>3, <2>1
    <3>2. Upto(header, k) = k * BlockSize /\ k * BlockSize \in 0 .. header - 1
      BY <1>1, <3>1, Counting
    <3> QED BY <1>1, <1>2, <1>3, <3>2
  <2> QED BY <1>2, <1>3, <2>1
<1>5. Kept'
  BY <1>1, <1>2, <1>4 DEF Kept
<1>6. InSealed'
  BY <1>1, <1>5 DEF InSealed, InSeal, Before
<1> QED BY <1>1, <1>6 DEF Safe, Phases

LEMMA SplitStreamSafe == ASSUME Safe, SplitStream PROVE Safe'
<1>1. /\ pc = "sealed" /\ InSealed /\ Safe
      /\ UNCHANGED <<source, header, mask, stream, good, right, index, dest, out, sealed, whole>>
  BY DEF SplitStream, Safe
<1>2. CASE pc' = "shards" /\ why' = why /\ left' = left /\ shards' = ShardsOf(stream)
  <2>1. InShards'
    BY <1>1, <1>2 DEF InShards, InSealed, Before, Kept, ShardsOf
  <2> QED BY <1>1, <1>2, <2>1 DEF Safe, Phases
<1>3. CASE Strikes /\ Ends("failed", "disk")
  <2>1. left' \in 0 .. Budget /\ left' < Budget
    BY <1>3, StrikeCounts
  <2>2. pc' = "failed" /\ InFailed'
    BY <1>1, <1>3, <2>1 DEF Ends, InFailed, InSealed, Before
  <2> QED BY <1>1, <2>1, <2>2 DEF Safe, Phases
<1> QED BY <1>2, <1>3 DEF SplitStream, ShardsOf

LEMMA FetchShardsSafe == ASSUME Safe, FetchShards PROVE Safe'
<1>1. /\ pc = "shards" /\ InShards /\ Safe /\ good' \in SUBSET (1 .. 4)
      /\ UNCHANGED <<source, header, mask, stream, shards, right, index, dest, out, left, sealed,
                     whole>>
  BY DEF FetchShards, Safe
<1>2. CASE Cardinality(good') < 2
  <2>1. pc' = "failed" /\ why' = "shards"
    BY <1>2 DEF FetchShards, Ends
  <2>2. InFailed'
    BY <1>1, <1>2, <2>1 DEF InFailed, InShards, InSealed, Before
  <2> QED BY <1>1, <2>1, <2>2 DEF Safe, Phases
<1>3. CASE ~(Cardinality(good') < 2)
  <2>1. pc' = "join" /\ why' = why
    BY <1>3 DEF FetchShards
  <2>2. Cardinality(good') >= 2
    <3>1. IsFiniteSet(1 .. 4)
      <4>1. 1 \in Int /\ 4 \in Int
        OBVIOUS
      <4> QED BY <4>1, FS_Interval, Zenon
    <3>2. IsFiniteSet(good')
      BY <1>1, <3>1, FS_Subset
    <3>3. Cardinality(good') \in Nat
      BY <3>2, FS_CardinalityType
    <3> QED BY <1>3, <3>3
  <2>3. InJoin'
    BY <1>1, <2>1, <2>2 DEF InJoin, InShards, InSealed, Before, Kept, ShardsOf
  <2> QED BY <1>1, <2>1, <2>3 DEF Safe, Phases
<1> QED BY <1>2, <1>3

\* Two shards or more hold a pair that is tried.
LEMMA PairFound ==
  ASSUME NEW present \in SUBSET (1 .. 4), Cardinality(present) >= 2
  PROVE  \E i \in 1 .. 6 : ChoosePair(present) = Order[i]
<1>1. PICK x : x \in present
  BY FS_EmptySet
<1>2. PICK y \in present : y # x
  <2>1. present # {x}
    BY FS_Singleton
  <2> QED BY <1>1, <2>1
<1>3. x \in {1, 2, 3, 4} /\ y \in {1, 2, 3, 4}
  BY <1>1, <1>2
<1>4. /\ Order[1][1] = 1 /\ Order[1][2] = 2 /\ Order[2][1] = 1 /\ Order[2][2] = 3
      /\ Order[3][1] = 2 /\ Order[3][2] = 3 /\ Order[4][1] = 1 /\ Order[4][2] = 4
      /\ Order[5][1] = 2 /\ Order[5][2] = 4 /\ Order[6][1] = 3 /\ Order[6][2] = 4
  BY DEF Order
<1>5. \E i \in 1 .. 6 : Order[i][1] \in present /\ Order[i][2] \in present
  BY <1>1, <1>2, <1>3, <1>4
<1>6. \E i \in 1 .. 6 : i \in Usable(present)
  BY <1>5 DEF Usable
<1>7. Usable(present) \subseteq 1 .. 6
  BY DEF Usable
<1>8. \E i \in Usable(present) : \A j \in Usable(present) : i <= j
  BY <1>6, <1>7
<1>9. (CHOOSE i \in Usable(present) : \A j \in Usable(present) : i <= j) \in 1 .. 6
  BY <1>7, <1>8
<1> QED BY <1>9 DEF ChoosePair

LEMMA PaddedByte ==
  ASSUME NEW st \in Seq(Byte), NEW k \in Nat \ {0}
  PROVE  Padded(st, k) \in Byte
<1>1. k <= Len(st) => k \in 1 .. Len(st)
  BY LenProperties
<1> QED BY <1>1, ElementOfSeq DEF Padded, Byte

LEMMA PairIn == \A i \in 1 .. 6 : Order[i][1] \in 1 .. 4 /\ Order[i][2] \in 1 .. 4
<1>1. ASSUME NEW i \in 1 .. 6 PROVE Order[i][1] \in 1 .. 4 /\ Order[i][2] \in 1 .. 4
  <2>1. i \in {1, 2, 3, 4, 5, 6}
    OBVIOUS
  <2> QED BY <2>1 DEF Order
<1> QED BY <1>1

\* Of whatever length a stream is, each pair of its shards gives it back.
LEMMA EveryPairJoins ==
  ASSUME NEW st \in Seq(Byte), NEW i \in 1 .. 6
  PROVE  LET pair == Order[i]
             half == Len(ShardsOf(st)[1])
             data == [k \in 1 .. half |->
                        Reconstruct(pair, ShardsOf(st)[pair[1]][k], ShardsOf(st)[pair[2]][k])]
         IN SubSeq([k \in 1 .. half |-> data[k][1]] \o [k \in 1 .. half |-> data[k][2]], 1, Len(st))
              = st
<1> DEFINE pair == Order[i]
           sh   == ShardsOf(st)
           half == Len(sh[1])
           h    == Half(Len(st))
           data == [k \in 1 .. half |-> Reconstruct(pair, sh[pair[1]][k], sh[pair[2]][k])]
           lo   == [k \in 1 .. half |-> data[k][1]]
           hi   == [k \in 1 .. half |-> data[k][2]]
           all  == lo \o hi
<1>1. h \in Nat /\ Len(st) \in Nat /\ Len(st) <= 2 * h
  BY LenProperties DEF Half
<1>2. \A j \in 1 .. 4 : sh[j] = [k \in 1 .. h |-> Encoded(Padded(st, k), Padded(st, h + k))[j]]
  BY DEF ShardsOf
<1>3. half = h
  <2>1. sh[1] = [k \in 1 .. h |-> Encoded(Padded(st, k), Padded(st, h + k))[1]]
    BY <1>2
  <2> HIDE DEF sh, h
  <2> QED BY <1>1, <2>1
<1>4. pair[1] \in 1 .. 4 /\ pair[2] \in 1 .. 4
  BY PairIn
<1> HIDE DEF sh, h, half
<1>5. ASSUME NEW k \in 1 .. h
      PROVE  data[k] = <<Padded(st, k), Padded(st, h + k)>>
  <2>1. Padded(st, k) \in Byte /\ Padded(st, h + k) \in Byte
    BY <1>1, PaddedByte
  <2>2. /\ sh[pair[1]][k] = Encoded(Padded(st, k), Padded(st, h + k))[pair[1]]
        /\ sh[pair[2]][k] = Encoded(Padded(st, k), Padded(st, h + k))[pair[2]]
    <3> HIDE DEF pair
    <3>1. \A j \in 1 .. 4 : sh[j][k] = Encoded(Padded(st, k), Padded(st, h + k))[j]
      BY <1>2
    <3> QED BY <1>4, <3>1
  <2>3. Reconstruct(pair, Encoded(Padded(st, k), Padded(st, h + k))[pair[1]],
                    Encoded(Padded(st, k), Padded(st, h + k))[pair[2]])
          = <<Padded(st, k), Padded(st, h + k)>>
    BY <2>1, EveryPairRebuilds
  <2> HIDE DEF pair
  <2> QED BY <1>3, <2>2, <2>3
<1> HIDE DEF pair, data
<1>6. /\ lo = [k \in 1 .. h |-> Padded(st, k)]
      /\ hi = [k \in 1 .. h |-> Padded(st, h + k)]
  BY <1>3, <1>5
<1>7. lo \in Seq(Byte) /\ Len(lo) = h /\ hi \in Seq(Byte) /\ Len(hi) = h
  <2>1. \A k \in 1 .. h : Padded(st, k) \in Byte /\ Padded(st, h + k) \in Byte
    BY <1>1, PaddedByte
  <2>2. lo \in [1 .. h -> Byte] /\ hi \in [1 .. h -> Byte]
    BY <1>6, <2>1
  <2> HIDE DEF lo, hi
  <2> QED BY <1>1, <2>2
<1>8. /\ \A k \in 1 .. h : lo[k] = Padded(st, k)
      /\ \A k \in 1 .. h : hi[k] = Padded(st, h + k)
  BY <1>6
<1> HIDE DEF lo, hi
<1>9. /\ all \in Seq(Byte) /\ Len(all) = h + h
      /\ \A k \in 1 .. h + h : all[k] = IF k <= h THEN lo[k] ELSE hi[k - h]
  <2>1. /\ lo \o hi \in Seq(Byte) /\ Len(lo \o hi) = Len(lo) + Len(hi)
        /\ \A k \in 1 .. Len(lo) + Len(hi) :
             (lo \o hi)[k] = IF k <= Len(lo) THEN lo[k] ELSE hi[k - Len(lo)]
    BY <1>7, ConcatProperties
  <2> HIDE DEF all
  <2>2. all = lo \o hi
    BY DEF all
  <2> QED BY <1>1, <1>7, <2>1, <2>2
<1>10. ASSUME NEW k \in 1 .. Len(st) PROVE all[k] = st[k]
  <2>1. k \in 1 .. h + h /\ Padded(st, k) = st[k]
    BY <1>1 DEF Padded
  <2>2. CASE k <= h
    BY <1>8, <1>9, <2>1, <2>2
  <2>3. CASE ~(k <= h)
    <3>1. k - h \in 1 .. h /\ h + (k - h) = k
      BY <1>1, <2>1, <2>3
    <3> QED BY <1>8, <1>9, <2>1, <2>3, <3>1
  <2> QED BY <2>2, <2>3
<1> HIDE DEF all
<1>11. \A k \in 1 .. Len(st) : all[k] \in Byte
  BY <1>10, ElementOfSeq
<1>12. SubSeq(all, 1, Len(st)) = st
  <2> DEFINE front == SubSeq(all, 1, Len(st))
             last == Len(st)
  <2>1. /\ SubSeq(all, 1, last) \in Seq(Byte)
        /\ Len(SubSeq(all, 1, last)) = IF 1 <= last THEN last - 1 + 1 ELSE 0
        /\ \A k \in 1 .. last - 1 + 1 : SubSeq(all, 1, last)[k] = all[1 + k - 1]
    <3>1. last \in Int /\ 1 \in Int /\ \A k \in 1 .. last : all[k] \in Byte
      BY <1>1, <1>11
    <3> HIDE DEF last
    <3> QED BY <3>1, SubSeqProperties
  <2> HIDE DEF front
  <2>2. /\ front \in Seq(Byte) /\ Len(front) = Len(st)
        /\ \A k \in 1 .. Len(st) : front[k] = st[k]
    BY <1>1, <1>10, <2>1 DEF front
  <2> QED BY <2>2, SeqEqual DEF front
<1> QED BY <1>12 DEF all, lo, hi, data, half, sh, pair

LEMMA JoinShardsSafe == ASSUME Safe, JoinShards PROVE Safe'
<1> DEFINE pair == ChoosePair(good)
           half == Len(shards[1])
           data == [k \in 1 .. half |-> Reconstruct(pair, shards[pair[1]][k], shards[pair[2]][k])]
           joined == SubSeq([k \in 1 .. half |-> data[k][1]] \o [k \in 1 .. half |-> data[k][2]],
                            1, Len(whole))
<1>1. /\ pc = "join" /\ InJoin /\ Safe /\ mask \in Byte
      /\ UNCHANGED <<source, header, mask, shards, good, right, index, dest, out, sealed, whole>>
  BY DEF JoinShards, Safe
<1>2. /\ Kept /\ stream = whole /\ shards = ShardsOf(stream) /\ Before
      /\ good \in SUBSET (1 .. 4) /\ Cardinality(good) >= 2
  BY <1>1 DEF InJoin
<1>3. whole \in Seq(Byte) /\ Len(whole) \in Nat /\ Len(whole) >= 1
      /\ whole[1] = Xor(Coded(Header(Len(sealed))), mask) /\ Len(sealed) \in 0 .. MaxSize
  BY <1>1, <1>2, KeptParts DEF Safe
<1>4. PICK i \in 1 .. 6 : ChoosePair(good) = Order[i]
  BY <1>2, PairFound
<1>5. joined = whole
  <2>1. joined = LET pa == Order[i]
                     ha == Len(ShardsOf(whole)[1])
                     da == [k \in 1 .. ha |->
                        Reconstruct(pa, ShardsOf(whole)[pa[1]][k], ShardsOf(whole)[pa[2]][k])]
                  IN SubSeq([k \in 1 .. ha |-> da[k][1]] \o [k \in 1 .. ha |-> da[k][2]],
                            1, Len(whole))
    BY <1>2, <1>4
  <2> QED BY <1>3, <2>1, EveryPairJoins
<1>6. half \in Nat /\ half >= 1
  <2>1. Half(Len(whole)) \in Nat /\ Half(Len(whole)) >= 1
    BY <1>3 DEF Half
  <2>2. Len(ShardsOf(whole)[1]) = Half(Len(whole))
    BY <2>1 DEF ShardsOf
  <2> QED BY <1>2, <2>1, <2>2
<1>7. \/ pc' = "stream" /\ stream' = joined /\ UNCHANGED <<left, cut, why>>
      \/ Strikes /\ Ends("failed", "disk") /\ UNCHANGED <<stream, cut>>
      \/ /\ Strikes /\ pc' = "stream" /\ cut' = TRUE /\ why' = why
         /\ \E k \in half .. Len(whole) - 1 : stream' = Cut(joined, k)
  BY DEF JoinShards
<1> HIDE DEF joined, half, data, pair
<1>8. CASE pc' = "stream" /\ stream' = joined /\ UNCHANGED <<left, cut, why>>
  <2>1. whole' = whole /\ sealed' = sealed /\ mask' = mask
    BY <1>1
  <2>2. Arrived'
    BY <1>3, <1>5, <1>8, <2>1 DEF Arrived
  <2>3. InStream'
    BY <1>1, <1>2, <1>8, <2>2 DEF InStream, Before, Kept
  <2> QED BY <1>1, <1>8, <2>3 DEF Safe, Phases
<1>9. CASE Strikes /\ Ends("failed", "disk")
  <2>1. left' \in 0 .. Budget /\ left' < Budget
    BY <1>9, StrikeCounts
  <2>2. pc' = "failed" /\ InFailed'
    BY <1>2, <1>1, <1>9, <2>1 DEF Ends, InFailed, Before
  <2> QED BY <1>1, <2>1, <2>2 DEF Safe, Phases
<1>10. ASSUME Strikes, pc' = "stream", cut' = TRUE, why' = why,
              NEW k \in half .. Len(whole) - 1, stream' = Cut(joined, k)
       PROVE  Safe'
  <2>1. left' \in 0 .. Budget /\ left' < Budget
    BY <1>10, StrikeCounts
  <2>2. /\ stream' = [l \in 1 .. Len(whole) |-> IF l <= k THEN whole[l] ELSE Zeroes]
        /\ whole' = whole /\ sealed' = sealed /\ mask' = mask /\ k >= 1 /\ k \in Nat
    BY <1>1, <1>3, <1>5, <1>6, <1>10 DEF Cut
  <2>3. Len(stream') = Len(whole)
    BY <1>3, <2>2
  <2>4. stream'[1] = whole[1]
    BY <1>3, <2>2
  <2>5. ASSUME NEW l \in 2 .. Len(whole)
        PROVE  stream'[l] = Zeroes \/ \E j \in 2 .. Len(whole) : stream'[l] = whole[j]
    <3>1. l \in 1 .. Len(whole)
      BY <1>3
    <3> QED BY <2>2, <3>1
  <2>6. Arrived'
    BY <1>3, <1>10, <2>1, <2>2, <2>3, <2>4, <2>5 DEF Arrived
  <2>7. InStream'
    BY <1>1, <1>2, <1>10, <2>6 DEF InStream, Before, Kept
  <2> QED BY <1>1, <1>10, <2>1, <2>7 DEF Safe, Phases
<1> QED BY <1>7, <1>8, <1>9, <1>10

\* However a stream is damaged, it is made of blocks of the seal, behind some header.
LEMMA DamagedArrives ==
  ASSUME Kept, mask \in Byte, NEW st \in Damaged(whole)
  PROVE  /\ st \in Seq(Byte) /\ Len(st) <= Len(whole)
         /\ st # <<>> => \E n \in 0 .. MaxSize : st[1] = Xor(Coded(Header(n)), mask)
         /\ \A i \in 2 .. Len(st) : \E j \in 2 .. Len(whole) : st[i] = whole[j]
<1>1. /\ whole \in Seq(Byte) /\ Len(whole) \in Nat /\ Len(whole) >= 1
      /\ \E n \in 0 .. MaxSize : whole[1] = Xor(Coded(Header(n)), mask)
  BY KeptParts
<1>2. CASE \E k \in 0 .. Len(whole) - 1 : st = SubSeq(whole, 1, k)
  <2>1. PICK k \in 0 .. Len(whole) - 1 : st = SubSeq(whole, 1, k)
    BY <1>2
  <2>2. 1 \in Int /\ k \in Int /\ \A i \in 1 .. k : whole[i] \in Byte
    BY <1>1, ElementOfSeq
  <2>3. /\ SubSeq(whole, 1, k) \in Seq(Byte)
        /\ Len(SubSeq(whole, 1, k)) = IF 1 <= k THEN k - 1 + 1 ELSE 0
        /\ \A i \in 1 .. k - 1 + 1 : SubSeq(whole, 1, k)[i] = whole[1 + i - 1]
    BY <2>2, SubSeqProperties
  <2>4. st \in Seq(Byte) /\ Len(st) = k /\ \A i \in 1 .. k : st[i] = whole[i]
    BY <2>1, <2>3
  <2>5. st # <<>> => 1 \in 1 .. k
    BY <2>4
  <2> QED BY <1>1, <2>4, <2>5
<1>3. CASE \E i \in 2 .. Len(whole), j \in 2 .. Len(whole) :
             st = [whole EXCEPT ![i] = whole[j], ![j] = whole[i]]
  <2>1. PICK i \in 2 .. Len(whole), j \in 2 .. Len(whole) :
               st = [whole EXCEPT ![i] = whole[j], ![j] = whole[i]]
    BY <1>3
  <2>2. whole[i] \in Byte /\ whole[j] \in Byte /\ i \in 1 .. Len(whole) /\ j \in 1 .. Len(whole)
    BY <1>1, ElementOfSeq
  <2> DEFINE once == [whole EXCEPT ![i] = whole[j]]
  <2>3. /\ once \in Seq(Byte) /\ Len(once) = Len(whole)
        /\ \A l \in 1 .. Len(whole) : once[l] = IF l = i THEN whole[j] ELSE whole[l]
    BY <1>1, <2>2, ExceptSeq
  <2>4. st = [once EXCEPT ![j] = whole[i]]
    BY <2>1
  <2> HIDE DEF once
  <2>5. /\ st \in Seq(Byte) /\ Len(st) = Len(whole)
        /\ \A l \in 1 .. Len(whole) : st[l] = IF l = j THEN whole[i] ELSE once[l]
    BY <1>1, <2>2, <2>3, <2>4, ExceptSeq
  <2>6. st[1] = whole[1]
    BY <1>1, <2>3, <2>5
  <2>7. \A l \in 2 .. Len(st) : \E m \in 2 .. Len(whole) : st[l] = whole[m]
    BY <1>1, <2>3, <2>5
  <2>8. \E n \in 0 .. MaxSize : st[1] = Xor(Coded(Header(n)), mask)
    BY ONLY <1>1, <2>6
  <2>9. Len(st) <= Len(whole)
    BY ONLY <1>1, <2>5
  <2> QED BY ONLY <2>5, <2>7, <2>8, <2>9
<1>4. CASE \E i \in 2 .. Len(whole), j \in 2 .. Len(whole) : st = [whole EXCEPT ![i] = whole[j]]
  <2>1. PICK i \in 2 .. Len(whole), j \in 2 .. Len(whole) : st = [whole EXCEPT ![i] = whole[j]]
    BY <1>4
  <2>2. whole[j] \in Byte /\ i \in 1 .. Len(whole)
    BY <1>1, ElementOfSeq
  <2>3. /\ st \in Seq(Byte) /\ Len(st) = Len(whole)
        /\ \A l \in 1 .. Len(whole) : st[l] = IF l = i THEN whole[j] ELSE whole[l]
    BY <1>1, <2>1, <2>2, ExceptSeq
  <2>4. st[1] = whole[1] /\ \A l \in 2 .. Len(st) : \E m \in 2 .. Len(whole) : st[l] = whole[m]
    BY <1>1, <2>3
  <2>5. \E n \in 0 .. MaxSize : st[1] = Xor(Coded(Header(n)), mask)
    BY ONLY <1>1, <2>4
  <2>6. Len(st) <= Len(whole)
    BY ONLY <1>1, <2>3
  <2> QED BY ONLY <2>3, <2>4, <2>5, <2>6
<1>5. CASE \E n \in 0 .. MaxSize : st = [whole EXCEPT ![1] = Masked(Header(n))]
  <2>1. PICK n \in 0 .. MaxSize : st = [whole EXCEPT ![1] = Masked(Header(n))]
    BY <1>5
  <2> DEFINE b == Masked(Header(n))
  <2>2. b \in Byte /\ b = Xor(Coded(Header(n)), mask) /\ 1 \in 1 .. Len(whole)
    BY <1>1, HeaderUnit, ReadBack DEF Masked
  <2> HIDE DEF b
  <2>3. st = [whole EXCEPT ![1] = b]
    BY <2>1 DEF b
  <2>4. /\ st \in Seq(Byte) /\ Len(st) = Len(whole)
        /\ \A l \in 1 .. Len(whole) : st[l] = IF l = 1 THEN b ELSE whole[l]
    BY <1>1, <2>2, <2>3, ExceptSeq
  <2>5. st[1] = b /\ \A l \in 2 .. Len(st) : st[l] = whole[l]
    BY <1>1, <2>4
  <2> QED BY <1>1, <2>2, <2>4, <2>5
<1> QED BY <1>2, <1>3, <1>4, <1>5 DEF Damaged

LEMMA TransferSafe == ASSUME Safe, Transfer PROVE Safe'
<1>1. /\ pc = "sealed" /\ pc' = "stream" /\ InSealed /\ Safe /\ mask \in Byte
      /\ UNCHANGED <<source, header, mask, shards, good, right, index, dest, out, sealed, whole, why>>
  BY DEF Transfer, Safe
<1>2. Kept /\ stream = whole /\ good = {}
  BY <1>1 DEF InSealed
<1>3. Arrived' /\ left' \in 0 .. Budget
  <2>1. CASE stream' = stream /\ left' = left
    <3>1. whole \in Seq(Byte) /\ Len(whole) \in Nat
          /\ \E n \in 0 .. MaxSize : whole[1] = Xor(Coded(Header(n)), mask)
      BY <1>1, <1>2, KeptParts
    <3> QED BY <1>1, <1>2, <2>1, <3>1 DEF Arrived, Safe
  <2>2. CASE Strikes /\ stream' \in Damaged(stream)
    <3> DEFINE st == stream'
    <3>1. st \in Damaged(whole)
      BY <1>2, <2>2
    <3>2. /\ st \in Seq(Byte) /\ Len(st) <= Len(whole)
          /\ st # <<>> => \E n \in 0 .. MaxSize : st[1] = Xor(Coded(Header(n)), mask)
          /\ \A i \in 2 .. Len(st) : \E j \in 2 .. Len(whole) : st[i] = whole[j]
      BY <1>1, <1>2, <3>1, DamagedArrives
    <3>3. Len(st) \in Nat
      BY <3>2, LenProperties
    <3>4. left' \in 0 .. Budget /\ left' < Budget
      BY <2>2, StrikeCounts
    <3> QED BY <1>1, <1>2, <3>2, <3>3, <3>4 DEF Arrived
  <2> QED BY <2>1, <2>2 DEF Transfer
<1>4. InStream'
  BY <1>1, <1>2, <1>3 DEF InStream, InSealed, Before, Kept
<1> QED BY <1>1, <1>3, <1>4 DEF Safe, Phases

LEMMA BeginOpenSafe == ASSUME Safe, BeginOpen PROVE Safe'
<1>1. /\ pc = "stream" /\ InStream /\ Safe /\ mask \in Byte
      /\ UNCHANGED <<source, mask, stream, shards, good, right, index, out, sealed, whole, cut>>
  BY DEF BeginOpen, Safe
<1>2. Kept /\ Arrived /\ Before
  BY <1>1 DEF InStream
<1>3. CASE stream = <<>> \/ UnitOf(stream[1]).index # -1
  <2>1. /\ pc' = "failed" /\ why' = "stream" /\ header' = header /\ dest' = dest
        /\ left' = left
    BY <1>3 DEF BeginOpen, Ends
  <2>2. stream # whole
    <3>1. Len(whole) >= 1 /\ UnitOf(whole[1]).index = -1
      BY <1>1, <1>2, KeptParts, HeaderUnit
    <3>2. whole # <<>>
      BY <3>1
    <3> QED BY <1>3, <3>1, <3>2
  <2>3. InFailed'
    BY <1>1, <1>2, <2>1, <2>2 DEF InFailed, Arrived, Before
  <2> QED BY <1>1, <2>1, <2>3 DEF Safe, Phases
<1>4. CASE /\ ~(stream = <<>> \/ UnitOf(stream[1]).index # -1)
           /\ pc' = "open" /\ UNCHANGED <<why, left>>
           /\ header' = UnitOf(stream[1]).size /\ dest' = "partial"
  <2>1. /\ pc' = "open" /\ why' = why /\ header' = UnitOf(stream[1]).size /\ dest' = "partial"
        /\ left' = left
    BY <1>4
  <2>2. PICK n \in 0 .. MaxSize : stream[1] = Xor(Coded(Header(n)), mask)
    BY <1>2, <1>4 DEF Arrived
  <2>3. header' = n
    BY <1>1, <2>1, <2>2, HeaderUnit, ReadBack
  <2>4. Upto(n, 0) = 0 /\ 0 \in 0 .. BlockCount(n)
    BY Counting
  <2>5. Opened'
    <3>1. /\ stream' # <<>> /\ stream'[1] = Xor(Coded(Header(header')), mask')
          /\ index' = 0 /\ index' \in 0 .. BlockCount(header') /\ out' = <<>>
      BY <1>1, <1>2, <1>4, <2>2, <2>3, <2>4 DEF Before
    <3>2. out' \in Seq({0, 1}) /\ Len(out') = Upto(header', index')
          /\ \A i \in 1 .. Len(out') : out'[i] = sealed'[i]
      BY <2>3, <2>4, <3>1
    <3> QED BY <3>1, <3>2 DEF Opened
  <2>6. InOpen'
    BY <1>1, <1>2, <2>1, <2>5 DEF InOpen, Before, Kept, Arrived
  <2> QED BY <1>1, <2>1, <2>3, <2>6 DEF Safe, Phases
<1>5. CASE Strikes /\ Ends("failed", "disk") /\ UNCHANGED <<header, dest>>
  <2>1. left' \in 0 .. Budget /\ left' < Budget
    BY <1>5, StrikeCounts
  <2>2. pc' = "failed" /\ InFailed'
    BY <1>1, <1>2, <1>5, <2>1 DEF Ends, InFailed, Before
  <2> QED BY <1>1, <1>5, <2>1, <2>2 DEF Safe, Phases
<1> QED BY <1>3, <1>4, <1>5 DEF BeginOpen

\* No unit is all zeroes once it is masked.
LEMMA ZeroesAreNoUnit == ASSUME mask \in Byte PROVE UnitOf(Zeroes) = Noise
<1>1. \A u \in Units : Xor(Coded(u), mask) \in Byte
  BY CodedBits, XorByte
<1>2. Zeroes \notin Byte
  BY DEF Zeroes, Byte, Bits
<1>3. {u \in Units : Xor(Coded(u), mask) = Zeroes} = {}
  BY <1>1, <1>2
<1> QED BY <1>3 DEF UnitOf

\* A unit that opens is the next block of what was sealed, under the header it was sealed with.
LEMMA AuthenticIsNext ==
  ASSUME Kept, Arrived, mask \in Byte, index \in Nat, index + 2 <= Len(stream),
         Authentic(UnitOf(stream[index + 2]))
  PROVE  LET d == Piece(sealed, Len(sealed), index) IN
         /\ header = Len(sealed) /\ UnitOf(stream[index + 2]).data = d
         /\ index \in 0 .. BlockCount(header) - 1
         /\ d \in Seq({0, 1}) /\ Len(d) = BlockLen(header, index)
         /\ \A i \in 1 .. Len(d) : d[i] = sealed[index * BlockSize + i]
<1>1. index + 2 \in 2 .. Len(stream)
  BY LenProperties DEF Arrived
<1>2. PICK j \in 2 .. Len(whole) : stream[index + 2] = whole[j]
  <2>1. stream[index + 2] # Zeroes
    BY ZeroesAreNoUnit DEF Authentic
  <2> QED BY <1>1, <2>1 DEF Arrived
<1> DEFINE n == Len(sealed)
           k == j - 2
           p == Piece(sealed, n, k)
<1>3. /\ k \in 0 .. BlockCount(n) - 1
      /\ p \in Seq({0, 1}) /\ Len(p) = BlockLen(n, k)
      /\ \A i \in 1 .. Len(p) : p[i] = sealed[k * BlockSize + i]
      /\ UnitOf(whole[j]) = Block(n, k, p)
  BY KeptParts
<1> HIDE DEF k, n, p
<1>4. UnitOf(stream[index + 2]) = [size |-> n, index |-> k, data |-> p]
  BY <1>2, <1>3 DEF Block
<1>5. n = header /\ k = index /\ UnitOf(stream[index + 2]).data = p
  BY <1>4 DEF Authentic
<1> QED BY <1>3, <1>5 DEF n, p

LEMMA OpenBlockSafe == ASSUME Safe, OpenBlock PROVE Safe'
<1> DEFINE there == index + 2 <= Len(stream)
           u     == UnitOf(stream[index + 2])
<1>1. /\ pc = "open" /\ InOpen /\ Safe /\ mask \in Byte /\ index < BlockCount(header)
      /\ header \in 0 .. MaxSize
      /\ UNCHANGED <<source, header, mask, stream, shards, good, right, sealed, whole, cut>>
  BY DEF OpenBlock, Safe
<1>2. Kept /\ Arrived /\ Opened /\ dest = "partial" /\ why = "none"
  BY <1>1 DEF InOpen
<1>3. /\ BlockCount(header) \in Nat /\ index \in 0 .. BlockCount(header) - 1 /\ index \in Nat
  BY <1>1, <1>2, Counting, RecoveryAssumption DEF Opened
<1>4. CASE there /\ Authentic(u) /\ out' = out \o u.data /\ index' = index + 1
           /\ UNCHANGED <<pc, dest, why>> /\ left' = left
  <2> DEFINE d == Piece(sealed, Len(sealed), index)
  <2>1. /\ header = Len(sealed) /\ u.data = d
        /\ d \in Seq({0, 1}) /\ Len(d) = BlockLen(header, index)
        /\ \A i \in 1 .. Len(d) : d[i] = sealed[index * BlockSize + i]
    BY <1>1, <1>2, <1>3, <1>4, AuthenticIsNext
  <2>2. /\ out \in Seq({0, 1}) /\ Len(out) = Upto(header, index)
        /\ \A i \in 1 .. Len(out) : out[i] = sealed[i]
    BY <1>2 DEF Opened
  <2>3. /\ Upto(header, index) = index * BlockSize /\ index * BlockSize \in Nat
        /\ Upto(header, index + 1) = index * BlockSize + BlockLen(header, index)
        /\ BlockLen(header, index) \in Nat
    BY <1>1, <1>3, Counting
  <2>4. out' = out \o d
    BY <1>4, <2>1
  <2> HIDE DEF d, u
  <2>5. /\ out \o d \in Seq({0, 1}) /\ Len(out \o d) = Len(out) + Len(d)
        /\ \A i \in 1 .. Len(out) + Len(d) :
             (out \o d)[i] = IF i <= Len(out) THEN out[i] ELSE d[i - Len(out)]
    BY <2>1, <2>2, ConcatProperties
  <2>6. /\ out' \in Seq({0, 1}) /\ Len(out') = Len(out) + Len(d)
        /\ \A i \in 1 .. Len(out) + Len(d) :
             out'[i] = IF i <= Len(out) THEN out[i] ELSE d[i - Len(out)]
    BY <2>4, <2>5
  <2>7. Len(out') = Upto(header, index + 1)
    BY <2>1, <2>2, <2>3, <2>6
  <2>8. ASSUME NEW i \in 1 .. Len(out') PROVE out'[i] = sealed[i]
    <3>1. Len(out) = index * BlockSize /\ Len(out) \in Nat /\ Len(d) \in Nat
      BY <2>1, <2>2, <2>3
    <3>2. CASE i <= Len(out)
      BY <2>2, <2>6, <3>1, <3>2
    <3>3. CASE ~(i <= Len(out))
      <4>1. i - Len(out) \in 1 .. Len(d) /\ Len(out) + (i - Len(out)) = i
        BY <2>6, <3>1, <3>3
      <4>2. out'[i] = d[i - Len(out)]
        BY <2>6, <3>1, <3>3
      <4>3. d[i - Len(out)] = sealed[Len(out) + (i - Len(out))]
        BY <2>1, <3>1, <4>1
      <4> QED BY <4>1, <4>2, <4>3
    <3> QED BY <3>2, <3>3
  <2>9. index' \in 0 .. BlockCount(header) /\ index' = index + 1
    BY <1>3, <1>4
  <2>10. Opened'
    BY <1>1, <1>2, <2>1, <2>6, <2>7, <2>8, <2>9 DEF Opened
  <2>11. InOpen'
    BY <1>1, <1>2, <1>4, <2>10 DEF InOpen, Kept, Arrived
  <2> QED BY <1>1, <1>4, <2>11 DEF Safe, Phases
<1>5. CASE (there => ~Authentic(u)) /\ GivesUp("stream") /\ left' = left
  <2>1. pc' = "failed" /\ why' = "stream" /\ dest' = "absent"
    BY <1>5 DEF GivesUp, Ends
  <2>2. ~(right /\ stream = whole)
    <3> SUFFICES ASSUME right, stream = whole PROVE FALSE
      OBVIOUS
    <3> DEFINE n == Len(sealed)
               d == Piece(sealed, n, index)
    <3>1. /\ UnitOf(whole[1]) = Header(n) /\ n \in 0 .. MaxSize
          /\ Len(whole) = BlockCount(n) + 1 /\ BlockCount(n) \in Nat
      BY <1>1, <1>2, KeptParts
    <3>2. UnitOf(stream[1]) = Header(header)
      BY <1>1, <1>2, HeaderUnit, ReadBack DEF Opened
    <3>3. header = n
      BY <1>1, <3>1, <3>2, HeaderUnit
    <3>4. index + 2 \in 2 .. Len(whole) /\ index + 2 - 2 = index
      BY <1>3, <3>1, <3>3
    <3>5. there
      BY <3>4
    <3>6. /\ UnitOf(whole[index + 2]) = Block(n, index, d) /\ Block(n, index, d) \in Units
      <4> DEFINE j == index + 2
      <4>1. j \in 2 .. Len(whole) /\ j - 2 = index
        BY <1>3, <3>4
      <4> HIDE DEF j
      <4>2. /\ UnitOf(whole[j]) = Block(n, j - 2, Piece(sealed, n, j - 2))
            /\ Block(n, j - 2, Piece(sealed, n, j - 2)) \in Units
        BY <1>1, <1>2, <4>1, KeptParts
      <4> QED BY <4>1, <4>2 DEF j
    <3> HIDE DEF n, d
    <3>7. u = [size |-> n, index |-> index, data |-> d] /\ u \in Units
      BY <3>6 DEF Block
    <3>8. u # Noise
      BY <3>1, <3>7, RecoveryAssumption DEF Noise
    <3>9. Authentic(u)
      BY <1>3, <3>3, <3>7, <3>8 DEF Authentic
    <3> QED BY <1>5, <3>5, <3>9
  <2>3. InFailed'
    BY <1>1, <1>2, <1>5, <2>1, <2>2 DEF InFailed, Arrived, Safe
  <2> QED BY <1>1, <1>5, <2>1, <2>3 DEF Safe, Phases
<1>6. CASE Strikes /\ GivesUp("disk")
  <2>1. left' \in 0 .. Budget /\ left' < Budget
    BY <1>6, StrikeCounts
  <2>2. pc' = "failed" /\ InFailed'
    BY <1>6, <2>1 DEF GivesUp, Ends, InFailed
  <2> QED BY <1>1, <2>1, <2>2 DEF Safe, Phases
<1> QED BY <1>4, <1>5, <1>6 DEF OpenBlock

LEMMA EndOpenSafe == ASSUME Safe, EndOpen PROVE Safe'
<1>1. /\ pc = "open" /\ InOpen /\ Safe /\ mask \in Byte /\ index = BlockCount(header)
      /\ header \in 0 .. MaxSize
      /\ UNCHANGED <<source, header, mask, stream, shards, good, right, index, sealed, whole>>
  BY DEF EndOpen, Safe
<1>2. Kept /\ Arrived /\ Opened /\ dest = "partial" /\ why = "none"
  BY <1>1 DEF InOpen
<1>3. Len(out) = header
  BY <1>1, <1>2, Counting DEF Opened
<1>4. CASE Ends("done", why) /\ UNCHANGED <<out, left>>
  <2>1. pc' = "done"
    BY <1>4 DEF Ends
  <2>2. out = sealed \/ Emptied
    <3> DEFINE n == Len(sealed)
    <3>1. /\ sealed \in Seq({0, 1}) /\ n \in 0 .. MaxSize /\ whole[1] = Xor(Coded(Header(n)), mask)
          /\ UnitOf(whole[1]) = Header(n)
      BY <1>1, <1>2, KeptParts
    <3>2. /\ out \in Seq({0, 1}) /\ \A i \in 1 .. Len(out) : out[i] = sealed[i]
          /\ (index > 0 => header = n) /\ stream[1] = Xor(Coded(Header(header)), mask)
      BY <1>2 DEF Opened
    <3>3. CASE header = n
      BY <1>3, <3>1, <3>2, <3>3, SeqEqual
    <3>4. CASE header # n
      <4>1. header = 0
        BY <1>1, <3>2, <3>4, Counting, RecoveryAssumption
      <4>2. UnitOf(stream[1]) = Header(header)
        BY <1>1, <3>2, HeaderUnit, ReadBack
      <4>3. stream[1] # whole[1]
        BY <1>1, <3>1, <3>4, <4>2, HeaderUnit
      <4> QED BY <4>1, <4>3 DEF Emptied
    <3> QED BY <3>3, <3>4
  <2>3. InDone'
    BY <1>1, <1>4, <2>2 DEF InDone, Emptied
  <2> QED BY <1>1, <1>4, <2>1, <2>3 DEF Safe, Phases
<1>5. CASE Strikes /\ Ends("done", "disk")
  <2>1. left' \in 0 .. Budget
    BY <1>5, StrikeCounts
  <2>2. pc' = "done" /\ InDone'
    BY <1>5 DEF Ends, InDone
  <2> QED BY <1>1, <2>1, <2>2 DEF Safe, Phases
<1> QED BY <1>3, <1>4, <1>5 DEF EndOpen

LEMMA KillSafe == ASSUME Safe, Kill PROVE Safe'
<1>1. /\ pc \in Phases \ {"done", "failed", "killed"} /\ pc' = "killed" /\ Safe
      /\ UNCHANGED <<source, header, mask, right, dest>>
  BY DEF Kill, Safe
<1>2. dest # "whole"
  BY <1>1 DEF Safe, Phases, InStart, InSeal, InSealed, InShards, InJoin, InStream, InOpen, Before
<1>3. left' \in 0 .. Budget
  BY StrikeCounts DEF Kill
<1> QED BY <1>1, <1>2, <1>3 DEF Safe, Phases, InKilled

-----------------------------------------------------------------------------
(* What it establishes *)

\* At every step the destination, the stream and the shards are what that step needs
\* (seal_file, split_stream, join_shards, open_file).
THEOREM SafeAlways == Spec => []Safe
<1>1. Safe /\ [Next]_vars => Safe'
  <2> SUFFICES ASSUME Safe, [Next]_vars PROVE Safe'
    OBVIOUS
  <2>1. CASE Next
    BY <2>1, BeginSealSafe, ChangeSafe, SealBlockSafe, EndSealSafe, SplitStreamSafe,
       FetchShardsSafe, JoinShardsSafe, TransferSafe, BeginOpenSafe, OpenBlockSafe,
       EndOpenSafe, KillSafe DEF Next
  <2>2. CASE UNCHANGED vars
    BY <2>2 DEF vars, Safe, InStart, InSeal, InSealed, InShards, InJoin, InStream, InOpen, InDone,
       InFailed, InKilled, Before, Kept, Arrived, Opened, Emptied, ShardsOf
  <2> QED BY <2>1, <2>2
<1> QED BY SafeInit, <1>1, PTL DEF Spec

\* A file that opens is what was sealed, whatever became of the stream in between, or an
\* empty file whose header was damaged to say so (open_file, block_aad).
THEOREM OpenedIsSealed == Spec => []RoundTrip
<1>1. Safe => RoundTrip
  BY DEF Safe, Phases, RoundTrip, InStart, InSeal, InSealed, InShards, InJoin, InStream, InOpen,
         InDone, InFailed, InKilled, Before
<1> QED BY SafeAlways, <1>1, PTL

\* A file is not recovered only if it became shorter while it was sealed, a disk failed, its
\* stream was damaged, the passphrase is wrong or fewer than two intact shards came back
\* (seal_file, rebuild_stream, join_shards, open_file).
THEOREM RecoveredIfKept == Spec => []RecoveredUnlessLost
<1>1. Safe => RecoveredUnlessLost
  BY DEF Safe, RecoveredUnlessLost, InFailed
<1> QED BY SafeAlways, <1>1, PTL

\* An attempt that fails leaves the destination as it was, or gone (open_file).
THEOREM NoPartLeftBehind == Spec => []NoHalfFile
<1>1. Safe => NoHalfFile
  BY DEF Safe, NoHalfFile, InFailed
<1> QED BY SafeAlways, <1>1, PTL
=============================================================================
