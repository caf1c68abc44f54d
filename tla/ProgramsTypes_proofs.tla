------------------------- MODULE ProgramsTypes_proofs -------------------------
(***************************************************************************)
(* Proofs about the CRC library, for every well-formed set of parameters:  *)
(* the lookup table and the calculation in parts give the CRC of the bits; *)
(* and that every program of Programs keeps its types.                     *)
(*                                                                         *)
(* A value is a set of bit numbers.  The divisor is in or out of a step by *)
(* one bit of the remainder, so that a step takes an exclusive or apart;   *)
(* eight steps of the bits below the top byte only move them up, and those *)
(* of the top byte are what the table has.                                 *)
(***************************************************************************)
EXTENDS ProgramsContents_proofs
-----------------------------------------------------------------------------
(* The CRC.  A value is the set of its bits; what each operator does to a   *)
(* bit comes first.                                                         *)

LEMMA XorBits ==
    ASSUME NEW a, NEW b, NEW k
    PROVE  k \in Crc!Xor(a, b) <=> (k \in a <=> k \notin b)
BY DEF Crc!Xor

LEMMA MaskBits ==
    ASSUME NEW a, NEW n, NEW k
    PROVE  k \in Crc!Mask(a, n) <=> k \in a /\ k < n
BY DEF Crc!Mask

LEMMA LeftBits ==
    ASSUME NEW p, p.digits \in Int, NEW a \in SUBSET Int, NEW n \in Int, NEW k \in Int
    PROVE  k \in Crc!ShiftLeft(p, a, n) <=> k - n \in a /\ k < p.digits
<1>1. ASSUME k \in Crc!ShiftLeft(p, a, n) PROVE k - n \in a /\ k < p.digits
  <2>1. PICK j \in Crc!Mask(a, p.digits - n) : k = j + n
    BY <1>1 DEF Crc!ShiftLeft
  <2>2. j \in a /\ j < p.digits - n /\ j \in Int
    BY <2>1 DEF Crc!Mask
  <2> QED BY <2>1, <2>2
<1>2. ASSUME k - n \in a, k < p.digits PROVE k \in Crc!ShiftLeft(p, a, n)
  <2>1. PICK j : j = k - n
    OBVIOUS
  <2>2. j \in Crc!Mask(a, p.digits - n) /\ k = j + n
    BY <1>2, <2>1 DEF Crc!Mask
  <2> QED BY <2>2 DEF Crc!ShiftLeft
<1> QED BY <1>1, <1>2

LEMMA RightBits ==
    ASSUME NEW a \in SUBSET Int, NEW n \in Int, NEW k \in Int
    PROVE  k \in Crc!ShiftRight(a, n) <=> k + n \in a /\ k >= 0
<1>1. ASSUME k \in Crc!ShiftRight(a, n) PROVE k + n \in a /\ k >= 0
  <2>1. PICK j \in a : k = j - n /\ j >= n
    BY <1>1 DEF Crc!ShiftRight
  <2>2. j \in Int
    BY <2>1
  <2> QED BY <2>1, <2>2
<1>2. ASSUME k + n \in a, k >= 0 PROVE k \in Crc!ShiftRight(a, n)
  <2>1. PICK j : j = k + n
    OBVIOUS
  <2>2. j \in a /\ j >= n /\ k = j - n
    BY <1>2, <2>1
  <2> QED BY <2>2 DEF Crc!ShiftRight
<1> QED BY <1>1, <1>2

LEMMA ReflectBits ==
    ASSUME NEW a \in SUBSET Int, NEW n \in Int, NEW k \in Int
    PROVE  k \in Crc!Reflect(a, n) <=> n - 1 - k \in a /\ k >= 0
<1>1. ASSUME k \in Crc!Reflect(a, n) PROVE n - 1 - k \in a /\ k >= 0
  <2>1. PICK j \in Crc!Mask(a, n) : k = n - 1 - j
    BY <1>1 DEF Crc!Reflect
  <2>2. j \in a /\ j < n /\ j \in Int
    BY <2>1 DEF Crc!Mask
  <2>3. n - 1 - k = j
    BY <2>1, <2>2
  <2> QED BY <2>1, <2>2, <2>3
<1>2. ASSUME n - 1 - k \in a, k >= 0 PROVE k \in Crc!Reflect(a, n)
  <2>1. PICK j : j = n - 1 - k
    OBVIOUS
  <2>2. j \in Crc!Mask(a, n) /\ k = n - 1 - j
    BY <1>2, <2>1 DEF Crc!Mask
  <2> QED BY <2>2 DEF Crc!Reflect
<1> QED BY <1>1, <1>2

\* All of them give sets of numbers.
LEMMA BitsAreNumbers ==
    ASSUME NEW p, p.digits \in Int, NEW a \in SUBSET Int, NEW b \in SUBSET Int, NEW n \in Int
    PROVE  /\ Crc!Xor(a, b) \in SUBSET Int /\ Crc!Mask(a, n) \in SUBSET Int
           /\ Crc!ShiftLeft(p, a, n) \in SUBSET Int /\ Crc!ShiftRight(a, n) \in SUBSET Int
           /\ Crc!Reflect(a, n) \in SUBSET Int
<1>1. Crc!Xor(a, b) \in SUBSET Int
  BY DEF Crc!Xor
<1>2. \A m : Crc!Mask(a, m) \in SUBSET Int
  BY DEF Crc!Mask
<1>3. Crc!ShiftLeft(p, a, n) \in SUBSET Int
  BY <1>2 DEF Crc!ShiftLeft
<1>4. Crc!ShiftRight(a, n) \in SUBSET Int
  BY DEF Crc!ShiftRight
<1>5. Crc!Reflect(a, n) \in SUBSET Int
  BY <1>2 DEF Crc!Reflect
<1> QED BY <1>1, <1>2, <1>3, <1>4, <1>5

LEMMA SameBits ==
    ASSUME NEW a \in SUBSET Int, NEW b \in SUBSET Int, \A k \in Int : k \in a <=> k \in b
    PROVE  a = b
OBVIOUS

LEMMA ParametersAre ==
    ASSUME NEW p, Crc!WellFormed(p)
    PROVE  /\ p.digits \in Nat /\ p.width \in Nat /\ 1 <= p.width /\ p.width <= p.digits
           /\ 8 <= p.digits /\ p.reflectInput \in BOOLEAN
           /\ Crc!LoopWidth(p) \in Nat /\ Crc!Pad(p) \in 0 .. 7
           /\ Crc!LoopWidth(p) = p.width + Crc!Pad(p) /\ Crc!LoopWidth(p) <= p.digits
           /\ p.reflectInput => Crc!LoopWidth(p) = p.width /\ Crc!Pad(p) = 0
           /\ ~p.reflectInput => Crc!LoopWidth(p) >= 8 /\ (p.width < 8 => Crc!LoopWidth(p) = 8)
           /\ p.polynomial \in SUBSET Int /\ \A k \in p.polynomial : 0 <= k /\ k < p.width
<1>1. /\ p.digits \in Nat /\ p.width \in Nat /\ 1 <= p.width /\ p.width <= p.digits
      /\ 8 <= p.digits /\ p.reflectInput \in BOOLEAN
  BY DEF Crc!WellFormed, Crc!CHAR_BIT
<1>2. /\ Crc!LoopWidth(p) = IF p.width < 8 /\ ~p.reflectInput THEN 8 ELSE p.width
      /\ Crc!Pad(p) = Crc!LoopWidth(p) - p.width
  BY DEF Crc!LoopWidth, Crc!Pad, Crc!CHAR_BIT
<1>3. p.polynomial \subseteq 0 .. p.width - 1
  BY DEF Crc!WellFormed
<1>4. p.polynomial \in SUBSET Int /\ \A k \in p.polynomial : 0 <= k /\ k < p.width
  BY <1>1, <1>3
<1> QED BY <1>1, <1>2, <1>4

\* What is added to the remainder for a bit.
Divisor(p) == IF p.reflectInput THEN Crc!Reflect(p.polynomial, p.width)
              ELSE Crc!ShiftLeft(p, p.polynomial, Crc!Pad(p))

LEMMA DivisorIs ==
    ASSUME NEW p, Crc!WellFormed(p)
    PROVE  /\ Divisor(p) \in SUBSET Int
           /\ \A k \in Divisor(p) : Crc!Pad(p) <= k /\ k < Crc!LoopWidth(p)
<1>1. PICK d, w, s : d = p.digits /\ w = p.width /\ s = Crc!Pad(p)
  OBVIOUS
<1>2. d \in Int /\ w \in Int /\ s \in Int /\ w + s <= d /\ Crc!LoopWidth(p) = w + s
      /\ (p.reflectInput => s = 0) /\ p.reflectInput \in BOOLEAN
  BY <1>1, ParametersAre
<1>3. p.polynomial \in SUBSET Int /\ \A k \in p.polynomial : 0 <= k /\ k < w
  BY <1>1, ParametersAre
<1>4. CASE p.reflectInput
  <2>1. Divisor(p) = Crc!Reflect(p.polynomial, w)
    BY <1>1, <1>4 DEF Divisor
  <2>2. Divisor(p) \in SUBSET Int
    <3>1. p.digits \in Int
      BY ParametersAre
    <3>2. Crc!Reflect(p.polynomial, w) \in SUBSET Int
      BY <1>2, <1>3, <3>1, BitsAreNumbers
    <3> QED BY <2>1, <3>2
  <2>3. ASSUME NEW k \in Divisor(p) PROVE s <= k /\ k < w + s
    <3>1. k \in Int /\ w - 1 - k \in p.polynomial /\ k >= 0
      BY <1>2, <1>3, <2>1, <2>2, <2>3, ReflectBits
    <3>2. w - 1 - k >= 0
      BY <1>3, <3>1
    <3> QED BY <1>2, <1>4, <3>1, <3>2
  <2> QED BY <1>1, <1>2, <2>2, <2>3
<1>5. CASE ~p.reflectInput
  <2>1. Divisor(p) = Crc!ShiftLeft(p, p.polynomial, s)
    BY <1>1, <1>5 DEF Divisor
  <2>2. Divisor(p) \in SUBSET Int
    <3>1. Crc!ShiftLeft(p, p.polynomial, s) \in SUBSET Int
      BY <1>1, <1>2, <1>3, BitsAreNumbers
    <3> QED BY <2>1, <3>1
  <2>3. ASSUME NEW k \in Divisor(p) PROVE s <= k /\ k < w + s
    <3>1. k \in Int /\ k - s \in p.polynomial
      BY <1>1, <1>2, <1>3, <2>1, <2>2, <2>3, LeftBits
    <3>2. 0 <= k - s /\ k - s < w
      BY <1>3, <3>1
    <3> QED BY <1>2, <3>1, <3>2
  <2> QED BY <1>1, <1>2, <2>2, <2>3
<1> QED BY <1>2, <1>4, <1>5

\* One bit: half or twice the remainder, and the divisor when the bit that leaves is set.
LEMMA NextBitIs ==
    ASSUME NEW p, Crc!WellFormed(p), NEW a \in SUBSET Int, NEW k \in Int
    PROVE  k \in Crc!NextBit(p, a) <=>
              IF p.reflectInput
              THEN (k + 1 \in a /\ k >= 0) <=> ~(0 \in a /\ k \in Divisor(p))
              ELSE (k - 1 \in a /\ k < p.digits) <=>
                   ~(Crc!LoopWidth(p) - 1 \in a /\ k \in Divisor(p))
<1>1. p.digits \in Int
  BY ParametersAre
<1>2. k \in Crc!ShiftRight(a, 1) <=> k + 1 \in a /\ k >= 0
  BY RightBits
<1>3. k \in Crc!ShiftLeft(p, a, 1) <=> k - 1 \in a /\ k < p.digits
  BY <1>1, LeftBits
<1>4. CASE p.reflectInput
  <2>1. Crc!NextBit(p, a) = IF 0 \in a THEN Crc!Xor(Crc!ShiftRight(a, 1), Divisor(p))
                            ELSE Crc!ShiftRight(a, 1)
    BY <1>4 DEF Crc!NextBit, Divisor
  <2> QED BY <1>2, <1>4, <2>1, XorBits
<1>5. CASE ~p.reflectInput
  <2>1. Crc!NextBit(p, a) = IF Crc!LoopWidth(p) - 1 \in a
                            THEN Crc!Xor(Crc!ShiftLeft(p, a, 1), Divisor(p))
                            ELSE Crc!ShiftLeft(p, a, 1)
    BY <1>5 DEF Crc!NextBit, Divisor
  <2> QED BY <1>3, <1>5, <2>1, XorBits
<1> QED BY <1>4, <1>5

LEMMA NextBitNumbers ==
    ASSUME NEW p, Crc!WellFormed(p), NEW a \in SUBSET Int
    PROVE  Crc!NextBit(p, a) \in SUBSET Int
<1>1. p.digits \in Int
  BY ParametersAre
<1>2. /\ Crc!ShiftRight(a, 1) \in SUBSET Int /\ Crc!ShiftLeft(p, a, 1) \in SUBSET Int
      /\ Divisor(p) \in SUBSET Int
  <2>1. 1 \in Int
    OBVIOUS
  <2>2. Crc!ShiftRight(a, 1) \in SUBSET Int
    BY <1>1, <2>1, BitsAreNumbers
  <2>3. Crc!ShiftLeft(p, a, 1) \in SUBSET Int
    BY <1>1, <2>1, BitsAreNumbers
  <2> QED BY <2>2, <2>3, DivisorIs
<1>3. /\ Crc!Xor(Crc!ShiftRight(a, 1), Divisor(p)) \in SUBSET Int
      /\ Crc!Xor(Crc!ShiftLeft(p, a, 1), Divisor(p)) \in SUBSET Int
  BY <1>2 DEF Crc!Xor
<1> QED BY <1>2, <1>3 DEF Crc!NextBit, Divisor

LEMMA EightBitsNumbers ==
    ASSUME NEW p, Crc!WellFormed(p), NEW a \in SUBSET Int
    PROVE  /\ Crc!TwoBits(p, a) \in SUBSET Int /\ Crc!FourBits(p, a) \in SUBSET Int
           /\ Crc!EightBits(p, a) \in SUBSET Int
<1>1. ASSUME NEW b \in SUBSET Int PROVE Crc!TwoBits(p, b) \in SUBSET Int
  BY NextBitNumbers DEF Crc!TwoBits
<1>2. ASSUME NEW b \in SUBSET Int PROVE Crc!FourBits(p, b) \in SUBSET Int
  BY <1>1 DEF Crc!FourBits
<1> QED BY <1>1, <1>2 DEF Crc!EightBits

\* A step is linear: that of a sum is the sum of the steps.
LEMMA NextBitAdds ==
    ASSUME NEW p, Crc!WellFormed(p), NEW a \in SUBSET Int, NEW b \in SUBSET Int
    PROVE  Crc!NextBit(p, Crc!Xor(a, b)) = Crc!Xor(Crc!NextBit(p, a), Crc!NextBit(p, b))
<1>1. PICK c : c = Crc!Xor(a, b)
  OBVIOUS
<1>2. c \in SUBSET Int
  BY <1>1 DEF Crc!Xor
<1>3. PICK x, y, z : x = Crc!NextBit(p, a) /\ y = Crc!NextBit(p, b) /\ z = Crc!NextBit(p, c)
  OBVIOUS
<1>4. x \in SUBSET Int /\ y \in SUBSET Int /\ z \in SUBSET Int
  BY <1>2, <1>3, NextBitNumbers
<1>5. Crc!Xor(x, y) \in SUBSET Int
  BY <1>4 DEF Crc!Xor
<1>6. ASSUME NEW k \in Int PROVE k \in z <=> k \in Crc!Xor(x, y)
  <2>1. \A j : j \in c <=> (j \in a <=> j \notin b)
    BY <1>1, XorBits
  <2>2. k \in Crc!Xor(x, y) <=> (k \in x <=> k \notin y)
    BY XorBits
  <2>3. CASE p.reflectInput
    <3>1. /\ k \in x <=> ((k + 1 \in a /\ k >= 0) <=> ~(0 \in a /\ k \in Divisor(p)))
          /\ k \in y <=> ((k + 1 \in b /\ k >= 0) <=> ~(0 \in b /\ k \in Divisor(p)))
          /\ k \in z <=> ((k + 1 \in c /\ k >= 0) <=> ~(0 \in c /\ k \in Divisor(p)))
      BY <1>2, <1>3, <2>3, NextBitIs
    <3>2. /\ k + 1 \in c <=> (k + 1 \in a <=> k + 1 \notin b)
          /\ 0 \in c <=> (0 \in a <=> 0 \notin b)
      BY <2>1
    <3> QED BY <2>2, <3>1, <3>2
  <2>4. CASE ~p.reflectInput
    <3>1. PICK t : t = Crc!LoopWidth(p) - 1
      OBVIOUS
    <3>2. /\ k \in x <=> ((k - 1 \in a /\ k < p.digits) <=> ~(t \in a /\ k \in Divisor(p)))
          /\ k \in y <=> ((k - 1 \in b /\ k < p.digits) <=> ~(t \in b /\ k \in Divisor(p)))
          /\ k \in z <=> ((k - 1 \in c /\ k < p.digits) <=> ~(t \in c /\ k \in Divisor(p)))
      BY <1>2, <1>3, <2>4, <3>1, NextBitIs
    <3>3. /\ k - 1 \in c <=> (k - 1 \in a <=> k - 1 \notin b)
          /\ t \in c <=> (t \in a <=> t \notin b)
      BY <2>1
    <3> QED BY <2>2, <3>2, <3>3
  <2> QED BY <2>3, <2>4
<1>7. z = Crc!Xor(x, y)
  BY <1>4, <1>5, <1>6, SameBits
<1> QED BY <1>1, <1>3, <1>7

LEMMA EightBitsAdd ==
    ASSUME NEW p, Crc!WellFormed(p), NEW a \in SUBSET Int, NEW b \in SUBSET Int
    PROVE  Crc!EightBits(p, Crc!Xor(a, b)) = Crc!Xor(Crc!EightBits(p, a), Crc!EightBits(p, b))
<1>1. ASSUME NEW c \in SUBSET Int, NEW d \in SUBSET Int
      PROVE  Crc!TwoBits(p, Crc!Xor(c, d)) = Crc!Xor(Crc!TwoBits(p, c), Crc!TwoBits(p, d))
  BY NextBitAdds, NextBitNumbers DEF Crc!TwoBits
<1>2. ASSUME NEW c \in SUBSET Int, NEW d \in SUBSET Int
      PROVE  Crc!FourBits(p, Crc!Xor(c, d)) = Crc!Xor(Crc!FourBits(p, c), Crc!FourBits(p, d))
  BY <1>1, EightBitsNumbers DEF Crc!FourBits
<1> QED BY <1>2, EightBitsNumbers DEF Crc!EightBits

\* The loop looks at no bit above its width.
LEMMA SameIs ==
    ASSUME NEW p, NEW a \in SUBSET Int, NEW b \in SUBSET Int
    PROVE  Crc!Same(p, a, b) <=>
              \A k \in Int : k < Crc!LoopWidth(p) => (k \in a <=> k \in b)
<1>1. ASSUME Crc!Same(p, a, b), NEW k \in Int, k < Crc!LoopWidth(p) PROVE k \in a <=> k \in b
  BY <1>1, MaskBits DEF Crc!Same
<1>2. ASSUME \A k \in Int : k < Crc!LoopWidth(p) => (k \in a <=> k \in b)
      PROVE  Crc!Same(p, a, b)
  BY <1>2 DEF Crc!Same, Crc!Mask
<1> QED BY <1>1, <1>2

LEMMA NextBitSame ==
    ASSUME NEW p, Crc!WellFormed(p), ~p.reflectInput,
           NEW a \in SUBSET Int, NEW b \in SUBSET Int, Crc!Same(p, a, b)
    PROVE  Crc!Same(p, Crc!NextBit(p, a), Crc!NextBit(p, b))
<1>1. PICK w : w = Crc!LoopWidth(p)
  OBVIOUS
<1>2. w \in Nat
  BY <1>1, ParametersAre
<1>3. \A k \in Int : k < w => (k \in a <=> k \in b)
  BY <1>1, SameIs
<1>4. Crc!NextBit(p, a) \in SUBSET Int /\ Crc!NextBit(p, b) \in SUBSET Int
  BY NextBitNumbers
<1>5. ASSUME NEW k \in Int, k < w
      PROVE  k \in Crc!NextBit(p, a) <=> k \in Crc!NextBit(p, b)
  <2>1. /\ k \in Crc!NextBit(p, a) <=> ((k - 1 \in a /\ k < p.digits) <=>
                                        ~(w - 1 \in a /\ k \in Divisor(p)))
        /\ k \in Crc!NextBit(p, b) <=> ((k - 1 \in b /\ k < p.digits) <=>
                                        ~(w - 1 \in b /\ k \in Divisor(p)))
    BY <1>1, NextBitIs
  <2>2. (k - 1 \in a <=> k - 1 \in b) /\ (w - 1 \in a <=> w - 1 \in b)
    BY <1>2, <1>3, <1>5
  <2> QED BY <2>1, <2>2
<1> QED BY <1>1, <1>4, <1>5, SameIs

LEMMA EightBitsSame ==
    ASSUME NEW p, Crc!WellFormed(p), ~p.reflectInput,
           NEW a \in SUBSET Int, NEW b \in SUBSET Int, Crc!Same(p, a, b)
    PROVE  Crc!Same(p, Crc!EightBits(p, a), Crc!EightBits(p, b))
<1>1. ASSUME NEW c \in SUBSET Int, NEW d \in SUBSET Int, Crc!Same(p, c, d)
      PROVE  Crc!Same(p, Crc!TwoBits(p, c), Crc!TwoBits(p, d))
  BY <1>1, NextBitSame, NextBitNumbers DEF Crc!TwoBits
<1>2. ASSUME NEW c \in SUBSET Int, NEW d \in SUBSET Int, Crc!Same(p, c, d)
      PROVE  Crc!Same(p, Crc!FourBits(p, c), Crc!FourBits(p, d))
  BY <1>1, <1>2, EightBitsNumbers DEF Crc!FourBits
<1> QED BY <1>2, EightBitsNumbers DEF Crc!EightBits

\* Bits that stay below the highest, or above the lowest, are only moved.
Raised(a, b, n)  == \A k \in Int : k \in b <=> k - n \in a
Lowered(a, b, n) == \A k \in Int : k \in b <=> k + n \in a

LEMMA NextBitRaises ==
    ASSUME NEW p, Crc!WellFormed(p), ~p.reflectInput, NEW a \in SUBSET Int, NEW n \in Nat,
           \A k \in a : k < Crc!LoopWidth(p) - n - 1
    PROVE  /\ Raised(a, Crc!NextBit(p, a), 1)
           /\ \A k \in Crc!NextBit(p, a) : k < Crc!LoopWidth(p) - n
<1>1. PICK w : w = Crc!LoopWidth(p)
  OBVIOUS
<1>2. w \in Nat /\ w <= p.digits /\ p.digits \in Nat
  BY <1>1, ParametersAre
<1>3. \A k \in a : k < w - n - 1
  BY <1>1
<1>4. w - 1 \notin a
  BY <1>2, <1>3
<1>5. ASSUME NEW k \in Int PROVE k \in Crc!NextBit(p, a) <=> k - 1 \in a
  <2>1. k \in Crc!NextBit(p, a) <=> ((k - 1 \in a /\ k < p.digits) <=>
                                     ~(w - 1 \in a /\ k \in Divisor(p)))
    BY <1>1, NextBitIs
  <2>2. k - 1 \in a => k < p.digits
    BY <1>2, <1>3
  <2> QED BY <1>4, <2>1, <2>2
<1>6. ASSUME NEW k \in Crc!NextBit(p, a) PROVE k < w - n
  <2>1. k \in Int
    BY NextBitNumbers
  <2>2. k - 1 < w - n - 1
    BY <1>3, <1>5, <2>1
  <2> QED BY <1>2, <2>1, <2>2
<1> QED BY <1>1, <1>5, <1>6 DEF Raised

LEMMA TwoBitsRaise ==
    ASSUME NEW p, Crc!WellFormed(p), ~p.reflectInput, NEW a \in SUBSET Int, NEW n \in Nat,
           \A k \in a : k < Crc!LoopWidth(p) - n - 2
    PROVE  /\ Raised(a, Crc!TwoBits(p, a), 2)
           /\ \A k \in Crc!TwoBits(p, a) : k < Crc!LoopWidth(p) - n
<1>1. PICK b, c, w : b = Crc!NextBit(p, a) /\ c = Crc!TwoBits(p, a) /\ w = Crc!LoopWidth(p)
  OBVIOUS
<1>2. b \in SUBSET Int /\ c = Crc!NextBit(p, b) /\ w \in Nat
  BY <1>1, NextBitNumbers, ParametersAre DEF Crc!TwoBits
<1>3. Raised(a, b, 1) /\ \A k \in b : k < w - n - 1
  <2>1. PICK m : m = n + 1
    OBVIOUS
  <2>2. m \in Nat /\ \A k \in a : k < w - m - 1
    BY <1>1, <1>2, <2>1
  <2>3. Raised(a, b, 1) /\ \A k \in b : k < w - m
    BY <1>1, <2>2, NextBitRaises
  <2> QED BY <1>2, <2>1, <2>3
<1>4. Raised(b, c, 1) /\ \A k \in c : k < w - n
  BY <1>1, <1>2, <1>3, NextBitRaises
<1>5. Raised(a, c, 2)
  BY <1>3, <1>4 DEF Raised
<1> QED BY <1>1, <1>4, <1>5

LEMMA FourBitsRaise ==
    ASSUME NEW p, Crc!WellFormed(p), ~p.reflectInput, NEW a \in SUBSET Int, NEW n \in Nat,
           \A k \in a : k < Crc!LoopWidth(p) - n - 4
    PROVE  /\ Raised(a, Crc!FourBits(p, a), 4)
           /\ \A k \in Crc!FourBits(p, a) : k < Crc!LoopWidth(p) - n
<1>1. PICK b, c, w : b = Crc!TwoBits(p, a) /\ c = Crc!FourBits(p, a) /\ w = Crc!LoopWidth(p)
  OBVIOUS
<1>2. b \in SUBSET Int /\ c = Crc!TwoBits(p, b) /\ w \in Nat
  BY <1>1, EightBitsNumbers, ParametersAre DEF Crc!FourBits
<1>3. Raised(a, b, 2) /\ \A k \in b : k < w - n - 2
  <2>1. PICK m : m = n + 2
    OBVIOUS
  <2>2. m \in Nat /\ \A k \in a : k < w - m - 2
    BY <1>1, <1>2, <2>1
  <2>3. Raised(a, b, 2) /\ \A k \in b : k < w - m
    BY <1>1, <2>2, TwoBitsRaise
  <2> QED BY <1>2, <2>1, <2>3
<1>4. Raised(b, c, 2) /\ \A k \in c : k < w - n
  BY <1>1, <1>2, <1>3, TwoBitsRaise
<1>5. Raised(a, c, 4)
  BY <1>3, <1>4 DEF Raised
<1> QED BY <1>1, <1>4, <1>5

LEMMA EightBitsRaise ==
    ASSUME NEW p, Crc!WellFormed(p), ~p.reflectInput, NEW a \in SUBSET Int,
           \A k \in a : k < Crc!LoopWidth(p) - 8
    PROVE  Raised(a, Crc!EightBits(p, a), 8)
<1>1. PICK b, c, w : b = Crc!FourBits(p, a) /\ c = Crc!EightBits(p, a) /\ w = Crc!LoopWidth(p)
  OBVIOUS
<1>2. b \in SUBSET Int /\ c = Crc!FourBits(p, b) /\ w \in Nat
  BY <1>1, EightBitsNumbers, ParametersAre DEF Crc!EightBits
<1>3. Raised(a, b, 4) /\ \A k \in b : k < w - 4
  <2>1. 4 \in Nat /\ \A k \in a : k < w - 4 - 4
    BY <1>1, <1>2
  <2> QED BY <1>1, <2>1, FourBitsRaise
<1>4. Raised(b, c, 4)
  <2>1. 0 \in Nat /\ \A k \in b : k < w - 0 - 4
    BY <1>2, <1>3
  <2> QED BY <1>1, <1>2, <2>1, FourBitsRaise
<1>5. Raised(a, c, 8)
  BY <1>3, <1>4 DEF Raised
<1> QED BY <1>1, <1>5

LEMMA NextBitLowers ==
    ASSUME NEW p, Crc!WellFormed(p), p.reflectInput, NEW a \in SUBSET Int, NEW n \in Nat,
           \A k \in a : k >= n + 1
    PROVE  /\ Lowered(a, Crc!NextBit(p, a), 1)
           /\ \A k \in Crc!NextBit(p, a) : k >= n
<1>1. 0 \notin a
  OBVIOUS
<1>2. ASSUME NEW k \in Int PROVE k \in Crc!NextBit(p, a) <=> k + 1 \in a
  <2>1. k \in Crc!NextBit(p, a) <=> ((k + 1 \in a /\ k >= 0) <=> ~(0 \in a /\ k \in Divisor(p)))
    BY NextBitIs
  <2>2. k + 1 \in a => k >= 0
    OBVIOUS
  <2> QED BY <1>1, <2>1, <2>2
<1>3. ASSUME NEW k \in Crc!NextBit(p, a) PROVE k >= n
  <2>1. k \in Int
    BY NextBitNumbers
  <2>2. k + 1 >= n + 1
    BY <1>2, <2>1
  <2> QED BY <2>1, <2>2
<1> QED BY <1>2, <1>3 DEF Lowered

LEMMA TwoBitsLower ==
    ASSUME NEW p, Crc!WellFormed(p), p.reflectInput, NEW a \in SUBSET Int, NEW n \in Nat,
           \A k \in a : k >= n + 2
    PROVE  /\ Lowered(a, Crc!TwoBits(p, a), 2)
           /\ \A k \in Crc!TwoBits(p, a) : k >= n
<1>1. PICK b, c : b = Crc!NextBit(p, a) /\ c = Crc!TwoBits(p, a)
  OBVIOUS
<1>2. b \in SUBSET Int /\ c = Crc!NextBit(p, b)
  BY <1>1, NextBitNumbers DEF Crc!TwoBits
<1>3. Lowered(a, b, 1) /\ \A k \in b : k >= n + 1
  <2>1. PICK m : m = n + 1
    OBVIOUS
  <2>2. m \in Nat /\ \A k \in a : k >= m + 1
    BY <2>1
  <2> QED BY <1>1, <2>1, <2>2, NextBitLowers
<1>4. Lowered(b, c, 1) /\ \A k \in c : k >= n
  BY <1>2, <1>3, NextBitLowers
<1>5. Lowered(a, c, 2)
  BY <1>3, <1>4 DEF Lowered
<1> QED BY <1>1, <1>4, <1>5

LEMMA FourBitsLower ==
    ASSUME NEW p, Crc!WellFormed(p), p.reflectInput, NEW a \in SUBSET Int, NEW n \in Nat,
           \A k \in a : k >= n + 4
    PROVE  /\ Lowered(a, Crc!FourBits(p, a), 4)
           /\ \A k \in Crc!FourBits(p, a) : k >= n
<1>1. PICK b, c : b = Crc!TwoBits(p, a) /\ c = Crc!FourBits(p, a)
  OBVIOUS
<1>2. b \in SUBSET Int /\ c = Crc!TwoBits(p, b)
  BY <1>1, EightBitsNumbers DEF Crc!FourBits
<1>3. Lowered(a, b, 2) /\ \A k \in b : k >= n + 2
  <2>1. PICK m : m = n + 2
    OBVIOUS
  <2>2. m \in Nat /\ \A k \in a : k >= m + 2
    BY <2>1
  <2> QED BY <1>1, <2>1, <2>2, TwoBitsLower
<1>4. Lowered(b, c, 2) /\ \A k \in c : k >= n
  BY <1>2, <1>3, TwoBitsLower
<1>5. Lowered(a, c, 4)
  BY <1>3, <1>4 DEF Lowered
<1> QED BY <1>1, <1>4, <1>5

LEMMA EightBitsLower ==
    ASSUME NEW p, Crc!WellFormed(p), p.reflectInput, NEW a \in SUBSET Int, \A k \in a : k >= 8
    PROVE  Lowered(a, Crc!EightBits(p, a), 8)
<1>1. PICK b, c : b = Crc!FourBits(p, a) /\ c = Crc!EightBits(p, a)
  OBVIOUS
<1>2. b \in SUBSET Int /\ c = Crc!FourBits(p, b)
  BY <1>1, EightBitsNumbers DEF Crc!EightBits
<1>3. Lowered(a, b, 4) /\ \A k \in b : k >= 4
  <2>1. 4 \in Nat /\ \A k \in a : k >= 4 + 4
    OBVIOUS
  <2> QED BY <1>1, <2>1, FourBitsLower
<1>4. Lowered(b, c, 4)
  <2>1. 0 \in Nat /\ \A k \in b : k >= 0 + 4
    BY <1>2, <1>3
  <2> QED BY <1>2, <2>1, FourBitsLower
<1>5. Lowered(a, c, 8)
  BY <1>3, <1>4 DEF Lowered
<1> QED BY <1>1, <1>5

\* Where the bits of a remainder are after a byte.
LEMMA NextBitAbove ==
    ASSUME NEW p, Crc!WellFormed(p), ~p.reflectInput, NEW a \in SUBSET Int, NEW i \in Nat,
           \A k \in a : k >= i \/ k >= Crc!Pad(p)
    PROVE  \A k \in Crc!NextBit(p, a) : (k >= i + 1 \/ k >= Crc!Pad(p)) /\ k < p.digits
<1> SUFFICES ASSUME NEW k \in Crc!NextBit(p, a)
             PROVE  (k >= i + 1 \/ k >= Crc!Pad(p)) /\ k < p.digits
  OBVIOUS
<1>1. k \in Int
  BY NextBitNumbers
<1>2. PICK d, w, s : d = p.digits /\ w = Crc!LoopWidth(p) /\ s = Crc!Pad(p)
  OBVIOUS
<1>3. d \in Nat /\ w \in Nat /\ s \in Nat /\ w <= d
  BY <1>2, ParametersAre
<1>4. (k - 1 \in a /\ k < d) \/ k \in Divisor(p)
  BY <1>1, <1>2, NextBitIs
<1>5. k \in Divisor(p) => s <= k /\ k < w
  BY <1>2, DivisorIs
<1>6. k - 1 \in a => k - 1 >= i \/ k - 1 >= s
  BY <1>2
<1> QED BY <1>1, <1>2, <1>3, <1>4, <1>5, <1>6

LEMMA EightBitsAbove ==
    ASSUME NEW p, Crc!WellFormed(p), ~p.reflectInput, NEW a \in SUBSET Int,
           \A k \in a : k >= 0
    PROVE  \A k \in Crc!EightBits(p, a) : Crc!Pad(p) <= k /\ k < p.digits
<1> DEFINE Above(c, i) == \A k \in c : k >= i \/ k >= Crc!Pad(p)
<1>1. ASSUME NEW c \in SUBSET Int, NEW i \in Nat, Above(c, i)
      PROVE  /\ Above(Crc!TwoBits(p, c), i + 2)
             /\ \A k \in Crc!TwoBits(p, c) : k < p.digits
  <2>1. Above(Crc!NextBit(p, c), i + 1)
    BY <1>1, NextBitAbove
  <2>2. PICK j : j = i + 1
    OBVIOUS
  <2>3. \A k \in Crc!TwoBits(p, c) : (k >= j + 1 \/ k >= Crc!Pad(p)) /\ k < p.digits
    BY <2>1, <2>2, NextBitAbove, NextBitNumbers DEF Crc!TwoBits
  <2>4. j + 1 = i + 2
    BY <2>2
  <2> QED BY <2>3, <2>4
<1>2. ASSUME NEW c \in SUBSET Int, NEW i \in Nat, Above(c, i)
      PROVE  /\ Above(Crc!FourBits(p, c), i + 4)
             /\ \A k \in Crc!FourBits(p, c) : k < p.digits
  <2>1. Above(Crc!TwoBits(p, c), i + 2)
    BY <1>1, <1>2
  <2>2. PICK j, b : j = i + 2 /\ b = Crc!TwoBits(p, c)
    OBVIOUS
  <2> HIDE DEF Above
  <2>3. /\ Above(Crc!TwoBits(p, b), j + 2)
        /\ \A k \in Crc!TwoBits(p, b) : k < p.digits
    BY <1>1, <2>1, <2>2, EightBitsNumbers
  <2>4. j + 2 = i + 4 /\ Crc!FourBits(p, c) = Crc!TwoBits(p, b)
    BY <2>2 DEF Crc!FourBits
  <2> QED BY <2>3, <2>4
<1>3. PICK b : b = Crc!FourBits(p, a)
  OBVIOUS
<1>4. /\ Above(Crc!EightBits(p, a), 8)
      /\ \A k \in Crc!EightBits(p, a) : k < p.digits
  <2>1. Above(a, 0)
    OBVIOUS
  <2> HIDE DEF Above
  <2>2. Above(b, 4) /\ b \in SUBSET Int
    BY <1>2, <1>3, <2>1, EightBitsNumbers
  <2>3. /\ Above(Crc!FourBits(p, b), 4 + 4)
        /\ \A k \in Crc!FourBits(p, b) : k < p.digits
    BY <1>2, <2>2
  <2>4. Crc!EightBits(p, a) = Crc!FourBits(p, b)
    BY <1>3 DEF Crc!EightBits
  <2> QED BY <2>3, <2>4
<1>5. Crc!Pad(p) \in 0 .. 7
  BY ParametersAre
<1>6. Crc!EightBits(p, a) \in SUBSET Int
  BY EightBitsNumbers
<1> QED BY <1>4, <1>5, <1>6

LEMMA NextBitBelow ==
    ASSUME NEW p, Crc!WellFormed(p), p.reflectInput, NEW a \in SUBSET Int, NEW i \in Nat,
           \A k \in a : 0 <= k /\ (k < i + 1 \/ k < p.width)
    PROVE  \A k \in Crc!NextBit(p, a) : 0 <= k /\ (k < i \/ k < p.width)
<1> SUFFICES ASSUME NEW k \in Crc!NextBit(p, a) PROVE 0 <= k /\ (k < i \/ k < p.width)
  OBVIOUS
<1>1. k \in Int
  BY NextBitNumbers
<1>2. PICK w : w = p.width
  OBVIOUS
<1>3. w \in Nat /\ Crc!LoopWidth(p) = w /\ Crc!Pad(p) = 0
  BY <1>2, ParametersAre
<1>4. (k + 1 \in a /\ k >= 0) \/ k \in Divisor(p)
  BY <1>1, NextBitIs
<1>5. k \in Divisor(p) => 0 <= k /\ k < w
  BY <1>3, DivisorIs
<1>6. k + 1 \in a => k + 1 < i + 1 \/ k + 1 < w
  BY <1>2
<1> QED BY <1>1, <1>2, <1>3, <1>4, <1>5, <1>6

LEMMA EightBitsBelow ==
    ASSUME NEW p, Crc!WellFormed(p), p.reflectInput, NEW a \in SUBSET Int,
           \A k \in a : 0 <= k /\ (k < 8 \/ k < p.width)
    PROVE  \A k \in Crc!EightBits(p, a) : 0 <= k /\ k < p.width
<1> DEFINE Below(c, i) == \A k \in c : 0 <= k /\ (k < i \/ k < p.width)
<1>1. ASSUME NEW c \in SUBSET Int, NEW i \in Nat, Below(c, i + 2)
      PROVE  Below(Crc!TwoBits(p, c), i)
  <2>1. PICK j : j = i + 1
    OBVIOUS
  <2>2. Below(c, j + 1)
    BY <1>1, <2>1
  <2>3. Below(Crc!NextBit(p, c), j)
    BY <2>1, <2>2, NextBitBelow
  <2> QED BY <2>1, <2>3, NextBitBelow, NextBitNumbers DEF Crc!TwoBits
<1>2. ASSUME NEW c \in SUBSET Int, NEW i \in Nat, Below(c, i + 4)
      PROVE  Below(Crc!FourBits(p, c), i)
  <2>1. PICK j, b : j = i + 2 /\ b = Crc!TwoBits(p, c)
    OBVIOUS
  <2> HIDE DEF Below
  <2>2. j + 2 = i + 4 /\ j \in Nat /\ b \in SUBSET Int /\ Crc!FourBits(p, c) = Crc!TwoBits(p, b)
    BY <2>1, EightBitsNumbers DEF Crc!FourBits
  <2>3. Below(b, j)
    BY <1>1, <1>2, <2>1, <2>2
  <2> QED BY <1>1, <2>1, <2>2, <2>3
<1>3. Below(a, 4 + 4)
  OBVIOUS
<1>4. PICK b : b = Crc!FourBits(p, a)
  OBVIOUS
<1> HIDE DEF Below
<1>5. Below(b, 4) /\ b \in SUBSET Int
  BY <1>2, <1>3, <1>4, EightBitsNumbers
<1>6. 4 = 0 + 4
  OBVIOUS
<1>7. Below(Crc!FourBits(p, b), 0)
  BY <1>2, <1>5, <1>6
<1>8. Crc!EightBits(p, a) = Crc!FourBits(p, b)
  BY <1>4 DEF Crc!EightBits
<1>9. Crc!EightBits(p, a) \in SUBSET Int
  BY EightBitsNumbers
<1> QED BY <1>7, <1>8, <1>9 DEF Below

\* An entry of the table is the remainder of one byte, without the bits above the width.
LEMMA EntryIs ==
    ASSUME NEW p, Crc!WellFormed(p), NEW t \in SUBSET Int, \A k \in t : 0 <= k
    PROVE  /\ Crc!TableEntry(p, t) \in SUBSET Int
           /\ \A k \in Int : k \in Crc!TableEntry(p, t) <=>
                 /\ k \in Crc!EightBits(p, Crc!ShiftLeft(p, t, Crc!ByteShift(p)))
                 /\ Crc!Pad(p) <= k /\ k < Crc!LoopWidth(p)
<1>1. PICK d, w, s, f : d = p.digits /\ w = p.width /\ s = Crc!Pad(p) /\ f = Crc!ByteShift(p)
  OBVIOUS
<1>2. d \in Nat /\ w \in Nat /\ s \in Nat /\ w + s <= d /\ Crc!LoopWidth(p) = w + s /\ f \in Int
  <2>1. d \in Nat /\ w \in Nat /\ s \in Nat /\ Crc!LoopWidth(p) = w + s /\ w + s <= d
    BY <1>1, ParametersAre
  <2>2. f = IF p.reflectInput THEN 0 ELSE w + s - 8
    BY <1>1, <2>1 DEF Crc!ByteShift, Crc!CHAR_BIT
  <2> QED BY <2>1, <2>2
<1>3. Crc!Enter(p, Crc!Zero) = {}
  BY DEF Crc!Enter, Crc!ShiftLeft, Crc!Mask, Crc!Zero
<1>4. PICK x, n : x = Crc!ShiftLeft(p, t, f) /\ n = Crc!EightBits(p, x)
  OBVIOUS
<1>5. x \in SUBSET Int /\ n \in SUBSET Int
  <2>1. f \in Int /\ p.digits \in Int
    BY <1>1, <1>2
  <2>2. x \in SUBSET Int
    BY <1>4, <2>1, BitsAreNumbers
  <2> QED BY <1>4, <2>2, EightBitsNumbers
<1>6. Crc!NextByte(p, Crc!Enter(p, Crc!Zero), t) = n
  <2>1. Crc!Xor({}, x) = x
    BY DEF Crc!Xor
  <2> QED BY <1>1, <1>3, <1>4, <2>1 DEF Crc!NextByte
<1>7. PICK l, m, e : l = Crc!ShiftRight(n, s) /\ m = Crc!Mask(l, w) /\ e = Crc!ShiftLeft(p, m, s)
  OBVIOUS
<1>8. l \in SUBSET Int
  <2>1. s \in Int /\ d \in Int
    BY <1>2
  <2> QED BY <1>1, <1>5, <1>7, <2>1, BitsAreNumbers
<1>9. m \in SUBSET Int
  BY <1>7, <1>8 DEF Crc!Mask
<1>10. e \in SUBSET Int
  <2>1. s \in Int /\ d \in Int
    BY <1>2
  <2> QED BY <1>1, <1>7, <1>9, <2>1, BitsAreNumbers
<1>11. Crc!TableEntry(p, t) = e
  BY <1>1, <1>6, <1>7 DEF Crc!TableEntry, Crc!Leave
<1>12. ASSUME NEW k \in Int PROVE k \in e <=> k \in n /\ s <= k /\ k < w + s
  <2>1. k \in e <=> k - s \in m /\ k < d
    BY <1>1, <1>2, <1>7, <1>9, LeftBits
  <2>2. k - s \in m <=> k - s \in l /\ k - s < w
    BY <1>7 DEF Crc!Mask
  <2>3. PICK j : j = k - s
    OBVIOUS
  <2>4. j \in Int /\ j + s = k
    BY <1>2, <2>3
  <2>5. j \in l <=> k \in n /\ j >= 0
    BY <1>2, <1>5, <1>7, <2>4, RightBits
  <2> QED BY <1>2, <2>1, <2>2, <2>3, <2>5
<1> QED BY <1>1, <1>2, <1>4, <1>10, <1>11, <1>12

\* A byte at once, with the table, does what its eight bits do.
LEMMA ByteByTableReflected ==
    ASSUME NEW p, Crc!WellFormed(p), p.reflectInput,
           NEW r \in SUBSET Int, \A k \in r : 0 <= k /\ k < p.width,
           NEW byte \in SUBSET Int, \A k \in byte : 0 <= k /\ k < 8
    PROVE  Crc!NextByteByTable(p, r, byte) = Crc!NextByte(p, r, byte)
<1>1. PICK w, d : w = p.width /\ d = p.digits
  OBVIOUS
<1>2. /\ w \in Nat /\ d \in Nat /\ 8 <= d /\ w <= d
      /\ Crc!LoopWidth(p) = w /\ Crc!Pad(p) = 0 /\ Crc!ByteShift(p) = 0
  BY <1>1, ParametersAre DEF Crc!ByteShift
<1>3. \A c \in SUBSET Int : (\A k \in c : 0 <= k /\ k < 8) => Crc!ShiftLeft(p, c, 0) = c
  <2> SUFFICES ASSUME NEW c \in SUBSET Int, \A k \in c : 0 <= k /\ k < 8
               PROVE  Crc!ShiftLeft(p, c, 0) = c
    OBVIOUS
  <2>1. d \in Int /\ 0 \in Int
    BY <1>2
  <2>2. Crc!ShiftLeft(p, c, 0) \in SUBSET Int
    BY <1>1, <2>1, BitsAreNumbers
  <2>3. ASSUME NEW k \in Int PROVE k \in Crc!ShiftLeft(p, c, 0) <=> k \in c
    <3>1. k \in Crc!ShiftLeft(p, c, 0) <=> k - 0 \in c /\ k < d
      BY <1>1, <2>1, LeftBits
    <3>2. k \in c => k < d
      BY <1>2
    <3> QED BY <3>1, <3>2
  <2> QED BY <2>2, <2>3, SameBits
<1>4. PICK x, lo, hi : /\ x = Crc!Xor(r, byte) /\ lo = Crc!Mask(x, 8)
                       /\ hi = {k \in r : k >= 8}
  OBVIOUS
<1>5. x \in SUBSET Int /\ lo \in SUBSET Int /\ hi \in SUBSET Int
  BY <1>4 DEF Crc!Xor, Crc!Mask
<1>6. \A k : k \in x <=> (k \in r <=> k \notin byte)
  BY <1>4, XorBits
<1>7. (\A k \in lo : 0 <= k /\ k < 8) /\ (\A k \in hi : k >= 8)
  BY <1>4, <1>5, <1>6 DEF Crc!Mask
<1>8. x = Crc!Xor(lo, hi)
  <2>1. Crc!Xor(lo, hi) \in SUBSET Int
    BY <1>5 DEF Crc!Xor
  <2>2. ASSUME NEW k \in Int PROVE k \in x <=> k \in Crc!Xor(lo, hi)
    <3>1. k \in Crc!Xor(lo, hi) <=> (k \in lo <=> k \notin hi)
      BY XorBits
    <3>2. (k \in lo <=> k \in x /\ k < 8) /\ (k \in hi <=> k \in r /\ k >= 8)
      BY <1>4 DEF Crc!Mask
    <3>3. k \in byte => k < 8
      OBVIOUS
    <3> QED BY <1>6, <3>1, <3>2, <3>3
  <2> QED BY <1>5, <2>1, <2>2, SameBits
<1>9. PICK n, e, h : /\ n = Crc!EightBits(p, lo) /\ e = Crc!TableEntry(p, lo)
                    /\ h = Crc!EightBits(p, hi)
  OBVIOUS
<1>10. n \in SUBSET Int /\ e \in SUBSET Int /\ h \in SUBSET Int
  BY <1>5, <1>7, <1>9, EntryIs, EightBitsNumbers
<1>11. e = n
  <2>1. \A k \in n : 0 <= k /\ k < w
    BY <1>1, <1>5, <1>7, <1>9, EightBitsBelow
  <2>2. Crc!ShiftLeft(p, lo, Crc!ByteShift(p)) = lo
    BY <1>2, <1>3, <1>5, <1>7
  <2>3. \A k \in Int : k \in e <=> k \in n /\ 0 <= k /\ k < w
    BY <1>2, <1>5, <1>7, <1>9, <2>2, EntryIs
  <2> QED BY <1>10, <2>1, <2>3, SameBits
<1>12. h = Crc!ShiftRight(r, 8)
  <2>1. Lowered(hi, h, 8)
    BY <1>5, <1>7, <1>9, EightBitsLower
  <2>2. Crc!ShiftRight(r, 8) \in SUBSET Int
    BY DEF Crc!ShiftRight
  <2>3. ASSUME NEW k \in Int PROVE k \in h <=> k \in Crc!ShiftRight(r, 8)
    <3>1. k \in Crc!ShiftRight(r, 8) <=> k + 8 \in r /\ k >= 0
      BY RightBits
    <3>2. k \in h <=> k + 8 \in hi
      BY <2>1 DEF Lowered
    <3>3. k + 8 \in hi <=> k + 8 \in r /\ k >= 0
      BY <1>4
    <3> QED BY <3>1, <3>2, <3>3
  <2> QED BY <1>10, <2>2, <2>3, SameBits
<1>13. Crc!NextByte(p, r, byte) = Crc!EightBits(p, x)
  BY <1>2, <1>3, <1>4 DEF Crc!NextByte
<1>14. Crc!EightBits(p, x) = Crc!Xor(n, h)
  BY <1>5, <1>8, <1>9, EightBitsAdd
<1>15. Crc!NextByteByTable(p, r, byte) = Crc!Xor(h, e)
  BY <1>4, <1>9, <1>12 DEF Crc!NextByteByTable, Crc!LowByte, Crc!CHAR_BIT
<1>16. Crc!Xor(h, e) = Crc!Xor(n, h)
  BY <1>11 DEF Crc!Xor
<1> QED BY <1>13, <1>14, <1>15, <1>16

LEMMA ByteByTable ==
    ASSUME NEW p, Crc!WellFormed(p), ~p.reflectInput,
           NEW r \in SUBSET Int, \A k \in r : Crc!Pad(p) <= k,
           NEW byte \in SUBSET Int, \A k \in byte : 0 <= k /\ k < 8
    PROVE  /\ Crc!Same(p, Crc!NextByteByTable(p, r, byte), Crc!NextByte(p, r, byte))
           /\ Crc!NextByteByTable(p, r, byte) \in SUBSET Int
           /\ \A k \in Crc!NextByteByTable(p, r, byte) : Crc!Pad(p) <= k /\ k < p.digits
<1>1. PICK w, d, s, f : w = Crc!LoopWidth(p) /\ d = p.digits /\ s = Crc!Pad(p) /\ f = w - 8
  OBVIOUS
<1>2. /\ w \in Nat /\ d \in Nat /\ 8 <= w /\ w <= d /\ s \in 0 .. 7 /\ f \in Nat /\ w = f + 8
      /\ (p.width < 8 => f = 0) /\ Crc!ByteShift(p) = f /\ p.digits \in Int /\ f \in Int
  <2>1. /\ w \in Nat /\ d \in Nat /\ 8 <= w /\ w <= d /\ s \in 0 .. 7 /\ (p.width < 8 => w = 8)
    BY <1>1, ParametersAre
  <2>2. Crc!ByteShift(p) = w - 8
    BY <1>1 DEF Crc!ByteShift, Crc!CHAR_BIT
  <2> QED BY <1>1, <2>1, <2>2
<1>3. PICK y, x, top, t, lo, hi :
        /\ y = Crc!ShiftLeft(p, byte, f) /\ x = Crc!Xor(r, y)
        /\ top = Crc!ShiftRight(r, f) /\ t = Crc!Mask(Crc!Xor(top, byte), 8)
        /\ lo = {k \in r : k < f} /\ hi = Crc!ShiftLeft(p, t, f)
  <2>1. PICK y, top, lo : /\ y = Crc!ShiftLeft(p, byte, f) /\ top = Crc!ShiftRight(r, f)
                          /\ lo = {k \in r : k < f}
    OBVIOUS
  <2>2. PICK x, t : x = Crc!Xor(r, y) /\ t = Crc!Mask(Crc!Xor(top, byte), 8)
    OBVIOUS
  <2> QED BY <2>1, <2>2
<1>4. y \in SUBSET Int /\ top \in SUBSET Int
  <2>1. y \in SUBSET Int
    BY <1>2, <1>3, BitsAreNumbers
  <2>2. top \in SUBSET Int
    BY <1>2, <1>3, BitsAreNumbers
  <2> QED BY <2>1, <2>2
<1>5. x \in SUBSET Int /\ t \in SUBSET Int /\ lo \in SUBSET Int
  BY <1>3, <1>4 DEF Crc!Xor, Crc!Mask
<1>6. hi \in SUBSET Int
  BY <1>2, <1>3, <1>5, BitsAreNumbers
<1>7. \A k \in Int : k \in x <=> (k \in r <=> ~(k - f \in byte /\ k < d))
  <2> SUFFICES ASSUME NEW k \in Int PROVE k \in x <=> (k \in r <=> ~(k - f \in byte /\ k < d))
    OBVIOUS
  <2>1. k \in y <=> k - f \in byte /\ k < d
    BY <1>1, <1>2, <1>3, LeftBits
  <2>2. k \in x <=> (k \in r <=> k \notin y)
    BY <1>3, XorBits
  <2> QED BY <2>1, <2>2
<1>8. \A k \in Int : k \in t <=> k < 8 /\ ((k + f \in r /\ k >= 0) <=> k \notin byte)
  <2> SUFFICES ASSUME NEW k \in Int
               PROVE  k \in t <=> k < 8 /\ ((k + f \in r /\ k >= 0) <=> k \notin byte)
    OBVIOUS
  <2>1. k \in top <=> k + f \in r /\ k >= 0
    BY <1>2, <1>3, RightBits
  <2>2. k \in Crc!Xor(top, byte) <=> (k \in top <=> k \notin byte)
    BY XorBits
  <2> QED BY <1>3, <2>1, <2>2 DEF Crc!Mask
<1>9. \A k \in t : 0 <= k /\ k < 8
  <2> SUFFICES ASSUME NEW k \in t PROVE 0 <= k /\ k < 8
    OBVIOUS
  <2>1. k \in Int /\ k < 8 /\ ((k + f \in r /\ k >= 0) <=> k \notin byte)
    BY <1>5, <1>8
  <2>2. k \in byte => 0 <= k
    OBVIOUS
  <2> QED BY <2>1, <2>2
<1>10. \A k \in Int : k \in hi <=> k < w /\ ((k \in r /\ k >= f) <=> k - f \notin byte)
  <2> SUFFICES ASSUME NEW k \in Int
               PROVE  k \in hi <=> k < w /\ ((k \in r /\ k >= f) <=> k - f \notin byte)
    OBVIOUS
  <2>1. k \in hi <=> k - f \in t /\ k < d
    BY <1>1, <1>2, <1>3, <1>5, LeftBits
  <2>2. PICK j : j = k - f
    OBVIOUS
  <2>3. j \in Int /\ j + f = k /\ (j >= 0 <=> k >= f) /\ (j < 8 <=> k < w) /\ (k < w => k < d)
    BY <1>2, <2>2
  <2>4. j \in t <=> j < 8 /\ ((k \in r /\ j >= 0) <=> j \notin byte)
    BY <1>8, <2>3
  <2> QED BY <2>1, <2>2, <2>3, <2>4
<1>11. \A k \in hi : 0 <= k
  <2> SUFFICES ASSUME NEW k \in hi PROVE 0 <= k
    OBVIOUS
  <2>1. k \in Int /\ k - f \in t
    BY <1>1, <1>2, <1>3, <1>5, <1>6, LeftBits
  <2>2. 0 <= k - f
    BY <1>9, <2>1
  <2> QED BY <1>2, <2>1, <2>2
<1>12. PICK z : z = Crc!Xor(lo, hi)
  OBVIOUS
<1>13. z \in SUBSET Int
  BY <1>5, <1>6, <1>12 DEF Crc!Xor
<1>14. Crc!Same(p, x, z)
  <2>1. ASSUME NEW k \in Int, k < w PROVE k \in x <=> k \in z
    <3>1. k \in z <=> (k \in lo <=> k \notin hi)
      BY <1>12, XorBits
    <3>2. k \in lo <=> k \in r /\ k < f
      BY <1>3
    <3>3. k \in hi <=> ((k \in r /\ k >= f) <=> k - f \notin byte)
      BY <1>10, <2>1
    <3>4. k \in x <=> (k \in r <=> k - f \notin byte)
      BY <1>2, <1>7, <2>1
    <3>5. CASE k < f
      <4>1. k - f \notin byte
        <5>1. ~(0 <= k - f)
          BY <1>2, <3>5
        <5> QED BY <5>1
      <4> QED BY <1>2, <3>1, <3>2, <3>3, <3>4, <3>5, <4>1
    <3>6. CASE k >= f
      BY <1>2, <3>1, <3>2, <3>3, <3>4, <3>6
    <3> QED BY <1>2, <3>5, <3>6
  <2> QED BY <1>1, <1>5, <1>13, <2>1, SameIs
<1>15. PICK n, l, e : /\ n = Crc!EightBits(p, hi) /\ l = Crc!EightBits(p, lo)
                     /\ e = Crc!TableEntry(p, t)
  OBVIOUS
<1>16. n \in SUBSET Int /\ l \in SUBSET Int
  BY <1>5, <1>6, <1>15, EightBitsNumbers
<1>17. \A k \in n : s <= k
  BY <1>1, <1>6, <1>11, <1>15, EightBitsAbove
<1>18. e \in SUBSET Int /\ \A k \in Int : k \in e <=> k \in n /\ s <= k /\ k < w
  BY <1>1, <1>2, <1>3, <1>5, <1>9, <1>15, EntryIs
<1>19. \A k \in Int : k \in l <=> k - 8 \in lo
  <2>1. \A k \in lo : k < Crc!LoopWidth(p) - 8
    BY <1>1, <1>3
  <2>2. Raised(lo, l, 8)
    BY <1>5, <1>15, <2>1, EightBitsRaise
  <2> QED BY <2>2 DEF Raised
<1>20. PICK rest, v : /\ rest = (IF p.width < 8 THEN {} ELSE Crc!ShiftLeft(p, r, 8))
                      /\ v = Crc!NextByteByTable(p, r, byte)
  OBVIOUS
<1>21. v = Crc!Xor(rest, e)
  BY <1>1, <1>3, <1>15, <1>20 DEF Crc!NextByteByTable, Crc!LowByte, Crc!CHAR_BIT, Crc!Zero
<1>22. /\ rest \in SUBSET Int
       /\ \A k \in Int : k \in rest <=> ~(p.width < 8) /\ k - 8 \in r /\ k < d
  <2>1. 8 \in Int
    OBVIOUS
  <2>2. Crc!ShiftLeft(p, r, 8) \in SUBSET Int
    <3>1. p.digits \in Int
      BY ParametersAre
    <3> QED BY <2>1, <3>1, BitsAreNumbers
  <2>3. \A k \in Int : k \in Crc!ShiftLeft(p, r, 8) <=> k - 8 \in r /\ k < d
    BY <1>1, <1>2, <2>1, LeftBits
  <2> QED BY <1>20, <2>2, <2>3
<1>23. v \in SUBSET Int
  BY <1>18, <1>21, <1>22 DEF Crc!Xor
<1>24. \A k \in v : s <= k /\ k < d
  <2> SUFFICES ASSUME NEW k \in v PROVE s <= k /\ k < d
    OBVIOUS
  <2>1. k \in Int /\ (k \in rest \/ k \in e)
    BY <1>21, <1>23 DEF Crc!Xor
  <2>2. k \in e => s <= k /\ k < d
    BY <1>2, <1>18, <2>1
  <2>3. k \in rest => s <= k /\ k < d
    <3>1. k - 8 \in r => s <= k - 8
      BY <1>1
    <3> QED BY <1>2, <1>22, <2>1, <3>1
  <2> QED BY <2>1, <2>2, <2>3
<1>25. PICK u : u = Crc!EightBits(p, x)
  OBVIOUS
<1>26. u \in SUBSET Int /\ Crc!NextByte(p, r, byte) = u
  BY <1>2, <1>3, <1>5, <1>25, EightBitsNumbers DEF Crc!NextByte
<1>27. Crc!Same(p, u, Crc!Xor(l, n))
  BY <1>5, <1>6, <1>12, <1>13, <1>14, <1>15, <1>25, EightBitsSame, EightBitsAdd
<1>28. Crc!Xor(l, n) \in SUBSET Int
  BY <1>16 DEF Crc!Xor
<1>29. ASSUME NEW k \in Int, k < w PROVE k \in v <=> k \in u
  <2>1. k \in u <=> k \in Crc!Xor(l, n)
    BY <1>1, <1>26, <1>27, <1>28, <1>29, SameIs
  <2>2. k \in Crc!Xor(l, n) <=> (k \in l <=> k \notin n)
    BY XorBits
  <2>3. k \in v <=> (k \in rest <=> k \notin e)
    BY <1>21, XorBits
  <2>4. k \in e <=> k \in n
    BY <1>17, <1>18, <1>29
  <2>5. k \in rest <=> k \in l
    <3>1. k \in l <=> k - 8 \in r /\ k - 8 < f
      BY <1>3, <1>19
    <3>2. k - 8 < f /\ k < d
      BY <1>2, <1>29
    <3>3. p.width < 8 => k - 8 \notin r
      <4>1. p.width < 8 => ~(s <= k - 8)
        BY <1>2, <1>29
      <4> QED BY <1>1, <4>1
    <3> QED BY <1>22, <3>1, <3>2, <3>3
  <2> QED BY <2>1, <2>2, <2>3, <2>4, <2>5
<1>30. Crc!Same(p, v, u)
  BY <1>1, <1>23, <1>26, <1>29, SameIs
<1> QED BY <1>1, <1>20, <1>23, <1>24, <1>26, <1>30

\* What the invariant says of a remainder, bit by bit.
LEMMA InLoopIs ==
    ASSUME NEW p, Crc!WellFormed(p), NEW r
    PROVE  Crc!InLoop(p, r) <=>
              /\ r \in SUBSET Int
              /\ \A k \in r : /\ 0 <= k /\ Crc!Pad(p) <= k /\ k < p.digits
                              /\ p.reflectInput => k < p.width
<1>1. p.digits \in Nat /\ p.width \in Nat /\ Crc!Pad(p) \in Nat
  BY ParametersAre
<1> QED BY <1>1 DEF Crc!InLoop

\* A byte of the bit-by-bit algorithm keeps a remainder in the loop, and looks at the
\* bits of the width only.
LEMMA NextByteInLoop ==
    ASSUME NEW p, Crc!WellFormed(p), NEW r, Crc!InLoop(p, r),
           NEW byte \in SUBSET Int, \A k \in byte : 0 <= k /\ k < 8
    PROVE  Crc!InLoop(p, Crc!NextByte(p, r, byte))
<1>1. PICK w, d, s, f, y, x, u :
        /\ w = p.width /\ d = p.digits /\ s = Crc!Pad(p) /\ f = Crc!ByteShift(p)
        /\ y = Crc!ShiftLeft(p, byte, Crc!ByteShift(p))
        /\ x = Crc!Xor(r, Crc!ShiftLeft(p, byte, Crc!ByteShift(p)))
        /\ u = Crc!NextByte(p, r, byte)
  OBVIOUS
<1>2. /\ w \in Nat /\ d \in Nat /\ s \in Nat /\ f \in Nat /\ w <= d
      /\ (p.reflectInput => f = 0)
  <2>1. /\ w \in Nat /\ d \in Nat /\ s \in Nat /\ w <= d
        /\ Crc!LoopWidth(p) \in Nat /\ (~p.reflectInput => Crc!LoopWidth(p) >= 8)
    BY <1>1, ParametersAre
  <2> QED BY <1>1, <2>1 DEF Crc!ByteShift, Crc!CHAR_BIT
<1>3. /\ r \in SUBSET Int
      /\ \A k \in r : 0 <= k /\ s <= k /\ k < d /\ (p.reflectInput => k < w)
  BY <1>1, InLoopIs
<1>4. y \in SUBSET Int /\ \A k \in y : k - f \in byte
  <2>1. f \in Int /\ p.digits \in Int
    BY <1>1, <1>2
  <2>2. y \in SUBSET Int
    BY <1>1, <2>1, BitsAreNumbers
  <2>3. \A k \in Int : k \in y => k - f \in byte
    BY <1>1, <2>1, LeftBits
  <2> QED BY <2>2, <2>3
<1>5. x \in SUBSET Int /\ \A k \in x : k \in r \/ k \in y
  BY <1>1, <1>3, <1>4 DEF Crc!Xor
<1>6. \A k \in x : 0 <= k /\ (p.reflectInput => k < 8 \/ k < w)
  <2> SUFFICES ASSUME NEW k \in x PROVE 0 <= k /\ (p.reflectInput => k < 8 \/ k < w)
    OBVIOUS
  <2>1. k \in r => 0 <= k /\ (p.reflectInput => k < w)
    BY <1>3
  <2>2. k \in y => 0 <= k - f /\ k - f < 8
    BY <1>4
  <2> QED BY <1>2, <1>5, <2>1, <2>2
<1>7. u = Crc!EightBits(p, x)
  BY <1>1 DEF Crc!NextByte
<1>8. u \in SUBSET Int
  BY <1>5, <1>7, EightBitsNumbers
<1>9. CASE p.reflectInput
  <2>1. \A k \in u : 0 <= k /\ k < w
    BY <1>1, <1>5, <1>6, <1>7, <1>9, EightBitsBelow
  <2>2. s = 0
    BY <1>1, <1>9, ParametersAre
  <2>3. \A k \in u : 0 <= k /\ s <= k /\ k < d /\ k < w
    BY <1>2, <1>8, <2>1, <2>2
  <2> QED BY <1>1, <1>8, <2>3, InLoopIs
<1>10. CASE ~p.reflectInput
  <2>1. \A k \in u : s <= k /\ k < d
    BY <1>1, <1>5, <1>6, <1>7, <1>10, EightBitsAbove
  <2>2. \A k \in u : 0 <= k /\ s <= k /\ k < d
    BY <1>2, <1>8, <2>1
  <2> QED BY <1>1, <1>8, <1>10, <2>2, InLoopIs
<1> QED BY <1>9, <1>10

LEMMA NextByteSame ==
    ASSUME NEW p, Crc!WellFormed(p), NEW a, NEW b, Crc!InLoop(p, a), Crc!InLoop(p, b),
           Crc!Same(p, a, b), NEW byte \in SUBSET Int, \A k \in byte : 0 <= k /\ k < 8
    PROVE  Crc!Same(p, Crc!NextByte(p, a, byte), Crc!NextByte(p, b, byte))
<1>1. a \in SUBSET Int /\ b \in SUBSET Int
  BY InLoopIs
<1>2. CASE p.reflectInput
  <2>1. Crc!LoopWidth(p) = p.width
    BY <1>2, ParametersAre
  <2>2. (\A k \in a : k < p.width) /\ (\A k \in b : k < p.width)
    BY <1>2, InLoopIs
  <2>3. a = b
    BY <2>1, <2>2 DEF Crc!Same, Crc!Mask
  <2> QED BY <2>3 DEF Crc!Same
<1>3. CASE ~p.reflectInput
  <2>1. PICK y, x, z : /\ y = Crc!ShiftLeft(p, byte, Crc!ByteShift(p))
                       /\ x = Crc!Xor(a, Crc!ShiftLeft(p, byte, Crc!ByteShift(p)))
                       /\ z = Crc!Xor(b, Crc!ShiftLeft(p, byte, Crc!ByteShift(p)))
    OBVIOUS
  <2>2. y \in SUBSET Int
    <3>1. Crc!LoopWidth(p) \in Int /\ p.digits \in Int
      BY ParametersAre
    <3>2. Crc!ByteShift(p) \in Int
      BY <3>1 DEF Crc!ByteShift, Crc!CHAR_BIT
    <3> QED BY <2>1, <3>1, <3>2, BitsAreNumbers
  <2>3. x \in SUBSET Int /\ z \in SUBSET Int
    BY <1>1, <2>1, <2>2 DEF Crc!Xor
  <2>4. \A k \in Int : k < Crc!LoopWidth(p) => (k \in a <=> k \in b)
    BY <1>1, SameIs
  <2>5. \A k \in Int : k < Crc!LoopWidth(p) => (k \in x <=> k \in z)
    BY <2>1, <2>4, XorBits
  <2>6. Crc!Same(p, x, z)
    BY <2>3, <2>5, SameIs
  <2> QED BY <1>3, <2>1, <2>3, <2>6, EightBitsSame DEF Crc!NextByte
<1> QED BY <1>2, <1>3

\* So does one with the table.
LEMMA TableByteSame ==
    ASSUME NEW p, Crc!WellFormed(p), NEW a, NEW b, Crc!InLoop(p, a), Crc!InLoop(p, b),
           Crc!Same(p, a, b), NEW byte \in SUBSET Int, \A k \in byte : 0 <= k /\ k < 8
    PROVE  /\ Crc!InLoop(p, Crc!NextByteByTable(p, a, byte))
           /\ Crc!Same(p, Crc!NextByteByTable(p, a, byte), Crc!NextByte(p, b, byte))
<1>1. PICK v, u, q : /\ v = Crc!NextByteByTable(p, a, byte) /\ u = Crc!NextByte(p, a, byte)
                     /\ q = Crc!NextByte(p, b, byte)
  OBVIOUS
<1>2. Crc!InLoop(p, u) /\ Crc!Same(p, u, q)
  BY <1>1, NextByteInLoop, NextByteSame
<1>3. a \in SUBSET Int /\ \A k \in a : 0 <= k /\ Crc!Pad(p) <= k /\ (p.reflectInput => k < p.width)
  BY InLoopIs
<1>4. CASE p.reflectInput
  <2>1. \A k \in a : 0 <= k /\ k < p.width
    BY <1>3, <1>4
  <2>2. v = u
    BY <1>1, <1>3, <1>4, <2>1, ByteByTableReflected
  <2> QED BY <1>1, <1>2, <2>2
<1>5. CASE ~p.reflectInput
  <2>1. /\ Crc!Same(p, v, u) /\ v \in SUBSET Int
        /\ \A k \in v : Crc!Pad(p) <= k /\ k < p.digits
    BY <1>1, <1>3, <1>5, ByteByTable
  <2>2. Crc!Pad(p) \in Nat
    BY ParametersAre
  <2>3. \A k \in v : 0 <= k
    BY <2>1, <2>2
  <2>4. Crc!InLoop(p, v)
    BY <1>5, <2>1, <2>3, InLoopIs
  <2>5. Crc!Same(p, v, q)
    BY <1>2, <2>1 DEF Crc!Same
  <2> QED BY <1>1, <2>4, <2>5
<1> QED BY <1>4, <1>5

\* The CRC takes no bit above the width.
Turn(p, a) == IF Crc!Flip(p) THEN Crc!Reflect(a, p.width) ELSE a

LEMMA TurnBits ==
    ASSUME NEW p, Crc!WellFormed(p), NEW a \in SUBSET Int
    PROVE  /\ Turn(p, a) \in SUBSET Int
           /\ \A k \in Int : k \in Turn(p, a) <=>
                 IF Crc!Flip(p) THEN p.width - 1 - k \in a /\ k >= 0 ELSE k \in a
<1>1. p.width \in Int
  BY ParametersAre
<1>2. Crc!Reflect(a, p.width) \in SUBSET Int
  BY <1>1 DEF Crc!Reflect, Crc!Mask
<1>3. \A k \in Int : k \in Crc!Reflect(a, p.width) <=> p.width - 1 - k \in a /\ k >= 0
  BY <1>1, ReflectBits
<1> QED BY <1>2, <1>3 DEF Turn

LEMMA CrcBits ==
    ASSUME NEW p, Crc!WellFormed(p), NEW a, Crc!InLoop(p, a)
    PROVE  \E c \in SUBSET Int :
              /\ c = Crc!Finalize(p, Crc!Leave(p, a))
              /\ \A k \in Int : k \in c <=>
                   /\ k < p.width
                   /\ ((IF Crc!Flip(p) THEN k >= 0 /\ p.width - 1 - k + Crc!Pad(p) \in a
                        ELSE k >= 0 /\ k + Crc!Pad(p) \in a) <=> k \notin p.finalXOR)
<1>1. PICK w, s, F : w = p.width /\ s = Crc!Pad(p) /\ F = p.finalXOR
  OBVIOUS
<1>2. w \in Nat /\ s \in Nat /\ s \in Int
  BY <1>1, ParametersAre
<1>3. F \in SUBSET Int
  BY <1>1, <1>2 DEF Crc!WellFormed
<1>4. a \in SUBSET Int /\ \A k \in a : s <= k
  BY <1>1, InLoopIs
<1>5. PICK x, t, g, c : /\ x = Crc!ShiftRight(a, s) /\ t = Turn(p, Crc!ShiftRight(a, s))
                        /\ g = Crc!Xor(Turn(p, Crc!ShiftRight(a, s)), F)
                        /\ c = Crc!Mask(Crc!Xor(Turn(p, Crc!ShiftRight(a, s)), F), w)
  OBVIOUS
<1>6. x \in SUBSET Int /\ \A k \in Int : k \in x <=> k + s \in a /\ k >= 0
  <2>1. x \in SUBSET Int
    BY <1>4, <1>2, <1>5 DEF Crc!ShiftRight
  <2>2. \A k \in Int : k \in x <=> k + s \in a /\ k >= 0
    BY <1>2, <1>4, <1>5, RightBits
  <2> QED BY <2>1, <2>2
<1>7. /\ t \in SUBSET Int
      /\ \A k \in Int : k \in t <=> IF Crc!Flip(p) THEN w - 1 - k \in x /\ k >= 0 ELSE k \in x
  BY <1>1, <1>5, <1>6, TurnBits
<1>8. c \in SUBSET Int /\ \A k \in Int : k \in c <=> k < w /\ (k \in t <=> k \notin F)
  <2>1. g \in SUBSET Int
    BY <1>3, <1>5, <1>7 DEF Crc!Xor
  <2>2. \A k : k \in g <=> (k \in t <=> k \notin F)
    BY <1>5, XorBits
  <2>3. c = Crc!Mask(g, w)
    BY <1>5
  <2> QED BY <2>1, <2>2, <2>3 DEF Crc!Mask
<1>9. ASSUME NEW k \in Int, k < w
      PROVE  k \in t <=> IF Crc!Flip(p) THEN k >= 0 /\ w - 1 - k + s \in a
                         ELSE k >= 0 /\ k + s \in a
  <2>1. PICK j : j = w - 1 - k
    OBVIOUS
  <2>2. j \in Int /\ j >= 0
    BY <1>2, <1>9, <2>1
  <2>3. j \in x <=> j + s \in a
    BY <1>6, <2>2
  <2>4. k \in x <=> k + s \in a /\ k >= 0
    BY <1>6
  <2>5. k \in t <=> IF Crc!Flip(p) THEN j \in x /\ k >= 0 ELSE k \in x
    BY <1>7, <2>1
  <2> QED BY <2>1, <2>3, <2>4, <2>5
<1>10. c = Crc!Finalize(p, Crc!Leave(p, a))
  BY <1>1, <1>5 DEF Crc!Finalize, Crc!Leave, Turn
<1> QED BY <1>1, <1>8, <1>9, <1>10

\* So remainders that agree below the width of the loop give one CRC.
LEMMA CrcSame ==
    ASSUME NEW p, Crc!WellFormed(p), NEW a, NEW b, Crc!InLoop(p, a), Crc!InLoop(p, b),
           Crc!Same(p, a, b)
    PROVE  Crc!Finalize(p, Crc!Leave(p, a)) = Crc!Finalize(p, Crc!Leave(p, b))
<1>1. PICK w, s : w = p.width /\ s = Crc!Pad(p)
  OBVIOUS
<1>2. w \in Nat /\ s \in Nat /\ Crc!LoopWidth(p) = w + s
  BY <1>1, ParametersAre
<1>3. \A k \in Int : k < w + s => (k \in a <=> k \in b)
  <2>1. a \in SUBSET Int /\ b \in SUBSET Int
    BY InLoopIs
  <2> QED BY <1>2, <2>1, SameIs
<1>4. PICK c \in SUBSET Int :
        /\ c = Crc!Finalize(p, Crc!Leave(p, a))
        /\ \A k \in Int : k \in c <=>
             /\ k < w
             /\ ((IF Crc!Flip(p) THEN k >= 0 /\ w - 1 - k + s \in a
                  ELSE k >= 0 /\ k + s \in a) <=> k \notin p.finalXOR)
  BY <1>1, CrcBits
<1>5. PICK e \in SUBSET Int :
        /\ e = Crc!Finalize(p, Crc!Leave(p, b))
        /\ \A k \in Int : k \in e <=>
             /\ k < w
             /\ ((IF Crc!Flip(p) THEN k >= 0 /\ w - 1 - k + s \in b
                  ELSE k >= 0 /\ k + s \in b) <=> k \notin p.finalXOR)
  BY <1>1, CrcBits
<1>6. ASSUME NEW k \in Int PROVE k \in c <=> k \in e
  <2>1. k >= 0 => (w - 1 - k + s \in a <=> w - 1 - k + s \in b)
    BY <1>2, <1>3
  <2>2. k < w => (k + s \in a <=> k + s \in b)
    BY <1>2, <1>3
  <2> QED BY <1>4, <1>5, <2>1, <2>2
<1>7. c = e
  BY <1>6, SameBits
<1> QED BY <1>4, <1>5, <1>7

\* Going on from a CRC is going on from its remainder, without the bits above the width
\* of the loop.
LEMMA ResumeIs ==
    ASSUME NEW p, Crc!WellFormed(p), NEW a, Crc!InLoop(p, a)
    PROVE  Crc!Enter(p, Crc!UndoFinalize(p, Crc!Finalize(p, Crc!Leave(p, a))))
              = Crc!Mask(a, Crc!LoopWidth(p))
<1>1. PICK w, s, d, F : w = p.width /\ s = Crc!Pad(p) /\ d = p.digits /\ F = p.finalXOR
  OBVIOUS
<1>2. /\ w \in Nat /\ s \in Nat /\ d \in Nat /\ w + s <= d /\ Crc!LoopWidth(p) = w + s
      /\ p.digits \in Int /\ s \in Int
  BY <1>1, ParametersAre
<1>3. F \in SUBSET Int /\ \A k \in F : k < w
  <2>1. F \subseteq 0 .. w - 1
    BY <1>1 DEF Crc!WellFormed
  <2> QED BY <1>2, <2>1
<1>4. a \in SUBSET Int /\ \A k \in a : s <= k
  BY <1>1, InLoopIs
<1>5. PICK c \in SUBSET Int :
        /\ c = Crc!Finalize(p, Crc!Leave(p, a))
        /\ \A k \in Int : k \in c <=>
             /\ k < w
             /\ ((IF Crc!Flip(p) THEN k >= 0 /\ w - 1 - k + s \in a
                  ELSE k >= 0 /\ k + s \in a) <=> k \notin F)
  BY <1>1, CrcBits
<1>6. PICK u : u = Crc!Xor(Crc!Mask(c, w), F)
  OBVIOUS
<1>7. u \in SUBSET Int
  BY <1>3, <1>6 DEF Crc!Xor, Crc!Mask
<1>8. ASSUME NEW k \in Int
      PROVE  k \in u <=> /\ k < w /\ k >= 0
                         /\ IF Crc!Flip(p) THEN w - 1 - k + s \in a ELSE k + s \in a
  <2>1. k \in u <=> (k \in Crc!Mask(c, w) <=> k \notin F)
    BY <1>6, XorBits
  <2>2. k \in Crc!Mask(c, w) <=> k \in c /\ k < w
    BY MaskBits
  <2>3. k \in F => k < w
    BY <1>3
  <2> QED BY <1>5, <2>1, <2>2, <2>3
<1>9. PICK v : v = Turn(p, u)
  OBVIOUS
<1>10. /\ v \in SUBSET Int
       /\ \A k \in Int : k \in v <=> IF Crc!Flip(p) THEN w - 1 - k \in u /\ k >= 0 ELSE k \in u
  BY <1>1, <1>7, <1>9, TurnBits
<1>11. ASSUME NEW k \in Int PROVE k \in v <=> k < w /\ k >= 0 /\ k + s \in a
  <2>1. CASE Crc!Flip(p)
    <3>1. PICK j : j = w - 1 - k
      OBVIOUS
    <3>2. j \in Int /\ (j < w <=> k >= 0) /\ (j >= 0 <=> k < w) /\ w - 1 - j + s = k + s
      BY <1>2, <3>1
    <3>3. j \in u <=> j < w /\ j >= 0 /\ w - 1 - j + s \in a
      BY <1>8, <2>1, <3>2
    <3>4. k \in v <=> j \in u /\ k >= 0
      BY <1>10, <2>1, <3>1
    <3> QED BY <3>2, <3>3, <3>4
  <2>2. CASE ~Crc!Flip(p)
    BY <1>8, <1>10, <2>2
  <2> QED BY <2>1, <2>2
<1>12. PICK q : q = Crc!ShiftLeft(p, v, s)
  OBVIOUS
<1>13. q \in SUBSET Int
  BY <1>2, <1>10, <1>12, BitsAreNumbers
<1>14. PICK m : m = Crc!Mask(a, w + s)
  OBVIOUS
<1>15. m \in SUBSET Int
  BY <1>4, <1>14 DEF Crc!Mask
<1>16. ASSUME NEW k \in Int PROVE k \in q <=> k \in m
  <2>1. k \in q <=> k - s \in v /\ k < d
    BY <1>1, <1>2, <1>10, <1>12, LeftBits
  <2>2. PICK j : j = k - s
    OBVIOUS
  <2>3. j \in Int /\ j + s = k /\ (j >= 0 <=> s <= k) /\ (j < w <=> k < w + s)
    BY <1>2, <2>2
  <2>4. j \in v <=> j < w /\ j >= 0 /\ j + s \in a
    BY <1>11, <2>3
  <2>5. k \in m <=> k \in a /\ k < w + s
    BY <1>14, MaskBits
  <2>6. k < w + s => k < d
    BY <1>2
  <2>7. k \in a => s <= k
    BY <1>4
  <2> QED BY <2>1, <2>2, <2>3, <2>4, <2>5, <2>6, <2>7
<1>17. q = m
  BY <1>13, <1>15, <1>16, SameBits
<1>18. Crc!UndoFinalize(p, c) = v
  BY <1>1, <1>6, <1>9 DEF Crc!UndoFinalize, Turn
<1> QED BY <1>1, <1>2, <1>5, <1>12, <1>14, <1>17, <1>18 DEF Crc!Enter

LEMMA ResumeSame ==
    ASSUME NEW p, Crc!WellFormed(p), NEW a, Crc!InLoop(p, a)
    PROVE  /\ Crc!InLoop(p, Crc!Mask(a, Crc!LoopWidth(p)))
           /\ Crc!Same(p, Crc!Mask(a, Crc!LoopWidth(p)), a)
<1>1. Crc!InLoop(p, Crc!Mask(a, Crc!LoopWidth(p)))
  BY DEF Crc!InLoop, Crc!Mask
<1>2. Crc!Same(p, Crc!Mask(a, Crc!LoopWidth(p)), a)
  BY DEF Crc!Same, Crc!Mask
<1> QED BY <1>1, <1>2

LEMMA EnterInLoop ==
    ASSUME NEW p, Crc!WellFormed(p), NEW a, a \subseteq 0 .. p.width - 1
    PROVE  Crc!InLoop(p, Crc!Enter(p, a))
<1>1. PICK w, s, d, q : w = p.width /\ s = Crc!Pad(p) /\ d = p.digits /\ q = Crc!Enter(p, a)
  OBVIOUS
<1>2. /\ w \in Nat /\ s \in Nat /\ d \in Nat /\ w + s <= d /\ p.digits \in Int /\ s \in Int
      /\ (p.reflectInput => s = 0)
  BY <1>1, ParametersAre
<1>3. a \in SUBSET Int /\ \A k \in a : 0 <= k /\ k < w
  BY <1>1, <1>2
<1>4. q = Crc!ShiftLeft(p, a, s)
  BY <1>1 DEF Crc!Enter
<1>5. q \in SUBSET Int
  BY <1>2, <1>3, <1>4, BitsAreNumbers
<1>6. ASSUME NEW k \in q
      PROVE  0 <= k /\ s <= k /\ k < d /\ (p.reflectInput => k < w)
  <2>1. k \in Int /\ k - s \in a
    BY <1>2, <1>3, <1>4, <1>5, LeftBits
  <2>2. 0 <= k - s /\ k - s < w
    BY <1>3, <2>1
  <2> QED BY <1>2, <2>1, <2>2
<1> QED BY <1>1, <1>5, <1>6, InLoopIs

LEMMA CrcFacts ==
    ASSUME NEW p \in ParameterSets
    PROVE  Crc!WellFormed(p)
BY CrcAssumption

LEMMA ByteIs ==
    ASSUME NEW n
    PROVE  Crc!Byte(n) \in SUBSET Int /\ \A k \in Crc!Byte(n) : 0 <= k /\ k < 8
BY DEF Crc!Byte, Crc!CHAR_BIT

\* A part may begin at any byte: its remainder is as good as the one before.
LEMMA PartSame ==
    ASSUME NEW p, Crc!WellFormed(p), NEW a, NEW b, Crc!InLoop(p, a), Crc!InLoop(p, b),
           Crc!Same(p, a, b),
           NEW q \in {a, Crc!Enter(p, Crc!UndoFinalize(p, Crc!Finalize(p, Crc!Leave(p, a))))}
    PROVE  Crc!InLoop(p, q) /\ Crc!Same(p, q, b)
<1>1. q = a \/ q = Crc!Mask(a, Crc!LoopWidth(p))
  BY ResumeIs
<1>2. CASE q = Crc!Mask(a, Crc!LoopWidth(p))
  <2>1. Crc!InLoop(p, q) /\ Crc!Same(p, q, a)
    BY <1>2, ResumeSame
  <2> QED BY <2>1 DEF Crc!Same
<1> QED BY <1>1, <1>2

LEMMA CrcInitial == Crc!Init => Crc!CrcInv
<1> SUFFICES ASSUME Crc!Init PROVE Crc!CrcInv
  OBVIOUS
<1>1. s1 \in ParameterSets /\ s2 \in CrcMessages /\ s3 = 0
  BY DEF Crc!Init
<1>2. Crc!WellFormed(s1)
  BY <1>1, CrcFacts
<1>3. s1.initialValue \subseteq 0 .. s1.width - 1
  BY <1>2 DEF Crc!WellFormed
<1>4. Crc!InLoop(s1, s4)
  BY <1>2, <1>3, EnterInLoop DEF Crc!Init
<1>5. s5 = s4 /\ s6 = s4
  BY DEF Crc!Init
<1>6. Crc!Same(s1, s4, s4)
  BY DEF Crc!Same
<1>7. Len(s2) \in Nat
  BY <1>1, CrcAssumption
<1> QED BY <1>1, <1>4, <1>5, <1>6, <1>7 DEF Crc!CrcInv

LEMMA CrcStep == Crc!CrcInv /\ Crc!Next => Crc!CrcInv'
<1> SUFFICES ASSUME Crc!CrcInv, Crc!Next PROVE Crc!CrcInv'
  OBVIOUS
<1>1. PICK p, byte, r, t, a : /\ p = s1 /\ byte = Crc!Byte(s2[s3 + 1])
                              /\ r = s4 /\ t = s5 /\ a = s6
  OBVIOUS
<1>2. /\ p \in ParameterSets /\ s2 \in CrcMessages /\ s3 \in 0 .. Len(s2)
      /\ Crc!InLoop(p, r) /\ Crc!InLoop(p, t) /\ Crc!InLoop(p, a)
      /\ Crc!Same(p, t, r) /\ Crc!Same(p, a, r)
  BY <1>1 DEF Crc!CrcInv
<1>3. Crc!WellFormed(p)
  BY <1>2, CrcFacts
<1>4. byte \in SUBSET Int /\ \A k \in byte : 0 <= k /\ k < 8
  BY <1>1, ByteIs
<1>5. /\ s1' = p /\ s2' = s2 /\ s3 < Len(s2) /\ s3' = s3 + 1
      /\ s4' = Crc!NextByte(p, r, byte) /\ s5' = Crc!NextByteByTable(p, t, byte)
      /\ \E q \in {a, Crc!Enter(p, Crc!UndoFinalize(p, Crc!Finalize(p, Crc!Leave(p, a))))} :
            s6' = Crc!NextByte(p, q, byte)
  BY <1>1 DEF Crc!Next, Crc!TakeByte, Crc!Resume, Crc!CrcOf
<1>6. PICK q \in {a, Crc!Enter(p, Crc!UndoFinalize(p, Crc!Finalize(p, Crc!Leave(p, a))))} :
         s6' = Crc!NextByte(p, q, byte)
  BY <1>5
<1>7. PICK r1, t1, a1 : /\ r1 = Crc!NextByte(p, r, byte) /\ t1 = Crc!NextByteByTable(p, t, byte)
                        /\ a1 = Crc!NextByte(p, q, byte)
  OBVIOUS
<1>8. Crc!InLoop(p, r1) /\ Crc!Same(p, r1, r1)
  BY <1>2, <1>3, <1>4, <1>7, NextByteInLoop DEF Crc!Same
<1>9. Crc!InLoop(p, t1) /\ Crc!Same(p, t1, r1)
  BY <1>2, <1>3, <1>4, <1>7, TableByteSame
<1>10. Crc!InLoop(p, q) /\ Crc!Same(p, q, r)
  BY <1>2, <1>3, PartSame
<1>11. Crc!InLoop(p, a1) /\ Crc!Same(p, a1, r1)
  BY <1>2, <1>3, <1>4, <1>7, <1>10, NextByteInLoop, NextByteSame
<1>12. s3 + 1 \in 0 .. Len(s2)
  <2>1. Len(s2) \in Nat
    BY <1>2, CrcAssumption
  <2> QED BY <1>2, <1>5, <2>1
<1>13. s4' = r1 /\ s5' = t1 /\ s6' = a1
  BY <1>5, <1>6, <1>7
<1> QED BY <1>2, <1>5, <1>8, <1>9, <1>11, <1>12, <1>13 DEF Crc!CrcInv

CrcsInv == program = "crc" => Crc!CrcInv

LEMMA CrcsInitial == Init => CrcsInv
<1>1. ASSUME Init, program = "crc" PROVE Crc!Init
  BY <1>1 DEF Init
<1> QED BY <1>1, CrcInitial DEF CrcsInv

LEMMA CrcsStep == CrcsInv /\ [Next]_vars => CrcsInv'
<1> SUFFICES ASSUME CrcsInv, [Next]_vars, program' = "crc" PROVE Crc!CrcInv'
  BY DEF CrcsInv
<1>1. CASE Next
  <2>1. program = "crc" /\ Crc!Next
    BY <1>1 DEF Next
  <2> QED BY <2>1, CrcStep DEF CrcsInv
<1>2. CASE UNCHANGED vars
  <2>1. /\ program = "crc" /\ UNCHANGED <<s1, s2, s3, s4, s5, s6>>
    BY <1>2 DEF vars
  <2> QED BY <2>1 DEF CrcsInv, Crc!CrcInv
<1> QED BY <1>1, <1>2

LEMMA CrcInvariant == Spec => []CrcsInv
BY CrcsInitial, CrcsStep, PTL DEF Spec

\* The table and the parts give the CRC of the bits: for every well-formed set of
\* parameters, after any bytes, wherever the message is cut.
THEOREM FormsAlwaysAgree == Spec => []FormsAgree
<1>1. ASSUME CrcsInv PROVE FormsAgree
  <2> SUFFICES ASSUME program = "crc" PROVE Crc!FormsAgree
    BY DEF FormsAgree
  <2>1. /\ s1 \in ParameterSets
        /\ Crc!InLoop(s1, s4) /\ Crc!InLoop(s1, s5) /\ Crc!InLoop(s1, s6)
        /\ Crc!Same(s1, s5, s4) /\ Crc!Same(s1, s6, s4)
    BY <1>1 DEF CrcsInv, Crc!CrcInv
  <2>2. Crc!WellFormed(s1)
    BY <2>1, CrcFacts
  <2> QED BY <2>1, <2>2, CrcSame DEF Crc!FormsAgree, Crc!CrcOf
<1>2. CrcsInv => FormsAgree
  BY <1>1
<1> QED BY <1>2, CrcInvariant, PTL
-----------------------------------------------------------------------------
(* Proxy and cache: the bounds of their queues, of their starts and of what  *)
(* their messages say.  Labels is their type without these bounds.           *)

QueuesFit(qs) == \A q \in 1 .. Len(qs) : qs[q] \in Seq(Lifecycle!Messages) /\ Len(qs[q]) <= MaxMsg

LifecycleBounds ==
    /\ DOMAIN s8 = {"proxy", "cache", "signals", "requests"}
    /\ s8.proxy \in Nat /\ s8.proxy + s1.run = MaxStarts
    /\ ~Lifecycle!Down(s1.pc) => s1.run >= 1
    /\ s1.mq \in 0 .. Len(s4) /\ s2.mq \in 0 .. Len(s4)
    /\ s2.size \in -1 .. MaxStarts
    /\ s6 \in BOOLEAN /\ s7 \in BOOLEAN
    /\ QueuesFit(s4)

LEMMA NewQueueFits ==
    ASSUME NEW S, NEW qs \in Seq(Seq(S)), QueuesFit(qs)
    PROVE  QueuesFit(Append(qs, << >>))
<1>1. MaxMsg \in Nat
  BY LifecycleAssumption
<1>2. << >> \in Seq(Lifecycle!Messages) /\ Len(<< >>) = 0
  OBVIOUS
<1>3. ASSUME NEW q \in 1 .. Len(qs) + 1
      PROVE  Append(qs, << >>)[q] = IF q = Len(qs) + 1 THEN << >> ELSE qs[q]
  BY <1>3
<1>4. ASSUME NEW q \in 1 .. Len(qs) + 1
      PROVE  Append(qs, << >>)[q] \in Seq(Lifecycle!Messages) /\ Len(Append(qs, << >>)[q]) <= MaxMsg
  <2>1. CASE q = Len(qs) + 1
    BY <1>1, <1>2, <1>3, <2>1
  <2>2. CASE q \in 1 .. Len(qs)
    <3>1. Append(qs, << >>)[q] = qs[q]
      BY <2>2
    <3> QED BY <2>2, <3>1 DEF QueuesFit
  <2> QED BY <2>1, <2>2
<1>5. Len(Append(qs, << >>)) = Len(qs) + 1
  OBVIOUS
<1> QED BY <1>4, <1>5 DEF QueuesFit

LEMMA MessageFits ==
    ASSUME NEW S, NEW qs \in Seq(Seq(S)), QueuesFit(qs), NEW n \in 1 .. Len(qs),
           Len(qs[n]) < MaxMsg, NEW m \in Lifecycle!Messages
    PROVE  QueuesFit([qs EXCEPT ![n] = Append(@, m)])
<1>1. PICK old : old = qs[n]
  OBVIOUS
<1>2. PICK new : new = Append(old, m)
  OBVIOUS
<1>3. old \in Seq(Lifecycle!Messages) /\ Len(old) < MaxMsg /\ MaxMsg \in Nat
  BY <1>1, LifecycleAssumption DEF QueuesFit
<1>4. new \in Seq(Lifecycle!Messages) /\ Len(new) <= MaxMsg
  BY <1>2, <1>3
<1>5. PICK rs : rs = [qs EXCEPT ![n] = Append(@, m)]
  OBVIOUS
<1>6. Len(rs) = Len(qs) /\ \A q \in 1 .. Len(qs) : rs[q] = IF q = n THEN new ELSE qs[q]
  BY <1>1, <1>2, <1>5
<1>7. QueuesFit(rs)
  BY <1>4, <1>6 DEF QueuesFit
<1> QED BY <1>5, <1>7

LEMMA TailFits ==
    ASSUME NEW S, NEW qs \in Seq(Seq(S)), QueuesFit(qs), NEW n \in 1 .. Len(qs), qs[n] # << >>
    PROVE  QueuesFit([qs EXCEPT ![n] = Tail(@)]) /\ Head(qs[n]) \in Lifecycle!Messages
<1>1. PICK old : old = qs[n]
  OBVIOUS
<1>2. PICK new : new = Tail(old)
  OBVIOUS
<1>3. old \in Seq(Lifecycle!Messages) /\ old # << >> /\ Len(old) <= MaxMsg /\ MaxMsg \in Nat
  BY <1>1, LifecycleAssumption DEF QueuesFit
<1>4. new \in Seq(Lifecycle!Messages) /\ Len(new) <= MaxMsg /\ Head(old) \in Lifecycle!Messages
  BY <1>2, <1>3
<1>5. PICK rs : rs = [qs EXCEPT ![n] = Tail(@)]
  OBVIOUS
<1>6. Len(rs) = Len(qs) /\ \A q \in 1 .. Len(qs) : rs[q] = IF q = n THEN new ELSE qs[q]
  BY <1>1, <1>2, <1>5
<1>7. QueuesFit(rs)
  BY <1>4, <1>6 DEF QueuesFit
<1> QED BY <1>1, <1>4, <1>5, <1>7

\* mq_open leaves the queues there are, and puts an empty one behind them.
LEMMA OpenFits ==
    ASSUME Lifecycle!Labels, LifecycleBounds, Lifecycle!MqueueInit
    PROVE  QueuesFit(s4') /\ Len(s4') \in Nat /\ Len(s4) <= Len(s4') /\ s3' \in 0 .. Len(s4')
<1>1. s4 \in Seq(Seq([kind : {"size", "request"}, value : Int])) /\ s3 \in 0 .. Len(s4)
  BY DEF Lifecycle!Labels
<1>2. CASE s3 = 0
  <2>1. s3' = Len(s4) + 1 /\ s4' = Append(s4, << >>)
    BY <1>2 DEF Lifecycle!MqueueInit, Lifecycle!NoQueue
  <2>2. QueuesFit(Append(s4, << >>))
    BY <1>1, NewQueueFits DEF LifecycleBounds
  <2>3. Len(Append(s4, << >>)) = Len(s4) + 1
    BY <1>1
  <2> QED BY <1>1, <2>1, <2>2, <2>3
<1>3. CASE s3 # 0
  BY <1>1, <1>3 DEF Lifecycle!MqueueInit, Lifecycle!NoQueue, LifecycleBounds
<1> QED BY <1>2, <1>3

LEMMA SizeMessageIs ==
    ASSUME NEW m \in Lifecycle!Messages, m.kind = "size"
    PROVE  m.value \in 1 .. MaxStarts
<1>1. \A i : Lifecycle!RequestMessage(i).kind = "request"
  BY DEF Lifecycle!RequestMessage
<1>2. PICK run \in 1 .. MaxStarts : m = Lifecycle!SizeMessage(run)
  BY <1>1 DEF Lifecycle!Messages
<1> QED BY <1>2 DEF Lifecycle!SizeMessage

LEMMA LifecycleBoundsStep ==
    ASSUME Lifecycle!Labels, LifecycleBounds, Lifecycle!Next
    PROVE  LifecycleBounds'
<1>1. /\ s1 \in [pc : {"down", "size", "segments", "serve", "stopping", "crashed"},
                 mq : Nat, run : Nat, waiting : SUBSET Segments, read : BOOLEAN]
      /\ s2 \in [pc : {"down", "size", "semaphore", "serve", "crashed"}, mq : Nat, size : Int]
      /\ s4 \in Seq(Seq([kind : {"size", "request"}, value : Int]))
      /\ ~Lifecycle!Down(s1.pc) => s1.mq \in 1 .. Len(s4)
      /\ ~Lifecycle!Down(s2.pc) => s2.mq \in 1 .. Len(s4)
  BY DEF Lifecycle!Labels
<1>2. /\ DOMAIN s8 = {"proxy", "cache", "signals", "requests"}
      /\ s8.proxy \in Nat /\ s8.proxy + s1.run = MaxStarts
      /\ (~Lifecycle!Down(s1.pc) => s1.run >= 1)
      /\ s1.mq \in 0 .. Len(s4) /\ s2.mq \in 0 .. Len(s4)
      /\ s2.size \in -1 .. MaxStarts
      /\ s6 \in BOOLEAN /\ s7 \in BOOLEAN
      /\ QueuesFit(s4)
  BY DEF LifecycleBounds
<1>3. MaxStarts \in Nat /\ Len(s4) \in Nat
  BY <1>1, LifecycleAssumption
<1>4. CASE Lifecycle!ProxyOpen
  <2>1. QueuesFit(s4') /\ Len(s4') \in Nat /\ Len(s4) <= Len(s4') /\ s3' \in 0 .. Len(s4')
    BY <1>4, OpenFits DEF Lifecycle!ProxyOpen
  <2>2. /\ s8.proxy > 0 /\ s8' = [s8 EXCEPT !.proxy = @ - 1]
        /\ s1' = [pc |-> "size", mq |-> s3', run |-> s1.run + 1, waiting |-> {}, read |-> FALSE]
        /\ s7' \in BOOLEAN /\ s2' = s2 /\ s6' = s6
    BY <1>4 DEF Lifecycle!ProxyOpen
  <2>3. /\ DOMAIN s8' = {"proxy", "cache", "signals", "requests"} /\ s8'.proxy = s8.proxy - 1
        /\ s1'.run = s1.run + 1 /\ s1'.mq = s3' /\ s1.run \in Nat
    BY <1>1, <1>2, <2>2
  <2>4. s2'.mq \in 0 .. Len(s4') /\ s1'.mq \in 0 .. Len(s4')
    BY <1>2, <1>3, <2>1, <2>2, <2>3
  <2>5. s8'.proxy \in Nat /\ s8'.proxy + s1'.run = MaxStarts /\ s1'.run >= 1
    BY <1>2, <2>2, <2>3
  <2> QED BY <1>2, <2>1, <2>2, <2>3, <2>4, <2>5 DEF LifecycleBounds
<1>5. CASE Lifecycle!ProxySize
  <2>1. /\ s1.pc = "size" /\ Len(s4[s1.mq]) < MaxMsg
        /\ s4' = [s4 EXCEPT ![s1.mq] = Append(@, Lifecycle!SizeMessage(s1.run))]
        /\ s1' = [s1 EXCEPT !.pc = "segments"] /\ UNCHANGED <<s2, s6, s7, s8>>
    BY <1>5 DEF Lifecycle!ProxySize
  <2>2. s1.mq \in 1 .. Len(s4) /\ s1.run \in 1 .. MaxStarts
    BY <1>1, <1>2, <1>3, <2>1 DEF Lifecycle!Down
  <2>3. Lifecycle!SizeMessage(s1.run) \in Lifecycle!Messages
    BY <2>2 DEF Lifecycle!Messages
  <2>4. QueuesFit(s4')
    BY <1>1, <1>2, <2>1, <2>2, <2>3, MessageFits
  <2>5. Len(s4') = Len(s4)
    BY <1>1, <2>1
  <2>6. s1'.run = s1.run /\ s1'.mq = s1.mq
    BY <1>1, <2>1
  <2> QED BY <1>2, <2>1, <2>2, <2>4, <2>5, <2>6 DEF LifecycleBounds
<1>6. CASE Lifecycle!ProxySegments \/ Lifecycle!ProxyExit \/ Lifecycle!WorkerMeetsHandler
  <2>1. /\ UNCHANGED <<s2, s4, s6, s7, s8>> /\ ~Lifecycle!Down(s1.pc)
        /\ s1'.run = s1.run /\ s1'.mq \in {s1.mq, 0}
    BY <1>1, <1>6 DEF Lifecycle!ProxySegments, Lifecycle!ProxyExit, Lifecycle!WorkerMeetsHandler,
       Lifecycle!NoQueue, Lifecycle!Down
  <2> QED BY <1>2, <1>3, <2>1 DEF LifecycleBounds
<1>7. ASSUME NEW i \in Segments, Lifecycle!Request(i) PROVE LifecycleBounds'
  <2>1. /\ s1.pc = "serve" /\ Len(s4[s1.mq]) < MaxMsg
        /\ s4' = [s4 EXCEPT ![s1.mq] = Append(@, Lifecycle!RequestMessage(i))]
        /\ s1' = [s1 EXCEPT !.waiting = @ \cup {i}] /\ UNCHANGED <<s2, s6, s7>>
        /\ s8' = [s8 EXCEPT !.requests = @ - 1]
    BY <1>7 DEF Lifecycle!Request
  <2>2. s1.mq \in 1 .. Len(s4)
    BY <1>1, <2>1 DEF Lifecycle!Down
  <2>3. Lifecycle!RequestMessage(i) \in Lifecycle!Messages
    BY DEF Lifecycle!Messages
  <2>4. QueuesFit(s4')
    BY <1>1, <1>2, <2>1, <2>2, <2>3, MessageFits
  <2>5. Len(s4') = Len(s4)
    BY <1>1, <2>1
  <2>6. s1'.run = s1.run /\ s1'.mq = s1.mq /\ s1'.pc = s1.pc
    BY <1>1, <2>1
  <2>7. DOMAIN s8' = DOMAIN s8 /\ s8'.proxy = s8.proxy
    BY <1>2, <2>1
  <2> QED BY <1>2, <2>1, <2>2, <2>4, <2>5, <2>6, <2>7 DEF LifecycleBounds
<1>8. CASE Lifecycle!ProxySignal
  <2>1. /\ ~Lifecycle!Down(s1.pc) /\ UNCHANGED <<s2, s4, s6>> /\ s7' \in BOOLEAN
        /\ s8' = [s8 EXCEPT !.signals = @ - 1]
        /\ s1'.run = s1.run /\ s1'.mq = s1.mq
    BY <1>1, <1>8 DEF Lifecycle!ProxySignal
  <2>2. DOMAIN s8' = DOMAIN s8 /\ s8'.proxy = s8.proxy
    BY <1>2, <2>1
  <2> QED BY <1>2, <2>1, <2>2 DEF LifecycleBounds
<1>9. CASE Lifecycle!CacheOpen
  <2>1. QueuesFit(s4') /\ Len(s4') \in Nat /\ Len(s4) <= Len(s4') /\ s3' \in 0 .. Len(s4')
    BY <1>9, OpenFits DEF Lifecycle!CacheOpen
  <2>2. /\ s8' = [s8 EXCEPT !.cache = @ - 1]
        /\ s2' = [pc |-> "size", mq |-> s3', size |-> 0]
        /\ s7' \in BOOLEAN /\ s1' = s1 /\ s6' = s6
    BY <1>9 DEF Lifecycle!CacheOpen, Lifecycle!NoSize
  <2>3. DOMAIN s8' = DOMAIN s8 /\ s8'.proxy = s8.proxy
    BY <1>2, <2>2
  <2>4. s2'.mq \in 0 .. Len(s4') /\ s1'.mq \in 0 .. Len(s4') /\ s2'.size \in -1 .. MaxStarts
    BY <1>2, <1>3, <2>1, <2>2
  <2> QED BY <1>2, <2>1, <2>2, <2>3, <2>4 DEF LifecycleBounds
<1>10. CASE Lifecycle!CacheReadSize
  <2>1. /\ s2.pc = "size" /\ s4[s2.mq] # << >>
        /\ s4' = [s4 EXCEPT ![s2.mq] = Tail(@)] /\ UNCHANGED <<s6, s7, s8>>
        /\ s2'.mq = s2.mq
        /\ s2'.size = IF Head(s4[s2.mq]).kind = "size" THEN Head(s4[s2.mq]).value ELSE -1
        /\ s1'.run = s1.run /\ s1'.mq = s1.mq /\ s1'.pc = s1.pc
    BY <1>1, <1>10 DEF Lifecycle!CacheReadSize, Lifecycle!Garbage
  <2>2. s2.mq \in 1 .. Len(s4)
    BY <1>1, <2>1 DEF Lifecycle!Down
  <2>3. QueuesFit(s4') /\ Head(s4[s2.mq]) \in Lifecycle!Messages
    BY <1>1, <1>2, <2>1, <2>2, TailFits
  <2>4. s2'.size \in -1 .. MaxStarts
    BY <1>3, <2>1, <2>3, SizeMessageIs
  <2>5. Len(s4') = Len(s4)
    BY <1>1, <2>1
  <2> QED BY <1>2, <2>1, <2>3, <2>4, <2>5 DEF LifecycleBounds
<1>11. CASE Lifecycle!CacheSemaphore
  <2>1. /\ UNCHANGED <<s1, s4, s7, s8>> /\ s6' = TRUE /\ s2'.mq = s2.mq /\ s2'.size = s2.size
    BY <1>1, <1>11 DEF Lifecycle!CacheSemaphore
  <2> QED BY <1>2, <2>1 DEF LifecycleBounds
<1>12. CASE Lifecycle!Serve
  <2>1. /\ s2.pc = "serve" /\ s4[s2.mq] # << >>
        /\ s4' = [s4 EXCEPT ![s2.mq] = Tail(@)] /\ UNCHANGED <<s6, s7, s8>>
        /\ s2'.mq = s2.mq /\ s2'.size = s2.size
        /\ s1'.run = s1.run /\ s1'.mq = s1.mq /\ s1'.pc = s1.pc
    BY <1>1, <1>12 DEF Lifecycle!Serve
  <2>2. s2.mq \in 1 .. Len(s4)
    BY <1>1, <2>1 DEF Lifecycle!Down
  <2>3. QueuesFit(s4')
    BY <1>1, <1>2, <2>1, <2>2, TailFits
  <2>4. Len(s4') = Len(s4)
    BY <1>1, <2>1
  <2> QED BY <1>2, <2>1, <2>3, <2>4 DEF LifecycleBounds
<1>13. CASE Lifecycle!CacheSignal
  <2>1. /\ UNCHANGED <<s1, s4>> /\ s7' \in BOOLEAN /\ s6' = FALSE
        /\ s8' = [s8 EXCEPT !.signals = @ - 1]
        /\ s2'.size = s2.size /\ s2'.mq = 0
    BY <1>1, <1>13 DEF Lifecycle!CacheSignal, Lifecycle!NoQueue
  <2>2. DOMAIN s8' = DOMAIN s8 /\ s8'.proxy = s8.proxy
    BY <1>2, <2>1
  <2>3. s2'.mq \in 0 .. Len(s4') /\ s2'.size \in -1 .. MaxStarts /\ Len(s4') = Len(s4)
    BY <1>2, <1>3, <2>1
  <2>4. QueuesFit(s4') /\ s1' = s1
    BY <1>2, <2>1
  <2> QED BY <1>2, <2>1, <2>2, <2>3, <2>4 DEF LifecycleBounds
<1> QED
  BY <1>4, <1>5, <1>6, <1>7, <1>8, <1>9, <1>10, <1>11, <1>12, <1>13
  DEF Lifecycle!Next, Lifecycle!ProxyStep, Lifecycle!CacheStep

LEMMA LifecycleTypes ==
    ASSUME Lifecycle!Labels, LifecycleBounds
    PROVE  Lifecycle!TypeOK
<1>1. /\ s1.run \in 0 .. MaxStarts
  <2>1. s1.run \in Nat /\ MaxStarts \in Nat
    BY LifecycleAssumption DEF Lifecycle!Labels
  <2> QED BY <2>1 DEF LifecycleBounds
<1> QED BY <1>1 DEF Lifecycle!Labels, LifecycleBounds, QueuesFit, Lifecycle!TypeOK,
           Lifecycle!Garbage

LEMMA LifecycleBoundsInit == Lifecycle!Init => LifecycleBounds
<1> SUFFICES ASSUME Lifecycle!Init PROVE LifecycleBounds
  OBVIOUS
<1>1. /\ s1.pc = "down" /\ s1.mq = 0 /\ s1.run = 0 /\ s2.mq = 0 /\ s2.size = 0
      /\ s4 = << >>
  BY DEF Lifecycle!Init, Lifecycle!NoQueue, Lifecycle!NoSize
<1>2. DOMAIN s8 = {"proxy", "cache", "signals", "requests"} /\ s8.proxy = MaxStarts
  BY DEF Lifecycle!Init
<1>3. s8.proxy \in Nat /\ s8.proxy + s1.run = MaxStarts
  BY <1>1, <1>2, LifecycleAssumption
<1>4. Lifecycle!Down(s1.pc)
  BY <1>1 DEF Lifecycle!Down
<1>5. Len(s4) = 0 /\ QueuesFit(s4)
  BY <1>1 DEF QueuesFit
<1>6. s1.mq \in 0 .. Len(s4) /\ s2.mq \in 0 .. Len(s4) /\ s2.size \in -1 .. MaxStarts
  BY <1>1, <1>5, LifecycleAssumption
<1>7. s6 \in BOOLEAN
  BY DEF Lifecycle!Init
<1>8. s7 \in BOOLEAN
  BY DEF Lifecycle!Init
<1> QED BY <1>2, <1>3, <1>4, <1>5, <1>6, <1>7, <1>8 DEF LifecycleBounds
-----------------------------------------------------------------------------
(* The echo server: its label, the clients left, the length of its answer.   *)

EchoBounds ==
    /\ s2 \in {"socket", "accept", "receive", "send", "exit"}
    /\ s3 \in 0 .. MaxPending /\ (s3 = 0 => s2 = "exit")
    /\ s5 = << >> \/ Len(s5) = EchoSize

LEMMA EchoBoundsStep ==
    ASSUME EchoPair!EchoInv, EchoBounds, EchoPair!Next
    PROVE  EchoBounds'
<1>1. s1 \in Seq(EchoPair!Outcomes) /\ Len(s6) = EchoSize /\ MaxPending \in Nat \ {0}
  BY EchoAssumption DEF EchoPair!EchoInv
<1>2. CASE EchoPair!TryAddress
  <2>1. s1 # << >> => Head(s1) \in {"no socket", "in use", "no option", "free"}
    <3>1. s1 # << >> => Head(s1) \in EchoPair!Outcomes
      BY <1>1
    <3> QED BY <3>1 DEF EchoPair!Outcomes
  <2>2. s2 = "socket" /\ s2' \in {"socket", "accept", "exit"} /\ s3' = s3 /\ s5' = s5
    BY <1>2, <2>1 DEF EchoPair!TryAddress
  <2> QED BY <2>2 DEF EchoBounds
<1>3. CASE EchoPair!ClientSends \/ EchoPair!ClientStops \/ EchoPair!ClientReceives
  BY <1>3 DEF EchoBounds, EchoPair!ClientSends, EchoPair!ClientStops, EchoPair!ClientReceives
<1>4. CASE EchoPair!Accept \/ EchoPair!ServerReceives
  <2>1. s2 \in {"accept", "receive"} /\ s2' \in {"receive", "send", "exit"} /\ UNCHANGED <<s3, s5>>
    BY <1>4 DEF EchoPair!Accept, EchoPair!ServerReceives, EchoPair!Receives
  <2> QED BY <2>1 DEF EchoBounds
<1>5. CASE EchoPair!ServerSends
  <2>1. /\ s2 = "send" /\ s5' \in {s6, << >>} /\ s3' = s3 - 1
        /\ s2' = IF s3' = 0 THEN "exit" ELSE "accept"
    BY <1>5 DEF EchoPair!ServerSends
  <2> QED BY <1>1, <2>1 DEF EchoBounds
<1> QED BY <1>2, <1>3, <1>4, <1>5 DEF EchoPair!Next

LEMMA EchoBoundsInit == EchoPair!Init => EchoBounds
BY EchoAssumption DEF EchoPair!Init, EchoBounds

LEMMA EchoTypes ==
    ASSUME EchoPair!EchoInv, EchoBounds
    PROVE  EchoPair!TypeOK
<1>1. /\ s4 \in [pc : {"socket", "connected", "accepted", "answered"},
                  message : EchoMessages \cup {<< >>}, open : BOOLEAN]
      /\ Len(s6) = EchoSize /\ s7 \in 0 .. EchoSize /\ s8 \in s7 .. EchoSize
  BY DEF EchoPair!EchoInv
<1>2. s8 \in 0 .. EchoSize
  BY <1>1, EchoAssumption
<1> QED BY <1>1, <1>2 DEF EchoBounds, EchoPair!TypeOK
-----------------------------------------------------------------------------
(* The download client: its counters, by where it is.                        *)

DownloadBounds ==
    /\ s5 \in {"load", "request", "open", "perform", "exit", "crash"}
    /\ s2 \in {<< >>, s1} /\ s3 \in 0 .. NRequests
    /\ s5 # "crash" => s4 = s3
    /\ s5 = "crash" => s4 = s3 - 1 /\ Len(s8) = s4
    /\ s5 \in {"load", "request"} => Len(s8) = s4
    /\ s5 \in {"open", "perform"} => Len(s8) = s4 - 1
    /\ s5 = "exit" => Len(s8) \in {s4, s4 - 1}

LEMMA DownloadBoundsStep ==
    ASSUME Download!DownloadInv, DownloadBounds, Download!Next
    PROVE  DownloadBounds'
<1>1. NRequests \in Nat
  BY WorkloadAssumption
<1>2. s8 \in Seq([path : Download!Paths, local : Download!Locals,
                  got : {"failed", "some", "whole"}])
  BY DEF Download!DownloadInv, Download!Numbered
<1>3. Len(s8) \in Nat
  BY <1>2
<1>4. CASE Download!LoadWorkload
  BY <1>4 DEF DownloadBounds, Download!LoadWorkload
<1>5. CASE Download!Request
  <2>1. /\ s5 = "request" /\ Len(s8) < NRequests /\ s3' = s3 + 1
        /\ UNCHANGED <<s1, s2, s8>>
        /\ \/ s5' = "crash" /\ s4' = s4
           \/ s5' = "open" /\ s4' = s4 + 1
    BY <1>5 DEF Download!Request
  <2> QED BY <1>1, <1>3, <2>1 DEF DownloadBounds
<1>6. CASE Download!OpenFile
  <2>1. s5 = "open" /\ s5' \in {"exit", "perform"} /\ UNCHANGED <<s1, s2, s3, s4, s8>>
    BY <1>6 DEF Download!OpenFile
  <2> QED BY <2>1 DEF DownloadBounds
<1>7. CASE Download!Perform
  <2>1. s5 = "perform" /\ s5' = "request" /\ UNCHANGED <<s1, s2, s3, s4>>
    BY <1>7 DEF Download!Perform
  <2>2. PICK r : s8' = Append(s8, r)
    BY <1>7 DEF Download!Perform
  <2>3. Len(s8') = Len(s8) + 1
    BY <1>2, <2>2
  <2> QED BY <1>3, <2>1, <2>3 DEF DownloadBounds
<1> QED BY <1>4, <1>5, <1>6, <1>7 DEF Download!Next

LEMMA DownloadBoundsInit == Download!Init => DownloadBounds
BY WorkloadAssumption DEF Download!Init, DownloadBounds

LEMMA DownloadTypes ==
    ASSUME Download!DownloadInv, DownloadBounds
    PROVE  Download!TypeOK
<1>1. s1 \in Workloads \cup {NoList}
  BY DEF Download!DownloadInv
<1>2. s5 = "perform" => Download!IsFile(s6)
  BY DEF Download!DownloadInv, Download!IsFile, Download!Empty, Download!Directory
<1>3. s4 \in {s3, s3 - 1} /\ Len(s8) \in {s3, s3 - 1}
  BY DEF DownloadBounds
<1> QED BY <1>1, <1>2, <1>3 DEF DownloadBounds, Download!TypeOK
-----------------------------------------------------------------------------
(* Those whose invariant has the types.                                      *)

LEMMA TransferTypes ==
    ASSUME Part1!TransferInv
    PROVE  Part1!TypeOK
<1>1. Part1!Records /\ Part1!Served
  BY DEF Part1!TransferInv
<1>2. s3 = Part1!NoCall \/ s3.handler \in Handlers
  BY <1>1 DEF Part1!Served
<1>3. \A h \in Handlers : s4[h].stream \in Seq(Part1!Blocks) /\ s4[h].pos >= 0
  BY <1>1 DEF Part1!Records, Part1!HandlerStates
<1> QED
  BY <1>1, <1>2, <1>3 DEF Part1!Records, Part1!CallStates, Part1!StatusStates, Part1!Ops,
     Part1!TypeOK
-----------------------------------------------------------------------------
(* The getfile server: what it holds of a request is parts of one.           *)

RequestBounds ==
    /\ s1 \in Seq(Getfile!Outcomes)
    /\ s2 \in {"unset", "failed", "unbound", "bound"}
    /\ s3 \in {"socket", "accept", "receive", "parse", "stuck"}
    /\ s4 \in Requests \cup {<< >>}
    /\ s5 \in Seq(Getfile!Parts) /\ s6 \in Seq(Getfile!Parts) /\ s7.path \in Seq(Getfile!Parts)
    /\ s8 \in 0 .. MaxClients

\* What sscanf reads is parts of the request.
LEMMA PathType ==
    ASSUME NEW S, NEW h \in Seq(S), NEW word \in Getfile!Scanned(h)
    PROVE  word \in Seq(S)
<1> DEFINE at == 2 .. Len(h)
<1>1. PICK w \in at \X at : word = SubSeq(h, w[1], w[2])
  BY DEF Getfile!Scanned
<1>2. PICK a \in at, b \in at : word = SubSeq(h, a, b)
  BY <1>1
<1> QED BY <1>2

\* A step keeps them.
LEMMA RequestBoundsStep ==
    ASSUME RequestBounds, Getfile!Next
    PROVE  RequestBounds'
<1>1. PICK S : S = Getfile!Parts
  OBVIOUS
<1>2. MaxClients \in Nat /\ \A r \in Requests : r \in Seq(S)
  BY <1>1, RequestAssumption
<1>3. s5 \in Seq(S) /\ s6 \in Seq(S)
  BY <1>1 DEF RequestBounds
<1>4. CASE Getfile!TryAddress
  <2>1. UNCHANGED <<s4, s5, s6, s7, s8>> /\ s3' \in {"accept", "socket"}
    BY <1>4 DEF Getfile!TryAddress
  <2>2. PICK a, O : a = s1 /\ O = Getfile!Outcomes
    OBVIOUS
  <2>3. a \in Seq(O)
    BY <2>2 DEF RequestBounds
  <2>4. a # << >> => Head(a) \in O /\ Tail(a) \in Seq(O)
    BY <2>3
  <2>5. s1' = a \/ (a # << >> /\ s1' = Tail(a))
    BY <1>4, <2>2 DEF Getfile!TryAddress
  <2>6. s1' \in Seq(O)
    BY <2>3, <2>4, <2>5
  <2>7. s1 # << >> => Head(s1) \in {"no socket", "in use", "free"}
    BY <2>2, <2>4 DEF Getfile!Outcomes
  <2>8. s2' \in {"unset", "failed", "unbound", "bound"}
    BY <1>4, <2>7 DEF Getfile!TryAddress, RequestBounds
  <2> QED BY <2>1, <2>2, <2>6, <2>8 DEF RequestBounds
<1>5. CASE Getfile!Accept
  <2>1. /\ s8 < MaxClients /\ s8' = s8 + 1 /\ s4' \in Requests /\ s5' = s4' /\ s6' = << >>
        /\ s7' = [to |-> "nobody", path |-> << >>] /\ s3' = "receive"
        /\ s2' = s2 /\ s1' = s1
    BY <1>5 DEF Getfile!Accept, Getfile!NoAnswer
  <2>2. s5' \in Seq(S) /\ s6' \in Seq(S) /\ s7'.path \in Seq(S)
    BY <1>2, <2>1
  <2> QED BY <1>1, <1>2, <2>1, <2>2 DEF RequestBounds
<1>6. CASE Getfile!AcceptFails
  <2>1. /\ s4' = << >> /\ s5' = << >> /\ s6' = << >> /\ s3' = "stuck" /\ UNCHANGED <<s1, s2, s8>>
        /\ s7' = [to |-> "nobody", path |-> << >>]
    BY <1>6 DEF Getfile!AcceptFails, Getfile!NoAnswer
  <2> QED BY <2>1 DEF RequestBounds
<1>7. CASE Getfile!Receive
  <2>1. PICK n \in 1 .. Len(s5) : /\ s6' = s6 \o SubSeq(s5, 1, n)
                                  /\ s5' = SubSeq(s5, n + 1, Len(s5))
    BY <1>7 DEF Getfile!Receive
  <2>2. UNCHANGED <<s1, s2, s4, s7, s8>> /\ s3' \in {"parse", "receive"}
    BY <1>7 DEF Getfile!Receive
  <2>3. s5' \in Seq(S) /\ s6' \in Seq(S)
    <3>1. PICK x, y : x = s5 /\ y = s6
      OBVIOUS
    <3>2. SubSeq(x, 1, n) \in Seq(S) /\ SubSeq(x, n + 1, Len(x)) \in Seq(S)
      BY <1>3, <3>1
    <3>3. y \o SubSeq(x, 1, n) \in Seq(S)
      BY <1>3, <3>1, <3>2
    <3> QED BY <2>1, <3>1, <3>2, <3>3
  <2> QED BY <1>1, <2>2, <2>3 DEF RequestBounds
<1>8. CASE Getfile!ReceiveNothing
  BY <1>8 DEF RequestBounds, Getfile!ReceiveNothing
<1>9. CASE Getfile!Parse
  <2>1. /\ UNCHANGED <<s1, s2, s4, s5, s6, s8>> /\ s3' = "accept"
        /\ s7'.path \in Getfile!Scanned(s6) \cup {<< >>}
    BY <1>9 DEF Getfile!Parse, Getfile!Call, Getfile!Invalid
  <2>2. << >> \in Seq(S) /\ \A word \in Getfile!Scanned(s6) : word \in Seq(S)
    BY <1>3, PathType
  <2>3. s7'.path \in Seq(S)
    BY <2>1, <2>2
  <2>4. s5' \in Seq(S) /\ s6' \in Seq(S)
    BY <1>3, <2>1
  <2>5. /\ s1' \in Seq(Getfile!Outcomes) /\ s2' \in {"unset", "failed", "unbound", "bound"}
        /\ s3' \in {"socket", "accept", "receive", "parse", "stuck"}
        /\ s4' \in Requests \cup {<< >>} /\ s8' \in 0 .. MaxClients
    BY <2>1 DEF RequestBounds
  <2> QED BY <1>1, <2>3, <2>4, <2>5 DEF RequestBounds
<1> QED BY <1>4, <1>5, <1>6, <1>7, <1>8, <1>9 DEF Getfile!Next

LEMMA RequestBoundsInit == Getfile!Init => RequestBounds
BY RequestAssumption DEF Getfile!Init, Getfile!NoAnswer, RequestBounds

LEMMA RequestTypes == RequestBounds => Getfile!TypeOK
BY DEF RequestBounds, Getfile!TypeOK
-----------------------------------------------------------------------------
(* The handlers without a cache: what is in memory and what is sent is part  *)
(* of the page or file, whatever became of the sends.                        *)

DirectBounds ==
    /\ s3 \in Seq(1 .. Len(s1.bytes))
    /\ s4.status \in {"none", "OK", "FILE_NOT_FOUND"} /\ s4.length \in Nat
    /\ s5 \in Seq(Nat)
    /\ s6.rounds <= IF s1.kind = "curl" THEN MaxSends ELSE s6.bytes
    /\ s7 \in Int /\ s7 >= -2 /\ s8 \in BOOLEAN
    /\ s2 = "write" => Len(s3) >= 1

\* A beginning of the bytes, or a piece of them, has only bytes of them.
LEMMA PieceType ==
    ASSUME NEW n \in Nat, NEW x \in Seq(Int), \A i \in 1 .. Len(x) : x[i] \in 1 .. n
    PROVE  x \in Seq(1 .. n)
<1>1. Len(x) \in Nat /\ x = [i \in 1 .. Len(x) |-> x[i]]
  OBVIOUS
<1>2. x \in [1 .. Len(x) -> 1 .. n]
  BY <1>1
<1> QED BY <1>1, <1>2

LEMMA BytesAreNumbers ==
    ASSUME NEW n \in Nat, NEW x \in Seq(1 .. n)
    PROVE  x \in Seq(Nat) /\ \A i \in 1 .. Len(x) : x[i] \in Nat
<1>1. 1 .. n \subseteq Nat
  OBVIOUS
<1>2. x \in Seq(Nat)
  BY <1>1, SequenceWidens
<1> QED BY <1>2, ElementIn

LEMMA CurlStartBounds ==
    ASSUME Direct!Fetched, DirectBounds, Direct!CurlStart
    PROVE  DirectBounds'
<1>1. UNCHANGED <<s1, s3, s4, s5, s6, s8>> /\ s2' # "write" /\ (s7' = s7 \/ s7' = -1)
  <2>1. s1.kind = "curl"
    BY DEF Direct!CurlStart
  <2>2. s1.outcome \in {"ok", "no url", "no handle", "http error", "other error"}
    BY <2>1, SourceIs
  <2> QED BY <2>2 DEF Direct!CurlStart, Direct!Return, Direct!Failure
<1> QED BY <1>1 DEF DirectBounds

LEMMA WriterBounds ==
    ASSUME Direct!Fetched, DirectBounds, Direct!Writer
    PROVE  DirectBounds'
<1>1. UNCHANGED <<s1, s4, s5, s6, s7, s8>> /\ s2' # "write"
  BY DEF Direct!Writer
<1>2. PICK n \in Nat : s1.bytes = Numbers(n) /\ Len(s1.bytes) = n
  BY PageIs
<1>3. PICK c : c = s3
  OBVIOUS
<1>4. c \in Seq(1 .. n) /\ Len(c) \in Nat
  BY <1>2, <1>3 DEF DirectBounds
<1>5. s3' \in Seq(1 .. n)
  <2>1. CASE s3' = s3
    BY <1>3, <1>4, <2>1
  <2>2. ASSUME NEW m \in 1 .. n - Len(c), s3' = SubSeq(Numbers(n), 1, Len(c) + m)
        PROVE  s3' \in Seq(1 .. n)
    <3>1. PICK b : b = Len(c) + m
      OBVIOUS
    <3>2. PICK a : a = 0
      OBVIOUS
    <3>3. a \in Nat /\ b \in Nat /\ a <= b /\ b <= n /\ b - a = b /\ a + 1 = 1
      BY <1>4, <3>1, <3>2
    <3>4. PICK q : q = SubSeq(Numbers(n), a + 1, b)
      OBVIOUS
    <3>5. q \in Seq(Int) /\ Len(q) = b - a /\ \A i \in 1 .. b - a : q[i] = a + i
      <4>1. /\ SubSeq(Numbers(n), a + 1, b) \in Seq(Int)
            /\ Len(SubSeq(Numbers(n), a + 1, b)) = b - a
            /\ \A i \in 1 .. b - a : SubSeq(Numbers(n), a + 1, b)[i] = a + i
        BY <3>3, PieceOfNumbers
      <4> QED BY <3>4, <4>1
    <3>6. \A i \in 1 .. Len(q) : q[i] \in 1 .. n
      BY <3>2, <3>3, <3>5
    <3>7. q \in Seq(1 .. n)
      BY <3>5, <3>6, PieceType
    <3> QED BY <2>2, <3>1, <3>3, <3>4, <3>7
  <2> QED BY <1>2, <1>3, <2>1, <2>2 DEF Direct!Writer
<1> QED BY <1>1, <1>2, <1>5 DEF DirectBounds

LEMMA CurlRestBounds ==
    ASSUME Direct!Fetched, DirectBounds, Direct!CurlEnds \/ Direct!CurlAnswer
    PROVE  DirectBounds'
<1>1. CASE Direct!CurlEnds
  <2>1. UNCHANGED <<s1, s3, s4, s5, s6, s7, s8>> /\ s2' = s1.outcome /\ s2 = "perform"
    BY <1>1 DEF Direct!CurlEnds
  <2>2. s1.kind = "curl"
    BY <2>1, SourceIs DEF Direct!Fetched
  <2>3. s2' # "write"
    BY <2>1, <2>2, SourceIs
  <2> QED BY <2>1, <2>3 DEF DirectBounds
<1>2. CASE Direct!CurlAnswer
  <2>1. UNCHANGED <<s1, s3, s5, s6, s8>> /\ s2' # "write" /\ (s7' = s7 \/ s7' \in {0, 1, -1})
    BY <1>2 DEF Direct!CurlAnswer, Direct!Return, Direct!Failure, Direct!ExitFailure
  <2>2. Len(s3) \in Nat
    BY DEF DirectBounds
  <2>3. s4' = s4 \/ s4' = Direct!Header("FILE_NOT_FOUND", 0) \/ s4' = Direct!Header("OK", Len(s3))
    BY <1>2 DEF Direct!CurlAnswer
  <2>4. s4'.status \in {"none", "OK", "FILE_NOT_FOUND"} /\ s4'.length \in Nat
    BY <2>2, <2>3 DEF DirectBounds, Direct!Header
  <2> QED BY <2>1, <2>4 DEF DirectBounds
<1> QED BY <1>1, <1>2

LEMMA CurlSendBounds ==
    ASSUME Direct!Fetched, DirectBounds, Direct!CurlSend
    PROVE  DirectBounds'
<1>1. UNCHANGED <<s1, s3, s4>> /\ s1.kind = "curl" /\ s2' \in {"send", "return"}
  BY DEF Direct!CurlSend, Direct!Return
<1>2. PICK n \in Nat : Len(s1.bytes) = n
  BY PageIs
<1>3. PICK c, y, r, b : c = s3 /\ y = s5 /\ r = s6.rounds /\ b = s6.bytes
  OBVIOUS
<1>4. c \in Seq(1 .. n) /\ y \in Seq(Nat) /\ r \in Nat /\ b \in Nat
  BY <1>2, <1>3, SourceIs DEF DirectBounds
<1>5. CASE s2' = "return" /\ s7' = s6.bytes /\ UNCHANGED <<s5, s6, s8>>
  <2>1. s7' \in Int /\ s7' >= -2
    BY <1>3, <1>4, <1>5
  <2> QED BY <1>1, <1>5, <2>1 DEF DirectBounds
<1>6. ASSUME s7' = s7, s6.rounds < MaxSends, s6'.rounds = s6.rounds + 1, s8' \in BOOLEAN,
             s5' \in Seq(Nat)
      PROVE  DirectBounds'
  <2>1. r + 1 <= MaxSends
    BY <1>3, <1>4, <1>6, DirectAssumption
  <2>2. s6'.rounds <= MaxSends
    BY <1>3, <1>6, <2>1
  <2> QED BY <1>1, <1>6, <2>2 DEF DirectBounds
<1>7. CASE /\ s7' = s7 /\ s6.rounds < MaxSends /\ s6' = [s6 EXCEPT !.rounds = @ + 1]
           /\ s8' = TRUE /\ s5' = s5
  <2>1. s6 \in [rounds : Nat, bytes : Nat]
    BY DEF Direct!Fetched
  <2>2. s6'.rounds = s6.rounds + 1
    BY <1>7, <2>1
  <2> QED BY <1>3, <1>4, <1>6, <1>7, <2>2
<1>8. ASSUME s7' = s7, s6.rounds < MaxSends, NEW m \in 1 .. Direct!PieceLength,
             s5' = s5 \o SubSeq(Direct!Piece, 1, m),
             s6' = [rounds |-> s6.rounds + 1, bytes |-> s6.bytes + m],
             s8' = (s8 \/ m < Direct!PieceLength)
      PROVE  DirectBounds'
  <2>1. PICK q, k, a : q = Direct!PieceLength /\ k = Len(c) /\ a = r * BufSize
    OBVIOUS
  <2>2. BufSize \in Nat \ {0} /\ k \in Nat /\ a \in Nat
    BY <1>4, <2>1, DirectAssumption
  <2>3. q = IF k - a \in 0 .. BufSize - 1 THEN k - a ELSE BufSize
    BY <1>3, <2>1 DEF Direct!PieceLength
  <2>4. q \in Nat /\ m \in 1 .. q
    BY <1>8, <2>1, <2>2, <2>3
  <2>5. PICK w : w = Direct!Piece
    OBVIOUS
  <2>6. w = [i \in 1 .. q |-> IF a + i <= k THEN c[a + i] ELSE Direct!Beyond]
    BY <1>3, <2>1, <2>5 DEF Direct!Piece
  <2>7. \A i \in 1 .. q : w[i] \in Nat
    <3> SUFFICES ASSUME NEW i \in 1 .. q PROVE w[i] \in Nat
      OBVIOUS
    <3>1. CASE a + i <= k
      <4>1. a + i \in 1 .. k
        BY <2>2, <2>4, <3>1
      <4>2. c[a + i] \in Nat
        BY <1>4, <2>1, <4>1, BytesAreNumbers
      <4> QED BY <2>6, <3>1, <4>2
    <3>2. CASE ~(a + i <= k)
      BY <2>6, <3>2 DEF Direct!Beyond
    <3> QED BY <3>1, <3>2
  <2>8. w \in Seq(Nat) /\ Len(w) = q
    <3>1. w \in [1 .. q -> Nat]
      BY <2>6, <2>7
    <3> QED BY <2>4, <3>1
  <2>9. PICK z : z = SubSeq(w, 1, m)
    OBVIOUS
  <2>10. z \in Seq(Nat)
    BY <2>4, <2>8, <2>9
  <2>11. y \o z \in Seq(Nat)
    BY <1>4, <2>10
  <2>12. s5' \in Seq(Nat)
    BY <1>3, <1>8, <2>5, <2>9, <2>11
  <2>13. s8' \in BOOLEAN
    <3>1. s8 \in BOOLEAN
      BY DEF DirectBounds
    <3> QED BY <1>8, <3>1
  <2>14. s6'.rounds = s6.rounds + 1
    BY <1>8
  <2> QED BY <1>6, <1>8, <2>12, <2>13, <2>14
<1> QED BY <1>5, <1>7, <1>8 DEF Direct!CurlSend, Direct!Return

LEMMA FileReadBounds ==
    ASSUME Direct!Fetched, DirectBounds, Direct!FileRead
    PROVE  DirectBounds'
<1>1. UNCHANGED <<s1, s4, s5, s6, s8>>
  BY DEF Direct!FileRead
<1>2. PICK n \in Nat : s1.bytes = Numbers(n) /\ Len(s1.bytes) = n
  BY PageIs
<1>3. s6.bytes \in Nat
  BY SourceIs
<1>4. CASE s2' = "return" /\ s3' = s3 /\ s7' \in {-1, s6.bytes}
  <2>1. s7' \in Int /\ s7' >= -2
    BY <1>3, <1>4
  <2> QED BY <1>1, <1>4, <2>1 DEF DirectBounds
<1>5. ASSUME s6.bytes < Len(s1.bytes), s2' = "write", UNCHANGED s7,
             s3' = SubSeq(s1.bytes, s6.bytes + 1,
                          IF s6.bytes + BufSize < Len(s1.bytes) THEN s6.bytes + BufSize
                          ELSE Len(s1.bytes))
      PROVE  DirectBounds'
  <2>1. PICK b, e, c :
           /\ b = s6.bytes /\ c = s3'
           /\ e = IF s6.bytes + BufSize < Len(s1.bytes) THEN s6.bytes + BufSize
                  ELSE Len(s1.bytes)
    OBVIOUS
  <2>2. BufSize \in Nat \ {0}
    BY DirectAssumption
  <2>3. b \in Nat /\ e \in Nat /\ b < e /\ b <= e /\ e <= n
    BY <1>2, <1>3, <1>5, <2>1, <2>2
  <2>4. c = SubSeq(Numbers(n), b + 1, e)
    BY <1>2, <1>5, <2>1
  <2>5. c \in Seq(Int) /\ Len(c) = e - b /\ \A i \in 1 .. e - b : c[i] = b + i
    <3>1. /\ SubSeq(Numbers(n), b + 1, e) \in Seq(Int)
          /\ Len(SubSeq(Numbers(n), b + 1, e)) = e - b
          /\ \A i \in 1 .. e - b : SubSeq(Numbers(n), b + 1, e)[i] = b + i
      BY <2>3, PieceOfNumbers
    <3> QED BY <2>4, <3>1
  <2>6. \A i \in 1 .. Len(c) : c[i] \in 1 .. n
    BY <2>3, <2>5
  <2>7. c \in Seq(1 .. n) /\ Len(c) >= 1
    BY <2>3, <2>5, <2>6, PieceType
  <2> QED BY <1>1, <1>2, <1>5, <2>1, <2>7 DEF DirectBounds
<1> QED BY <1>4, <1>5 DEF Direct!FileRead, Direct!Return, Direct!Failure

LEMMA FileWriteBounds ==
    ASSUME Direct!Fetched, DirectBounds, Direct!FileWrite
    PROVE  DirectBounds'
<1>1. s2 = "write" /\ UNCHANGED <<s1, s3, s4>> /\ s2' # "write"
  BY DEF Direct!FileWrite, Direct!Return
<1>2. s1.kind = "file"
  BY <1>1, SourceIs DEF Direct!Fetched
<1>3. PICK n \in Nat : Len(s1.bytes) = n
  BY PageIs
<1>4. PICK c, y, r, b : c = s3 /\ y = s5 /\ r = s6.rounds /\ b = s6.bytes
  OBVIOUS
<1>5. /\ c \in Seq(1 .. n) /\ Len(c) >= 1 /\ Len(c) \in Nat /\ y \in Seq(Nat)
      /\ r \in Nat /\ b \in Nat /\ r <= b
  BY <1>1, <1>2, <1>3, <1>4, SourceIs DEF DirectBounds
<1>6. c \in Seq(Nat)
  BY <1>5, BytesAreNumbers
<1>7. CASE /\ s5' = s5 \o s3 /\ UNCHANGED <<s7, s8>>
           /\ s6' = [rounds |-> s6.rounds + 1, bytes |-> s6.bytes + Len(s3)]
  <2>1. y \o c \in Seq(Nat)
    BY <1>5, <1>6
  <2>2. r + 1 <= b + Len(c)
    BY <1>5
  <2>3. s6'.rounds <= s6'.bytes /\ s5' \in Seq(Nat)
    BY <1>4, <1>7, <2>1, <2>2
  <2> QED BY <1>1, <1>2, <1>7, <2>3 DEF DirectBounds
<1>8. ASSUME NEW m \in 0 .. Len(s3) - 1, s5' = s5 \o SubSeq(s3, 1, m),
             s8' = TRUE, s7' = -1, s6' = s6
      PROVE  DirectBounds'
  <2>1. PICK z : z = SubSeq(c, 1, m)
    OBVIOUS
  <2>2. z \in Seq(Nat)
    BY <1>4, <1>5, <1>6, <1>8, <2>1
  <2>3. y \o z \in Seq(Nat)
    BY <1>5, <2>2
  <2>4. s5' \in Seq(Nat) /\ -1 \in Int /\ -1 >= -2
    BY <1>4, <1>8, <2>1, <2>3
  <2> QED BY <1>1, <1>2, <1>8, <2>4 DEF DirectBounds
<1> QED BY <1>7, <1>8 DEF Direct!FileWrite, Direct!Return, Direct!Failure

LEMMA DirectBoundsStep ==
    ASSUME Direct!DirectInv, DirectBounds, Direct!Next
    PROVE  DirectBounds'
<1>1. Direct!Fetched
  BY DEF Direct!DirectInv
<1>2. CASE Direct!FileOpen
  <2>1. UNCHANGED <<s1, s3, s5, s6, s8>> /\ s2' # "write" /\ (s7' = s7 \/ s7' \in {0, -1})
    BY <1>2 DEF Direct!FileOpen, Direct!Return, Direct!Failure
  <2>2. PICK n \in Nat : Len(s1.bytes) = n
    BY <1>1, PageIs
  <2>3. s4' = s4 \/ s4' = Direct!Header("FILE_NOT_FOUND", 0) \/ s4' = Direct!Header("OK", n)
    BY <1>2, <2>2 DEF Direct!FileOpen
  <2>4. s4'.status \in {"none", "OK", "FILE_NOT_FOUND"} /\ s4'.length \in Nat
    BY <2>3 DEF DirectBounds, Direct!Header
  <2> QED BY <2>1, <2>4 DEF DirectBounds
<1> QED BY <1>1, <1>2, CurlStartBounds, WriterBounds, CurlRestBounds, CurlSendBounds,
           FileReadBounds, FileWriteBounds DEF Direct!Next

LEMMA DirectBoundsInit == Direct!Init => DirectBounds
<1> SUFFICES ASSUME Direct!Init PROVE DirectBounds
  OBVIOUS
<1>1. Direct!DirectInv
  BY DirectInit
<1>2. PICK n \in Nat : Len(s1.bytes) = n
  BY <1>1, PageIs DEF Direct!DirectInv
<1>3. s6.rounds = 0 /\ s6.bytes = 0 /\ s2 = "start" /\ s7 = -2 /\ s8 = FALSE
  BY DEF Direct!Init, Direct!NoResult
<1>4. s4.status = "none" /\ s4.length = 0
  BY DEF Direct!Init, Direct!NoHeader
<1>5. s3 \in Seq(1 .. Len(s1.bytes)) /\ s5 \in Seq(Nat)
  BY DEF Direct!Init
<1>6. s6.rounds <= IF s1.kind = "curl" THEN MaxSends ELSE s6.bytes
  BY <1>3, DirectAssumption
<1>7. s7 \in Int /\ s7 >= -2 /\ s8 \in BOOLEAN /\ s2 # "write"
  <2>1. s7 \in Int /\ s7 >= -2
    BY <1>3
  <2>2. s8 \in BOOLEAN
    BY <1>3
  <2>3. s2 # "write"
    BY <1>3
  <2> QED BY <2>1, <2>2, <2>3
<1>8. s4.status \in {"none", "OK", "FILE_NOT_FOUND"} /\ s4.length \in Nat
  BY <1>4
<1> QED BY <1>5, <1>6, <1>7, <1>8 DEF DirectBounds

LEMMA DirectTypes ==
    ASSUME Direct!DirectInv, DirectBounds
    PROVE  Direct!TypeOK
<1>1. Direct!Fetched
  BY DEF Direct!DirectInv
<1>2. s6.rounds \in Nat /\ s6.bytes \in Nat /\ s1.kind \in {"curl", "file"}
  BY <1>1, SourceIs
<1>3. s2 \in {"start", "perform", "ok", "http error", "other error", "send", "read",
              "write", "return"}
  BY <1>1, <1>2 DEF Direct!Fetched
<1>4. s6.rounds \in 0 .. (IF s1.kind = "curl" THEN MaxSends ELSE s6.bytes)
  BY <1>2, DirectAssumption DEF DirectBounds
<1>5. s1.outcome \in Direct!Outcomes[s1.kind]
  BY <1>1 DEF Direct!Fetched
<1> QED BY <1>2, <1>3, <1>4, <1>5 DEF DirectBounds, Direct!TypeOK, Direct!NoResult
-----------------------------------------------------------------------------
(* The file transfer: the stream is whole buffers as long as each recv takes *)
(* one, and positions stay in the text whatever recv takes.                  *)

TransferBytes == Transfer!Characters \cup {Transfer!Zero, Transfer!Unwritten}

WholeBuffers(n) == \E k \in Nat : n = k * LineSize

TransferBounds ==
    /\ s1 \in Texts /\ s2 \in 0 .. Len(s1)
    /\ s5 \in Seq(TransferBytes) /\ s6 \in Seq(TransferBytes) /\ Len(s6) = LineSize
    /\ s8 \in BOOLEAN
    /\ s8 => WholeBuffers(Len(s5))

LEMMA WholeBuffersRest ==
    ASSUME NEW n \in Nat, WholeBuffers(n)
    PROVE  n % LineSize = 0
<1>1. LineSize \in Nat \ {0}
  BY TextAssumption
<1>2. PICK k \in Nat : n = k * LineSize
  BY DEF WholeBuffers
<1>3. PICK l : l = LineSize
  OBVIOUS
<1>4. PICK q, r : q = n \div l /\ r = n % l
  OBVIOUS
<1>5. l \in Nat \ {0} /\ n = k * l
  BY <1>1, <1>2, <1>3
<1>6. q \in Int /\ r \in 0 .. l - 1 /\ n = l * q + r
  BY <1>4, <1>5
<1>7. PICK d \in Int : d = k - q
  BY <1>6
<1>8. l * d = r
  <2>1. l * d = l * k - l * q
    BY <1>5, <1>6, <1>7
  <2> QED BY <1>5, <1>6, <2>1
<1>9. d = 0
  <2>1. CASE d >= 1
    <3>1. l * d >= l
      BY <1>5, <2>1
    <3> QED BY <1>5, <1>6, <1>8, <3>1
  <2>2. CASE d <= -1
    <3>1. l * d <= -l
      BY <1>5, <2>2
    <3> QED BY <1>5, <1>6, <1>8, <3>1
  <2> QED BY <2>1, <2>2
<1> QED BY <1>3, <1>4, <1>5, <1>8, <1>9

LEMMA SendContentsBounds ==
    ASSUME TransferBounds, Transfer!SendContents
    PROVE  TransferBounds'
<1>1. UNCHANGED <<s1, s6, s8>> /\ s2 < Len(s1) /\ s2' = Transfer!LineEnd
  BY DEF Transfer!SendContents
<1>2. PICK t, a, e, x, S : /\ t = s1 /\ a = s2 /\ e = Transfer!LineEnd /\ x = s5
                           /\ S = TransferBytes
  OBVIOUS
<1>3. t \in Texts /\ a \in 0 .. Len(t) /\ a < Len(t) /\ x \in Seq(S)
  BY <1>1, <1>2 DEF TransferBounds
<1>4. LineSize \in Nat /\ t \in Seq(Transfer!Characters)
  BY <1>3, TextAssumption
<1>5. t \in Seq(S) /\ Len(t) \in Nat /\ Transfer!Zero \in S
  <2>1. Transfer!Characters \subseteq S /\ Transfer!Zero \in S
    BY <1>2 DEF TransferBytes
  <2> QED BY <1>4, <2>1, SequenceWidens
<1>6. e \in a + 1 .. Len(t) /\ e - a <= LineSize - 1
  BY <1>2, <1>3, LineEndIs
<1>7. PICK p, k, z : p = SubSeq(t, a + 1, e) /\ k = LineSize - (e - a) /\ z = s5'
  OBVIOUS
<1>8. p \in Seq(S) /\ Len(p) = e - a /\ k \in Nat
  BY <1>3, <1>4, <1>5, <1>6, <1>7
<1>9. z = Filled(x, p, k)
  BY <1>2, <1>7 DEF Transfer!SendContents, Filled
<1>10. z \in Seq(S) /\ Len(z) = Len(x) + LineSize
  <2>1. z \in Seq(S) /\ IsFilled(z, x, p, k)
    BY <1>3, <1>5, <1>8, <1>9, BufferFilled
  <2>2. Len(z) = Len(x) + Len(p) + k /\ Len(x) \in Nat
    BY <1>3, <2>1 DEF IsFilled
  <2> QED BY <1>3, <1>4, <1>6, <1>7, <1>8, <2>1, <2>2
<1>11. WholeBuffers(Len(x)) => WholeBuffers(Len(z))
  <2> SUFFICES ASSUME NEW j \in Nat, Len(x) = j * LineSize PROVE WholeBuffers(Len(z))
    BY DEF WholeBuffers
  <2>1. (j + 1) * LineSize = j * LineSize + LineSize
    BY <1>4
  <2>2. Len(z) = (j + 1) * LineSize /\ j + 1 \in Nat
    BY <1>10, <2>1
  <2> QED BY <2>2 DEF WholeBuffers
<1>12. s8' => WholeBuffers(Len(s5'))
  BY <1>1, <1>2, <1>7, <1>11 DEF TransferBounds
<1>13. s2' \in 0 .. Len(s1')
  BY <1>1, <1>2, <1>3, <1>5, <1>6
<1>14. s5' \in Seq(TransferBytes)
  BY <1>2, <1>7, <1>10
<1> QED BY <1>1, <1>12, <1>13, <1>14 DEF TransferBounds, TransferBytes

LEMMA TransferReceiveBounds ==
    ASSUME TransferBounds, Transfer!Receive
    PROVE  TransferBounds'
<1>1. UNCHANGED <<s1, s2>>
  BY DEF Transfer!Receive
<1>2. PICK n \in 1 .. LineSize :
         /\ n <= Len(s5)
         /\ s6' = SubSeq(s5, 1, n) \o SubSeq(s6, n + 1, LineSize)
         /\ s5' = SubSeq(s5, n + 1, Len(s5))
         /\ s8' = (s8 /\ n = LineSize)
  BY DEF Transfer!Receive
<1>3. PICK x, y, S : x = s5 /\ y = s6 /\ S = TransferBytes
  OBVIOUS
<1>4. x \in Seq(S) /\ y \in Seq(S) /\ Len(y) = LineSize /\ Len(x) \in Nat
  BY <1>3 DEF TransferBounds
<1>5. LineSize \in Nat /\ n \in Nat /\ n <= Len(x) /\ n <= Len(y)
  BY <1>2, <1>3, <1>4, TextAssumption
<1>6. Overlay(x, y, n) \in Seq(S) /\ Len(Overlay(x, y, n)) = Len(y)
  BY <1>4, <1>5, FirstBytes
<1>7. s6' = Overlay(x, y, n)
  BY <1>2, <1>3, <1>4 DEF Overlay
<1>8. PICK z : z = SubSeq(x, n + 1, Len(x))
  OBVIOUS
<1>9. z \in Seq(S) /\ Len(z) = Len(x) - n
  BY <1>4, <1>5, <1>8
<1>10. s8' => WholeBuffers(Len(z))
  <2> SUFFICES ASSUME s8' PROVE WholeBuffers(Len(z))
    OBVIOUS
  <2>1. s8 /\ n = LineSize
    BY <1>2
  <2>2. PICK k \in Nat : Len(x) = k * LineSize
    BY <1>3, <2>1 DEF TransferBounds, WholeBuffers
  <2>3. LineSize > 0
    BY TextAssumption
  <2>4. k # 0
    BY <1>4, <1>5, <2>1, <2>2, <2>3
  <2>5. k - 1 \in Nat /\ (k - 1) * LineSize = k * LineSize - LineSize
    BY <1>5, <2>4
  <2>6. Len(z) = (k - 1) * LineSize
    BY <1>9, <2>1, <2>2, <2>5
  <2> QED BY <2>5, <2>6 DEF WholeBuffers
<1>11. s8' \in BOOLEAN
  <2>1. s8 \in BOOLEAN
    BY DEF TransferBounds
  <2> QED BY <1>2, <2>1
<1>12. s5' = z
  BY <1>2, <1>3, <1>8
<1>13. s5' \in Seq(S) /\ s6' \in Seq(S) /\ Len(s6') = LineSize
  BY <1>4, <1>6, <1>7, <1>9, <1>12
<1>14. s8' => WholeBuffers(Len(s5'))
  BY <1>10, <1>12
<1> QED BY <1>1, <1>3, <1>11, <1>13, <1>14 DEF TransferBounds, TransferBytes

LEMMA TransferBoundsStep ==
    ASSUME TransferBounds, Transfer!Next
    PROVE  TransferBounds'
<1>1. CASE Transfer!Listen \/ Transfer!Connect \/ Transfer!ServerExit
  BY <1>1 DEF TransferBounds, TransferBytes, Transfer!Listen, Transfer!Connect,
     Transfer!ServerExit
<1>2. CASE Transfer!ReceiveEnd
  <2>1. UNCHANGED <<s1, s2, s5, s6>> /\ (s8' = s8 \/ s8' = FALSE)
    BY <1>2 DEF Transfer!ReceiveEnd
  <2>2. CASE s8' = s8
    BY <2>1, <2>2 DEF TransferBounds, TransferBytes
  <2>3. CASE s8' = FALSE
    BY <2>1, <2>3 DEF TransferBounds, TransferBytes
  <2> QED BY <2>1, <2>2, <2>3
<1> QED BY <1>1, <1>2, SendContentsBounds, TransferReceiveBounds DEF Transfer!Next

LEMMA TransferBoundsInit == Transfer!Init => TransferBounds
<1> SUFFICES ASSUME Transfer!Init PROVE TransferBounds
  OBVIOUS
<1>1. s1 \in Texts /\ s2 = 0 /\ s5 = << >> /\ s8 = TRUE
  BY DEF Transfer!Init
<1>2. LineSize \in Nat /\ s1 \in Seq(Transfer!Characters)
  BY <1>1, TextAssumption
<1>3. Len(s1) \in Nat
  BY <1>2
<1>4. PICK b : b = [i \in 1 .. LineSize |-> Transfer!Unwritten]
  OBVIOUS
<1>5. b \in [1 .. LineSize -> TransferBytes]
  BY <1>4 DEF TransferBytes
<1>6. b \in Seq(TransferBytes) /\ Len(b) = LineSize
  BY <1>2, <1>5
<1>7. s6 = b
  BY <1>4 DEF Transfer!Init
<1>8. Len(s5) = 0 * LineSize /\ s5 \in Seq(TransferBytes)
  BY <1>1, <1>2
<1>9. WholeBuffers(Len(s5))
  BY <1>8 DEF WholeBuffers
<1> QED BY <1>1, <1>3, <1>6, <1>7, <1>8, <1>9 DEF TransferBounds

LEMMA TransferLineTypes ==
    ASSUME Transfer!LinesInv, TransferBounds
    PROVE  Transfer!TypeOK
<1>1. /\ s4 \in {"connect", "failed", "receive", "exit"}
      /\ s3 \in {"listen", "accept", "send", "exit", "dead"}
  BY DEF Transfer!LinesInv
<1>2. Len(s5) \in Nat
  BY DEF TransferBounds
<1>3. s8 => Len(s5) % LineSize = 0
  BY <1>2, WholeBuffersRest DEF TransferBounds
<1> QED BY <1>1, <1>3 DEF TransferBounds, Transfer!TypeOK
-----------------------------------------------------------------------------
(* The checksum of a file: a CRC has the bits 0 to 31.                       *)

LEMMA ChecksumBits ==
    ASSUME NEW p, NEW a \in SUBSET Nat, NEW b \in SUBSET Nat, NEW n \in Nat
    PROVE  /\ Checksum!Xor(a, b) \in SUBSET Nat /\ Checksum!Mask(a, n) \in SUBSET Nat
           /\ Checksum!ShiftLeft(p, a, n) \in SUBSET Nat
           /\ Checksum!ShiftRight(a, n) \in SUBSET Nat
           /\ Checksum!Reflect(a, n) \in SUBSET Nat
<1>1. Checksum!Xor(a, b) \in SUBSET Nat
  BY DEF Checksum!Xor
<1>2. Checksum!Mask(a, n) \in SUBSET Nat /\ \A k \in Checksum!Mask(a, n) : k < n
  BY DEF Checksum!Mask
<1>3. Checksum!ShiftLeft(p, a, n) \in SUBSET Nat
  <2>1. Checksum!Mask(a, p.digits - n) \in SUBSET Nat
    BY DEF Checksum!Mask
  <2> QED BY <2>1 DEF Checksum!ShiftLeft
<1>4. Checksum!ShiftRight(a, n) \in SUBSET Nat
  BY DEF Checksum!ShiftRight
<1>5. Checksum!Reflect(a, n) \in SUBSET Nat
  BY <1>2 DEF Checksum!Reflect
<1> QED BY <1>1, <1>2, <1>3, <1>4, <1>5

\* What of CRC_32 the types depend on.
LEMMA Crc32Is ==
    /\ Checksum!CRC_32.digits = 32 /\ Checksum!CRC_32.width = 32
    /\ Checksum!CRC_32.polynomial \in SUBSET Nat /\ Checksum!CRC_32.finalXOR \in SUBSET Nat
    /\ Checksum!CRC_32.reflectInput = TRUE /\ Checksum!CRC_32.reflectOutput = TRUE
<1>1. \A w : Checksum!Number(w) \in SUBSET Nat
  BY DEF Checksum!Number
<1> QED BY <1>1 DEF Checksum!CRC_32, Checksum!Parameters

LEMMA ChecksumNextBit ==
    ASSUME NEW a \in SUBSET Nat
    PROVE  Checksum!NextBit(Checksum!CRC_32, a) \in SUBSET Nat
<1>1. Checksum!ShiftRight(a, 1) \in SUBSET Nat
  BY ChecksumBits
<1>2. Checksum!Reflect(Checksum!CRC_32.polynomial, 32) \in SUBSET Nat
  <2>1. 32 \in Nat
    OBVIOUS
  <2> QED BY <2>1, Crc32Is, ChecksumBits
<1>3. Checksum!Xor(Checksum!ShiftRight(a, 1), Checksum!Reflect(Checksum!CRC_32.polynomial, 32))
      \in SUBSET Nat
  BY <1>1, <1>2, ChecksumBits
<1> QED BY <1>1, <1>3, Crc32Is DEF Checksum!NextBit

LEMMA ChecksumEightBits ==
    ASSUME NEW a \in SUBSET Nat
    PROVE  Checksum!EightBits(Checksum!CRC_32, a) \in SUBSET Nat
<1>1. \A x \in SUBSET Nat : Checksum!TwoBits(Checksum!CRC_32, x) \in SUBSET Nat
  BY ChecksumNextBit DEF Checksum!TwoBits
<1>2. \A x \in SUBSET Nat : Checksum!FourBits(Checksum!CRC_32, x) \in SUBSET Nat
  BY <1>1 DEF Checksum!FourBits
<1> QED BY <1>2 DEF Checksum!EightBits

LEMMA ChecksumNextByte ==
    ASSUME NEW a \in SUBSET Nat, NEW number
    PROVE  Checksum!NextByteByTable(Checksum!CRC_32, a, Checksum!Byte(number)) \in SUBSET Nat
<1> DEFINE p == Checksum!CRC_32
<1>1. Checksum!Byte(number) \in SUBSET Nat
  BY DEF Checksum!Byte, Checksum!CHAR_BIT
<1>2. Checksum!LoopWidth(p) = 32 /\ Checksum!Pad(p) = 0 /\ Checksum!ByteShift(p) = 0
  BY Crc32Is DEF Checksum!LoopWidth, Checksum!Pad, Checksum!ByteShift
<1>3. p.width = 32 /\ p.reflectInput = TRUE
  BY Crc32Is
<1>4. Checksum!CHAR_BIT \in Nat /\ 0 \in Nat /\ 32 \in Nat
  BY DEF Checksum!CHAR_BIT
<1> HIDE DEF p
<1>5. Checksum!Enter(p, Checksum!Zero) \in SUBSET Nat
  <2>1. Checksum!Zero \in SUBSET Nat
    BY DEF Checksum!Zero
  <2> QED BY <1>2, <1>4, <2>1, ChecksumBits DEF Checksum!Enter
<1>6. ASSUME NEW i \in SUBSET Nat PROVE Checksum!TableEntry(p, i) \in SUBSET Nat
  <2>1. Checksum!ShiftLeft(p, i, 0) \in SUBSET Nat
    BY <1>4, ChecksumBits
  <2>2. Checksum!Xor(Checksum!Enter(p, Checksum!Zero), Checksum!ShiftLeft(p, i, 0)) \in SUBSET Nat
    BY <1>5, <2>1, ChecksumBits
  <2>3. PICK e : e = Checksum!NextByte(p, Checksum!Enter(p, Checksum!Zero), i)
    OBVIOUS
  <2>4. e \in SUBSET Nat
    BY <1>2, <2>2, <2>3, ChecksumEightBits DEF Checksum!NextByte, p
  <2>5. Checksum!Leave(p, e) \in SUBSET Nat
    BY <1>2, <1>4, <2>4, ChecksumBits DEF Checksum!Leave
  <2>6. Checksum!Mask(Checksum!Leave(p, e), 32) \in SUBSET Nat
    BY <1>4, <2>5, ChecksumBits
  <2>7. Checksum!ShiftLeft(p, Checksum!Mask(Checksum!Leave(p, e), 32), 0) \in SUBSET Nat
    BY <1>4, <2>6, ChecksumBits
  <2> QED BY <1>2, <1>3, <2>3, <2>7 DEF Checksum!TableEntry
<1>7. Checksum!LowByte(Checksum!Xor(a, Checksum!Byte(number))) \in SUBSET Nat
  <2>1. Checksum!Xor(a, Checksum!Byte(number)) \in SUBSET Nat
    BY <1>1, ChecksumBits
  <2> QED BY <1>4, <2>1, ChecksumBits DEF Checksum!LowByte
<1>8. Checksum!TableEntry(p, Checksum!LowByte(Checksum!Xor(a, Checksum!Byte(number))))
      \in SUBSET Nat
  BY <1>6, <1>7
<1>9. Checksum!ShiftRight(a, Checksum!CHAR_BIT) \in SUBSET Nat
  BY <1>4, ChecksumBits
<1>10. Checksum!NextByteByTable(p, a, Checksum!Byte(number)) \in SUBSET Nat
  BY <1>3, <1>8, <1>9, ChecksumBits DEF Checksum!NextByteByTable
<1> QED BY <1>10 DEF p

\* The loop of Calculate over the bytes: its remainders after each of them.
Remainders(before, bytes, after) ==
    after = [n \in 0 .. Len(bytes) |->
                IF n = 0 THEN Checksum!UndoFinalize(Checksum!CRC_32, before)
                ELSE Checksum!NextByteByTable(Checksum!CRC_32, after[n - 1],
                                              Checksum!Byte(bytes[n]))]

LEMMA CrcAfterIs ==
    ASSUME NEW before, NEW bytes
    PROVE  Checksum!CrcAfter(before, bytes) =
              Checksum!Finalize(Checksum!CRC_32,
                  (CHOOSE after : Remainders(before, bytes, after))[Len(bytes)])
BY DEF Checksum!CrcAfter, Remainders

\* There are such remainders, and they are sets of bits: by induction on how many
\* bytes have been taken.
LEMMA RemaindersExist ==
    ASSUME NEW bytes, Len(bytes) \in Nat, NEW first \in SUBSET Nat
    PROVE  \A n \in 0 .. Len(bytes) :
              \E f \in [0 .. n -> SUBSET Nat] :
                 \A k \in 0 .. n :
                    f[k] = IF k = 0 THEN first
                           ELSE Checksum!NextByteByTable(Checksum!CRC_32, f[k - 1],
                                                         Checksum!Byte(bytes[k]))
<1> DEFINE Step(r, k) == Checksum!NextByteByTable(Checksum!CRC_32, r, Checksum!Byte(bytes[k]))
           Is(f, n) == /\ f \in [0 .. n -> SUBSET Nat]
                       /\ \A k \in 0 .. n : f[k] = IF k = 0 THEN first ELSE Step(f[k - 1], k)
           Bad == {n \in 0 .. Len(bytes) : ~\E f : Is(f, n)}
<1>1. \A r \in SUBSET Nat : \A k : Step(r, k) \in SUBSET Nat
  BY ChecksumNextByte
<1> HIDE DEF Step
<1>2. 0 \notin Bad
  <2>1. PICK f : f = [k \in 0 .. 0 |-> first]
    OBVIOUS
  <2>2. \A k \in 0 .. 0 : k = 0
    OBVIOUS
  <2>3. f \in [0 .. 0 -> SUBSET Nat]
    BY <2>1
  <2>4. \A k \in 0 .. 0 : f[k] = IF k = 0 THEN first ELSE Step(f[k - 1], k)
    BY <2>1, <2>2
  <2>5. Is(f, 0)
    BY <2>3, <2>4
  <2> QED BY <2>5
<1>3. ASSUME NEW n \in Nat, n + 1 \in 0 .. Len(bytes), n \notin Bad PROVE n + 1 \notin Bad
  <2>1. n \in 0 .. Len(bytes)
    BY <1>3
  <2>2. PICK f : Is(f, n)
    BY <1>3, <2>1
  <2>3. PICK g : g = [k \in 0 .. n + 1 |-> IF k = n + 1 THEN Step(f[n], n + 1) ELSE f[k]]
    OBVIOUS
  <2>4. f[n] \in SUBSET Nat
    BY <2>2
  <2>5. \A k \in 0 .. n + 1 : g[k] \in SUBSET Nat
    <3>1. \A k \in 0 .. n + 1 : k = n + 1 \/ k \in 0 .. n
      OBVIOUS
    <3> QED BY <1>1, <2>2, <2>3, <2>4, <3>1
  <2>6. g \in [0 .. n + 1 -> SUBSET Nat]
    BY <2>3, <2>5
  <2>7. ASSUME NEW k \in 0 .. n + 1
        PROVE  g[k] = IF k = 0 THEN first ELSE Step(g[k - 1], k)
    <3>1. CASE k = n + 1
      <4>1. n \in 0 .. n + 1 /\ n # n + 1 /\ k # 0 /\ k - 1 = n
        BY <3>1
      <4>2. g[n] = f[n]
        BY <2>3, <4>1
      <4> QED BY <2>3, <3>1, <4>1, <4>2
    <3>2. CASE k # n + 1
      <4>1. k \in 0 .. n
        BY <3>2
      <4>2. g[k] = f[k] /\ f[k] = IF k = 0 THEN first ELSE Step(f[k - 1], k)
        BY <2>2, <2>3, <3>2, <4>1
      <4>3. CASE k = 0
        BY <4>2, <4>3
      <4>4. CASE k # 0
        <5>1. k - 1 \in 0 .. n + 1 /\ k - 1 # n + 1
          BY <4>1, <4>4
        <5>2. g[k - 1] = f[k - 1]
          BY <2>3, <5>1
        <5> QED BY <4>2, <4>4, <5>2
      <4> QED BY <4>3, <4>4
    <3> QED BY <3>1, <3>2
  <2>8. Is(g, n + 1)
    BY <2>6, <2>7
  <2> QED BY <2>8
<1>4. Bad = {}
  <2> SUFFICES ASSUME Bad # {} PROVE FALSE
    OBVIOUS
  <2>1. Bad \in SUBSET Nat
    OBVIOUS
  <2>2. PICK b \in Bad : \A c \in Bad : b <= c
    <3> HIDE DEF Bad
    <3> QED BY <2>1, LeastElement
  <2>3. b \in 0 .. Len(bytes) /\ b # 0
    BY <1>2
  <2>4. PICK n : n = b - 1
    OBVIOUS
  <2>5. n \in Nat /\ n + 1 = b /\ ~(b <= n)
    BY <2>3, <2>4
  <2>6. n \notin Bad
    BY <2>2, <2>5
  <2> HIDE DEF Bad
  <2>7. b \notin Bad
    BY <1>3, <2>3, <2>5, <2>6
  <2> QED BY <2>2, <2>7
<1>5. \A n \in 0 .. Len(bytes) : \E f : Is(f, n)
  BY <1>4
<1> QED BY <1>5 DEF Step

LEMMA CrcAfterBits ==
    ASSUME NEW before \in SUBSET Nat, NEW bytes, Len(bytes) \in Nat
    PROVE  Checksum!CrcAfter(before, bytes) \subseteq 0 .. 31
<1> DEFINE Step(r, k) == Checksum!NextByteByTable(Checksum!CRC_32, r, Checksum!Byte(bytes[k]))
           Final == CHOOSE after : Remainders(before, bytes, after)
<1>1. PICK l, first : l = Len(bytes) /\ first = Checksum!UndoFinalize(Checksum!CRC_32, before)
  OBVIOUS
<1>2. first \in SUBSET Nat
  <2>1. Checksum!Mask(before, 32) \in SUBSET Nat
    BY DEF Checksum!Mask
  <2>2. Checksum!Xor(Checksum!Mask(before, 32), Checksum!CRC_32.finalXOR) \in SUBSET Nat
    BY <2>1, Crc32Is, ChecksumBits
  <2> QED BY <1>1, <2>2, Crc32Is DEF Checksum!UndoFinalize, Checksum!Flip
<1>3. \E f : Remainders(before, bytes, f)
  <2>1. l \in 0 .. l
    BY <1>1
  <2>2. \A n \in 0 .. Len(bytes) :
           \E f \in [0 .. n -> SUBSET Nat] :
              \A k \in 0 .. n : f[k] = IF k = 0 THEN first ELSE Step(f[k - 1], k)
    BY <1>2, RemaindersExist
  <2> HIDE DEF Step
  <2>3. PICK f \in [0 .. l -> SUBSET Nat] :
           \A k \in 0 .. l : f[k] = IF k = 0 THEN first ELSE Step(f[k - 1], k)
    BY <1>1, <2>1, <2>2
  <2>4. f = [k \in 0 .. l |-> f[k]]
    BY <2>3
  <2>5. f = [k \in 0 .. l |-> IF k = 0 THEN first ELSE Step(f[k - 1], k)]
    BY <2>3, <2>4
  <2>6. Remainders(before, bytes, f)
    BY <1>1, <2>5 DEF Remainders, Step
  <2> QED BY <2>6
<1>4. Remainders(before, bytes, Final)
  BY <1>3
<1>5. PICK h : h = Final
  OBVIOUS
<1>6. h = [k \in 0 .. l |-> IF k = 0 THEN first ELSE Step(h[k - 1], k)]
  BY <1>1, <1>4, <1>5 DEF Remainders
<1>7. \A r \in SUBSET Nat : \A k : Step(r, k) \in SUBSET Nat
  BY ChecksumNextByte
<1>8. Checksum!CrcAfter(before, bytes) = Checksum!Finalize(Checksum!CRC_32, h[l])
  BY <1>1, <1>5, CrcAfterIs
<1> HIDE DEF Step, Final
<1> DEFINE Bad == {n \in 0 .. l : h[n] \notin SUBSET Nat}
<1>9. Bad = {}
  <2> SUFFICES ASSUME Bad # {} PROVE FALSE
    OBVIOUS
  <2>1. Bad \in SUBSET Nat
    BY <1>1
  <2>2. PICK b \in Bad : \A c \in Bad : b <= c
    <3> HIDE DEF Bad
    <3> QED BY <2>1, LeastElement
  <2>3. b \in 0 .. l /\ h[b] \notin SUBSET Nat
    OBVIOUS
  <2>4. b # 0
    BY <1>2, <1>6, <2>3
  <2>5. PICK n : n = b - 1
    OBVIOUS
  <2>6. n \in 0 .. l /\ ~(b <= n)
    BY <1>1, <2>3, <2>4, <2>5
  <2>7. h[n] \in SUBSET Nat
    BY <2>2, <2>6
  <2>8. h[b] = Step(h[n], b)
    BY <1>6, <2>3, <2>4, <2>5
  <2> QED BY <1>7, <2>3, <2>7, <2>8
<1>10. h[l] \in SUBSET Nat
  <2>1. l \in 0 .. l
    BY <1>1
  <2> QED BY <1>9, <2>1
<1>11. Checksum!Xor(h[l], Checksum!CRC_32.finalXOR) \in SUBSET Nat
  BY <1>10, Crc32Is, ChecksumBits
<1>12. ASSUME NEW a \in SUBSET Nat PROVE Checksum!Mask(a, 32) \subseteq 0 .. 31
  <2>1. \A k \in Nat : k < 32 => k \in 0 .. 31
    OBVIOUS
  <2> QED BY <2>1 DEF Checksum!Mask
<1>13. Checksum!Finalize(Checksum!CRC_32, h[l]) \subseteq 0 .. 31
  BY <1>11, <1>12, Crc32Is DEF Checksum!Finalize, Checksum!Flip
<1> QED BY <1>8, <1>13

ChecksumBounds ==
    /\ s2 \in 0 .. MaxChanges
    /\ s3 \in {"lstat", "open", "read", "calculate", "return"}
    /\ s6 \in Nat /\ (s3 \in {"read", "calculate"} => s6 # 0)
    /\ s8 \subseteq 0 .. 31

LEMMA ChecksumBoundsStep ==
    ASSUME Checksum!ChecksumInv, ChecksumBounds, Checksum!Next
    PROVE  ChecksumBounds'
<1>1. CASE Checksum!Lstat
  <2>1. /\ UNCHANGED <<s1, s2, s8>> /\ s3' \in {"return", "open"}
        /\ \/ s6' = s6
           \/ /\ s1 # Missing
              /\ s6' = Checksum!ChunkCount(Len(s1), Checksum!BufferFor(Len(s1)))
    BY <1>1 DEF Checksum!Lstat
  <2>2. s6' \in Nat
    <3>1. CASE s6' = s6
      BY <3>1 DEF ChecksumBounds
    <3>2. CASE s1 # Missing /\ s6' = Checksum!ChunkCount(Len(s1), Checksum!BufferFor(Len(s1)))
      <4>1. PICK n, k : n = Len(s1) /\ k = Checksum!BufferFor(Len(s1))
        OBVIOUS
      <4>2. s1 \in Contents
        BY <3>2 DEF Checksum!ChecksumInv
      <4>3. n \in Nat
        BY <4>1, <4>2, FileIs
      <4>4. k \in Nat \ {0}
        BY <4>1, <4>3, BufferFits
      <4>5. n \div k \in Nat
        BY <4>3, <4>4
      <4>6. Checksum!ChunkCount(n, k) \in Nat
        BY <4>5 DEF Checksum!ChunkCount
      <4> QED BY <3>2, <4>1, <4>6
    <3> QED BY <2>1, <3>1, <3>2
  <2> QED BY <2>1, <2>2 DEF ChecksumBounds
<1>2. CASE Checksum!Open
  BY <1>2 DEF Checksum!Open, ChecksumBounds
<1>3. CASE Checksum!Read
  <2>1. UNCHANGED <<s2, s6, s8>> /\ s3 = "read" /\ s3' \in {"calculate", "return"}
    BY <1>3 DEF Checksum!Read
  <2> QED BY <2>1 DEF ChecksumBounds
<1>4. CASE Checksum!Calculate
  <2>1. /\ UNCHANGED s2 /\ s3 = "calculate" /\ s6' = s6 - 1
        /\ s3' = (IF s6' = 0 THEN "return" ELSE "read")
        /\ s8' = Checksum!CrcAfter(s8, s5)
    BY <1>4 DEF Checksum!Calculate
  <2>2. s6' \in Nat
    BY <2>1 DEF ChecksumBounds
  <2>3. PICK c, b : c = s8 /\ b = s5
    OBVIOUS
  <2>4. c \in SUBSET Nat
    BY <2>3 DEF ChecksumBounds
  <2>5. b \in Seq(Int)
    BY <2>3 DEF Checksum!ChecksumInv
  <2>6. Len(b) \in Nat
    BY <2>5
  <2>7. Checksum!CrcAfter(c, b) \subseteq 0 .. 31
    BY <2>4, <2>6, CrcAfterBits
  <2>8. s8' \subseteq 0 .. 31
    BY <2>1, <2>3, <2>7
  <2>9. s3' \in {"return", "read"} /\ (s3' = "read" => s6' # 0)
    BY <2>1
  <2> QED BY <2>1, <2>2, <2>8, <2>9 DEF ChecksumBounds
<1>5. CASE Checksum!Change
  <2>1. UNCHANGED <<s3, s6, s8>> /\ s2 < MaxChanges /\ s2' = s2 + 1
    BY <1>5 DEF Checksum!Change
  <2>2. s2' \in 0 .. MaxChanges
    BY <2>1, ChecksumAssumption DEF ChecksumBounds
  <2> QED BY <2>1, <2>2 DEF ChecksumBounds
<1> QED BY <1>1, <1>2, <1>3, <1>4, <1>5 DEF Checksum!Next

LEMMA ChecksumBoundsInit == Checksum!Init => ChecksumBounds
BY ChecksumAssumption DEF Checksum!Init, ChecksumBounds, Checksum!NoCrc, Checksum!Zero

LEMMA ChecksumTypes ==
    ASSUME Checksum!ChecksumInv, ChecksumBounds
    PROVE  Checksum!TypeOK
BY DEF Checksum!ChecksumInv, ChecksumBounds, Checksum!TypeOK
-----------------------------------------------------------------------------
(* All of them: what each program's invariant leaves to say of its types.    *)

LEMMA CrcTypes == Crc!CrcInv => Crc!TypeOK
<1> SUFFICES ASSUME Crc!CrcInv PROVE Crc!TypeOK
  OBVIOUS
<1>1. s1 \in ParameterSets /\ s2 \in CrcMessages /\ s3 \in 0 .. Len(s2)
  BY DEF Crc!CrcInv
<1>2. \A r \in {s4, s5, s6} : r \subseteq Crc!Pad(s1) .. s1.digits - 1
  BY DEF Crc!CrcInv, Crc!InLoop
<1>3. Crc!Pad(s1) \in Nat /\ s1.digits \in Nat
  <2>1. Crc!WellFormed(s1)
    BY <1>1, CrcAssumption
  <2>2. s1.digits \in Nat /\ s1.width \in Nat
    BY <2>1 DEF Crc!WellFormed
  <2> QED BY <2>2 DEF Crc!Pad, Crc!LoopWidth, Crc!CHAR_BIT
<1>4. \A r \in {s4, s5, s6} : r \subseteq 0 .. s1.digits - 1
  <2>1. PICK a, n : a = Crc!Pad(s1) /\ n = s1.digits
    OBVIOUS
  <2>2. a .. n - 1 \subseteq 0 .. n - 1
    BY <1>3, <2>1
  <2> QED BY <1>2, <2>1, <2>2
<1> QED BY <1>1, <1>4 DEF Crc!TypeOK

BoundsInv ==
    /\ program = "checksum" => ChecksumBounds
    /\ program = "lifecycle" => LifecycleBounds
    /\ program = "direct" => DirectBounds
    /\ program = "transfer" => TransferBounds
    /\ program = "echo" => EchoBounds
    /\ program = "getfile" => RequestBounds
    /\ program = "download" => DownloadBounds

ContentsInv ==
    /\ ChecksumsInv /\ LifecyclesInv /\ DirectsInv /\ TransferLines
    /\ EchoesInv /\ RequestsInv /\ DownloadsInv

LEMMA ContentsInvariant == Spec => []ContentsInv
BY ChecksumsInvariant, LifecyclesInvariant, DirectsInvariant, TransferLinesInvariant,
   EchoesInvariant, RequestsInvariant, DownloadsInvariant, PTL DEF ContentsInv

LEMMA BoundsInit == Init => BoundsInv
<1> SUFFICES ASSUME Init PROVE BoundsInv
  OBVIOUS
<1>1. program = "checksum" => Checksum!Init
  BY DEF Init
<1>2. program = "lifecycle" => Lifecycle!Init
  BY DEF Init
<1>3. program = "direct" => Direct!Init
  BY DEF Init
<1>4. program = "transfer" => Transfer!Init
  BY DEF Init
<1>5. program = "echo" => EchoPair!Init
  BY DEF Init
<1>6. program = "getfile" => Getfile!Init
  BY DEF Init
<1>7. program = "download" => Download!Init
  BY DEF Init
<1> QED BY <1>1, <1>2, <1>3, <1>4, <1>5, <1>6, <1>7, ChecksumBoundsInit,
           LifecycleBoundsInit, DirectBoundsInit, TransferBoundsInit, EchoBoundsInit,
           RequestBoundsInit, DownloadBoundsInit DEF BoundsInv

LEMMA BoundsStutter ==
    ASSUME BoundsInv, UNCHANGED vars
    PROVE  BoundsInv'
<1>0. UNCHANGED <<program, s1, s2, s3, s4, s5, s6, s7, s8>>
  BY DEF vars
<1>1. (program = "checksum" => ChecksumBounds)'
  BY <1>0 DEF BoundsInv, ChecksumBounds
<1>2. (program = "lifecycle" => LifecycleBounds)'
  BY <1>0 DEF BoundsInv, LifecycleBounds
<1>3. (program = "direct" => DirectBounds)'
  BY <1>0 DEF BoundsInv, DirectBounds
<1>4. (program = "transfer" => TransferBounds)'
  BY <1>0 DEF BoundsInv, TransferBounds, TransferBytes
<1>5. (program = "echo" => EchoBounds)'
  BY <1>0 DEF BoundsInv, EchoBounds
<1>6. (program = "getfile" => RequestBounds)'
  BY <1>0 DEF BoundsInv, RequestBounds
<1>7. (program = "download" => DownloadBounds)'
  BY <1>0 DEF BoundsInv, DownloadBounds
<1> QED BY <1>1, <1>2, <1>3, <1>4, <1>5, <1>6, <1>7 DEF BoundsInv

LEMMA BoundsStep ==
    ASSUME ContentsInv, BoundsInv, Next
    PROVE  BoundsInv'
<1>0. program' = program
  BY DEF Next
<1>1. ASSUME program = "checksum" PROVE ChecksumBounds'
  <2>1. Checksum!Next
    BY <1>1 DEF Next
  <2>2. Checksum!ChecksumInv /\ ChecksumBounds
    BY <1>1 DEF ContentsInv, ChecksumsInv, BoundsInv
  <2> QED BY <2>1, <2>2, ChecksumBoundsStep
<1>2. ASSUME program = "lifecycle" PROVE LifecycleBounds'
  <2>1. Lifecycle!Next
    BY <1>2 DEF Next
  <2>2. Lifecycle!Labels /\ LifecycleBounds
    BY <1>2 DEF ContentsInv, LifecyclesInv, Lifecycle!LifecycleInv, BoundsInv
  <2> QED BY <2>1, <2>2, LifecycleBoundsStep
<1>3. ASSUME program = "direct" PROVE DirectBounds'
  <2>1. Direct!Next
    BY <1>3 DEF Next
  <2>2. Direct!DirectInv /\ DirectBounds
    BY <1>3 DEF ContentsInv, DirectsInv, BoundsInv
  <2> QED BY <2>1, <2>2, DirectBoundsStep
<1>4. ASSUME program = "transfer" PROVE TransferBounds'
  <2>1. Transfer!Next
    BY <1>4 DEF Next
  <2>2. TransferBounds
    BY <1>4 DEF BoundsInv
  <2> QED BY <2>1, <2>2, TransferBoundsStep
<1>5. ASSUME program = "echo" PROVE EchoBounds'
  <2>1. EchoPair!Next
    BY <1>5 DEF Next
  <2>2. EchoPair!EchoInv /\ EchoBounds
    BY <1>5 DEF ContentsInv, EchoesInv, BoundsInv
  <2> QED BY <2>1, <2>2, EchoBoundsStep
<1>6. ASSUME program = "getfile" PROVE RequestBounds'
  <2>1. Getfile!Next
    BY <1>6 DEF Next
  <2>2. RequestBounds
    BY <1>6 DEF BoundsInv
  <2> QED BY <2>1, <2>2, RequestBoundsStep
<1>7. ASSUME program = "download" PROVE DownloadBounds'
  <2>1. Download!Next
    BY <1>7 DEF Next
  <2>2. Download!DownloadInv /\ DownloadBounds
    BY <1>7 DEF ContentsInv, DownloadsInv, BoundsInv
  <2> QED BY <2>1, <2>2, DownloadBoundsStep
<1> QED BY <1>0, <1>1, <1>2, <1>3, <1>4, <1>5, <1>6, <1>7 DEF BoundsInv

LEMMA BoundsInvariant == Spec => []BoundsInv
<1>1. ContentsInv /\ BoundsInv /\ [Next]_vars => BoundsInv'
  BY BoundsStep, BoundsStutter
<1> QED BY <1>1, BoundsInit, ContentsInvariant, PTL DEF Spec

\* Every program's variables keep their types: its numbers their bounds, its labels
\* those of the code, its sequences elements of what they are made from.
THEOREM TypesCorrect == Spec => []TypeOK
<1>1. CrcsInv /\ CallbacksInv /\ SearchesInv /\ TransfersInv /\ ContentsInv /\ BoundsInv => TypeOK
  <2> SUFFICES ASSUME CrcsInv, CallbacksInv, SearchesInv, TransfersInv, ContentsInv, BoundsInv
               PROVE  TypeOK
    OBVIOUS
  <2>1. program = "crc" => Crc!TypeOK
    BY CrcTypes DEF CrcsInv
  <2>2. program = "checksum" => Checksum!TypeOK
    BY ChecksumTypes DEF ContentsInv, ChecksumsInv, BoundsInv
  <2>3. program = "callbacks" => Callbacks!TypeOK
    BY DEF CallbacksInv
  <2>4. program = "lifecycle" => Lifecycle!TypeOK
    BY LifecycleTypes DEF ContentsInv, LifecyclesInv, Lifecycle!LifecycleInv, BoundsInv
  <2>5. program = "table" => Table!TypeOK
    BY DEF SearchesInv, Table!SearchInv
  <2>6. program = "part1" => Part1!TypeOK
    BY TransferTypes DEF TransfersInv
  <2>7. program = "direct" => Direct!TypeOK
    BY DirectTypes DEF ContentsInv, DirectsInv, BoundsInv
  <2>8. program = "transfer" => Transfer!TypeOK
    BY TransferLineTypes DEF ContentsInv, TransferLines, BoundsInv
  <2>9. program = "echo" => EchoPair!TypeOK
    BY EchoTypes DEF ContentsInv, EchoesInv, BoundsInv
  <2>10. program = "getfile" => Getfile!TypeOK
    BY RequestTypes DEF BoundsInv
  <2>11. program = "download" => Download!TypeOK
    BY DownloadTypes DEF ContentsInv, DownloadsInv, BoundsInv
  <2> QED BY <2>1, <2>2, <2>3, <2>4, <2>5, <2>6, <2>7, <2>8, <2>9, <2>10, <2>11 DEF TypeOK
<1> QED BY <1>1, CrcInvariant, CallbacksInvariant, SearchesInvariant, TransfersInvariant,
           ContentsInvariant, BoundsInvariant, PTL
=============================================================================
