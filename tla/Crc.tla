--------------------------------- MODULE Crc ---------------------------------
(***************************************************************************)
(* The algorithms of CRC.h, the library behind dfs_file_checksum.          *)
(*                                                                         *)
(* A value of CRCType is the set of its bits that are 1, each named by its *)
(* exponent: a polynomial over GF(2), as a CRC computes with.  Exclusive   *)
(* or is the symmetric difference.                                         *)
(*                                                                         *)
(* The library has three loops (reflected input; width of a byte or more;  *)
(* less than a byte).  The last two are one here: a narrow remainder is    *)
(* shifted up to a byte for the length of the loop, and the constant SHIFT *)
(* of the wide ones is the rest.  The lookup table is a function of its    *)
(* index, evaluated when an entry is used.                                 *)
(***************************************************************************)
EXTENDS Integers, Sequences

CHAR_BIT == 8

\* The bits of a number given as words of 16 bits, for 2^31 - 1 is the largest
\* number TLC has.
Number(words) ==
    {k \in 0 .. 16 * Len(words) - 1 :
        (words[Len(words) - (k \div 16)] \div 2^(k % 16)) % 2 = 1}

\* The bits of an unsigned char.
Byte(number) == {k \in 0 .. CHAR_BIT - 1 : (number \div 2^k) % 2 = 1}

Zero              == {}
Xor(a, b)         == (a \ b) \cup (b \ a)
Mask(a, n)        == {k \in a : k < n}
ShiftLeft(p, a, n) == {k + n : k \in Mask(a, p.digits - n)}
ShiftRight(a, n)  == {k - n : k \in {j \in a : j >= n}}
Reflect(a, n)     == {n - 1 - k : k \in Mask(a, n)}

\* A set of parameters with the size of the type and the width it is for.
\* check is what its comment gives as the CRC of the characters "123456789".
Parameters(digits, width, polynomial, initial, finalXOR, reflectIn, reflectOut, check) ==
    [digits |-> digits, width |-> width, polynomial |-> Number(polynomial),
     initialValue |-> Number(initial), finalXOR |-> Number(finalXOR),
     reflectInput |-> reflectIn, reflectOutput |-> reflectOut, check |-> Number(check)]

\* The type has room for the width and for a byte, and the values for the width are
\* not longer.
WellFormed(p) ==
    /\ p.digits \in Nat /\ CHAR_BIT <= p.digits /\ p.width \in 1 .. p.digits
    /\ \A bits \in {p.polynomial, p.initialValue, p.finalXOR} : bits \subseteq 0 .. p.width - 1
    /\ p.reflectInput \in BOOLEAN /\ p.reflectOutput \in BOOLEAN
-----------------------------------------------------------------------------
(* From a remainder to a CRC and back.                                      *)

Flip(p) == p.reflectInput # p.reflectOutput

Finalize(p, remainder) ==
    Mask(Xor(IF Flip(p) THEN Reflect(remainder, p.width) ELSE remainder, p.finalXOR),
         p.width)

\* Variant for mutation: a CRC goes on as if it were a remainder.
UndoNothing(p, crc) == Mask(crc, p.width)

UndoFinalize(p, crc) ==
    LET remainder == Xor(Mask(crc, p.width), p.finalXOR)
    IN IF Flip(p) THEN Reflect(remainder, p.width) ELSE remainder
-----------------------------------------------------------------------------
(* The bit-by-bit algorithm.                                                *)

LoopWidth(p) == IF p.width < CHAR_BIT /\ ~p.reflectInput THEN CHAR_BIT ELSE p.width
Pad(p)       == LoopWidth(p) - p.width

\* What is done to a remainder before and after the loop over the bytes.
Enter(p, remainder) == ShiftLeft(p, remainder, Pad(p))
Leave(p, remainder) == ShiftRight(remainder, Pad(p))

\* Variant for mutation: the highest bit of the type, not of the width, decides.
NextBitOfType(p, remainder) ==
    IF p.reflectInput
    THEN LET half == ShiftRight(remainder, 1)
         IN IF 0 \in remainder THEN Xor(half, Reflect(p.polynomial, p.width)) ELSE half
    ELSE LET twice == ShiftLeft(p, remainder, 1)
         IN IF p.digits - 1 \in remainder
            THEN Xor(twice, ShiftLeft(p, p.polynomial, Pad(p)))
            ELSE twice

NextBit(p, remainder) ==
    IF p.reflectInput
    THEN LET half == ShiftRight(remainder, 1)
         IN IF 0 \in remainder THEN Xor(half, Reflect(p.polynomial, p.width)) ELSE half
    ELSE LET twice == ShiftLeft(p, remainder, 1)
         IN IF LoopWidth(p) - 1 \in remainder
            THEN Xor(twice, ShiftLeft(p, p.polynomial, Pad(p)))
            ELSE twice

TwoBits(p, remainder)   == NextBit(p, NextBit(p, remainder))
FourBits(p, remainder)  == TwoBits(p, TwoBits(p, remainder))
EightBits(p, remainder) == FourBits(p, FourBits(p, remainder))

ByteShift(p) == IF p.reflectInput THEN 0 ELSE LoopWidth(p) - CHAR_BIT

NextByte(p, remainder, byte) ==
    EightBits(p, Xor(remainder, ShiftLeft(p, byte, ByteShift(p))))
-----------------------------------------------------------------------------
(* The algorithm with a lookup table.                                       *)

\* Variant for mutation: a narrow entry is left as CalculateRemainder gives it.
TableEntryUnshifted(p, index) ==
    Mask(Leave(p, NextByte(p, Enter(p, Zero), index)), p.width)

TableEntry(p, index) ==
    ShiftLeft(p, Mask(Leave(p, NextByte(p, Enter(p, Zero), index)), p.width), Pad(p))

LowByte(a) == Mask(a, CHAR_BIT)

NextByteByTable(p, remainder, byte) ==
    IF p.reflectInput
    THEN Xor(ShiftRight(remainder, CHAR_BIT), TableEntry(p, LowByte(Xor(remainder, byte))))
    ELSE LET top  == ShiftRight(remainder, LoopWidth(p) - CHAR_BIT)
             rest == IF p.width < CHAR_BIT THEN Zero ELSE ShiftLeft(p, remainder, CHAR_BIT)
         IN Xor(rest, TableEntry(p, LowByte(Xor(top, byte))))
=============================================================================
