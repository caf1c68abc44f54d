------------------------------ MODULE CrcMessage ------------------------------
(***************************************************************************)
(* Calculate of CRC.h, in its four forms, on one message: bit by bit or    *)
(* with a table, at once or in parts.  One step takes one byte; before it  *)
(* the calculation in parts may end a part, giving its CRC to the next.    *)
(***************************************************************************)
EXTENDS Crc

CONSTANTS
    ParameterSets,   \* of the calculations
    Messages,        \* sequences of bytes, as numbers
    CheckMessage     \* the characters "123456789"

VARIABLES
    parameters, message, taken,
    remainder,       \* of the bit-by-bit algorithm, inside its loop
    tableRemainder,  \* of the algorithm with a table, inside its loop
    partRemainder    \* of the calculation in parts, inside the loop of this part

vars == <<parameters, message, taken, remainder, tableRemainder, partRemainder>>

\* Variant for mutation: the values are not brought up to a byte.
InitUnshifted ==
    /\ parameters \in ParameterSets
    /\ message \in Messages
    /\ taken = 0
    /\ remainder = Enter(parameters, parameters.initialValue)
    /\ tableRemainder = parameters.initialValue
    /\ partRemainder = remainder

Init ==
    /\ parameters \in ParameterSets
    /\ message \in Messages
    /\ taken = 0
    /\ remainder = Enter(parameters, parameters.initialValue)
    /\ tableRemainder = remainder
    /\ partRemainder = remainder

CrcOf(inLoop) == Finalize(parameters, Leave(parameters, inLoop))

\* Calculate with the CRC of a previous calculation: its remainder.
Resume(crc) == Enter(parameters, UndoFinalize(parameters, crc))

TakeByte ==
    /\ taken < Len(message)
    /\ taken' = taken + 1
    /\ LET byte == Byte(message[taken + 1]) IN
          /\ remainder' = NextByte(parameters, remainder, byte)
          /\ tableRemainder' = NextByteByTable(parameters, tableRemainder, byte)
          /\ \E before \in {partRemainder, Resume(CrcOf(partRemainder))} :
                partRemainder' = NextByte(parameters, before, byte)
    /\ UNCHANGED <<parameters, message>>

Next == TakeByte

Spec == Init /\ [][Next]_vars
-----------------------------------------------------------------------------
(* Properties.                                                              *)

\* The remainders are values of CRCType.
TypeOK ==
    /\ parameters \in ParameterSets
    /\ message \in Messages
    /\ taken \in 0 .. Len(message)
    /\ \A r \in {remainder, tableRemainder, partRemainder} :
          r \subseteq 0 .. parameters.digits - 1

\* The algorithms compute what the comments of CRC.h document: every
\* parameter set gives its check value for "123456789".
CheckValue ==
    message = CheckMessage /\ taken = Len(message) => CrcOf(remainder) = parameters.check

\* All forms of Calculate agree after any bytes: the lookup table is only an
\* optimisation, for each of the three loops, and a message may be cut into parts
\* anywhere, each going on from the CRC of what was before, which Finalize has
\* masked, reflected and inverted.  dfs_file_checksum relies on the second.
FormsAgree ==
    /\ CrcOf(tableRemainder) = CrcOf(remainder)
    /\ CrcOf(partRemainder) = CrcOf(remainder)

\* Why it holds.  The loop looks at the bits of its width only, and those above it
\* are masked in the end; in them the three may differ.  A reflected remainder has no
\* bits above, and a narrow one that was shifted up has none below.
InLoop(p, r) ==
    /\ r \subseteq Pad(p) .. p.digits - 1
    /\ p.reflectInput => r \subseteq 0 .. p.width - 1

Same(p, a, b) == Mask(a, LoopWidth(p)) = Mask(b, LoopWidth(p))

CrcInv ==
    /\ parameters \in ParameterSets /\ message \in Messages /\ taken \in 0 .. Len(message)
    /\ \A r \in {remainder, tableRemainder, partRemainder} :
          InLoop(parameters, r) /\ Same(parameters, r, remainder)
=============================================================================
