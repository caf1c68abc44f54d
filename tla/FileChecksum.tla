----------------------------- MODULE FileChecksum -----------------------------
(***************************************************************************)
(* dfs_file_checksum (part2/src/dfs-utils.h): the checksum by which client *)
(* and server decide whether a file has changed.                           *)
(*                                                                         *)
(* The file is read through one buffer of fixed size, and the CRC is taken *)
(* of the whole buffer each time, so that behind a short last piece it     *)
(* takes in again what the piece before left there.  Nothing keeps other   *)
(* threads and processes from changing the file meanwhile: lstat, open and *)
(* each read are steps of their own.                                       *)
(***************************************************************************)
EXTENDS CrcCatalogue

CONSTANTS
    Contents,      \* of files: sequences of bytes
    Missing,       \* in place of the content of a file that does not exist
    BufferSize,    \* DFS_BUFFERSIZE: 4096 in the code
    MaxChanges     \* bound of the model: writes by others during the calculation

Unwritten == -1   \* what an element of the buffer holds at first: not a byte

VARIABLES file, changes, pc, size, buffer, chunks, position, crc

vars == <<file, changes, pc, size, buffer, chunks, position, crc>>

NoCrc == Zero     \* what a calculation starts from, and returns early

Init ==
    /\ file \in Contents \cup {Missing}
    /\ changes = 0
    /\ pc = "lstat"
    /\ size = 0
    /\ buffer = << >>
    /\ chunks = 0
    /\ position = 0
    /\ crc = NoCrc

\* Small files get a buffer of half their size, "at least two chunks".
BufferFor(n) ==
    IF n >= BufferSize THEN BufferSize ELSE IF n < 2 THEN 1 ELSE n \div 2

\* Variant for mutation: the last, short piece is not counted.
ChunkCountRoundedDown(n, width) == n \div width

ChunkCount(n, width) == (n \div width) + (IF n % width # 0 THEN 1 ELSE 0)

Lstat ==
    /\ pc = "lstat"
    /\ IF file = Missing
       THEN /\ pc' = "return"
            /\ UNCHANGED <<size, buffer, chunks>>
       ELSE /\ size' = Len(file)
            /\ buffer' = [i \in 1 .. BufferFor(Len(file)) |-> Unwritten]
            /\ chunks' = ChunkCount(Len(file), BufferFor(Len(file)))
            /\ pc' = "open"
    /\ UNCHANGED <<file, changes, position, crc>>

Open ==
    /\ pc = "open"
    /\ pc' = IF file = Missing \/ chunks = 0 THEN "return" ELSE "read"
    /\ UNCHANGED <<file, changes, size, buffer, chunks, position, crc>>

ReadSize == IF size - position < Len(buffer) THEN size - position ELSE Len(buffer)
Got      == SubSeq(file, position + 1, position + ReadSize)

\* Variant for mutation: a read that fails is not noticed.
ReadUnchecked ==
    /\ pc = "read"
    /\ LET got == SubSeq(file, position + 1,
                         IF position + ReadSize <= Len(file) THEN position + ReadSize
                         ELSE Len(file))
       IN buffer' = got \o SubSeq(buffer, Len(got) + 1, Len(buffer))
    /\ position' = position + ReadSize
    /\ pc' = "calculate"
    /\ UNCHANGED <<file, changes, size, chunks, crc>>

\* A short read means that the file has shrunk: the function returns what it has.
Read ==
    /\ pc = "read"
    /\ IF position + ReadSize <= Len(file)
       THEN /\ buffer' = Got \o SubSeq(buffer, ReadSize + 1, Len(buffer))
            /\ position' = position + ReadSize
            /\ pc' = "calculate"
       ELSE /\ pc' = "return"
            /\ UNCHANGED <<buffer, position>>
    /\ UNCHANGED <<file, changes, size, chunks, crc>>

\* Calculate(buffer, buffer_size, table, crc).
CrcAfter(before, bytes) ==
    LET p == CRC_32
        after[n \in 0 .. Len(bytes)] ==
            IF n = 0 THEN UndoFinalize(p, before)
            ELSE NextByteByTable(p, after[n - 1], Byte(bytes[n]))
    IN Finalize(p, after[Len(bytes)])

Calculate ==
    /\ pc = "calculate"
    /\ crc' = CrcAfter(crc, buffer)
    /\ chunks' = chunks - 1
    /\ pc' = IF chunks' = 0 THEN "return" ELSE "read"
    /\ UNCHANGED <<file, changes, size, buffer, position>>

\* Another thread or process truncates, rewrites or removes the file.  One that
\* is removed when it is open still reads as it was.
Change ==
    /\ pc # "return"
    /\ changes < MaxChanges
    /\ changes' = changes + 1
    /\ \E content \in Contents \cup {Missing} :
          /\ content # file
          /\ content = Missing => pc \in {"lstat", "open"}
          /\ file' = content
    /\ UNCHANGED <<pc, size, buffer, chunks, position, crc>>

Next == Lstat \/ Open \/ Read \/ Calculate \/ Change

Spec == Init /\ [][Next]_vars
-----------------------------------------------------------------------------
(* Properties.                                                              *)

\* What the CRC of a content is taken of: all of it, up to whole buffers, and behind
\* its end what stands one buffer before.
Image(content) ==
    LET size0 == Len(content)
        width == BufferFor(size0)
    IN [i \in 1 .. size0 + ((-size0) % width) |-> content[IF i <= size0 THEN i ELSE i - width]]

\* The types of the function's locals.
TypeOK ==
    /\ file \in Contents \cup {Missing}
    /\ changes \in 0 .. MaxChanges
    /\ pc \in {"lstat", "open", "read", "calculate", "return"}
    /\ size \in Nat /\ chunks \in Nat /\ position \in 0 .. size
    /\ crc \subseteq 0 .. 31

Written == \A i \in DOMAIN buffer : buffer[i] # Unwritten

\* The CRC is never taken of an element of the buffer that was not written,
\* though the buffer is not initialised and the whole of it is used each time,
\* whatever happens to the file between lstat and the last read.
BufferWritten == pc = "calculate" => Written

\* Why it holds: the first read, if there is any, fills the buffer, for it is not
\* larger than the file was for lstat.
ChecksumInv ==
    /\ file \in Contents \cup {Missing} /\ size \in Nat /\ position \in 0 .. size
    /\ buffer \in Seq(Int)
    /\ pc \in {"lstat", "open"} => position = 0
    /\ pc = "open" => Len(buffer) = BufferFor(size) /\ chunks = ChunkCount(size, Len(buffer))
    /\ pc \in {"read", "calculate"} => file # Missing
    /\ pc = "read" => Written \/ (position = 0 /\ Len(buffer) \in 1 .. size)
    /\ pc = "calculate" => Written

\* When nobody changes the file meanwhile, the checksum is the one CRC-32 of all its
\* bytes and of the stale tail of the last buffer: a function of the content alone,
\* though it is taken in pieces, each resumed from the one before, and of what a
\* reused buffer holds.  So client and server agree on equal files.  Of files that
\* differ it says nothing: their CRCs may collide, and abcde and abcded even stand
\* for one sequence of bytes.
CrcOfPieces ==
    pc = "return" /\ changes = 0 /\ file # Missing => crc = CrcAfter(NoCrc, Image(file))
=============================================================================
