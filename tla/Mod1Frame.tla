----------------------------- MODULE Mod1Frame ------------------------------
(***************************************************************************)
(* The MOD1 frame of method/offchain.rs: a magic word, the number of       *)
(* chunks, and each chunk after its length.  An off-chain DID is the hash  *)
(* of such a frame, so it matters that a list of chunks has one frame and  *)
(* a frame one list of chunks.                                             *)
(*                                                                         *)
(* A behavior either encodes a list of chunks and decodes what it wrote,   *)
(* or decodes bytes from elsewhere.                                        *)
(***************************************************************************)
EXTENDS Integers, Sequences

CONSTANTS
    Byte,
    MAGIC,           \* "MOD1", four bytes
    MaxU32,          \* the largest u32
    ToBeBytes(_),    \* u32::to_be_bytes
    FromBeBytes(_),  \* u32::from_be_bytes
    ChunkLists,      \* lists to encode
    Frames,          \* bytes to decode
    NoList           \* no list: the bytes came from elsewhere

Word == [1 .. 4 -> Byte]

ASSUME MagicAssumption == MAGIC \in Word
ASSUME MaxAssumption == MaxU32 \in Nat
ASSUME WordAssumption ==
    /\ \A n \in 0 .. MaxU32 :
         ToBeBytes(n) \in Word /\ FromBeBytes(ToBeBytes(n)) = n
    /\ \A w \in Word :
         FromBeBytes(w) \in 0 .. MaxU32 /\ ToBeBytes(FromBeBytes(w)) = w
ASSUME InputAssumption ==
    /\ ChunkLists \subseteq Seq(Seq(Byte))
    /\ Frames \subseteq Seq(Byte)
    /\ NoList \notin Seq(Seq(Byte))

HEADER_LENGTH == 8
CHUNK_LENGTH_BYTES == 4

Errors ==
    {"Overflow", "ShortFrame", "BadMagic", "TooManyChunks", "ChunkOverflow",
     "TrailingBytes"}

VARIABLES
    given,   \* the list being encoded, or NoList
    bytes,   \* the frame
    marks,   \* history: where the encoder began each chunk, and where it ended
    pc,
    count,   \* the number of chunks that the header declares
    chunks,  \* the chunks read so far
    starts,  \* the offsets at which they were read; the last is the present one
    answer   \* Ok or an error, once done

vars == <<given, bytes, marks, pc, count, chunks, starts, answer>>

LastOf(s) == s[Len(s)]

Init ==
    /\ \/ given \in ChunkLists /\ bytes = <<>> /\ pc = "header"
       \/ given = NoList /\ bytes \in Frames /\ pc = "decode"
    /\ marks = <<HEADER_LENGTH>>
    /\ count = 0
    /\ chunks = <<>>
    /\ starts = <<HEADER_LENGTH>>
    /\ answer = "none"

Return(a) ==
    /\ pc' = "done"
    /\ answer' = a

(***************************************************************************)
(* compact_value_to_bytes.                                                 *)
(***************************************************************************)
\* Faulty variant: the number of chunks is not checked against its field.
WriteHeaderUnchecked ==
    /\ pc = "header"
    /\ bytes' = MAGIC \o ToBeBytes(Len(given))
    /\ pc' = "write"
    /\ UNCHANGED <<given, marks, count, chunks, starts, answer>>

WriteHeader ==
    /\ pc = "header"
    /\ IF Len(given) > MaxU32
       THEN Return("Overflow") /\ UNCHANGED bytes
       ELSE /\ bytes' = MAGIC \o ToBeBytes(Len(given))
            /\ pc' = "write"
            /\ UNCHANGED answer
    /\ UNCHANGED <<given, marks, count, chunks, starts>>

ChunkDue == given[Len(marks)]

WriteChunk ==
    /\ pc = "write" /\ Len(marks) <= Len(given)
    /\ IF Len(ChunkDue) > MaxU32
       THEN Return("Overflow") /\ UNCHANGED <<bytes, marks>>
       ELSE /\ bytes' = bytes \o ToBeBytes(Len(ChunkDue)) \o ChunkDue
            /\ marks' = Append(marks, LastOf(marks) + CHUNK_LENGTH_BYTES + Len(ChunkDue))
            /\ UNCHANGED <<pc, answer>>
    /\ UNCHANGED <<given, count, chunks, starts>>

Written ==
    /\ pc = "write" /\ Len(marks) > Len(given)
    /\ pc' = "decode"
    /\ UNCHANGED <<given, bytes, marks, count, chunks, starts, answer>>

(***************************************************************************)
(* compact_value_from_bytes.  Offsets count from zero, sequences from one. *)
(***************************************************************************)
WordAt(b, offset) == [j \in 1 .. 4 |-> b[offset + j]]

ReadU32(offset) == FromBeBytes(WordAt(bytes, offset))

\* Faulty variant: takes it that no chunk is empty.
MaxChunkCountUnlessEmpty ==
    (Len(bytes) - HEADER_LENGTH) \div (CHUNK_LENGTH_BYTES + 1)

MaxChunkCount == (Len(bytes) - HEADER_LENGTH) \div CHUNK_LENGTH_BYTES

HasMagic == \A i \in 1 .. 4 : bytes[i] = MAGIC[i]

ReadHeader ==
    /\ pc = "decode"
    /\ \/ /\ Len(bytes) < HEADER_LENGTH
          /\ Return("ShortFrame") /\ UNCHANGED count
       \/ /\ Len(bytes) >= HEADER_LENGTH /\ ~ HasMagic
          /\ Return("BadMagic") /\ UNCHANGED count
       \/ /\ Len(bytes) >= HEADER_LENGTH /\ HasMagic
          /\ ReadU32(4) > MaxChunkCount
          /\ Return("TooManyChunks") /\ UNCHANGED count
       \/ /\ Len(bytes) >= HEADER_LENGTH /\ HasMagic
          /\ ReadU32(4) <= MaxChunkCount
          /\ count' = ReadU32(4)
          /\ pc' = "read"
          /\ UNCHANGED answer
    /\ UNCHANGED <<given, bytes, marks, chunks, starts>>

Offset == LastOf(starts)

LengthFits == Offset + CHUNK_LENGTH_BYTES <= Len(bytes)

ChunkEnd == Offset + CHUNK_LENGTH_BYTES + ReadU32(Offset)

ReadChunk ==
    /\ pc = "read" /\ Len(chunks) < count
    /\ \/ /\ ~ LengthFits
          /\ Return("ShortFrame") /\ UNCHANGED <<chunks, starts>>
       \/ /\ LengthFits /\ ChunkEnd > Len(bytes)
          /\ Return("ChunkOverflow") /\ UNCHANGED <<chunks, starts>>
       \/ /\ LengthFits /\ ChunkEnd <= Len(bytes)
          /\ chunks' = Append(chunks, SubSeq(bytes, Offset + CHUNK_LENGTH_BYTES + 1, ChunkEnd))
          /\ starts' = Append(starts, ChunkEnd)
          /\ UNCHANGED <<pc, answer>>
    /\ UNCHANGED <<given, bytes, marks, count>>

\* Faulty variant: bytes may follow the last chunk.
FinishAnywhere ==
    /\ pc = "read" /\ Len(chunks) = count
    /\ Return("Ok")
    /\ UNCHANGED <<given, bytes, marks, count, chunks, starts>>

Finish ==
    /\ pc = "read" /\ Len(chunks) = count
    /\ Return(IF Offset # Len(bytes) THEN "TrailingBytes" ELSE "Ok")
    /\ UNCHANGED <<given, bytes, marks, count, chunks, starts>>

Next ==
    \/ WriteHeader \/ WriteChunk \/ Written
    \/ ReadHeader \/ ReadChunk \/ Finish

Spec == Init /\ [][Next]_vars

(***************************************************************************)
(* What a frame is: where everything lies in it.                           *)
(***************************************************************************)
LiesAt(b, offset, w, n) == \A j \in 1 .. n : b[offset + j] = w[j]

IsHeader(b, n) ==
    /\ Len(b) >= HEADER_LENGTH
    /\ LiesAt(b, 0, MAGIC, 4)
    /\ LiesAt(b, 4, ToBeBytes(n), 4)

\* A chunk lies between two offsets, after its length.
ChunkLies(c, b, from, to) ==
    /\ to = from + CHUNK_LENGTH_BYTES + Len(c)
    /\ to <= Len(b)
    /\ LiesAt(b, from, ToBeBytes(Len(c)), CHUNK_LENGTH_BYTES)
    /\ LiesAt(b, from + CHUNK_LENGTH_BYTES, c, Len(c))

\* The chunks lie in b one after the other; s says where.
LieIn(cs, b, s) ==
    /\ Len(s) = Len(cs) + 1
    /\ s[1] = HEADER_LENGTH
    /\ \A i \in 1 .. Len(cs) : ChunkLies(cs[i], b, s[i], s[i + 1])

IsFrameOf(b, cs, s) ==
    /\ IsHeader(b, Len(cs))
    /\ LieIn(cs, b, s)
    /\ LastOf(s) = Len(b)

Fits(cs) ==
    /\ Len(cs) <= MaxU32
    /\ \A i \in 1 .. Len(cs) : Len(cs[i]) <= MaxU32

TypeOK ==
    /\ given \in Seq(Seq(Byte)) \cup {NoList}
    /\ bytes \in Seq(Byte)
    /\ marks \in Seq(Nat)
    /\ pc \in {"header", "write", "decode", "read", "done"}
    /\ count \in 0 .. MaxU32
    /\ chunks \in Seq(Seq(Byte))
    /\ starts \in Seq(Nat)
    /\ answer \in Errors \cup {"none", "Ok"}

\* Bytes are accepted only if they are, to the last byte, the frame of the
\* chunks that are returned: nothing is skipped, read twice or left over, so
\* that one list of chunks has one frame and one state one hash.
AcceptsOnlyFrames ==
    answer = "Ok" => IsFrameOf(bytes, chunks, starts)

\* What compact_value_to_bytes writes is read back as it was given, and it
\* refuses a list only if a length does not fit its field.
ReadsWhatItWrote ==
    pc = "done" /\ given # NoList =>
        IF Fits(given) THEN answer = "Ok" /\ chunks = given
                       ELSE answer = "Overflow"

=============================================================================
