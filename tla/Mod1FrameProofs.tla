-------------------------- MODULE Mod1FrameProofs ---------------------------
(***************************************************************************)
(* Theorems about Mod1Frame: for every alphabet, list of chunks and string *)
(* of bytes, encoding and decoding are inverse to one another.             *)
(***************************************************************************)
EXTENDS Mod1Frame, SequenceTheorems, TLAPS

-----------------------------------------------------------------------------
(* Words and chunks in a string of bytes.                                  *)

LEMMA WordIsSeq ==
    ASSUME NEW w \in Word
    PROVE  w \in Seq(Byte) /\ Len(w) = 4
<1>1. w \in [1 .. 4 -> Byte]
  BY DEF Word
<1>2. w \in Seq(Byte)
  <2>1. w \in UNION {[1 .. n -> Byte] : n \in Nat}
    BY <1>1
  <2> QED
    BY <2>1, SeqDef, Zenon
<1>3. DOMAIN w = 1 .. Len(w) /\ Len(w) \in Nat
  BY <1>2, LenProperties
<1>4. 1 .. 4 = 1 .. Len(w)
  BY <1>1, <1>3
<1> QED
  BY <1>2, <1>3, <1>4

LEMMA ReadWord ==
    ASSUME NEW b \in Seq(Byte), NEW o \in Nat, o + 4 <= Len(b)
    PROVE  /\ WordAt(b, o) \in Word
           /\ LiesAt(b, o, WordAt(b, o), 4)
           /\ \A w \in Word : LiesAt(b, o, w, 4) => WordAt(b, o) = w
<1>1. \A j \in 1 .. 4 : b[o + j] \in Byte
  BY ElementOfSeq
<1> QED
  BY <1>1 DEF WordAt, Word, LiesAt

LEMMA LengthWord ==
    ASSUME NEW n \in 0 .. MaxU32
    PROVE  /\ ToBeBytes(n) \in Word
           /\ ToBeBytes(n) \in Seq(Byte)
           /\ Len(ToBeBytes(n)) = 4
           /\ FromBeBytes(ToBeBytes(n)) = n
  BY WordAssumption, WordIsSeq

\* What was written stays where it is when more is written after it.
LEMMA ChunkLiesStill ==
    ASSUME NEW b \in Seq(Byte), NEW t \in Seq(Byte), NEW c \in Seq(Byte),
           NEW from \in Nat, NEW to \in Nat, ChunkLies(c, b, from, to)
    PROVE  ChunkLies(c, b \o t, from, to)
<1>1. \A i \in 1 .. Len(b) : (b \o t)[i] = b[i]
  BY ConcatProperties
<1>2. Len(b) <= Len(b \o t)
  BY ConcatProperties, LenProperties
<1>3. Len(c) \in Nat
  BY LenProperties
<1> QED
  BY <1>1, <1>2, <1>3 DEF ChunkLies, LiesAt, CHUNK_LENGTH_BYTES

LEMMA WriteOneChunk ==
    ASSUME NEW b \in Seq(Byte), NEW c \in Seq(Byte), Len(c) <= MaxU32
    PROVE  LET b2 == b \o ToBeBytes(Len(c)) \o c
           IN  /\ b2 \in Seq(Byte)
               /\ Len(b2) = Len(b) + 4 + Len(c)
               /\ ChunkLies(c, b2, Len(b), Len(b2))
               /\ \A d \in Seq(Byte) : \A from, to \in Nat :
                    ChunkLies(d, b, from, to) => ChunkLies(d, b2, from, to)
               /\ \A i \in 1 .. Len(b) : b2[i] = b[i]
<1> DEFINE w == ToBeBytes(Len(c))
           b1 == b \o w
           b2 == b1 \o c
<1>1. Len(b) \in Nat /\ Len(c) \in Nat /\ Len(c) \in 0 .. MaxU32
  BY LenProperties, MaxAssumption
<1>2. w \in Seq(Byte) /\ Len(w) = 4
  BY <1>1, LengthWord
<1> HIDE DEF w
<1>3. /\ b1 \in Seq(Byte) /\ Len(b1) = Len(b) + 4
      /\ \A i \in 1 .. Len(b) : b1[i] = b[i]
      /\ \A j \in 1 .. 4 : b1[Len(b) + j] = w[j]
  <2>1. /\ b1 \in Seq(Byte) /\ Len(b1) = Len(b) + Len(w)
        /\ \A i \in 1 .. Len(b) + Len(w) :
             b1[i] = IF i <= Len(b) THEN b[i] ELSE w[i - Len(b)]
    BY <1>2, ConcatProperties, Zenon
  <2> HIDE DEF b1
  <2>2. ASSUME NEW j \in 1 .. 4
        PROVE  b1[Len(b) + j] = w[j]
    <3>1. /\ Len(b) + j \in 1 .. Len(b) + Len(w)
          /\ ~ (Len(b) + j <= Len(b))
          /\ (Len(b) + j) - Len(b) = j
      BY <1>1, <1>2
    <3> QED
      BY <2>1, <3>1
  <2>3. ASSUME NEW i \in 1 .. Len(b)
        PROVE  b1[i] = b[i]
    BY <1>1, <1>2, <2>1
  <2> QED
    BY <1>2, <2>1, <2>2, <2>3
<1> HIDE DEF b1
<1>4. /\ b2 \in Seq(Byte) /\ Len(b2) = Len(b) + 4 + Len(c)
      /\ \A i \in 1 .. Len(b1) : b2[i] = b1[i]
      /\ \A j \in 1 .. Len(c) : b2[Len(b) + 4 + j] = c[j]
  <2>1. /\ b2 \in Seq(Byte) /\ Len(b2) = Len(b1) + Len(c)
        /\ \A i \in 1 .. Len(b1) + Len(c) :
             b2[i] = IF i <= Len(b1) THEN b1[i] ELSE c[i - Len(b1)]
    BY <1>3, ConcatProperties, Zenon
  <2> HIDE DEF b2
  <2>2. ASSUME NEW j \in 1 .. Len(c)
        PROVE  b2[Len(b) + 4 + j] = c[j]
    <3>1. /\ Len(b) + 4 + j \in 1 .. Len(b1) + Len(c)
          /\ ~ (Len(b) + 4 + j <= Len(b1))
          /\ (Len(b) + 4 + j) - Len(b1) = j
      BY <1>1, <1>3
    <3> QED
      BY <2>1, <3>1
  <2>3. ASSUME NEW i \in 1 .. Len(b1)
        PROVE  b2[i] = b1[i]
    BY <1>1, <1>3, <2>1
  <2> QED
    BY <1>3, <2>1, <2>2, <2>3
<1>5. \A d \in Seq(Byte) : \A from, to \in Nat :
        ChunkLies(d, b, from, to) => ChunkLies(d, b2, from, to)
  <2>1. \A d \in Seq(Byte) : \A from, to \in Nat :
          ChunkLies(d, b, from, to) => ChunkLies(d, b1, from, to)
    BY <1>2, ChunkLiesStill DEF b1
  <2> QED
    BY <1>3, <2>1, ChunkLiesStill
<1> HIDE DEF b2
<1>6. \A i \in 1 .. Len(b) : b2[i] = b[i]
  BY <1>1, <1>3, <1>4
<1>7. ChunkLies(c, b2, Len(b), Len(b2))
  <2>1. LiesAt(b2, Len(b), w, 4)
    BY <1>1, <1>3, <1>4 DEF LiesAt
  <2>2. LiesAt(b2, Len(b) + 4, c, Len(c))
    BY <1>4 DEF LiesAt
  <2> QED
    BY <1>1, <1>4, <2>1, <2>2 DEF ChunkLies, CHUNK_LENGTH_BYTES, w
<1> QED
  BY <1>4, <1>5, <1>6, <1>7 DEF b2, b1, w

LEMMA ReadOneChunk ==
    ASSUME NEW b \in Seq(Byte), NEW o \in Nat, o + 4 <= Len(b),
           o + 4 + FromBeBytes(WordAt(b, o)) <= Len(b)
    PROVE  LET n == FromBeBytes(WordAt(b, o))
               c == SubSeq(b, o + 4 + 1, o + 4 + n)
           IN  /\ n \in 0 .. MaxU32
               /\ c \in Seq(Byte)
               /\ Len(c) = n
               /\ ChunkLies(c, b, o, o + 4 + n)
<1> DEFINE w == WordAt(b, o)
           n == FromBeBytes(w)
           c == SubSeq(b, o + 4 + 1, o + 4 + n)
<1>1. w \in Word /\ LiesAt(b, o, w, 4)
  BY ReadWord
<1>2. n \in 0 .. MaxU32 /\ ToBeBytes(n) = w
  BY <1>1, WordAssumption
<1>3. n \in Nat
  BY <1>2, MaxAssumption
<1> HIDE DEF w, n
<1>4. o + 4 + n <= Len(b) /\ Len(b) \in Nat
  BY LenProperties DEF n, w
<1>5. \A i \in o + 4 + 1 .. o + 4 + n : b[i] \in Byte
  BY <1>3, <1>4, ElementOfSeq
<1>6. /\ c \in Seq(Byte)
      /\ Len(c) = IF o + 4 + 1 <= o + 4 + n THEN (o + 4 + n) - (o + 4 + 1) + 1 ELSE 0
      /\ \A i \in 1 .. (o + 4 + n) - (o + 4 + 1) + 1 : c[i] = b[o + 4 + 1 + i - 1]
  BY <1>3, <1>5, SubSeqProperties
<1> HIDE DEF c
<1>7. Len(c) = n /\ \A i \in 1 .. n : c[i] = b[o + 4 + i]
  BY <1>3, <1>6
<1>8. ChunkLies(c, b, o, o + 4 + n)
  <2>1. LiesAt(b, o, ToBeBytes(Len(c)), 4)
    BY <1>1, <1>2, <1>7
  <2>2. LiesAt(b, o + 4, c, Len(c))
    BY <1>7 DEF LiesAt
  <2> QED
    BY <1>3, <1>4, <1>7, <2>1, <2>2 DEF ChunkLies, CHUNK_LENGTH_BYTES
<1> QED
  BY <1>2, <1>6, <1>7, <1>8 DEF c, n, w

\* The decoder has no choice where a chunk lies.
LEMMA ChunkDetermined ==
    ASSUME NEW b \in Seq(Byte), NEW c \in Seq(Byte), Len(c) <= MaxU32,
           NEW o \in Nat, NEW e \in Nat, ChunkLies(c, b, o, e)
    PROVE  /\ o + 4 <= Len(b)
           /\ FromBeBytes(WordAt(b, o)) = Len(c)
           /\ SubSeq(b, o + 4 + 1, o + 4 + Len(c)) = c
<1>1. Len(c) \in Nat /\ Len(b) \in Nat /\ Len(c) \in 0 .. MaxU32
  BY LenProperties, MaxAssumption
<1>2. /\ e = o + 4 + Len(c) /\ e <= Len(b)
      /\ LiesAt(b, o, ToBeBytes(Len(c)), 4)
      /\ LiesAt(b, o + 4, c, Len(c))
  BY DEF ChunkLies, CHUNK_LENGTH_BYTES
<1>3. o + 4 <= Len(b)
  BY <1>1, <1>2
<1>4. WordAt(b, o) = ToBeBytes(Len(c))
  BY <1>1, <1>2, <1>3, ReadWord, LengthWord
<1>5. FromBeBytes(WordAt(b, o)) = Len(c)
  BY <1>1, <1>4, LengthWord
<1>6. o + 4 + FromBeBytes(WordAt(b, o)) <= Len(b)
  BY <1>2, <1>5
<1>7. /\ SubSeq(b, o + 4 + 1, o + 4 + Len(c)) \in Seq(Byte)
      /\ Len(SubSeq(b, o + 4 + 1, o + 4 + Len(c))) = Len(c)
      /\ ChunkLies(SubSeq(b, o + 4 + 1, o + 4 + Len(c)), b, o, o + 4 + Len(c))
  BY <1>3, <1>5, <1>6, ReadOneChunk
<1> DEFINE d == SubSeq(b, o + 4 + 1, o + 4 + Len(c))
<1> HIDE DEF d
<1>8. d \in Seq(Byte) /\ Len(d) = Len(c) /\ LiesAt(b, o + 4, d, Len(c))
  BY <1>7 DEF d, ChunkLies, CHUNK_LENGTH_BYTES
<1>9. \A i \in 1 .. Len(c) : c[i] = d[i]
  BY <1>2, <1>8 DEF LiesAt
<1>10. d = c
  BY <1>8, <1>9, SeqEqual
<1> QED
  BY <1>3, <1>5, <1>10 DEF d

-----------------------------------------------------------------------------
(* The inductive invariant.                                                *)

\* The first n chunks of a list lie in b at s.
LieUpTo(n, cs, b, s) ==
    /\ s[1] = HEADER_LENGTH
    /\ \A i \in 1 .. n : ChunkLies(cs[i], b, s[i], s[i + 1])

Fresh == chunks = <<>> /\ starts = <<HEADER_LENGTH>> /\ count = 0

\* While encoding: what was written is the frame so far, and fits.
Encoding ==
    pc \in {"header", "write"} =>
        /\ given # NoList
        /\ Fresh
        /\ pc = "header" => marks = <<HEADER_LENGTH>> /\ bytes = <<>>
        /\ pc = "write" =>
             /\ Len(given) <= MaxU32
             /\ Len(marks) \in 1 .. Len(given) + 1
             /\ LastOf(marks) = Len(bytes)
             /\ Len(bytes) >= HEADER_LENGTH + CHUNK_LENGTH_BYTES * (Len(marks) - 1)
             /\ IsHeader(bytes, Len(given))
             /\ LieUpTo(Len(marks) - 1, given, bytes, marks)
             /\ \A i \in 1 .. Len(marks) - 1 : Len(given[i]) <= MaxU32

\* What was encoded is a frame, with room for its chunks.
Encoded ==
    pc \in {"decode", "read"} /\ given # NoList =>
        /\ Fits(given)
        /\ IsFrameOf(bytes, given, marks)
        /\ Len(bytes) >= HEADER_LENGTH + CHUNK_LENGTH_BYTES * Len(given)

\* While decoding: what was read is where it was written.
Decoding ==
    /\ pc = "decode" => Fresh
    /\ pc = "read" =>
         /\ IsHeader(bytes, count)
         /\ LieIn(chunks, bytes, starts)
         /\ Len(chunks) <= count
    /\ pc = "read" /\ given # NoList =>
         /\ count = Len(given)
         /\ \A i \in 1 .. Len(chunks) : chunks[i] = given[i]
         /\ \A i \in 1 .. Len(starts) : starts[i] = marks[i]

IInv ==
    /\ TypeOK
    /\ answer # "none" <=> pc = "done"
    /\ Encoding
    /\ Encoded
    /\ Decoding
    /\ AcceptsOnlyFrames
    /\ ReadsWhatItWrote

LEMMA InitFrames == Init => IInv
<1> SUFFICES ASSUME Init
             PROVE  IInv
  OBVIOUS
<1>1. TypeOK
  <2>1. <<8>> \in Seq(Nat)
    OBVIOUS
  <2>2. chunks \in Seq(Seq(Byte)) /\ (bytes = <<>> => bytes \in Seq(Byte))
    BY EmptySeq DEF Init
  <2> QED
    BY InputAssumption, MaxAssumption, <2>1, <2>2 DEF Init, TypeOK, HEADER_LENGTH
<1>2. given \in ChunkLists => given # NoList
  BY InputAssumption
<1> QED
  BY <1>1, <1>2 DEF Init, IInv, Encoding, Encoded, Decoding, Fresh, AcceptsOnlyFrames,
     ReadsWhatItWrote

LEMMA HeaderWritten ==
    ASSUME NEW n \in 0 .. MaxU32
    PROVE  LET b == MAGIC \o ToBeBytes(n)
           IN  b \in Seq(Byte) /\ Len(b) = 8 /\ IsHeader(b, n)
<1> DEFINE w == ToBeBytes(n)
           b == MAGIC \o w
<1>1. /\ w \in Seq(Byte) /\ Len(w) = 4
      /\ MAGIC \in Seq(Byte) /\ Len(MAGIC) = 4
  BY LengthWord, MagicAssumption, WordIsSeq
<1> HIDE DEF w
<1>2. /\ b \in Seq(Byte) /\ Len(b) = Len(MAGIC) + Len(w)
      /\ \A i \in 1 .. Len(MAGIC) + Len(w) :
           b[i] = IF i <= Len(MAGIC) THEN MAGIC[i] ELSE w[i - Len(MAGIC)]
  BY <1>1, ConcatProperties, Zenon
<1> HIDE DEF b
<1>3. \A j \in 1 .. 4 : b[0 + j] = MAGIC[j]
  BY <1>1, <1>2
<1>4. ASSUME NEW j \in 1 .. 4
      PROVE  b[4 + j] = w[j]
  <2>1. 4 + j \in 1 .. 8 /\ ~ (4 + j <= 4) /\ (4 + j) - 4 = j
    OBVIOUS
  <2> QED
    BY <1>1, <1>2, <2>1
<1> QED
  BY <1>1, <1>2, <1>3, <1>4 DEF IsHeader, LiesAt, HEADER_LENGTH, b, w

LEMMA HeaderStays ==
    ASSUME NEW b, NEW b2, NEW n, IsHeader(b, n), Len(b) \in Nat, Len(b2) \in Nat,
           Len(b) <= Len(b2), \A i \in 1 .. Len(b) : b2[i] = b[i]
    PROVE  IsHeader(b2, n)
<1>1. \A j \in 1 .. 4 : 0 + j \in 1 .. Len(b) /\ 4 + j \in 1 .. Len(b)
  BY DEF IsHeader, HEADER_LENGTH
<1> QED
  BY <1>1 DEF IsHeader, LiesAt, HEADER_LENGTH

LEMMA NextFrames == IInv /\ [Next]_vars => IInv'
<1> SUFFICES ASSUME IInv, [Next]_vars
             PROVE  IInv'
  OBVIOUS
<1> USE DEF IInv
<1>0. /\ bytes \in Seq(Byte) /\ Len(bytes) \in Nat
      /\ chunks \in Seq(Seq(Byte)) /\ Len(chunks) \in Nat
      /\ marks \in Seq(Nat) /\ Len(marks) \in Nat
      /\ starts \in Seq(Nat) /\ Len(starts) \in Nat
      /\ MaxU32 \in Nat
      /\ given # NoList =>
           /\ given \in Seq(Seq(Byte)) /\ Len(given) \in Nat
           /\ \A i \in 1 .. Len(given) : given[i] \in Seq(Byte) /\ Len(given[i]) \in Nat
  BY LenProperties, ElementOfSeq, MaxAssumption DEF TypeOK
<1>1. CASE WriteHeader
  <2>1. given # NoList /\ Fresh /\ marks = <<HEADER_LENGTH>> /\ bytes = <<>>
    BY <1>1 DEF WriteHeader, Encoding
  <2>2. CASE Len(given) > MaxU32
    <3>1. ~ Fits(given)
      BY <1>0, <2>1, <2>2 DEF Fits
    <3> QED
      BY <1>1, <2>1, <2>2, <3>1 DEF WriteHeader, Return, TypeOK, Errors, Encoding, Encoded,
         Decoding, AcceptsOnlyFrames, ReadsWhatItWrote
  <2>3. CASE ~ (Len(given) > MaxU32)
    <3>1. Len(given) \in 0 .. MaxU32
      BY <1>0, <2>1, <2>3
    <3>2. /\ bytes' \in Seq(Byte) /\ Len(bytes') = 8 /\ IsHeader(bytes', Len(given))
          /\ pc' = "write"
          /\ UNCHANGED <<given, marks, count, chunks, starts, answer>>
      BY <1>1, <2>3, <3>1, HeaderWritten DEF WriteHeader
    <3>3. Len(marks) = 1 /\ marks[1] = 8
      BY <2>1 DEF HEADER_LENGTH
    <3> QED
      BY <1>0, <1>1, <2>1, <3>1, <3>2, <3>3 DEF WriteHeader, TypeOK, Encoding, Encoded,
         Decoding, AcceptsOnlyFrames, ReadsWhatItWrote, Fresh, LieUpTo, LastOf,
         HEADER_LENGTH, CHUNK_LENGTH_BYTES
  <2> QED
    BY <2>2, <2>3
<1>2. CASE WriteChunk
  <2> DEFINE k == Len(marks)
             c == given[k]
  <2>1. /\ pc = "write" /\ given # NoList /\ Fresh /\ answer = "none"
        /\ Len(given) <= MaxU32 /\ k \in 1 .. Len(given)
        /\ marks[k] = Len(bytes)
        /\ Len(bytes) >= 8 + 4 * (k - 1)
        /\ IsHeader(bytes, Len(given))
        /\ LieUpTo(k - 1, given, bytes, marks)
        /\ \A i \in 1 .. k - 1 : Len(given[i]) <= MaxU32
    BY <1>0, <1>2 DEF WriteChunk, Encoding, LastOf, HEADER_LENGTH, CHUNK_LENGTH_BYTES
  <2>2. c \in Seq(Byte) /\ Len(c) \in Nat
    BY <1>0, <2>1
  <2>3. CASE Len(c) > MaxU32
    <3>1. ~ Fits(given)
      BY <1>0, <2>1, <2>2, <2>3 DEF Fits
    <3> QED
      BY <1>2, <2>1, <2>3, <3>1 DEF WriteChunk, ChunkDue, Return, TypeOK, Errors, Encoding,
         Encoded, Decoding, AcceptsOnlyFrames, ReadsWhatItWrote
  <2>4. CASE ~ (Len(c) > MaxU32)
    <3> DEFINE b2 == bytes \o ToBeBytes(Len(c)) \o c
               m2 == Append(marks, Len(b2))
    <3>1. /\ b2 \in Seq(Byte)
          /\ Len(b2) = Len(bytes) + 4 + Len(c)
          /\ ChunkLies(c, b2, Len(bytes), Len(b2))
          /\ \A d \in Seq(Byte) : \A from, to \in Nat :
               ChunkLies(d, bytes, from, to) => ChunkLies(d, b2, from, to)
          /\ \A i \in 1 .. Len(bytes) : b2[i] = bytes[i]
      <4>1. Len(c) <= MaxU32
        BY <1>0, <2>2, <2>4
      <4> QED
        BY <1>0, <2>2, <4>1, WriteOneChunk, Zenon
    <3>2. /\ bytes' = b2 /\ marks' = m2
          /\ UNCHANGED <<given, pc, answer, count, chunks, starts>>
      BY <1>0, <1>2, <2>1, <2>4, <3>1 DEF WriteChunk, ChunkDue, LastOf, CHUNK_LENGTH_BYTES
    <3> HIDE DEF b2
    <3>3. Len(b2) \in Nat /\ Len(bytes) <= Len(b2) /\ Len(b2) >= 8 + 4 * ((k + 1) - 1)
      <4> HIDE DEF c
      <4>1. k \in Nat /\ Len(c) \in Nat /\ Len(b2) = Len(bytes) + 4 + Len(c)
        BY <1>0, <2>2, <3>1
      <4> HIDE DEF k
      <4> QED
        BY <1>0, <2>1, <4>1
    <3>4. /\ m2 \in Seq(Nat) /\ Len(m2) = k + 1 /\ m2[k + 1] = Len(b2)
          /\ \A i \in 1 .. k : m2[i] = marks[i]
      BY <1>0, <2>1, <3>3, AppendProperties
    <3> HIDE DEF m2
    <3>5. LieUpTo(k, given, b2, m2)
      <4>0. k \in Nat \ {0} /\ k <= Len(given) /\ Len(given) \in Nat /\ marks[k] = Len(bytes)
        <5> HIDE DEF k
        <5> QED
          BY <1>0, <2>1
      <4> HIDE DEF k
      <4>1. m2[1] = HEADER_LENGTH
        BY <2>1, <3>4 DEF LieUpTo
      <4>2. ASSUME NEW i \in 1 .. k - 1
            PROVE  ChunkLies(given[i], b2, m2[i], m2[i + 1])
        <5>1. /\ given[i] \in Seq(Byte) /\ marks[i] \in Nat /\ marks[i + 1] \in Nat
              /\ m2[i] = marks[i] /\ m2[i + 1] = marks[i + 1]
          <6> HIDE DEF c
          <6>1. i \in 1 .. Len(given) /\ i \in 1 .. k /\ i + 1 \in 1 .. k
            BY <4>0
          <6> QED
            BY <1>0, <2>1, <3>4, <6>1, ElementOfSeq DEF k
        <5>2. ChunkLies(given[i], bytes, marks[i], marks[i + 1])
          BY <2>1 DEF LieUpTo
        <5> QED
          BY <3>1, <5>1, <5>2
      <4>3. ChunkLies(given[k], b2, m2[k], m2[k + 1])
        <5>1. m2[k] = Len(bytes)
          BY <3>4, <4>0
        <5> QED
          BY <3>1, <3>4, <5>1 DEF k
      <4> QED
        BY <2>1, <4>1, <4>2, <4>3 DEF LieUpTo
    <3>6. IsHeader(b2, Len(given))
      BY <1>0, <2>1, <3>1, <3>3, HeaderStays
    <3>8. \A i \in 1 .. k : Len(given[i]) <= MaxU32
      BY <1>0, <2>1, <2>2, <2>4
    <3>9. Encoding'
      <4>1. Len(m2) - 1 = k /\ Len(m2) \in 1 .. Len(given) + 1
        BY <1>0, <2>1, <3>4
      <4> QED
        BY <1>0, <2>1, <3>2, <3>4, <3>3, <3>5, <3>6, <3>8, <4>1 DEF Encoding, Fresh,
           LastOf, HEADER_LENGTH, CHUNK_LENGTH_BYTES
    <3> QED
      BY <1>0, <2>1, <3>1, <3>2, <3>4, <3>9 DEF TypeOK, Encoded, Decoding,
         AcceptsOnlyFrames, ReadsWhatItWrote
  <2> QED
    BY <2>3, <2>4
<1>3. CASE Written
  <2>1. /\ pc = "write" /\ given # NoList /\ Fresh /\ answer = "none" /\ pc' = "decode"
        /\ Len(given) <= MaxU32 /\ Len(marks) = Len(given) + 1
        /\ LastOf(marks) = Len(bytes)
        /\ Len(bytes) >= HEADER_LENGTH + CHUNK_LENGTH_BYTES * Len(given)
        /\ IsHeader(bytes, Len(given))
        /\ LieUpTo(Len(given), given, bytes, marks)
        /\ \A i \in 1 .. Len(given) : Len(given[i]) <= MaxU32
        /\ UNCHANGED <<given, bytes, marks, count, chunks, starts, answer>>
    <3>1. Len(marks) = Len(given) + 1 /\ Len(marks) - 1 = Len(given)
      BY <1>0, <1>3 DEF Written, Encoding
    <3> QED
      BY <1>3, <3>1 DEF Written, Encoding
  <2>2. Fits(given) /\ IsFrameOf(bytes, given, marks)
    BY <2>1 DEF Fits, IsFrameOf, LieIn, LieUpTo
  <2> QED
    BY <2>1, <2>2 DEF TypeOK, Encoding, Encoded, Decoding, Fresh, Fits, IsFrameOf, IsHeader,
       LieIn, AcceptsOnlyFrames, ReadsWhatItWrote
<1>4. CASE ReadHeader
  <2> DEFINE n == ReadU32(4)
  <2>1. /\ pc = "decode" /\ Fresh /\ answer = "none"
        /\ UNCHANGED <<given, bytes, marks, chunks, starts>>
    BY <1>4 DEF ReadHeader, Decoding
  <2>2. ASSUME Len(bytes) >= 8
        PROVE  /\ n \in 0 .. MaxU32
               /\ LiesAt(bytes, 4, ToBeBytes(n), 4)
               /\ \A m \in 0 .. MaxU32 : LiesAt(bytes, 4, ToBeBytes(m), 4) => m = n
    <3>1. /\ WordAt(bytes, 4) \in Word
          /\ LiesAt(bytes, 4, WordAt(bytes, 4), 4)
          /\ \A w \in Word : LiesAt(bytes, 4, w, 4) => WordAt(bytes, 4) = w
      BY <1>0, <2>2, ReadWord
    <3> QED
      BY <3>1, WordAssumption DEF ReadU32
  <2>3. ASSUME given # NoList
        PROVE  /\ Len(bytes) >= 8 /\ HasMagic
               /\ n = Len(given) /\ n <= MaxChunkCount
    <3>1. /\ IsHeader(bytes, Len(given)) /\ Fits(given)
          /\ Len(bytes) >= 8 + 4 * Len(given)
      BY <2>1, <2>3 DEF Encoded, IsFrameOf, HEADER_LENGTH, CHUNK_LENGTH_BYTES
    <3>2. Len(bytes) >= 8 /\ LiesAt(bytes, 4, ToBeBytes(Len(given)), 4) /\ HasMagic
      BY <3>1 DEF IsHeader, HasMagic, LiesAt, HEADER_LENGTH
    <3>3. Len(given) \in 0 .. MaxU32
      BY <1>0, <2>3, <3>1 DEF Fits
    <3>4. n = Len(given)
      BY <2>2, <3>2, <3>3
    <3>5. Len(given) <= (Len(bytes) - 8) \div 4
      BY <1>0, <2>3, <3>1
    <3> QED
      BY <3>2, <3>4, <3>5 DEF MaxChunkCount, HEADER_LENGTH, CHUNK_LENGTH_BYTES
  <2> HIDE DEF n
  <2>4. CASE pc' = "done"
    <3>1. given = NoList
      BY <1>0, <1>4, <2>2, <2>3, <2>4 DEF ReadHeader, Return, MaxChunkCount, HEADER_LENGTH,
         CHUNK_LENGTH_BYTES, n
    <3>2. count' = count /\ answer' \in {"ShortFrame", "BadMagic", "TooManyChunks"}
      BY <1>4, <2>4 DEF ReadHeader, Return
    <3> QED
      BY <2>1, <2>4, <3>1, <3>2 DEF TypeOK, Errors, Encoding, Encoded, Decoding,
         AcceptsOnlyFrames, ReadsWhatItWrote
  <2>5. CASE pc' = "read"
    <3>1. /\ Len(bytes) >= 8 /\ HasMagic /\ count' = n /\ answer' = answer
      BY <1>4, <2>5 DEF ReadHeader, Return, HEADER_LENGTH, n
    <3>2. n \in 0 .. MaxU32 /\ IsHeader(bytes, n)
      BY <2>2, <3>1 DEF IsHeader, LiesAt, HasMagic, HEADER_LENGTH
    <3>3. /\ Len(chunks) = 0 /\ Len(starts) = 1 /\ starts[1] = HEADER_LENGTH
      BY <2>1 DEF Fresh
    <3>4. LieIn(chunks, bytes, starts)
      BY <3>3 DEF LieIn
    <3>5. given # NoList => n = Len(given) /\ marks[1] = HEADER_LENGTH
      BY <2>1, <2>3 DEF Encoded, IsFrameOf, LieIn
    <3> QED
      BY <1>0, <2>1, <2>5, <3>1, <3>2, <3>3, <3>4, <3>5 DEF TypeOK, Encoding, Encoded,
         Decoding, AcceptsOnlyFrames, ReadsWhatItWrote
  <2> QED
    BY <1>4, <2>4, <2>5 DEF ReadHeader, Return
<1>5. CASE ReadChunk
  <2> DEFINE k == Len(chunks)
             o == starts[k + 1]
             n == FromBeBytes(WordAt(bytes, o))
  <2>1. /\ pc = "read" /\ answer = "none" /\ k < count
        /\ IsHeader(bytes, count) /\ LieIn(chunks, bytes, starts)
        /\ UNCHANGED <<given, bytes, marks, count>>
        /\ count \in Nat
    BY <1>0, <1>5 DEF ReadChunk, Decoding, TypeOK
  <2>2. Len(starts) = k + 1 /\ o \in Nat /\ Offset = o
    <3>1. Len(starts) = k + 1
      BY <2>1 DEF LieIn
    <3>2. starts[k + 1] \in Nat
      BY <1>0, <3>1, ElementOfSeq
    <3> QED
      BY <3>1, <3>2 DEF Offset, LastOf
  <2>3. ASSUME given # NoList
        PROVE  /\ k + 1 \in 1 .. Len(given)
               /\ marks[k + 1] = o
               /\ o + 4 <= Len(bytes)
               /\ n = Len(given[k + 1])
               /\ SubSeq(bytes, o + 4 + 1, o + 4 + n) = given[k + 1]
               /\ marks[k + 2] = o + 4 + n
               /\ o + 4 + n <= Len(bytes)
    <3>1. /\ Fits(given) /\ IsFrameOf(bytes, given, marks) /\ count = Len(given)
          /\ marks[k + 1] = o
      BY <1>0, <2>1, <2>2, <2>3 DEF Encoded, Decoding
    <3>2. k + 1 \in 1 .. Len(given)
      BY <1>0, <2>1, <3>1
    <3>3. /\ ChunkLies(given[k + 1], bytes, marks[k + 1], marks[(k + 1) + 1])
          /\ Len(given[k + 1]) <= MaxU32
      BY <3>1, <3>2 DEF IsFrameOf, LieIn, Fits
    <3>4. (k + 1) + 1 = k + 2
      BY <1>0
    <3>5. marks[k + 2] = o + 4 + Len(given[k + 1]) /\ marks[k + 2] <= Len(bytes)
      BY <3>1, <3>3, <3>4 DEF ChunkLies, CHUNK_LENGTH_BYTES
    <3>6. /\ given[k + 1] \in Seq(Byte) /\ Len(given[k + 1]) \in Nat
          /\ marks[k + 2] \in Nat
      BY <1>0, <2>2, <2>3, <3>2, <3>5
    <3>7. ChunkLies(given[k + 1], bytes, o, marks[k + 2])
      BY <3>1, <3>3, <3>4
    <3>8. /\ o + 4 <= Len(bytes)
          /\ n = Len(given[k + 1])
          /\ SubSeq(bytes, o + 4 + 1, o + 4 + Len(given[k + 1])) = given[k + 1]
      BY <1>0, <2>2, <3>3, <3>6, <3>7, ChunkDetermined
    <3> QED
      BY <3>1, <3>2, <3>5, <3>8
  <2>4. CASE pc' = "done"
    <3>1. /\ ~ LengthFits \/ ChunkEnd > Len(bytes)
          /\ UNCHANGED <<chunks, starts>>
          /\ answer' \in {"ShortFrame", "ChunkOverflow"}
      BY <1>5, <2>1, <2>4 DEF ReadChunk, Return
    <3>2. given = NoList
      <4> SUFFICES ASSUME given # NoList
                   PROVE  FALSE
        OBVIOUS
      <4>1. LengthFits
        BY <2>2, <2>3 DEF LengthFits, CHUNK_LENGTH_BYTES
      <4>2. ChunkEnd = o + 4 + n
        BY <2>2 DEF ChunkEnd, ReadU32, CHUNK_LENGTH_BYTES
      <4>3. n \in Nat
        BY <1>0, <2>3
      <4> HIDE DEF n, o
      <4>4. o \in Nat /\ o + 4 + n <= Len(bytes)
        BY <2>2, <2>3
      <4> QED
        BY <1>0, <3>1, <4>1, <4>2, <4>3, <4>4
    <3> QED
      BY <2>1, <2>4, <3>1, <3>2 DEF TypeOK, Errors, Encoding, Encoded, Decoding,
         AcceptsOnlyFrames, ReadsWhatItWrote
  <2>5. CASE pc' = "read"
    <3> DEFINE c == SubSeq(bytes, o + 4 + 1, o + 4 + n)
               e == o + 4 + n
               cs == Append(chunks, c)
               s2 == Append(starts, e)
    <3>1. /\ o + 4 <= Len(bytes) /\ o + 4 + n <= Len(bytes)
          /\ chunks' = cs /\ starts' = s2 /\ answer' = answer
      BY <1>0, <1>5, <2>1, <2>2, <2>5 DEF ReadChunk, Return, LengthFits, ChunkEnd, ReadU32,
         CHUNK_LENGTH_BYTES
    <3>2. /\ n \in 0 .. MaxU32 /\ c \in Seq(Byte) /\ ChunkLies(c, bytes, o, e)
      BY <1>0, <2>2, <3>1, ReadOneChunk
    <3>3. e \in Nat
      BY <1>0, <2>2, <3>2
    <3> HIDE DEF c, e, n
    <3>4. /\ cs \in Seq(Seq(Byte)) /\ Len(cs) = k + 1 /\ cs[k + 1] = c
          /\ \A i \in 1 .. k : cs[i] = chunks[i]
      BY <1>0, <3>2, AppendProperties
    <3>5. /\ s2 \in Seq(Nat) /\ Len(s2) = k + 2 /\ s2[k + 2] = e
          /\ \A i \in 1 .. k + 1 : s2[i] = starts[i]
      BY <1>0, <2>2, <3>3, AppendProperties
    <3> HIDE DEF cs, s2
    <3>6. LieIn(cs, bytes, s2)
      <4>1. s2[1] = HEADER_LENGTH
        BY <1>0, <2>1, <3>5 DEF LieIn
      <4>2. ASSUME NEW i \in 1 .. k
            PROVE  ChunkLies(cs[i], bytes, s2[i], s2[i + 1])
        <5>1. ChunkLies(chunks[i], bytes, starts[i], starts[i + 1])
          BY <2>1 DEF LieIn
        <5>2. i \in 1 .. k + 1 /\ i + 1 \in 1 .. k + 1
          BY <1>0
        <5> QED
          BY <3>4, <3>5, <5>1, <5>2
      <4>3. ChunkLies(cs[k + 1], bytes, s2[k + 1], s2[k + 2])
        <5>1. k + 1 \in 1 .. k + 1
          BY <1>0
        <5> QED
          BY <3>2, <3>4, <3>5, <5>1
      <4>4. \A i \in 1 .. k + 1 : ChunkLies(cs[i], bytes, s2[i], s2[i + 1])
        <5>1. (k + 1) + 1 = k + 2
          BY <1>0
        <5>2. \A i \in 1 .. k + 1 : i \in 1 .. k \/ i = k + 1
          BY <1>0
        <5> QED
          BY <4>2, <4>3, <5>1, <5>2
      <4> QED
        BY <1>0, <3>4, <3>5, <4>1, <4>4 DEF LieIn
    <3>7. given # NoList =>
            /\ \A i \in 1 .. k + 1 : cs[i] = given[i]
            /\ \A i \in 1 .. k + 2 : s2[i] = marks[i]
      <4> SUFFICES ASSUME given # NoList
                   PROVE  /\ \A i \in 1 .. k + 1 : cs[i] = given[i]
                          /\ \A i \in 1 .. k + 2 : s2[i] = marks[i]
        OBVIOUS
      <4>1. cs[k + 1] = given[k + 1] /\ s2[k + 2] = marks[k + 2]
        BY <2>3, <3>4, <3>5 DEF c, e, n
      <4>2. /\ \A i \in 1 .. k : chunks[i] = given[i]
            /\ \A i \in 1 .. k + 1 : starts[i] = marks[i]
        BY <2>1, <2>2 DEF Decoding
      <4>3. ASSUME NEW i \in 1 .. k + 1
            PROVE  cs[i] = given[i]
        <5>1. k \in Nat
          BY <1>0
        <5>2. i \in 1 .. k \/ i = k + 1
          <6> HIDE DEF k
          <6> QED
            BY <5>1
        <5> QED
          BY <3>4, <4>1, <4>2, <5>2
      <4>4. ASSUME NEW i \in 1 .. k + 2
            PROVE  s2[i] = marks[i]
        <5>1. i \in 1 .. k + 1 \/ i = k + 2
          BY <1>0
        <5> QED
          BY <3>5, <4>1, <4>2, <5>1
      <4> QED
        BY <4>3, <4>4
    <3>8. k + 1 <= count
      BY <1>0, <2>1
    <3>9. Decoding'
      BY <2>1, <2>5, <3>1, <3>4, <3>5, <3>6, <3>7, <3>8 DEF Decoding
    <3> QED
      BY <2>1, <2>5, <3>1, <3>4, <3>5, <3>9 DEF TypeOK, Encoding, Encoded,
         AcceptsOnlyFrames, ReadsWhatItWrote
  <2> QED
    BY <1>5, <2>1, <2>4, <2>5 DEF ReadChunk, Return
<1>6. CASE Finish
  <2>1. /\ pc = "read" /\ answer = "none" /\ Len(chunks) = count /\ pc' = "done"
        /\ IsHeader(bytes, count) /\ LieIn(chunks, bytes, starts)
        /\ answer' = IF LastOf(starts) # Len(bytes) THEN "TrailingBytes" ELSE "Ok"
        /\ UNCHANGED <<given, bytes, marks, count, chunks, starts>>
    BY <1>6 DEF Finish, Return, Decoding, Offset
  <2>2. AcceptsOnlyFrames'
    BY <2>1 DEF AcceptsOnlyFrames, IsFrameOf, IsHeader, LieIn, ChunkLies, LiesAt, LastOf
  <2>3. ASSUME given # NoList
        PROVE  answer' = "Ok" /\ Fits(given) /\ chunks = given
    <3>1. /\ Fits(given) /\ IsFrameOf(bytes, given, marks) /\ count = Len(given)
          /\ \A i \in 1 .. Len(chunks) : chunks[i] = given[i]
          /\ \A i \in 1 .. Len(starts) : starts[i] = marks[i]
      BY <2>1, <2>3 DEF Encoded, Decoding
    <3>2. chunks = given
      BY <1>0, <2>1, <2>3, <3>1, SeqEqual
    <3>3. LastOf(starts) = LastOf(marks)
      BY <1>0, <2>1, <3>1 DEF LieIn, IsFrameOf, LastOf
    <3> QED
      BY <2>1, <3>1, <3>2, <3>3 DEF IsFrameOf
  <2> QED
    BY <2>1, <2>2, <2>3 DEF TypeOK, Errors, Encoding, Encoded, Decoding, ReadsWhatItWrote, Fits
<1>7. CASE UNCHANGED vars
  BY <1>7 DEF vars, TypeOK, Encoding, Encoded, Decoding, Fresh, AcceptsOnlyFrames,
     ReadsWhatItWrote, Fits, IsFrameOf, IsHeader, LieIn, LieUpTo, LastOf
<1> QED
  BY <1>1, <1>2, <1>3, <1>4, <1>5, <1>6, <1>7 DEF Next

-----------------------------------------------------------------------------

\* Bytes that are accepted are the frame of the chunks that are returned.
THEOREM FramesAreCanonical == Spec => []AcceptsOnlyFrames
<1>1. Init => IInv
  BY InitFrames
<1>2. IInv /\ [Next]_vars => IInv'
  BY NextFrames
<1>3. IInv => AcceptsOnlyFrames
  BY DEF IInv
<1> QED
  BY <1>1, <1>2, <1>3, PTL DEF Spec

\* Offsets, counts and chunks keep their types: no offset is negative and no
\* byte that is not in the frame gets into a chunk.
THEOREM FrameTypes == Spec => []TypeOK
<1>1. Init => IInv
  BY InitFrames
<1>2. IInv /\ [Next]_vars => IInv'
  BY NextFrames
<1>3. IInv => TypeOK
  BY DEF IInv
<1> QED
  BY <1>1, <1>2, <1>3, PTL DEF Spec

\* Decoding is the inverse of encoding, for lists of any length, and encoding
\* fails only for a list or a chunk longer than a u32 can say.
THEOREM DecodingInvertsEncoding == Spec => []ReadsWhatItWrote
<1>1. Init => IInv
  BY InitFrames
<1>2. IInv /\ [Next]_vars => IInv'
  BY NextFrames
<1>3. IInv => ReadsWhatItWrote
  BY DEF IInv
<1> QED
  BY <1>1, <1>2, <1>3, PTL DEF Spec

=============================================================================
