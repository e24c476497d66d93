---------------------------- MODULE MCMod1Frame -----------------------------
(***************************************************************************)
(* Values of Mod1Frame for TLC.  A byte has two values, so that a word of  *)
(* four bytes counts to 15 and every frame of a few bytes can be tried.    *)
(***************************************************************************)
EXTENDS Mod1Frame

MCByte == {0, 1}

MCMagic == <<1, 0, 1, 1>>

MCToBeBytes(n) == <<n \div 8, (n \div 4) % 2, (n \div 2) % 2, n % 2>>

MCFromBeBytes(w) == 8 * w[1] + 4 * w[2] + 2 * w[3] + w[4]

MCBytes(n) == [1 .. n -> MCByte]

\* All that is too short, and all that follows the magic word up to two
\* chunks and a byte; a header that is nearly the magic word.
MCFrames ==
    {SubSeq(MCMagic, 1, n) : n \in 0 .. 4}
      \cup {MCMagic \o b : b \in UNION {MCBytes(n) : n \in 1 .. 13}}
      \cup {<<1, 0, 1, 0>> \o b : b \in MCBytes(4)}

\* Up to three chunks, empty ones among them; a chunk of the greatest length
\* and one longer; a list of the greatest length and one longer.
MCChunk == {<<>>, <<0>>, <<1>>, <<0, 1>>}

MCZeros(n) == [i \in 1 .. n |-> 0]

MCChunkLists ==
    UNION {[1 .. n -> MCChunk] : n \in 0 .. 3}
      \cup {<<MCZeros(15)>>, <<<<1>>, MCZeros(16)>>}
      \cup {[i \in 1 .. n |-> <<>>] : n \in {15, 16}}

=============================================================================
