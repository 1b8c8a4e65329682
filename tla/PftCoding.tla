------------------------------ MODULE PftCoding ------------------------------
(***************************************************************************)
(* How edi::PFT cuts an AF packet into fragments, with or without          *)
(* Reed-Solomon parity, and what EdiDecoder::AFBuilder makes of those that *)
(* arrive.  Bytes are known by their positions; a chunk with at most       *)
(* Parity erasures is repaired.                                            *)
(***************************************************************************)
EXTENDS Integers, FiniteSets, FiniteSetsExt

CONSTANTS
    Sizes,       \* of the AF packets
    ChunkLens,   \* values of chunk_len
    Fecs,        \* values of fec
    MaxPayload   \* of a fragment without Reed-Solomon, 1400 in the code

CONSTANT
    MaxLost      \* bound on the fragments lost, one after the other

Parity == 48

VARIABLES size, m_k, m_m, lost

vars == <<size, m_k, m_m, lost>>

CeilDiv(a, b) == (a + b - 1) \div b

-----------------------------------------------------------------------------
(* The sender *)

\* Protect: chunks of nearly equal length, the last one padded with zeros.
NumChunks == CeilDiv(size, m_k)
ChunkLen == CeilDiv(size, NumChunks)
ZeroPad == NumChunks * ChunkLen - size
BlockSize == NumChunks * (ChunkLen + Parity)

\* Mutant: a fragment for each one that may be lost, and none for the rest.
LargestWithoutOne == (NumChunks * Parity) \div m_m

\* ProtectAndFragment: a fragment is small enough that m_m of them may be lost.
Largest == (NumChunks * Parity) \div (m_m + 1)
NumFragments == IF m_m > 0 THEN CeilDiv(BlockSize, Largest) ELSE CeilDiv(size, MaxPayload)
FragmentSize == CeilDiv(IF m_m > 0 THEN BlockSize ELSE size, NumFragments)
Min2(a, b) == IF a < b THEN a ELSE b
SizeOf(j) ==
    IF m_m > 0 THEN FragmentSize ELSE Min2(FragmentSize, size - j * FragmentSize)

\* The fields of the fragment headers.
Header(j) ==
    [fcount |-> NumFragments, fec |-> m_m > 0, plen |-> SizeOf(j),
     rsk |-> IF m_m > 0 THEN ChunkLen ELSE 0, rsz |-> IF m_m > 0 THEN ZeroPad ELSE 0]

-----------------------------------------------------------------------------
(* The decoder, from the header of a fragment that is not the last *)

Received == (0..(NumFragments - 1)) \ lost
Reference == Header(CHOOSE j \in Received : \A i \in Received : j <= i)

\* AFBuilder::canAttemptToDecode.
Cmax(h) == (h.fcount * h.plen) \div (h.rsk + Parity)
LeastFragments(h) == h.fcount - (Cmax(h) * Parity) \div h.plen
CanAttempt ==
    \/ lost = {}
    \/ /\ Received \notin {{}, {NumFragments - 1}}
       /\ Reference.fec /\ Cardinality(Received) >= LeastFragments(Reference)

\* Positions below x that fragment j carries, the block being dealt out to the fragments in turn.
Dealt(h, x, j) == (x + h.fcount - 1 - j) \div h.fcount
Erasures(h, i) ==
    LET from == i * (h.rsk + Parity)
        to == Min2(from + h.rsk + Parity, h.fcount * h.plen)
    IN  MapThenSumSet(LAMBDA j : Dealt(h, to, j) - Dealt(h, from, j), lost)

\* extractAF: nothing is tried if one chunk has too many erasures.
Repairs(h) == \A i \in 0..Cmax(h) : Erasures(h, i) <= Parity

\* The size of what extractAF returns.
Extracted(h) ==
    IF h.fec THEN Cmax(h) * h.rsk - h.rsz
    ELSE MapThenSumSet(LAMBDA j : SizeOf(j), Received)

-----------------------------------------------------------------------------
\* A packet of one fragment is never taken apart by the decoder, see EdiPft.
Init ==
    /\ size \in Sizes /\ m_k \in ChunkLens /\ m_m \in Fecs
    /\ NumFragments > 1
    /\ lost = {}

\* The network loses fragments of a burst: as many as hit the same chunk most often.
Lose ==
    /\ Cardinality(lost) < MaxLost
    /\ \E j \in Received :
          /\ lost # {} => (j - 1) % NumFragments \in lost
          /\ lost' = lost \union {j}
    /\ UNCHANGED <<size, m_k, m_m>>

Next == Lose
Spec == Init /\ [][Next]_vars

-----------------------------------------------------------------------------
\* "How many lost fragments can be recovered by Reed-Solomon" (doc/advanced.mux): the
\* decoder tries, no chunk has too many erasures, and the packet has its size again.
Recovers ==
    Cardinality(lost) <= m_m =>
        /\ CanAttempt
        /\ Reference.fec => Repairs(Reference)
        /\ Extracted(Reference) = size
=============================================================================
