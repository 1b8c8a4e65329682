------------------------------ MODULE EtiFrame ------------------------------
(***************************************************************************)
(* The ETI(NI) frame that DabMultiplexer::mux_frame puts together, in      *)
(* words of four bytes, and a reader that finds its way through a frame by *)
(* the fields of its header alone.  An ensemble here is a transmission     *)
(* mode and the subchannels in the order of their start addresses, each    *)
(* with an id and the words of its stream in a frame.                      *)
(***************************************************************************)
EXTENDS Integers, Sequences, SequencesExt

CONSTANT BufferWords     \* of a frame of constant size, with its padding

\* A stream is a multiple of 64 bits; TPL and the bytes within a word are
\* left out.
StreamsBefore(subchannels, i) ==
    LET Sum[k \in 0..Len(subchannels)] == IF k = 0 THEN 0 ELSE Sum[k - 1] + subchannels[k].words
    IN Sum[i - 1]

FICL(mode) == IF mode = 3 THEN 32 ELSE 24
MID(mode) == IF mode = 4 THEN 0 ELSE mode
FL(e) == 1 + FICL(e.mode) + Len(e.subchannels)
           + StreamsBefore(e.subchannels, Len(e.subchannels) + 1)

\* What the carousel returns: 30 bytes and a CRC for each of its blocks.
FibWords(mode) == (IF mode = 3 THEN 4 ELSE 3) * 8

\* The position where the data of subchannel i is read to.
StreamAt(e, i) ==
    Len(e.subchannels) + 3 + FibWords(e.mode) + StreamsBefore(e.subchannels, i)

\* After all the data, an end of frame and a timestamp overwrite what is there.
Content(e, counter, w) ==
    LET nst == Len(e.subchannels)
        IsStream(i) == w \in StreamAt(e, i)..(StreamAt(e, i) + e.subchannels[i].words - 1)
    IN  IF w = FL(e) + 2 THEN [eof |-> TRUE]
        ELSE IF w = FL(e) + 3 THEN [tist |-> counter]
        ELSE IF w = 0 THEN [fsync |-> counter % 2]
        ELSE IF w = 1 THEN [fct |-> counter % 250, nst |-> nst, fp |-> counter % 8,
                            mid |-> MID(e.mode), fl |-> FL(e)]
        ELSE IF w < nst + 2
        THEN [scid |-> e.subchannels[w - 1].id, stl |-> e.subchannels[w - 1].words \div 2]
        ELSE IF w = nst + 2 THEN [mnsc |-> counter % 4]
        ELSE IF \E i \in 1..nst : IsStream(i)
        THEN LET i == CHOOSE i \in 1..nst : IsStream(i)
             IN  [stream |-> e.subchannels[i].id, word |-> w - StreamAt(e, i)]
        ELSE IF w < nst + 3 + FibWords(e.mode) THEN [fic |-> w - nst - 3]
        ELSE [zero |-> TRUE]

FrameSize(e) == FL(e) + 4
Frame(e, counter) == [w \in 0..(FrameSize(e) - 1) |-> Content(e, counter, w)]

-----------------------------------------------------------------------------
(***************************************************************************)
(* The reader, of ETS 300 799: what it takes for the FIC, for the stream   *)
(* with a given id, for the end of the frame and for the timestamp.        *)
(***************************************************************************)
FicOf(eti) ==
    LET length == IF eti[1].mid = 3 THEN 32 ELSE 24
    IN  [w \in 0..(length - 1) |-> eti[eti[1].nst + 3 + w]]

StreamOf(eti, id) ==
    LET i == CHOOSE i \in 1..eti[1].nst : eti[i + 1].scid = id
        Lengths[k \in 0..eti[1].nst] ==
            IF k = 0 THEN 0 ELSE Lengths[k - 1] + 2 * eti[k + 1].stl
        first == 3 + eti[1].nst + (IF eti[1].mid = 3 THEN 32 ELSE 24) + Lengths[i - 1]
    IN  [w \in 0..(2 * eti[i + 1].stl - 1) |-> eti[first + w]]

EndOf(eti) == eti[2 + eti[1].fl]
TistOf(eti) == eti[3 + eti[1].fl]

\* The first and the last word of every part are where the reader looks.
SameEnds(part, Expected(_), length) ==
    /\ DOMAIN part = 0..(length - 1)
    /\ \A w \in {0, length - 1} : part[w] = Expected(w)

ReadsBack(e, counter) ==
    LET eti == Frame(e, counter) IN
    /\ FrameSize(e) <= BufferWords
    /\ SameEnds(FicOf(eti), LAMBDA w : [fic |-> w], 8 * (IF e.mode = 3 THEN 4 ELSE 3))
    /\ \A s \in ToSet(e.subchannels) :
          SameEnds(StreamOf(eti, s.id), LAMBDA w : [stream |-> s.id, word |-> w], s.words)
    /\ EndOf(eti) = [eof |-> TRUE]
    /\ TistOf(eti) = [tist |-> counter]
=============================================================================
