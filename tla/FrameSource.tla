----------------------------- MODULE FrameSource -----------------------------
(***************************************************************************)
(* What the multiplexer relies on of an input, whatever its protocol and   *)
(* its buffer management: Inputs::InputBase.                               *)
(*                                                                         *)
(* The source numbers its frames.  An input holds frames that have         *)
(* arrived, and readFrame gives one of them or silence.  It may pass over  *)
(* frames (lost on the way, too late, thrown away by an overrun), but what *)
(* it gives moves on in the source: no frame is given twice, none after a  *)
(* later one, and none that has not arrived.                               *)
(***************************************************************************)
EXTENDS Integers

CONSTANT LastFrame  \* bound: number of the last frame of the source

VARIABLES
    arrived,  \* the number of the latest frame that has arrived, or -1
    held,     \* the frames the input may still give
    given     \* the frame given last, or -1

vars == <<arrived, held, given>>

Init == arrived = -1 /\ held = {} /\ given = -1

\* Up to frame last has arrived.  Those not held afterwards are passed over.
Hold(last) ==
    LET there == held \union (arrived + 1)..last IN
    /\ arrived' = last
    /\ given' \in {given} \union there
    /\ held' \in SUBSET {f \in there : f > given'}

Next == \E last \in arrived..LastFrame : Hold(last)

Spec == Init /\ [][Next]_vars
=============================================================================
