----------------------- MODULE MCFIGCarouselPriority -----------------------
(* A small instance of FIGCarouselPriority: FIBs of eight bytes, blocks of *)
(* three to eight, four priorities besides priority 0, and rates that make *)
(* more due than the FIBs carry.  As in assign_figs_to_priorities there is *)
(* no FIG in the last priority.                                            *)
EXTENDS FIGCarouselPriority

CONSTANTS a, b, c, d

MCFIGs == {a, b, c, d}
MCPrio == a :> 1 @@ b :> 2 @@ c :> 2 @@ d :> 3
MCRate == a :> 1 @@ b :> 1 @@ c :> 2 @@ d :> 4 @@ FIG0_0 :> 4 @@ FIG0_7 :> 4
MCPollReset == 1 :> 1 @@ 2 :> 2 @@ 3 :> 4 @@ 4 :> 8
MCContents ==
    a :> {<<>>, <<8>>, <<8, 8>>} @@ b :> {<<4>>, <<4, 4>>}
        @@ c :> {<<4>>, <<3, 5>>} @@ d :> {<<>>, <<3>>, <<8>>}
        @@ FIG0_0 :> {<<3>>} @@ FIG0_7 :> {<<>>, <<3>>}
=============================================================================
