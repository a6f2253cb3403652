---------------------------- MODULE MCCodePages ----------------------------
(***************************************************************************)
(* CodePages with the numbers that make its cases happen: header and link  *)
(* table take 3 of a page of 8, so the globals and one small function      *)
(* share a page with one byte to spare, a larger one needs the next page,  *)
(* and the callback is larger than a granule.                              *)
(***************************************************************************)
EXTENDS CodePages, TLC

CONSTANTS globals, f1, f2, cb, a1, a2, a3, r1, r2

MCFns      == {globals, f1, f2, cb}
MCCallback == {cb}
MCCallback2 == {f2, cb}
MCSize     == (globals :> 1) @@ (f1 :> 1) @@ (f2 :> 2) @@ (cb :> 6)
MCPages    == {a1, a2, a3}
MCRefs     == {r1, r2}
MCSymmetry == Permutations(MCPages) \cup Permutations(MCRefs)
NoFaults   == {}
=============================================================================
