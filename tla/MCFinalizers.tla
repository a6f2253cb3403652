----------------------------- MODULE MCFinalizers -----------------------------
(***************************************************************************)
(* Two cdata, one of them a function pointer, and one C function, under    *)
(* both versions of Lua.                                                   *)
(***************************************************************************)
EXTENDS Finalizers

CONSTANTS c1, c2, f1

MCCdata == {c1, c2}
MCClosures == {f1}
MCPointers == {c1}
MCVersions == {"5.1", "5.2"}
=============================================================================
