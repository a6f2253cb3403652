-------------------------- MODULE MCFunctionCdata --------------------------
(***************************************************************************)
(* FunctionCdata with two cdata, two callbacks and two closures; a careful *)
(* program with three calls under way, others that break rules with two.   *)
(***************************************************************************)
EXTENDS FunctionCdata, TLC

CONSTANTS c1, c2, k1, k2, cl1, cl2, f1, f2, strlen

MCCdatas   == {c1, c2}
MCBlocks   == {k1, k2}
MCClosures == {cl1, cl2}
MCLuaFns   == {f1, f2}
MCCFns     == {strlen}
MCPrograms == {{}, {"refree", "dangling"}, {"active", "finalizer"}, {"copy"}}
MCSymmetry == Permutations(MCCdatas) \cup Permutations(MCBlocks)
              \cup Permutations(MCClosures)

MCMaxStack(m) == IF m = {} THEN 3 ELSE 2
=============================================================================
