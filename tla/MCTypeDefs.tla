----------------------------- MODULE MCTypeDefs -----------------------------
(***************************************************************************)
(* TypeDefs with one record (records share nothing but the stack of        *)
(* declarations) and two types made from it.                               *)
(***************************************************************************)
EXTENDS TypeDefs, TLC

CONSTANTS foo, o1, o2

MCNames == {foo}
MCObjs  == {o1, o2}

\* struct { char c; }, struct { int64_t a : 3; }, struct { int n; int v[?]; }
Small    == [size |-> 1, align |-> 0, inc |-> 0, bf |-> FALSE]
Bits     == [size |-> 8, align |-> 7, inc |-> 0, bf |-> TRUE]
Flex     == [size |-> 4, align |-> 3, inc |-> 4, bf |-> FALSE]
MCShapes == {Small, Bits, Flex}

MCSymmetry == Permutations(MCObjs)
=============================================================================
