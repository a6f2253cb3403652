------------------------------ MODULE MCCModules ------------------------------
(***************************************************************************)
(* The process and one library; a function and two variables are declared, *)
(* one more of each can be reached by an asm name.                         *)
(***************************************************************************)
EXTENDS CModules

MCExports(m) == IF m = "C" THEN {"f", "v", "w"} ELSE {"f", "g", "w"}
=============================================================================
