---------------------------- MODULE MCDeclarations ----------------------------
(***************************************************************************)
(* Constant expressions with integers of 8 bits: any three tokens; texts   *)
(* of nine with numbers and ?:, of seven with brackets and -, of five with *)
(* one operator of each level, of four with all.  Declarations: all        *)
(* spellings of the base with one derivation, int, void and ip with three, *)
(* pairs with one each; arrays as long as six of the expressions.          *)
(***************************************************************************)
EXTENDS Declarations, TLC

MCNumbers   == {0, 3}
MCNames     == {"A", "int", "char"}
MCConstants == "A" :> -2
MCTypeSizes == ("int" :> 4) @@ ("char" :> 1)
MCCastTypes == {"int"}

Most   == {Number(0), Number(3), Tok("?"), Tok(":")}
Often  == {Tok(t) : t \in {"(", ")", "-"}}
Seldom ==
    {Tok(t) : t \in {"*", "%", "+", ">>", "<=", ">", ">=", "!=", "!", "~"}}
        \cup {Name(n) : n \in {"char", "sizeof", "alignof"}}
MCMaxLen(tok) ==
    CASE tok \in Most   -> 9
      [] tok \in Often  -> 7
      [] tok \in Seldom -> 4
      [] OTHER          -> 5

MCLengths == {
    <<Number(3)>>, <<Tok("-"), Name("A")>>, <<Name("A")>>,
    <<Tok("("), Name("int"), Tok(")"), Number(3)>>,
    <<Number(3), Tok("-"), Number(0)>>,
    <<Number(0), Tok("?"), Number(0), Tok(":"), Number(3)>> }

Integer == Leaf(<<"int">>, FALSE)
MCParameters == {<<>>, <<Pointer(FALSE, Leaf(<<"char">>, TRUE)), Integer>>,
    <<Pointer(FALSE, Function(<<Integer>>, FALSE, Leaf(<<"void">>, FALSE)))>>,
    <<Array("", Integer), Function(<<>>, FALSE, Integer)>>}
=============================================================================
