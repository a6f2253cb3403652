--------------------------- MODULE MCInitialisers ---------------------------
(***************************************************************************)
(* Initialisers with numbers, strings around the length of the arrays,     *)
(* arrays, records and unions in each other, and records of variable size; *)
(* tables of up to two entries under any keys, and of three in a row.      *)
(***************************************************************************)
EXTENDS Initialisers

Char   == Integer(1)
Short  == Integer(2)
Inner  == Record("struct", "inner", <<[name |-> "a", at |-> 0, t |-> Char],
                                      [name |-> "b", at |-> 1, t |-> Char]>>, 2, 0)
Padded == Record("struct", "padded", <<[name |-> "a", at |-> 0, t |-> Char],
                                       [name |-> "b", at |-> 2, t |-> Short],
                                       [name |-> "c", at |-> 4, t |-> Short]>>, 6, 0)
Outer  == Record("struct", "outer", <<[name |-> "a", at |-> 0, t |-> Inner],
                                      [name |-> "b", at |-> 2, t |-> Array(Char, 3)],
                                      [name |-> "c", at |-> 6, t |-> Short]>>, 8, 0)
Linked == Record("struct", "linked", <<[name |-> "a", at |-> 0, t |-> Ptr],
                                       [name |-> "b", at |-> 2, t |-> Short]>>, 4, 0)
Either == Record("union", "either", <<[name |-> "a", at |-> 0, t |-> Short],
                                      [name |-> "b", at |-> 0, t |-> Array(Char, 3)]>>, 4, 0)
Tail1  == Record("struct", "tail", <<[name |-> "a", at |-> 0, t |-> Char],
                                     [name |-> "b", at |-> 1, t |-> VarArray(Char)]>>, 1, 1)
Tails  == Record("struct", "tails", <<[name |-> "a", at |-> 0, t |-> Short],
                                      [name |-> "b", at |-> 2, t |-> Tail1]>>, 3, 1)

Made     == {Short, Array(Char, 3), Array(Short, 3), Array(Inner, 2), Padded,
             Outer, Linked, Either, VarArray(Char), Tail1, Tails}
MCCtypes == Made \cup {Char, Ptr, Inner}
MCNames  == {"a", "b", "c"}

Leaves   == {Num(0), Num(7), Str(<<1>>), Str(<<1, 2, 3>>), Str(<<1, 2, 3, 4>>)}
MCKeys   == {Pos(1), Pos(2), Named("a"), Named("b")}
Tables(keys, values) ==
  {Table(<<>>)} \cup {Table(<<<<k, v>>>>) : k \in keys, v \in values}
    \cup UNION {{Table(<<<<k, v>>, <<l, w>>>>) : l \in keys \ {k}, v, w \in values} : k \in keys}
Rows(values) == {TableOf(r) : r \in [1..3 -> values]}

Flat   == Tables(MCKeys, Leaves) \cup Rows({Num(7), Num(8), Str(<<1>>)})
Inside == Tables({Pos(1), Pos(2)}, {Num(7)}) \cup Rows({Num(9)})
            \cup {Num(7), Str(<<1, 2, 3>>), Cdata("inner", <<8, 9>>)}
Deep   == Tables(MCKeys, Inside)
            \cup Rows({Cdata("inner", <<8, 9>>), Num(7), Str(<<1, 2>>)})
Values1 == Leaves \cup {Nil} \cup Flat \cup Deep

MCNewArgs(t) ==
  LET some == {Nil, Num(7), Str(<<1, 2>>), Table(<<>>), Cdata("inner", <<8, 9>>)}
      args == {<<>>} \cup {<<v>> : v \in Values1} \cup {<<v, w>> : v, w \in some}
  IN  IF t \notin Made THEN {}
      ELSE IF Unsized(t) THEN {<<Num(n)>> \o a : n \in {0, 3}, a \in args} ELSE args

MCAssignArgs ==
  {Nil, Num(6), Str(<<>>), Str(<<5>>), Str(<<4, 5, 6>>), Table(<<>>)}
    \cup Tables({Pos(1), Pos(2)}, {Num(6)})
    \cup {Table(<<<<Pos(1), Num(6)>>, <<Pos(2), Table(<<>>)>>>>)}

MCValues == Values1 \cup MCAssignArgs \cup {Num(3), Num(8), Num(9), Str(<<1, 2>>)} \cup Inside
=============================================================================
