------------------------------ MODULE MCPointers ------------------------------
(***************************************************************************)
(* Computing with 3 bits for int32_t and 5 for int64_t and addresses;      *)
(* memory with char a[2], const char k[1], char* p[2], const char* q[1],   *)
(* char** pp[1], struct {char c; const char k; char* p;} s and a const one. *)
(***************************************************************************)
EXTENDS Pointers, TLC

MCBits == "int32" :> 3 @@ "int64" :> 5 @@ "intptr" :> 5
MCLiterals ==
    {Value(Ctype(t, u), n) : t \in {"int64", "intptr"}, u \in BOOLEAN, n \in {-16, -1, 0, 3, 15}}
    \cup {Value(Ctype("int32", u), n) : u \in BOOLEAN, n \in {-4, -1, 2}}
    \cup {Value(Number, n) : n \in {-5, 0, 2}}
    \cup {Value(FunctionPointer, n) : n \in {0, 9}}
    \cup {Value(PointerTo("int8", 1), n) : n \in {0, -2, 9}}
    \cup {Value([PointerTo("int8", 1) EXCEPT !.pointers = 2], 9), Value(PointerTo("struct", 3), 9),
          Value(PointerTo("void", 0), 9), Value([PointerTo("void", 0) EXCEPT !.null = TRUE], 0),
          Value(Ctype("double", FALSE), 1)}

Char(pointers, const) == Type("int8", 1, pointers, const)
Struct(pointers, const) == Type("struct", 4, pointers, const)
Object(at, ct, count) == [at |-> at, ct |-> ct, count |-> count]
MCObjects == {
    Object(2, Char(0, {}), 2), Object(4, Char(0, {0}), 1),
    Object(6, Char(1, {}), 2), Object(10, Char(1, {1}), 1), Object(12, Char(2, {}), 1),
    Object(16, Struct(0, {}), 1), Object(20, Struct(0, {0}), 1) }
MCMembers ==
    "c" :> [offset |-> 0, ct |-> Char(0, {})] @@ "k" :> [offset |-> 1, ct |-> Char(0, {0})]
        @@ "p" :> [offset |-> 2, ct |-> Char(1, {})]
MCTypes == {
    Char(1, {}), Char(1, {1}), Char(1, {0}), Char(2, {}), Char(2, {1, 2}),
    Struct(1, {}), Struct(1, {1}), Type("void", 0, 1, {}) }
=============================================================================
