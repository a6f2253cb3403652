----------------------------- MODULE Declarations -----------------------------
(***************************************************************************)
(* Declarations (parser.c parse_root, parse_typedef, parse_type,           *)
(* parse_argument, parse_function): what type a text gives a name.         *)
(*                                                                         *)
(* The parser builds a type from the outside in, without a tree.  It holds *)
(* a pointer to the ctype it is at; an opening bracket puts a function     *)
(* there and moves the pointer on to the function's return type.  Here     *)
(* that is a chain of ctypes, each but the last a function (pointer) that  *)
(* returns the next, and the pointer is at the last.                       *)
(*                                                                         *)
(* C types are trees, and a text is what C's syntax makes of a tree: each  *)
(* behaviour writes the length of an array as ConstExpr does, then one     *)
(* declaration with types that use it.  Asm names are in CModules, bit     *)
(* fields in StructLayout; attributes, records and enums are left out.     *)
(***************************************************************************)
EXTENDS ConstExpr, SequencesExt

CONSTANTS
    LongType,    \* what long is: "int64_t" or "int32_t"
    Lengths,     \* bound: the texts that are written as array lengths
    Parameters,  \* bound: the parameter lists that are written
    Depth,       \* bound: derivations in the type of a single declarator
    None         \* nothing

VARIABLE decl  \* the declaration written, or None

PointerMax == 3  \* POINTER_MAX

-----------------------------------------------------------------------------
(* C: types as trees, and declarators as C writes them. *)

Leaf(n, const) == [k |-> "leaf", name |-> n, const |-> const]
Pointer(const, to) == [k |-> "pointer", const |-> const, to |-> to]
Array(length, of) == [k |-> "array", length |-> length, to |-> of]
Function(params, more, ret) == [k |-> "function", params |-> params, more |-> more, to |-> ret]

\* Arrays have the length that is written, any one (?), or none.
Made(T) ==
    {Pointer(const, T) : const \in BOOLEAN}
    \cup (IF T.k = "function" \/ (T.k = "leaf" /\ T.name = <<"void">>) THEN {}
          ELSE {Array(length, T) : length \in {"text", "?", ""}})
    \cup (IF T.k \in {"function", "array"} THEN {}
          ELSE {Function(params, more, T) : params \in Parameters, more \in BOOLEAN})

RECURSIVE TypesOver(_, _)
TypesOver(n, leaves) ==
    IF n = 0 THEN leaves
    ELSE LET less == TypesOver(n - 1, leaves) IN less \cup UNION {Made(T) : T \in less}

\* The words that name a type in C, as bags written in order, and the type.
CNames == {
    <<<<"char">>, "int8_t">>, <<<<"signed", "char">>, "int8_t">>,
    <<<<"unsigned", "char">>, "uint8_t">>,
    <<<<"short">>, "int16_t">>, <<<<"unsigned", "short">>, "uint16_t">>,
    <<<<"signed", "short", "int">>, "int16_t">>,
    <<<<"unsigned", "short", "int">>, "uint16_t">>,
    <<<<"int">>, "int32_t">>, <<<<"unsigned">>, "uint32_t">>, <<<<"signed">>, "int32_t">>,
    <<<<"unsigned", "int">>, "uint32_t">>,
    <<<<"long">>, LongType>>, <<<<"unsigned", "long">>, "u" \o LongType>>,
    <<<<"signed", "long", "int">>, LongType>>,
    <<<<"long", "long">>, "int64_t">>, <<<<"unsigned", "long", "long">>, "uint64_t">>,
    <<<<"long", "long", "int">>, "int64_t">>,
    <<<<"float">>, "float">>, <<<<"double">>, "double">>,
    <<<<"long", "double">>, "long double">>,
    <<<<"complex", "float">>, "complex float">>, <<<<"complex", "double">>, "complex double">>,
    <<<<"complex", "long", "double">>, "complex long double">>,
    <<<<"void">>, "void">>, <<<<"ip">>, "ip">> }

Orders(words) == {[i \in DOMAIN words |-> words[p[i]]] :
                     p \in {q \in [DOMAIN words -> DOMAIN words] : IsInjective(q)}}
CName(words) == (CHOOSE c \in CNames : words \in Orders(c[1]))[2]
Spellings == UNION {Orders(c[1]) : c \in CNames}

Bracketed(ts) == <<Tok("(")>> \o ts \o <<Tok(")")>>
Const(const) == IF const THEN <<Name("const")>> ELSE <<>>
NameTokens(words) == [i \in DOMAIN words |-> Name(words[i])]
Length(length) ==
    CASE length = "text" -> text [] length = "?" -> <<Tok("?")>> [] length = "" -> <<>>
Separated(texts) ==
    FoldLeft(LAMBDA all, t : IF all = <<>> THEN t ELSE all \o <<Tok(",")>> \o t, <<>>, texts)

\* The base and the declarator of T around what was written of it: declarations
\* look like uses.  named: parameters get names.
RECURSIVE Declarator(_, _, _)
Parameter(T, named) ==
    LET d == Declarator(T, IF named THEN <<Name("y")>> ELSE <<>>, named)
    IN Const(d.base.const) \o NameTokens(d.base.name) \o d.tokens
Declarator(T, inner, named) ==
    CASE T.k = "leaf" -> [base |-> T, tokens |-> inner]
      [] T.k = "pointer" ->
            LET d == <<Tok("*")>> \o Const(T.const) \o inner
            IN Declarator(T.to, IF T.to.k \in {"array", "function"} THEN Bracketed(d) ELSE d,
                          named)
      [] T.k = "array" ->
            Declarator(T.to, inner \o <<Tok("[")>> \o Length(T.length) \o <<Tok("]")>>, named)
      [] T.k = "function" ->
            LET ps == [i \in DOMAIN T.params |-> Parameter(T.params[i], named)]
                all == IF T.more THEN Append(ps, <<Tok("...")>>)
                       ELSE IF ps = <<>> THEN <<<<Name("void")>>>> ELSE ps
            IN Declarator(T.to, inner \o Bracketed(Separated(all)), named)

BaseOf(T) == Declarator(T, <<>>, FALSE).base

\* The type C gives: a parameter that is an array or a function is a pointer,
\* ip is the name of int*.
RECURSIVE Meant(_)
Adjusted(T) ==
    CASE T.k = "array" -> Pointer(FALSE, T.to)
      [] T.k = "function" -> Pointer(FALSE, T)
      [] OTHER -> T
Meant(T) ==
    CASE T.k = "leaf" ->
            IF CName(T.name) = "ip" THEN Pointer(T.const, Leaf("int32_t", FALSE))
            ELSE Leaf(CName(T.name), T.const)
      [] T.k = "array" ->
            Array([any |-> T.length = "?",
                   n |-> IF T.length = "text" THEN {m.val : m \in Meanings(text)} ELSE {0}],
                  Meant(T.to))
      [] T.k = "pointer" -> Pointer(T.const, Meant(T.to))
      [] T.k = "function" ->
            Function([i \in DOMAIN T.params |-> Meant(Adjusted(T.params[i]))], T.more,
                     Meant(T.to))

-----------------------------------------------------------------------------
(* The parser: ctypes. *)

\* const is the set of the bits of const_mask; args is None without a usr table.
Ctype(type) ==
    [type |-> type, pointers |-> 0, const |-> {}, is_array |-> FALSE, size |-> 0,
     variable |-> FALSE, args |-> None, more |-> FALSE]

\* The types table, as far as the texts need it.
Typedefs(name) ==
    IF name = "ip" THEN [Ctype("int32_t") EXCEPT !.pointers = 1] ELSE Ctype(name)

\* Mutant of Shifted: the bits stay where they are.
Unshifted(mask) == mask

\* const_mask <<= 1
Shifted(mask) == {b + 1 : b \in mask}
Pointed(ct) == [ct EXCEPT !.pointers = @ + 1, !.const = Shifted(@)]

\* A parser is at a token of s; chain, name: see above; st: "ok" or "error".
Fails(p) == [p EXCEPT !.st = "error"]
At(p) == p.s[p.at]
Skip(p) == [p EXCEPT !.at = @ + 1]
Expect(p, t) == IF p.st = "ok" /\ At(p) = Tok(t) THEN Skip(p) ELSE Fails(p)
Hole(p) == Last(p.chain)
Fill(p, ct) == [p EXCEPT !.chain = Front(@) \o <<ct>>]

Keywords == {"unsigned", "signed", "short", "char", "long", "int", "double", "float",
             "complex", "register"}
IsKeyword(tok) == tok.t = "name" /\ tok.v \in Keywords

\* The type that a set of words stands for, in the order the code looks at them.
Decoded(words, longs) ==
    LET Has(w) == w \in words
        Sign(t) == IF Has("unsigned") THEN "u" \o t ELSE t
    IN CASE Has("char") -> Sign("int8_t")
         [] ~Has("char") /\ longs > 1 -> Sign("int64_t")
         [] OTHER ->
            CASE Has("complex") -> IF Has("long") THEN "complex long double"
                                   ELSE IF Has("float") THEN "complex float"
                                   ELSE "complex double"
              [] Has("double") /\ ~Has("complex") ->
                    IF Has("long") THEN "long double" ELSE "double"
              [] Has("float") /\ ~Has("complex") -> "float"
              [] OTHER -> CASE Has("short") -> Sign("int16_t")
                            [] Has("long") /\ ~Has("short") -> Sign(LongType)
                            [] OTHER -> Sign("int32_t")

\* parse_type_name: all the keywords from i on, or one name.
RECURSIVE KeywordsEnd(_, _)
KeywordsEnd(s, i) == IF IsKeyword(s[i]) THEN KeywordsEnd(s, i + 1) ELSE i
TypeName(s, i) ==
    LET end == KeywordsEnd(s, i)
        words == {s[j].v : j \in i..(end - 1)} \ {"register"}
    IN IF words = {} THEN [name |-> s[end].v, at |-> end + 1]
       ELSE [name |-> Decoded(words, Cardinality({j \in i..(end - 1) : s[j].v = "long"})),
             at |-> end]

RECURSIVE SkipConst(_, _)
SkipConst(s, i) == IF s[i] = Name("const") THEN SkipConst(s, i + 1) ELSE i

\* parse_type: const before the name counts, const behind it does not.
ParseType(s, i) ==
    LET first == SkipConst(s, i)
        tn == TypeName(s, first)
        ct == Typedefs(tn.name)
    IN [ct |-> IF first > i THEN [ct EXCEPT !.const = @ \cup {0}] ELSE ct,
        at |-> SkipConst(s, tn.at)]

-----------------------------------------------------------------------------
(* The parser: declarators. *)

\* Behind a [.
ParseArray(p) ==
    LET ct == [Pointed(Hole(p)) EXCEPT !.is_array = TRUE]
        e == Constant(p.s, p.at)
    IN IF Hole(p).pointers = PointerMax \/ Hole(p).variable THEN Fails(p)
       ELSE CASE At(p) = Tok("?") -> Expect(Skip(Fill(p, [ct EXCEPT !.variable = TRUE])), "]")
              [] At(p) = Tok("]") -> Skip(Fill(p, [ct EXCEPT !.size = 0]))
              [] OTHER ->
                    IF e.st # "ok" \/ e.val < 0 THEN Fails(p)
                    ELSE Expect([Fill(p, [ct EXCEPT !.size = e.val]) EXCEPT !.at = e.at], "]")

\* The stars behind a bracket; the first makes the function a function pointer.
RECURSIVE ParseStars(_)
TakeStar(p) ==
    IF Hole(p).type = "function"
      THEN Fill(Skip(p), [Hole(p) EXCEPT !.type = "function pointer"])
    ELSE IF Hole(p).pointers = PointerMax THEN Fails(p)
    ELSE Fill(Skip(p), Pointed(Hole(p)))
ParseStars(p) ==
    IF p.st = "ok" /\ At(p) = Tok("*") THEN ParseStars(TakeStar(p)) ELSE p

\* Mutant of Inner: the arguments go to the outermost of the types in between.
InnerFirst(p, ct) == [p EXCEPT !.chain = <<[Head(@) EXCEPT !.args = ct.args]>> \o Tail(@)]

\* The function whose brackets come next is the last of those in between.
Inner(p, ct) == Fill(p, [Hole(p) EXCEPT !.args = ct.args, !.more = ct.more])

RECURSIVE ParseArgument(_), ParseFunction(_), ParseParameters(_, _)

\* parse_argument2, one turn of its loop for each token that it takes.
TakeToken(p) ==
    LET q == Skip(p) IN
    CASE At(p) = Tok("*") ->
            IF Hole(p).pointers = PointerMax THEN Fails(p) ELSE Fill(q, Pointed(Hole(p)))
      [] At(p) = Tok("(") -> ParseFunction(q)
      [] At(p) = Tok("[") -> ParseArray(q)
      [] At(p) = Name("const") -> Fill(q, [Hole(p) EXCEPT !.const = @ \cup {0}])
      [] At(p).t = "name" /\ At(p) # Name("const") -> [q EXCEPT !.name = At(p).v]
ParseArgument(p) ==
    IF p.st = "ok" /\ (At(p) \in {Tok("*"), Tok("("), Tok("[")} \/ At(p).t = "name")
    THEN ParseArgument(TakeToken(p)) ELSE p

\* parse_function: before a name the bracket is around a declarator, behind a
\* name around parameters.
ParseInner(fn) == Expect(Expect(ParseArgument(ParseStars(fn)), ")"), "(")
Returning(p, inner, params) ==
    IF params.st # "ok" THEN Fails(p)
    ELSE [Inner(inner, params) EXCEPT !.at = params.at,
                                      !.chain = Front(p.chain) \o @ \o <<Hole(p)>>]
TakeParameters(p, inner) ==
    IF inner.st # "ok" THEN inner ELSE Returning(p, inner, ParseParameters(inner, <<>>))
ParseFunction(p) ==
    LET fn == [p EXCEPT !.chain = <<Ctype("function")>>]
    IN TakeParameters(p, IF p.name = None THEN ParseInner(fn) ELSE fn)

\* parse_function_arguments, from behind the bracket to behind its end.
Parsed(st, at, args, more) == [st |-> st, at |-> at, args |-> args, more |-> more]
TakeParameter(q, args) ==
    LET arg == <<[Head(q.chain) EXCEPT !.is_array = FALSE]>> \o Tail(q.chain)
    IN IF q.st # "ok" THEN Parsed("error", q.at, args, FALSE)
       ELSE IF arg[1].type = "void" /\ arg[1].pointers = 0
            THEN Parsed(IF args = <<>> /\ At(q) = Tok(")") THEN "ok" ELSE "error",
                        q.at + 1, args, FALSE)
       ELSE ParseParameters(q, Append(args, arg))
ParseParameters(p, args) ==
    LET comma == args # <<>> /\ At(p) = Tok(",")
        i == IF comma THEN p.at + 1 ELSE p.at
        base == ParseType(p.s, i)
    IN IF At(p) = Tok(")") THEN Parsed("ok", p.at + 1, args, FALSE)
       ELSE IF args # <<>> /\ ~comma THEN Parsed("error", i, args, FALSE)
       ELSE IF p.s[i] = Tok("...")
            THEN Parsed(IF p.s[i + 1] = Tok(")") THEN "ok" ELSE "error", i + 2, args, TRUE)
       ELSE IF p.s[i].t # "name" THEN Parsed("error", i, args, FALSE)
       ELSE TakeParameter(ParseArgument([p EXCEPT !.at = base.at, !.chain = <<base.ct>>,
                                                  !.name = None]), args)

-----------------------------------------------------------------------------
(* The parser: lists of declarators. *)

Chain(st, chain) == [st |-> st, chain |-> chain]

\* find_canonical_usr indexes the usr table of every function type.
WithoutTable(chain) ==
    \E i \in 1..Len(chain) :
        chain[i].type \in {"function", "function pointer"} /\ chain[i].args = None

\* What the next declarator starts from: parse_typedef keeps the base, parse_root
\* goes on with the ctype of the one before, and the usr table of the base.
NextBase(ctx, base, chain) ==
    IF ctx = "typedef" THEN base ELSE [Head(chain) EXCEPT !.args = base.args]

RECURSIVE ParseList(_, _, _, _, _)
TakeDeclarator(ctx, base, p) ==
    LET refused == ctx = "typedef" /\ (p.name = None \/ Head(p.chain).variable)
    IN IF p.st # "ok" THEN <<Chain("error", <<>>)>>
       ELSE IF WithoutTable(p.chain) THEN <<Chain("fault", <<>>)>>
       ELSE IF refused THEN <<Chain("error", <<>>)>>
       ELSE IF At(p) = Tok(";") THEN <<Chain("ok", p.chain)>>
       ELSE IF At(p) = Tok(",")
            THEN <<Chain("ok", p.chain)>>
                 \o ParseList(ctx, p.s, p.at + 1, base, NextBase(ctx, base, p.chain))
       ELSE <<Chain("error", <<>>)>>
ParseList(ctx, s, at, base, ct) ==
    TakeDeclarator(ctx, base, ParseArgument([s |-> s, at |-> at, st |-> "ok",
                                             chain |-> <<ct>>, name |-> None]))

ParseDeclaration(ctx, s) ==
    LET base == ParseType(s, 1) IN ParseList(ctx, s, base.at, base.ct, base.ct)

\* The type that a chain of ctypes stands for.
RECURSIVE TypeOf(_)
TypeOf(chain) ==
    LET ct == Head(chain)
        fn == Function([i \in DOMAIN ct.args |-> TypeOf(ct.args[i])], ct.more,
                       TypeOf(Tail(chain)))
        base == CASE ct.type = "function" -> fn
                  [] ct.type = "function pointer" -> Pointer(ct.pointers \in ct.const, fn)
                  [] OTHER -> Leaf(ct.type, ct.pointers \in ct.const)
        level[i \in 0..ct.pointers] ==
            IF i = ct.pointers THEN base
            ELSE IF i = 0 /\ ct.is_array THEN Array([any |-> ct.variable, n |-> {ct.size}], level[1])
            ELSE Pointer(i \in ct.const, level[i + 1])
    IN level[0]

-----------------------------------------------------------------------------
(* The behaviours. *)

InitDeclarations == Init /\ decl = None

\* Types with a common base, written from its words.
Texts(types) ==
    Separated([i \in DOMAIN types |-> Declarator(types[i], <<Name("x")>>, decl.named).tokens])
Text ==
    LET base == BaseOf(decl.types[1])
    IN (IF decl.east THEN NameTokens(base.name) \o Const(base.const)
        ELSE Const(base.const) \o NameTokens(base.name))
       \o Texts(decl.types) \o <<Tok(";")>>

Declare(types, ctx, named, east) ==
    /\ decl' = [types |-> types, ctx |-> ctx, named |-> named, east |-> east]
    /\ UNCHANGED text

Leaves == {Leaf(<<n>>, const) : n \in {"int", "void", "ip"}, const \in BOOLEAN}
Small == TypesOver(1, {Leaf(<<"int">>, FALSE)})

DeclareBase ==
    \E words \in Spellings, const \in BOOLEAN, east \in BOOLEAN, ctx \in {"root", "typedef"} :
    \E T \in TypesOver(1, {Leaf(words, const)}) : Declare(<<T>>, ctx, TRUE, east)
DeclareType ==
    \E T \in TypesOver(Depth, Leaves), named \in BOOLEAN :
        Declare(<<T>>, "root", named, FALSE)
DeclareList ==
    \E T, U \in Small, ctx \in {"root", "typedef"} : Declare(<<T, U>>, ctx, FALSE, FALSE)

NextDeclarations ==
    \/ decl = None /\ Next /\ UNCHANGED decl
    \/ decl = None /\ text \in Lengths /\ (DeclareBase \/ DeclareType \/ DeclareList)

SpecDeclarations == InitDeclarations /\ [][NextDeclarations]_<<text, decl>>

-----------------------------------------------------------------------------
(* Properties. *)

\* Arrays of arrays are outside of what a ctype can say.
RECURSIVE Nested(_)
Nested(T) ==
    CASE T.k = "leaf" -> FALSE
      [] T.k = "array" -> T.to.k = "array" \/ Nested(T.to)
      [] T.k = "pointer" -> Nested(T.to)
      [] T.k = "function" -> Nested(T.to) \/ \E i \in DOMAIN T.params : Nested(T.params[i])
RECURSIVE TakesFunction(_)
TakesFunction(T) ==
    CASE T.k = "leaf" -> FALSE
      [] T.k \in {"array", "pointer"} -> TakesFunction(T.to)
      [] T.k = "function" ->
            TakesFunction(T.to) \/ \E i \in DOMAIN T.params :
                                      T.params[i].k = "function" \/ TakesFunction(T.params[i])

RECURSIVE BaseUnconst(_)
BaseUnconst(T) ==
    IF T.k = "leaf" THEN [T EXCEPT !.const = FALSE]
    ELSE [T EXCEPT !.to = BaseUnconst(@)]

Parse == ParseDeclaration(decl.ctx, Text)

Right(T, r) ==
    /\ r.st # "fault"
    /\ r.st = "ok" => TypeOf(r.chain) = Meant(IF decl.east THEN BaseUnconst(T) ELSE T)

\* A declaration that is accepted gives each name the type that C gives it:
\* pointers, arrays, functions and their returns and parameters in the right
\* order, each const where it belongs (the const behind a base is lost, and
\* is never put elsewhere).  Not so: arrays of arrays, parameters of function
\* type, and the names behind a derived one in a list outside of typedef.
RightOrRefused ==
    decl # None =>
        \A results \in {Parse} : \A i \in DOMAIN results :
            LET T == decl.types[i]
            IN (/\ ~Nested(T) /\ ~TakesFunction(T)
                /\ decl.ctx = "root" => \A j \in 1..(i - 1) : decl.types[j].k = "leaf")
               => Right(T, results[i])

\* Every declaration is accepted whose types a ctype can say: an array only on
\* the outside, at most POINTER_MAX derivations on a base.
RECURSIVE Fits(_, _)
Fits(T, n) ==
    CASE T.k = "leaf" -> n + (IF T.name = <<"ip">> THEN 1 ELSE 0) <= PointerMax
      [] T.k = "pointer" -> T.to.k # "array" /\ Fits(T.to, n + 1)
      [] T.k = "array" -> n = 0 /\ Fits(T.to, 1)
      [] T.k = "function" ->
            n <= PointerMax /\ Fits(T.to, 0) /\
            \A i \in DOMAIN T.params : T.params[i].k # "function" /\ Fits(T.params[i], 0)
Plain(T) == T.k = "leaf"
Accepts ==
    (/\ decl # None
     /\ \A i \in DOMAIN decl.types : Fits(decl.types[i], 0)
     /\ Len(decl.types) = 1 /\ decl.ctx = "root"
     /\ \A m \in Meanings(text) : m.val >= 0)
        => Parse[1].st = "ok"
=============================================================================
