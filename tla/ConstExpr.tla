----------------------------- MODULE ConstExpr -----------------------------
(***************************************************************************)
(* Constant expressions in declarations (parser.c calculate_constant): the *)
(* lengths of arrays, the widths of bitfields, the values of enums and of  *)
(* static const.  A recursive descent without a tree: each level of        *)
(* precedence computes as it parses, on a token it was handed and hands    *)
(* on.                                                                     *)
(*                                                                         *)
(* The behaviours write down an expression, token by token; every state is *)
(* a text that cdef may be given, followed by the ; of its declaration.    *)
(* An int64_t has Width bits here (64 in the code).                        *)
(***************************************************************************)
EXTENDS Integers, Sequences, Bitwise

CONSTANTS
  Numbers,     \* the numbers that are written
  Names,       \* the names: of constants, of types, or of nothing
  constants,   \* the constants table: [some names -> values]
  TypeSizes,   \* [other names -> size]: scalar types, as aligned as large
  CastTypes,   \* the types of these that try_cast lets pass (INT32_TYPE)
  Width,       \* bits of an int64_t
  MaxLen(_),   \* bound: tokens of a text that has this token
  FreeLen      \* bound: tokens of a text that need not look like C

VARIABLE text  \* the tokens before the ;

-----------------------------------------------------------------------------
(* Tokens. *)

Tok(t)    == [t |-> t, v |-> 0]
Number(n) == [t |-> "number", v |-> n]
Name(n)   == [t |-> "name", v |-> n]

Unary   == {"!", "~", "+", "-"}
Binary  == {"*", "/", "%", "+", "-", "<<", ">>", "<", "<=", ">", ">=",
            "==", "!=", "&", "^", "|", "&&", "||"}
Sizeofs == {"sizeof", "alignof"}

Tokens ==
  {Number(n) : n \in Numbers} \cup {Name(n) : n \in Names \cup Sizeofs}
    \cup {Tok(t) : t \in Unary \cup Binary \cup {"(", ")", "?", ":"}}

ASSUME ConstExprAssumption ==
  /\ Width \in Nat \ {0}
  /\ Numbers \subseteq 0..(2^(Width - 1) - 1)
  /\ DOMAIN constants \cap DOMAIN TypeSizes = {}
  /\ CastTypes \subseteq DOMAIN TypeSizes
  /\ DOMAIN constants \cup DOMAIN TypeSizes \subseteq Names \ Sizeofs
  /\ \A tok \in Tokens : MaxLen(tok) \in Nat
  /\ FreeLen \in Nat \ {0}

-----------------------------------------------------------------------------
(* Integers of Width bits. *)

Min64 == -(2^(Width - 1))
Max64 == 2^(Width - 1) - 1

Unsigned(n) == n % 2^Width

Wrap(n)     == LET u == Unsigned(n) IN IF u > Max64 THEN u - 2^Width ELSE u
Bool(b)     == IF b THEN 1 ELSE 0
Abs(n)      == IF n < 0 THEN -n ELSE n

\* C divides towards zero.
Quotient(a, b) == LET q == Abs(a) \div Abs(b) IN IF (a < 0) = (b < 0) THEN q ELSE -q

\* The operators as the processor does them; the count of a shift is reduced.
Compute(op, a, b) ==
  CASE op = "*"  -> Wrap(a * b)
    [] op = "/"  -> Wrap(Quotient(a, b))
    [] op = "%"  -> a - b * Quotient(a, b)
    [] op = "+"  -> Wrap(a + b)
    [] op = "-"  -> Wrap(a - b)
    [] op = "<<" -> Wrap(a * 2^(b % Width))
    [] op = ">>" -> a \div 2^(b % Width)
    [] op = "<"  -> Bool(a < b)
    [] op = "<=" -> Bool(a <= b)
    [] op = ">"  -> Bool(a > b)
    [] op = ">=" -> Bool(a >= b)
    [] op = "==" -> Bool(a = b)
    [] op = "!=" -> Bool(a # b)
    [] op = "&"  -> Wrap(Unsigned(a) & Unsigned(b))
    [] op = "^"  -> Wrap(Unsigned(a) ^^ Unsigned(b))
    [] op = "|"  -> Wrap(Unsigned(a) | Unsigned(b))
    [] op = "&&" -> Bool(a # 0 /\ b # 0)
    [] op = "||" -> Bool(a # 0 \/ b # 0)

ComputeUnary(op, a) ==
  CASE op = "!" -> Bool(a = 0)
    [] op = "~" -> Wrap(-a - 1)
    [] op = "+" -> a
    [] op = "-" -> Wrap(-a)

\* idiv faults on these.
Faults(op, a, b) == op \in {"/", "%"} /\ (b = 0 \/ (a = Min64 /\ b = -1))

-----------------------------------------------------------------------------
(* The parser.  A result is a value and the position of the token behind it *)
(* (the one in tok); an error is a Lua error; a fault ends the process.     *)

Ok(val, at) == [st |-> "ok", val |-> val, at |-> at]
Error       == [st |-> "error", val |-> 0, at |-> 0]
Fault       == [st |-> "fault", val |-> 0, at |-> 0]

\* calculate_constant3 .. 12: the operators of each.
Levels == <<{}, {}, {"*", "/", "%"}, {"+", "-"}, {"<<", ">>"},
            {"<", "<=", ">", ">="}, {"==", "!="}, {"&"}, {"^"}, {"|"},
            {"&&"}, {"||"}>>

\* C's && and || leave out the right operand, parsing and all.
Skips(op, left) == (op = "&&" /\ left = 0) \/ (op = "||" /\ left # 0)

IsType(tok) == tok.t = "name" /\ tok.v \in DOMAIN TypeSizes

\* try_cast behind an open bracket, for a type without a declarator.
IsCast(s, i) == IsType(s[i]) /\ s[i].v \in CastTypes /\ s[i + 1].t = ")"

RECURSIVE Constant(_, _), Level(_, _, _), Loop(_, _, _), Operand(_, _)

\* calculate_constant1: a number, a name, a bracket or a cast, which is ignored.
Primary(s, i) ==
  CASE s[i].t = "number" -> Ok(s[i].v, i + 1)
    [] s[i].t = "name" /\ s[i].v \in DOMAIN constants -> Ok(constants[s[i].v], i + 1)
    [] s[i].t = "(" /\ IsCast(s, i + 1) -> Operand(s, i + 3)
    [] s[i].t = "(" /\ ~IsCast(s, i + 1) ->
         LET r == Constant(s, i + 1)
         IN  IF r.st # "ok" THEN r
             ELSE IF s[r.at].t = ")" THEN Ok(r.val, r.at + 1) ELSE Error
    [] OTHER -> Error

\* calculate_constant2: unary operators and sizeof.
Operand(s, i) ==
  CASE s[i].t \in Unary ->
         LET r == Operand(s, i + 1)
         IN  IF r.st = "ok" THEN Ok(ComputeUnary(s[i].t, r.val), r.at) ELSE r
    [] s[i].t = "name" /\ s[i].v \in Sizeofs ->
         IF s[i + 1].t = "(" /\ IsType(s[i + 2]) /\ s[i + 3].t = ")"
           THEN Ok(TypeSizes[s[i + 2].v], i + 4)
           ELSE Error
    [] OTHER -> Primary(s, i)

\* Mutant: right associative.
LoopRight(s, r, n) ==
  IF r.st # "ok" \/ s[r.at].t \notin Levels[n] THEN r
  ELSE LET op    == s[r.at].t
           right == Level(s, r.at + 1, n)
       IN  IF right.st # "ok" THEN right
           ELSE IF Faults(op, r.val, right.val) THEN Fault
           ELSE Ok(Compute(op, r.val, right.val), right.at)

\* The loop of calculate_constant3 .. 12, with left and tok in r.
Loop(s, r, n) ==
  IF r.st # "ok" \/ s[r.at].t \notin Levels[n] THEN r
  ELSE LET op    == s[r.at].t
           right == Level(s, r.at + 1, n - 1)
       IN  IF Skips(op, r.val) THEN Loop(s, Ok(Bool(op = "||"), r.at + 1), n)
           ELSE IF right.st # "ok" THEN right
           ELSE IF Faults(op, r.val, right.val) THEN Fault
           ELSE Loop(s, Ok(Compute(op, r.val, right.val), right.at), n)

Level(s, i, n) == IF n = 2 THEN Operand(s, i) ELSE Loop(s, Level(s, i, n - 1), n)

\* Mutant: ?: is not right associative.
ConstantOnce(s, i) ==
  LET left   == Level(s, i, 12)
      middle == Constant(s, left.at + 1)
      right  == Level(s, middle.at + 1, 12)
  IN  IF left.st # "ok" \/ s[left.at].t # "?" THEN left
      ELSE IF middle.st # "ok" THEN middle
      ELSE IF s[middle.at].t # ":" THEN Error
      ELSE IF right.st # "ok" THEN right
      ELSE Ok(IF left.val # 0 THEN middle.val ELSE right.val, right.at)

\* calculate_constant13: both branches are computed.
Constant(s, i) ==
  LET left   == Level(s, i, 12)
      middle == Constant(s, left.at + 1)
      right  == Constant(s, middle.at + 1)
  IN  IF left.st # "ok" \/ s[left.at].t # "?" THEN left
      ELSE IF middle.st # "ok" THEN middle
      ELSE IF s[middle.at].t # ":" THEN Error
      ELSE IF right.st # "ok" THEN right
      ELSE Ok(IF left.val # 0 THEN middle.val ELSE right.val, right.at)

\* calculate_constant, and its caller, which wants its ; behind it.
Calculated(s) ==
  LET r == Constant(s \o <<Tok(";")>>, 1)
  IN  IF r.st = "ok" /\ r.at # Len(s) + 1 THEN Error ELSE r

-----------------------------------------------------------------------------
(* What is written down: any tokens, and longer texts with operands where C *)
(* wants one and operators where it wants one; brackets and ?: as they come. *)

Starts == {Number(n) : n \in Numbers} \cup {Name(n) : n \in Names \cup Sizeofs}
            \cup {Tok(t) : t \in Unary \cup {"("}}

EndsOperand(tok) == tok.t \in {"number", "name", ")"}

Follows(last, tok) ==
  IF EndsOperand(last)
    THEN \/ tok \in {Tok(t) : t \in Binary \cup {")", "?", ":"}}
         \/ last.t = "name" /\ tok = Tok("(")
         \/ last.t = ")" /\ tok \in Starts
    ELSE tok \in Starts

LooksLikeC(s) ==
  s[1] \in Starts /\ \A i \in 2..Len(s) : Follows(s[i - 1], s[i])

Write(tok) ==
  /\ text' = Append(text, tok)
  /\ Len(text') > FreeLen => LooksLikeC(text')
  /\ \A i \in 1..Len(text') : Len(text') <= MaxLen(text'[i])

Init == text = <<>>

Next == \E tok \in Tokens : Write(tok)

Spec == Init /\ [][Next]_text

-----------------------------------------------------------------------------
(* C's grammar, as a set of the meanings of a text: an expression is what   *)
(* can be split at an operator into expressions of the right levels.  A     *)
(* meaning is a value, or Undefined, and whether every part of the          *)
(* expression is evaluated (strict) and defined.                            *)

Undefined == 2^Width

Meaning(val, strict) == [val |-> val, strict |-> strict]

Exact(n) == IF n \in Min64..Max64 THEN n ELSE Undefined

\* a op b in the integers, undefined where C (or the type) leaves it so.
Denoted(op, a, b) ==
  IF \/ op \in {"/", "%"} /\ b = 0
     \/ op \in {"<<", ">>"} /\ (b \notin 0..(Width - 1) \/ (op = "<<" /\ a < 0))
    THEN Undefined
    ELSE CASE op = "*"  -> Exact(a * b)
           [] op = "/"  -> Exact(Quotient(a, b))
           [] op = "+"  -> Exact(a + b)
           [] op = "-"  -> Exact(a - b)
           [] op = "<<" -> Exact(a * 2^b)
           [] OTHER     -> Compute(op, a, b)

DenotedBinary(op, a, b) ==
  IF a.val = Undefined THEN Meaning(Undefined, FALSE)
  ELSE IF Skips(op, a.val) THEN Meaning(Bool(op = "||"), FALSE)
  ELSE IF b.val = Undefined THEN Meaning(Undefined, FALSE)
  ELSE LET v == Denoted(op, a.val, b.val)
       IN  Meaning(v, a.strict /\ b.strict /\ v # Undefined)

DenotedUnary(op, a) ==
  IF a.val = Undefined THEN a
  ELSE LET v == IF op = "-" THEN Exact(-a.val) ELSE ComputeUnary(op, a.val)
       IN  Meaning(v, a.strict /\ v # Undefined)

DenotedChoice(c, a, b) ==
  IF c.val = Undefined THEN c
  ELSE Meaning(IF c.val # 0 THEN a.val ELSE b.val, c.strict /\ a.strict /\ b.strict)

\* The operators of C, by level, from those that bind least.
Grammar == <<{"||"}, {"&&"}, {"|"}, {"^"}, {"&"}, {"==", "!="},
             {"<", "<=", ">", ">="}, {"<<", ">>"}, {"+", "-"}, {"*", "/", "%"}>>

Before(s, k) == SubSeq(s, 1, k - 1)
Behind(s, k) == SubSeq(s, k + 1, Len(s))

RECURSIVE Meanings(_), MeaningsAt(_, _), MeaningsUnary(_)

MeaningsUnary(s) ==
  CASE Len(s) = 0 -> {}
    [] Len(s) = 1 ->
         IF s[1].t = "number" THEN {Meaning(s[1].v, TRUE)}
         ELSE IF s[1].t = "name" /\ s[1].v \in DOMAIN constants
                THEN {Meaning(constants[s[1].v], TRUE)}
         ELSE {}
    [] s[1].t \in Unary -> {DenotedUnary(s[1].t, a) : a \in MeaningsUnary(Behind(s, 1))}
    [] s[1].t = "(" ->
         (IF s[Len(s)].t = ")" THEN Meanings(SubSeq(s, 2, Len(s) - 1)) ELSE {})
           \cup (IF Len(s) > 3 /\ IsCast(s, 2) THEN MeaningsUnary(Behind(s, 3)) ELSE {})
    [] s[1].t = "name" /\ s[1].v \in Sizeofs ->
         IF Len(s) = 4 /\ s[2].t = "(" /\ IsType(s[3]) /\ s[4].t = ")"
           THEN {Meaning(TypeSizes[s[3].v], TRUE)}
           ELSE {}
    [] OTHER -> {}

MeaningsAt(n, s) ==
  IF n > Len(Grammar) THEN MeaningsUnary(s)
  ELSE MeaningsAt(n + 1, s) \cup
         UNION {{DenotedBinary(s[k].t, a, b) :
                   a \in MeaningsAt(n, Before(s, k)), b \in MeaningsAt(n + 1, Behind(s, k))} :
                k \in {j \in 2..(Len(s) - 1) : s[j].t \in Grammar[n]}}

Meanings(s) ==
  MeaningsAt(1, s) \cup
    UNION {{DenotedChoice(c, a, b) :
              c \in MeaningsAt(1, Before(s, k)),
              a \in Meanings(SubSeq(s, k + 1, m - 1)),
              b \in Meanings(Behind(s, m))} :
           <<k, m>> \in {j \in (2..Len(s)) \X (2..Len(s)) :
                          s[j[1]].t = "?" /\ s[j[2]].t = ":" /\ j[1] < j[2]}}

-----------------------------------------------------------------------------
(* Properties. *)

\* The types of the variable and of the results.
TypeOK ==
  /\ text \in Seq(Tokens)
  /\ Calculated(text).val \in Min64..Max64

\* A && or || with nothing to its right.
Dangling(s) ==
  \E i \in 1..Len(s) :
    s[i].t \in {"&&", "||"} /\ (i < Len(s) => s[i + 1] \notin Starts)

\* What calculate_constant accepts is an expression of C (or 0 && and the like:
\* as the right operand is skipped, so is that there is none), and when C gives
\* it a value, that is the value: precedence, associativity, brackets, casts and
\* skipped operands included.
NeverWrong ==
  Calculated(text).st = "ok" =>
    /\ Meanings(text) # {} \/ Dangling(text)
    /\ \A m \in Meanings(text) : m.val # Undefined => Calculated(text).val = m.val

\* Every expression of C all of whose parts are evaluated and defined is
\* accepted.
AcceptsStrict ==
  \A m \in Meanings(text) : m.strict => Calculated(text).st = "ok"
=============================================================================
