------------------------------ MODULE Operators ------------------------------
(***************************************************************************)
(* Arithmetic and comparison of cdata (ffi.c check_intptr, rank, cdata_add *)
(* .. cdata_le).  Lua calls these as soon as one operand is a cdata.  The  *)
(* operands are brought to int64_t; the result is an int64_t that is       *)
(* written into a new cdata of the type of one of the operands.            *)
(*                                                                         *)
(* A behaviour is a program that computes with the values it holds.  The   *)
(* types have no metatables, numbers are whole, and there are no complex   *)
(* ones.                                                                   *)
(***************************************************************************)
EXTENDS Integers, Sequences

CONSTANTS
    Bits,         \* [integer types -> bits]; as many of intptr as of int64
    PointerSize,  \* sizeof(void*)
    Literals,     \* bound: the values that a program writes
    Limit         \* bound: the numbers that are followed, -Limit..Limit

VARIABLE held  \* at most two values, with what they should be (see Computed)

-----------------------------------------------------------------------------
(* ctypes and values.  Here type "number" is a Lua number (INVALID_TYPE); val *)
(* is what is written in the cdata as int64_t or pointer.                   *)

Ctype(type, unsigned) ==
    [type |-> type, unsigned |-> unsigned, pointers |-> 0, size |-> 0, null |-> FALSE]
Number == Ctype("number", FALSE)
Int64 == Ctype("int64", FALSE)
FunctionPointer == Ctype("function pointer", FALSE)
PointerTo(type, size) == [Ctype(type, FALSE) EXCEPT !.pointers = 1, !.size = size]
Value(ct, val) == [ct |-> ct, val |-> val]

Width == Bits["int64"]

\* 2^n, by a recursion that proofs can follow.
Pow2[n \in 0..Width] == IF n = 0 THEN 1 ELSE 2 * Pow2[n - 1]

Unsigned(n, bits) == n % Pow2[bits]
Signed(n, bits) ==
    LET u == Unsigned(n, bits) IN IF u >= Pow2[bits - 1] THEN u - Pow2[bits] ELSE u
Wrap(n) == Signed(n, Width)

\* The types of what a program holds: the number is the only one that is no C type.
TypeNames == {v.ct.type : v \in Literals} \cup {"int64", "number"}
OperandTypes ==
    {ct \in [type : TypeNames, unsigned : BOOLEAN, pointers : Nat, size : Nat, null : BOOLEAN] :
        ct.type = "number" => ct = Number}
Operands == [ct : OperandTypes, val : Int]

ASSUME OperatorsAssumption ==
    /\ {"int64", "intptr"} \subseteq DOMAIN Bits
    /\ Bits["intptr"] = Width /\ Width \in Nat \ {0}
    /\ \A type \in DOMAIN Bits \ {"int64", "intptr"} : Bits[type] \in 1..(Width - 1)
    /\ {"number", "function pointer"} \cap DOMAIN Bits = {}
    /\ PointerSize \in Nat \ {0}
    /\ Literals \subseteq Operands
    /\ Limit \in Nat

-----------------------------------------------------------------------------
(* The operands. *)

\* check_intptr takes these; of others it raises an error.
Computable(v) ==
    v.ct.pointers > 0 \/ v.ct.type \in DOMAIN Bits \cup {"number", "function pointer"}
CheckIntptr(v) ==
    IF v.ct.pointers > 0 \/ v.ct.type \notin DOMAIN Bits THEN Wrap(v.val)
    ELSE LET bits == Bits[v.ct.type]
         IN IF v.ct.unsigned THEN Wrap(Unsigned(v.val, bits)) ELSE Signed(v.val, bits)

\* check_intptr makes an int64_t of a number, in place.
Checked(ct) == IF ct.type = "number" THEN Int64 ELSE ct

Rank(ct) ==
    IF ct.pointers > 0 THEN 5
    ELSE CASE ct.type = "intptr" -> 4
           [] ct.type = "int64" -> IF ct.unsigned THEN 3 ELSE 2
           [] ct.type \in DOMAIN Bits \ {"int64", "intptr"} -> 2
           [] OTHER -> 0

\* Mutant: the left of two of one rank.
ResultLeft(l, r) == IF Rank(l.ct) >= Rank(r.ct) THEN l.ct ELSE r.ct

\* The type of a result is chosen before the operands are checked.
Result(l, r) == IF Rank(l.ct) > Rank(r.ct) THEN l.ct ELSE r.ct

-----------------------------------------------------------------------------
(* Arithmetic. *)

Ok(v) == [st |-> "ok", value |-> v]
Stopped(st) == [st |-> st, value |-> Value(Number, 0)]
Error == Stopped("error")

\* push_number, which takes what is in a number for a ctype.
PushNumber(val, ct) ==
    IF ct.type = "number" THEN Stopped("undefined") ELSE Ok(Value(ct, Wrap(val)))

Abs(n) == IF n < 0 THEN -n ELSE n
Quotient(a, b) == LET q == Abs(a) \div Abs(b) IN IF (a < 0) = (b < 0) THEN q ELSE -q

\* Mutant: always the size of the base.
StepBase(ct) == ct.size

Step(ct) == IF ct.pointers > 1 THEN PointerSize ELSE ct.size

Add(l, r) ==
    LET left == CheckIntptr(l) right == CheckIntptr(r)
    IN IF l.ct.pointers > 0 /\ r.ct.pointers > 0 THEN Error
       ELSE IF l.ct.pointers > 0 THEN PushNumber(left + Step(l.ct) * right, l.ct)
       ELSE IF r.ct.pointers > 0 THEN PushNumber(right + Step(r.ct) * left, r.ct)
       ELSE PushNumber(left + right, Result(l, r))

Sub(l, r) ==
    LET left == CheckIntptr(l) right == CheckIntptr(r)
    IN IF r.ct.pointers > 0 THEN Error
       ELSE IF l.ct.pointers > 0 THEN PushNumber(left - Step(l.ct) * right, l.ct)
       ELSE PushNumber(left - right, Result(l, r))

\* MUL, DIV, MOD and POW of int64_t; idiv faults.
Faults(op, a, b) == op \in {"/", "%"} /\ (b = 0 \/ (a = Wrap(Pow2[Width - 1]) /\ b = -1))
InRange(n) == n = Wrap(n)
ToThe(a, b) == IF a = 0 THEN IF b = 0 THEN 1 ELSE 0 ELSE a^b
Power(a, b) ==
    IF b >= 0
      THEN IF (b < Width \/ Abs(a) <= 1) /\ InRange(ToThe(a, b)) THEN Ok(ToThe(a, b))
           ELSE Stopped("undefined")
    ELSE IF a = 0 THEN Stopped("undefined")
    ELSE Ok(IF Abs(a) = 1 THEN a^(-b) ELSE 0)
Binop(op, l, r) ==
    LET left == CheckIntptr(l) right == CheckIntptr(r) power == Power(left, right)
    IN IF l.ct.pointers > 0 \/ r.ct.pointers > 0 THEN Error
       ELSE IF Faults(op, left, right) THEN Stopped("fault")
       ELSE CASE op = "*" -> PushNumber(left * right, Result(l, r))
              [] op = "/" -> PushNumber(Quotient(left, right), Result(l, r))
              [] op = "%" -> PushNumber(left - right * Quotient(left, right), Result(l, r))
              [] op = "^" -> IF power.st = "ok" THEN PushNumber(power.value, Result(l, r))
                             ELSE power

Apply(op, l, r) ==
    IF ~Computable(l) \/ ~Computable(r) THEN Error
    ELSE CASE op = "+" -> Add(l, r)
           [] op = "-" -> Sub(l, r)
           [] OTHER -> Binop(op, l, r)

\* cdata_unm
Negated(v) ==
    IF ~Computable(v) \/ v.ct.pointers > 0 THEN Error ELSE PushNumber(-CheckIntptr(v), Int64)

-----------------------------------------------------------------------------
(* Comparison: COMPARE_BINOP, with the two relations that it is used with. *)

IsVoidPtr(ct) == ct.type = "void" /\ ct.pointers = 1
SameType(ct, dt) == ct.type = dt.type

\* Whether the operands are compared as uint64_t; the others as int64_t.
Comparable(l, r) ==
    /\ l.pointers > 0 /\ r.pointers > 0 =>
        IsVoidPtr(l) \/ IsVoidPtr(r) \/ SameType(l, r)
    /\ \A p, n \in {l, r} :
        p.pointers > 0 /\ n.pointers = 0 =>
            (p.null /\ n.type = "function pointer") \/ (n.type = "intptr" /\ n.unsigned)

\* Mutant: unsigned as soon as one is, as in C.
AsUnsignedC(l, r) == l.pointers > 0 \/ r.pointers > 0 \/ l.unsigned \/ r.unsigned

AsUnsigned(l, r) == l.pointers > 0 \/ r.pointers > 0 \/ (l.unsigned /\ r.unsigned)

Operand(v, unsigned) ==
    IF unsigned THEN Unsigned(CheckIntptr(v), Width) ELSE CheckIntptr(v)

\* "error" is an error of < and <=, and FALSE of ==.
Compare(l, r) ==
    LET lt == Checked(l.ct) rt == Checked(r.ct) unsigned == AsUnsigned(lt, rt)
        left == Operand(l, unsigned) right == Operand(r, unsigned)
    IN IF ~Computable(l) \/ ~Computable(r) \/ ~Comparable(lt, rt) THEN "error"
       ELSE CASE left < right -> "<" [] left = right -> "=" [] left > right -> ">"

-----------------------------------------------------------------------------
(* Programs.  Beside each value is the number that it would be without limits *)
(* (exact), and whether every step on the way kept it (kept).               *)

Wide(ct) == ct.type \in {"int64", "intptr", "number"}
IsAddress(ct) == ct.pointers > 0 \/ ct.type = "function pointer"
Denoted(v) ==
    IF IsAddress(v.ct) \/ (v.ct.unsigned /\ Wide(v.ct)) THEN Unsigned(v.val, Width)
    ELSE CheckIntptr(v)

Computed(value, exact, kept) == [value |-> value, exact |-> exact, kept |-> kept]

Literal(v) ==
    /\ Len(held) < 2
    /\ held' = Append(held, Computed(v, Denoted(v), TRUE))

Exactly(op, a, b) ==
    CASE op = "+" -> a + b
      [] op = "-" -> a - b
      [] op = "*" -> a * b
      [] op = "/" -> Quotient(a, b)
      [] op = "%" -> a - b * Quotient(a, b)
      [] op = "^" -> IF b >= 0 THEN ToThe(a, b) ELSE IF Abs(a) = 1 THEN a^(-b) ELSE 0

Fits(ct, n) ==
    Wide(ct) \/ n = IF ct.unsigned THEN Unsigned(n, Bits[ct.type]) ELSE Signed(n, Bits[ct.type])

\* A step keeps the number unless it is too large for a narrow operand whose
\* type may be the result's (an unsigned or pointer-sized operand on the left,
\* or any 64 bit one on the right, wins over it); /, % and ^ are for operands
\* below 2^63.
Keeps(op, l, r) ==
    LET ct == l.value.ct dt == r.value.ct
    IN /\ l.kept /\ r.kept /\ ~IsAddress(ct) /\ ~IsAddress(dt)
       /\ op \in {"/", "%", "^"} => InRange(l.exact) /\ InRange(r.exact)
       /\ \/ dt.type \in {"int64", "intptr"}
          \/ ct.type = "intptr" \/ (ct.type = "int64" /\ ct.unsigned)
          \/ LET n == Exactly(op, l.exact, r.exact) IN Fits(ct, n) /\ Fits(dt, n)

Operate(op, i, j) ==
    LET l == held[i] r == held[j]
        result == Apply(op, l.value, r.value)
        kept == Keeps(op, l, r)
        exact == IF kept THEN Exactly(op, l.exact, r.exact) ELSE 0
    IN /\ result.st = "ok" /\ exact \in -Limit..Limit
       /\ held' = <<Computed(result.value, exact, kept)>>

Negate(i) ==
    LET result == Negated(held[i].value)
    IN /\ result.st = "ok"
       /\ held' = <<Computed(result.value, -held[i].exact, held[i].kept)>>

\* ffi_number
ToNumber(i) ==
    LET v == held[i].value
    IN /\ Computable(v)
       /\ held' = <<Computed(Value(Number, CheckIntptr(v)), held[i].exact, held[i].kept)>>

Init == held = <<>>

Next ==
    \/ \E v \in Literals : Literal(v)
    \/ \E i, j \in DOMAIN held :
        /\ held[i].value.ct # Number \/ held[j].value.ct # Number
        /\ \E op \in {"+", "-", "*", "/", "%", "^"} : Operate(op, i, j)
    \/ \E i \in DOMAIN held : held[i].value.ct # Number /\ (Negate(i) \/ ToNumber(i))

Spec == Init /\ [][Next]_held

-----------------------------------------------------------------------------
(* Properties. *)

\* A chain of operations gives the number that it should modulo 2^64, whatever
\* of it is signed and whatever is not, unless a step did not keep it (Keeps).
Exact ==
    \A i \in DOMAIN held :
        held[i].kept =>
            Unsigned(Denoted(held[i].value), Width) = Unsigned(held[i].exact, Width)

\* Of two values that can be compared, exactly one of <, == and > holds, seen
\* from either side; what cannot be ordered one way cannot the other way.  The
\* order is that of the numbers, or of the addresses, except that something of
\* 2^63 or more is negative beside a signed number, and a function pointer beside
\* all but NULL.
Opposite(c) == CASE c = "<" -> ">" [] c = ">" -> "<" [] OTHER -> c
Natural(ct) == ct.pointers > 0 \/ ct.unsigned
Ordered ==
    \A i, j \in DOMAIN held :
        LET l == held[i].value r == held[j].value
            a == Denoted(l) b == Denoted(r)
            c == Compare(l, r)
        IN /\ Compare(r, l) = Opposite(c)
           /\ c # "error" /\ ((Natural(l.ct) /\ Natural(r.ct)) \/ (InRange(a) /\ InRange(b))) =>
                c = (IF a < b THEN "<" ELSE IF a = b THEN "=" ELSE ">")

-----------------------------------------------------------------------------
(* The inductive invariant of the two. *)

\* What a program holds is typed, and what was kept is right.
OperatorsInv ==
    /\ held \in Seq([value : Operands, exact : Int, kept : BOOLEAN])
    /\ Exact
=============================================================================
