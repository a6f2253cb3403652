------------------------------- MODULE Pointers -------------------------------
(***************************************************************************)
(* Pointers in memory (ffi.c check_pointer, check_typed_pointer,           *)
(* lookup_cdata_index, cdata_index, cdata_newindex, and set_value for      *)
(* pointers): which objects a program gets to that casts nothing, by       *)
(* indexing, pointer arithmetic (Operators), assignments and conversions.  *)
(*                                                                         *)
(* Memory is a set of objects, each an array or a struct that ffi.new made *)
(* and that the program keeps.  Addresses are small; the program stays     *)
(* inside of its objects, as in C.  Structs by value are in Initialisers.  *)
(***************************************************************************)
EXTENDS Operators

CONSTANTS
    Objects,  \* the objects: [at, ct, count]; count elements of type ct
    Members,  \* [names -> [offset, ct]] of the one struct
    Types,    \* bound: the pointer types that are converted to
    None      \* nothing

VARIABLES
    mem,    \* [addresses of pointers in memory -> addresses]
    value   \* a cdata: [ct, to], or None

Null == 0

\* Here a ctype has const too, the bits of const_mask, and is_array.
Type(type, size, pointers, const) ==
    [type |-> type, unsigned |-> FALSE, pointers |-> pointers, size |-> size, null |-> FALSE,
     const |-> const, array |-> FALSE]
IsStruct(ct) == ct.type = "struct"

Shifted(const) == {b + 1 : b \in const}
Unshift(const) == {b - 1 : b \in const \ {0}}
Pointed(ct) == [ct EXCEPT !.pointers = @ + 1, !.const = Shifted(@)]
Deref(ct) == [ct EXCEPT !.pointers = @ - 1, !.const = Unshift(@), !.array = FALSE]

\* What is at each address: elements, and members of structs.
Stride(ct) == IF ct.pointers > 0 THEN PointerSize ELSE ct.size
Placed(at, ct) == [at |-> at, ct |-> ct]
Elements == UNION {{Placed(o.at + i * Stride(o.ct), o.ct) : i \in 0..(o.count - 1)} :
                       o \in Objects}
Parts == UNION {{Placed(e.at + Members[m].offset, Members[m].ct) : m \in DOMAIN Members} :
                    e \in {x \in Elements : IsStruct(x.ct) /\ x.ct.pointers = 0}}
Places == Elements \cup Parts
Cells == {p.at : p \in {x \in Places : x.ct.pointers > 0}}

\* The cdata of the objects: array cdata, and a struct.
Cdata(ct, to) == [ct |-> ct, to |-> to]
Roots ==
    {IF IsStruct(o.ct) /\ o.ct.pointers = 0 THEN Cdata(o.ct, o.at)
     ELSE Cdata([Pointed(o.ct) EXCEPT !.array = TRUE], o.at) : o \in Objects}
Values == Roots \cup (IF value = None THEN {} ELSE {value})

\* check_pointer of what is no cdata: nil; a string is another object.
Nil == Cdata([Type("void", 0, 1, {}) EXCEPT !.null = TRUE], Null)

\* Memory as in C: objects are apart from each other and not more than half of
\* the addresses each; an address is of one element or member, or of a struct
\* and its first member.
Extent(o) == o.at..(o.at + o.count * Stride(o.ct) - 1)
Extents == {Extent(o) : o \in Objects}
IsRecord(ct) == IsStruct(ct) /\ ct.pointers = 0
ObjectOK(o) ==
    /\ o.at \in Nat \ {0} /\ o.count \in Nat \ {0} /\ Stride(o.ct) > 0
    /\ o.at + o.count * Stride(o.ct) <= Pow2[Width] /\ 2 * (o.count * Stride(o.ct)) <= Pow2[Width]
    /\ \A x \in Objects \ {o} : Extent(o) \cap Extent(x) = {}
PlacesOK == \A p, q \in Places : p.at = q.at => p = q \/ IsRecord(p.ct) \/ IsRecord(q.ct)

\* A base type has one size; no member is a struct; what is const somewhere is
\* seen through const pointers only, which leaves out const char**.
Ctypes == [type : STRING, unsigned : BOOLEAN, pointers : Nat, size : Nat, null : BOOLEAN,
           const : SUBSET Nat, array : BOOLEAN]
Declared == {o.ct : o \in Objects} \cup {Members[m].ct : m \in DOMAIN Members}
Covariant(ct) == \A b \in ct.const : b > 1 => 1..(b - 1) \subseteq ct.const
CtypeOK(ct) ==
    /\ ct \in Ctypes /\ ~ct.null /\ Covariant(ct)
    /\ \A dt \in Declared : ct.type = dt.type => ct.size = dt.size
MemberOK(m) == Members[m].offset \in Nat /\ ~IsRecord(Members[m].ct)

ASSUME PointersAssumption ==
    /\ \A o \in Objects : ObjectOK(o)
    /\ PlacesOK
    /\ \A ct \in Types \cup Declared : CtypeOK(ct)
    /\ \A m \in DOMAIN Members : MemberOK(m)
    /\ \A ct \in Types : ct.pointers > 0
    /\ None \notin DOMAIN Members

-----------------------------------------------------------------------------
(* The code. *)

\* lookup_cdata_index: the type and the offset; none if it refuses the key.
At(i) == [member |-> None, index |-> i]
Member(m) == [member |-> m, index |-> 0]
IsIndex(key) == key.member = None
Lookup(ct, key) ==
    IF IsIndex(key)
      THEN IF ct.pointers > 0 /\ ~IsVoidPtr(ct)
             THEN {[ct |-> Deref(ct), offset |-> key.index * Step(ct)]} ELSE {}
      ELSE IF IsStruct(ct) /\ ~ct.array /\ ct.pointers <= 1 THEN {Members[key.member]} ELSE {}

\* A struct becomes a pointer where one is wanted.
AutoDeref(ft, tt) ==
    IF tt.pointers = 1 /\ ft.pointers = 0 /\ IsStruct(ft) THEN Pointed(ft) ELSE ft

\* Mutant: const may be taken away.
ConstAllowsAny(ft, tt) == TRUE

ConstAllows(ft, tt) == ft.const \subseteq tt.const

\* check_typed_pointer
Converts(v, tt) ==
    LET ft == AutoDeref(v.ct, tt)
    IN \/ IsVoidPtr(tt)
       \/ v.ct.null
       \/ SameType(tt, ft) /\ tt.pointers = ft.pointers /\ ConstAllows(ft, tt)

-----------------------------------------------------------------------------
(* Programs. *)

Cleared == [a \in Cells |-> Null]
InitPointers ==
    /\ Init
    /\ mem = Cleared
    /\ value = None

Keys == {Member(m) : m \in DOMAIN Members} \cup {At(0), At(1)}
\* The program's care: b is in the object that a is in.
Inside(a, b) == \E x \in Extents : a \in x /\ b \in x
PlaceOf(at, ct) == {p \in Places : p.at = at /\ p.ct.type = ct.type /\ p.ct.pointers = ct.pointers}

\* What is read as a pointer; elsewhere than in a pointer, some odd address.
Read(at) == IF at \in Cells THEN mem[at] ELSE 1

\* cdata_index of an element that exists: pointers are copied, structs are
\* referred to; numbers end here.
Index(v, key) ==
    \E e \in Lookup(v.ct, key) :
        LET at == v.to + e.offset IN
        /\ Inside(v.to, at)
        /\ e.ct.pointers > 0 \/ IsStruct(e.ct)
        /\ value' = Cdata(e.ct, IF e.ct.pointers > 0 THEN Read(at) ELSE at)
        /\ UNCHANGED mem

\* cdata_newindex: what it refuses, and a pointer that is written.
Writable(ct) == 0 \notin ct.const
NewIndex(v, key, w) ==
    \E e \in Lookup(v.ct, key) :
        LET at == v.to + e.offset IN
        /\ Writable(e.ct) /\ e.ct.pointers > 0
        /\ Converts(w, e.ct)
        /\ Inside(v.to, at)
        /\ mem' = [mem EXCEPT ![at] = w.to]
        /\ UNCHANGED value

\* cdata_add and cdata_sub with a number, inside of an object.
Advance(v, op, n) ==
    LET result == Apply(op, Value(v.ct, v.to), Value(Number, n))
        to == Unsigned(result.value.val, Width)
    IN /\ v.ct.pointers > 0 /\ ~IsVoidPtr(v.ct)
       /\ result.st = "ok" /\ Inside(v.to, to)
       /\ value' = Cdata([result.value.ct EXCEPT !.array = FALSE], to)
       /\ UNCHANGED mem

\* ffi.new of a pointer, or a pointer argument.
Convert(v, tt) ==
    /\ Converts(v, tt)
    /\ value' = Cdata(tt, v.to)
    /\ UNCHANGED mem

NextPointers ==
    \/ \E v \in Values, key \in Keys : Index(v, key)
    \/ \E v \in Values, key \in Keys, w \in Values \cup {Nil} : NewIndex(v, key, w)
    \/ \E v \in Values, op \in {"+", "-"} : Advance(v, op, 1)
    \/ \E v \in Values \cup {Nil}, tt \in Types : Convert(v, tt)

\* A program computes, or it goes about its memory.
NextProgram ==
    \/ value = None /\ mem = Cleared /\ Next /\ UNCHANGED <<mem, value>>
    \/ held = <<>> /\ NextPointers /\ UNCHANGED held

SpecPointers == InitPointers /\ [][NextProgram]_<<held, mem, value>>

-----------------------------------------------------------------------------
(* Properties. *)

\* An address may stand for type ct: NULL, or that of an element of this type,
\* with all its consts seen.
PointsRight(ct, to) ==
    to = Null \/ IsVoidPtr(ct) \/
    \E p \in PlaceOf(to, Deref(ct)) : p.ct.const \subseteq Deref(ct).const

\* Whatever a program without casts does, each pointer that it holds or that is
\* in memory points at an object of its type, and sees it as const where it was
\* made const: scaling, conversions, NULL and the masks of const agree.  Types
\* like const char** are left out, for they break it, as in C.
TypedAccess ==
    /\ value # None =>
        IF value.ct.pointers > 0 THEN PointsRight(value.ct, value.to)
        ELSE PlaceOf(value.to, value.ct) # {}
    /\ \A p \in Places : p.ct.pointers > 0 => PointsRight(p.ct, mem[p.at])

\* cdata_newindex writes nothing that was made const (the members of a const
\* struct are not const for this code).
ConstKept ==
    \A v \in Values, key \in Keys :
        \A e \in Lookup(v.ct, key) :
            LET at == v.to + e.offset IN
            Inside(v.to, at) /\ Writable(e.ct) =>
                \A p \in PlaceOf(at, e.ct) : IsStruct(p.ct) \/ Writable(p.ct)

-----------------------------------------------------------------------------
(* The inductive invariant of these two. *)

\* A ctype that a program gets to.
Known(ct) ==
    /\ ct \in Ctypes /\ ~ct.null
    /\ \A dt \in Declared : ct.type = dt.type => ct.size = dt.size

\* The elements of type ct at an address.  No pointer leads to a member.
ElementOf(at, ct) ==
    {p \in Elements : p.at = at /\ p.ct.type = ct.type /\ p.ct.pointers = ct.pointers}

\* A pointer sees the consts of what it points at, and either no others or
\* none below one that is missing.
Aimed(ct, to) ==
    to = Null \/ IsVoidPtr(ct) \/
    \E p \in ElementOf(to, Deref(ct)) :
        /\ p.ct.const \subseteq Deref(ct).const
        /\ Covariant(ct) \/ p.ct.const = Deref(ct).const

ValueOK(v) ==
    /\ Known(v.ct) /\ v.to \in Nat
    /\ IF v.ct.pointers > 0 THEN Aimed(v.ct, v.to)
       ELSE IsStruct(v.ct) /\ \E p \in ElementOf(v.to, v.ct) : p.ct.const \subseteq v.ct.const

MemoryOK ==
    /\ mem \in [Cells -> Nat]
    /\ \A p \in Places : p.ct.pointers > 0 => Aimed(p.ct, mem[p.at])

PointersInv ==
    /\ value = None \/ ValueOK(value)
    /\ MemoryOK
=============================================================================
