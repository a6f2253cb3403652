---------------------------- MODULE Initialisers ----------------------------
(***************************************************************************)
(* ffi.new with an initialiser, and assignment to members and elements     *)
(* (ffi.c do_new, cdata_newindex, set_value, set_array, set_struct): Lua   *)
(* values, tables in tables, become the bytes of an object.                *)
(*                                                                         *)
(* Memory is the object at 0 and Guard bytes behind it.  A table lists its *)
(* entries in the order in which lua_next yields them.  The calls of       *)
(* set_value that a call of it makes are a step each: todo is what the C   *)
(* stack holds of them.  Bitfields are in StructLayout, functions in       *)
(* FunctionCdata; ffi.cast, which also turns strings and cdata into        *)
(* addresses, is left out.                                                 *)
(***************************************************************************)
EXTENDS Integers, Sequences, FiniteSets

CONSTANTS
  Ctypes,      \* the types, with those of their elements and members
  Names,       \* names of members, and of entries in tables
  Values,      \* the Lua values, with those in the tables
  NewArgs(_),  \* bound: the arguments of ffi.new that are tried, by type
  AssignArgs,  \* bound: the values that are assigned
  Guard,       \* bytes looked at behind the object
  MaxCalls,    \* bound: calls on one object
  Depth        \* bound: how deep the meaning of a value is looked at

VARIABLES
  obj,   \* the type of the object, its variable size included; or NoObject
  mem,   \* its bytes and those behind it
  call,  \* the last call: what is written where, and how far it has come
  calls, \* number of calls on this object
  todo   \* what the call has still to write, in order

vars == <<obj, mem, call, calls, todo>>

-----------------------------------------------------------------------------
(* Types.  The size of a record is that of its fixed part; extra is the     *)
(* size of the variable part behind it.                                     *)

Unknown == -1

Integer(size) == [k |-> "int", size |-> size]
Ptr           == [k |-> "ptr", size |-> 2]
Array(of, n)  == [k |-> "array", of |-> of, n |-> n]
VarArray(of)  == Array(of, Unknown)

\* mbrs: [name, at, t] of each member; unit: the size of an element of the
\* variable array the record ends with, 0 if there is none.
Record(k, tag, mbrs, size, unit) ==
  [k |-> k, tag |-> tag, mbrs |-> mbrs, size |-> size, unit |-> unit,
   extra |-> IF unit = 0 THEN 0 ELSE Unknown]

IsRecord(t) == t.k \in {"struct", "union"}

\* ctype_size
SizeOf(t) ==
  CASE t.k = "array" -> t.n * t.of.size
    [] IsRecord(t)   -> t.size + t.extra
    [] OTHER         -> t.size

\* A table that is given a size, and one that has none.
Unsized(t) == \/ t.k = "array" /\ t.n = Unknown
              \/ IsRecord(t) /\ t.extra = Unknown

-----------------------------------------------------------------------------
(* Lua values. *)

Nil       == [k |-> "nil"]
Num(n)    == [k |-> "num", n |-> n]
Str(s)    == [k |-> "str", s |-> s]
Table(e)  == [k |-> "table", e |-> e]
Cdata(tag, bytes) == [k |-> "cdata", tag |-> tag, bytes |-> bytes]

Pos(i)   == [i |-> i, name |-> ""]
Named(a) == [i |-> 0, name |-> a]

Keys(v)   == {v.e[i][1] : i \in 1..Len(v.e)}
Get(v, key) ==
  IF key \in Keys(v) THEN v.e[CHOOSE i \in 1..Len(v.e) : v.e[i][1] = key][2] ELSE Nil

\* The elements 1, 2, .. up to the first nil.
RawLen(v) == CHOOSE n \in 0..Len(v.e) :
  /\ \A i \in 1..n : Pos(i) \in Keys(v)
  /\ Pos(n + 1) \notin Keys(v)

\* do_new's table of the arguments, in which nil leaves no entry.
TableOf(args) ==
  LET entries[n \in 0..Len(args)] ==
        IF n = 0 THEN <<>>
        ELSE IF args[n] = Nil THEN entries[n - 1]
        ELSE Append(entries[n - 1], <<Pos(n), args[n]>>)
  IN  Table(entries[Len(args)])

-----------------------------------------------------------------------------
(* What the constants are.                                                  *)

\* The bytes of a type, without those of a variable array.
FixedSize(t) == IF ~Unsized(t) THEN SizeOf(t) ELSE IF t.k = "array" THEN 0 ELSE t.size

\* Members lie in their record, those of a struct one behind the other; one
\* that has no size is the last of a struct, which takes the unit from it.
IsLayout(t) ==
  /\ t.size \in Nat
  /\ t.unit \in Nat
  /\ t.mbrs \in Seq([name : Names, at : Nat, t : Ctypes])
  /\ \A i \in 1..Len(t.mbrs) :
       /\ t.mbrs[i].at + FixedSize(t.mbrs[i].t) <= t.size
       /\ Unsized(t.mbrs[i].t) =>
            /\ t.k = "struct" /\ i = Len(t.mbrs) /\ t.unit > 0
            /\ t.unit = IF t.mbrs[i].t.k = "array" THEN t.mbrs[i].t.of.size ELSE t.mbrs[i].t.unit
  /\ \A i, j \in 1..Len(t.mbrs) :
       i < j => /\ t.mbrs[i].name # t.mbrs[j].name
                /\ t.k = "struct" => t.mbrs[i].at + FixedSize(t.mbrs[i].t) <= t.mbrs[j].at

IsArray(t) ==
  /\ t = Array(t.of, t.n)
  /\ t.n \in Nat \cup {Unknown}
  /\ t.of \in Ctypes
  /\ t.of.k # "array"
  /\ ~Unsized(t.of)

\* What the parser lets through: an array has elements of one size, and
\* calculate_member_position lays records out.
CtypesAssumption ==
  \A t \in Ctypes :
    CASE t.k = "int"   -> t = Integer(t.size) /\ t.size \in Nat
      [] t.k = "ptr"   -> t = Ptr
      [] t.k = "array" -> IsArray(t)
      [] OTHER         -> /\ IsRecord(t)
                          /\ t = Record(t.k, t.tag, t.mbrs, t.size, t.unit)
                          /\ IsLayout(t)

Byte == 0..255
Key  == [i : Nat, name : Names \cup {""}]

\* A Lua value: the keys of a table differ and no entry is nil; a record has
\* the bytes of its type.
IsValue(v) ==
  \/ v = Nil
  \/ v.k = "num" /\ v = Num(v.n) /\ v.n \in Byte
  \/ v.k = "str" /\ v = Str(v.s) /\ v.s \in Seq(Byte)
  \/ /\ v.k = "table" /\ v = Table(v.e)
     /\ v.e \in Seq(Key \X (Values \ {Nil}))
     /\ \A i, j \in 1..Len(v.e) : i # j => v.e[i][1] # v.e[j][1]
  \/ /\ v.k = "cdata" /\ v = Cdata(v.tag, v.bytes)
     /\ v.bytes \in Seq(Byte)
     /\ \A t \in Ctypes : IsRecord(t) /\ t.tag = v.tag => Len(v.bytes) = t.size

ASSUME TypesAreLaidOut == CtypesAssumption
ASSUME ValuesAreValues == \A v \in Values : IsValue(v)
ASSUME ArgsAreValues ==
  /\ \A T \in Ctypes : NewArgs(T) \subseteq Seq(Values)
  /\ AssignArgs \subseteq Values
ASSUME BoundsAreNumbers == Guard \in Nat /\ MaxCalls \in Nat \ {0} /\ Depth \in Nat

-----------------------------------------------------------------------------
(* Writing.  What is to be written is a sequence: to put a value into a     *)
(* place of some type, or zeroes.                                           *)

Put(t, v, at) == [do |-> "put", t |-> t, v |-> v, at |-> at]
Zero(at, n)   == [do |-> "zero", at |-> at, n |-> n]
Unfound       == [do |-> "abort"]

\* What a call does to the memory, and what it leaves to be written.
Done(m, more) == [st |-> "ok", m |-> m, more |-> more]
Failed(m)     == [st |-> "error", m |-> m, more |-> <<>>]
Aborted(m)    == [st |-> "abort", m |-> m, more |-> <<>>]

memset(m, at, n) == [x \in DOMAIN m |-> IF x \in at..(at + n - 1) THEN 0 ELSE m[x]]
memcpy(m, at, s) ==
  [x \in DOMAIN m |-> IF x \in at..(at + Len(s) - 1) THEN s[x - at + 1] ELSE m[x]]

\* A small number, little endian.
Bytes(n, size) == [i \in 1..size |-> IF i = 1 THEN n ELSE 0]

\* A type that gets the size of its variable part: n elements of it.
Sized(t, n) ==
  IF t.k = "array" THEN [t EXCEPT !.n = n] ELSE [t EXCEPT !.extra = t.unit * n]

\* get_member: a member, with the variable size of the record it ends.
HasKey(t, i, key) == key \in {Pos(i), Named(t.mbrs[i].name)}
IsMember(t, key)  == \E i \in 1..Len(t.mbrs) : HasKey(t, i, key)

get_member(t, key) ==
  LET mbr == t.mbrs[CHOOSE i \in 1..Len(t.mbrs) : HasKey(t, i, key)]
      mt  == mbr.t
  IN  [at |-> mbr.at,
       t  |-> IF t.extra # Unknown /\ Unsized(mt)
                THEN IF mt.k = "array"
                       THEN [mt EXCEPT !.n = t.extra \div mt.of.size]
                       ELSE [mt EXCEPT !.extra = t.extra]
                ELSE mt]

\* An unknown member fails an assertion, which ends the process.
PutMember(t, key, v, at) ==
  IF IsMember(t, key)
    THEN LET mbr == get_member(t, key) IN Put(mbr.t, v, at + mbr.at)
    ELSE Unfound

\* Mutant: the terminator also goes behind a string as long as the array.
TerminatedAlways(s, n) == IF n # Unknown /\ Len(s) > n THEN SubSeq(s, 1, n) ELSE Append(s, 0)

Terminated(s, n) == IF n # Unknown /\ Len(s) >= n THEN SubSeq(s, 1, n) ELSE Append(s, 0)

\* Mutant: the rest is left as it is.
RestKept(t, given) == 0
\* Behind the elements that are given the array is zero.
Rest(t, given) == (t.n - given) * t.of.size

set_array(t, v, m, at) ==
  LET Place(i)    == at + (i - 1) * t.of.size
      Elements(n) == [i \in 1..n |-> Put(t.of, Get(v, Pos(i)), Place(i))]
      given       == IF RawLen(v) < t.n THEN RawLen(v) ELSE t.n
  IN  CASE v.k = "str" /\ t.of = Integer(1) -> Done(memcpy(m, at, Terminated(v.s, t.n)), <<>>)
        [] v.k = "table" /\ t.n = Unknown -> Done(m, Elements(RawLen(v)))
        [] v.k = "table" /\ t.n # Unknown /\ Get(v, Pos(2)) = Nil ->
             IF Get(v, Pos(1)) = Nil THEN Done(memset(m, at, SizeOf(t)), <<>>)
             ELSE Done(m, [i \in 1..t.n |-> Put(t.of, Get(v, Pos(1)), Place(i))])
        [] v.k = "table" /\ t.n # Unknown /\ Get(v, Pos(2)) # Nil ->
             Done(m, Append(Elements(given), Zero(Place(given + 1), Rest(t, given))))
        [] OTHER -> Failed(m)

\* The table has one entry, a number other than 0 under 1.
Single(v) == Keys(v) = {Pos(1)} /\ Get(v, Pos(1)).k = "num" /\ Get(v, Pos(1)).n # 0

\* Every entry to its member; a single number also to members 2 .. n - 1.
set_struct(t, v, m, at) ==
  LET entries == [i \in 1..Len(v.e) |-> PutMember(t, v.e[i][1], v.e[i][2], at)]
      others  == IF Single(v) /\ t.k # "union" /\ Len(t.mbrs) > 2
                   THEN [i \in 1..(Len(t.mbrs) - 2) |->
                           PutMember(t, Pos(i + 1), Get(v, Pos(1)), at)]
                   ELSE <<>>
  IN  CASE v.k = "table" /\ ~Unsized(t) -> Done(memset(m, at, SizeOf(t)), entries \o others)
        [] v.k = "cdata" /\ v.tag = t.tag -> Done(memcpy(m, at, v.bytes), <<>>)
        [] OTHER -> Failed(m)

\* Numbers and nil: the checks of set_value on a scalar or a pointer.
SetScalar(t, v, m, at) ==
  CASE v.k = "nil" -> Done(memcpy(m, at, Bytes(0, t.size)), <<>>)
    [] v.k = "num" /\ t.k = "int" -> Done(memcpy(m, at, Bytes(v.n, t.size)), <<>>)
    [] OTHER -> Failed(m)

set_value(t, v, m, at) ==
  CASE t.k = "array" -> set_array(t, v, m, at)
    [] IsRecord(t)   -> set_struct(t, v, m, at)
    [] OTHER         -> SetScalar(t, v, m, at)

Outcome(p, m) ==
  CASE p.do = "put"  -> set_value(p.t, p.v, m, p.at)
    [] p.do = "zero" -> Done(memset(m, p.at, p.n), <<>>)
    [] OTHER         -> Aborted(m)

-----------------------------------------------------------------------------
(* ffi.new and assignment. *)

NoObject  == [k |-> "none"]
GuardByte == 255

\* get_variable_array_size takes the first argument away when the type wants it.
TakesSize(t, args) == Unsized(t) => args # <<>> /\ args[1].k = "num"

SizedType(t, args) == IF Unsized(t) THEN Sized(t, args[1].n) ELSE t
Initials(t, args)  == IF Unsized(t) THEN Tail(args) ELSE args

\* push_cdata: zeroes.
Fresh(t) ==
  [x \in 0..(SizeOf(t) + Guard - 1) |-> IF x < SizeOf(t) THEN 0 ELSE GuardByte]

\* A call that puts v into a place of the object; st: how far it has come.
Call(t, v, at, size, st) == [t |-> t, v |-> v, at |-> at, size |-> size, st |-> st]

\* do_new: nothing is set, or the one argument in its packed form {..}, under
\* pcall, or the table of all of them.
Initialiser(args) ==
  CASE args = <<>>    -> [v |-> Nil, st |-> "none"]
    [] Len(args) = 1  -> [v |-> args[1], st |-> "packed"]
    [] OTHER          -> [v |-> TableOf(args), st |-> "busy"]

New(T, args) ==
  /\ TakesSize(T, args)
  /\ LET t == SizedType(T, args)
         r == Initialiser(Initials(T, args))
     IN  /\ obj' = t
         /\ mem' = Fresh(t)
         /\ call' = Call(t, r.v, 0, SizeOf(t), r.st)
         /\ todo' = IF r.st = "none" THEN <<>> ELSE <<Put(t, r.v, 0)>>
  /\ calls' = 1

\* The next call of set_value, or the memset behind the elements.
Write ==
  /\ todo # <<>>
  /\ LET r == Outcome(Head(todo), mem)
     IN  /\ r.st = "ok"
         /\ mem' = r.m
         /\ todo' = r.more \o Tail(todo)
  /\ call' = IF todo' = <<>> THEN [call EXCEPT !.st = "ok"] ELSE call
  /\ UNCHANGED <<obj, calls>>

\* An error in the packed form: what it wrote stays, and the table is tried.
Retry ==
  /\ todo # <<>>
  /\ Outcome(Head(todo), mem).st = "error"
  /\ call.st = "packed"
  /\ LET v == TableOf(<<call.v>>)
     IN  /\ call' = [call EXCEPT !.v = v, !.st = "busy"]
         /\ todo' = <<Put(call.t, v, 0)>>
  /\ UNCHANGED <<obj, mem, calls>>

\* The call ends; an object that ffi.new raised an error for is never seen.
End(st) ==
  /\ todo # <<>>
  /\ Outcome(Head(todo), mem).st = st
  /\ obj' = IF calls = 1 \/ st = "abort" THEN NoObject ELSE obj
  /\ call' = [call EXCEPT !.st = st]
  /\ todo' = <<>>
  /\ UNCHANGED <<mem, calls>>

Raise == call.st # "packed" /\ End("error")
Abort == End("abort")

\* lookup_cdata_index: a member by name, or an element.
Targets(t) ==
  CASE IsRecord(t) -> {get_member(t, Named(t.mbrs[i].name)) : i \in 1..Len(t.mbrs)}
    [] t.k = "array" -> {[at |-> i * t.of.size, t |-> t.of] : i \in 0..(t.n - 1)}
    [] OTHER -> {}

\* An object that can be assigned to; bound: its calls.
Idle == todo = <<>> /\ calls \in 1..(MaxCalls - 1)

\* cdata_newindex
Assign(target, v) ==
  /\ call' = Call(target.t, v, target.at, SizeOf(obj), "busy")
  /\ todo' = <<Put(target.t, v, target.at)>>
  /\ calls' = calls + 1
  /\ UNCHANGED <<obj, mem>>

\* Bytes that are written to a variable array whose size is not known.
Demand(t, v) ==
  CASE v.k = "str"   -> Len(v.s) + 1
    [] v.k = "table" -> RawLen(v) * t.of.size
    [] OTHER         -> 0

\* The type behind a pointer, which does not know the variable size.
Behind(t) == IF IsRecord(t) /\ t.unit # 0 THEN [t EXCEPT !.extra = Unknown] ELSE NoObject

\* cdata_newindex on a pointer to the object; how much goes into a variable
\* array is for the program to know.
AssignThrough(target, v) ==
  /\ target.t.k = "array" /\ target.t.n = Unknown
       => target.at + Demand(target.t, v) <= SizeOf(obj)
  /\ Assign(target, v)

Init ==
  /\ obj = NoObject
  /\ mem = <<>>
  /\ call = Call(NoObject, Nil, 0, 0, "none")
  /\ calls = 0
  /\ todo = <<>>

Next ==
  \/ /\ calls = 0
     /\ \E T \in Ctypes : \E args \in NewArgs(T) : New(T, args)
  \/ Write
  \/ Retry
  \/ Raise
  \/ Abort
  \/ /\ Idle
     /\ \E target \in Targets(obj), v \in AssignArgs : Assign(target, v)
  \/ /\ Idle
     /\ \E target \in Targets(Behind(obj)), v \in AssignArgs : AssignThrough(target, v)

Spec == Init /\ [][Next]_vars

-----------------------------------------------------------------------------
(* What a value means: bytes of its own, as pairs of offset and byte, and   *)
(* those of the values in it.  Bytes that are not among them may be         *)
(* anything.                                                                *)

At(at, bytes) == {<<at + i - 1, bytes[i]>> : i \in 1..Len(bytes)}

Own(p) ==
  CASE p.v.k = "cdata" -> At(p.at, p.v.bytes)
    [] p.v.k = "str" ->
         {b \in At(p.at, Append(p.v.s, 0)) : p.t.n = Unknown \/ b[1] < p.at + p.t.n}
    [] p.v.k = "num" -> At(p.at, Bytes(p.v.n, p.t.size))
    [] p.v.k = "nil" /\ p.t.k \in {"int", "ptr"} -> At(p.at, Bytes(0, p.t.size))
    [] OTHER -> {}

\* The value for element i: elements behind the first nil are zero; one value
\* alone is for all.
WantedAt(v, i) ==
  IF v.k # "table" THEN Nil
  ELSE IF Get(v, Pos(2)) = Nil THEN Get(v, Pos(1))
  ELSE IF i <= RawLen(v) THEN Get(v, Pos(i)) ELSE Nil

\* The values for member i: a single number is for all but the last;
\* when a member has its name and its position for keys, either.
WantedOf(t, v, i) ==
  LET given == {Get(v, key) : key \in {Pos(i), Named(t.mbrs[i].name)} \cap Keys(v)}
  IN  IF v.k # "table" THEN {Nil}
      ELSE IF given # {} THEN given
      ELSE IF Single(v) THEN (IF i = Len(t.mbrs) THEN {} ELSE {Get(v, Pos(1))})
      ELSE {Nil}

\* The values in a value, each with its type and place.
Parts(p) ==
  CASE p.t.k = "array" /\ p.v.k \in {"table", "nil"} ->
         {Put(p.t.of, WantedAt(p.v, i), p.at + (i - 1) * p.t.of.size) :
            i \in 1..(IF p.t.n = Unknown THEN RawLen(p.v) ELSE p.t.n)}
    [] p.t.k = "struct" /\ p.v.k \in {"table", "nil"} ->
         UNION {LET w == WantedOf(p.t, p.v, i)
                IN  {PutMember(p.t, Pos(i), v, p.at) : v \in {x \in w : w = {x}}} :
                i \in 1..Len(p.t.mbrs)}
    [] p.t.k = "union" /\ p.v.k = "table" ->
         {PutMember(p.t, p.v.e[i][1], p.v.e[i][2], p.at) :
            i \in {j \in 1..Len(p.v.e) : Len(p.v.e) = 1}}
    [] OTHER -> {}

\* A value and the values in it.
Within(p) ==
  LET level[d \in 0..Depth] ==
        IF d = 0 THEN {p} ELSE LET above == level[d - 1] IN above \cup UNION {Parts(q) : q \in above}
  IN  level[Depth]

-----------------------------------------------------------------------------
(* Properties. *)

Statuses == {"none", "packed", "busy", "ok", "error", "abort"}

\* The types of the variables; an object has all its bytes.
TypeOK ==
  /\ obj # NoObject => DOMAIN mem = 0..(SizeOf(obj) + Guard - 1)
  /\ \A x \in DOMAIN mem : mem[x] \in Byte
  /\ call.st \in Statuses
  /\ calls \in 0..MaxCalls

\* Whatever the value, string terminators and variable sizes included, and even
\* if it raises an error half-way, nothing is written behind the object.
InBounds ==
  \A x \in DOMAIN mem : x >= call.size => mem[x] = GuardByte

\* When an initialiser or an assignment succeeds, the bytes are what the value
\* means, whatever they were before, and whatever an attempt with the packed
\* form left there.
AsMeant ==
  call.st = "ok" =>
    \A p \in Within(Put(call.t, call.v, call.at)) : \A b \in Own(p) : mem[b[1]] = b[2]

=============================================================================
