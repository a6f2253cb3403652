------------------------- MODULE InitialisersProofs -------------------------
(***************************************************************************)
(* Proofs about Initialisers for every value of its constants.             *)
(*                                                                         *)
(* Nothing is written behind the object because the items that a step      *)
(* leaves lie within the one it is for.  What is written is what the value *)
(* means because each value in it is at any time in one of three states:   *)
(* its bytes are there and no later item touches them; it has an item to   *)
(* come, which nothing behind that writes over; or it is a nil, in zeroes. *)
(***************************************************************************)
EXTENDS Initialisers, SequenceTheorems, FiniteSetTheorems, NaturalsInduction,
        WellFoundedInduction, TLAPS

-----------------------------------------------------------------------------
(* Induction.  The library's theorems with a predicate for a parameter are  *)
(* out of the provers' reach; those about sets are not.                     *)

LEMMA LeastNumber ==
  ASSUME NEW S, S \subseteq Nat, S # {}
  PROVE  \E x \in S : \A y \in S : x <= y
<1>1. PICK x \in S : \A y \in S : ~(<<y, x>> \in OpToRel(<, Nat))
  BY NatLessThanWellFounded, WFMin, Zenon
<1>2. ASSUME NEW y \in S PROVE x <= y
  <2>1. ~(<<y, x>> \in OpToRel(<, Nat))
    BY <1>1
  <2>2. ~(y < x)
    BY <2>1 DEF OpToRel
  <2> QED BY <2>2
<1> QED BY <1>2

LEMMA Induction ==
  ASSUME NEW S, 0 \in S, \A n \in Nat : n \in S => n + 1 \in S
  PROVE  Nat \subseteq S
<1> DEFINE Others == Nat \ S
<1> SUFFICES ASSUME Others # {} PROVE FALSE
  OBVIOUS
<1>1. PICK x \in Others : \A y \in Others : x <= y
  <2>1. Others \subseteq Nat
    OBVIOUS
  <2> HIDE DEF Others
  <2> QED BY <2>1, LeastNumber
<1>2. x - 1 \in Nat /\ x - 1 \notin Others
  BY <1>1
<1> QED BY <1>1, <1>2

-----------------------------------------------------------------------------
(* Values *)

\* The values that calls are given or make.
Value == Values \cup {Nil} \cup {TableOf(args) : args \in Seq(Values)}

LEMMA PosIsKey == \A i \in Nat : Pos(i) \in Key
BY DEF Pos, Key

LEMMA PosDiffer == \A i, j \in Nat : Pos(i) = Pos(j) => i = j
BY DEF Pos

\* The entries of do_new's table, from the first n arguments.
IsEntries(f, args, m) ==
  f = [n \in 0..m |-> IF n = 0 THEN <<>>
                      ELSE IF args[n] = Nil THEN f[n - 1]
                      ELSE Append(f[n - 1], <<Pos(n), args[n]>>)]

LEMMA EntriesExist ==
  ASSUME NEW args \in Seq(Values)
  PROVE  \E f : IsEntries(f, args, Len(args))
<1> DEFINE S == {m \in Nat : \E f : IsEntries(f, args, m)}
<1>1. 0 \in S
  <2>1. IsEntries([n \in 0..0 |-> <<>>], args, 0)
    BY DEF IsEntries
  <2> QED BY <2>1
<1>2. ASSUME NEW m \in Nat, m \in S PROVE m + 1 \in S
  <2>1. PICK f : IsEntries(f, args, m)
    BY <1>2
  <2> DEFINE g == [n \in 0..(m + 1) |->
                     IF n <= m THEN f[n]
                     ELSE IF args[n] = Nil THEN f[n - 1]
                     ELSE Append(f[n - 1], <<Pos(n), args[n]>>)]
  <2>2. ASSUME NEW n \in 0..(m + 1)
        PROVE  g[n] = IF n = 0 THEN <<>>
                      ELSE IF args[n] = Nil THEN g[n - 1]
                      ELSE Append(g[n - 1], <<Pos(n), args[n]>>)
    <3>1. CASE n = 0
      BY <2>1, <3>1 DEF IsEntries
    <3>2. CASE n # 0
      <4>1. n - 1 \in 0..m /\ g[n - 1] = f[n - 1]
        BY <3>2
      <4>2. CASE n = m + 1
        BY <3>2, <4>1, <4>2
      <4>3. CASE n # m + 1
        <5>1. n \in 0..m
          BY <4>3
        <5>2. g[n] = f[n]
          BY <5>1
        <5>3. f[n] = IF args[n] = Nil THEN f[n - 1]
                     ELSE Append(f[n - 1], <<Pos(n), args[n]>>)
          BY <2>1, <3>2, <5>1 DEF IsEntries
        <5> QED BY <3>2, <4>1, <5>2, <5>3
      <4> QED BY <4>2, <4>3
    <3> QED BY <3>1, <3>2
  <2>3. IsEntries(g, args, m + 1)
    BY <2>2 DEF IsEntries
  <2> QED BY <2>3
<1> HIDE DEF S
<1>3. Nat \subseteq S
  BY <1>1, <1>2, Induction
<1>4. Len(args) \in S
  BY <1>3, LenProperties
<1> QED BY <1>4 DEF S

\* Entries that come from the first n arguments.
From(args, n) == {e \in Key \X (Values \ {Nil}) : \E i \in 1..n : e = <<Pos(i), args[i]>>}

\* A table of entries with different keys.
IsTable(v) ==
  /\ v.k = "table" /\ v = Table(v.e)
  /\ v.e \in Seq(Key \X (Values \ {Nil}))
  /\ \A i, j \in 1..Len(v.e) : i # j => v.e[i][1] # v.e[j][1]

LEMMA TableOfIsTable ==
  ASSUME NEW args \in Seq(Values)
  PROVE  IsTable(TableOf(args))
<1> DEFINE f == CHOOSE f : IsEntries(f, args, Len(args))
<1>1. IsEntries(f, args, Len(args))
  BY EntriesExist
<1>2. TableOf(args) = Table(f[Len(args)])
  BY DEF TableOf, IsEntries
<1> HIDE DEF f
<1>n. Len(args) \in Nat /\ \A i \in 1..Len(args) : args[i] \in Values
  BY LenProperties, ElementOfSeq
<1> DEFINE Good(n) ==
      /\ f[n] \in Seq(From(args, n))
      /\ \A i, j \in 1..Len(f[n]) : i # j => f[n][i][1] # f[n][j][1]
    S == {n \in Nat : n <= Len(args) => Good(n)}
<1>3. 0 \in S
  <2>1. f[0] = <<>>
    BY <1>1, <1>n DEF IsEntries
  <2>2. Good(0)
    BY <2>1, EmptySeq
  <2> QED BY <2>2
<1>4. ASSUME NEW n \in Nat, n \in S PROVE n + 1 \in S
  <2> SUFFICES ASSUME n + 1 <= Len(args) PROVE Good(n + 1)
    OBVIOUS
  <2>1. Good(n)
    BY <1>4, <1>n
  <2>2. f[n + 1] = IF args[n + 1] = Nil THEN f[n]
                   ELSE Append(f[n], <<Pos(n + 1), args[n + 1]>>)
    <3>1. n + 1 \in 0..Len(args) /\ n + 1 # 0 /\ (n + 1) - 1 = n
      BY <1>n
    <3> QED BY <1>1, <3>1 DEF IsEntries
  <2>3. From(args, n) \subseteq From(args, n + 1)
    BY DEF From
  <2>4. f[n] \in Seq(From(args, n + 1))
    BY <2>1, <2>3, SeqMonotonic
  <2>5. CASE args[n + 1] = Nil
    BY <2>1, <2>2, <2>4, <2>5
  <2>6. CASE args[n + 1] # Nil
    <3> DEFINE e == <<Pos(n + 1), args[n + 1]>>
    <3>1. e \in From(args, n + 1)
      <4>1. Pos(n + 1) \in Key
        BY PosIsKey
      <4>2. n + 1 \in 1..(n + 1) /\ args[n + 1] \in Values
        BY <1>n
      <4> QED BY <2>6, <4>1, <4>2 DEF From
    <3>2. ASSUME NEW i \in 1..Len(f[n]) PROVE f[n][i][1] # Pos(n + 1)
      <4>1. f[n][i] \in From(args, n)
        BY <2>1, ElementOfSeq
      <4>2. PICK j \in 1..n : f[n][i] = <<Pos(j), args[j]>>
        BY <4>1 DEF From
      <4> QED BY <4>2, PosDiffer
    <3>3. f[n + 1] = Append(f[n], e)
      BY <2>2, <2>6
    <3>4. e[1] = Pos(n + 1)
      OBVIOUS
    <3> HIDE DEF e
    <3>5. /\ f[n + 1] \in Seq(From(args, n + 1))
          /\ Len(f[n + 1]) = Len(f[n]) + 1 /\ Len(f[n]) \in Nat
          /\ \A i \in 1..Len(f[n]) : f[n + 1][i] = f[n][i]
          /\ f[n + 1][Len(f[n]) + 1] = e
      BY <2>4, <3>1, <3>3, AppendProperties, LenProperties
    <3>6. ASSUME NEW i \in 1..Len(f[n + 1]), NEW j \in 1..Len(f[n + 1]), i # j
          PROVE  f[n + 1][i][1] # f[n + 1][j][1]
      <4>1. CASE i \in 1..Len(f[n]) /\ j \in 1..Len(f[n])
        BY <2>1, <3>5, <3>6, <4>1
      <4>2. CASE i = Len(f[n]) + 1 /\ j \in 1..Len(f[n])
        BY <3>2, <3>4, <3>5, <4>2
      <4>3. CASE j = Len(f[n]) + 1 /\ i \in 1..Len(f[n])
        BY <3>2, <3>4, <3>5, <4>3
      <4> QED BY <3>5, <3>6, <4>1, <4>2, <4>3
    <3> QED BY <3>5, <3>6
  <2> QED BY <2>5, <2>6
<1> HIDE DEF S
<1>5. Len(args) \in S
  BY <1>3, <1>4, <1>n, Induction
<1>6. Good(Len(args))
  BY <1>5, <1>n DEF S
<1>7. From(args, Len(args)) \subseteq Key \X (Values \ {Nil})
  BY DEF From
<1>8. f[Len(args)] \in Seq(Key \X (Values \ {Nil}))
  BY <1>6, <1>7, SeqMonotonic
<1>9. TableOf(args).k = "table" /\ TableOf(args).e = f[Len(args)]
  BY <1>2 DEF Table
<1> QED BY <1>2, <1>6, <1>8, <1>9 DEF IsTable

LEMMA ValuesAre == \A v \in Value : IsValue(v)
<1>1. \A v \in Values : IsValue(v)
  BY ValuesAreValues
<1>2. IsValue(Nil)
  BY DEF IsValue
<1>3. ASSUME NEW args \in Seq(Values) PROVE IsValue(TableOf(args))
  BY TableOfIsTable DEF IsTable, IsValue
<1> QED BY <1>1, <1>2, <1>3 DEF Value

\* What kind a value is of says what it has.
LEMMA ValueCases ==
  ASSUME NEW v \in Value
  PROVE  /\ v.k = "nil" => v = Nil
         /\ v.k = "num" => v = Num(v.n) /\ v.n \in Byte
         /\ v.k = "str" => v = Str(v.s) /\ v.s \in Seq(Byte)
         /\ v.k = "table" => IsTable(v)
         /\ v.k = "cdata" =>
              /\ v.bytes \in Seq(Byte)
              /\ \A t \in Ctypes : IsRecord(t) /\ t.tag = v.tag => Len(v.bytes) = t.size
         /\ v.k \in {"nil", "num", "str", "table", "cdata"}
<1>1. IsValue(v)
  BY ValuesAre
<1>2. Nil.k = "nil"
  BY DEF Nil
<1> QED BY <1>1, <1>2 DEF IsValue, IsTable

\* An entry is what Get finds under its key.
LEMMA GetEntry ==
  ASSUME NEW v, IsTable(v), NEW i \in 1..Len(v.e)
  PROVE  /\ v.e[i][1] \in Keys(v)
         /\ Get(v, v.e[i][1]) = v.e[i][2]
         /\ v.e[i][2] \in Value /\ v.e[i][2] # Nil
<1> DEFINE j == CHOOSE j \in 1..Len(v.e) : v.e[j][1] = v.e[i][1]
<1>1. j \in 1..Len(v.e) /\ v.e[j][1] = v.e[i][1]
  OBVIOUS
<1>2. j = i
  BY <1>1 DEF IsTable
<1>3. v.e[i] \in Key \X (Values \ {Nil})
  BY ElementOfSeq DEF IsTable
<1> QED BY <1>2, <1>3 DEF Keys, Get, Value

LEMMA GetValue ==
  ASSUME NEW v, IsTable(v), NEW key
  PROVE  Get(v, key) \in Value
<1>1. CASE key \in Keys(v)
  <2>1. PICK i \in 1..Len(v.e) : v.e[i][1] = key
    BY <1>1 DEF Keys
  <2> QED BY <2>1, GetEntry
<1>2. CASE key \notin Keys(v)
  BY <1>2 DEF Get, Value
<1> QED BY <1>1, <1>2

LEMMA RawLenFacts ==
  ASSUME NEW v, IsTable(v)
  PROVE  /\ RawLen(v) \in Nat
         /\ \A i \in 1..RawLen(v) : Pos(i) \in Keys(v)
         /\ Pos(RawLen(v) + 1) \notin Keys(v)
<1> DEFINE N == Len(v.e)
           Missing == {n \in Nat : Pos(n + 1) \notin Keys(v)}
<1>1. N \in Nat
  BY LenProperties DEF IsTable
<1>2. \E n \in Missing : n <= N
  <2> SUFFICES ASSUME \A n \in 0..N : Pos(n + 1) \in Keys(v) PROVE FALSE
    BY <1>1
  <2> DEFINE f == [k \in 1..(N + 1) |-> CHOOSE i \in 1..N : v.e[i][1] = Pos(k)]
  <2>1. ASSUME NEW k \in 1..(N + 1)
        PROVE  f[k] \in 1..N /\ v.e[f[k]][1] = Pos(k)
    <3>1. k - 1 \in 0..N /\ (k - 1) + 1 = k
      BY <1>1
    <3>2. Pos(k) \in Keys(v)
      BY <3>1
    <3>3. \E i \in 1..N : v.e[i][1] = Pos(k)
      BY <3>2 DEF Keys
    <3> QED BY <3>3
  <2>2. /\ IsFiniteSet(1..(N + 1)) /\ Cardinality(1..(N + 1)) = N + 1
        /\ IsFiniteSet(1..N) /\ Cardinality(1..N) = N
    <3> HIDE DEF N
    <3>1. 1 \in Int /\ N \in Int /\ N + 1 \in Int
      BY <1>1
    <3>2. /\ IsFiniteSet(1..N)
          /\ Cardinality(1..N) = IF 1 > N THEN 0 ELSE N - 1 + 1
      BY <3>1, FS_Interval
    <3>3. /\ IsFiniteSet(1..(N + 1))
          /\ Cardinality(1..(N + 1)) = IF 1 > N + 1 THEN 0 ELSE (N + 1) - 1 + 1
      BY <3>1, FS_Interval
    <3> QED BY <1>1, <3>2, <3>3
  <2>3. f \in [1..(N + 1) -> 1..N]
    BY <2>1
  <2> HIDE DEF f, N
  <2>4. PICK x, y \in 1..(N + 1) : x # y /\ f[x] = f[y]
    <3>1. Cardinality(1..N) < Cardinality(1..(N + 1))
      BY <1>1, <2>2
    <3> QED BY <2>2, <2>3, <3>1, FS_PigeonHole, Zenon
  <2>5. Pos(x) = Pos(y)
    BY <2>1, <2>4
  <2> QED BY <1>1, <2>4, <2>5, PosDiffer
<1>3. PICK n \in Missing : \A m \in Missing : n <= m
  <2>1. Missing \subseteq Nat /\ Missing # {}
    BY <1>2
  <2> HIDE DEF Missing
  <2> QED BY <2>1, LeastNumber
<1>4. n \in 0..N
  BY <1>1, <1>2, <1>3
<1>5. ASSUME NEW i \in 1..n PROVE Pos(i) \in Keys(v)
  <2>1. i - 1 \in Nat /\ ~(n <= i - 1) /\ (i - 1) + 1 = i
    BY <1>4
  <2>2. i - 1 \notin Missing
    BY <1>3, <2>1
  <2> QED BY <2>1, <2>2
<1>6. Pos(n + 1) \notin Keys(v)
  BY <1>3
<1> HIDE DEF Missing
<1> QED BY <1>1, <1>4, <1>5, <1>6 DEF RawLen

-----------------------------------------------------------------------------
(* Types *)

\* The types that values are put into.
Type == Ctypes \cup {Sized(t, n) : t \in {u \in Ctypes : Unsized(u)}, n \in Nat}

\* A record of a known type, with the size of its variable part or without.
IsStruct(t) ==
  /\ t.k \in {"struct", "union"}
  /\ t = [k |-> t.k, tag |-> t.tag, mbrs |-> t.mbrs, size |-> t.size, unit |-> t.unit,
          extra |-> t.extra]
  /\ Record(t.k, t.tag, t.mbrs, t.size, t.unit) \in Ctypes
  /\ IsLayout(t)
  /\ \/ t.unit = 0 /\ t.extra = 0
     \/ t.unit # 0 /\ t.extra = Unknown
     \/ t.unit # 0 /\ \E n \in Nat : t.extra = t.unit * n

IsType(t) ==
  \/ t.k = "int" /\ t.size \in Nat
  \/ t.k = "ptr" /\ t.size = 2
  \/ t.k = "array" /\ IsArray(t)
  \/ IsStruct(t)

LEMMA CtypesAre == \A t \in Ctypes : IsType(t)
<1> SUFFICES ASSUME NEW t \in Ctypes PROVE IsType(t)
  OBVIOUS
<1>1. CASE t.k = "int"
  BY <1>1, TypesAreLaidOut DEF CtypesAssumption, IsType
<1>2. CASE t.k = "ptr"
  BY <1>2, TypesAreLaidOut DEF CtypesAssumption, IsType, Ptr
<1>3. CASE t.k = "array"
  BY <1>3, TypesAreLaidOut DEF CtypesAssumption, IsType
<1>4. CASE t.k \notin {"int", "ptr", "array"}
  <2>1. IsRecord(t) /\ t = Record(t.k, t.tag, t.mbrs, t.size, t.unit) /\ IsLayout(t)
    BY <1>4, TypesAreLaidOut DEF CtypesAssumption
  <2>2. t.extra = IF t.unit = 0 THEN 0 ELSE Unknown
    BY <2>1 DEF Record
  <2>3. t = [k |-> t.k, tag |-> t.tag, mbrs |-> t.mbrs, size |-> t.size,
             unit |-> t.unit, extra |-> t.extra]
    BY <2>1, <2>2 DEF Record
  <2> QED BY <2>1, <2>2, <2>3 DEF IsRecord, IsStruct, IsType
<1> QED BY <1>1, <1>2, <1>3, <1>4

\* A type that is given a size.
LEMMA SizedFacts ==
  ASSUME NEW t \in Ctypes, Unsized(t), NEW n \in Nat
  PROVE  /\ IsType(Sized(t, n))
         /\ ~Unsized(Sized(t, n))
         /\ Sized(t, n).k = t.k
         /\ SizeOf(Sized(t, n)) \in Nat
<1>1. IsType(t)
  BY CtypesAre
<1>2. CASE t.k = "array"
  <2>1. IsArray(t) /\ t.of \in Ctypes
    BY <1>1, <1>2 DEF IsType, IsStruct, IsArray
  <2>2. Sized(t, n) = Array(t.of, n)
    BY <1>2, <2>1 DEF Sized, IsArray, Array
  <2>3. t.of.size \in Nat
    <3>1. IsType(t.of) /\ t.of.k # "array"
      BY <2>1, CtypesAre DEF IsArray
    <3> QED BY <3>1 DEF IsType, IsStruct, IsLayout
  <2>4. IsArray(Array(t.of, n))
    BY <2>1 DEF IsArray, Array
  <2>5. n # Unknown
    BY DEF Unknown
  <2> QED BY <1>2, <2>2, <2>3, <2>4, <2>5 DEF IsType, Unsized, SizeOf, IsRecord, Array
<1>3. CASE t.k # "array"
  <2>1. IsStruct(t) /\ t.extra = Unknown
    BY <1>1, <1>3 DEF IsType, Unsized, IsRecord
  <2>2. t.unit # 0 /\ t.unit \in Nat /\ t.size \in Nat
    BY <2>1 DEF IsStruct, Unknown, IsLayout
  <2> DEFINE u == [k |-> t.k, tag |-> t.tag, mbrs |-> t.mbrs, size |-> t.size,
                   unit |-> t.unit, extra |-> t.unit * n]
  <2>3. Sized(t, n) = u
    BY <1>3, <2>1 DEF Sized, IsStruct
  <2>4. u.extra \in Nat /\ u.extra # Unknown
    BY <2>2 DEF Unknown
  <2>5. IsLayout(u)
    BY <2>1 DEF IsStruct, IsLayout
  <2>6. IsStruct(u)
    BY <2>1, <2>2, <2>5 DEF IsStruct
  <2> QED BY <1>3, <2>1, <2>2, <2>3, <2>4, <2>6 DEF IsType, Unsized, SizeOf, IsRecord, IsStruct
<1> QED BY <1>2, <1>3

LEMMA TypesAre == \A t \in Type : IsType(t)
BY CtypesAre, SizedFacts DEF Type

\* The size of a type, and what its kind says of it.
LEMMA TypeFacts ==
  ASSUME NEW t \in Type
  PROVE  /\ t.k \in {"int", "ptr", "array", "struct", "union"}
         /\ t.k = "array" => IsArray(t)
         /\ IsRecord(t) => IsStruct(t)
         /\ ~Unsized(t) => SizeOf(t) \in Nat
         /\ Unsized(t) => FixedSize(t) \in Nat
         /\ t.k # "array" => t.size \in Nat
         /\ t.k \in {"int", "ptr"} => ~Unsized(t) /\ SizeOf(t) = t.size
<1>1. IsType(t)
  BY TypesAre
<1>2. t.k \in {"int", "ptr", "array", "struct", "union"}
  BY <1>1 DEF IsType, IsStruct
<1>3. CASE t.k \in {"int", "ptr"}
  BY <1>1, <1>3 DEF IsType, IsStruct, Unsized, SizeOf, IsRecord
<1>4. CASE t.k = "array"
  <2>1. IsArray(t)
    BY <1>1, <1>4 DEF IsType, IsStruct
  <2>2. IsType(t.of) /\ t.of.k # "array"
    BY <2>1, CtypesAre DEF IsArray
  <2>3. t.of.size \in Nat
    BY <2>2 DEF IsType, IsStruct, IsLayout
  <2> QED BY <1>4, <2>1, <2>3 DEF IsArray, Unsized, SizeOf, FixedSize, IsRecord
<1>5. CASE t.k \in {"struct", "union"}
  <2>1. IsStruct(t)
    BY <1>1, <1>5 DEF IsType
  <2>2. t.size \in Nat /\ t.unit \in Nat
    BY <2>1 DEF IsStruct, IsLayout
  <2>3. t.extra = Unknown \/ t.extra \in Nat
    BY <2>1, <2>2 DEF IsStruct
  <2> QED BY <1>5, <2>1, <2>2, <2>3 DEF Unsized, SizeOf, FixedSize, IsRecord
<1> QED BY <1>2, <1>3, <1>4, <1>5

\* The elements of an array.
LEMMA ElementType ==
  ASSUME NEW t \in Type, t.k = "array"
  PROVE  /\ t.of \in Type
         /\ ~Unsized(t.of)
         /\ t.of.size \in Nat
         /\ SizeOf(t.of) = t.of.size
         /\ t.n \in Nat \cup {Unknown}
         /\ Unsized(t) <=> t.n = Unknown
         /\ SizeOf(t) = t.n * t.of.size
<1>1. IsArray(t)
  BY TypeFacts
<1>2. t.of \in Type /\ ~Unsized(t.of) /\ t.of.k # "array" /\ t.n \in Nat \cup {Unknown}
  BY <1>1 DEF IsArray, Type
<1>3. t.of.size \in Nat
  BY <1>2, TypeFacts
<1>4. SizeOf(t.of) = t.of.size
  <2>1. CASE t.of.k \in {"int", "ptr"}
    BY <1>2, <2>1, TypeFacts
  <2>2. CASE IsRecord(t.of)
    <3>1. t.of.extra # Unknown /\ t.of \in Ctypes
      BY <1>1, <1>2, <2>2 DEF Unsized, IsArray
    <3>2. t.of.extra = 0
      <4>1. t.of = Record(t.of.k, t.of.tag, t.of.mbrs, t.of.size, t.of.unit)
        BY <2>2, <3>1, TypesAreLaidOut DEF CtypesAssumption, IsRecord
      <4> QED BY <3>1, <4>1 DEF Record
    <3> QED BY <1>3, <2>2, <3>2 DEF SizeOf, IsRecord
  <2> QED BY <1>2, <2>1, <2>2, TypeFacts DEF IsRecord
<1> QED BY <1>2, <1>3, <1>4 DEF Unsized, SizeOf, IsRecord

\* Member i, with the size of the variable part of its record.
MemberType(t, i) ==
  LET mt == t.mbrs[i].t
  IN  IF t.extra # Unknown /\ Unsized(mt)
        THEN IF mt.k = "array"
               THEN [mt EXCEPT !.n = t.extra \div mt.of.size]
               ELSE [mt EXCEPT !.extra = t.extra]
        ELSE mt

LEMMA GetMember ==
  ASSUME NEW t, NEW key, IsMember(t, key)
  PROVE  \E i \in 1..Len(t.mbrs) :
           /\ HasKey(t, i, key)
           /\ get_member(t, key).at = t.mbrs[i].at
           /\ get_member(t, key).t = MemberType(t, i)
<1> DEFINE i == CHOOSE i \in 1..Len(t.mbrs) : HasKey(t, i, key)
<1>1. i \in 1..Len(t.mbrs) /\ HasKey(t, i, key)
  BY DEF IsMember
<1>2. get_member(t, key).at = t.mbrs[i].at /\ get_member(t, key).t = MemberType(t, i)
  BY DEF get_member, MemberType
<1> HIDE DEF i
<1> QED BY <1>1, <1>2

LEMMA Divides == \A a, b \in Nat : b # 0 => (b * a) \div b = a
OBVIOUS

LEMMA MemberFacts ==
  ASSUME NEW t \in Type, IsRecord(t), NEW i \in 1..Len(t.mbrs)
  PROVE  /\ MemberType(t, i) \in Type
         /\ t.mbrs[i].at \in Nat
         /\ ~Unsized(t) => /\ ~Unsized(MemberType(t, i))
                           /\ t.mbrs[i].at + SizeOf(MemberType(t, i)) <= SizeOf(t)
         /\ Unsized(t) => t.mbrs[i].at + FixedSize(MemberType(t, i)) <= t.size
<1> DEFINE mbr == t.mbrs[i]
           mt  == mbr.t
<1>1. IsStruct(t) /\ IsLayout(t) /\ t.size \in Nat /\ t.unit \in Nat
  BY TypeFacts DEF IsStruct, IsLayout
<1>2. mbr \in [name : Names, at : Nat, t : Ctypes]
  BY <1>1, ElementOfSeq DEF IsLayout
<1>3. mbr.at \in Nat /\ mt \in Ctypes /\ mt \in Type
  BY <1>2 DEF Type
<1>4. /\ mbr.at + FixedSize(mt) <= t.size
      /\ Unsized(mt) => /\ t.unit > 0
                        /\ t.unit = IF mt.k = "array" THEN mt.of.size ELSE mt.unit
  BY <1>1 DEF IsLayout
<1>5. ~Unsized(t) => SizeOf(t) = t.size + t.extra /\ t.extra \in Nat /\ t.extra # Unknown
  BY <1>1 DEF Unsized, SizeOf, IsStruct, IsRecord, Unknown
<1>6. Unsized(t) => t.extra = Unknown
  BY <1>1 DEF Unsized, IsStruct
<1>7. CASE ~(t.extra # Unknown /\ Unsized(mt))
  <2>1. MemberType(t, i) = mt
    BY <1>7 DEF MemberType
  <2>2. ~Unsized(t) => ~Unsized(mt)
    BY <1>5, <1>7
  <2>3. ~Unsized(mt) => FixedSize(mt) = SizeOf(mt) /\ SizeOf(mt) \in Nat
    BY <1>3, TypeFacts DEF FixedSize
  <2> HIDE DEF mbr, mt
  <2>4. ~Unsized(t) => mbr.at + SizeOf(mt) <= SizeOf(t)
    BY <1>1, <1>3, <1>4, <1>5, <2>2, <2>3
  <2> QED BY <1>3, <1>4, <2>1, <2>2, <2>4 DEF mbr, mt
<1>8. CASE t.extra # Unknown /\ Unsized(mt)
  <2>1. PICK n \in Nat : t.extra = t.unit * n
    BY <1>1, <1>4, <1>8 DEF IsStruct
  <2>2. ~Unsized(t)
    BY <1>6, <1>8
  <2>3. MemberType(t, i) = Sized(mt, n)
    <3>1. CASE mt.k = "array"
      <4>1. t.unit = mt.of.size /\ mt.of.size # 0 /\ mt.of.size \in Nat
        BY <1>1, <1>4, <1>8, <3>1
      <4>2. t.extra \div mt.of.size = n
        BY <2>1, <4>1, Divides
      <4> QED BY <1>8, <3>1, <4>2 DEF MemberType, Sized
    <3>2. CASE mt.k # "array"
      <4>1. t.unit = mt.unit
        BY <1>4, <1>8, <3>2
      <4> QED BY <1>8, <2>1, <3>2, <4>1 DEF MemberType, Sized
    <3> QED BY <3>1, <3>2
  <2>4. Sized(mt, n) \in Type /\ ~Unsized(Sized(mt, n)) /\ Sized(mt, n).k = mt.k
    BY <1>3, <1>8, SizedFacts DEF Type
  <2>5. mbr.at + SizeOf(Sized(mt, n)) <= SizeOf(t)
    <3>1. CASE mt.k = "array"
      <4>1. IsArray(mt) /\ t.unit = mt.of.size /\ FixedSize(mt) = 0
        BY <1>3, <1>4, <1>8, <3>1, TypeFacts DEF FixedSize
      <4>2. Sized(mt, n) = Array(mt.of, n)
        BY <3>1, <4>1 DEF Sized, IsArray, Array
      <4>3. SizeOf(Sized(mt, n)) = n * mt.of.size
        BY <4>2 DEF SizeOf, IsRecord, Array
      <4>4. n * mt.of.size = t.extra
        BY <1>1, <2>1, <4>1
      <4> QED BY <1>1, <1>3, <1>4, <1>5, <2>2, <4>1, <4>3, <4>4
    <3>2. CASE mt.k # "array"
      <4>1. IsRecord(mt) /\ IsStruct(mt) /\ FixedSize(mt) = mt.size /\ mt.size \in Nat
        BY <1>3, <1>8, <3>2, TypeFacts DEF FixedSize, IsRecord
      <4>2. SizeOf(Sized(mt, n)) = mt.size + t.extra
        <5>1. t.unit = mt.unit
          BY <1>4, <1>8, <3>2
        <5>2. Sized(mt, n) = [mt EXCEPT !.extra = t.extra]
          BY <2>1, <3>2, <5>1 DEF Sized
        <5>3. Sized(mt, n).k = mt.k /\ Sized(mt, n).size = mt.size /\ Sized(mt, n).extra = t.extra
          BY <4>1, <5>2 DEF IsStruct
        <5> QED BY <4>1, <5>3 DEF SizeOf, IsRecord
      <4> QED BY <1>1, <1>3, <1>4, <1>5, <2>2, <4>1, <4>2
    <3> QED BY <3>1, <3>2
  <2> QED BY <1>3, <2>2, <2>3, <2>4, <2>5
<1> QED BY <1>7, <1>8

\* The members of a struct lie one behind the other.
LEMMA MembersApart ==
  ASSUME NEW t \in Type, t.k = "struct", ~Unsized(t),
         NEW i \in 1..Len(t.mbrs), NEW j \in 1..Len(t.mbrs), i < j
  PROVE  t.mbrs[i].at + SizeOf(MemberType(t, i)) <= t.mbrs[j].at
<1>1. IsRecord(t) /\ IsStruct(t) /\ IsLayout(t) /\ Len(t.mbrs) \in Nat
  <2>1. IsRecord(t)
    BY DEF IsRecord
  <2>2. IsLayout(t)
    BY <2>1, TypeFacts DEF IsStruct
  <2> QED BY <2>1, <2>2, TypeFacts, LenProperties DEF IsLayout
<1>2. t.mbrs[i].t \in Type
  <2>1. t.mbrs[i] \in [name : Names, at : Nat, t : Ctypes]
    BY <1>1, ElementOfSeq DEF IsLayout
  <2> QED BY <2>1 DEF Type
<1>3. ~Unsized(t.mbrs[i].t)
  BY <1>1 DEF IsLayout
<1>4. MemberType(t, i) = t.mbrs[i].t
  BY <1>3 DEF MemberType
<1> QED BY <1>1, <1>3, <1>4 DEF IsLayout, FixedSize

-----------------------------------------------------------------------------
(* What is to be written, and where *)

Item == [do : {"put"}, t : Type, v : Value, at : Nat]
          \cup [do : {"zero"}, at : Nat, n : Nat]
          \cup {Unfound}

\* The bytes that putting v into a place of type t may write.
Span(t, v) ==
  IF ~Unsized(t) THEN SizeOf(t) ELSE IF t.k = "array" THEN Demand(t, v) ELSE t.size

Start(p) == IF p.do = "abort" THEN 0 ELSE p.at
Stop(p)  == CASE p.do = "put"  -> p.at + Span(p.t, p.v)
              [] p.do = "zero" -> p.at + p.n
              [] OTHER         -> 0

\* One lies within the other; two have no byte in common.
Inside(q, p) == \/ q.do = "abort"
                \/ Start(p) <= Start(q) /\ Stop(q) <= Stop(p)
Apart(p, q)  == \/ p.do = "abort" \/ q.do = "abort"
                \/ Stop(p) <= Start(q) \/ Stop(q) <= Start(p)

LEMMA ItemCases ==
  ASSUME NEW p \in Item
  PROVE  \/ /\ p.do = "put" /\ p = Put(p.t, p.v, p.at)
            /\ p.t \in Type /\ p.v \in Value /\ p.at \in Nat
         \/ /\ p.do = "zero" /\ p = Zero(p.at, p.n)
            /\ p.at \in Nat /\ p.n \in Nat
         \/ p.do = "abort" /\ p = Unfound
BY DEF Item, Put, Zero, Unfound

LEMMA PutIsItem ==
  ASSUME NEW t \in Type, NEW v \in Value, NEW at \in Nat
  PROVE  /\ Put(t, v, at) \in Item
         /\ Start(Put(t, v, at)) = at
         /\ Stop(Put(t, v, at)) = at + Span(t, v)
BY DEF Item, Put, Start, Stop

LEMMA ZeroIsItem ==
  ASSUME NEW at \in Nat, NEW n \in Nat
  PROVE  /\ Zero(at, n) \in Item
         /\ Start(Zero(at, n)) = at
         /\ Stop(Zero(at, n)) = at + n
BY DEF Item, Zero, Start, Stop

LEMMA DemandType ==
  ASSUME NEW t \in Type, t.k = "array", NEW v \in Value
  PROVE  Demand(t, v) \in Nat
<1>1. CASE v.k = "str"
  BY <1>1, ValueCases, LenProperties DEF Demand
<1>2. CASE v.k = "table"
  <2>1. RawLen(v) \in Nat /\ t.of.size \in Nat
    BY <1>2, ValueCases, RawLenFacts, ElementType
  <2> QED BY <1>2, <2>1 DEF Demand
<1>3. CASE v.k \notin {"str", "table"}
  BY <1>3 DEF Demand
<1> QED BY <1>1, <1>2, <1>3

LEMMA SpanType ==
  ASSUME NEW t \in Type, NEW v \in Value
  PROVE  Span(t, v) \in Nat
<1>1. CASE ~Unsized(t)
  BY <1>1, TypeFacts DEF Span
<1>2. CASE Unsized(t) /\ t.k = "array"
  BY <1>2, DemandType DEF Span
<1>3. CASE Unsized(t) /\ t.k # "array"
  BY <1>3, TypeFacts DEF Span
<1> QED BY <1>1, <1>2, <1>3

LEMMA StartStop ==
  ASSUME NEW p \in Item
  PROVE  Start(p) \in Nat /\ Stop(p) \in Nat /\ Start(p) <= Stop(p)
<1>1. CASE p.do = "put"
  <2>1. p.at \in Nat /\ Span(p.t, p.v) \in Nat
    BY <1>1, ItemCases, SpanType
  <2> QED BY <1>1, <2>1 DEF Start, Stop
<1>2. CASE p.do = "zero"
  BY <1>2, ItemCases DEF Start, Stop
<1>3. CASE p.do = "abort"
  BY <1>3 DEF Start, Stop
<1> QED BY <1>1, <1>2, <1>3, ItemCases

LEMMA InsideApart ==
  ASSUME NEW p \in Item, NEW q \in Item, NEW r \in Item, Inside(q, p), Apart(p, r)
  PROVE  Apart(q, r)
<1>1. /\ Start(p) \in Nat /\ Stop(p) \in Nat
      /\ Start(q) \in Nat /\ Stop(q) \in Nat /\ Start(q) <= Stop(q)
      /\ Start(r) \in Nat /\ Stop(r) \in Nat
  BY StartStop
<1>2. CASE p.do # "abort"
  BY <1>1, <1>2 DEF Inside, Apart
<1>3. CASE p.do = "abort"
  <2>1. Stop(p) = 0
    BY <1>3 DEF Stop
  <2> QED BY <1>1, <2>1 DEF Inside, Apart
<1> QED BY <1>2, <1>3

-----------------------------------------------------------------------------
(* What a step writes, and what it leaves to be written *)

\* Nothing but bytes, and only within an item.
Writes(m, p, n) ==
  /\ DOMAIN n = DOMAIN m
  /\ \A x \in DOMAIN m : x < Start(p) \/ x >= Stop(p) => n[x] = m[x]
  /\ \A x \in DOMAIN m : n[x] \in Byte
  /\ n = [x \in DOMAIN n |-> n[x]]

IsMemory(m) ==
  /\ DOMAIN m \subseteq Nat
  /\ m = [x \in DOMAIN m |-> m[x]]
  /\ \A x \in DOMAIN m : m[x] \in Byte

\* What is left to be written is a sequence of items within the one it is for.
Leaves(p, more) ==
  /\ more \in Seq(Item)
  /\ \A i \in 1..Len(more) : Inside(more[i], p)

LEMMA MemcpyWrites ==
  ASSUME NEW p \in Item, p.do # "abort", NEW m, IsMemory(m), NEW s \in Seq(Byte),
         Len(s) <= Stop(p) - Start(p)
  PROVE  Writes(m, p, memcpy(m, p.at, s))
<1>1. p.at \in Nat /\ Start(p) = p.at /\ Stop(p) \in Nat /\ Len(s) \in Nat
  BY ItemCases, StartStop, LenProperties DEF Start
<1>2. ASSUME NEW x \in DOMAIN m, x \in p.at..(p.at + Len(s) - 1)
      PROVE  s[x - p.at + 1] \in Byte
  <2>1. x - p.at + 1 \in 1..Len(s)
    BY <1>1, <1>2
  <2> QED BY <2>1, ElementOfSeq
<1>3. ASSUME NEW x \in DOMAIN m, x < Start(p) \/ x >= Stop(p)
      PROVE  x \notin p.at..(p.at + Len(s) - 1)
  BY <1>1, <1>3 DEF IsMemory
<1> QED BY <1>1, <1>2, <1>3 DEF Writes, memcpy, IsMemory

LEMMA MemsetWrites ==
  ASSUME NEW p \in Item, p.do # "abort", NEW m, IsMemory(m), NEW at \in Nat, NEW n \in Nat,
         Start(p) <= at, at + n <= Stop(p)
  PROVE  Writes(m, p, memset(m, at, n))
<1>1. Start(p) \in Nat /\ Stop(p) \in Nat
  BY StartStop
<1>2. ASSUME NEW x \in DOMAIN m, x < Start(p) \/ x >= Stop(p)
      PROVE  x \notin at..(at + n - 1)
  BY <1>1, <1>2 DEF IsMemory
<1>3. 0 \in Byte
  BY DEF Byte
<1> QED BY <1>2, <1>3 DEF Writes, memset, IsMemory

LEMMA NothingWritten ==
  ASSUME NEW p, NEW m, IsMemory(m)
  PROVE  Writes(m, p, m) /\ Leaves(p, <<>>)
BY EmptySeq DEF Writes, Leaves, IsMemory

\* Element i of an array, or any element but those behind the n-th, is within
\* the first n.
LEMMA Elements ==
  ASSUME NEW s \in Nat, NEW n \in Nat, NEW i \in 1..n
  PROVE  /\ (i - 1) * s \in Nat
         /\ (i - 1) * s + s = i * s
         /\ i * s <= n * s
         /\ \A j \in 1..n : i < j => i * s <= (j - 1) * s
<1>1. \A a, b \in Nat : a <= b => a * s <= b * s /\ a * s \in Nat
  OBVIOUS
<1>2. i \in Nat /\ i - 1 \in Nat
  OBVIOUS
<1>3. (i - 1) * s + s = i * s
  BY <1>2
<1>4. \A j \in 1..n : i < j => i <= j - 1 /\ j - 1 \in Nat
  OBVIOUS
<1> QED BY <1>1, <1>2, <1>3, <1>4

LEMMA ElementInside ==
  ASSUME NEW p \in Item, p.do = "put", p.t.k = "array", NEW n \in Nat, NEW i \in 1..n,
         n * p.t.of.size <= Span(p.t, p.v), NEW v \in Value
  PROVE  LET q == Put(p.t.of, v, p.at + (i - 1) * p.t.of.size)
         IN  /\ q \in Item
             /\ Start(q) = p.at + (i - 1) * p.t.of.size
             /\ Stop(q) = p.at + i * p.t.of.size
             /\ Inside(q, p)
<1> DEFINE s == p.t.of.size
           at == p.at + (i - 1) * s
           q == Put(p.t.of, v, at)
<1>1. /\ p.t \in Type /\ p.v \in Value /\ p.at \in Nat
      /\ Start(p) = p.at /\ Stop(p) = p.at + Span(p.t, p.v) /\ Span(p.t, p.v) \in Nat
  BY ItemCases, SpanType DEF Start, Stop
<1>2. p.t.of \in Type /\ ~Unsized(p.t.of) /\ s \in Nat /\ SizeOf(p.t.of) = s
  BY <1>1, ElementType
<1>3. Span(p.t.of, v) = s
  BY <1>2 DEF Span
<1>4. (i - 1) * s \in Nat /\ (i - 1) * s + s = i * s /\ i * s <= n * s
  BY <1>2, Elements
<1>5. n * s \in Nat /\ i * s \in Nat
  BY <1>2
<1> HIDE DEF s
<1>6. at \in Nat
  BY <1>1, <1>4
<1>7. q \in Item /\ Start(q) = at /\ Stop(q) = at + s
  BY <1>2, <1>3, <1>6, PutIsItem
<1>8. at + s = p.at + i * s /\ p.at <= at /\ at + s <= p.at + Span(p.t, p.v)
  BY <1>1, <1>2, <1>4, <1>5 DEF s
<1>9. Inside(q, p)
  BY <1>1, <1>7, <1>8 DEF Inside
<1> QED BY <1>7, <1>8, <1>9 DEF s

LEMMA TerminatedFacts ==
  ASSUME NEW s \in Seq(Byte), NEW n \in Nat \cup {Unknown}
  PROVE  /\ Terminated(s, n) \in Seq(Byte)
         /\ n = Unknown => Len(Terminated(s, n)) = Len(s) + 1
         /\ n # Unknown => Len(Terminated(s, n)) <= n
         /\ Len(Terminated(s, n)) \in Nat
         /\ \A i \in 1..Len(Terminated(s, n)) : Terminated(s, n)[i] = Append(s, 0)[i]
         /\ n # Unknown => \A i \in 1..Len(Append(s, 0)) :
                             i <= n => i <= Len(Terminated(s, n))
<1>1. /\ Append(s, 0) \in Seq(Byte) /\ Len(Append(s, 0)) = Len(s) + 1
      /\ \A i \in 1..Len(s) : Append(s, 0)[i] = s[i]
      /\ Len(s) \in Nat
  <2>1. 0 \in Byte
    BY DEF Byte
  <2> QED BY <2>1, AppendProperties, LenProperties
<1>2. CASE n # Unknown /\ Len(s) >= n
  <2>1. n \in Nat
    BY <1>2
  <2>2. \A i \in 1..n : s[i] \in Byte
    BY <1>1, <1>2, <2>1, ElementOfSeq
  <2>3. /\ SubSeq(s, 1, n) \in Seq(Byte)
        /\ Len(SubSeq(s, 1, n)) = IF 1 <= n THEN n - 1 + 1 ELSE 0
        /\ \A i \in 1..(n - 1 + 1) : SubSeq(s, 1, n)[i] = s[1 + i - 1]
    BY <2>1, <2>2, SubSeqProperties
  <2>4. Terminated(s, n) = SubSeq(s, 1, n)
    BY <1>2 DEF Terminated
  <2>5. Len(SubSeq(s, 1, n)) = n
    BY <2>1, <2>3
  <2>6. \A i \in 1..n : SubSeq(s, 1, n)[i] = Append(s, 0)[i]
    BY <1>1, <1>2, <2>1, <2>3
  <2> QED BY <1>2, <2>1, <2>3, <2>4, <2>5, <2>6
<1>3. CASE ~(n # Unknown /\ Len(s) >= n)
  <2>1. Terminated(s, n) = Append(s, 0)
    BY <1>3 DEF Terminated
  <2> QED BY <1>1, <1>3, <2>1 DEF Unknown
<1> QED BY <1>2, <1>3

\* Element i of the array at p, for the value v.
Element(p, v, i) == Put(p.t.of, v, p.at + (i - 1) * p.t.of.size)

\* The elements that a table gives an array.
Given(p) == IF RawLen(p.v) < p.t.n THEN RawLen(p.v) ELSE p.t.n

\* What set_array does when it does not raise an error.
ArrayCase(p, m, r) ==
  \/ /\ p.v.k = "str" /\ p.t.of = Integer(1)
     /\ r.m = memcpy(m, p.at, Terminated(p.v.s, p.t.n)) /\ r.more = <<>>
  \/ /\ p.v.k = "table" /\ p.t.n = Unknown
     /\ r.m = m /\ r.more = [i \in 1..RawLen(p.v) |-> Element(p, Get(p.v, Pos(i)), i)]
  \/ /\ p.v.k = "table" /\ p.t.n # Unknown
     /\ Get(p.v, Pos(2)) = Nil /\ Get(p.v, Pos(1)) = Nil
     /\ r.m = memset(m, p.at, SizeOf(p.t)) /\ r.more = <<>>
  \/ /\ p.v.k = "table" /\ p.t.n # Unknown
     /\ Get(p.v, Pos(2)) = Nil /\ Get(p.v, Pos(1)) # Nil
     /\ r.m = m /\ r.more = [i \in 1..p.t.n |-> Element(p, Get(p.v, Pos(1)), i)]
  \/ /\ p.v.k = "table" /\ p.t.n # Unknown /\ Get(p.v, Pos(2)) # Nil
     /\ r.m = m
     /\ r.more = Append([i \in 1..Given(p) |-> Element(p, Get(p.v, Pos(i)), i)],
                        Zero(p.at + ((Given(p) + 1) - 1) * p.t.of.size, Rest(p.t, Given(p))))

LEMMA ArrayCases ==
  ASSUME NEW p, NEW m, set_array(p.t, p.v, m, p.at).st = "ok"
  PROVE  ArrayCase(p, m, set_array(p.t, p.v, m, p.at))
<1> DEFINE r == set_array(p.t, p.v, m, p.at)
<1>1. CASE p.v.k = "str" /\ p.t.of = Integer(1)
  BY <1>1 DEF set_array, ArrayCase, Done
<1>2. CASE p.v.k = "table" /\ p.t.n = Unknown
  BY <1>2 DEF set_array, ArrayCase, Done, Element
<1>3. CASE p.v.k = "table" /\ p.t.n # Unknown /\ Get(p.v, Pos(2)) = Nil
  BY <1>3 DEF set_array, ArrayCase, Done, Element
<1>4. CASE p.v.k = "table" /\ p.t.n # Unknown /\ Get(p.v, Pos(2)) # Nil
  BY <1>4 DEF set_array, ArrayCase, Done, Element, Given
<1>5. CASE ~(p.v.k = "str" /\ p.t.of = Integer(1)) /\ p.v.k # "table"
  <2>1. r = Failed(m)
    BY <1>5 DEF set_array
  <2> QED BY <2>1 DEF Failed
<1> QED BY <1>1, <1>2, <1>3, <1>4, <1>5

\* What is behind the elements that are given.
LEMMA RestFacts ==
  ASSUME NEW p \in Item, p.do = "put", p.t.k = "array", p.t.n # Unknown, p.v.k = "table"
  PROVE  LET z == Zero(p.at + ((Given(p) + 1) - 1) * p.t.of.size, Rest(p.t, Given(p)))
         IN  /\ Given(p) \in Nat /\ Given(p) <= p.t.n /\ Given(p) <= RawLen(p.v)
             /\ z \in Item
             /\ Start(z) = p.at + Given(p) * p.t.of.size
             /\ Stop(z) = p.at + p.t.n * p.t.of.size
             /\ Inside(z, p)
<1> DEFINE s == p.t.of.size
           g == Given(p)
           n == p.t.n
<1>1. /\ p.t \in Type /\ p.v \in Value /\ p.at \in Nat
      /\ Start(p) = p.at /\ Stop(p) = p.at + Span(p.t, p.v)
  BY ItemCases DEF Start, Stop
<1>2. s \in Nat /\ n \in Nat /\ ~Unsized(p.t) /\ SizeOf(p.t) = n * s
  BY <1>1, ElementType
<1>3. RawLen(p.v) \in Nat
  BY <1>1, ValueCases, RawLenFacts
<1>4. g \in Nat /\ g <= n /\ g <= RawLen(p.v)
  BY <1>2, <1>3 DEF Given
<1>5. Span(p.t, p.v) = n * s
  BY <1>2 DEF Span
<1>6. n - g \in Nat /\ (g + 1) - 1 = g
  BY <1>2, <1>4
<1>7. g * s \in Nat /\ (n - g) * s \in Nat /\ g * s + (n - g) * s = n * s
  <2>1. \A a, b \in Nat : a * s \in Nat /\ a * s + b * s = (a + b) * s
    BY <1>2
  <2>2. g + (n - g) = n
    BY <1>2, <1>4
  <2> HIDE DEF s, g, n
  <2> QED BY <1>4, <1>6, <2>1, <2>2
<1>8. Rest(p.t, g) = (n - g) * s
  BY DEF Rest
<1> HIDE DEF s, g, n
<1> DEFINE z == Zero(p.at + ((g + 1) - 1) * s, Rest(p.t, g))
<1>9. z = Zero(p.at + g * s, (n - g) * s)
  BY <1>6, <1>8
<1>10. z \in Item /\ Start(z) = p.at + g * s /\ Stop(z) = p.at + g * s + (n - g) * s
  <2>1. p.at + g * s \in Nat
    BY <1>1, <1>7
  <2> HIDE DEF z
  <2> QED BY <1>7, <1>9, <2>1, ZeroIsItem
<1>11. Stop(z) = p.at + n * s
  BY <1>1, <1>7, <1>10
<1>12. Inside(z, p)
  BY <1>1, <1>5, <1>7, <1>10, <1>11 DEF Inside
<1> QED BY <1>4, <1>10, <1>11, <1>12 DEF s, g, n

LEMMA ArrayWrites ==
  ASSUME NEW p \in Item, p.do = "put", p.t.k = "array", NEW m, IsMemory(m),
         NEW r, ArrayCase(p, m, r)
  PROVE  Writes(m, p, r.m) /\ Leaves(p, r.more)
<1> DEFINE s == p.t.of.size
           n == p.t.n
<1>1. /\ p.t \in Type /\ p.v \in Value /\ p.at \in Nat
      /\ Start(p) = p.at /\ Stop(p) = p.at + Span(p.t, p.v) /\ Span(p.t, p.v) \in Nat
  BY ItemCases, SpanType DEF Start, Stop
<1>2. /\ s \in Nat /\ n \in Nat \cup {Unknown}
      /\ Unsized(p.t) <=> n = Unknown
      /\ SizeOf(p.t) = n * s
  BY <1>1, ElementType
<1>3. /\ n # Unknown => Span(p.t, p.v) = n * s
      /\ n = Unknown => Span(p.t, p.v) = Demand(p.t, p.v)
  BY <1>2 DEF Span
<1>4. Writes(m, p, m) /\ Leaves(p, <<>>)
  BY NothingWritten
<1>5. p.v.k = "table" => IsTable(p.v) /\ RawLen(p.v) \in Nat
  BY <1>1, ValueCases, RawLenFacts
<1>6. ASSUME NEW k \in Nat, k * s <= Span(p.t, p.v), NEW q, q = [i \in 1..k |-> q[i]],
             \A i \in 1..k : \E v \in Value : q[i] = Element(p, v, i)
      PROVE  Leaves(p, q)
  <2>1. ASSUME NEW i \in 1..k
        PROVE  q[i] \in Item /\ Inside(q[i], p)
    BY <1>6, ElementInside DEF Element
  <2>2. q \in Seq(Item) /\ Len(q) = k
    BY <1>6, <2>1
  <2> QED BY <2>1, <2>2 DEF Leaves
<1>7. CASE /\ p.v.k = "str" /\ p.t.of = Integer(1)
           /\ r.m = memcpy(m, p.at, Terminated(p.v.s, n)) /\ r.more = <<>>
  <2>1. p.v.s \in Seq(Byte) /\ s = 1
    BY <1>1, <1>7, ValueCases DEF Integer
  <2>2. Len(Terminated(p.v.s, n)) <= Span(p.t, p.v) /\ Terminated(p.v.s, n) \in Seq(Byte)
    <3>1. CASE n = Unknown
      BY <1>3, <1>7, <2>1, <3>1, TerminatedFacts DEF Demand
    <3>2. CASE n # Unknown
      BY <1>2, <1>3, <2>1, <3>2, TerminatedFacts
    <3> QED BY <3>1, <3>2
  <2>3. Stop(p) - Start(p) = Span(p.t, p.v) /\ p.do # "abort"
    BY <1>1
  <2> QED BY <1>4, <1>7, <2>2, <2>3, MemcpyWrites
<1>8. CASE /\ p.v.k = "table" /\ n = Unknown
           /\ r.m = m /\ r.more = [i \in 1..RawLen(p.v) |-> Element(p, Get(p.v, Pos(i)), i)]
  <2>1. Span(p.t, p.v) = RawLen(p.v) * s
    BY <1>3, <1>8 DEF Demand
  <2>2. RawLen(p.v) * s <= Span(p.t, p.v)
    BY <1>1, <2>1
  <2>3. \A i \in 1..RawLen(p.v) : Get(p.v, Pos(i)) \in Value
    BY <1>5, <1>8, GetValue
  <2>4. /\ r.more = [i \in 1..RawLen(p.v) |-> r.more[i]]
        /\ \A i \in 1..RawLen(p.v) : \E v \in Value : r.more[i] = Element(p, v, i)
    BY <1>8, <2>3
  <2> QED BY <1>4, <1>5, <1>6, <1>8, <2>2, <2>4
<1>9. CASE /\ n # Unknown
           /\ r.m = memset(m, p.at, SizeOf(p.t)) /\ r.more = <<>>
  <2>1. SizeOf(p.t) \in Nat /\ SizeOf(p.t) = Span(p.t, p.v)
    BY <1>1, <1>2, <1>3, <1>9
  <2>2. p.do # "abort" /\ Start(p) <= p.at /\ p.at + SizeOf(p.t) <= Stop(p)
    BY <1>1, <2>1
  <2> QED BY <1>1, <1>4, <1>9, <2>1, <2>2, MemsetWrites
<1>10. CASE /\ p.v.k = "table" /\ n # Unknown
            /\ r.m = m /\ r.more = [i \in 1..n |-> Element(p, Get(p.v, Pos(1)), i)]
  <2>1. n \in Nat /\ n * s <= Span(p.t, p.v)
    BY <1>1, <1>2, <1>3, <1>10
  <2>2. \A i \in 1..n : Get(p.v, Pos(1)) \in Value
    BY <1>5, <1>10, GetValue
  <2>3. /\ r.more = [i \in 1..n |-> r.more[i]]
        /\ \A i \in 1..n : \E v \in Value : r.more[i] = Element(p, v, i)
    BY <1>10, <2>2
  <2> QED BY <1>4, <1>6, <1>10, <2>1, <2>3
<1>11. CASE /\ p.v.k = "table" /\ n # Unknown
            /\ r.m = m
            /\ r.more = Append([i \in 1..Given(p) |-> Element(p, Get(p.v, Pos(i)), i)],
                               Zero(p.at + ((Given(p) + 1) - 1) * s, Rest(p.t, Given(p))))
  <2> DEFINE z == Zero(p.at + ((Given(p) + 1) - 1) * s, Rest(p.t, Given(p)))
             q == [i \in 1..Given(p) |-> Element(p, Get(p.v, Pos(i)), i)]
  <2>1. Given(p) \in Nat /\ Given(p) <= n /\ z \in Item /\ Inside(z, p)
    BY <1>11, RestFacts
  <2>2. Given(p) * s <= Span(p.t, p.v)
    <3>1. \A a, b \in Nat : a <= b => a * s <= b * s
      BY <1>2
    <3> QED BY <1>1, <1>2, <1>3, <1>11, <2>1, <3>1
  <2>3. \A i \in 1..Given(p) : Get(p.v, Pos(i)) \in Value
    BY <1>5, <1>11, GetValue
  <2>4. Leaves(p, q)
    <3>1. /\ q = [i \in 1..Given(p) |-> q[i]]
          /\ \A i \in 1..Given(p) : \E v \in Value : q[i] = Element(p, v, i)
      BY <2>3
    <3> HIDE DEF q
    <3> QED BY <1>6, <2>1, <2>2, <3>1
  <2>5. r.more = Append(q, z)
    BY <1>11
  <2> HIDE DEF q, z
  <2>6. Leaves(p, Append(q, z))
    BY <2>1, <2>4, AppendProperties, LenProperties DEF Leaves
  <2> QED BY <1>4, <1>11, <2>5, <2>6
<1> HIDE DEF s, n
<1> QED BY <1>7, <1>8, <1>9, <1>10, <1>11 DEF ArrayCase, s, n

\* Member i of the record at p, for the value v.
Member(p, v, i) == Put(MemberType(p.t, i), v, p.at + p.t.mbrs[i].at)

LEMMA MemberInside ==
  ASSUME NEW p \in Item, p.do = "put", IsRecord(p.t), ~Unsized(p.t), NEW v \in Value,
         NEW i \in 1..Len(p.t.mbrs)
  PROVE  LET q == Member(p, v, i)
         IN  /\ q \in Item
             /\ Start(q) = p.at + p.t.mbrs[i].at
             /\ Stop(q) = p.at + (p.t.mbrs[i].at + SizeOf(MemberType(p.t, i)))
             /\ Inside(q, p)
<1> DEFINE mt == MemberType(p.t, i)
           q  == Member(p, v, i)
<1>1. /\ p.t \in Type /\ p.v \in Value /\ p.at \in Nat
      /\ Start(p) = p.at /\ Stop(p) = p.at + SizeOf(p.t) /\ SizeOf(p.t) \in Nat
  BY ItemCases, TypeFacts DEF Start, Stop, Span
<1>2. /\ mt \in Type /\ p.t.mbrs[i].at \in Nat /\ ~Unsized(mt)
      /\ p.t.mbrs[i].at + SizeOf(mt) <= SizeOf(p.t)
  BY <1>1, MemberFacts
<1>3. SizeOf(mt) \in Nat /\ Span(mt, v) = SizeOf(mt)
  BY <1>2, TypeFacts DEF Span
<1>4. p.at + p.t.mbrs[i].at \in Nat
  BY <1>1, <1>2
<1>5. /\ q \in Item /\ Start(q) = p.at + p.t.mbrs[i].at
      /\ Stop(q) = (p.at + p.t.mbrs[i].at) + SizeOf(mt)
  BY <1>2, <1>3, <1>4, PutIsItem DEF Member
<1> HIDE DEF q, mt
<1>6. Stop(q) = p.at + (p.t.mbrs[i].at + SizeOf(mt))
  BY <1>1, <1>2, <1>3, <1>5
<1>7. Inside(q, p)
  BY <1>1, <1>2, <1>3, <1>5, <1>6 DEF Inside
<1> QED BY <1>5, <1>6, <1>7 DEF q, mt

LEMMA PutMemberCases ==
  ASSUME NEW p, NEW key, NEW v
  PROVE  \/ /\ PutMember(p.t, key, v, p.at) = Unfound
            /\ ~IsMember(p.t, key)
         \/ \E i \in 1..Len(p.t.mbrs) :
              HasKey(p.t, i, key) /\ PutMember(p.t, key, v, p.at) = Member(p, v, i)
<1>1. CASE ~IsMember(p.t, key)
  BY <1>1 DEF PutMember
<1>2. CASE IsMember(p.t, key)
  <2>1. PICK i \in 1..Len(p.t.mbrs) :
          /\ HasKey(p.t, i, key)
          /\ get_member(p.t, key).at = p.t.mbrs[i].at
          /\ get_member(p.t, key).t = MemberType(p.t, i)
    BY <1>2, GetMember
  <2> QED BY <1>2, <2>1 DEF PutMember, Member
<1> QED BY <1>1, <1>2

Entries(p) == [i \in 1..Len(p.v.e) |-> PutMember(p.t, p.v.e[i][1], p.v.e[i][2], p.at)]

Others(p) ==
  IF Single(p.v) /\ p.t.k # "union" /\ Len(p.t.mbrs) > 2
    THEN [i \in 1..(Len(p.t.mbrs) - 2) |-> PutMember(p.t, Pos(i + 1), Get(p.v, Pos(1)), p.at)]
    ELSE <<>>

\* What set_struct does when it does not raise an error.
StructCase(p, m, r) ==
  \/ /\ p.v.k = "table" /\ ~Unsized(p.t)
     /\ r.m = memset(m, p.at, SizeOf(p.t)) /\ r.more = Entries(p) \o Others(p)
  \/ /\ p.v.k = "cdata" /\ p.v.tag = p.t.tag
     /\ r.m = memcpy(m, p.at, p.v.bytes) /\ r.more = <<>>

LEMMA StructCases ==
  ASSUME NEW p, NEW m, set_struct(p.t, p.v, m, p.at).st = "ok"
  PROVE  StructCase(p, m, set_struct(p.t, p.v, m, p.at))
<1> DEFINE r == set_struct(p.t, p.v, m, p.at)
<1>1. CASE p.v.k = "table" /\ ~Unsized(p.t)
  BY <1>1 DEF set_struct, StructCase, Done, Entries, Others
<1>2. CASE p.v.k = "cdata" /\ p.v.tag = p.t.tag
  BY <1>2 DEF set_struct, StructCase, Done
<1>3. CASE ~(p.v.k = "table" /\ ~Unsized(p.t)) /\ ~(p.v.k = "cdata" /\ p.v.tag = p.t.tag)
  <2>1. r = Failed(m)
    BY <1>3 DEF set_struct
  <2> QED BY <2>1 DEF Failed
<1> QED BY <1>1, <1>2, <1>3

LEMMA StructWrites ==
  ASSUME NEW p \in Item, p.do = "put", IsRecord(p.t), NEW m, IsMemory(m),
         NEW r, StructCase(p, m, r)
  PROVE  Writes(m, p, r.m) /\ Leaves(p, r.more)
<1>1. /\ p.t \in Type /\ p.v \in Value /\ p.at \in Nat
      /\ Start(p) = p.at /\ Stop(p) = p.at + Span(p.t, p.v) /\ Span(p.t, p.v) \in Nat
  BY ItemCases, SpanType DEF Start, Stop
<1>2. IsStruct(p.t) /\ Len(p.t.mbrs) \in Nat
  BY <1>1, TypeFacts, LenProperties DEF IsStruct, IsLayout
<1>3. CASE /\ p.v.k = "table" /\ ~Unsized(p.t)
           /\ r.m = memset(m, p.at, SizeOf(p.t)) /\ r.more = Entries(p) \o Others(p)
  <2>1. IsTable(p.v) /\ Len(p.v.e) \in Nat
    BY <1>1, <1>3, ValueCases, LenProperties DEF IsTable
  <2>2. SizeOf(p.t) \in Nat /\ SizeOf(p.t) = Span(p.t, p.v)
    BY <1>1, <1>3 DEF Span
  <2>3. Writes(m, p, r.m)
    <3>1. p.do # "abort" /\ Start(p) <= p.at /\ p.at + SizeOf(p.t) <= Stop(p)
      BY <1>1, <2>2
    <3> QED BY <1>1, <1>3, <2>2, <3>1, MemsetWrites
  <2>4. ASSUME NEW key, NEW v \in Value
        PROVE  LET q == PutMember(p.t, key, v, p.at) IN q \in Item /\ Inside(q, p)
    <3> DEFINE q == PutMember(p.t, key, v, p.at)
    <3>1. ASSUME q = Unfound
          PROVE  q \in Item /\ Inside(q, p)
      <4> HIDE DEF q
      <4>1. Unfound \in Item
        BY DEF Item
      <4>2. Unfound.do = "abort"
        BY DEF Unfound
      <4> QED BY <3>1, <4>1, <4>2 DEF Inside
    <3>2. ASSUME NEW i \in 1..Len(p.t.mbrs), q = Member(p, v, i)
          PROVE  q \in Item /\ Inside(q, p)
      <4> HIDE DEF q
      <4> QED BY <1>3, <3>2, MemberInside
    <3> QED BY <3>1, <3>2, PutMemberCases
  <2>5. Leaves(p, Entries(p))
    <3>1. ASSUME NEW i \in 1..Len(p.v.e)
          PROVE  Entries(p)[i] \in Item /\ Inside(Entries(p)[i], p)
      <4>1. p.v.e[i][2] \in Value
        BY <2>1, GetEntry
      <4> QED BY <2>4, <4>1 DEF Entries
    <3>2. Entries(p) = [i \in 1..Len(p.v.e) |-> Entries(p)[i]]
      BY DEF Entries
    <3>3. Entries(p) \in Seq(Item) /\ Len(Entries(p)) = Len(p.v.e)
      BY <2>1, <3>1, <3>2
    <3> QED BY <3>1, <3>3 DEF Leaves
  <2>6. Leaves(p, Others(p))
    <3>1. CASE Others(p) = <<>>
      BY <3>1, EmptySeq DEF Leaves
    <3>2. CASE /\ Len(p.t.mbrs) > 2
               /\ Others(p) = [i \in 1..(Len(p.t.mbrs) - 2) |->
                                 PutMember(p.t, Pos(i + 1), Get(p.v, Pos(1)), p.at)]
      <4>1. ASSUME NEW i \in 1..(Len(p.t.mbrs) - 2)
            PROVE  Others(p)[i] \in Item /\ Inside(Others(p)[i], p)
        BY <2>1, <2>4, <3>2, GetValue
      <4>2. Others(p) \in Seq(Item) /\ Len(Others(p)) = Len(p.t.mbrs) - 2
        <5>1. Len(p.t.mbrs) - 2 \in Nat
          BY <1>2, <3>2
        <5>2. Others(p) = [i \in 1..(Len(p.t.mbrs) - 2) |-> Others(p)[i]]
          BY <3>2
        <5> QED BY <4>1, <5>1, <5>2
      <4> QED BY <4>1, <4>2 DEF Leaves
    <3> QED BY <3>1, <3>2 DEF Others
  <2>7. Leaves(p, Entries(p) \o Others(p))
    BY <2>5, <2>6, ConcatProperties, LenProperties DEF Leaves
  <2> QED BY <1>3, <2>3, <2>7
<1>4. CASE /\ p.v.k = "cdata" /\ p.v.tag = p.t.tag
           /\ r.m = memcpy(m, p.at, p.v.bytes) /\ r.more = <<>>
  <2>1. p.v.bytes \in Seq(Byte) /\ Len(p.v.bytes) = p.t.size
    <3>1. /\ Record(p.t.k, p.t.tag, p.t.mbrs, p.t.size, p.t.unit) \in Ctypes
          /\ p.t.k \in {"struct", "union"}
      BY <1>2 DEF IsStruct
    <3> DEFINE u == Record(p.t.k, p.t.tag, p.t.mbrs, p.t.size, p.t.unit)
    <3>2. IsRecord(u) /\ u.tag = p.v.tag /\ u.size = p.t.size
      BY <1>4, <3>1 DEF Record, IsRecord
    <3> HIDE DEF u
    <3> QED BY <1>1, <1>4, <3>1, <3>2, ValueCases DEF u
  <2>2. p.t.size <= Span(p.t, p.v) /\ p.t.size \in Nat
    <3>1. p.t.size \in Nat /\ p.t.unit \in Nat /\ p.t.k # "array"
      BY <1>2 DEF IsStruct, IsLayout
    <3>2. CASE Unsized(p.t)
      BY <3>1, <3>2 DEF Span
    <3>3. CASE ~Unsized(p.t)
      <4>1. p.t.extra \in Nat
        BY <1>2, <3>1, <3>3 DEF IsStruct, Unsized, IsRecord
      <4>2. SizeOf(p.t) = p.t.size + p.t.extra
        BY <3>1 DEF SizeOf
      <4> QED BY <3>1, <3>3, <4>1, <4>2 DEF Span
    <3> QED BY <3>2, <3>3
  <2>3. p.do # "abort" /\ Len(p.v.bytes) <= Stop(p) - Start(p)
    BY <1>1, <2>1, <2>2
  <2> QED BY <1>4, <2>1, <2>3, MemcpyWrites, NothingWritten
<1> QED BY <1>3, <1>4 DEF StructCase

\* What SetScalar does when it does not raise an error.
ScalarCase(p, m, r) ==
  /\ p.v.k \in {"nil", "num"} /\ r.more = <<>>
  /\ r.m = memcpy(m, p.at, Bytes(IF p.v.k = "num" THEN p.v.n ELSE 0, p.t.size))

LEMMA ScalarCases ==
  ASSUME NEW p, NEW m, SetScalar(p.t, p.v, m, p.at).st = "ok"
  PROVE  ScalarCase(p, m, SetScalar(p.t, p.v, m, p.at))
<1> DEFINE r == SetScalar(p.t, p.v, m, p.at)
<1>1. CASE p.v.k = "nil"
  BY <1>1 DEF SetScalar, ScalarCase, Done
<1>2. CASE p.v.k = "num" /\ p.t.k = "int"
  BY <1>2 DEF SetScalar, ScalarCase, Done
<1>3. CASE p.v.k # "nil" /\ ~(p.v.k = "num" /\ p.t.k = "int")
  <2>1. r = Failed(m)
    BY <1>3 DEF SetScalar
  <2> QED BY <2>1 DEF Failed
<1> QED BY <1>1, <1>2, <1>3

LEMMA BytesFacts ==
  ASSUME NEW n \in Byte, NEW size \in Nat
  PROVE  Bytes(n, size) \in Seq(Byte) /\ Len(Bytes(n, size)) = size
<1>1. \A i \in 1..size : (IF i = 1 THEN n ELSE 0) \in Byte
  BY DEF Byte
<1> QED BY <1>1 DEF Bytes

LEMMA ScalarWrites ==
  ASSUME NEW p \in Item, p.do = "put", p.t.k \in {"int", "ptr"}, NEW m, IsMemory(m),
         NEW r, ScalarCase(p, m, r)
  PROVE  Writes(m, p, r.m) /\ Leaves(p, r.more)
<1> DEFINE n == IF p.v.k = "num" THEN p.v.n ELSE 0
<1>1. /\ p.t \in Type /\ p.v \in Value /\ p.at \in Nat
      /\ Start(p) = p.at /\ Stop(p) = p.at + p.t.size /\ p.t.size \in Nat
  BY ItemCases, TypeFacts DEF Start, Stop, Span
<1>2. n \in Byte
  BY <1>1, ValueCases DEF Byte
<1> HIDE DEF n
<1>3. Bytes(n, p.t.size) \in Seq(Byte) /\ Len(Bytes(n, p.t.size)) = p.t.size
  BY <1>1, <1>2, BytesFacts
<1>4. p.do # "abort" /\ Len(Bytes(n, p.t.size)) <= Stop(p) - Start(p)
  BY <1>1, <1>3
<1>5. Writes(m, p, memcpy(m, p.at, Bytes(n, p.t.size)))
  BY <1>3, <1>4, MemcpyWrites
<1> QED BY <1>5, NothingWritten DEF ScalarCase, n

-----------------------------------------------------------------------------
(* The outcome of a step *)

OutcomeCase(p, m, r) ==
  \/ p.do = "put" /\ p.t.k = "array" /\ ArrayCase(p, m, r)
  \/ p.do = "put" /\ IsRecord(p.t) /\ StructCase(p, m, r)
  \/ p.do = "put" /\ p.t.k \in {"int", "ptr"} /\ ScalarCase(p, m, r)
  \/ p.do = "zero" /\ r.m = memset(m, p.at, p.n) /\ r.more = <<>>

LEMMA OutcomeCases ==
  ASSUME NEW p \in Item, NEW m, Outcome(p, m).st = "ok"
  PROVE  OutcomeCase(p, m, Outcome(p, m))
<1>1. CASE p.do = "put"
  <2>1. p.t.k \in {"int", "ptr", "array", "struct", "union"}
    BY <1>1, ItemCases, TypeFacts
  <2>2. Outcome(p, m) = set_value(p.t, p.v, m, p.at)
    BY <1>1 DEF Outcome
  <2>3. CASE p.t.k = "array"
    <3>1. Outcome(p, m) = set_array(p.t, p.v, m, p.at)
      BY <2>2, <2>3 DEF set_value, IsRecord
    <3> QED BY <1>1, <2>3, <3>1, ArrayCases DEF OutcomeCase
  <2>4. CASE IsRecord(p.t)
    <3>1. Outcome(p, m) = set_struct(p.t, p.v, m, p.at)
      BY <2>2, <2>4 DEF set_value, IsRecord
    <3> QED BY <1>1, <2>4, <3>1, StructCases DEF OutcomeCase
  <2>5. CASE p.t.k \in {"int", "ptr"}
    <3>1. Outcome(p, m) = SetScalar(p.t, p.v, m, p.at)
      BY <2>2, <2>5 DEF set_value, IsRecord
    <3> QED BY <1>1, <2>5, <3>1, ScalarCases DEF OutcomeCase
  <2> QED BY <2>1, <2>3, <2>4, <2>5 DEF IsRecord
<1>2. CASE p.do = "zero"
  BY <1>2 DEF Outcome, Done, OutcomeCase
<1>3. CASE p.do = "abort"
  BY <1>3 DEF Outcome, Aborted
<1> QED BY <1>1, <1>2, <1>3, ItemCases

LEMMA OutcomeWrites ==
  ASSUME NEW p \in Item, NEW m, IsMemory(m), NEW r, OutcomeCase(p, m, r)
  PROVE  Writes(m, p, r.m) /\ Leaves(p, r.more)
<1>1. CASE p.do = "zero" /\ r.m = memset(m, p.at, p.n) /\ r.more = <<>>
  <2>1. /\ p.at \in Nat /\ p.n \in Nat /\ p.do # "abort"
        /\ Start(p) <= p.at /\ p.at + p.n <= Stop(p)
    BY <1>1, ItemCases DEF Start, Stop
  <2> QED BY <1>1, <2>1, MemsetWrites, NothingWritten
<1> QED BY <1>1, ArrayWrites, StructWrites, ScalarWrites DEF OutcomeCase

-----------------------------------------------------------------------------
(* Places that are assigned to *)

\* A place for v lies in an object of a size.
InRoom(target, v, size) ==
  /\ target.t \in Type /\ target.at \in Nat
  /\ target.at + Span(target.t, v) <= size

LEMMA TargetsInRoom ==
  ASSUME NEW t \in Type, ~Unsized(t), NEW target \in Targets(t), NEW v \in Value
  PROVE  InRoom(target, v, SizeOf(t))
<1>1. CASE IsRecord(t)
  <2>1. PICK j \in 1..Len(t.mbrs) : target = get_member(t, Named(t.mbrs[j].name))
    BY <1>1 DEF Targets, IsRecord
  <2>2. IsMember(t, Named(t.mbrs[j].name))
    BY DEF IsMember, HasKey
  <2>3. PICK i \in 1..Len(t.mbrs) : target.at = t.mbrs[i].at /\ target.t = MemberType(t, i)
    BY <2>1, <2>2, GetMember
  <2>4. /\ target.t \in Type /\ target.at \in Nat /\ ~Unsized(target.t)
        /\ target.at + SizeOf(target.t) <= SizeOf(t)
    BY <1>1, <2>3, MemberFacts
  <2> QED BY <2>4 DEF InRoom, Span
<1>2. CASE t.k = "array"
  <2>1. PICK i \in 0..(t.n - 1) : target = [at |-> i * t.of.size, t |-> t.of]
    BY <1>2 DEF Targets, IsRecord
  <2>2. /\ t.of \in Type /\ ~Unsized(t.of) /\ t.of.size \in Nat /\ SizeOf(t.of) = t.of.size
        /\ t.n \in Nat /\ SizeOf(t) = t.n * t.of.size
    BY <1>2, ElementType
  <2>3. i + 1 \in 1..t.n /\ (i + 1) - 1 = i
    BY <2>1, <2>2
  <2>4. i * t.of.size \in Nat /\ i * t.of.size + t.of.size <= t.n * t.of.size
    <3>1. /\ ((i + 1) - 1) * t.of.size \in Nat
          /\ ((i + 1) - 1) * t.of.size + t.of.size = (i + 1) * t.of.size
          /\ (i + 1) * t.of.size <= t.n * t.of.size
      BY <2>2, <2>3, Elements
    <3> QED BY <2>3, <3>1
  <2> QED BY <2>1, <2>2, <2>4 DEF InRoom, Span
<1>3. CASE ~IsRecord(t) /\ t.k # "array"
  BY <1>3 DEF Targets
<1> QED BY <1>1, <1>2, <1>3

\* The type behind a pointer to an object is one of the same layout.
LEMMA BehindFacts ==
  ASSUME NEW t \in Type, ~Unsized(t), IsRecord(t), t.unit # 0
  PROVE  /\ Behind(t) \in Type /\ Unsized(Behind(t)) /\ IsRecord(Behind(t))
         /\ Behind(t).mbrs = t.mbrs /\ Behind(t).size = t.size
         /\ t.size <= SizeOf(t) /\ t.size \in Nat /\ SizeOf(t) \in Nat
<1>1. IsStruct(t) /\ t.size \in Nat /\ t.unit \in Nat
  BY TypeFacts DEF IsStruct, IsLayout
<1> DEFINE u == Record(t.k, t.tag, t.mbrs, t.size, t.unit)
<1>2. Behind(t) = u
  <2>1. Behind(t) = [t EXCEPT !.extra = Unknown]
    BY DEF Behind
  <2>2. t = [k |-> t.k, tag |-> t.tag, mbrs |-> t.mbrs, size |-> t.size, unit |-> t.unit,
             extra |-> t.extra]
    BY <1>1 DEF IsStruct
  <2> QED BY <2>1, <2>2 DEF Record
<1>3. u \in Type
  BY <1>1 DEF IsStruct, Type
<1>4. u.k = t.k /\ u.mbrs = t.mbrs /\ u.size = t.size /\ u.extra = Unknown
  BY DEF Record
<1>5. SizeOf(t) = t.size + t.extra /\ t.extra \in Nat
  BY <1>1 DEF SizeOf, IsStruct, Unsized, IsRecord
<1> HIDE DEF u
<1> QED BY <1>1, <1>2, <1>3, <1>4, <1>5 DEF IsRecord, Unsized

LEMMA TargetsThrough ==
  ASSUME NEW t \in Type, ~Unsized(t), NEW target \in Targets(Behind(t)), NEW v \in Value,
         target.t.k = "array" /\ target.t.n = Unknown
           => target.at + Demand(target.t, v) <= SizeOf(t)
  PROVE  InRoom(target, v, SizeOf(t))
<1> DEFINE b == Behind(t)
<1>1. IsRecord(t) /\ t.unit # 0
  <2>1. Targets(NoObject) = {}
    BY DEF Targets, NoObject, IsRecord
  <2> QED BY <2>1 DEF Behind
<1>2. /\ b \in Type /\ Unsized(b) /\ IsRecord(b) /\ b.mbrs = t.mbrs /\ b.size = t.size
      /\ t.size <= SizeOf(t) /\ t.size \in Nat /\ SizeOf(t) \in Nat
  BY <1>1, BehindFacts
<1> HIDE DEF b
<1>3. PICK j \in 1..Len(b.mbrs) : target = get_member(b, Named(b.mbrs[j].name))
  BY <1>2 DEF Targets, IsRecord, b
<1>4. IsMember(b, Named(b.mbrs[j].name))
  BY DEF IsMember, HasKey
<1>5. PICK i \in 1..Len(b.mbrs) : target.at = b.mbrs[i].at /\ target.t = MemberType(b, i)
  BY <1>3, <1>4, GetMember
<1>6. target.t \in Type /\ target.at \in Nat /\ target.at + FixedSize(target.t) <= t.size
  BY <1>2, <1>5, MemberFacts
<1>7. CASE ~Unsized(target.t)
  <2>1. Span(target.t, v) = FixedSize(target.t) /\ Span(target.t, v) \in Nat
    BY <1>6, <1>7, TypeFacts DEF Span, FixedSize
  <2> QED BY <1>2, <1>6, <2>1 DEF InRoom
<1>8. CASE Unsized(target.t) /\ target.t.k # "array"
  <2>1. Span(target.t, v) = FixedSize(target.t) /\ Span(target.t, v) \in Nat
    BY <1>6, <1>8, TypeFacts DEF Span, FixedSize
  <2> QED BY <1>2, <1>6, <2>1 DEF InRoom
<1>9. CASE Unsized(target.t) /\ target.t.k = "array"
  <2>1. target.t.n = Unknown
    BY <1>6, <1>9, ElementType
  <2> QED BY <1>6, <1>9, <2>1 DEF InRoom, Span
<1> QED BY <1>7, <1>8, <1>9

-----------------------------------------------------------------------------
(* Nothing is written behind the object *)

StateOK ==
  /\ IsMemory(mem)
  /\ obj \in Type \cup {NoObject}
  /\ call \in [t : Type \cup {NoObject}, v : Value, at : Nat, size : Nat, st : Statuses]
  /\ calls \in 0..MaxCalls
  /\ todo \in Seq(Item)

\* The memory is that of an object, and what is to be written is for its bytes.
RoomOK ==
  /\ obj # NoObject => ~Unsized(obj) /\ SizeOf(obj) = call.size
  /\ DOMAIN mem = IF calls = 0 THEN {} ELSE 0..(call.size + Guard - 1)
  /\ calls = 0 => obj = NoObject
  /\ \A i \in 1..Len(todo) : Stop(todo[i]) <= call.size
  /\ call.st = "packed" =>
       /\ call.t \in Type /\ ~Unsized(call.t) /\ SizeOf(call.t) = call.size
       /\ call.at = 0 /\ call.v \in Values

WriteInv == StateOK /\ RoomOK /\ InBounds

LEMMA InitWriteInv == Init => WriteInv
<1> SUFFICES ASSUME Init PROVE WriteInv
  OBVIOUS
<1>1. DOMAIN mem = {} /\ IsMemory(mem)
  BY DEF Init, IsMemory
<1>2. todo \in Seq(Item) /\ Len(todo) = 0
  BY EmptySeq DEF Init
<1>3. calls \in 0..MaxCalls /\ calls = 0
  BY BoundsAreNumbers DEF Init
<1>4. call \in [t : Type \cup {NoObject}, v : Value, at : Nat, size : Nat, st : Statuses]
  <2>1. "none" \in Statuses /\ Nil \in Value
    BY DEF Statuses, Value
  <2> QED BY <2>1 DEF Init, Call
<1>5. obj = NoObject /\ call.st = "none"
  BY DEF Init, Call
<1> QED BY <1>1, <1>2, <1>3, <1>4, <1>5 DEF WriteInv, StateOK, RoomOK, InBounds

LEMMA FreshFacts ==
  ASSUME NEW t \in Type, ~Unsized(t)
  PROVE  /\ IsMemory(Fresh(t))
         /\ DOMAIN Fresh(t) = 0..(SizeOf(t) + Guard - 1)
         /\ \A x \in DOMAIN Fresh(t) : x >= SizeOf(t) => Fresh(t)[x] = GuardByte
<1>1. SizeOf(t) \in Nat /\ Guard \in Nat
  BY TypeFacts, BoundsAreNumbers
<1> QED BY <1>1 DEF Fresh, IsMemory, Byte, GuardByte

\* What ffi.new is given: a type with a size, and values.
LEMMA NewFacts ==
  ASSUME NEW T \in Ctypes, NEW args \in NewArgs(T), TakesSize(T, args)
  PROVE  /\ SizedType(T, args) \in Type /\ ~Unsized(SizedType(T, args))
         /\ Initials(T, args) \in Seq(Values)
<1>1. args \in Seq(Values)
  BY ArgsAreValues
<1>2. CASE Unsized(T)
  <2>1. args # <<>> /\ args[1].k = "num"
    BY <1>2 DEF TakesSize
  <2>2. args[1] \in Value
    <3>1. 1 \in 1..Len(args)
      BY <1>1, <2>1, EmptySeq
    <3> QED BY <1>1, <3>1, ElementOfSeq DEF Value
  <2>3. args[1].n \in Nat
    <3>1. args[1].n \in Byte
      BY <2>1, <2>2, ValueCases
    <3> QED BY <3>1 DEF Byte
  <2> QED BY <1>1, <1>2, <2>1, <2>3, SizedFacts, HeadTailProperties
          DEF SizedType, Initials, Type
<1>3. CASE ~Unsized(T)
  BY <1>1, <1>3 DEF SizedType, Initials, Type
<1> QED BY <1>2, <1>3

LEMMA InitialiserFacts ==
  ASSUME NEW args \in Seq(Values)
  PROVE  /\ Initialiser(args).v \in Value
         /\ Initialiser(args).st \in {"none", "packed", "busy"}
         /\ Initialiser(args).st = "packed" => Initialiser(args).v \in Values
<1>1. CASE args = <<>>
  BY <1>1 DEF Initialiser, Value
<1>2. CASE args # <<>> /\ Len(args) = 1
  <2>1. args[1] \in Values /\ args[1] \in Value
    BY <1>2, ElementOfSeq DEF Value
  <2> QED BY <1>2, <2>1 DEF Initialiser
<1>3. CASE args # <<>> /\ Len(args) # 1
  BY <1>3 DEF Initialiser, Value
<1> QED BY <1>1, <1>2, <1>3

LEMMA OneItem ==
  ASSUME NEW p \in Item
  PROVE  <<p>> \in Seq(Item) /\ Len(<<p>>) = 1 /\ <<p>>[1] = p
OBVIOUS

LEMMA NewWriteInv ==
  ASSUME WriteInv, NEW T \in Ctypes, NEW args \in NewArgs(T), New(T, args)
  PROVE  WriteInv'
<1> DEFINE t == SizedType(T, args)
           r == Initialiser(Initials(T, args))
<1>1. /\ t \in Type /\ ~Unsized(t) /\ r.v \in Value /\ r.st \in {"none", "packed", "busy"}
      /\ r.st = "packed" => r.v \in Values
  BY NewFacts, InitialiserFacts DEF New
<1>2. /\ obj' = t /\ mem' = Fresh(t) /\ calls' = 1
      /\ call' = Call(t, r.v, 0, SizeOf(t), r.st)
      /\ todo' = IF r.st = "none" THEN <<>> ELSE <<Put(t, r.v, 0)>>
  BY DEF New
<1> HIDE DEF t, r
<1>3. SizeOf(t) \in Nat
  BY <1>1, TypeFacts
<1>4. /\ call' \in [t : Type \cup {NoObject}, v : Value, at : Nat, size : Nat, st : Statuses]
      /\ call'.size = SizeOf(t) /\ call'.t = t /\ call'.at = 0
      /\ call'.v = r.v /\ call'.st = r.st
  <2>1. r.st \in Statuses
    BY <1>1 DEF Statuses
  <2> QED BY <1>1, <1>2, <1>3, <2>1 DEF Call
<1>5. todo' \in Seq(Item) /\ \A i \in 1..Len(todo') : Stop(todo'[i]) <= SizeOf(t)
  <2>1. /\ Put(t, r.v, 0) \in Item /\ Stop(Put(t, r.v, 0)) = 0 + SizeOf(t)
    BY <1>1, PutIsItem DEF Span
  <2>2. CASE todo' = <<Put(t, r.v, 0)>>
    BY <1>3, <2>1, <2>2, OneItem
  <2>3. CASE todo' = <<>>
    BY <2>3, EmptySeq
  <2> QED BY <1>2, <2>2, <2>3
<1>6. calls' \in 0..MaxCalls /\ calls' # 0
  BY <1>2, BoundsAreNumbers
<1> QED BY <1>1, <1>2, <1>4, <1>5, <1>6, FreshFacts DEF WriteInv, StateOK, RoomOK, InBounds

LEMMA WriteWriteInv ==
  ASSUME WriteInv, Write
  PROVE  WriteInv'
<1> DEFINE p == Head(todo)
           r == Outcome(p, mem)
<1>1. /\ todo # <<>> /\ r.st = "ok" /\ mem' = r.m /\ todo' = r.more \o Tail(todo)
      /\ call' = (IF todo' = <<>> THEN [call EXCEPT !.st = "ok"] ELSE call)
      /\ obj' = obj /\ calls' = calls
  BY DEF Write
<1>2. todo \in Seq(Item) /\ IsMemory(mem)
  BY DEF WriteInv, StateOK
<1>3. /\ p \in Item /\ Tail(todo) \in Seq(Item) /\ Len(Tail(todo)) = Len(todo) - 1
      /\ \A i \in 1..Len(Tail(todo)) : Tail(todo)[i] = todo[i + 1]
      /\ Len(todo) \in Nat \ {0} /\ p = todo[1]
  BY <1>1, <1>2, HeadTailProperties, EmptySeq
<1>4. Writes(mem, p, r.m) /\ Leaves(p, r.more)
  BY <1>1, <1>2, <1>3, OutcomeCases, OutcomeWrites
<1> HIDE DEF p, r
<1>5. /\ todo' \in Seq(Item) /\ Len(todo') = Len(r.more) + Len(Tail(todo))
      /\ \A i \in 1..Len(todo') :
           todo'[i] = IF i <= Len(r.more) THEN r.more[i] ELSE Tail(todo)[i - Len(r.more)]
      /\ Len(r.more) \in Nat /\ Len(Tail(todo)) \in Nat
  BY <1>1, <1>3, <1>4, ConcatProperties, LenProperties DEF Leaves
<1>6. /\ call' \in [t : Type \cup {NoObject}, v : Value, at : Nat, size : Nat, st : Statuses]
      /\ call'.size = call.size /\ call'.t = call.t /\ call'.at = call.at /\ call'.v = call.v
      /\ call'.st # call.st => call'.st = "ok"
  <2>1. "ok" \in Statuses
    BY DEF Statuses
  <2> QED BY <1>1, <2>1 DEF WriteInv, StateOK
<1>7. call.size \in Nat
  BY DEF WriteInv, StateOK
<1>8. Stop(p) <= call.size /\ Stop(p) \in Nat
  BY <1>3, StartStop DEF WriteInv, RoomOK
<1>9. ASSUME NEW i \in 1..Len(todo') PROVE Stop(todo'[i]) <= call.size
  <2>1. CASE i <= Len(r.more)
    <3>0. i \in 1..Len(r.more)
      BY <1>5, <2>1
    <3>1. todo'[i] = r.more[i] /\ r.more[i] \in Item /\ Inside(r.more[i], p)
      BY <1>4, <1>5, <2>1, <3>0, ElementOfSeq DEF Leaves
    <3>2. r.more[i].do = "abort" => Stop(r.more[i]) = 0
      BY DEF Stop
    <3> QED BY <1>7, <1>8, <3>1, <3>2, StartStop DEF Inside
  <2>2. CASE i > Len(r.more)
    <3>1. i - Len(r.more) \in 1..Len(Tail(todo))
      <4>1. Len(todo') = Len(r.more) + Len(Tail(todo))
        BY <1>5
      <4>2. Len(r.more) \in Nat /\ Len(Tail(todo)) \in Nat
        BY <1>5
      <4>3. \A a, b \in Nat : \A k \in 1..(a + b) : k > a => k - a \in 1..b
        OBVIOUS
      <4> QED BY <2>2, <4>1, <4>2, <4>3
    <3>2. (i - Len(r.more)) + 1 \in 1..Len(todo)
      BY <1>3, <1>5, <3>1
    <3>3. todo'[i] = todo[(i - Len(r.more)) + 1]
      <4>1. todo'[i] = Tail(todo)[i - Len(r.more)]
        <5>1. ~(i <= Len(r.more))
          BY <1>5, <2>2
        <5> QED BY <1>5, <5>1
      <4> QED BY <1>3, <3>1, <4>1
    <3> QED BY <3>2, <3>3 DEF WriteInv, RoomOK
  <2> QED BY <1>5, <2>1, <2>2
<1>10. IsMemory(mem') /\ DOMAIN mem' = DOMAIN mem
  <2>1. mem' = [x \in DOMAIN mem' |-> mem'[x]]
    BY <1>1, <1>4 DEF Writes
  <2> QED BY <1>1, <1>2, <1>4, <2>1 DEF Writes, IsMemory
<1>11. InBounds'
  BY <1>1, <1>2, <1>4, <1>6, <1>7, <1>8 DEF Writes, IsMemory, WriteInv, InBounds
<1> QED BY <1>1, <1>5, <1>6, <1>9, <1>10, <1>11 DEF WriteInv, StateOK, RoomOK

LEMMA RetryWriteInv ==
  ASSUME WriteInv, Retry
  PROVE  WriteInv'
<1> DEFINE v == TableOf(<<call.v>>)
<1>1. /\ call.st = "packed" /\ call' = [call EXCEPT !.v = v, !.st = "busy"]
      /\ todo' = <<Put(call.t, v, 0)>> /\ obj' = obj /\ mem' = mem /\ calls' = calls
  BY DEF Retry
<1>2. call.t \in Type /\ ~Unsized(call.t) /\ SizeOf(call.t) = call.size /\ call.v \in Values
  BY <1>1 DEF WriteInv, RoomOK
<1>3. v \in Value
  <2>1. <<call.v>> \in Seq(Values)
    BY <1>2
  <2> QED BY <2>1 DEF Value
<1> HIDE DEF v
<1>4. /\ call' \in [t : Type \cup {NoObject}, v : Value, at : Nat, size : Nat, st : Statuses]
      /\ call'.size = call.size /\ call'.st = "busy"
  <2>1. "busy" \in Statuses
    BY DEF Statuses
  <2> QED BY <1>1, <1>3, <2>1 DEF WriteInv, StateOK
<1>5. todo' \in Seq(Item) /\ \A i \in 1..Len(todo') : Stop(todo'[i]) <= call.size
  <2>1. SizeOf(call.t) \in Nat
    BY <1>2, TypeFacts
  <2>2. /\ Put(call.t, v, 0) \in Item /\ Stop(Put(call.t, v, 0)) = 0 + SizeOf(call.t)
    BY <1>2, <1>3, PutIsItem DEF Span
  <2> QED BY <1>1, <1>2, <2>1, <2>2, OneItem
<1> QED BY <1>1, <1>4, <1>5 DEF WriteInv, StateOK, RoomOK, InBounds

LEMMA EndWriteInv ==
  ASSUME WriteInv, NEW st \in {"error", "abort"}, End(st)
  PROVE  WriteInv'
<1>1. /\ call' = [call EXCEPT !.st = st] /\ todo' = <<>> /\ mem' = mem /\ calls' = calls
      /\ obj' \in {obj, NoObject}
  BY DEF End
<1>2. /\ call' \in [t : Type \cup {NoObject}, v : Value, at : Nat, size : Nat, st : Statuses]
      /\ call'.size = call.size /\ call'.st # "packed"
  <2>1. st \in Statuses
    BY DEF Statuses
  <2> QED BY <1>1, <2>1 DEF WriteInv, StateOK
<1>3. todo' \in Seq(Item) /\ Len(todo') = 0
  BY <1>1, EmptySeq
<1> QED BY <1>1, <1>2, <1>3 DEF WriteInv, StateOK, RoomOK, InBounds

LEMMA AssignWriteInv ==
  ASSUME WriteInv, Idle, obj # NoObject,
         NEW v \in Value, NEW target, InRoom(target, v, SizeOf(obj)), Assign(target, v)
  PROVE  WriteInv'
<1>1. /\ call' = Call(target.t, v, target.at, SizeOf(obj), "busy")
      /\ todo' = <<Put(target.t, v, target.at)>>
      /\ calls' = calls + 1 /\ obj' = obj /\ mem' = mem
  BY DEF Assign
<1>2. SizeOf(obj) = call.size /\ call.size \in Nat /\ ~Unsized(obj)
  BY DEF WriteInv, RoomOK, StateOK
<1>3. target.t \in Type /\ target.at \in Nat /\ target.at + Span(target.t, v) <= call.size
  BY <1>2 DEF InRoom
<1>4. /\ call' \in [t : Type \cup {NoObject}, v : Value, at : Nat, size : Nat, st : Statuses]
      /\ call'.size = call.size /\ call'.st = "busy"
  <2>1. "busy" \in Statuses
    BY DEF Statuses
  <2> QED BY <1>1, <1>2, <1>3, <2>1 DEF Call
<1>5. todo' \in Seq(Item) /\ \A i \in 1..Len(todo') : Stop(todo'[i]) <= call.size
  BY <1>1, <1>3, PutIsItem, OneItem
<1>6. calls \in 1..(MaxCalls - 1) /\ MaxCalls \in Nat
  BY BoundsAreNumbers DEF Idle
<1>7. calls' \in 0..MaxCalls /\ calls' # 0 /\ calls # 0
  BY <1>1, <1>6
<1> QED BY <1>1, <1>2, <1>4, <1>5, <1>7 DEF WriteInv, StateOK, RoomOK, InBounds

LEMMA NextWriteInv ==
  ASSUME WriteInv, [Next]_vars
  PROVE  WriteInv'
<1>1. ASSUME NEW T \in Ctypes, NEW args \in NewArgs(T), New(T, args)
      PROVE  WriteInv'
  BY <1>1, NewWriteInv
<1>2. CASE Write
  BY <1>2, WriteWriteInv
<1>3. CASE Retry
  BY <1>3, RetryWriteInv
<1>4. CASE Raise
  BY <1>4, EndWriteInv DEF Raise
<1>5. CASE Abort
  BY <1>5, EndWriteInv DEF Abort
<1>6. Targets(NoObject) = {} /\ Targets(Behind(NoObject)) = {}
  BY DEF Targets, Behind, NoObject, IsRecord
<1>7. obj # NoObject => obj \in Type /\ ~Unsized(obj)
  BY DEF WriteInv, StateOK, RoomOK
<1>8. \A v \in AssignArgs : v \in Value
  BY ArgsAreValues DEF Value
<1>9. ASSUME Idle, NEW target \in Targets(obj), NEW v \in AssignArgs, Assign(target, v)
      PROVE  WriteInv'
  <2>1. obj # NoObject /\ v \in Value
    BY <1>6, <1>8, <1>9
  <2> QED BY <1>7, <1>9, <2>1, TargetsInRoom, AssignWriteInv
<1>10. ASSUME Idle, NEW target \in Targets(Behind(obj)), NEW v \in AssignArgs,
              AssignThrough(target, v)
       PROVE  WriteInv'
  <2>1. obj # NoObject /\ v \in Value
    BY <1>6, <1>8, <1>10
  <2>2. InRoom(target, v, SizeOf(obj))
    BY <1>7, <1>10, <2>1, TargetsThrough DEF AssignThrough
  <2> QED BY <1>10, <2>1, <2>2, AssignWriteInv DEF AssignThrough
<1>11. CASE UNCHANGED vars
  BY <1>11 DEF vars, WriteInv, StateOK, RoomOK, InBounds, IsMemory
<1> QED BY <1>1, <1>2, <1>3, <1>4, <1>5, <1>9, <1>10, <1>11 DEF Next

\* The invariant that InBounds follows from.
THEOREM WriteInvariant == Spec => []WriteInv
<1>1. Init => WriteInv
  BY InitWriteInv
<1>2. WriteInv /\ [Next]_vars => WriteInv'
  BY NextWriteInv
<1> QED BY <1>1, <1>2, PTL DEF Spec

\* The types of the variables; an object has all its bytes.
THEOREM InitialisersTypes == Spec => []TypeOK
<1>1. WriteInv => TypeOK
  BY DEF WriteInv, StateOK, RoomOK, IsMemory, TypeOK
<1> QED BY <1>1, WriteInvariant, PTL

\* Whatever the values, types and layouts, ffi.new and assignment write nothing
\* behind the object.
THEOREM WritesInBounds == Spec => []InBounds
<1>1. WriteInv => InBounds
  BY DEF WriteInv
<1> QED BY <1>1, WriteInvariant, PTL

-----------------------------------------------------------------------------
(* What is still to come                                                    *)
(*                                                                          *)
(* A value that means something is put into its place by a step of its own, *)
(* or is a nil that the zeroes of a memset stand for.                       *)

IsNil(c) == c \in Item /\ c.do = "put" /\ c.v = Nil /\ ~Unsized(c.t)

Zeroed(c, m) ==
  /\ IsNil(c)
  /\ \A x \in Start(c)..(Stop(c) - 1) : x \in DOMAIN m /\ m[x] = 0

\* An item of which c is all that is left, or a part of the zeroes.
Handles(p, c) == \/ p.do # "zero" /\ p = c
                 \/ p.do = "zero" /\ IsNil(c) /\ Inside(c, p)

\* No item behind the i-th writes into c.
Clear(c, q, i) == \A j \in 1..Len(q) : j > i => Apart(c, q[j])

Waits(c, q) == \E i \in 1..Len(q) : Handles(q[i], c) /\ Clear(c, q, i)

Settled(c, seen, m, q) ==
  \/ c \in seen
  \/ Waits(c, q)
  \/ Zeroed(c, m) /\ Clear(c, q, 0)

LEMMA LastNumber ==
  ASSUME NEW n \in Nat, NEW S, S \subseteq 1..n, S # {}
  PROVE  \E x \in S : \A y \in S : y <= x
<1> DEFINE R == {n - y : y \in S}
<1>1. R \subseteq Nat /\ R # {}
  <2>1. \A y \in S : y \in 1..n
    OBVIOUS
  <2>2. \A y \in 1..n : n - y \in Nat
    OBVIOUS
  <2> QED BY <2>1, <2>2
<1>2. PICK r \in R : \A y \in R : r <= y
  <2> HIDE DEF R
  <2> QED BY <1>1, LeastNumber
<1>3. PICK x \in S : r = n - x
  BY <1>2
<1>4. ASSUME NEW y \in S PROVE y <= x
  <2>1. r <= n - y
    BY <1>2
  <2> QED BY <1>3, <2>1
<1> QED BY <1>4

\* A key is that of one member.
LEMMA HasKeyOnce ==
  ASSUME NEW t \in Type, IsRecord(t), NEW key,
         NEW i \in 1..Len(t.mbrs), NEW j \in 1..Len(t.mbrs),
         HasKey(t, i, key), HasKey(t, j, key)
  PROVE  i = j
<1>1. IsLayout(t)
  BY TypeFacts DEF IsStruct
<1>2. Len(t.mbrs) \in Nat
  BY <1>1, LenProperties DEF IsLayout
<1>3. \A a, b \in 1..Len(t.mbrs) : a < b => t.mbrs[a].name # t.mbrs[b].name
  BY <1>1 DEF IsLayout
<1>4. i \in Nat \ {0} /\ j \in Nat \ {0}
  BY <1>2
<1>5. CASE key = Pos(i)
  <2>1. key.i = i
    BY <1>5 DEF Pos
  <2>2. key # Named(t.mbrs[j].name)
    BY <1>4, <2>1 DEF Named
  <2>3. key = Pos(j)
    BY <2>2 DEF HasKey
  <2> QED BY <1>4, <1>5, <2>3, PosDiffer
<1>6. CASE key = Named(t.mbrs[i].name)
  <2>1. key.i = 0 /\ key.name = t.mbrs[i].name
    BY <1>6 DEF Named
  <2>2. key # Pos(j)
    <3>1. Pos(j).i = j
      BY DEF Pos
    <3> QED BY <1>4, <2>1, <3>1
  <2>3. key = Named(t.mbrs[j].name)
    BY <2>2 DEF HasKey
  <2>4. t.mbrs[i].name = t.mbrs[j].name
    BY <2>1, <2>3 DEF Named
  <2>5. i < j \/ j < i \/ i = j
    BY <1>4
  <2> QED BY <1>3, <2>4, <2>5
<1> QED BY <1>5, <1>6 DEF HasKey

LEMMA PutMemberIs ==
  ASSUME NEW p, p.t \in Type, IsRecord(p.t), NEW v, NEW key,
         NEW i \in 1..Len(p.t.mbrs), HasKey(p.t, i, key)
  PROVE  PutMember(p.t, key, v, p.at) = Member(p, v, i)
<1>1. IsMember(p.t, key)
  BY DEF IsMember
<1>2. PICK j \in 1..Len(p.t.mbrs) :
        HasKey(p.t, j, key) /\ PutMember(p.t, key, v, p.at) = Member(p, v, j)
  BY <1>1, PutMemberCases
<1> QED BY <1>2, HasKeyOnce

\* Different members of a struct have no byte in common.
LEMMA DifferentApart ==
  ASSUME NEW p \in Item, p.do = "put", p.t.k = "struct", ~Unsized(p.t),
         NEW v \in Value, NEW w \in Value,
         NEW i \in 1..Len(p.t.mbrs), NEW j \in 1..Len(p.t.mbrs), i # j
  PROVE  Apart(Member(p, v, i), Member(p, w, j))
<1> DEFINE a(x) == p.t.mbrs[x].at
           z(x) == SizeOf(MemberType(p.t, x))
<1>1. p.t \in Type /\ p.at \in Nat /\ IsRecord(p.t)
  BY ItemCases DEF IsRecord
<1>2. \A x \in 1..Len(p.t.mbrs) : a(x) \in Nat /\ z(x) \in Nat
  BY <1>1, MemberFacts, TypeFacts
<1>3. /\ Start(Member(p, v, i)) = p.at + a(i) /\ Stop(Member(p, v, i)) = p.at + (a(i) + z(i))
      /\ Start(Member(p, w, j)) = p.at + a(j) /\ Stop(Member(p, w, j)) = p.at + (a(j) + z(j))
  BY <1>1, MemberInside
<1>4. Len(p.t.mbrs) \in Nat
  BY <1>1, TypeFacts, LenProperties DEF IsStruct, IsLayout
<1>5. a(i) + z(i) <= a(j) \/ a(j) + z(j) <= a(i)
  <2>1. i < j \/ j < i
    BY <1>4
  <2> QED BY <1>1, <2>1, MembersApart
<1> HIDE DEF a, z
<1> QED BY <1>1, <1>2, <1>3, <1>5 DEF Apart

\* The memory has the bytes of an item.
Covers(m, p) == \A x \in Start(p)..(Stop(p) - 1) : x \in DOMAIN m

\* A part of p as p leaves it.
Ready(c, p, m, q) == c \in Item /\ Inside(c, p) /\ Settled(c, {}, m, q)

\* A nil in zeroes is right.
LEMMA NilZeroed ==
  ASSUME NEW c \in Item, IsNil(c), NEW p \in Item, Inside(c, p), p.do # "abort",
         NEW m, IsMemory(m), Covers(m, p), NEW at \in Nat, NEW n \in Nat,
         Start(p) = at, Stop(p) = at + n
  PROVE  Zeroed(c, memset(m, at, n))
<1>1. /\ Start(c) \in Nat /\ Stop(c) \in Nat /\ at <= Start(c) /\ Stop(c) <= at + n
  BY StartStop DEF Inside, IsNil
<1>2. ASSUME NEW x \in Start(c)..(Stop(c) - 1)
      PROVE  x \in at..(at + n - 1)
  BY <1>1
<1>3. ASSUME NEW x \in Start(c)..(Stop(c) - 1)
      PROVE  x \in DOMAIN m
  BY <1>2 DEF Covers
<1> QED BY <1>2, <1>3 DEF Zeroed, memset

LEMMA ElementsApart ==
  ASSUME NEW p \in Item, p.do = "put", p.t.k = "array", NEW n \in Nat,
         n * p.t.of.size <= Span(p.t, p.v), NEW v \in Value, NEW w \in Value,
         NEW i \in 1..n, NEW j \in 1..n, i < j
  PROVE  Apart(Element(p, v, i), Element(p, w, j))
<1>1. p.t \in Type /\ p.at \in Nat /\ p.t.of.size \in Nat
  BY ItemCases, ElementType
<1>2. /\ Stop(Element(p, v, i)) = p.at + i * p.t.of.size
      /\ Start(Element(p, w, j)) = p.at + (j - 1) * p.t.of.size
  BY ElementInside DEF Element
<1>3. /\ i * p.t.of.size <= (j - 1) * p.t.of.size
      /\ i * p.t.of.size \in Nat /\ (j - 1) * p.t.of.size \in Nat
  BY <1>1, Elements
<1> QED BY <1>1, <1>2, <1>3 DEF Apart

\* An element that has an item of its own.
LEMMA ElementWaits ==
  ASSUME NEW p \in Item, p.do = "put", p.t.k = "array", NEW n \in Nat,
         n * p.t.of.size <= Span(p.t, p.v), NEW q, q = [i \in 1..n |-> q[i]],
         \A i \in 1..n : \E v \in Value : q[i] = Element(p, v, i),
         NEW i \in 1..n
  PROVE  Waits(q[i], q)
<1>1. Len(q) = n
  OBVIOUS
<1>2. Handles(q[i], q[i])
  <2>1. q[i].do = "put"
    BY DEF Element, Put
  <2> QED BY <2>1 DEF Handles
<1>3. ASSUME NEW j \in 1..n, j > i PROVE Apart(q[i], q[j])
  <2>1. PICK v \in Value : q[i] = Element(p, v, i)
    OBVIOUS
  <2>2. PICK w \in Value : q[j] = Element(p, w, j)
    OBVIOUS
  <2> QED BY <1>3, <2>1, <2>2, ElementsApart
<1> QED BY <1>1, <1>2, <1>3 DEF Waits, Clear

\* What a table wants for an element.
LEMMA WantedFacts ==
  ASSUME NEW v, IsTable(v), NEW i \in Nat \ {0}
  PROVE  /\ WantedAt(v, i) \in Value
         /\ Get(v, Pos(2)) = Nil => WantedAt(v, i) = Get(v, Pos(1))
         /\ Get(v, Pos(2)) # Nil =>
              WantedAt(v, i) = IF i <= RawLen(v) THEN Get(v, Pos(i)) ELSE Nil
         /\ i <= RawLen(v) => WantedAt(v, i) = Get(v, Pos(i))
<1>1. v.k = "table"
  BY DEF IsTable
<1>2. Get(v, Pos(2)) = Nil => Pos(2) \notin Keys(v)
  <2> SUFFICES ASSUME Pos(2) \in Keys(v) PROVE Get(v, Pos(2)) # Nil
    OBVIOUS
  <2>1. PICK j \in 1..Len(v.e) : v.e[j][1] = Pos(2)
    BY DEF Keys
  <2> QED BY <2>1, GetEntry
<1>3. RawLen(v) \in Nat /\ \A j \in 1..RawLen(v) : Pos(j) \in Keys(v)
  BY RawLenFacts
<1>4. Get(v, Pos(2)) = Nil /\ i <= RawLen(v) => i = 1
  <2> SUFFICES ASSUME Get(v, Pos(2)) = Nil, i <= RawLen(v), i # 1 PROVE FALSE
    OBVIOUS
  <2>1. 2 \in 1..RawLen(v)
    BY <1>3
  <2> QED BY <1>2, <1>3, <2>1
<1>5. Nil \in Value
  BY DEF Value
<1> QED BY <1>1, <1>4, <1>5, GetValue DEF WantedAt

LEMMA ArrayReady ==
  ASSUME NEW p \in Item, p.do = "put", p.t.k = "array", NEW m, IsMemory(m), Covers(m, p),
         NEW r, ArrayCase(p, m, r), NEW c \in Parts(p)
  PROVE  Ready(c, p, r.m, r.more)
<1> DEFINE s == p.t.of.size
           N == IF p.t.n = Unknown THEN RawLen(p.v) ELSE p.t.n
<1>1. /\ p.t \in Type /\ p.v \in Value /\ p.at \in Nat
      /\ Start(p) = p.at /\ Stop(p) = p.at + Span(p.t, p.v) /\ Span(p.t, p.v) \in Nat
  BY ItemCases, SpanType DEF Start, Stop
<1>2. /\ s \in Nat /\ p.t.n \in Nat \cup {Unknown}
      /\ Unsized(p.t) <=> p.t.n = Unknown
      /\ SizeOf(p.t) = p.t.n * s
      /\ ~Unsized(p.t.of)
  BY <1>1, ElementType
<1>3. p.v.k = "table" /\ IsTable(p.v) /\ RawLen(p.v) \in Nat
  <2>1. p.v.k # "str"
    BY DEF Parts, IsRecord
  <2> QED BY <1>1, <2>1, ValueCases, RawLenFacts DEF ArrayCase
<1>4. Parts(p) = {Put(p.t.of, WantedAt(p.v, i), p.at + (i - 1) * s) : i \in 1..N}
  BY <1>3 DEF Parts
<1>5. N \in Nat /\ N * s = Span(p.t, p.v)
  <2>1. CASE p.t.n = Unknown
    BY <1>2, <1>3, <2>1 DEF Span, Demand
  <2>2. CASE p.t.n # Unknown
    BY <1>2, <2>2 DEF Span
  <2> QED BY <2>1, <2>2
<1>6. PICK i \in 1..N : c = Element(p, WantedAt(p.v, i), i)
  BY <1>4 DEF Element
<1>7. /\ WantedAt(p.v, i) \in Value
      /\ Get(p.v, Pos(2)) = Nil => WantedAt(p.v, i) = Get(p.v, Pos(1))
      /\ Get(p.v, Pos(2)) # Nil =>
           WantedAt(p.v, i) = IF i <= RawLen(p.v) THEN Get(p.v, Pos(i)) ELSE Nil
      /\ i <= RawLen(p.v) => WantedAt(p.v, i) = Get(p.v, Pos(i))
  <2>1. i \in Nat \ {0}
    BY <1>5
  <2> QED BY <1>3, <2>1, WantedFacts
<1>8. N * s <= Span(p.t, p.v)
  BY <1>1, <1>5
<1> HIDE DEF N
<1>9. c \in Item /\ Inside(c, p) /\ Start(c) = p.at + (i - 1) * s /\ Stop(c) = p.at + i * s
  BY <1>5, <1>6, <1>7, <1>8, ElementInside DEF Element
<1>10. WantedAt(p.v, i) = Nil => IsNil(c)
  BY <1>2, <1>6, <1>9 DEF IsNil, Element, Put
<1>11. SUFFICES Waits(c, r.more) \/ (Zeroed(c, r.m) /\ Clear(c, r.more, 0))
  BY <1>9 DEF Ready, Settled
<1>x. ASSUME NEW q, q = [j \in 1..N |-> q[j]],
              \A j \in 1..N : \E v \in Value : q[j] = Element(p, v, j)
       PROVE  Waits(q[i], q)
  BY <1>5, <1>8, <1>x, ElementWaits
<1>12. CASE /\ p.t.n = Unknown
            /\ r.more = [j \in 1..RawLen(p.v) |-> Element(p, Get(p.v, Pos(j)), j)]
  <2>1. N = RawLen(p.v)
    BY <1>12 DEF N
  <2>2. c = r.more[i]
    BY <1>5, <1>6, <1>7, <1>12, <2>1
  <2>3. /\ r.more = [j \in 1..N |-> r.more[j]]
        /\ \A j \in 1..N : \E v \in Value : r.more[j] = Element(p, v, j)
    BY <1>3, <1>12, <2>1, GetValue
  <2> QED BY <1>x, <2>2, <2>3
<1>13. CASE /\ p.t.n # Unknown /\ Get(p.v, Pos(2)) = Nil /\ Get(p.v, Pos(1)) = Nil
            /\ r.m = memset(m, p.at, SizeOf(p.t)) /\ r.more = <<>>
  <2>1. IsNil(c)
    BY <1>7, <1>10, <1>13
  <2>2. SizeOf(p.t) = Span(p.t, p.v)
    BY <1>2, <1>13 DEF Span
  <2>3. Zeroed(c, r.m)
    BY <1>1, <1>9, <1>13, <2>1, <2>2, NilZeroed
  <2>4. Clear(c, r.more, 0)
    BY <1>13 DEF Clear
  <2> QED BY <2>3, <2>4
<1>14. CASE /\ p.t.n # Unknown /\ Get(p.v, Pos(2)) = Nil
            /\ r.more = [j \in 1..p.t.n |-> Element(p, Get(p.v, Pos(1)), j)]
  <2>1. N = p.t.n
    BY <1>14 DEF N
  <2>2. c = r.more[i]
    BY <1>6, <1>7, <1>14, <2>1
  <2>3. /\ r.more = [j \in 1..N |-> r.more[j]]
        /\ \A j \in 1..N : \E v \in Value : r.more[j] = Element(p, v, j)
    BY <1>3, <1>14, <2>1, GetValue
  <2> QED BY <1>x, <2>2, <2>3
<1>15. CASE /\ p.t.n # Unknown /\ Get(p.v, Pos(2)) # Nil
            /\ r.more = Append([j \in 1..Given(p) |-> Element(p, Get(p.v, Pos(j)), j)],
                               Zero(p.at + ((Given(p) + 1) - 1) * s, Rest(p.t, Given(p))))
  <2> DEFINE g == Given(p)
             z == Zero(p.at + ((g + 1) - 1) * s, Rest(p.t, g))
             e == [j \in 1..g |-> Element(p, Get(p.v, Pos(j)), j)]
  <2>1. /\ g \in Nat /\ g <= p.t.n /\ g <= RawLen(p.v)
        /\ z \in Item /\ Start(z) = p.at + g * s /\ Stop(z) = p.at + p.t.n * s
    BY <1>3, <1>15, RestFacts
  <2>2. N = p.t.n /\ p.t.n \in Nat
    BY <1>2, <1>15 DEF N
  <2>3. r.more = Append(e, z)
    BY <1>15
  <2>4. e \in Seq(Item) /\ Len(e) = g /\ \A j \in 1..g : e[j] = Element(p, Get(p.v, Pos(j)), j)
    <3>1. ASSUME NEW j \in 1..g PROVE Element(p, Get(p.v, Pos(j)), j) \in Item
      <4>1. j \in 1..N
        BY <2>1, <2>2
      <4> QED BY <1>3, <1>5, <1>8, <4>1, GetValue, ElementInside DEF Element
    <3> QED BY <2>1, <3>1
  <2>5. z.do = "zero"
    BY DEF Zero
  <2> HIDE DEF g, z, e
  <2>6. /\ Len(r.more) = g + 1 /\ r.more[g + 1] = z
        /\ \A j \in 1..g : r.more[j] = e[j]
    BY <2>1, <2>3, <2>4, AppendProperties
  <2>7. \A a, b \in Nat : a <= b => a * s <= b * s /\ a * s \in Nat /\ b * s \in Nat
    BY <1>2
  <2>8. CASE i <= g
    <3>1. i \in 1..g /\ i \in 1..(g + 1)
      BY <1>5, <2>1, <2>8
    <3>2. c = r.more[i]
      <4>1. i <= RawLen(p.v)
        BY <1>3, <2>1, <3>1
      <4> QED BY <1>6, <1>7, <2>4, <2>6, <3>1, <4>1
    <3>3. Handles(c, c)
      <4>1. c.do = "put"
        BY <1>6 DEF Element, Put
      <4> QED BY <4>1 DEF Handles
    <3>4. ASSUME NEW j \in 1..(g + 1), j > i PROVE Apart(c, r.more[j])
      <4>1. CASE j = g + 1
        <5>1. i * s <= g * s /\ i * s \in Nat /\ g * s \in Nat
          BY <2>1, <2>7, <2>8, <3>1
        <5>2. Stop(c) <= Start(z)
          BY <1>1, <1>9, <2>1, <5>1
        <5> QED BY <2>6, <4>1, <5>2 DEF Apart
      <4>2. CASE j # g + 1
        <5>1. j \in 1..g /\ i \in 1..N /\ j \in 1..N
          BY <2>1, <2>2, <4>2
        <5>2. r.more[j] = Element(p, Get(p.v, Pos(j)), j)
          BY <2>4, <2>6, <5>1
        <5> QED BY <1>3, <1>5, <1>6, <1>7, <1>8, <3>4, <5>1, <5>2, GetValue, ElementsApart
      <4> QED BY <4>1, <4>2
    <3>5. Handles(r.more[i], c)
      BY <3>2, <3>3
    <3>6. Clear(c, r.more, i)
      BY <2>6, <3>4 DEF Clear
    <3>7. i \in 1..Len(r.more)
      BY <2>6, <3>1
    <3> QED BY <3>5, <3>6, <3>7 DEF Waits
  <2>9. CASE i > g
    <3>1. ~(i <= RawLen(p.v))
      <4>1. i <= p.t.n
        BY <2>2
      <4> QED BY <1>3, <2>2, <2>9, <4>1 DEF g, Given
    <3>2. IsNil(c)
      BY <1>7, <1>10, <1>15, <3>1
    <3>3. Inside(c, z)
      <4>1. g <= i - 1 /\ i - 1 \in Nat /\ i \in Nat /\ i <= p.t.n
        BY <2>1, <2>2, <2>9
      <4>2. /\ g * s <= (i - 1) * s /\ g * s \in Nat /\ (i - 1) * s \in Nat
            /\ i * s <= p.t.n * s /\ i * s \in Nat /\ p.t.n * s \in Nat
        BY <2>1, <2>2, <2>7, <4>1
      <4>3. Start(z) <= Start(c) /\ Stop(c) <= Stop(z)
        BY <1>1, <1>9, <2>1, <4>2
      <4> QED BY <4>3 DEF Inside
    <3>4. Handles(z, c)
      BY <2>5, <3>2, <3>3 DEF Handles
    <3>5. Clear(c, r.more, g + 1) /\ g + 1 \in 1..Len(r.more)
      BY <2>1, <2>6 DEF Clear
    <3>6. Handles(r.more[g + 1], c)
      BY <2>6, <3>4
    <3> QED BY <3>5, <3>6 DEF Waits
  <2> QED BY <2>1, <2>2, <2>8, <2>9
<1> HIDE DEF s
<1> QED BY <1>3, <1>12, <1>13, <1>14, <1>15 DEF ArrayCase, s

LEMMA UnionReady ==
  ASSUME NEW p \in Item, p.do = "put", p.t.k = "union", NEW m, IsMemory(m),
         NEW r, StructCase(p, m, r), NEW c \in Parts(p)
  PROVE  Ready(c, p, r.m, r.more)
<1>1. IsRecord(p.t) /\ p.t \in Type /\ p.v \in Value
  BY ItemCases DEF IsRecord
<1>2. p.v.k = "table"
  BY DEF Parts
<1>3. /\ Len(p.v.e) = 1
      /\ c = PutMember(p.t, p.v.e[1][1], p.v.e[1][2], p.at)
  <2>1. Parts(p) = {PutMember(p.t, p.v.e[i][1], p.v.e[i][2], p.at) :
                      i \in {j \in 1..Len(p.v.e) : Len(p.v.e) = 1}}
    BY <1>2 DEF Parts
  <2>2. PICK i \in 1..Len(p.v.e) :
          Len(p.v.e) = 1 /\ c = PutMember(p.t, p.v.e[i][1], p.v.e[i][2], p.at)
    BY <2>1
  <2>3. i = 1
    BY <2>2
  <2> QED BY <2>2, <2>3
<1>4. r.more = Entries(p)
  <2>1. Others(p) = <<>>
    BY DEF Others
  <2>2. r.more = Entries(p) \o <<>>
    BY <1>2, <2>1 DEF StructCase
  <2>3. Entries(p) \in Seq({Entries(p)[1]})
    <3>1. Entries(p) = [i \in 1..1 |-> Entries(p)[i]]
      BY <1>3 DEF Entries
    <3> QED BY <3>1
  <2> QED BY <2>2, <2>3, ConcatEmptySeq
<1>5. Len(r.more) = 1 /\ r.more[1] = c
  BY <1>3, <1>4 DEF Entries
<1>6. c \in Item /\ Inside(c, p)
  <2>1. Leaves(p, r.more)
    BY <1>1, StructWrites
  <2>2. 1 \in 1..Len(r.more)
    BY <1>5
  <2> QED BY <1>5, <2>1, <2>2, ElementOfSeq DEF Leaves
<1>7. Handles(r.more[1], c)
  <2>1. c.do # "zero"
    <3> DEFINE key == p.v.e[1][1]
               v   == p.v.e[1][2]
    <3>1. \/ c = Unfound
          \/ \E i \in 1..Len(p.t.mbrs) : c = Member(p, v, i)
      <4>1. c = PutMember(p.t, key, v, p.at)
        BY <1>3
      <4> HIDE DEF key, v
      <4> QED BY <4>1, PutMemberCases
    <3>2. Unfound.do = "abort" /\ \A w, i : Member(p, w, i).do = "put"
      BY DEF Unfound, Member, Put
    <3> QED BY <3>1, <3>2
  <2> QED BY <1>5, <2>1 DEF Handles
<1>8. Clear(c, r.more, 1) /\ 1 \in 1..Len(r.more)
  BY <1>5 DEF Clear
<1>9. Waits(c, r.more)
  BY <1>7, <1>8 DEF Waits
<1> QED BY <1>6, <1>9 DEF Ready, Settled

\* What a struct's member is given.
Keyed(p, i) == {j \in 1..Len(p.v.e) : HasKey(p.t, i, p.v.e[j][1])}

LEMMA StructParts ==
  ASSUME NEW p \in Item, p.do = "put", p.t.k = "struct", p.v.k = "table", NEW c \in Parts(p)
  PROVE  \E i \in 1..Len(p.t.mbrs) : \E v \in Value :
           /\ c = Member(p, v, i)
           /\ \A j \in Keyed(p, i) : p.v.e[j][2] = v
           /\ Keyed(p, i) = {} /\ Single(p.v) => v = Get(p.v, Pos(1)) /\ i # Len(p.t.mbrs)
           /\ Keyed(p, i) = {} /\ ~Single(p.v) => v = Nil
<1>1. IsRecord(p.t) /\ p.t \in Type /\ p.v \in Value /\ IsTable(p.v)
  BY ItemCases, ValueCases DEF IsRecord
<1>2. PICK i \in 1..Len(p.t.mbrs) :
        c \in LET w == WantedOf(p.t, p.v, i)
              IN  {PutMember(p.t, Pos(i), v, p.at) : v \in {x \in w : w = {x}}}
  BY DEF Parts
<1>3. PICK v : WantedOf(p.t, p.v, i) = {v} /\ c = PutMember(p.t, Pos(i), v, p.at)
  BY <1>2
<1>4. c = Member(p, v, i)
  <2>1. HasKey(p.t, i, Pos(i))
    BY DEF HasKey
  <2> QED BY <1>1, <1>3, <2>1, PutMemberIs
<1> DEFINE given == {Get(p.v, key) : key \in {Pos(i), Named(p.t.mbrs[i].name)} \cap Keys(p.v)}
<1>5. WantedOf(p.t, p.v, i) = IF given # {} THEN given
                              ELSE IF Single(p.v)
                                     THEN IF i = Len(p.t.mbrs) THEN {} ELSE {Get(p.v, Pos(1))}
                                     ELSE {Nil}
  BY DEF WantedOf
<1>6. \A x \in given : x \in Value
  BY <1>1, GetValue
<1>7. v \in Value
  <2>1. CASE given # {}
    BY <1>3, <1>5, <1>6, <2>1
  <2>2. CASE given = {} /\ Single(p.v)
    <3>1. v = Get(p.v, Pos(1))
      BY <1>3, <1>5, <2>2
    <3> QED BY <1>1, <3>1, GetValue
  <2>3. CASE given = {} /\ ~Single(p.v)
    BY <1>3, <1>5, <2>3 DEF Value
  <2> QED BY <2>1, <2>2, <2>3
<1>8. \A j \in Keyed(p, i) : p.v.e[j][2] \in given
  <2> SUFFICES ASSUME NEW j \in Keyed(p, i) PROVE p.v.e[j][2] \in given
    OBVIOUS
  <2>1. /\ p.v.e[j][1] \in {Pos(i), Named(p.t.mbrs[i].name)}
        /\ p.v.e[j][1] \in Keys(p.v) /\ Get(p.v, p.v.e[j][1]) = p.v.e[j][2]
    BY <1>1, GetEntry DEF Keyed, HasKey
  <2> QED BY <2>1
<1>9. Keyed(p, i) = {} => given = {}
  <2> SUFFICES ASSUME NEW key \in {Pos(i), Named(p.t.mbrs[i].name)} \cap Keys(p.v)
               PROVE  Keyed(p, i) # {}
    OBVIOUS
  <2>1. PICK j \in 1..Len(p.v.e) : p.v.e[j][1] = key
    BY DEF Keys
  <2>2. j \in Keyed(p, i)
    BY <2>1 DEF Keyed, HasKey
  <2> QED BY <2>2
<1> HIDE DEF given
<1>10. \A j \in Keyed(p, i) : p.v.e[j][2] = v
  BY <1>3, <1>5, <1>8
<1>11. Keyed(p, i) = {} /\ Single(p.v) => v = Get(p.v, Pos(1)) /\ i # Len(p.t.mbrs)
  BY <1>3, <1>5, <1>9
<1>12. Keyed(p, i) = {} /\ ~Single(p.v) => v = Nil
  BY <1>3, <1>5, <1>9
<1> QED BY <1>4, <1>7, <1>10, <1>11, <1>12

LEMMA EntriesAre ==
  ASSUME NEW p \in Item, p.do = "put", p.t.k = "struct", ~Unsized(p.t), p.v.k = "table",
         NEW v \in Value, NEW i \in 1..Len(p.t.mbrs), NEW j \in 1..Len(p.v.e)
  PROVE  /\ j \in Keyed(p, i) => Entries(p)[j] = Member(p, p.v.e[j][2], i)
         /\ j \notin Keyed(p, i) => Apart(Member(p, v, i), Entries(p)[j])
<1>1. IsRecord(p.t) /\ p.t \in Type /\ p.v \in Value /\ IsTable(p.v)
  BY ItemCases, ValueCases DEF IsRecord
<1>2. Entries(p)[j] = PutMember(p.t, p.v.e[j][1], p.v.e[j][2], p.at)
  BY DEF Entries
<1>3. p.v.e[j][2] \in Value
  BY <1>1, GetEntry
<1>4. CASE Entries(p)[j] = Unfound /\ ~IsMember(p.t, p.v.e[j][1])
  <2>1. j \notin Keyed(p, i)
    BY <1>4 DEF Keyed, IsMember
  <2>2. Unfound.do = "abort"
    BY DEF Unfound
  <2> QED BY <1>4, <2>1, <2>2 DEF Apart
<1>5. ASSUME NEW k \in 1..Len(p.t.mbrs), HasKey(p.t, k, p.v.e[j][1]),
             Entries(p)[j] = Member(p, p.v.e[j][2], k)
      PROVE  /\ j \in Keyed(p, i) => Entries(p)[j] = Member(p, p.v.e[j][2], i)
             /\ j \notin Keyed(p, i) => Apart(Member(p, v, i), Entries(p)[j])
  <2>1. j \in Keyed(p, i) => k = i
    BY <1>1, <1>5, HasKeyOnce DEF Keyed
  <2>2. j \notin Keyed(p, i) => k # i
    BY <1>5 DEF Keyed
  <2>3. k # i => Apart(Member(p, v, i), Member(p, p.v.e[j][2], k))
    BY <1>3, DifferentApart
  <2> QED BY <1>5, <2>1, <2>2, <2>3
<1> QED BY <1>2, <1>4, <1>5, PutMemberCases

LEMMA OthersAre ==
  ASSUME NEW p \in Item, p.do = "put", p.t.k = "struct", p.v.k = "table"
  PROVE  \/ /\ ~(Single(p.v) /\ Len(p.t.mbrs) > 2)
            /\ Others(p) = <<>> /\ Len(Others(p)) = 0
         \/ /\ Single(p.v) /\ Len(p.t.mbrs) > 2
            /\ Len(Others(p)) = Len(p.t.mbrs) - 2
            /\ \A k \in 1..Len(Others(p)) :
                 /\ k + 1 \in 1..Len(p.t.mbrs)
                 /\ Others(p)[k] = Member(p, Get(p.v, Pos(1)), k + 1)
<1>1. IsRecord(p.t) /\ p.t \in Type
  BY ItemCases DEF IsRecord
<1>2. Len(p.t.mbrs) \in Nat
  BY <1>1, TypeFacts, LenProperties DEF IsStruct, IsLayout
<1>3. CASE Single(p.v) /\ Len(p.t.mbrs) > 2
  <2>1. Others(p) = [k \in 1..(Len(p.t.mbrs) - 2) |->
                       PutMember(p.t, Pos(k + 1), Get(p.v, Pos(1)), p.at)]
    BY <1>3 DEF Others
  <2>2. Len(Others(p)) = Len(p.t.mbrs) - 2
    BY <1>2, <1>3, <2>1
  <2>3. ASSUME NEW k \in 1..(Len(p.t.mbrs) - 2)
        PROVE  /\ k + 1 \in 1..Len(p.t.mbrs)
               /\ Others(p)[k] = Member(p, Get(p.v, Pos(1)), k + 1)
    <3>1. k + 1 \in 1..Len(p.t.mbrs)
      BY <1>2
    <3>2. HasKey(p.t, k + 1, Pos(k + 1))
      BY DEF HasKey
    <3> QED BY <1>1, <2>1, <3>1, <3>2, PutMemberIs
  <2> QED BY <1>3, <2>2, <2>3
<1>4. CASE ~(Single(p.v) /\ Len(p.t.mbrs) > 2)
  BY <1>4 DEF Others
<1> QED BY <1>3, <1>4

\* A single number is under the key of the first member.
LEMMA SingleKeyed ==
  ASSUME NEW p \in Item, p.do = "put", p.t.k = "struct", p.v.k = "table", Single(p.v),
         NEW i \in 1..Len(p.t.mbrs)
  PROVE  Keyed(p, i) # {} <=> i = 1
<1>1. Keys(p.v) = {Pos(1)}
  BY DEF Single
<1>2. ASSUME Keyed(p, i) # {} PROVE i = 1
  <2>1. PICK j \in 1..Len(p.v.e) : HasKey(p.t, i, p.v.e[j][1])
    BY <1>2 DEF Keyed
  <2>2. p.v.e[j][1] = Pos(1)
    BY <1>1 DEF Keys
  <2>3. Pos(1).i = 1 /\ Named(p.t.mbrs[i].name).i = 0
    BY DEF Pos, Named
  <2>4. Pos(1) = Pos(i)
    BY <2>1, <2>2, <2>3 DEF HasKey
  <2> QED BY <2>3, <2>4 DEF Pos
<1>3. ASSUME i = 1 PROVE Keyed(p, i) # {}
  <2>1. PICK j \in 1..Len(p.v.e) : p.v.e[j][1] = Pos(1)
    BY <1>1 DEF Keys
  <2>2. j \in Keyed(p, i)
    BY <1>3, <2>1 DEF Keyed, HasKey
  <2> QED BY <2>2
<1> QED BY <1>2, <1>3

LEMMA StructReady ==
  ASSUME NEW p \in Item, p.do = "put", p.t.k = "struct", NEW m, IsMemory(m), Covers(m, p),
         NEW r, StructCase(p, m, r), NEW c \in Parts(p)
  PROVE  Ready(c, p, r.m, r.more)
<1>1. /\ IsRecord(p.t) /\ p.t \in Type /\ p.v \in Value /\ p.at \in Nat
      /\ Start(p) = p.at
  BY ItemCases DEF IsRecord, Start
<1>2. p.v.k = "table"
  <2>1. p.v.k # "cdata"
    BY DEF Parts, IsRecord
  <2> QED BY <2>1 DEF StructCase
<1>3. /\ ~Unsized(p.t) /\ r.m = memset(m, p.at, SizeOf(p.t))
      /\ r.more = Entries(p) \o Others(p) /\ IsTable(p.v)
  BY <1>1, <1>2, ValueCases DEF StructCase
<1>4. PICK i \in 1..Len(p.t.mbrs) : \E v \in Value :
        /\ c = Member(p, v, i)
        /\ \A j \in Keyed(p, i) : p.v.e[j][2] = v
        /\ Keyed(p, i) = {} /\ Single(p.v) => v = Get(p.v, Pos(1)) /\ i # Len(p.t.mbrs)
        /\ Keyed(p, i) = {} /\ ~Single(p.v) => v = Nil
  BY <1>2, StructParts
<1>5. PICK v \in Value :
        /\ c = Member(p, v, i)
        /\ \A j \in Keyed(p, i) : p.v.e[j][2] = v
        /\ Keyed(p, i) = {} /\ Single(p.v) => v = Get(p.v, Pos(1)) /\ i # Len(p.t.mbrs)
        /\ Keyed(p, i) = {} /\ ~Single(p.v) => v = Nil
  BY <1>4
<1>6. c \in Item /\ Inside(c, p) /\ c.do = "put" /\ c.v = v /\ c.t = MemberType(p.t, i)
  BY <1>1, <1>3, <1>5, MemberInside DEF Member, Put
<1>7. /\ Len(p.v.e) \in Nat /\ Len(Entries(p)) = Len(p.v.e)
      /\ Entries(p) \in Seq(Item) /\ Others(p) \in Seq(Item)
  <2>1. Len(p.v.e) \in Nat
    BY <1>3, LenProperties DEF IsTable
  <2>2. Entries(p) = [j \in 1..Len(p.v.e) |-> Entries(p)[j]]
    BY DEF Entries
  <2>3. \A j \in 1..Len(p.v.e) : Entries(p)[j] \in Item
    <3> SUFFICES ASSUME NEW j \in 1..Len(p.v.e) PROVE Entries(p)[j] \in Item
      OBVIOUS
    <3> DEFINE key == p.v.e[j][1]
               w   == p.v.e[j][2]
    <3>1. w \in Value
      BY <1>3, GetEntry
    <3>2. Entries(p)[j] = PutMember(p.t, key, w, p.at)
      BY DEF Entries
    <3> HIDE DEF key, w
    <3>3. CASE Entries(p)[j] = Unfound
      BY <3>3 DEF Item
    <3>4. ASSUME NEW k \in 1..Len(p.t.mbrs), Entries(p)[j] = Member(p, w, k)
          PROVE  Entries(p)[j] \in Item
      BY <1>1, <1>3, <3>1, <3>4, MemberInside
    <3> QED BY <3>2, <3>3, <3>4, PutMemberCases
  <2>4. Others(p) \in Seq(Item)
    <3>1. CASE Others(p) = <<>>
      BY <3>1, EmptySeq
    <3>2. CASE Others(p) # <<>>
      <4>1. /\ Single(p.v) /\ Len(p.t.mbrs) > 2
            /\ Len(Others(p)) = Len(p.t.mbrs) - 2
            /\ \A k \in 1..Len(Others(p)) :
                 /\ k + 1 \in 1..Len(p.t.mbrs)
                 /\ Others(p)[k] = Member(p, Get(p.v, Pos(1)), k + 1)
        BY <1>2, <3>2, OthersAre
      <4>2. \A k \in 1..Len(Others(p)) : Others(p)[k] \in Item
        BY <1>1, <1>3, <4>1, GetValue, MemberInside
      <4>3. Others(p) = [k \in 1..(Len(p.t.mbrs) - 2) |-> Others(p)[k]]
        BY <4>1 DEF Others
      <4>4. Len(p.t.mbrs) \in Nat
        BY <1>1, TypeFacts, LenProperties DEF IsStruct, IsLayout
      <4>5. Len(p.t.mbrs) - 2 \in Nat
        BY <4>1, <4>4
      <4> QED BY <4>1, <4>2, <4>3, <4>5
    <3> QED BY <3>1, <3>2
  <2>5. Entries(p) \in Seq(Item) /\ Len(Entries(p)) = Len(p.v.e)
    BY <2>1, <2>2, <2>3
  <2> QED BY <2>1, <2>4, <2>5
<1> DEFINE E == Len(p.v.e)
           O == Len(Others(p))
<1>8. /\ E \in Nat /\ O \in Nat /\ Len(r.more) = E + O
      /\ \A j \in 1..E : r.more[j] = Entries(p)[j]
      /\ \A j \in 1..(E + O) : j > E => r.more[j] = Others(p)[j - E] /\ j - E \in 1..O
  <2>1. E \in Nat /\ O \in Nat /\ Len(r.more) = E + O
    <3>1. Len(Entries(p) \o Others(p)) = Len(Entries(p)) + Len(Others(p))
      BY <1>7, ConcatProperties
    <3>2. Len(Others(p)) \in Nat
      BY <1>7, LenProperties
    <3> QED BY <1>3, <1>7, <3>1, <3>2
  <2>2. \A j \in 1..(E + O) :
          r.more[j] = IF j <= E THEN Entries(p)[j] ELSE Others(p)[j - E]
    <3>1. \A j \in 1..(Len(Entries(p)) + Len(Others(p))) :
            (Entries(p) \o Others(p))[j] =
              IF j <= Len(Entries(p)) THEN Entries(p)[j] ELSE Others(p)[j - Len(Entries(p))]
      BY <1>7, ConcatProperties
    <3> QED BY <1>3, <1>7, <3>1
  <2> HIDE DEF E, O
  <2>3. \A j \in 1..E : j \in 1..(E + O) /\ j <= E
    BY <2>1
  <2>4. \A j \in 1..(E + O) : j > E => ~(j <= E) /\ j - E \in 1..O
    BY <2>1
  <2> QED BY <2>1, <2>2, <2>3, <2>4
<1>9. \A j \in 1..E : /\ j \in Keyed(p, i) => r.more[j] = c
                      /\ j \notin Keyed(p, i) => Apart(c, r.more[j])
  BY <1>2, <1>3, <1>5, <1>8, EntriesAre
<1>10. Handles(c, c)
  BY <1>6 DEF Handles
<1> HIDE DEF E, O
<1>11. SUFFICES Waits(c, r.more) \/ (Zeroed(c, r.m) /\ Clear(c, r.more, 0))
  BY <1>6 DEF Ready, Settled
<1>12. Single(p.v) => \A k \in 1..O : /\ k + 1 \in 1..Len(p.t.mbrs)
                                      /\ Others(p)[k] = Member(p, Get(p.v, Pos(1)), k + 1)
  BY <1>2, OthersAre DEF O
<1>13. ~Single(p.v) => O = 0
  BY <1>2, OthersAre DEF O
<1>14. CASE Keyed(p, i) # {}
  <2>1. PICK x \in Keyed(p, i) : \A y \in Keyed(p, i) : y <= x
    <3>1. Keyed(p, i) \subseteq 1..E
      BY DEF Keyed, E
    <3> QED BY <1>8, <1>14, <3>1, LastNumber
  <2>2. x \in 1..E /\ r.more[x] = c
    BY <1>9 DEF Keyed, E
  <2>3. ASSUME NEW j \in 1..(E + O), j > x PROVE Apart(c, r.more[j])
    <3>1. CASE j <= E
      <4>1. j \in 1..E /\ ~(j <= x)
        BY <1>8, <2>2, <2>3, <3>1
      <4>2. j \notin Keyed(p, i)
        BY <2>1, <4>1
      <4> QED BY <1>9, <4>1, <4>2
    <3>2. CASE j > E
      <4>1. r.more[j] = Others(p)[j - E] /\ j - E \in 1..O
        BY <1>8, <3>2
      <4>2. Single(p.v)
        BY <1>13, <4>1
      <4>3. i = 1
        BY <1>2, <1>14, <4>2, SingleKeyed
      <4>4. /\ (j - E) + 1 \in 1..Len(p.t.mbrs) /\ (j - E) + 1 # i
            /\ r.more[j] = Member(p, Get(p.v, Pos(1)), (j - E) + 1)
        <5>1. \A k \in 1..O : k + 1 # 1
          BY <1>8
        <5> QED BY <1>12, <4>1, <4>2, <4>3, <5>1
      <4> QED BY <1>3, <1>5, <4>4, GetValue, DifferentApart
    <3> QED BY <1>8, <2>2, <3>1, <3>2
  <2>4. x \in 1..Len(r.more)
    BY <1>8, <2>2
  <2>5. Clear(c, r.more, x)
    BY <1>8, <2>3 DEF Clear
  <2>6. Handles(r.more[x], c)
    BY <1>10, <2>2
  <2> QED BY <2>4, <2>5, <2>6 DEF Waits
<1>15. CASE Keyed(p, i) = {} /\ Single(p.v)
  <2>1. v = Get(p.v, Pos(1)) /\ i # Len(p.t.mbrs) /\ i # 1
    BY <1>2, <1>5, <1>15, SingleKeyed
  <2>2. Len(p.t.mbrs) \in Nat
    BY <1>1, TypeFacts, LenProperties DEF IsStruct, IsLayout
  <2>3. Len(p.t.mbrs) > 2 /\ i - 1 \in 1..(Len(p.t.mbrs) - 2) /\ (i - 1) + 1 = i
    BY <2>1, <2>2
  <2>4. O = Len(p.t.mbrs) - 2
    BY <1>2, <1>15, <2>3, OthersAre DEF O
  <2> DEFINE x == E + (i - 1)
  <2>5. x \in 1..(E + O) /\ x > E /\ x - E = i - 1
    BY <1>8, <2>3, <2>4
  <2>6. r.more[x] = c
    <3>1. r.more[x] = Others(p)[i - 1] /\ i - 1 \in 1..O
      BY <1>8, <2>5
    <3> QED BY <1>5, <1>12, <1>15, <2>1, <2>3, <3>1
  <2>7. ASSUME NEW j \in 1..(E + O), j > x PROVE Apart(c, r.more[j])
    <3>1. j > E /\ (j - E) + 1 # i
      BY <1>8, <2>5, <2>7
    <3>2. r.more[j] = Others(p)[j - E] /\ j - E \in 1..O
      BY <1>8, <3>1
    <3>3. (j - E) + 1 \in 1..Len(p.t.mbrs) /\ r.more[j] = Member(p, v, (j - E) + 1)
      BY <1>12, <1>15, <2>1, <3>2
    <3> QED BY <1>3, <1>5, <3>1, <3>3, DifferentApart
  <2> HIDE DEF x
  <2>8. x \in 1..Len(r.more)
    BY <1>8, <2>5
  <2>9. Clear(c, r.more, x)
    BY <1>8, <2>7 DEF Clear
  <2>10. Handles(r.more[x], c)
    BY <1>10, <2>6
  <2> QED BY <2>8, <2>9, <2>10 DEF Waits
<1>16. CASE Keyed(p, i) = {} /\ ~Single(p.v)
  <2>1. v = Nil /\ O = 0
    BY <1>5, <1>13, <1>16
  <2>2. IsNil(c)
    BY <1>1, <1>3, <1>6, <2>1, MemberFacts DEF IsNil
  <2>3. SizeOf(p.t) \in Nat /\ Stop(p) = p.at + SizeOf(p.t) /\ p.do # "abort"
    BY <1>1, <1>3, TypeFacts DEF Stop, Span
  <2>4. Zeroed(c, r.m)
    BY <1>1, <1>3, <1>6, <2>2, <2>3, NilZeroed
  <2>5. Len(r.more) = E
    BY <1>8, <2>1
  <2>6. Clear(c, r.more, 0)
    BY <1>9, <1>16, <2>5 DEF Clear
  <2> QED BY <2>4, <2>6
<1> QED BY <1>14, <1>15, <1>16

\* The parts of what a step puts are put by the steps it leaves, or are zeroes.
LEMMA OutcomeReady ==
  ASSUME NEW p \in Item, p.do = "put", NEW m, IsMemory(m), Covers(m, p),
         NEW r, OutcomeCase(p, m, r), NEW c \in Parts(p)
  PROVE  Ready(c, p, r.m, r.more)
<1>1. p.t.k \in {"int", "ptr"} => Parts(p) = {}
  BY DEF Parts
<1>2. CASE p.t.k = "array" /\ ArrayCase(p, m, r)
  BY <1>2, ArrayReady
<1>3. CASE IsRecord(p.t) /\ StructCase(p, m, r)
  BY <1>3, StructReady, UnionReady DEF IsRecord
<1> QED BY <1>1, <1>2, <1>3 DEF OutcomeCase

-----------------------------------------------------------------------------
(* What a step makes of the bytes of its value *)

Right(n, m) == \A b \in Own(n) : b[1] \in DOMAIN m /\ m[b[1]] = b[2]

LEMMA MemcpyAt ==
  ASSUME NEW p \in Item, p.do = "put", NEW m, IsMemory(m), Covers(m, p),
         NEW s \in Seq(Byte), Len(s) <= Stop(p) - Start(p), NEW i \in 1..Len(s)
  PROVE  /\ p.at + i - 1 \in Start(p)..(Stop(p) - 1)
         /\ p.at + i - 1 \in DOMAIN memcpy(m, p.at, s)
         /\ memcpy(m, p.at, s)[p.at + i - 1] = s[i]
<1>1. p.at \in Nat /\ Start(p) = p.at /\ Stop(p) \in Nat /\ Len(s) \in Nat
  BY ItemCases, StartStop, LenProperties DEF Start
<1> DEFINE x == p.at + i - 1
<1>2. x \in Start(p)..(Stop(p) - 1) /\ x \in p.at..(p.at + Len(s) - 1) /\ x - p.at + 1 = i
  BY <1>1
<1> HIDE DEF x
<1>3. x \in DOMAIN m
  BY <1>2 DEF Covers
<1>4. x \in DOMAIN memcpy(m, p.at, s) /\ memcpy(m, p.at, s)[x] = s[x - p.at + 1]
  BY <1>2, <1>3 DEF memcpy
<1> QED BY <1>2, <1>4 DEF x

\* The bytes that a sequence is copied to.
LEMMA MemcpyRight ==
  ASSUME NEW p \in Item, p.do = "put", NEW m, IsMemory(m), Covers(m, p),
         NEW s \in Seq(Byte), Len(s) <= Stop(p) - Start(p), NEW b \in At(p.at, s)
  PROVE  /\ b[1] \in Start(p)..(Stop(p) - 1)
         /\ b[1] \in DOMAIN memcpy(m, p.at, s)
         /\ memcpy(m, p.at, s)[b[1]] = b[2]
<1>1. PICK i \in 1..Len(s) : b = <<p.at + i - 1, s[i]>>
  BY DEF At
<1> QED BY <1>1, MemcpyAt

\* A record's bytes: those of its fixed part.
LEMMA CdataFits ==
  ASSUME NEW p \in Item, p.do = "put", IsRecord(p.t), p.v.k = "cdata", p.v.tag = p.t.tag
  PROVE  p.v.bytes \in Seq(Byte) /\ Len(p.v.bytes) <= Stop(p) - Start(p)
<1>1. /\ p.t \in Type /\ p.v \in Value /\ p.at \in Nat /\ IsStruct(p.t)
      /\ Start(p) = p.at /\ Stop(p) = p.at + Span(p.t, p.v) /\ Span(p.t, p.v) \in Nat
  BY ItemCases, SpanType, TypeFacts DEF Start, Stop
<1>2. p.v.bytes \in Seq(Byte) /\ Len(p.v.bytes) = p.t.size
  <2>1. /\ Record(p.t.k, p.t.tag, p.t.mbrs, p.t.size, p.t.unit) \in Ctypes
        /\ p.t.k \in {"struct", "union"}
    BY <1>1 DEF IsStruct
  <2> DEFINE u == Record(p.t.k, p.t.tag, p.t.mbrs, p.t.size, p.t.unit)
  <2>2. IsRecord(u) /\ u.tag = p.v.tag /\ u.size = p.t.size
    BY <2>1 DEF Record, IsRecord
  <2> HIDE DEF u
  <2> QED BY <1>1, <2>1, <2>2, ValueCases DEF u
<1>3. p.t.size <= Span(p.t, p.v) /\ p.t.size \in Nat
  <2>1. p.t.size \in Nat /\ p.t.unit \in Nat /\ p.t.k # "array"
    BY <1>1 DEF IsStruct, IsLayout
  <2>2. CASE Unsized(p.t)
    BY <2>1, <2>2 DEF Span
  <2>3. CASE ~Unsized(p.t)
    <3>1. p.t.extra \in Nat
      BY <1>1, <2>1, <2>3 DEF IsStruct, Unsized, IsRecord
    <3>2. SizeOf(p.t) = p.t.size + p.t.extra
      BY <2>1 DEF SizeOf
    <3> QED BY <2>1, <2>3, <3>1, <3>2 DEF Span
  <2> QED BY <2>2, <2>3
<1> QED BY <1>1, <1>2, <1>3

LEMMA StringFits ==
  ASSUME NEW p \in Item, p.do = "put", p.t.k = "array", p.t.of = Integer(1), p.v.k = "str"
  PROVE  /\ Terminated(p.v.s, p.t.n) \in Seq(Byte)
         /\ Len(Terminated(p.v.s, p.t.n)) <= Stop(p) - Start(p)
<1>1. /\ p.t \in Type /\ p.v \in Value /\ p.at \in Nat
      /\ Start(p) = p.at /\ Stop(p) = p.at + Span(p.t, p.v) /\ Span(p.t, p.v) \in Nat
  BY ItemCases, SpanType DEF Start, Stop
<1>2. /\ p.t.n \in Nat \cup {Unknown} /\ p.t.of.size = 1
      /\ Unsized(p.t) <=> p.t.n = Unknown
      /\ SizeOf(p.t) = p.t.n * p.t.of.size
  BY <1>1, ElementType DEF Integer
<1>3. p.v.s \in Seq(Byte) /\ Len(p.v.s) \in Nat
  BY <1>1, ValueCases, LenProperties
<1>4. CASE p.t.n = Unknown
  <2>1. Span(p.t, p.v) = Len(p.v.s) + 1
    BY <1>2, <1>4 DEF Span, Demand
  <2>2. /\ Terminated(p.v.s, p.t.n) \in Seq(Byte)
        /\ Len(Terminated(p.v.s, p.t.n)) = Len(p.v.s) + 1
    BY <1>2, <1>3, <1>4, TerminatedFacts
  <2> QED BY <1>1, <1>3, <2>1, <2>2
<1>5. CASE p.t.n # Unknown
  <2>1. Span(p.t, p.v) = p.t.n
    BY <1>2, <1>5 DEF Span
  <2> QED BY <1>1, <1>2, <1>3, <1>5, <2>1, TerminatedFacts
<1> QED BY <1>4, <1>5

LEMMA ScalarFits ==
  ASSUME NEW p \in Item, p.do = "put", p.t.k \in {"int", "ptr"}, NEW n \in Byte
  PROVE  /\ Bytes(n, p.t.size) \in Seq(Byte)
         /\ Len(Bytes(n, p.t.size)) <= Stop(p) - Start(p)
<1>1. /\ p.t \in Type /\ p.at \in Nat
      /\ Start(p) = p.at /\ Stop(p) = p.at + p.t.size /\ p.t.size \in Nat
  BY ItemCases, TypeFacts DEF Start, Stop, Span
<1> QED BY <1>1, BytesFacts

LEMMA OutcomeRight ==
  ASSUME NEW p \in Item, p.do = "put", NEW m, IsMemory(m), Covers(m, p),
         NEW r, OutcomeCase(p, m, r)
  PROVE  /\ Right(p, r.m)
         /\ \A b \in Own(p) : b[1] \in Start(p)..(Stop(p) - 1)
         /\ Own(p) # {} => r.more = <<>>
<1>1. p.t \in Type /\ p.v \in Value /\ p.at \in Nat
  BY ItemCases
<1>2. SUFFICES ASSUME NEW b \in Own(p)
               PROVE  /\ r.more = <<>> /\ b[1] \in Start(p)..(Stop(p) - 1)
                      /\ b[1] \in DOMAIN r.m /\ r.m[b[1]] = b[2]
  BY DEF Right
<1>3. CASE p.v.k = "cdata"
  <2>1. IsRecord(p.t) /\ StructCase(p, m, r)
    BY <1>3 DEF OutcomeCase, ArrayCase, ScalarCase
  <2>2. p.v.tag = p.t.tag /\ r.m = memcpy(m, p.at, p.v.bytes) /\ r.more = <<>>
    BY <1>3, <2>1 DEF StructCase
  <2>3. b \in At(p.at, p.v.bytes)
    BY <1>3 DEF Own
  <2> QED BY <1>3, <2>1, <2>2, <2>3, CdataFits, MemcpyRight
<1>4. CASE p.v.k = "str"
  <2> DEFINE s == Terminated(p.v.s, p.t.n)
  <2>1. /\ p.t.k = "array" /\ p.t.of = Integer(1)
        /\ r.m = memcpy(m, p.at, s) /\ r.more = <<>>
    BY <1>4 DEF OutcomeCase, ArrayCase, StructCase, ScalarCase
  <2>2. s \in Seq(Byte) /\ Len(s) <= Stop(p) - Start(p)
    BY <1>4, <2>1, StringFits
  <2>3. p.v.s \in Seq(Byte) /\ p.t.n \in Nat \cup {Unknown}
    BY <1>1, <1>4, <2>1, ValueCases, ElementType
  <2>4. PICK i \in 1..Len(Append(p.v.s, 0)) :
          /\ b = <<p.at + i - 1, Append(p.v.s, 0)[i]>>
          /\ p.t.n = Unknown \/ p.at + i - 1 < p.at + p.t.n
    BY <1>4 DEF Own, At
  <2>5. Len(Append(p.v.s, 0)) = Len(p.v.s) + 1 /\ Len(p.v.s) \in Nat
    BY <2>3, LenProperties
  <2>6. i \in 1..Len(s) /\ s[i] = Append(p.v.s, 0)[i]
    <3>1. CASE p.t.n = Unknown
      <4>1. Len(s) = Len(p.v.s) + 1 /\ \A j \in 1..Len(s) : s[j] = Append(p.v.s, 0)[j]
        BY <2>3, <3>1, TerminatedFacts
      <4> HIDE DEF s
      <4> QED BY <2>4, <2>5, <4>1
    <3>2. CASE p.t.n # Unknown
      <4>1. /\ Len(s) \in Nat
            /\ \A j \in 1..Len(s) : s[j] = Append(p.v.s, 0)[j]
            /\ \A j \in 1..Len(Append(p.v.s, 0)) : j <= p.t.n => j <= Len(s)
        BY <2>3, <3>2, TerminatedFacts
      <4>2. i <= p.t.n
        BY <1>1, <2>3, <2>4, <2>5, <3>2
      <4> HIDE DEF s
      <4> QED BY <2>4, <2>5, <4>1, <4>2
    <3> QED BY <3>1, <3>2
  <2> HIDE DEF s
  <2>7. b[1] = p.at + i - 1 /\ b[2] = s[i]
    BY <2>4, <2>6
  <2> QED BY <2>1, <2>2, <2>6, <2>7, MemcpyAt
<1>5. CASE p.v.k \in {"num", "nil"}
  <2> DEFINE n == IF p.v.k = "num" THEN p.v.n ELSE 0
  <2>1. p.t.k \in {"int", "ptr"} /\ ScalarCase(p, m, r)
    BY <1>5 DEF OutcomeCase, ArrayCase, StructCase
  <2>2. n \in Byte
    BY <1>1, ValueCases DEF Byte
  <2>3. b \in At(p.at, Bytes(n, p.t.size))
    BY <1>5 DEF Own
  <2>4. r.m = memcpy(m, p.at, Bytes(n, p.t.size)) /\ r.more = <<>>
    BY <2>1 DEF ScalarCase
  <2> HIDE DEF n
  <2>5. Bytes(n, p.t.size) \in Seq(Byte) /\ Len(Bytes(n, p.t.size)) <= Stop(p) - Start(p)
    BY <2>1, <2>2, ScalarFits
  <2> QED BY <2>3, <2>4, <2>5, MemcpyRight
<1>6. CASE p.v.k = "table"
  BY <1>6 DEF Own
<1> QED BY <1>1, <1>3, <1>4, <1>5, <1>6, ValueCases

\* Zeroes are right for nil.
LEMMA ZeroedRight ==
  ASSUME NEW m, NEW c, Zeroed(c, m)
  PROVE  Right(c, m)
<1>1. c \in Item /\ c.do = "put" /\ c.v = Nil /\ ~Unsized(c.t) /\ c.t \in Type /\ c.at \in Nat
  BY ItemCases DEF Zeroed, IsNil
<1>2. SUFFICES ASSUME NEW b \in Own(c) PROVE b[1] \in DOMAIN m /\ m[b[1]] = b[2]
  BY DEF Right
<1>3. c.t.k \in {"int", "ptr"} /\ b \in At(c.at, Bytes(0, c.t.size))
  BY <1>1 DEF Own, Nil
<1>4. Start(c) = c.at /\ Stop(c) = c.at + c.t.size /\ c.t.size \in Nat
  BY <1>1, <1>3, TypeFacts DEF Start, Stop, Span
<1>5. PICK i \in 1..c.t.size : b = <<c.at + i - 1, 0>>
  <2>1. Len(Bytes(0, c.t.size)) = c.t.size /\ \A i \in 1..c.t.size : Bytes(0, c.t.size)[i] = 0
    BY <1>4 DEF Bytes
  <2> QED BY <1>3, <2>1 DEF At
<1>6. c.at + i - 1 \in Start(c)..(Stop(c) - 1)
  BY <1>1, <1>4
<1> QED BY <1>5, <1>6 DEF Zeroed

\* The parts of a nil lie in its zeroes.
LEMMA ZeroedParts ==
  ASSUME NEW m, NEW c, Zeroed(c, m), NEW d \in Parts(c)
  PROVE  Zeroed(d, m)
<1>1. c \in Item /\ c.do = "put" /\ c.v = Nil /\ ~Unsized(c.t) /\ c.t \in Type /\ c.at \in Nat
  BY ItemCases DEF Zeroed, IsNil
<1>2. Nil \in Value /\ Nil.k = "nil" /\ c.v.k = "nil"
  BY <1>1 DEF Value, Nil
<1>3. SUFFICES IsNil(d) /\ Inside(d, c) /\ d.do # "abort"
  <2>1. /\ Start(d) \in Nat /\ Stop(d) \in Nat /\ Start(c) \in Nat /\ Stop(c) \in Nat
        /\ Start(c) <= Start(d) /\ Stop(d) <= Stop(c)
    BY <1>1, <1>3, StartStop DEF IsNil, Inside
  <2>2. \A x \in Start(d)..(Stop(d) - 1) : x \in Start(c)..(Stop(c) - 1)
    BY <2>1
  <2> QED BY <1>3, <2>2 DEF Zeroed
<1>4. CASE c.t.k = "array"
  <2>1. /\ c.t.n \in Nat /\ c.t.n # Unknown /\ SizeOf(c.t) = c.t.n * c.t.of.size
        /\ c.t.of.size \in Nat /\ ~Unsized(c.t.of)
    BY <1>1, <1>4, ElementType
  <2>2. Parts(c) = {Put(c.t.of, WantedAt(c.v, i), c.at + (i - 1) * c.t.of.size) : i \in 1..c.t.n}
    BY <1>2, <1>4, <2>1 DEF Parts
  <2>3. \A i : WantedAt(c.v, i) = Nil
    BY <1>2 DEF WantedAt
  <2>4. PICK i \in 1..c.t.n : d = Element(c, Nil, i)
    BY <2>2, <2>3 DEF Element
  <2>5. c.t.n * c.t.of.size <= Span(c.t, c.v)
    BY <1>1, <2>1 DEF Span
  <2> QED BY <1>1, <1>2, <1>4, <2>1, <2>4, <2>5, ElementInside DEF IsNil, Element, Put
<1>5. CASE c.t.k = "struct"
  <2>1. PICK i \in 1..Len(c.t.mbrs) :
          d \in LET w == WantedOf(c.t, c.v, i)
                IN  {PutMember(c.t, Pos(i), v, c.at) : v \in {x \in w : w = {x}}}
    BY <1>2, <1>5 DEF Parts
  <2>2. WantedOf(c.t, c.v, i) = {Nil}
    BY <1>2 DEF WantedOf
  <2>3. d = Member(c, Nil, i)
    <3>1. HasKey(c.t, i, Pos(i)) /\ IsRecord(c.t)
      BY <1>5 DEF HasKey, IsRecord
    <3> QED BY <1>1, <2>1, <2>2, <3>1, PutMemberIs
  <2> QED BY <1>1, <1>2, <1>5, <2>3, MemberInside, MemberFacts DEF IsNil, IsRecord, Member, Put
<1>6. CASE c.t.k \notin {"array", "struct"}
  BY <1>2, <1>6 DEF Parts
<1> QED BY <1>4, <1>5, <1>6

-----------------------------------------------------------------------------
(* A call under way                                                         *)
(*                                                                          *)
(* seen: the values whose bytes are written, and that no later step touches. *)

Kept(n, q) == \A b \in Own(n) : \A j \in 1..Len(q) :
                \/ q[j].do = "abort"
                \/ b[1] < Start(q[j])
                \/ b[1] >= Stop(q[j])

Meant(seen, m, q, root) ==
  /\ root \in Item /\ root.do = "put"
  /\ Settled(root, seen, m, q)
  /\ \A n \in seen :
       /\ Right(n, m) /\ Kept(n, q)
       /\ \A c \in Parts(n) : c \in Item /\ Settled(c, seen, m, q)

\* The call and what it has still to write.
Progress ==
  /\ todo # <<>> => calls # 0 /\ call.st \in {"packed", "busy"}
  /\ call.st \in {"packed", "busy", "ok"} =>
       \E seen \in SUBSET Item : Meant(seen, mem, todo, Put(call.t, call.v, call.at))

MeantInv == WriteInv /\ Progress

\* What comes behind an item.
LEMMA BehindMore ==
  ASSUME NEW more \in Seq(Item), NEW rest \in Seq(Item), NEW c,
         \A j \in 1..Len(rest) : Apart(c, rest[j])
  PROVE  /\ Clear(c, more, 0) => Clear(c, more \o rest, 0)
         /\ Waits(c, more) => Waits(c, more \o rest)
<1> DEFINE q == more \o rest
           E == Len(more)
           O == Len(rest)
<1>1. E \in Nat /\ O \in Nat
  BY LenProperties
<1>2. /\ Len(q) = E + O
      /\ \A j \in 1..(E + O) : q[j] = IF j <= E THEN more[j] ELSE rest[j - E]
  BY ConcatProperties
<1> HIDE DEF q, E, O
<1>3. \A j \in 1..(E + O) : j > E => q[j] = rest[j - E] /\ j - E \in 1..O
  <2>1. \A j \in 1..(E + O) : j > E => ~(j <= E) /\ j - E \in 1..O
    BY <1>1
  <2> QED BY <1>2, <2>1
<1>4. \A j \in 1..E : j \in 1..(E + O) /\ q[j] = more[j]
  <2>1. \A j \in 1..E : j \in 1..(E + O) /\ j <= E
    BY <1>1
  <2> QED BY <1>2, <2>1
<1>5. ASSUME NEW i \in 0..E, Clear(c, more, i) PROVE Clear(c, q, i)
  <2> SUFFICES ASSUME NEW j \in 1..(E + O), j > i PROVE Apart(c, q[j])
    BY <1>2 DEF Clear
  <2>1. CASE j > E
    BY <1>3, <2>1 DEF O
  <2>2. CASE j <= E
    <3>1. j \in 1..E
      BY <1>1, <2>2
    <3> QED BY <1>4, <1>5, <3>1 DEF Clear, E
  <2> QED BY <1>1, <2>1, <2>2
<1>6. ASSUME Waits(c, more) PROVE Waits(c, q)
  <2>1. PICK i \in 1..E : Handles(more[i], c) /\ Clear(c, more, i)
    BY <1>6 DEF Waits, E
  <2>2. i \in 0..E /\ i \in 1..Len(q)
    BY <1>1, <1>2, <2>1
  <2>3. Handles(q[i], c)
    BY <1>4, <2>1
  <2> QED BY <1>5, <2>1, <2>2, <2>3 DEF Waits
<1>7. 0 \in 0..E
  BY <1>1
<1> QED BY <1>5, <1>6, <1>7 DEF q

\* What waits behind the head goes on waiting.
LEMMA BehindHead ==
  ASSUME NEW q \in Seq(Item), q # <<>>, NEW more \in Seq(Item), NEW c,
         NEW i \in 2..Len(q), Handles(q[i], c), Clear(c, q, i)
  PROVE  Waits(c, more \o Tail(q))
<1> DEFINE z == more \o Tail(q)
           E == Len(more)
           O == Len(Tail(q))
<1>1. /\ Tail(q) \in Seq(Item) /\ O = Len(q) - 1 /\ Len(q) \in Nat
      /\ \A j \in 1..O : Tail(q)[j] = q[j + 1]
  BY HeadTailProperties, LenProperties
<1>2. E \in Nat /\ O \in Nat
  BY <1>1, LenProperties
<1>3. /\ Len(z) = E + O
      /\ \A j \in 1..(E + O) : z[j] = IF j <= E THEN more[j] ELSE Tail(q)[j - E]
  BY <1>1, ConcatProperties
<1> HIDE DEF z, E, O
<1>4. \A j \in 1..(E + O) : j > E => z[j] = q[(j - E) + 1] /\ (j - E) + 1 \in 1..Len(q)
  <2>1. \A j \in 1..(E + O) : j > E => ~(j <= E) /\ j - E \in 1..O
    BY <1>2
  <2>2. \A j \in 1..O : j + 1 \in 1..Len(q)
    BY <1>1, <1>2
  <2> QED BY <1>1, <1>3, <2>1, <2>2
<1> DEFINE x == E + (i - 1)
<1>5. x \in 1..(E + O) /\ x > E /\ (x - E) + 1 = i
  BY <1>1, <1>2
<1> HIDE DEF x
<1>6. Handles(z[x], c)
  BY <1>4, <1>5
<1>7. ASSUME NEW j \in 1..(E + O), j > x PROVE Apart(c, z[j])
  <2>1. j > E /\ (j - E) + 1 > i
    BY <1>2, <1>5, <1>7
  <2> QED BY <1>4, <2>1 DEF Clear
<1> QED BY <1>3, <1>5, <1>6, <1>7 DEF Waits, Clear, z

\* Zeroes that a step does not write to.
LEMMA StaysZeroed ==
  ASSUME NEW p \in Item, p.do # "abort", NEW m, IsMemory(m), NEW n, Writes(m, p, n),
         NEW c, Zeroed(c, m), Apart(c, p)
  PROVE  Zeroed(c, n)
<1>1. /\ c \in Item /\ c.do # "abort"
      /\ Start(c) \in Nat /\ Stop(c) \in Nat /\ Start(p) \in Nat /\ Stop(p) \in Nat
  BY StartStop DEF Zeroed, IsNil
<1>2. \A x \in Start(c)..(Stop(c) - 1) : x < Start(p) \/ x >= Stop(p)
  BY <1>1 DEF Apart
<1> QED BY <1>2 DEF Zeroed, Writes

LEMMA ApartBoth == \A p, q : Apart(p, q) <=> Apart(q, p)
BY DEF Apart

\* A value that nothing behind it writes over is seen when it is written.
Seen(seen, q) ==
  IF Head(q).do = "put" /\ Clear(Head(q), Tail(q), 0) THEN seen \cup {Head(q)} ELSE seen

LEMMA SettledStep ==
  ASSUME NEW q \in Seq(Item), q # <<>>, NEW m, IsMemory(m), Covers(m, Head(q)),
         NEW r, OutcomeCase(Head(q), m, r),
         NEW seen, NEW c \in Item, Settled(c, seen, m, q)
  PROVE  Settled(c, Seen(seen, q), r.m, r.more \o Tail(q))
<1> DEFINE p == Head(q)
           T == Tail(q)
           s == Seen(seen, q)
           z == r.more \o T
<1>1. /\ p \in Item /\ T \in Seq(Item) /\ Len(T) = Len(q) - 1 /\ Len(q) \in Nat \ {0}
      /\ \A j \in 1..Len(T) : T[j] = q[j + 1]
      /\ p = q[1]
  BY HeadTailProperties, LenProperties, EmptySeq
<1>2. \A j \in 1..Len(T) : j + 1 \in 1..Len(q) /\ j > 0
  BY <1>1
<1>3. p.do # "abort"
  BY DEF OutcomeCase
<1>4. Writes(m, p, r.m) /\ Leaves(p, r.more)
  BY <1>1, OutcomeWrites
<1>5. seen \subseteq s
  BY DEF Seen
<1> HIDE DEF p, T, s
<1>6. CASE c \in seen
  BY <1>5, <1>6 DEF Settled, s
<1>7. ASSUME NEW i \in 1..Len(q), Handles(q[i], c), Clear(c, q, i), i # 1
      PROVE  Settled(c, s, r.m, z)
  <2>1. i \in 2..Len(q)
    BY <1>1, <1>7
  <2>2. Waits(c, r.more \o Tail(q))
    BY <1>4, <1>7, <2>1, BehindHead DEF Leaves
  <2> QED BY <2>2 DEF Settled, T
<1>8. ASSUME Handles(p, c), Clear(c, q, 1)
      PROVE  Settled(c, s, r.m, z)
  <2>1. \A j \in 1..Len(T) : Apart(c, T[j])
    <3>1. \A j \in 1..Len(T) : j + 1 \in 1..Len(q) /\ j + 1 > 1
      BY <1>1
    <3> QED BY <1>1, <1>8, <3>1 DEF Clear
  <2>2. CASE p.do # "zero"
    <3>1. p = c
      BY <1>8, <2>2 DEF Handles
    <3>2. p.do = "put"
      BY <1>1, <1>3, <2>2, ItemCases
    <3>3. Clear(p, T, 0)
      BY <2>1, <3>1 DEF Clear
    <3>4. c \in s
      BY <3>1, <3>2, <3>3 DEF Seen, s, p, T
    <3> QED BY <3>4 DEF Settled
  <2>3. CASE p.do = "zero"
    <3>1. IsNil(c) /\ Inside(c, p)
      BY <1>8, <2>3 DEF Handles
    <3>2. r.m = memset(m, p.at, p.n) /\ r.more = <<>>
      BY <2>3 DEF OutcomeCase, p
    <3>3. p.at \in Nat /\ p.n \in Nat /\ Start(p) = p.at /\ Stop(p) = p.at + p.n
      BY <1>1, <2>3, ItemCases DEF Start, Stop
    <3>4. Zeroed(c, r.m)
      BY <1>1, <1>3, <3>1, <3>2, <3>3, NilZeroed DEF p
    <3>5. z = T
      BY <1>1, <3>2, ConcatEmptySeq
    <3>6. Clear(c, z, 0)
      BY <2>1, <3>5 DEF Clear
    <3> QED BY <3>4, <3>6 DEF Settled
  <2> QED BY <2>2, <2>3
<1>9. ASSUME Zeroed(c, m), Clear(c, q, 0)
      PROVE  Settled(c, s, r.m, z)
  <2>1. \A j \in 1..Len(q) : Apart(c, q[j])
    BY <1>1, <1>9 DEF Clear
  <2>2. Apart(c, p) /\ Apart(p, c)
    <3>1. 1 \in 1..Len(q)
      BY <1>1
    <3> QED BY <1>1, <2>1, <3>1, ApartBoth
  <2>3. Zeroed(c, r.m)
    BY <1>1, <1>3, <1>4, <1>9, <2>2, StaysZeroed
  <2>4. Clear(c, r.more, 0)
    <3> SUFFICES ASSUME NEW j \in 1..Len(r.more) PROVE Apart(c, r.more[j])
      BY DEF Clear
    <3>1. r.more[j] \in Item /\ Inside(r.more[j], p)
      BY <1>4, ElementOfSeq DEF Leaves
    <3> QED BY <1>1, <2>2, <3>1, InsideApart, ApartBoth
  <2>5. \A j \in 1..Len(T) : Apart(c, T[j])
    BY <1>1, <1>2, <2>1
  <2>6. Clear(c, z, 0)
    BY <1>1, <1>4, <2>4, <2>5, BehindMore DEF Leaves
  <2> QED BY <2>3, <2>6 DEF Settled
<1>10. CASE Waits(c, q)
  <2>1. PICK i \in 1..Len(q) : Handles(q[i], c) /\ Clear(c, q, i)
    BY <1>10 DEF Waits
  <2> QED BY <1>1, <1>7, <1>8, <2>1 DEF s, T
<1> QED BY <1>6, <1>9, <1>10 DEF Settled, s, T

LEMMA MeantStep ==
  ASSUME NEW q \in Seq(Item), q # <<>>, NEW m, IsMemory(m), Covers(m, Head(q)),
         NEW r, OutcomeCase(Head(q), m, r),
         NEW seen \in SUBSET Item, NEW root, Meant(seen, m, q, root)
  PROVE  /\ Seen(seen, q) \in SUBSET Item
         /\ Meant(Seen(seen, q), r.m, r.more \o Tail(q), root)
<1> DEFINE p == Head(q)
           T == Tail(q)
           s == Seen(seen, q)
           z == r.more \o T
<1>1. /\ p \in Item /\ T \in Seq(Item) /\ Len(T) = Len(q) - 1 /\ Len(q) \in Nat \ {0}
      /\ \A j \in 1..Len(T) : T[j] = q[j + 1]
      /\ p = q[1]
  BY HeadTailProperties, LenProperties, EmptySeq
<1>2. Writes(m, p, r.m) /\ Leaves(p, r.more) /\ r.more \in Seq(Item)
  BY <1>1, OutcomeWrites DEF Leaves
<1>3. /\ Len(r.more) \in Nat /\ Len(T) \in Nat /\ Len(z) = Len(r.more) + Len(T)
      /\ \A j \in 1..Len(z) :
           z[j] = IF j <= Len(r.more) THEN r.more[j] ELSE T[j - Len(r.more)]
  BY <1>1, <1>2, ConcatProperties, LenProperties
<1>4. \A j \in 1..Len(z) :
        \/ \E i \in 1..Len(r.more) : z[j] = r.more[i]
        \/ \E i \in 1..Len(T) : z[j] = T[i]
  <2> HIDE DEF z, T, p
  <2> SUFFICES ASSUME NEW j \in 1..Len(z)
               PROVE  \/ \E i \in 1..Len(r.more) : z[j] = r.more[i]
                      \/ \E i \in 1..Len(T) : z[j] = T[i]
    OBVIOUS
  <2>1. CASE j <= Len(r.more)
    <3>1. j \in 1..Len(r.more)
      BY <1>3, <2>1
    <3> QED BY <1>3, <2>1, <3>1
  <2>2. CASE ~(j <= Len(r.more))
    <3>1. j - Len(r.more) \in 1..Len(T)
      BY <1>3, <2>2
    <3> QED BY <1>3, <2>2, <3>1
  <2> QED BY <2>1, <2>2
<1>5. s \in SUBSET Item
  BY <1>1 DEF Seen
<1>6. \A c \in Item : Settled(c, seen, m, q) => Settled(c, s, r.m, z)
  BY SettledStep
<1>7. p.do # "abort"
  BY DEF OutcomeCase
<1> HIDE DEF p, T, s, z
<1>8. ASSUME NEW n \in seen
      PROVE  /\ Right(n, r.m) /\ Kept(n, z)
             /\ \A c \in Parts(n) : c \in Item /\ Settled(c, s, r.m, z)
  <2>1. /\ Right(n, m) /\ Kept(n, q)
        /\ \A c \in Parts(n) : c \in Item /\ Settled(c, seen, m, q)
    BY DEF Meant
  <2>2. \A b \in Own(n) : b[1] < Start(p) \/ b[1] >= Stop(p)
    <3>1. 1 \in 1..Len(q)
      BY <1>1
    <3> QED BY <1>1, <1>7, <2>1, <3>1 DEF Kept
  <2>3. Right(n, r.m)
    BY <1>2, <2>1, <2>2 DEF Right, Writes
  <2>4. Kept(n, z)
    <3> SUFFICES ASSUME NEW b \in Own(n), NEW j \in 1..Len(z)
                 PROVE  z[j].do = "abort" \/ b[1] < Start(z[j]) \/ b[1] >= Stop(z[j])
      BY DEF Kept
    <3>1. ASSUME NEW i \in 1..Len(r.more)
          PROVE  \/ r.more[i].do = "abort"
                 \/ b[1] < Start(r.more[i])
                 \/ b[1] >= Stop(r.more[i])
      <4>1. r.more[i] \in Item /\ Inside(r.more[i], p)
        BY <1>2, ElementOfSeq DEF Leaves
      <4>2. /\ Start(p) \in Nat /\ Stop(p) \in Nat
            /\ Start(r.more[i]) \in Nat /\ Stop(r.more[i]) \in Nat
        BY <1>1, <4>1, StartStop
      <4>3. b[1] \in Int
        <5>1. b[1] \in DOMAIN m
          BY <2>1 DEF Right
        <5> QED BY <5>1 DEF IsMemory
      <4> QED BY <2>2, <4>1, <4>2, <4>3 DEF Inside
    <3>2. ASSUME NEW i \in 1..Len(T)
          PROVE  T[i].do = "abort" \/ b[1] < Start(T[i]) \/ b[1] >= Stop(T[i])
      <4>1. i + 1 \in 1..Len(q) /\ T[i] = q[i + 1]
        BY <1>1
      <4> QED BY <2>1, <4>1 DEF Kept
    <3> QED BY <1>4, <3>1, <3>2
  <2> QED BY <1>6, <2>1, <2>3, <2>4
<1>9. ASSUME p.do = "put", Clear(p, T, 0)
      PROVE  /\ Right(p, r.m) /\ Kept(p, z)
             /\ \A c \in Parts(p) : c \in Item /\ Settled(c, s, r.m, z)
  <2>1. /\ Right(p, r.m)
        /\ \A b \in Own(p) : b[1] \in Start(p)..(Stop(p) - 1)
        /\ Own(p) # {} => r.more = <<>>
    BY <1>1, <1>9, OutcomeRight DEF p
  <2>2. \A j \in 1..Len(T) : Apart(p, T[j])
    BY <1>3, <1>9 DEF Clear
  <2>3. Kept(p, z)
    <3> SUFFICES ASSUME NEW b \in Own(p), NEW j \in 1..Len(z)
                 PROVE  z[j].do = "abort" \/ b[1] < Start(z[j]) \/ b[1] >= Stop(z[j])
      BY DEF Kept
    <3>1. PICK i \in 1..Len(T) : z[j] = T[i]
      <4>1. r.more = <<>>
        BY <2>1
      <4>2. Len(r.more) = 0
        BY <4>1
      <4> QED BY <1>4, <4>2
    <3>2. T[i] \in Item /\ Apart(p, T[i])
      BY <1>1, <2>2, ElementOfSeq
    <3>3. /\ Start(p) \in Nat /\ Stop(p) \in Nat /\ b[1] \in Start(p)..(Stop(p) - 1)
          /\ Start(T[i]) \in Nat /\ Stop(T[i]) \in Nat
      BY <1>1, <2>1, <3>2, StartStop
    <3> QED BY <1>7, <3>1, <3>2, <3>3 DEF Apart
  <2>4. ASSUME NEW c \in Parts(p)
        PROVE  c \in Item /\ Settled(c, s, r.m, z)
    <3>1. Ready(c, p, r.m, r.more)
      BY <1>1, <1>9, OutcomeReady DEF p
    <3>2. c \in Item /\ Inside(c, p) /\ Settled(c, {}, r.m, r.more)
      BY <3>1 DEF Ready
    <3>3. \A j \in 1..Len(T) : Apart(c, T[j])
      BY <1>1, <2>2, <3>2, ElementOfSeq, InsideApart
    <3>4. /\ Clear(c, r.more, 0) => Clear(c, z, 0)
          /\ Waits(c, r.more) => Waits(c, z)
      BY <1>1, <1>2, <3>3, BehindMore DEF z
    <3> QED BY <3>2, <3>4 DEF Settled
  <2> QED BY <2>1, <2>3, <2>4
<1>10. \A n \in s : n \in seen \/ (n = p /\ p.do = "put" /\ Clear(p, T, 0))
  BY DEF s, Seen, p, T
<1>11. root \in Item /\ root.do = "put" /\ Settled(root, s, r.m, z)
  BY <1>6 DEF Meant
<1>12. Meant(s, r.m, z, root)
  BY <1>8, <1>9, <1>10, <1>11 DEF Meant
<1> QED BY <1>5, <1>12 DEF s, z, T

LEMMA OneMeant ==
  ASSUME NEW root \in Item, root.do = "put", NEW m
  PROVE  {} \in SUBSET Item /\ Meant({}, m, <<root>>, root)
<1>1. Handles(<<root>>[1], root) /\ Clear(root, <<root>>, 1) /\ 1 \in 1..Len(<<root>>)
  BY DEF Handles, Clear
<1>2. Waits(root, <<root>>)
  BY <1>1 DEF Waits
<1> QED BY <1>2 DEF Meant, Settled

LEMMA InitProgress == Init => Progress
BY DEF Init, Progress, Call

LEMMA NewProgress ==
  ASSUME WriteInv, NEW T \in Ctypes, NEW args \in NewArgs(T), New(T, args)
  PROVE  Progress'
<1> DEFINE t == SizedType(T, args)
           r == Initialiser(Initials(T, args))
<1>1. t \in Type /\ r.v \in Value /\ r.st \in {"none", "packed", "busy"}
  BY NewFacts, InitialiserFacts DEF New
<1>2. /\ calls' = 1 /\ call' = Call(t, r.v, 0, SizeOf(t), r.st)
      /\ todo' = IF r.st = "none" THEN <<>> ELSE <<Put(t, r.v, 0)>>
  BY DEF New
<1> HIDE DEF t, r
<1>3. /\ call'.t = t /\ call'.v = r.v /\ call'.at = 0 /\ call'.st = r.st
  BY <1>2 DEF Call
<1>4. Put(t, r.v, 0) \in Item /\ Put(t, r.v, 0).do = "put"
  BY <1>1, PutIsItem DEF Put
<1>5. r.st # "none" =>
        \E seen \in SUBSET Item : Meant(seen, mem', todo', Put(call'.t, call'.v, call'.at))
  BY <1>2, <1>3, <1>4, OneMeant
<1> QED BY <1>1, <1>2, <1>3, <1>5 DEF Progress

LEMMA WriteProgress ==
  ASSUME WriteInv, Progress, Write
  PROVE  Progress'
<1> DEFINE p == Head(todo)
           r == Outcome(p, mem)
           root == Put(call.t, call.v, call.at)
<1>1. /\ todo # <<>> /\ r.st = "ok" /\ mem' = r.m /\ todo' = r.more \o Tail(todo)
      /\ call' = (IF todo' = <<>> THEN [call EXCEPT !.st = "ok"] ELSE call)
      /\ calls' = calls
  BY DEF Write
<1>2. /\ todo \in Seq(Item) /\ IsMemory(mem) /\ call.size \in Nat
      /\ call \in [t : Type \cup {NoObject}, v : Value, at : Nat, size : Nat, st : Statuses]
  BY DEF WriteInv, StateOK
<1>3. /\ call'.t = call.t /\ call'.v = call.v /\ call'.at = call.at
      /\ todo' # <<>> => call'.st = call.st
  BY <1>1, <1>2
<1>4. p \in Item /\ p = todo[1] /\ 1 \in 1..Len(todo)
  BY <1>1, <1>2, HeadTailProperties, EmptySeq
<1>5. calls # 0 /\ call.st \in {"packed", "busy"}
  BY <1>1 DEF Progress
<1>6. Covers(mem, p)
  <2>1. Start(p) \in Nat /\ Stop(p) \in Nat /\ Stop(p) <= call.size
    BY <1>4, StartStop DEF WriteInv, RoomOK
  <2>2. DOMAIN mem = 0..(call.size + Guard - 1) /\ Guard \in Nat
    BY <1>5, BoundsAreNumbers DEF WriteInv, RoomOK
  <2> HIDE DEF p
  <2> QED BY <1>2, <2>1, <2>2 DEF Covers
<1>7. OutcomeCase(p, mem, r)
  BY <1>1, <1>4, OutcomeCases
<1>8. PICK seen \in SUBSET Item : Meant(seen, mem, todo, root)
  BY <1>5 DEF Progress
<1> HIDE DEF r, root
<1>9. /\ Seen(seen, todo) \in SUBSET Item
      /\ Meant(Seen(seen, todo), r.m, r.more \o Tail(todo), root)
  BY <1>1, <1>2, <1>6, <1>7, <1>8, MeantStep
<1>10. Meant(Seen(seen, todo), mem', todo', Put(call'.t, call'.v, call'.at))
  BY <1>1, <1>3, <1>9 DEF root
<1> QED BY <1>1, <1>3, <1>5, <1>9, <1>10 DEF Progress

LEMMA RetryProgress ==
  ASSUME WriteInv, Progress, Retry
  PROVE  Progress'
<1> DEFINE v == TableOf(<<call.v>>)
<1>1. /\ call.st = "packed" /\ call' = [call EXCEPT !.v = v, !.st = "busy"]
      /\ todo' = <<Put(call.t, v, 0)>> /\ calls' = calls /\ todo # <<>>
  BY DEF Retry
<1>2. call.t \in Type /\ call.v \in Values /\ call.at = 0
  BY <1>1 DEF WriteInv, RoomOK
<1>3. v \in Value
  <2>1. <<call.v>> \in Seq(Values)
    BY <1>2
  <2> QED BY <2>1 DEF Value
<1> HIDE DEF v
<1>4. call'.t = call.t /\ call'.v = v /\ call'.at = 0 /\ call'.st = "busy"
  BY <1>1, <1>2 DEF WriteInv, StateOK
<1>5. Put(call.t, v, 0) \in Item /\ Put(call.t, v, 0).do = "put"
  BY <1>2, <1>3, PutIsItem DEF Put
<1>6. \E seen \in SUBSET Item : Meant(seen, mem', todo', Put(call'.t, call'.v, call'.at))
  BY <1>1, <1>4, <1>5, OneMeant
<1>7. calls' # 0
  BY <1>1 DEF Progress
<1> QED BY <1>4, <1>6, <1>7 DEF Progress

LEMMA EndProgress ==
  ASSUME WriteInv, NEW st \in {"error", "abort"}, End(st)
  PROVE  Progress'
<1>1. call' = [call EXCEPT !.st = st] /\ todo' = <<>>
  BY DEF End
<1>2. call'.st \in {"error", "abort"}
  BY <1>1 DEF WriteInv, StateOK
<1> QED BY <1>1, <1>2 DEF Progress

LEMMA AssignProgress ==
  ASSUME Idle, NEW v \in Value, NEW target, target.t \in Type, target.at \in Nat,
         Assign(target, v)
  PROVE  Progress'
<1>1. /\ call' = Call(target.t, v, target.at, SizeOf(obj), "busy")
      /\ todo' = <<Put(target.t, v, target.at)>>
      /\ calls' = calls + 1 /\ calls \in Nat
  BY BoundsAreNumbers DEF Assign, Idle
<1>2. call'.t = target.t /\ call'.v = v /\ call'.at = target.at /\ call'.st = "busy"
  BY <1>1 DEF Call
<1>3. Put(target.t, v, target.at) \in Item /\ Put(target.t, v, target.at).do = "put"
  BY PutIsItem DEF Put
<1>4. \E seen \in SUBSET Item : Meant(seen, mem', todo', Put(call'.t, call'.v, call'.at))
  BY <1>1, <1>2, <1>3, OneMeant
<1> QED BY <1>1, <1>2, <1>4 DEF Progress

LEMMA NextProgress ==
  ASSUME WriteInv, Progress, [Next]_vars
  PROVE  Progress'
<1>1. ASSUME NEW T \in Ctypes, NEW args \in NewArgs(T), New(T, args)
      PROVE  Progress'
  BY <1>1, NewProgress
<1>2. CASE Write
  BY <1>2, WriteProgress
<1>3. CASE Retry
  BY <1>3, RetryProgress
<1>4. CASE Raise
  BY <1>4, EndProgress DEF Raise
<1>5. CASE Abort
  BY <1>5, EndProgress DEF Abort
<1>6. Targets(NoObject) = {} /\ Targets(Behind(NoObject)) = {}
  BY DEF Targets, Behind, NoObject, IsRecord
<1>7. obj # NoObject => obj \in Type /\ ~Unsized(obj)
  BY DEF WriteInv, StateOK, RoomOK
<1>8. \A v \in AssignArgs : v \in Value
  BY ArgsAreValues DEF Value
<1>9. ASSUME Idle, NEW target \in Targets(obj), NEW v \in AssignArgs, Assign(target, v)
      PROVE  Progress'
  <2>1. obj # NoObject /\ v \in Value
    BY <1>6, <1>8, <1>9
  <2>2. target.t \in Type /\ target.at \in Nat
    BY <1>7, <2>1, TargetsInRoom DEF InRoom
  <2> QED BY <1>9, <2>1, <2>2, AssignProgress
<1>10. ASSUME Idle, NEW target \in Targets(Behind(obj)), NEW v \in AssignArgs,
              AssignThrough(target, v)
       PROVE  Progress'
  <2>1. obj # NoObject /\ v \in Value
    BY <1>6, <1>8, <1>10
  <2>2. target.t \in Type /\ target.at \in Nat
    BY <1>7, <1>10, <2>1, TargetsThrough DEF AssignThrough, InRoom
  <2> QED BY <1>10, <2>1, <2>2, AssignProgress DEF AssignThrough
<1>11. CASE UNCHANGED vars
  BY <1>11 DEF vars, Progress
<1> QED BY <1>1, <1>2, <1>3, <1>4, <1>5, <1>9, <1>10, <1>11 DEF Next

\* While a call is under way, each value that is in it is written, or has an
\* item to come, or lies in zeroes that no item behind it writes to.
THEOREM MeantInvariant == Spec => []MeantInv
<1>1. Init => MeantInv
  BY InitWriteInv, InitProgress DEF MeantInv
<1>2. MeantInv /\ [Next]_vars => MeantInv'
  BY NextWriteInv, NextProgress DEF MeantInv
<1> QED BY <1>1, <1>2, PTL DEF Spec

-----------------------------------------------------------------------------
(* The values in a value, level by level *)

IsLevels(f, p, m) ==
  f = [d \in 0..m |-> IF d = 0 THEN {p} ELSE f[d - 1] \cup UNION {Parts(q) : q \in f[d - 1]}]

LEMMA LevelsExist ==
  ASSUME NEW p, NEW n \in Nat
  PROVE  \E f : IsLevels(f, p, n)
<1> DEFINE S == {m \in Nat : \E f : IsLevels(f, p, m)}
           Next1(s) == s \cup UNION {Parts(q) : q \in s}
<1>1. 0 \in S
  <2>1. IsLevels([d \in 0..0 |-> {p}], p, 0)
    BY DEF IsLevels
  <2> QED BY <2>1
<1>2. ASSUME NEW m \in Nat, m \in S PROVE m + 1 \in S
  <2>1. PICK f : IsLevels(f, p, m)
    BY <1>2
  <2> DEFINE g == [d \in 0..(m + 1) |-> IF d = m + 1 THEN Next1(f[m]) ELSE f[d]]
  <2>2. ASSUME NEW d \in 0..(m + 1)
        PROVE  g[d] = IF d = 0 THEN {p} ELSE Next1(g[d - 1])
    <3>1. CASE d = m + 1
      <4>1. d # 0 /\ d - 1 = m /\ m \in 0..(m + 1) /\ m # m + 1
        BY <3>1
      <4>2. g[d] = Next1(f[m]) /\ g[d - 1] = f[m]
        BY <3>1, <4>1
      <4> QED BY <4>1, <4>2
    <3>2. CASE d # m + 1
      <4>1. d \in 0..m /\ g[d] = f[d]
        BY <3>2
      <4>2. f[d] = IF d = 0 THEN {p} ELSE Next1(f[d - 1])
        BY <2>1, <4>1 DEF IsLevels
      <4>3. d # 0 => d - 1 \in 0..(m + 1) /\ d - 1 # m + 1
        BY <4>1
      <4>4. d # 0 => g[d - 1] = f[d - 1]
        BY <4>3
      <4> QED BY <4>1, <4>2, <4>4
    <3> QED BY <3>1, <3>2
  <2>3. IsLevels(g, p, m + 1)
    <3>1. g = [d \in 0..(m + 1) |-> g[d]]
      OBVIOUS
    <3> HIDE DEF g
    <3> QED BY <2>2, <3>1 DEF IsLevels
  <2> HIDE DEF g
  <2> QED BY <2>3
<1>3. Nat \subseteq S
  <2> HIDE DEF S
  <2> QED BY <1>1, <1>2, Induction
<1> QED BY <1>3

\* What is within a value is in every set that has it and the parts of its own.
LEMMA WithinClosed ==
  ASSUME NEW p, NEW G, p \in G, \A q \in G : Parts(q) \subseteq G
  PROVE  Within(p) \subseteq G
<1> DEFINE f == CHOOSE f : IsLevels(f, p, Depth)
<1>1. Depth \in Nat
  BY BoundsAreNumbers
<1>2. IsLevels(f, p, Depth)
  BY <1>1, LevelsExist
<1>3. Within(p) = f[Depth]
  BY DEF Within, IsLevels
<1> HIDE DEF f
<1> DEFINE S == {d \in Nat : d <= Depth => f[d] \subseteq G}
<1>4. 0 \in S
  BY <1>1, <1>2 DEF IsLevels
<1>5. ASSUME NEW d \in Nat, d \in S PROVE d + 1 \in S
  <2> SUFFICES ASSUME d + 1 <= Depth PROVE f[d + 1] \subseteq G
    OBVIOUS
  <2>1. f[d] \subseteq G
    BY <1>1, <1>5
  <2>2. d + 1 \in 0..Depth /\ d + 1 # 0 /\ (d + 1) - 1 = d
    BY <1>1
  <2>3. f[d + 1] = f[d] \cup UNION {Parts(q) : q \in f[d]}
    BY <1>2, <2>2 DEF IsLevels
  <2> QED BY <2>1, <2>3
<1>6. Nat \subseteq S
  <2> HIDE DEF S
  <2> QED BY <1>4, <1>5, Induction
<1> QED BY <1>1, <1>3, <1>6

\* When a call has nothing left to write, all that its value means is there.
LEMMA MeantAtLast ==
  ASSUME NEW m, NEW seen, NEW root, Meant(seen, m, <<>>, root)
  PROVE  \A p \in Within(root) : Right(p, m)
<1> DEFINE G == seen \cup {c \in Item : Zeroed(c, m)}
<1>1. \A c \in Item : Settled(c, seen, m, <<>>) => c \in G
  BY DEF Settled, Waits
<1>2. root \in G
  BY <1>1 DEF Meant
<1>3. ASSUME NEW q \in G PROVE Parts(q) \subseteq G /\ Right(q, m)
  <2>1. CASE q \in seen
    BY <1>1, <2>1 DEF Meant
  <2>2. CASE Zeroed(q, m)
    <3>1. \A d \in Parts(q) : Zeroed(d, m)
      BY <2>2, ZeroedParts
    <3> QED BY <2>2, <3>1, ZeroedRight DEF Zeroed, IsNil
  <2> QED BY <2>1, <2>2
<1> HIDE DEF G
<1>4. Within(root) \subseteq G
  BY <1>2, <1>3, WithinClosed
<1> QED BY <1>3, <1>4

\* Whatever the values, types and layouts, however deep the tables, and whatever
\* an attempt with the packed form or an earlier value left there: a call that
\* succeeds leaves the bytes that the value means.
THEOREM WritesWhatIsMeant == Spec => []AsMeant
<1>1. MeantInv => AsMeant
  <2> SUFFICES ASSUME MeantInv, call.st = "ok"
               PROVE  \A p \in Within(Put(call.t, call.v, call.at)) :
                        \A b \in Own(p) : mem[b[1]] = b[2]
    BY DEF AsMeant
  <2>1. todo = <<>>
    BY DEF MeantInv, Progress
  <2>2. PICK seen \in SUBSET Item : Meant(seen, mem, <<>>, Put(call.t, call.v, call.at))
    BY <2>1 DEF MeantInv, Progress
  <2> QED BY <2>2, MeantAtLast DEF Right
<1> QED BY <1>1, MeantInvariant, PTL
=============================================================================
