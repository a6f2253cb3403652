---------------------------- MODULE CModulesProofs ----------------------------
(***************************************************************************)
(* Proofs about C modules: whatever a program declares and in whatever     *)
(* order it looks names up, a symbol is used with a type it was declared   *)
(* with, and an assignment changes no variable that is not assignable.     *)
(*                                                                         *)
(* The three tables are written by ffi.cdef alone, name by name, so the    *)
(* argument is about one name: DeclStep says what a step does to it, and   *)
(* the lemmas after it what such a step preserves.                         *)
(***************************************************************************)
EXTENDS CModules, TLAPS

\* What a step does to name n: nothing, or one more declaration.
Same(n) ==
    said'[n] = said[n] /\ functions'[n] = functions[n] /\ asmname'[n] = asmname[n]

Adds(n, d) ==
    /\ d \in Declarations /\ d.type \in TypesOf(n)
    /\ ~d.asm => d.sym = n
    /\ said'[n] = Append(said[n], d)
    /\ functions'[n] = d.type
    /\ d.asm => asmname'[n] = d.sym
    /\ asmname[n] # None => asmname'[n] # None
    /\ asmname'[n] # None => SameNature(n, asmname'[n])

NameStep(n) == Same(n) \/ \E d \in Declarations : Adds(n, d)

Tables ==
    /\ functions \in [Names -> Types \cup {None}]
    /\ asmname \in [Names -> Symbols \cup {None}]
    /\ said \in [Names -> Seq(Declarations)]

-----------------------------------------------------------------------------
(* Declarations *)

\* The record a declaration adds to the history.
LEMMA DeclarationFacts ==
    ASSUME NEW n \in Names, NEW a \in Symbols \cup {None}, NEW t \in Types
    PROVE  /\ Declaration(n, t, a) \in Declarations
           /\ Declaration(n, t, a).type = t
           /\ ~Declaration(n, t, a).asm => Declaration(n, t, a).sym = n
           /\ Declaration(n, t, a).asm <=> a # None
           /\ a # None => Declaration(n, t, a).sym = a
BY CModulesAssumption DEF Declaration, Declarations, Symbols

\* One declarator: it adds one declaration to its name.
LEMMA DeclareStep ==
    ASSUME IInv, NEW n \in Names, NEW a \in Symbols \cup {None},
           a # None => SameNature(n, a), NEW t \in TypesOf(n), Declare(n, t, a)
    PROVE  Tables' /\ \A x \in Names : NameStep(x)
<1> DEFINE d == Declaration(n, t, a)
<1>1. t \in Types
  BY DEF TypesOf, Types
<1>2. /\ d \in Declarations /\ d.type = t /\ (~d.asm => d.sym = n)
      /\ (d.asm <=> a # None) /\ (a # None => d.sym = a)
  BY <1>1, DeclarationFacts
<1>3. /\ said \in [Names -> Seq(Declarations)]
      /\ functions \in [Names -> Types \cup {None}]
      /\ asmname \in [Names -> Symbols \cup {None}]
  BY DEF IInv, TypeOK, DeclarationsOK
<1>4. /\ said' = [said EXCEPT ![n] = Append(said[n], d)]
      /\ functions' = [functions EXCEPT ![n] = t]
      /\ asmname' = [asmname EXCEPT ![n] = Stored(n, a)]
  BY <1>3 DEF Declare
<1> HIDE DEF d
<1>5. Tables'
  BY <1>1, <1>2, <1>3, <1>4 DEF Tables, Stored
<1>6. Adds(n, d)
  BY <1>2, <1>3, <1>4 DEF Adds, Stored, IInv, DeclarationsOK
<1>7. ASSUME NEW x \in Names, x # n PROVE Same(x)
  BY <1>3, <1>4, <1>7 DEF Same
<1> QED BY <1>2, <1>5, <1>6, <1>7 DEF NameStep

\* Two declarators: each name gets its own declaration, and the asm name too.
LEMMA DeclareBothStep ==
    ASSUME IInv, NEW n \in Names, NEW last \in Names, NEW a \in Symbols \cup {None},
           a # None => SameNature(n, a), NEW t \in TypesOf(n), DeclareBoth(n, last, t, a)
    PROVE  Tables' /\ \A x \in Names : NameStep(x)
<1> DEFINE d == Declaration(n, t, a)
           e == Declaration(last, t, None)
<1>1. t \in Types /\ None \in Symbols \cup {None}
  BY DEF TypesOf, Types
<1>2. /\ d \in Declarations /\ d.type = t /\ (~d.asm => d.sym = n)
      /\ (d.asm <=> a # None) /\ (a # None => d.sym = a)
  BY <1>1, DeclarationFacts
<1>3. e \in Declarations /\ e.type = t /\ ~e.asm /\ e.sym = last
  BY <1>1, DeclarationFacts
<1>4. /\ said \in [Names -> Seq(Declarations)]
      /\ functions \in [Names -> Types \cup {None}]
      /\ asmname \in [Names -> Symbols \cup {None}]
  BY DEF IInv, TypeOK, DeclarationsOK
<1>5. n # last /\ SameNature(n, last) /\ t \in TypesOf(last)
  BY DEF DeclareBoth, SameNature, TypesOf
<1>6. /\ said' = [said EXCEPT ![n] = Append(said[n], d), ![last] = Append(said[last], e)]
      /\ functions' = [functions EXCEPT ![n] = t, ![last] = t]
      /\ asmname' = [asmname EXCEPT ![n] = Stored(n, a), ![last] = Stored(last, a)]
  BY <1>4, <1>5 DEF DeclareBoth
<1> HIDE DEF d, e
<1>7. Tables'
  <2>1. Append(said[n], d) \in Seq(Declarations) /\ Append(said[last], e) \in Seq(Declarations)
    BY <1>2, <1>3, <1>4
  <2>2. Stored(n, a) \in Symbols \cup {None} /\ Stored(last, a) \in Symbols \cup {None}
    BY <1>4 DEF Stored
  <2>3. said' \in [Names -> Seq(Declarations)]
    BY <1>4, <1>6, <2>1
  <2>4. functions' \in [Names -> Types \cup {None}]
    BY <1>1, <1>4, <1>6
  <2>5. asmname' \in [Names -> Symbols \cup {None}]
    BY <1>4, <1>6, <2>2
  <2> QED BY <2>3, <2>4, <2>5 DEF Tables
<1>8. Adds(n, d)
  BY <1>2, <1>4, <1>5, <1>6 DEF Adds, Stored, IInv, DeclarationsOK
<1>9. Adds(last, e)
  BY <1>3, <1>4, <1>5, <1>6 DEF Adds, Stored, IInv, DeclarationsOK, SameNature
<1>10. ASSUME NEW x \in Names, x # n, x # last PROVE Same(x)
  BY <1>4, <1>6, <1>10 DEF Same
<1> QED BY <1>2, <1>3, <1>7, <1>8, <1>9, <1>10 DEF NameStep

\* Every step does to each name what NameStep says.
LEMMA DeclStep ==
    ASSUME IInv, [Next]_vars
    PROVE  Tables' /\ \A x \in Names : NameStep(x)
<1>1. CASE UNCHANGED <<functions, asmname, said>>
  BY <1>1 DEF IInv, TypeOK, DeclarationsOK, Tables, NameStep, Same
<1>2. ASSUME NEW n \in Names, NEW v \in Values, DefineConstant(n, v)
      PROVE  UNCHANGED <<functions, asmname, said>>
  BY <1>2 DEF DefineConstant
<1>3. ASSUME NEW m \in Modules, NEW n \in Names,
             \/ IndexCached(m, n) \/ IndexConstant(m, n) \/ IndexFunction(m, n)
             \/ IndexVariable(m, n) \/ IndexError(m, n)
             \/ \E v \in Values : NewIndex(m, n, v)
      PROVE  UNCHANGED <<functions, asmname, said>>
  BY <1>3 DEF IndexCached, IndexConstant, IndexFunction, IndexVariable, IndexError, NewIndex
<1>4. ASSUME NEW n \in Names, NEW a \in Symbols \cup {None}, a # None => SameNature(n, a),
             NEW t \in TypesOf(n), Declare(n, t, a) \/ \E last \in Names : DeclareBoth(n, last, t, a)
      PROVE  Tables' /\ \A x \in Names : NameStep(x)
  <2>1. CASE Declare(n, t, a)
    BY <1>4, <2>1, DeclareStep
  <2>2. ASSUME NEW last \in Names, DeclareBoth(n, last, t, a)
        PROVE  Tables' /\ \A x \in Names : NameStep(x)
    BY <1>4, <2>2, DeclareBothStep
  <2> QED BY <1>4, <2>1, <2>2
<1>5. CASE UNCHANGED vars
  BY <1>1, <1>5 DEF vars
<1>6. CASE Next
  <2> USE <1>6 DEF Next
  <2> QED BY <1>1, <1>2, <1>3, <1>4
<1> QED BY <1>5, <1>6

-----------------------------------------------------------------------------
(* What a declaration preserves. *)

\* An element of the history stays where it is; the new one is the last.
LEMMA Appended ==
    ASSUME NEW S, NEW s \in Seq(S), NEW d \in S
    PROVE  LET t == Append(s, d) IN
           /\ t \in Seq(S) /\ t # <<>> /\ Len(t) = Len(s) + 1 /\ t[Len(t)] = d
           /\ \A i \in 1..Len(s) : i \in 1..Len(t) /\ t[i] = s[i]
           /\ \A i \in 1..Len(t) : i \in 1..Len(s) \/ i = Len(t)
OBVIOUS

\* The history and the tables stay as the invariant says.
LEMMA KeepsDeclarations ==
    ASSUME DeclarationsOK, Tables', \A x \in Names : NameStep(x)
    PROVE  DeclarationsOK'
<1> SUFFICES ASSUME NEW n \in Names
             PROVE  (/\ \A i \in 1..Len(said[n]) : ~said[n][i].asm => said[n][i].sym = n
                     /\ functions[n] # None => functions[n] \in TypesOf(n)
                     /\ asmname[n] # None => SameNature(n, asmname[n]))'
  BY DEF DeclarationsOK, Tables
<1>1. CASE Same(n)
  BY <1>1 DEF Same, DeclarationsOK
<1>2. ASSUME NEW d \in Declarations, Adds(n, d)
      PROVE  (/\ \A i \in 1..Len(said[n]) : ~said[n][i].asm => said[n][i].sym = n
              /\ functions[n] # None => functions[n] \in TypesOf(n)
              /\ asmname[n] # None => SameNature(n, asmname[n]))'
  <2>1. said[n] \in Seq(Declarations)
    BY DEF DeclarationsOK
  <2>2. \A i \in 1..Len(said'[n]) : \/ i \in 1..Len(said[n]) /\ said'[n][i] = said[n][i]
                                  \/ said'[n][i] = d
    BY <1>2, <2>1, Appended DEF Adds
  <2>3. \A i \in 1..Len(said'[n]) : ~said'[n][i].asm => said'[n][i].sym = n
    BY <1>2, <2>2 DEF Adds, DeclarationsOK
  <2> QED BY <1>2, <2>3 DEF Adds
<1> QED BY <1>1, <1>2 DEF NameStep

LEMMA KeepsTables ==
    ASSUME DeclarationsOK, TablesCurrent, \A x \in Names : NameStep(x)
    PROVE  TablesCurrent'
<1> SUFFICES ASSUME NEW n \in Names
             PROVE  (/\ functions[n] # None <=> said[n] # <<>>
                     /\ said[n] # <<>> =>
                         /\ functions[n] = said[n][Len(said[n])].type
                         /\ said[n][Len(said[n])].asm => asmname[n] = said[n][Len(said[n])].sym
                     /\ \A i \in 1..Len(said[n]) : said[n][i].asm => asmname[n] # None)'
  BY DEF TablesCurrent
<1>1. CASE Same(n)
  BY <1>1 DEF Same, TablesCurrent
<1>2. ASSUME NEW d \in Declarations, Adds(n, d)
      PROVE  /\ functions'[n] # None <=> said'[n] # <<>>
             /\ said'[n] # <<>> =>
                 /\ functions'[n] = said'[n][Len(said'[n])].type
                 /\ said'[n][Len(said'[n])].asm => asmname'[n] = said'[n][Len(said'[n])].sym
             /\ \A i \in 1..Len(said'[n]) : said'[n][i].asm => asmname'[n] # None
  <2>1. said[n] \in Seq(Declarations)
    BY DEF DeclarationsOK
  <2>2. /\ said'[n] # <<>> /\ said'[n][Len(said'[n])] = d
        /\ \A i \in 1..Len(said'[n]) : \/ i \in 1..Len(said[n]) /\ said'[n][i] = said[n][i]
                                       \/ said'[n][i] = d
    BY <1>2, <2>1, Appended DEF Adds
  <2>3. functions'[n] = d.type /\ d.type # None /\ d.sym # None
    BY <1>2, CModulesAssumption DEF Adds, Declarations
  <2>4. \A i \in 1..Len(said'[n]) : said'[n][i].asm => asmname'[n] # None
    BY <1>2, <2>2, <2>3 DEF Adds, TablesCurrent
  <2> QED BY <1>2, <2>2, <2>3, <2>4 DEF Adds
<1> QED BY <1>1, <1>2 DEF NameStep

\* A name whose declarations agree had declarations that agree: no later one
\* can make up for an earlier.  And what was declared stays declared.
LEMMA UniformBefore ==
    ASSUME DeclarationsOK, NEW n \in Names, NameStep(n)
    PROVE  /\ Uniform(n)' => Uniform(n)
           /\ \A i \in 1..Len(said[n]) : i \in 1..Len(said'[n]) /\ said'[n][i] = said[n][i]
<1>1. CASE Same(n)
  BY <1>1 DEF Same, Uniform
<1>2. ASSUME NEW d \in Declarations, Adds(n, d)
      PROVE  /\ Uniform(n)' => Uniform(n)
             /\ \A i \in 1..Len(said[n]) : i \in 1..Len(said'[n]) /\ said'[n][i] = said[n][i]
  <2>1. said[n] \in Seq(Declarations)
    BY DEF DeclarationsOK
  <2>2. /\ Len(said'[n]) = Len(said[n]) + 1 /\ Len(said[n]) \in Nat
        /\ \A i \in 1..Len(said[n]) : i \in 1..Len(said'[n]) /\ said'[n][i] = said[n][i]
    BY <1>2, <2>1, Appended DEF Adds
  <2>3. ASSUME Uniform(n)' PROVE Uniform(n)
    <3>1. \A i, j \in 1..Len(said[n]) : said[n][i].asm = said[n][j].asm
      BY <2>2, <2>3 DEF Uniform
    <3>2. ASSUME Len(said[n]) > 0, ~said[n][1].asm PROVE asmname[n] = None
      <4>1. Len(said'[n]) > 0 /\ ~said'[n][1].asm
        BY <2>2, <3>2
      <4>2. asmname'[n] = None
        BY <2>3, <4>1 DEF Uniform
      <4> QED BY <1>2, <4>2 DEF Adds
    <3> QED BY <3>1, <3>2 DEF Uniform
  <2> QED BY <2>2, <2>3
<1> QED BY <1>1, <1>2 DEF NameStep

-----------------------------------------------------------------------------
(* Lookups *)

\* What a lookup finds is the latest declaration: its symbol with its type.
LEMMA LatestFound ==
    ASSUME IInv, NEW n \in Names, functions[n] # None, Uniform(n)
    PROVE  LET i == Len(said[n]) IN
           /\ i \in 1..Len(said[n])
           /\ functions[n] = said[n][i].type
           /\ Symbol(n) = said[n][i].sym
<1>1. said[n] \in Seq(Declarations) /\ said[n] # <<>>
  BY DEF IInv, DeclarationsOK, TablesCurrent
<1>2. Len(said[n]) \in Nat \ {0} /\ 1 \in 1..Len(said[n]) /\ Len(said[n]) \in 1..Len(said[n])
  BY <1>1
<1>3. PICK d \in Declarations : d = said[n][Len(said[n])]
  BY <1>1, <1>2
<1>4. functions[n] = d.type
  BY <1>1, <1>3 DEF IInv, TablesCurrent
<1>5. CASE d.asm
  <2>1. asmname[n] = d.sym
    BY <1>1, <1>3, <1>5 DEF IInv, TablesCurrent
  <2>2. asmname[n] # None
    BY <1>2, <1>3, <1>5 DEF IInv, TablesCurrent
  <2> QED BY <1>2, <1>3, <1>4, <2>1, <2>2 DEF Symbol
<1>6. CASE ~d.asm
  <2>1. ~said[n][1].asm
    BY <1>2, <1>3, <1>6 DEF Uniform
  <2>2. asmname[n] = None
    BY <1>2, <2>1 DEF Uniform
  <2>3. d.sym = n
    BY <1>2, <1>3, <1>6 DEF IInv, DeclarationsOK
  <2> QED BY <1>2, <1>3, <1>4, <2>2, <2>3 DEF Symbol
<1> QED BY <1>5, <1>6

\* A name that is found has a symbol of its own nature.
LEMMA FoundNature ==
    ASSUME IInv, NEW m \in Modules, NEW n \in Names, Found(m, n)
    PROVE  /\ functions[n] \in Types
           /\ functions[n] \in FunctionTypes => Symbol(n) \in Code
           /\ functions[n] \notin FunctionTypes => Symbol(n) \in Data
<1>1. functions[n] \in TypesOf(n) /\ Symbol(n) \in Symbols /\ n \in Symbols
  BY CModulesAssumption DEF Found, IInv, DeclarationsOK
<1>2. n \in Code <=> Symbol(n) \in Code
  BY DEF Symbol, IInv, DeclarationsOK, SameNature
<1>3. FunctionTypes \cap VariableTypes = {}
  BY DEF FunctionTypes, VariableTypes
<1> QED BY <1>1, <1>2, <1>3 DEF TypesOf, Types, Symbols

-----------------------------------------------------------------------------
(* Types *)

\* The tables written by lookups and assignments.
LEMMA TypeStep ==
    ASSUME IInv, [Next]_vars
    PROVE  TypeOK'
<1>1. /\ functions' \in [Names -> Types \cup {None}]
      /\ asmname' \in [Names -> Symbols \cup {None}]
  BY DeclStep DEF Tables
<1>2. /\ constants \in [Names -> Values \cup {None}]
      /\ \A m \in Modules, n \in Names :
            cache[m][n] \in {None} \cup [sym : Code, type : FunctionTypes]
      /\ memory \in [Modules -> [Data -> Values]]
  BY DEF IInv, TypeOK
<1>3. CASE UNCHANGED <<constants, cache, memory>>
  BY <1>1, <1>2, <1>3 DEF TypeOK
<1>4. ASSUME NEW n \in Names, NEW v \in Values, DefineConstant(n, v)
      PROVE  TypeOK'
  BY <1>1, <1>2, <1>4 DEF DefineConstant, TypeOK
<1>5. ASSUME NEW m \in Modules, NEW n \in Names, IndexFunction(m, n)
      PROVE  TypeOK'
  <2>1. [sym |-> Symbol(n), type |-> functions[n]] \in [sym : Code, type : FunctionTypes]
    BY <1>5, FoundNature DEF IndexFunction, Looks
  <2>2. PICK fn \in [sym : Code, type : FunctionTypes] : cache' = [cache EXCEPT ![m][n] = fn]
    BY <1>5, <2>1 DEF IndexFunction
  <2>3. \A x \in Modules, y \in Names :
          cache'[x][y] \in {None} \cup [sym : Code, type : FunctionTypes]
    BY <1>2, <2>2
  <2> QED BY <1>1, <1>2, <1>5, <2>3 DEF TypeOK, IndexFunction
<1>6. ASSUME NEW m \in Modules, NEW n \in Names, NEW v \in Values, NewIndex(m, n, v)
      PROVE  TypeOK'
  <2>1. memory' \in [Modules -> [Data -> Values]]
    <3>1. CASE Found(m, n) /\ Assignable(functions[n])
      <4>1. PICK s \in Data : s = Symbol(n)
        BY <3>1, FoundNature DEF Assignable
      <4>2. memory' = [memory EXCEPT ![m][s] = v]
        BY <1>6, <3>1, <4>1 DEF NewIndex
      <4> QED BY <1>2, <4>2
    <3>2. CASE ~(Found(m, n) /\ Assignable(functions[n]))
      BY <1>2, <1>6, <3>2 DEF NewIndex
    <3> QED BY <3>1, <3>2
  <2> QED BY <1>1, <1>2, <1>6, <2>1 DEF TypeOK, NewIndex
<1> QED BY <1>3, <1>4, <1>5, <1>6 DEF Next, vars, Declare, DeclareBoth, IndexCached,
      IndexConstant, IndexVariable, IndexError

-----------------------------------------------------------------------------
(* What a lookup gives *)

\* A cached function is one of the declarations of its name.
CachedAs(m, n) ==
    cache[m][n] # None /\ Uniform(n) =>
        \E i \in 1..Len(said[n]) :
            cache[m][n] = [sym |-> said[n][i].sym, type |-> said[n][i].type]

\* One that was cached before stays so, declarations being only added.
LEMMA CacheStays ==
    ASSUME IInv, [Next]_vars, NEW m \in Modules, NEW n \in Names,
           cache'[m][n] = cache[m][n]
    PROVE  CachedAs(m, n)'
<1>1. /\ Uniform(n)' => Uniform(n)
      /\ \A i \in 1..Len(said[n]) : i \in 1..Len(said'[n]) /\ said'[n][i] = said[n][i]
  BY DeclStep, UniformBefore DEF IInv
<1>2. CachedAs(m, n)
  BY DEF IInv, CacheDeclared, CachedAs
<1> QED BY <1>1, <1>2 DEF CachedAs

LEMMA CacheStep ==
    ASSUME IInv, [Next]_vars
    PROVE  CacheDeclared'
<1> SUFFICES ASSUME NEW m \in Modules, NEW n \in Names
             PROVE  CachedAs(m, n)'
  BY DEF CacheDeclared, CachedAs
<1>1. CASE cache'[m][n] = cache[m][n]
  BY <1>1, CacheStays
<1>2. ASSUME NEW x \in Modules, NEW y \in Names, IndexFunction(x, y)
      PROVE  CachedAs(m, n)'
  <2>1. PICK fn : fn = [sym |-> Symbol(y), type |-> functions[y]]
    OBVIOUS
  <2>2. cache' = [cache EXCEPT ![x][y] = fn] /\ UNCHANGED <<said, asmname>>
    BY <1>2, <2>1 DEF IndexFunction
  <2>3. CASE m = x /\ n = y
    <3>1. cache'[m][n] = fn \/ cache'[m][n] = cache[m][n]
      BY <2>2, <2>3
    <3>2. ASSUME cache'[m][n] = fn PROVE CachedAs(m, n)'
      <4>1. Uniform(n)' => Uniform(n)
        BY <2>2 DEF Uniform
      <4>2. functions[n] # None
        BY <1>2, <2>3 DEF IndexFunction, Looks, Found
      <4> QED BY <2>1, <2>2, <2>3, <3>2, <4>1, <4>2, LatestFound DEF CachedAs
    <3> QED BY <3>1, <3>2, CacheStays
  <2>4. CASE ~(m = x /\ n = y)
    <3>1. cache'[m][n] = cache[m][n]
      BY <2>2, <2>4
    <3> QED BY <3>1, CacheStays
  <2> QED BY <2>3, <2>4
<1>3. CASE UNCHANGED cache
  BY <1>1, <1>3
<1> QED BY <1>2, <1>3 DEF Next, vars, Declare, DeclareBoth, DefineConstant, IndexCached,
      IndexConstant, IndexVariable, IndexError, NewIndex

\* The function a cache gives was declared; what is looked up afresh is the
\* latest declaration.
LEMMA ResultStep ==
    ASSUME IInv, [Next]_vars
    PROVE  AsDeclared'
<1>1. CASE UNCHANGED vars
  BY <1>1 DEF IInv, AsDeclared, vars, Uniform
<1>2. CASE result' = Nothing \/ result' = Error
  BY <1>2 DEF AsDeclared, Nothing, Error
<1>3. ASSUME NEW m \in Modules, NEW n \in Names, IndexCached(m, n)
      PROVE  AsDeclared'
  <2>1. /\ result'.kind = "function" /\ result'.name = n /\ result'.is = cache[m][n]
        /\ cache[m][n] # None /\ UNCHANGED <<said, asmname>>
    BY <1>3 DEF IndexCached
  <2>2. Uniform(n)' <=> Uniform(n)
    BY <2>1 DEF Uniform
  <2>3. CachedAs(m, n)
    BY DEF IInv, CacheDeclared, CachedAs
  <2> QED BY <2>1, <2>2, <2>3 DEF AsDeclared, CachedAs, Uniform
<1>4. ASSUME NEW m \in Modules, NEW n \in Names, IndexConstant(m, n)
      PROVE  AsDeclared'
  BY <1>4 DEF IndexConstant, AsDeclared
<1>5. ASSUME NEW m \in Modules, NEW n \in Names, IndexFunction(m, n) \/ IndexVariable(m, n)
      PROVE  AsDeclared'
  <2>1. /\ result'.name = n /\ result'.is = [sym |-> Symbol(n), type |-> functions[n]]
        /\ functions[n] # None /\ UNCHANGED <<said, asmname>>
    BY <1>5 DEF IndexFunction, IndexVariable, Looks, Found
  <2>2. Uniform(n)' <=> Uniform(n)
    BY <2>1 DEF Uniform
  <2> QED BY <2>1, <2>2, LatestFound DEF AsDeclared, Uniform
<1>6. ASSUME NEW m \in Modules, NEW n \in Names, NEW v \in Values, NewIndex(m, n, v)
      PROVE  AsDeclared'
  BY <1>6 DEF NewIndex, AsDeclared, Error
<1> QED BY <1>1, <1>2, <1>3, <1>4, <1>5, <1>6 DEF Next, Declare, DeclareBoth,
      DefineConstant, IndexError

-----------------------------------------------------------------------------
(* The theorems *)

\* Every reachable state satisfies the inductive invariant: the functions and
\* asmname tables agree with the history of ffi.cdef (parse_root).
THEOREM Invariance == Spec => []IInv
<1>1. Init => IInv
  <2> SUFFICES ASSUME Init PROVE IInv
    OBVIOUS
  <2>1. TypeOK
    BY DEF Init, TypeOK
  <2>2. DeclarationsOK /\ TablesCurrent
    BY DEF Init, DeclarationsOK, TablesCurrent
  <2>3. CacheDeclared /\ AsDeclared
    BY DEF Init, CacheDeclared, AsDeclared, Nothing
  <2> QED BY <2>1, <2>2, <2>3 DEF IInv
<1>2. IInv /\ [Next]_vars => IInv'
  <2> SUFFICES ASSUME IInv, [Next]_vars PROVE IInv'
    OBVIOUS
  <2>1. DeclarationsOK' /\ TablesCurrent'
    BY DeclStep, KeepsDeclarations, KeepsTables DEF IInv
  <2> QED BY <2>1, TypeStep, CacheStep, ResultStep DEF IInv
<1> QED BY <1>1, <1>2, PTL DEF Spec

\* The tables, the caches and the variables of the libraries keep their types:
\* no variable is cached as a function, no function is written as a variable.
THEOREM TypeCorrect == Spec => []TypeOK
BY Invariance, PTL DEF IInv

\* cmodule_index gives a symbol with a type it was declared with, whatever was
\* declared since the module cached the function.
THEOREM LooksUpAsDeclared == Spec => []AsDeclared
BY Invariance, PTL DEF IInv

\* cmodule_newindex changes only variables that some declaration calls
\* assignable: a const, an array and a function stay as they are.
THEOREM OnlyAssignables == Spec => ConstKept
<1>1. ASSUME IInv, [Next]_vars, NEW m \in Modules, NEW s \in Data,
             result'.kind = "assigned", memory'[m][s] # memory[m][s],
             \A n \in Names : Uniform(n)
      PROVE  \E n \in Names : \E i \in 1..Len(said[n]) :
                 said[n][i].sym = s /\ said[n][i].type = "int"
  <2>1. PICK x \in Modules, n \in Names, v \in Values : NewIndex(x, n, v)
    BY <1>1 DEF Next, vars, Declare, DeclareBoth, DefineConstant, IndexCached, IndexConstant,
      IndexFunction, IndexVariable, IndexError
  <2>2. Found(x, n) /\ Assignable(functions[n]) /\ memory' = [memory EXCEPT ![x][Symbol(n)] = v]
    BY <1>1, <2>1 DEF NewIndex
  <2>3. s = Symbol(n)
    <3>1. memory \in [Modules -> [Data -> Values]]
      BY <1>1 DEF IInv, TypeOK
    <3> QED BY <1>1, <2>2, <3>1
  <2>4. functions[n] = "int"
    BY <1>1, <2>2, FoundNature DEF Assignable, Types, FunctionTypes, VariableTypes
  <2> QED BY <1>1, <2>2, <2>3, <2>4, LatestFound DEF Found
<1>2. IInv /\ [Next]_vars =>
        [\A m \in Modules, s \in Data :
            (result'.kind = "assigned" /\ memory'[m][s] # memory[m][s]
                                        /\ \A n \in Names : Uniform(n))
                => \E n \in Names : \E i \in 1..Len(said[n]) :
                        said[n][i].sym = s /\ said[n][i].type = "int"]_vars
  BY <1>1
<1> QED BY <1>2, Invariance, PTL DEF Spec, ConstKept
=============================================================================
