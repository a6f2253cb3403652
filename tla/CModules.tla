------------------------------- MODULE CModules -------------------------------
(***************************************************************************)
(* C modules (ffi.C and what ffi.load returns): ffi.cdef enters names into *)
(* the functions, asmname and constants tables (parse_root), indexing a    *)
(* module finds the symbol of a name and gives a function, a value or a    *)
(* reference, and assigning to a module writes a variable of the library   *)
(* (cmodule_index, cmodule_newindex, lookup_global, find_symbol).          *)
(*                                                                         *)
(* The three tables are shared by all modules.  Only compiled functions    *)
(* are cached, in the module's user value, under the name in Lua.          *)
(***************************************************************************)
EXTENDS Naturals, Sequences, SequencesExt

CONSTANTS
    Modules,     \* the modules a program has
    Code,        \* symbols of functions
    Data,        \* symbols of variables
    Names,       \* names declared by the program; each is also a symbol
    Exports(_),  \* the symbols a module's library has
    Values,      \* values of variables and constants
    None,        \* nil
    MaxDecls     \* bound: declarations made in all

Symbols == Code \cup Data

FunctionTypes == {"int()", "double()"}
VariableTypes == {"int", "const int", "int[]"}
Types == FunctionTypes \cup VariableTypes

ASSUME CModulesAssumption ==
    /\ Code \cap Data = {} /\ Names \subseteq Symbols
    /\ \A m \in Modules : Exports(m) \subseteq Symbols
    /\ None \notin Symbols /\ None \notin Values /\ None \notin Types
    /\ MaxDecls \in Nat

VARIABLES
    functions,  \* the functions table: name -> type, functions and variables alike
    asmname,    \* the asmname table: name -> symbol
    constants,  \* the constants table: name -> value
    cache,      \* per module: name -> the function compiled, a [sym, type]
    memory,     \* per module: the variables of its library
    result,     \* what the last step gave the program
    said        \* history: per name, the declarations made, [type, sym, asm]

vars == <<functions, asmname, constants, cache, memory, result, said>>

Nothing == [kind |-> "nothing"]
Error == [kind |-> "error"]

\* The declarations are those of the library's header: they give a function
\* or a variable the symbol of one.
SameNature(a, b) == a \in Code <=> b \in Code
TypesOf(n) == IF n \in Code THEN FunctionTypes ELSE VariableTypes
Declaration(n, t, a) ==
    [type |-> t, sym |-> IF a = None THEN n ELSE a, asm |-> a # None]

-----------------------------------------------------------------------------
(* ffi.cdef *)

Declared ==
    FoldSet(LAMBDA n, k : k + Len(said[n]) + (IF constants[n] = None THEN 0 ELSE 1),
            0, Names)

\* The asm name is stored when there is one, and stays when there is none.
Stored(n, a) == IF a = None THEN asmname[n] ELSE a

\* Mutant of Declare: a name that is known keeps its type.
DeclareFirst(n, t, a) ==
    /\ Declared < MaxDecls
    /\ asmname' = [asmname EXCEPT ![n] = Stored(n, a)]
    /\ functions' = [functions EXCEPT ![n] = IF @ = None THEN t ELSE @]
    /\ said' = [said EXCEPT ![n] = Append(@, Declaration(n, t, a))]
    /\ result' = Nothing
    /\ UNCHANGED <<constants, cache, memory>>

\* type name __asm__("a");
Declare(n, t, a) ==
    /\ Declared < MaxDecls
    /\ asmname' = [asmname EXCEPT ![n] = Stored(n, a)]
    /\ functions' = [functions EXCEPT ![n] = t]
    /\ said' = [said EXCEPT ![n] = Append(@, Declaration(n, t, a))]
    /\ result' = Nothing
    /\ UNCHANGED <<constants, cache, memory>>

\* type name __asm__("a"), last; : one asmname serves all the declarators.
DeclareBoth(n, last, t, a) ==
    /\ n # last /\ SameNature(n, last) /\ t \in {"int", "const int"}
    /\ Declared < MaxDecls - 1
    /\ asmname' = [asmname EXCEPT ![n] = Stored(n, a), ![last] = Stored(last, a)]
    /\ functions' = [functions EXCEPT ![n] = t, ![last] = t]
    /\ said' = [said EXCEPT ![n] = Append(@, Declaration(n, t, a)),
                            ![last] = Append(@, Declaration(last, t, None))]
    /\ result' = Nothing
    /\ UNCHANGED <<constants, cache, memory>>

\* static const int name = v; or the name of an enum's constant.
DefineConstant(n, v) ==
    /\ constants[n] # v /\ Declared < MaxDecls
    /\ constants' = [constants EXCEPT ![n] = v]
    /\ result' = Nothing
    /\ UNCHANGED <<functions, asmname, cache, memory, said>>

-----------------------------------------------------------------------------
(* Lookups *)

\* lookup_global: a name that is declared, and exported by the library.
Symbol(n) == IF asmname[n] # None THEN asmname[n] ELSE n
Found(m, n) == functions[n] # None /\ Symbol(n) \in Exports(m)

\* A function found before is found again whatever was declared since.
IndexCached(m, n) ==
    /\ cache[m][n] # None
    /\ result' = [kind |-> "function", mod |-> m, name |-> n, is |-> cache[m][n]]
    /\ UNCHANGED <<functions, asmname, constants, cache, memory, said>>

IndexConstant(m, n) ==
    /\ cache[m][n] = None /\ constants[n] # None
    /\ result' = [kind |-> "constant", name |-> n, is |-> constants[n]]
    /\ UNCHANGED <<functions, asmname, constants, cache, memory, said>>

Looks(m, n) == cache[m][n] = None /\ constants[n] = None /\ Found(m, n)

\* The function is compiled for its symbol and its type, and cached.
IndexFunction(m, n) ==
    /\ Looks(m, n) /\ functions[n] \in FunctionTypes
    /\ LET fn == [sym |-> Symbol(n), type |-> functions[n]]
       IN /\ cache' = [cache EXCEPT ![m][n] = fn]
          /\ result' = [kind |-> "function", mod |-> m, name |-> n, is |-> fn]
    /\ UNCHANGED <<functions, asmname, constants, memory, said>>

\* A variable gives its value of the moment or, an array, a reference.
IndexVariable(m, n) ==
    /\ Looks(m, n) /\ functions[n] \in VariableTypes
    /\ result' = [kind |-> "variable", mod |-> m, name |-> n,
                  is |-> [sym |-> Symbol(n), type |-> functions[n]]]
    /\ UNCHANGED <<functions, asmname, constants, cache, memory, said>>

IndexError(m, n) ==
    /\ cache[m][n] = None /\ constants[n] = None /\ ~Found(m, n)
    /\ result' = Error
    /\ UNCHANGED <<functions, asmname, constants, cache, memory, said>>

-----------------------------------------------------------------------------
(* Assignments *)

\* Mutant of Assignable: the const bit is not looked at.
AssignableConst(t) == t \notin FunctionTypes \cup {"int[]"}

\* Functions, arrays and const variables are refused.
Assignable(t) == t \notin FunctionTypes \cup {"int[]", "const int"}

\* cmodule_newindex looks at neither the cache nor the constants.
NewIndex(m, n, v) ==
    /\ IF Found(m, n) /\ Assignable(functions[n])
       THEN /\ memory' = [memory EXCEPT ![m][Symbol(n)] = v]
            /\ result' = [kind |-> "assigned", mod |-> m, name |-> n]
       ELSE result' = Error /\ UNCHANGED memory
    /\ UNCHANGED <<functions, asmname, constants, cache, said>>

-----------------------------------------------------------------------------
Init ==
    /\ functions = [n \in Names |-> None]
    /\ asmname = [n \in Names |-> None]
    /\ constants = [n \in Names |-> None]
    /\ cache = [m \in Modules |-> [n \in Names |-> None]]
    /\ \E v \in Values : memory = [m \in Modules |-> [s \in Data |-> v]]
    /\ result = Nothing
    /\ said = [n \in Names |-> <<>>]

Next ==
    \/ \E n \in Names, a \in Symbols \cup {None} :
        /\ a # None => SameNature(n, a)
        /\ \E t \in TypesOf(n) :
            Declare(n, t, a) \/ \E last \in Names : DeclareBoth(n, last, t, a)
    \/ \E n \in Names, v \in Values : DefineConstant(n, v)
    \/ \E m \in Modules, n \in Names :
        \/ IndexCached(m, n) \/ IndexConstant(m, n) \/ IndexFunction(m, n)
        \/ IndexVariable(m, n) \/ IndexError(m, n)
        \/ \E v \in Values : NewIndex(m, n, v)

Spec == Init /\ [][Next]_vars

-----------------------------------------------------------------------------
(* Properties *)

TypeOK ==
    /\ functions \in [Names -> Types \cup {None}]
    /\ asmname \in [Names -> Symbols \cup {None}]
    /\ constants \in [Names -> Values \cup {None}]
    /\ \A m \in Modules, n \in Names :
        cache[m][n] \in {None} \cup [sym : Code, type : FunctionTypes]
    /\ memory \in [Modules -> [Data -> Values]]

\* A program keeps the asm names of a name when it gives it one or none in all
\* of its declarations; a declarator after one with an asm name has none.
Uniform(n) ==
    /\ \A i, j \in 1..Len(said[n]) : said[n][i].asm = said[n][j].asm
    /\ Len(said[n]) > 0 /\ ~said[n][1].asm => asmname[n] = None

\* What a lookup gives has the type and the symbol of one declaration of the
\* name, never the type of one and the symbol of another: for a function one
\* made before the module first gave it, for a variable the latest.
AsDeclared ==
    result.kind \in {"function", "variable"} /\ Uniform(result.name) =>
        LET ds == said[result.name] IN
        \E i \in 1..Len(ds) :
            /\ result.is = [sym |-> ds[i].sym, type |-> ds[i].type]
            /\ result.kind = "variable" => i = Len(ds)

\* What an assignment through a module changes is a variable that some
\* declaration calls assignable, by its own symbol.
ConstKept ==
    [][\A m \in Modules, s \in Data :
        (result'.kind = "assigned" /\ memory'[m][s] # memory[m][s]
                                    /\ \A n \in Names : Uniform(n))
            => \E n \in Names : \E i \in 1..Len(said[n]) :
                    said[n][i].sym = s /\ said[n][i].type = "int"]_vars

-----------------------------------------------------------------------------
(* The inductive invariant: the tables agree with what was declared. *)

Declarations == [type : Types, sym : Symbols, asm : BOOLEAN]

\* A name without an asm name is its own symbol, and the tables keep functions
\* and variables apart.
DeclarationsOK ==
    /\ said \in [Names -> Seq(Declarations)]
    /\ \A n \in Names :
        /\ \A i \in 1..Len(said[n]) : ~said[n][i].asm => said[n][i].sym = n
        /\ functions[n] # None => functions[n] \in TypesOf(n)
        /\ asmname[n] # None => SameNature(n, asmname[n])

\* The type is that of the latest declaration; so is the asm name, when the
\* declaration gives one; an asm name once given stays.
TablesCurrent ==
    \A n \in Names : LET ds == said[n] IN
        /\ functions[n] # None <=> ds # <<>>
        /\ ds # <<>> =>
            /\ functions[n] = ds[Len(ds)].type
            /\ ds[Len(ds)].asm => asmname[n] = ds[Len(ds)].sym
        /\ \A i \in 1..Len(ds) : ds[i].asm => asmname[n] # None

\* A cached function is one the name was declared to be.
CacheDeclared ==
    \A m \in Modules, n \in Names :
        cache[m][n] # None /\ Uniform(n) =>
            \E i \in 1..Len(said[n]) :
                cache[m][n] = [sym |-> said[n][i].sym, type |-> said[n][i].type]

IInv == TypeOK /\ DeclarationsOK /\ TablesCurrent /\ CacheDeclared /\ AsDeclared
=============================================================================
