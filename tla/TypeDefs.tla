------------------------------ MODULE TypeDefs ------------------------------
(***************************************************************************)
(* Records (struct, union, enum) used before they are defined (parser.c    *)
(* parse_record, ctype.c set_defined).  A ctype is a value: every ctype    *)
(* and cdata userdata holds a copy, and so does every parser, on the C     *)
(* stack, of the base type of the declaration it is in.  The userdata made *)
(* from an undefined record are kept in a weak table of the record, and    *)
(* set_defined writes the definition into each of them; the copies on the  *)
(* C stack are not in the table.                                           *)
(*                                                                         *)
(* A parser is in one declaration at a time, but declarations nest: in the *)
(* body of a record, in the arguments of a function, and in the finalizers *)
(* that run whenever the parser allocates.  A nested one may define         *)
(* the record that an outer one is about and holds a copy of (crossed):    *)
(*   struct foo { struct foo { int a; } b; };                              *)
(*   typedef struct foo *fn(struct foo { int a; } x), *foop;               *)
(*   ffi.cdef in the __gc of some object, at any point of a declaration    *)
(* Names of records are never undeclared, so the userdata in the types     *)
(* table go by the name of the record.                                     *)
(***************************************************************************)
EXTENDS Integers, Sequences, FiniteSets

CONSTANTS
  Names,      \* the names of records
  Objs,       \* addresses of other ctypes and cdata made from the records
  Shapes,     \* what a body can come to: [size, align, inc, bf]
  PtrAlign,   \* align_mask of a pointer
  ArrayLen,   \* the length of the arrays that are declared
  MaxDepth,   \* bound: declarations under way at once
  MaxBodies   \* bound: bodies that come to their end, for one name

ASSUME TypeDefsAssumption ==
  /\ Names \cap Objs = {} /\ "none" \notin Names
  /\ Shapes \subseteq [size : Nat \ {0}, align : Nat, inc : Nat, bf : BOOLEAN]
  /\ PtrAlign \in Nat /\ ArrayLen \in Nat
  /\ MaxDepth \in Nat /\ MaxBodies \in Nat

VARIABLES
  obj,      \* per userdata: what it holds, with the record it is about
  todo,     \* per record: the userdata in usr[to_define_key]
  bodies,   \* per record: how many bodies put members into its usr table
  crossed,  \* records that got a body inside a declaration about them
  defs,     \* per record: what set_defined was given, first to last
  frames    \* the declarations under way, outermost first

vars == <<obj, todo, bodies, crossed, defs, frames>>

\* How a type is derived from a record: the record, a pointer, or an array of
\* pointers (of an undefined record there are no arrays).
Derivations == {"plain", "ptr", "ptrarr"}

\* A ctype.  len is the union of array_size and variable_increment, var is
\* is_variable_struct, bf is has_bitfield.
Ctypes == [d : Derivations, size : Nat, align : Nat, def : BOOLEAN,
           len : Nat, var : BOOLEAN, bf : BOOLEAN]

Undefined == [d |-> "plain", size |-> 0, align |-> 0, def |-> FALSE,
              len |-> 0, var |-> FALSE, bf |-> FALSE]

NoObj == [name |-> "none", ct |-> Undefined]

Userdata == Names \cup Objs
Live     == {o \in Userdata : obj[o] # NoObj}
Of(n)    == {o \in Live : obj[o].name = n}
Top      == frames[Len(frames)]

\* Modes of a declaration: its declarators follow, or the parser is in the
\* body of the record, or in the arguments of a function.
Modes == {"decl", "body", "args"}

InFrame(m) == frames # <<>> /\ Top.mode = m

SetTop(f) == [frames EXCEPT ![Len(frames)] = f]

-----------------------------------------------------------------------------
(* Making userdata. *)

\* Mutant: a type made from a declaration is not put on the list.
PushUntracked(o, n, ct) ==
  /\ obj' = [obj EXCEPT ![o] = [name |-> n, ct |-> ct]]
  /\ UNCHANGED todo

\* Mutant: the list is a table with strong keys, and never shrinks.
PushAlways(o, n, ct) ==
  /\ obj' = [obj EXCEPT ![o] = [name |-> n, ct |-> ct]]
  /\ todo' = [todo EXCEPT ![n] = @ \cup {o}]

\* push_ctype and push_cdata, with the usr table of record n.
Push(o, n, ct) ==
  /\ obj' = [obj EXCEPT ![o] = [name |-> n, ct |-> ct]]
  /\ todo' = [todo EXCEPT ![n] = IF ct.def THEN @ ELSE @ \cup {o}]

\* parse_argument2 on one declarator: none, *, or *[ArrayLen].
Derive(ct, d) ==
  IF d = ct.d THEN ct
  ELSE [ct EXCEPT !.d = d,
                  !.align = IF PtrAlign > @ THEN PtrAlign ELSE @,
                  !.len = IF d = "ptrarr" THEN ArrayLen ELSE @]

\* parse_argument2 refuses arrays of a variable struct, and (by the same test)
\* arrays of pointers to one; the model lets nothing follow an array.
CanDerive(ct, d) ==
  \/ d = ct.d
  \/ d = "ptr" /\ ct.d = "plain"
  \/ d = "ptrarr" /\ ct.d # "ptrarr" /\ ~ct.var

-----------------------------------------------------------------------------
(* Declarations. *)

\* A declaration begins in a call of cdef, typeof, new, ... (fresh), by the
\* program or by a finalizer, or in a body or an argument list.
MayBegin(fresh) ==
  /\ Len(frames) < MaxDepth
  /\ fresh \/ InFrame("body") \/ InFrame("args")

Frame(n, ct, record, fresh) ==
  [name |-> n, ct |-> ct, mode |-> "decl", record |-> record, fresh |-> fresh]

\* parse_record: a name that was never seen.
DeclareRecord(n, fresh) ==
  /\ MayBegin(fresh)
  /\ obj[n] = NoObj
  /\ Push(n, n, Undefined)
  /\ frames' = Append(frames, Frame(n, Undefined, TRUE, fresh))
  /\ UNCHANGED <<bodies, crossed, defs>>

\* parse_record on a known name, and parse_type and check_ctype on a typedef
\* or a ctype or cdata given as argument: the copy is taken here.
ReadBase(o, fresh) ==
  /\ MayBegin(fresh)
  /\ o \in Live
  /\ frames' = Append(frames, Frame(obj[o].name, obj[o].ct, o \in Names, fresh))
  /\ UNCHANGED <<obj, todo, bodies, crossed, defs>>

\* A declarator: a typedef, a member, a function or a variable, or a cdata.
Declare(o, d) ==
  /\ InFrame("decl")
  /\ o \in Objs /\ o \notin Live
  /\ CanDerive(Top.ct, d)
  /\ Push(o, Top.name, Derive(Top.ct, d))
  /\ UNCHANGED <<bodies, crossed, defs, frames>>

EndDecl ==
  /\ InFrame("decl")
  /\ frames' = SubSeq(frames, 1, Len(frames) - 1)
  /\ UNCHANGED <<obj, todo, bodies, crossed, defs>>

\* Some outer declaration is about the same record, and holds a copy of it.
OuterOf(n) == {i \in 1..(Len(frames) - 1) : frames[i].name = n}

EnterBody ==
  /\ InFrame("decl")
  /\ Top.record
  /\ bodies[Top.name] < MaxBodies
  /\ frames' = SetTop([Top EXCEPT !.mode = "body"])
  /\ crossed' = IF OuterOf(Top.name) = {} THEN crossed ELSE crossed \cup {Top.name}
  /\ UNCHANGED <<obj, todo, bodies, defs>>

\* parse_record at the brace; else "redefinition in line %d".
OpenBody ==
  /\ InFrame("decl")
  /\ ~Top.ct.def
  /\ EnterBody

\* calculate_struct_offsets and parse_enum.
Laid(ct, s) ==
  [ct EXCEPT !.size = s.size, !.align = s.align, !.def = TRUE, !.bf = s.bf,
             !.var = s.inc > 0, !.len = s.inc]

\* Mutant of what set_defined writes: the size is left out.
UpdatedUnsized(ct, new) ==
  [ct EXCEPT !.align = new.align, !.def = TRUE, !.var = new.var,
             !.len = new.len]
\* set_defined, on one userdata of the list.
Updated(ct, new) ==
  [ct EXCEPT !.size = new.size, !.align = new.align, !.def = TRUE,
             !.var = new.var, !.len = new.len]

\* set_defined: every userdata on the list gets the definition, and the list
\* is dropped.
SetDefined(n, new) ==
  /\ obj' = [o \in Userdata |->
               IF o \in todo[n] THEN [obj[o] EXCEPT !.ct = Updated(@, new)]
                                ELSE obj[o]]
  /\ todo' = [todo EXCEPT ![n] = {}]

\* parse_record at the closing brace.
CloseBody(s) ==
  /\ InFrame("body")
  /\ SetDefined(Top.name, Laid(Top.ct, s))
  /\ bodies' = [bodies EXCEPT ![Top.name] = @ + 1]
  /\ defs' = [defs EXCEPT ![Top.name] = Append(@, Laid(Top.ct, s))]
  /\ frames' = SetTop([Top EXCEPT !.mode = "decl", !.ct = Laid(@, s)])
  /\ UNCHANGED crossed

\* parse_function: the return type is pushed, then the arguments are parsed.
OpenArgs(o, d) ==
  /\ InFrame("decl")
  /\ o \in Objs /\ o \notin Live
  /\ CanDerive(Top.ct, d)
  /\ Push(o, Top.name, Derive(Top.ct, d))
  /\ frames' = SetTop([Top EXCEPT !.mode = "args"])
  /\ UNCHANGED <<bodies, crossed, defs>>

\* The declaration goes on with the base type it read: parse_struct and
\* parse_typedef keep it for the next declarator.
CloseArgs ==
  /\ InFrame("args")
  /\ frames' = SetTop([Top EXCEPT !.mode = "decl"])
  /\ UNCHANGED <<obj, todo, bodies, crossed, defs>>

\* luaL_error, up to the pcall around some call of cdef, typeof, ...
Unwind(i) ==
  /\ i \in 1..Len(frames) /\ frames[i].fresh
  /\ frames' = SubSeq(frames, 1, i - 1)

Error(i) ==
  /\ Unwind(i)
  /\ UNCHANGED <<obj, todo, bodies, crossed, defs>>

\* calculate_struct_offsets writes the members into the usr table one by one,
\* and a later one is refused.
LayoutError(i) ==
  /\ InFrame("body")
  /\ Unwind(i)
  /\ bodies' = [bodies EXCEPT ![Top.name] = @ + 1]
  /\ UNCHANGED <<obj, todo, crossed, defs>>

\* The collector: a type no one refers to, and its key in the weak table.
Collect(o) ==
  /\ o \in Objs \cap Live
  /\ obj' = [obj EXCEPT ![o] = NoObj]
  /\ todo' = [n \in Names |-> todo[n] \ {o}]
  /\ UNCHANGED <<bodies, crossed, defs, frames>>

-----------------------------------------------------------------------------
Init ==
  /\ obj = [o \in Userdata |-> NoObj]
  /\ todo = [n \in Names |-> {}]
  /\ bodies = [n \in Names |-> 0]
  /\ crossed = {}
  /\ defs = [n \in Names |-> <<>>]
  /\ frames = <<>>

Next ==
  \/ \E n \in Names, fresh \in BOOLEAN : DeclareRecord(n, fresh)
  \/ \E o \in Userdata, fresh \in BOOLEAN : ReadBase(o, fresh)
  \/ \E o \in Objs, d \in Derivations : Declare(o, d) \/ OpenArgs(o, d)
  \/ EndDecl
  \/ OpenBody
  \/ \E s \in Shapes : CloseBody(s)
  \/ CloseArgs
  \/ \E i \in 1..Len(frames) : Error(i) \/ LayoutError(i)
  \/ \E o \in Objs : Collect(o)

Spec == Init /\ [][Next]_vars

-----------------------------------------------------------------------------
(* Properties. *)

\* The types of the variables.
TypeOK ==
  /\ obj \in [Userdata -> [name : Names \cup {"none"}, ct : Ctypes]]
  /\ \A n \in Names : obj[n].name \in {n, "none"}
  /\ todo \in [Names -> SUBSET Live]
  /\ bodies \in [Names -> Nat]
  /\ crossed \subseteq Names
  /\ defs \in [Names -> Seq(Ctypes)]
  /\ frames \in Seq([name : Names, ct : Ctypes, mode : Modes,
                     record : BOOLEAN, fresh : BOOLEAN])
  /\ Len(frames) <= MaxDepth

\* Once a record is defined, every ctype and cdata made from it is: none made
\* from the declaration alone stays an incomplete type for ever, unless the
\* definition came in the middle of the declaration.
NoneLeftBehind ==
  \A n \in Names \ crossed : defs[n] # <<>> => \A o \in Of(n) : obj[o].ct.def

\* Whether a type was made before or after the definition of its record makes
\* no difference to what pointer arithmetic, ffi.new and ffi.sizeof use of the
\* record: its size, alignment, and whether and how its size varies.
EarlyEqualsLate ==
  \A n \in Names \ crossed : \A o \in Of(n) :
    LET ct == obj[o].ct
        definition == Head(defs[n])
    IN  ct.def =>
          /\ ct.size = definition.size
          /\ ct.var = definition.var
          /\ ct.d = "plain" => /\ ct.align = definition.align
                              /\ ct.len = definition.len

\* A complete type never changes: no step gives a userdata that has a
\* definition another one, or takes it away, while the userdata lives.
DefinitionStable ==
  [][\A o \in Userdata :
       obj[o].ct.def => obj'[o] \in {obj[o], NoObj}]_vars

-----------------------------------------------------------------------------
(* The inductive invariant. *)

\* The list of a record has exactly the incomplete userdata made from it.
Listed == \A n \in Names : todo[n] = {o \in Of(n) : ~obj[o].ct.def}

\* What there is is about records that were declared.
Declared ==
  /\ \A n \in Names : defs[n] # <<>> => n \in Live
  /\ \A o \in Live : obj[o].name \in Names \cap Live
  /\ \A i \in 1..Len(frames) : frames[i].name \in Live

\* A body is parsed for a record its declaration found incomplete, and inside
\* another declaration about the record only if that makes it crossed.
BodyOpen ==
  \A k \in 1..Len(frames) : frames[k].mode = "body" =>
    /\ ~frames[k].ct.def
    /\ \A i \in 1..(k - 1) : frames[i].name = frames[k].name => frames[k].name \in crossed

\* A copy of the definition of its record.
Agrees(ct, definition) ==
  /\ ct.size = definition.size
  /\ ct.var = definition.var
  /\ ct.d = "plain" => ct.align = definition.align /\ ct.len = definition.len

\* All copies of a record are incomplete until it is defined, and complete,
\* with that definition, from then on.
CopyOK(ct, ds) ==
  /\ ct.def <=> ds # <<>>
  /\ ct.def => Agrees(ct, Head(ds))

CopiesCurrent ==
  /\ \A o \in Live : obj[o].name \notin crossed => CopyOK(obj[o].ct, defs[obj[o].name])
  /\ \A i \in 1..Len(frames) :
       frames[i].name \notin crossed => CopyOK(frames[i].ct, defs[frames[i].name])

IInv == TypeOK /\ Listed /\ Declared /\ BodyOpen /\ CopiesCurrent
=============================================================================
