------------------------------ MODULE Finalizers ------------------------------
(***************************************************************************)
(* Finalizers of cdata: the gc table (ffi_gc, do_new with a metatype),     *)
(* cdata_gc and callback_free under Lua's collector and lua_close.         *)
(*                                                                         *)
(* Userdata of two kinds have a __gc here: cdata, and the owners of        *)
(* compiled code (one per closure of a C function, its upvalue).  What the *)
(* collector does is external, from the manuals of Lua 5.1 and 5.2, the    *)
(* two versions the code supports: all unreachable userdata of a cycle     *)
(* are finalized, each once, the newest first; entries under a weak key    *)
(* stay until the key is gone for good; only 5.2 has ephemeron tables; no  *)
(* collection starts inside a finalizer; lua_close finalizes all the rest. *)
(*                                                                         *)
(* Assumed of the Lua program: a finalizer makes no new cdata while        *)
(* lua_close runs, and stores no C function it captured.                   *)
(***************************************************************************)
EXTENDS Naturals, SequencesExt

CONSTANTS
    Cdata,     \* cdata that may be created
    Closures,  \* compiled C functions; each one's code has an owner userdata
    Pointers,  \* the cdata that are function pointers
    Plain,     \* a Lua function as finalizer that captures no userdata
    None,      \* nil
    Versions   \* of Lua: subset of {"5.1", "5.2"}

ASSUME FinalizerAssumption ==
    /\ Cdata \cap Closures = {} /\ Pointers \subseteq Cdata
    /\ {Plain, None} \cap (Cdata \cup Closures) = {} /\ Plain # None
    /\ Versions \subseteq {"5.1", "5.2"}

Objects == Cdata \cup Closures

\* What the gc table may hold: nil, a Lua function that captures nothing or
\* the cdata named, or a C function (or a Lua function that just calls it).
Finalizer == {None, Plain} \cup Objects

VARIABLES
    lua,        \* version of Lua
    phase,      \* "open", or "closed" from lua_close on
    made,       \* sequence of the userdata created, oldest first
    pending,    \* those whose __gc Lua has still to call
    queue,      \* those found dead whose __gc is called next: a set per cycle
    running,    \* <<>>, or <<c, f>> while the Lua finalizer f runs for c
    held,       \* objects that variables and tables of the program hold
    cache,      \* closures in the user value of a module that is held
    gc,         \* the gc table: cdata -> finalizer, weak keys
    callbacks,  \* the callbacks table: function pointer cdata -> closure
    code,       \* closure -> "none", "live" or "freed"
    promised,   \* history: the finalizer last registered that is still to be called
    dead        \* history: <<c, f>>: freed code of f was called to finalize c

vars == <<lua, phase, made, pending, queue, running, held, cache, gc,
          callbacks, code, promised, dead>>

-----------------------------------------------------------------------------
(* Reachability *)

\* Mutant of Pins: the callbacks table is weak as well.
PinsNothing == {}

\* The callbacks table is a strong table: keys and values are pinned.
Pins == {c \in Cdata : callbacks[c] # None} \cup ({callbacks[c] : c \in Cdata} \ {None})

\* Mutant of Value: the gc table has weak values as well, __mode "kv".
NoValue(c) == {}

\* The gc table has __mode "k": it holds its values, not its keys.
Value(c) == {gc[c]} \cap Objects
TableHolds == UNION {Value(c) : c \in Cdata}

\* Mutant of Roots: the gc table gets no metatable.
RootsAndKeys == held \cup cache \cup Pins \cup {c \in Cdata : gc[c] # None}

Roots == held \cup cache \cup Pins

\* All that is reachable from R when a key of the gc table holds its value:
\* not the sets of cdata outside R that nothing outside of them leads to.
CutOff(R) == {U \in SUBSET (Cdata \ R) : \A c \in Cdata \ U : Value(c) \cap U = {}}
Reach(R) == R \cup UNION {Value(c) : c \in Cdata \ UNION CutOff(R)}

\* What the collector finds alive: 5.1 marks the values of a table with weak
\* keys whatever becomes of the keys.
Marked(R) == Reach(R \cup IF lua = "5.1" THEN TableHolds ELSE {})

Made == ToSet(made)
Queued == UNION ToSet(queue)
Finalized(o) == o \in Made /\ o \notin pending /\ o \notin Queued
Older(a, b) == \E i, j \in 1..Len(made) : i < j /\ made[i] = a /\ made[j] = b

-----------------------------------------------------------------------------
(* The Lua program; it also acts inside a finalizer that is running *)

Create(o) ==
    /\ phase = "open" /\ o \notin Made
    /\ made' = Append(made, o)
    /\ pending' = pending \cup {o}

\* ffi.new: the __gc of a metatype is registered before the initialiser runs;
\* when that raises an error the program never gets the cdata.
New(c) ==
    /\ Create(c)
    /\ \E f \in {None, Plain}, initialised \in BOOLEAN :
        /\ gc' = [gc EXCEPT ![c] = f]
        /\ promised' = [promised EXCEPT ![c] = f]
        /\ held' = IF initialised THEN held \cup {c} ELSE held
    /\ UNCHANGED <<lua, phase, queue, running, cache, callbacks, code, dead>>

\* Indexing a module compiles a function once, and caches the closure.
Index(f) ==
    /\ IF f \in cache
       THEN /\ phase = "open" /\ f \notin held
            /\ UNCHANGED <<made, pending, code, cache>>
       ELSE /\ Create(f)
            /\ code' = [code EXCEPT ![f] = "live"]
            /\ cache' = cache \cup {f}
    /\ held' = held \cup {f}
    /\ UNCHANGED <<lua, phase, queue, running, gc, callbacks, promised, dead>>

\* Calling a cdata function pointer compiles a closure for the callbacks table.
CallPointer(c, f) ==
    /\ c \in held /\ callbacks[c] = None
    /\ Create(f)
    /\ code' = [code EXCEPT ![f] = "live"]
    /\ callbacks' = [callbacks EXCEPT ![c] = f]
    /\ UNCHANGED <<lua, phase, queue, running, held, cache, gc, promised, dead>>

\* Mutant of SetGc: a finalizer that is there is not replaced.
SetGcOnce(c, f) ==
    /\ phase = "open" /\ c \in held
    /\ gc' = IF gc[c] = None THEN [gc EXCEPT ![c] = f] ELSE gc
    /\ promised' = IF Finalized(c) THEN promised ELSE [promised EXCEPT ![c] = f]
    /\ UNCHANGED <<lua, phase, made, pending, queue, running, held, cache, callbacks,
                   code, dead>>

\* ffi.gc(c, f): any value is taken, and replaces the one before.
SetGc(c, f) ==
    /\ phase = "open" /\ c \in held
    /\ gc' = [gc EXCEPT ![c] = f]
    /\ promised' = IF Finalized(c) THEN promised ELSE [promised EXCEPT ![c] = f]
    /\ UNCHANGED <<lua, phase, made, pending, queue, running, held, cache, callbacks,
                   code, dead>>

Drop(o) ==
    /\ phase = "open" /\ o \in held
    /\ held' = held \ {o}
    /\ UNCHANGED <<lua, phase, made, pending, queue, running, cache, gc, callbacks,
                   code, promised, dead>>

\* The program loses the module, as it may when it came from ffi.load.
DropModule ==
    /\ phase = "open" /\ cache # {}
    /\ cache' = {}
    /\ UNCHANGED <<lua, phase, made, pending, queue, running, held, gc, callbacks,
                   code, promised, dead>>

\* A finalizer stores the cdata it was given, and the one it captured.
Resurrect ==
    /\ phase = "open" /\ running # <<>>
    /\ held' = held \cup (ToSet(running) \cap Cdata)
    /\ UNCHANGED <<lua, phase, made, pending, queue, running, cache, gc, callbacks,
                   code, promised, dead>>

-----------------------------------------------------------------------------
(* The collector *)

Enqueued(S) == IF S = {} THEN queue ELSE Append(queue, S)

\* A cycle: dead userdata are queued, entries whose key is gone are removed.
Collect ==
    /\ phase = "open" /\ running = <<>>
    /\ LET white == pending \ Marked(Roots \cup Queued)
           alive == Marked(Roots \cup Queued \cup white)
       IN /\ white # {} \/ \E c \in Cdata \ alive : gc[c] # None
          /\ queue' = Enqueued(white)
          /\ pending' = pending \ white
          /\ gc' = [c \in Cdata |-> IF c \in alive THEN gc[c] ELSE None]
    /\ UNCHANGED <<lua, phase, made, running, held, cache, callbacks, code,
                   promised, dead>>

\* lua_close: the program is over, its finalizers are not.
Close ==
    /\ phase = "open" /\ running = <<>>
    /\ phase' = "closed"
    /\ queue' = Enqueued(pending)
    /\ pending' = {}
    /\ held' = {} /\ cache' = {}
    /\ UNCHANGED <<lua, made, running, gc, callbacks, code,
                   promised, dead>>

\* The newest of those that the earliest cycle found.
Next_(o) ==
    /\ running = <<>> /\ queue # <<>>
    /\ o \in Head(queue) /\ \A p \in Head(queue) \ {o} : Older(p, o)
    /\ queue' = IF Head(queue) = {o} THEN Tail(queue) ELSE [queue EXCEPT ![1] = @ \ {o}]

\* callback_free: the owner of code is finalized.
FreeOwner(f) ==
    /\ Next_(f)
    /\ code' = [code EXCEPT ![f] = "freed"]
    /\ UNCHANGED <<lua, phase, made, pending, running, held, cache, gc, callbacks,
                   promised, dead>>

Called(c) == IF gc[c] = promised[c] THEN [promised EXCEPT ![c] = None] ELSE promised

\* cdata_gc without a finalizer, or with one that calls a C function.
FinalizeByC(c) ==
    /\ Next_(c)
    /\ gc[c] \in {None} \cup Closures
    /\ promised' = Called(c)
    /\ dead' = IF gc[c] # None /\ code[gc[c]] = "freed" THEN dead \cup {<<c, gc[c]>>}
               ELSE dead
    /\ callbacks' = [callbacks EXCEPT ![c] = None]
    /\ UNCHANGED <<lua, phase, made, pending, running, held, cache, gc, code>>

\* cdata_gc with a Lua function, called with the cdata.
BeginFinalizer(c) ==
    /\ Next_(c)
    /\ gc[c] \in {Plain} \cup Cdata
    /\ promised' = Called(c)
    /\ running' = <<c, gc[c]>>
    /\ UNCHANGED <<lua, phase, made, pending, held, cache, gc, callbacks, code, dead>>

\* It returns or raises an error, which lua_pcall drops.
EndFinalizer ==
    /\ running # <<>>
    /\ callbacks' = [callbacks EXCEPT ![running[1]] = None]
    /\ running' = <<>>
    /\ UNCHANGED <<lua, phase, made, pending, queue, held, cache, gc, code,
                   promised, dead>>

-----------------------------------------------------------------------------
Init ==
    /\ lua \in Versions /\ phase = "open"
    /\ made = <<>> /\ pending = {} /\ queue = <<>> /\ running = <<>>
    /\ held = {} /\ cache = {} /\ dead = {}
    /\ gc = [c \in Cdata |-> None]
    /\ callbacks = [c \in Cdata |-> None]
    /\ code = [f \in Closures |-> "none"]
    /\ promised = [c \in Cdata |-> None]

CdataGc == EndFinalizer \/ \E c \in Cdata : FinalizeByC(c) \/ BeginFinalizer(c)
CallGc == CdataGc \/ \E f \in Closures : FreeOwner(f)

Next ==
    \/ \E c \in Cdata : New(c)
    \/ \E f \in Closures : Index(f)
    \/ \E c \in Pointers, f \in Closures : CallPointer(c, f)
    \/ \E c \in Cdata, f \in {None, Plain} \cup held : SetGc(c, f)
    \/ \E o \in Objects : Drop(o)
    \/ DropModule \/ Resurrect \/ Collect \/ Close
    \/ CallGc

\* A program that goes on allocating makes the collector finish its cycles and
\* call what it queued, and finalizers return.
Spec == Init /\ [][Next]_vars /\ WF_vars(Collect) /\ WF_vars(CallGc)

-----------------------------------------------------------------------------
(* Properties *)

TypeOK ==
    /\ lua \in Versions /\ phase \in {"open", "closed"}
    /\ made \in Seq(Objects) /\ IsInjective(made)
    /\ queue \in Seq((SUBSET Made) \ {{}})
    /\ \A i, j \in 1..Len(queue) : i # j => queue[i] \cap queue[j] = {}
    /\ pending \subseteq Made /\ Queued \cap pending = {}
    /\ running = <<>> \/ running \in (Cdata \cap Made) \X ({Plain} \cup (Cdata \cap Made))
    /\ held \subseteq Made /\ cache \subseteq Closures \cap Made
    /\ gc \in [Cdata -> {None, Plain} \cup Made]
    /\ callbacks \in [Cdata -> (Closures \cap Made) \cup {None}]
    /\ code \in [Closures -> {"none", "live", "freed"}]
    /\ promised \in [Cdata -> Finalizer]
    /\ dead \subseteq Cdata \X Closures

\* Every cdata that is gone, or past its __gc, had the finalizer called that was
\* registered last (ffi_gc, do_new), and no other: no entry of the weak gc table
\* is lost on the way through collections, resurrections and lua_close.
FinalizerKept == \A c \in Cdata : Finalized(c) => promised[c] = None

\* Code a program can still call is not freed: that of the closures it holds, of
\* those cached in a module, and of those in the callbacks table for a function
\* pointer it holds (callback_free).
ReachableCodeLive ==
    phase = "open" =>
        \A f \in held \cup cache \cup {callbacks[c] : c \in held \cap Cdata} :
            f \in Closures => code[f] = "live"

\* A C function is a safe finalizer for a cdata made after it was compiled, and
\* until lua_close for any cdata, under Lua 5.1, and where its module is kept:
\* cdata_gc calls freed code only outside of these cases.
OldFinalizersSafe ==
    \A d \in dead :
        /\ Older(d[1], d[2])
        /\ phase = "open" => lua = "5.2" /\ d[2] \notin cache

\* A cdata that only the gc table leads to is finalized in the end, or found
\* again by a finalizer: the table "shouldn't pin cdata values" (setup_upvals).
\* Under Lua 5.1 one that a registered finalizer captured is pinned.
Garbage(c) ==
    /\ c \in pending /\ c \notin Reach(held \cup cache \cup Pins \cup Queued)
    /\ lua = "5.1" => c \notin TableHolds
FinalizedInTheEnd ==
    \A c \in Cdata : Garbage(c) ~> (Finalized(c) \/ c \in Reach(held))

-----------------------------------------------------------------------------
(* The inductive invariant of the three safety properties. *)

\* Until its __gc is called, a cdata has in the gc table what was registered.
EntryKept ==
    \A c \in Cdata :
        /\ c \notin Made => gc[c] = None
        /\ ~Finalized(c) => gc[c] = promised[c]

\* Code lives from the creation of its owner to the owner's __gc.
CodeByOwner ==
    \A f \in Closures :
        /\ code[f] = "none" <=> f \notin Made
        /\ code[f] = "freed" <=> Finalized(f)

\* While the program runs, what it can reach is not found dead.
RootsPending == phase = "open" => Roots \cap Closures \subseteq pending

\* The cycle that found a dead is not later than the one that found b dead.
FoundBefore(a, b) ==
    \A i, j \in 1..Len(queue) : a \in queue[i] /\ b \in queue[j] => i <= j

\* A function is found dead with or after the last cdata it finalizes, and is
\* not finalized before it unless it is the newer of the two.
FoundNoSooner ==
    \A c \in Cdata : ~Finalized(c) /\ gc[c] \in Closures =>
        \/ gc[c] \in pending
        \/ gc[c] \in Queued /\ c \in Queued /\ FoundBefore(c, gc[c])
        \/ Finalized(gc[c]) /\ c \in Queued /\ Older(c, gc[c])

\* Lua 5.1 finds no function dead that the gc table holds.
TableMarked ==
    phase = "open" /\ lua = "5.1" =>
        \A c \in Cdata : gc[c] \in Closures => gc[c] \in pending

DeadFreed == \A d \in dead : code[d[2]] = "freed"

IInv ==
    /\ TypeOK /\ EntryKept /\ CodeByOwner /\ RootsPending /\ FoundNoSooner
    /\ TableMarked /\ DeadFreed /\ FinalizerKept /\ OldFinalizersSafe

=============================================================================
