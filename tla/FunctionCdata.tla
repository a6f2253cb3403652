--------------------------- MODULE FunctionCdata ---------------------------
(***************************************************************************)
(* Function pointers in Lua (ffi.c, call_x86.dasc): the cdata that hold    *)
(* them, the callbacks made from Lua functions, the closures compiled to   *)
(* call them, the callbacks table that pins and caches, and the calls that *)
(* are under way, Lua into C and back.                                     *)
(*                                                                         *)
(* Lua code runs when nothing was called, in a callback, and, as the       *)
(* finalizer of some object, while a closure is compiled.  CodePages       *)
(* models where the machine code lies and that no two callbacks share      *)
(* their upval table; here a callback is its address and the function in   *)
(* the table.                                                              *)
(*                                                                         *)
(* Some things only the Lua program can get right.  misuse, chosen at the  *)
(* start, says which of them it gets wrong:                                *)
(*   "refree"     cb:free() of a callback that was freed                   *)
(*   "dangling"   a call of a freed callback or of a null pointer          *)
(*   "active"     cb:free() of a callback that is running                  *)
(*   "finalizer"  cb:free() while a closure for cb is compiled             *)
(*   "copy"       ffi.new(cb, fp): a cdata with the type of a callback and *)
(*                the value of some other function pointer                 *)
(***************************************************************************)
EXTENDS Integers, Sequences, FiniteSets

CONSTANTS
  Cdatas,     \* addresses of function pointer cdata
  Blocks,     \* addresses of the machine code of callbacks
  Closures,   \* addresses of closures made by compile_function
  LuaFns,     \* Lua functions a program uses as callbacks
  CFns,       \* addresses of C functions
  Null,       \* NULL
  NilFn,      \* nil in place of the Lua function: ffi.new('fn', nil)
  Dead,       \* nothing there: not allocated, or freed
  Absent,     \* no entry in the callbacks table
  Pinned,     \* the entry true
  Programs,   \* the sets of misuses a program may commit, see above
  MaxStack(_) \* bound: calls under way at once, by what is misused

Misuses == {"refree", "dangling", "active", "finalizer", "copy"}

ASSUME FunctionCdataAssumption ==
  /\ Programs \subseteq SUBSET Misuses
  /\ \A m \in Programs : MaxStack(m) \in Nat
  /\ {Dead, Absent, Pinned} \cap Closures = {}
  /\ Absent # Pinned
  /\ Dead \notin LuaFns \cup {NilFn, Null} \cup CFns \cup Blocks
  /\ CFns \cap Blocks = {}
  /\ Null \notin CFns \cup Blocks

VARIABLES
  cd,         \* per cdata: allocated, is_jitted, and the pointer
  held,       \* the cdata Lua code can reach through its own variables
  callbacks,  \* the table callbacks_key: [cdata -> Absent, Pinned, closure]
  block,      \* per callback: the function in its upval table, or Dead
  closure,    \* per closure: the pointer its machine code embeds, or Dead
  cmem,       \* the pointers C code or C structures keep
  stack,      \* the calls under way, outermost first
  fault,      \* "none", or how the process came to touch freed code
  misuse      \* what this program does wrong

vars == <<cd, held, callbacks, block, closure, cmem, stack, fault, misuse>>

Ptrs    == Blocks \cup CFns \cup {Null}
Fns     == LuaFns \cup {NilFn}
NoCdata == [live |-> FALSE, jitted |-> FALSE, ptr |-> Null]

Top == stack[Len(stack)]

\* A frame whose code is Lua: a callback, or a finalizer over a compilation.
LuaFrame(i) == stack[i].kind \in {"callback", "compile"}

LuaRuns == fault = "none" /\ (stack # <<>> => LuaFrame(Len(stack)))

LiveBlock(p) == p \in Blocks /\ block[p] # Dead

\* Only a careless program calls these.
MayCall(p) == p \in CFns \/ LiveBlock(p) \/ "dangling" \in misuse

-----------------------------------------------------------------------------
(* Making, copying and dropping function pointers. *)

\* compile_callback pushes the cdata, its caller pins it: k is the code, f the
\* function.
MakeCallback(c, k, f) ==
  /\ LuaRuns
  /\ ~cd[c].live
  /\ block[k] = Dead
  /\ cd' = [cd EXCEPT ![c] = [live |-> TRUE, jitted |-> TRUE, ptr |-> k]]
  /\ callbacks' = [callbacks EXCEPT ![c] = Pinned]
  /\ block' = [block EXCEPT ![k] = f]
  /\ UNCHANGED <<closure, stack, fault>>

\* Mutant: do_new leaves the callback out of the callbacks table.
NewCallbackUnpinned(c, k, f) ==
  /\ LuaRuns
  /\ ~cd[c].live
  /\ block[k] = Dead
  /\ cd' = [cd EXCEPT ![c] = [live |-> TRUE, jitted |-> TRUE, ptr |-> k]]
  /\ block' = [block EXCEPT ![k] = f]
  /\ held' = held \cup {c}
  /\ UNCHANGED <<callbacks, closure, cmem, stack, fault>>

\* ffi.new and ffi.cast of a function type and a Lua function or nil.
NewCallback(c, k, f) ==
  /\ MakeCallback(c, k, f)
  /\ held' = held \cup {c}
  /\ UNCHANGED cmem

\* A Lua function where C expects a pointer: an argument, a struct member.
PassLuaFunction(c, k, f) ==
  /\ f \in LuaFns
  /\ MakeCallback(c, k, f)
  /\ cmem' = cmem \cup {k}
  /\ UNCHANGED held

\* A cdata of a declared type: ffi.new('fn', d), a symbol of a C library, or
\* cdata_index on a struct member.
NewPointer(c, p) ==
  /\ LuaRuns
  /\ ~cd[c].live
  /\ p \in CFns \cup cmem \cup {cd[d].ptr : d \in held}
  /\ cd' = [cd EXCEPT ![c] = [live |-> TRUE, jitted |-> FALSE, ptr |-> p]]
  /\ held' = held \cup {c}
  /\ UNCHANGED <<callbacks, block, closure, cmem, stack, fault>>

\* A cdata whose type was taken from a callback: is_jitted comes with it.
CopyWithType(c, d, p) ==
  /\ "copy" \in misuse
  /\ LuaRuns
  /\ ~cd[c].live
  /\ d \in held /\ cd[d].jitted
  /\ p \in CFns \cup {cd[e].ptr : e \in held}
  /\ cd' = [cd EXCEPT ![c] = [live |-> TRUE, jitted |-> TRUE, ptr |-> p]]
  /\ held' = held \cup {c}
  /\ UNCHANGED <<callbacks, block, closure, cmem, stack, fault>>

\* check_cfunction on a cdata, as an argument or a struct member.
PassPointer(c) ==
  /\ LuaRuns
  /\ c \in held
  /\ cd[c].ptr # Null
  /\ cmem' = cmem \cup {cd[c].ptr}
  /\ UNCHANGED <<cd, held, callbacks, block, closure, stack, fault>>

\* C code, or Lua code that writes the member, forgets a pointer.
Overwrite(p) ==
  /\ fault = "none"
  /\ p \in cmem
  /\ cmem' = cmem \ {p}
  /\ UNCHANGED <<cd, held, callbacks, block, closure, stack, fault>>

Drop(c) ==
  /\ LuaRuns
  /\ c \in held
  /\ held' = held \ {c}
  /\ UNCHANGED <<cd, callbacks, block, closure, cmem, stack, fault>>

-----------------------------------------------------------------------------
(* cb:set and cb:free. *)

\* push_func_ref reads the upval table through the code; errors leave all as
\* it is.  The cached closure gives way to the pin.
Set(c, f) ==
  /\ LuaRuns
  /\ c \in held
  /\ cd[c].jitted
  /\ cd[c].ptr # Null
  /\ IF LiveBlock(cd[c].ptr)
       THEN /\ block' = [block EXCEPT ![cd[c].ptr] = f]
            /\ callbacks' = [callbacks EXCEPT ![c] = Pinned]
            /\ UNCHANGED fault
       ELSE fault' = "set" /\ UNCHANGED <<block, callbacks>>
  /\ UNCHANGED <<cd, held, closure, cmem, stack>>

\* What a careful program makes sure of before cb:free().
MayFree(c) ==
  /\ cd[c].jitted /\ cd[c].ptr = Null => "refree" \in misuse
  /\ (\E i \in 1..Len(stack) :
        cd[c].jitted /\ stack[i].kind = "callback" /\ stack[i].id = cd[c].ptr)
       => "active" \in misuse
  /\ (\E i \in 1..Len(stack) : stack[i].kind = "compile" /\ stack[i].id = c)
       => "finalizer" \in misuse

\* Mutant: the cached closure stays.
FreeKeepsClosure(c) ==
  /\ LuaRuns
  /\ c \in held
  /\ MayFree(c)
  /\ UNCHANGED callbacks
  /\ IF ~cd[c].jitted
       THEN UNCHANGED <<block, cd, fault>>
       ELSE IF LiveBlock(cd[c].ptr)
              THEN /\ block' = [block EXCEPT ![cd[c].ptr] = Dead]
                   /\ cd' = [cd EXCEPT ![c].ptr = Null]
                   /\ UNCHANGED fault
              ELSE fault' = "free" /\ UNCHANGED <<block, cd>>
  /\ UNCHANGED <<held, closure, cmem, stack>>

\* Mutant: *p is not set to NULL.
FreeKeepsPointer(c) ==
  /\ LuaRuns
  /\ c \in held
  /\ MayFree(c)
  /\ callbacks' = [callbacks EXCEPT ![c] = Absent]
  /\ IF ~cd[c].jitted
       THEN UNCHANGED <<block, fault>>
       ELSE IF LiveBlock(cd[c].ptr)
              THEN block' = [block EXCEPT ![cd[c].ptr] = Dead] /\ UNCHANGED fault
              ELSE fault' = "free" /\ UNCHANGED block
  /\ UNCHANGED <<cd, held, closure, cmem, stack>>

\* cdata_free removes the entry of any cdata and frees the code of a callback;
\* free_code asserts that it finds the code.
Free(c) ==
  /\ LuaRuns
  /\ c \in held
  /\ MayFree(c)
  /\ callbacks' = [callbacks EXCEPT ![c] = Absent]
  /\ IF ~cd[c].jitted
       THEN UNCHANGED <<block, cd, fault>>
       ELSE IF LiveBlock(cd[c].ptr)
              THEN /\ block' = [block EXCEPT ![cd[c].ptr] = Dead]
                   /\ cd' = [cd EXCEPT ![c].ptr = Null]
                   /\ UNCHANGED fault
              ELSE fault' = "free" /\ UNCHANGED <<block, cd>>
  /\ UNCHANGED <<held, closure, cmem, stack>>

-----------------------------------------------------------------------------
(* Calls. *)

Frame(kind, id, ptr, fn) == [kind |-> kind, id |-> id, ptr |-> ptr, fn |-> fn]

\* cdata_call finds a closure in the callbacks table.
CallCached(c) ==
  /\ LuaRuns
  /\ c \in held
  /\ Len(stack) < MaxStack(misuse)
  /\ callbacks[c] \in Closures
  /\ MayCall(closure[callbacks[c]])
  /\ stack' = Append(stack, Frame("closure", callbacks[c],
                                  closure[callbacks[c]], NilFn))
  /\ UNCHANGED <<cd, held, callbacks, block, closure, cmem, fault>>

\* cdata_call reads the pointer and compiles; its allocations run finalizers.
BeginCall(c) ==
  /\ LuaRuns
  /\ c \in held
  /\ Len(stack) < MaxStack(misuse)
  /\ callbacks[c] \notin Closures
  /\ MayCall(cd[c].ptr)
  /\ stack' = Append(stack, Frame("compile", c, cd[c].ptr, NilFn))
  /\ UNCHANGED <<cd, held, callbacks, block, closure, cmem, fault>>

\* closures[func] = closure, then the call.
EndCall(cl) ==
  /\ fault = "none"
  /\ stack # <<>>
  /\ Top.kind = "compile"
  /\ closure[cl] = Dead
  /\ closure' = [closure EXCEPT ![cl] = Top.ptr]
  /\ callbacks' = [callbacks EXCEPT ![Top.id] = cl]
  /\ stack' = [stack EXCEPT ![Len(stack)] = Frame("closure", cl, Top.ptr, NilFn)]
  /\ UNCHANGED <<cd, held, block, cmem, fault>>

\* Where the C code that a closure called can go: to the callback it is, or,
\* a C function, to any pointer it was given.
CanEnter(p) ==
  /\ fault = "none"
  /\ stack # <<>>
  /\ Top.kind = "closure"
  /\ Len(stack) < MaxStack(misuse)
  /\ IF Top.ptr \in CFns THEN p \in cmem \ CFns ELSE p = Top.ptr

\* Mutant: the callback runs the function it was compiled with.
EnterFirst(k) ==
  /\ CanEnter(k)
  /\ LiveBlock(k)
  /\ stack' = Append(stack, Frame("callback", k, k, CHOOSE f \in LuaFns : TRUE))
  /\ UNCHANGED <<cd, held, callbacks, block, closure, cmem, fault>>

\* The machine code of a callback fetches the function from the upval table.
EnterCallback(k) ==
  /\ CanEnter(k)
  /\ LiveBlock(k)
  /\ stack' = Append(stack, Frame("callback", k, k, block[k]))
  /\ UNCHANGED <<cd, held, callbacks, block, closure, cmem, fault>>

\* A jump to freed memory, or to address 0.
EnterFreed(p) ==
  /\ CanEnter(p)
  /\ ~LiveBlock(p)
  /\ MayCall(p)
  /\ fault' = "call"
  /\ UNCHANGED <<cd, held, callbacks, block, closure, cmem, stack>>

\* The C function returns to the closure, the Lua function to the callback.
Return ==
  /\ fault = "none"
  /\ stack # <<>>
  /\ \/ Top.kind = "closure"
     \/ Top.kind = "callback" /\ Top.fn # NilFn
  /\ IF \/ Top.kind = "closure" /\ closure[Top.id] # Dead
        \/ Top.kind = "callback" /\ block[Top.id] # Dead
       THEN stack' = SubSeq(stack, 1, Len(stack) - 1) /\ UNCHANGED fault
       ELSE fault' = "return" /\ UNCHANGED stack
  /\ UNCHANGED <<cd, held, callbacks, block, closure, cmem>>

\* A Lua error (a callback without function, a failed compilation, any other)
\* jumps to the pcall of an outer Lua frame, over the C code in between; a
\* finalizer runs under a pcall of its own, so no further than that.
Error(n) ==
  /\ fault = "none"
  /\ n \in 0..(Len(stack) - 1)
  /\ n > 0 => LuaFrame(n)
  /\ \A i \in (n + 1)..(Len(stack) - 1) : stack[i].kind # "compile"
  /\ stack' = SubSeq(stack, 1, n)
  /\ UNCHANGED <<cd, held, callbacks, block, closure, cmem, fault>>

-----------------------------------------------------------------------------
(* Garbage collection. *)

\* A key of the callbacks table is reachable.  cdata_gc frees no code.
Collect(c) ==
  /\ LuaRuns
  /\ cd[c].live
  /\ c \notin held
  /\ callbacks[c] = Absent
  /\ \A i \in 1..Len(stack) : ~(stack[i].kind = "compile" /\ stack[i].id = c)
  /\ cd' = [cd EXCEPT ![c] = NoCdata]
  /\ UNCHANGED <<held, callbacks, block, closure, cmem, stack, fault>>

\* Mutant: the closure is called without being on the Lua stack.
OffStack(cl) == TRUE

\* cdata_call replaced the cdata by the closure, and calls that.
NotOnStack(cl) ==
  \A i \in 1..Len(stack) : ~(stack[i].kind = "closure" /\ stack[i].id = cl)

\* callback_free, as the finalizer of the closure's upvalue.
CollectClosure(cl) ==
  /\ LuaRuns
  /\ closure[cl] # Dead
  /\ \A c \in Cdatas : callbacks[c] # cl
  /\ NotOnStack(cl)
  /\ closure' = [closure EXCEPT ![cl] = Dead]
  /\ UNCHANGED <<cd, held, callbacks, block, cmem, stack, fault>>

-----------------------------------------------------------------------------

Init ==
  /\ cd = [c \in Cdatas |-> NoCdata]
  /\ held = {}
  /\ callbacks = [c \in Cdatas |-> Absent]
  /\ block = [k \in Blocks |-> Dead]
  /\ closure = [cl \in Closures |-> Dead]
  /\ cmem = {}
  /\ stack = <<>>
  /\ fault = "none"
  /\ misuse \in Programs

Step ==
  \/ \E c \in Cdatas, k \in Blocks, f \in Fns :
       NewCallback(c, k, f) \/ PassLuaFunction(c, k, f)
  \/ \E c \in Cdatas, p \in Ptrs : NewPointer(c, p)
  \/ \E c, d \in Cdatas, p \in Ptrs : CopyWithType(c, d, p)
  \/ \E c \in Cdatas : PassPointer(c)
  \/ \E p \in Ptrs : Overwrite(p)
  \/ \E c \in Cdatas : Drop(c)
  \/ \E c \in Cdatas, f \in LuaFns : Set(c, f)
  \/ \E c \in Cdatas : Free(c)
  \/ \E c \in Cdatas : CallCached(c)
  \/ \E c \in Cdatas : BeginCall(c)
  \/ \E cl \in Closures : EndCall(cl)
  \/ \E k \in Blocks : EnterCallback(k)
  \/ \E p \in Ptrs : EnterFreed(p)
  \/ Return
  \/ \E n \in 0..(Len(stack) - 1) : Error(n)
  \/ \E c \in Cdatas : Collect(c)
  \/ \E cl \in Closures : CollectClosure(cl)

Next == Step /\ UNCHANGED misuse

Spec == Init /\ [][Next]_vars

-----------------------------------------------------------------------------
(* Properties. *)

Frames ==
  [kind : {"closure"}, id : Closures, ptr : Ptrs, fn : {NilFn}]
    \cup [kind : {"compile"}, id : Cdatas, ptr : Ptrs, fn : {NilFn}]
    \cup [kind : {"callback"}, id : Blocks, ptr : Blocks, fn : Fns]

TypeOK ==
  /\ cd \in [Cdatas -> [live : BOOLEAN, jitted : BOOLEAN, ptr : Ptrs]]
  /\ held \subseteq Cdatas
  /\ callbacks \in [Cdatas -> {Absent, Pinned} \cup Closures]
  /\ block \in [Blocks -> Fns \cup {Dead}]
  /\ closure \in [Closures -> Ptrs \cup {Dead}]
  /\ cmem \subseteq Ptrs
  /\ stack \in Seq(Frames)
  /\ fault \in {"none", "set", "free", "call", "return"}
  /\ misuse \in Programs

\* Code that C may still call keeps the cdata that can set or free it: every
\* callback that was not freed belongs to a cdata in the callbacks table.
PinnedWhileLive ==
  \A k \in Blocks : block[k] # Dead =>
    \E c \in Cdatas :
      cd[c].live /\ cd[c].jitted /\ cd[c].ptr = k /\ callbacks[c] # Absent

\* Calls return to code that exists: the collector takes no closure that is
\* being called, although cb:set and cb:free take it out of the table, and a
\* callback that runs is there unless the program frees it then.
ActiveCodeLive ==
  fault = "none" =>
    \A i \in 1..Len(stack) :
      /\ stack[i].kind = "closure" => closure[stack[i].id] # Dead
      /\ stack[i].kind = "callback" /\ "active" \notin misuse
           => block[stack[i].id] # Dead

\* The closure that is cached for a cdata calls the pointer the cdata holds,
\* unless a finalizer frees the callback while the closure is compiled.
ClosureMatches ==
  "finalizer" \notin misuse =>
    \A c \in Cdatas : callbacks[c] \in Closures =>
      cd[c].live /\ closure[callbacks[c]] = cd[c].ptr

\* A careful program touches no freed code.
NoFault == misuse = {} => fault = "none"

\* The inductive invariant behind these four.
HeldLive == \A c \in held : cd[c].live
CachedLive ==
  \A c \in Cdatas : callbacks[c] \in Closures => closure[callbacks[c]] # Dead
CompileCurrent ==
  "finalizer" \notin misuse =>
    \A i \in 1..Len(stack) : stack[i].kind = "compile" =>
      cd[stack[i].id].live /\ cd[stack[i].id].ptr = stack[i].ptr
OwnBlock ==
  "copy" \notin misuse =>
    \A c \in Cdatas : cd[c].live /\ cd[c].jitted =>
      /\ cd[c].ptr = Null \/ LiveBlock(cd[c].ptr)
      /\ \A d \in Cdatas :
           cd[d].live /\ cd[d].jitted /\ cd[d].ptr = cd[c].ptr /\ cd[c].ptr # Null => d = c
IInv ==
  /\ TypeOK /\ HeldLive /\ CachedLive /\ CompileCurrent /\ OwnBlock
  /\ PinnedWhileLive /\ ActiveCodeLive /\ ClosureMatches /\ NoFault

\* The module implements CallbackSpec; nothing (Dead) stands for a call that
\* is not a callback's.
Running ==
  [i \in 1..Len(stack) |-> IF stack[i].kind = "callback" THEN stack[i].fn ELSE Dead]

Abstract == INSTANCE CallbackSpec
  WITH Ptrs <- Blocks, Values <- Fns, Gone <- Dead, Other <- Dead,
       fn <- block, running <- Running

\* Only cb:set changes what a callback runs, only cb:free ends it, and each
\* entry runs the function of that moment.
KeepsPromise == Abstract!Spec
=============================================================================
