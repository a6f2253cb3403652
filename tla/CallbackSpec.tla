---------------------------- MODULE CallbackSpec ----------------------------
(***************************************************************************)
(* What callbacks promise to a Lua program, without pages, closures, pins  *)
(* and collections: a C function pointer made from a Lua function stands   *)
(* for the function it was last given, until it is freed; whoever calls    *)
(* the pointer runs that function, and a call that runs goes on running    *)
(* the function it entered, whatever the pointer is given meanwhile.       *)
(***************************************************************************)
EXTENDS Integers, Sequences

CONSTANTS
  Ptrs,     \* the C function pointers
  Values,   \* what a pointer can be given: Lua functions, or nil
  Gone,     \* what a pointer that was never made, or was freed, stands for
  Other     \* a call of anything else than a callback

VARIABLES
  fn,       \* [Ptrs -> Values \cup {Gone}]
  running   \* the calls under way, outermost first: of each callback the
            \* Lua function that it runs, and Other

Create(p, v) ==
  /\ fn[p] = Gone
  /\ fn' = [fn EXCEPT ![p] = v]
  /\ UNCHANGED running

Give(p, v) ==
  /\ fn[p] # Gone
  /\ fn' = [fn EXCEPT ![p] = v]
  /\ UNCHANGED running

Free(p) ==
  /\ fn[p] # Gone
  /\ fn' = [fn EXCEPT ![p] = Gone]
  /\ UNCHANGED running

Enter(p) ==
  /\ fn[p] # Gone
  /\ running' = Append(running, fn[p])
  /\ UNCHANGED fn

\* A call from Lua into C.
Call ==
  /\ running' = Append(running, Other)
  /\ UNCHANGED fn

\* A return, or an error that leaves several calls at once.
Leave(n) ==
  /\ running' = SubSeq(running, 1, n)
  /\ UNCHANGED fn

Init ==
  /\ fn = [p \in Ptrs |-> Gone]
  /\ running = <<>>

Next ==
  \/ \E p \in Ptrs, v \in Values : Create(p, v) \/ Give(p, v)
  \/ \E p \in Ptrs : Free(p) \/ Enter(p)
  \/ Call
  \/ \E n \in 0..(Len(running) - 1) : Leave(n)

Spec == Init /\ [][Next]_<<fn, running>>
=============================================================================
