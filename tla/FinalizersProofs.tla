--------------------------- MODULE FinalizersProofs ---------------------------
(***************************************************************************)
(* Proofs about finalizers: whatever a program creates, registers, drops   *)
(* and resurrects, and whenever the collector runs, the finalizer last     *)
(* registered is the one called, code that can still be called is not      *)
(* freed, and a C function is a safe finalizer for older cdata only.       *)
(*                                                                         *)
(* A step does one of four things to the life of userdata: it creates one, *)
(* queues those a cycle found dead, calls the next __gc, or none of these. *)
(* The lemmas about made, pending and queue are about these four.          *)
(***************************************************************************)
EXTENDS Finalizers, SequenceTheorems, TLAPS

USE DEF Objects

-----------------------------------------------------------------------------
(* Reachability *)

\* What is reachable from R has R in it, ...
LEMMA ReachHas == ASSUME NEW R PROVE R \subseteq Reach(R)
BY DEF Reach

\* ... is closed under the entries of the gc table, ...
LEMMA ReachClosed ==
    ASSUME NEW R, NEW c \in Cdata, c \in Reach(R)
    PROVE  Value(c) \subseteq Reach(R)
<1> SUFFICES c \notin UNION CutOff(R)
  BY DEF Reach
<1>1. CASE c \in R
  BY <1>1 DEF CutOff
<1>2. ASSUME NEW d \in Cdata, d \notin UNION CutOff(R), c \in Value(d)
      PROVE  c \notin UNION CutOff(R)
  <2> SUFFICES ASSUME NEW U \in CutOff(R), c \in U PROVE FALSE
    OBVIOUS
  <2> QED BY <1>2 DEF CutOff
<1> QED BY <1>1, <1>2 DEF Reach

\* ... and grows with R.
LEMMA ReachGrows ==
    ASSUME NEW R, NEW T, R \subseteq T
    PROVE  Reach(R) \subseteq Reach(T)
<1>1. CutOff(T) \subseteq CutOff(R)
  BY DEF CutOff
<1> QED BY <1>1 DEF Reach

\* The same for what the collector marks.
LEMMA MarkedFacts ==
    ASSUME NEW R
    PROVE  /\ R \subseteq Marked(R)
           /\ \A c \in Cdata : c \in Marked(R) => Value(c) \subseteq Marked(R)
           /\ \A T : R \subseteq T => Marked(R) \subseteq Marked(T)
           /\ lua = "5.1" => TableHolds \subseteq Marked(R)
BY ReachHas, ReachClosed, ReachGrows DEF Marked

-----------------------------------------------------------------------------
(* The life of userdata *)

\* The queue as TypeOK has it.
QueueOK ==
    /\ queue \in Seq((SUBSET Made) \ {{}})
    /\ \A i, j \in 1..Len(queue) : i # j => queue[i] \cap queue[j] = {}

LEMMA InQueue ==
    ASSUME QueueOK
    PROVE  \A o : o \in Queued <=> \E i \in 1..Len(queue) : o \in queue[i]
BY DEF QueueOK, Queued, ToSet

\* A new userdata is pending; the age of the others is what it was.
LEMMA CreateFacts ==
    ASSUME TypeOK, NEW o \in Objects, Create(o), UNCHANGED queue
    PROVE  /\ made' \in Seq(Objects) /\ IsInjective(made') /\ Made' = Made \cup {o}
           /\ o \notin Made /\ o \in pending' /\ pending' = pending \cup {o}
           /\ QueueOK' /\ Queued' = Queued /\ Queued' \cap pending' = {}
           /\ \A x : Finalized(x)' <=> Finalized(x)
           /\ \A x, y : Older(x, y) => Older(x, y)'
<1>1. made \in Seq(Objects) /\ made' = Append(made, o) /\ o \notin Made /\ IsInjective(made)
  BY DEF TypeOK, Create
<1>2. /\ made' \in Seq(Objects) /\ Len(made') = Len(made) + 1 /\ Len(made) \in Nat
      /\ made'[Len(made')] = o
      /\ \A i \in 1..Len(made) : i \in 1..Len(made') /\ made'[i] = made[i]
      /\ \A i \in 1..Len(made') : i \in 1..Len(made) \/ i = Len(made')
      /\ DOMAIN made = 1..Len(made) /\ DOMAIN made' = 1..Len(made')
  BY <1>1
<1>3. Made' = Made \cup {o}
  BY <1>2 DEF Made, ToSet
<1>4. IsInjective(made')
  <2>1. \A i \in 1..Len(made) : made[i] # o
    BY <1>1, <1>2 DEF Made, ToSet
  <2> QED BY <1>1, <1>2, <2>1 DEF IsInjective
<1>5. QueueOK' /\ Queued' = Queued
  <2>1. queue' \in Seq((SUBSET Made') \ {{}})
    <3>1. queue \in Seq((SUBSET Made) \ {{}}) /\ (SUBSET Made) \ {{}} \subseteq (SUBSET Made') \ {{}}
      BY <1>3 DEF TypeOK
    <3> QED BY <3>1, SeqMonotonic
  <2> QED BY <2>1 DEF TypeOK, QueueOK, Queued
<1>6. Queued \subseteq Made
  <2>1. QueueOK
    BY DEF TypeOK, QueueOK
  <2>2. ASSUME NEW i \in 1..Len(queue) PROVE queue[i] \subseteq Made
    BY <2>1 DEF QueueOK
  <2> QED BY <2>1, <2>2, InQueue
<1>7. \A x, y : Older(x, y) => Older(x, y)'
  BY <1>2 DEF Older
<1> QED BY <1>1, <1>2, <1>3, <1>4, <1>5, <1>6, <1>7 DEF Create, Finalized, TypeOK

\* Those found dead become the last element of the queue.
LEMMA EnqueueFacts ==
    ASSUME TypeOK, NEW S \in SUBSET pending, queue' = Enqueued(S), UNCHANGED made,
           pending' = pending \ S
    PROVE  /\ Made' = Made /\ QueueOK' /\ Queued' = Queued \cup S
           /\ Queued' \cap pending' = {}
           /\ \A x : Finalized(x)' <=> Finalized(x)
           /\ \A x, y : Older(x, y)' <=> Older(x, y)
           /\ \A x, y \in Queued : FoundBefore(x, y) => FoundBefore(x, y)'
           /\ \A x, y : y \in S => FoundBefore(x, y)'
<1>1. QueueOK /\ Made' = Made /\ Queued \cap pending = {} /\ pending \subseteq Made
  BY DEF TypeOK, QueueOK, Made
<1>2. /\ queue \in Seq((SUBSET Made) \ {{}}) /\ Len(queue) \in Nat
      /\ \A i \in 1..Len(queue) : queue[i] \cap S = {}
  BY <1>1, InQueue DEF QueueOK
<1>3. CASE S = {}
  <2>1. queue' = queue
    BY <1>3 DEF Enqueued
  <2>2. Queued' = Queued /\ QueueOK'
    BY <1>1, <2>1 DEF QueueOK, Queued
  <2>3. \A x, y : FoundBefore(x, y)' <=> FoundBefore(x, y)
    BY <2>1 DEF FoundBefore
  <2>4. \A x : Finalized(x)' <=> Finalized(x)
    BY <1>1, <1>3, <2>2 DEF Finalized
  <2> QED BY <1>1, <1>3, <2>2, <2>3, <2>4 DEF Older
<1>4. CASE S # {}
  <2>1. queue' = Append(queue, S) /\ S \in (SUBSET Made) \ {{}}
    BY <1>1, <1>4 DEF Enqueued
  <2>2. /\ queue' \in Seq((SUBSET Made) \ {{}}) /\ Len(queue') = Len(queue) + 1
        /\ queue'[Len(queue')] = S
        /\ \A i \in 1..Len(queue) : i \in 1..Len(queue') /\ queue'[i] = queue[i]
        /\ \A i \in 1..Len(queue') : i \in 1..Len(queue) \/ i = Len(queue')
    BY <1>2, <2>1
  <2>3. QueueOK'
    BY <1>1, <1>2, <2>2 DEF QueueOK
  <2>4. Queued' = Queued \cup S
    <3>1. ASSUME NEW o PROVE o \in Queued' <=> o \in Queued \/ o \in S
      <4>1. o \in Queued <=> \E i \in 1..Len(queue) : o \in queue[i]
        BY <1>1, InQueue
      <4>2. o \in Queued' <=> \E i \in 1..Len(queue') : o \in queue'[i]
        BY <2>2 DEF Queued, ToSet
      <4>3. Len(queue') \in 1..Len(queue')
        BY <1>2, <2>2
      <4> QED BY <2>2, <4>1, <4>2, <4>3
    <3> QED BY <3>1
  <2>5. \A x : Finalized(x)' <=> Finalized(x)
    BY <1>1, <2>4 DEF Finalized
  <2>6. \A x, y \in Queued : FoundBefore(x, y) => FoundBefore(x, y)'
    <3>1. \A x \in Queued : x \notin S
      BY <1>1
    <3> QED BY <2>2, <3>1 DEF FoundBefore
  <2>7. \A x, y : y \in S => FoundBefore(x, y)'
    <3> SUFFICES ASSUME NEW y \in S, NEW i \in 1..Len(queue'), NEW j \in 1..Len(queue'),
                        y \in queue'[j]
                 PROVE  i <= j
      BY DEF FoundBefore
    <3>1. j = Len(queue')
      BY <1>2, <2>2
    <3> QED BY <1>2, <2>2, <3>1
  <2> QED BY <1>1, <2>3, <2>4, <2>5, <2>6, <2>7 DEF Older
<1> QED BY <1>3, <1>4

\* The userdata whose __gc is called leaves the first element of the queue; any
\* other in there is older.
LEMMA NextFacts ==
    ASSUME TypeOK, NEW o, Next_(o), UNCHANGED <<made, pending>>
    PROVE  /\ Made' = Made /\ QueueOK' /\ Queued' = Queued \ {o} /\ o \in Queued
           /\ Queued' \cap pending' = {}
           /\ \A x : Finalized(x)' <=> Finalized(x) \/ x = o
           /\ \A x, y : Older(x, y)' <=> Older(x, y)
           /\ \A x, y : FoundBefore(x, y) => FoundBefore(x, y)'
           /\ \A x \in Queued : FoundBefore(x, o) /\ x # o => Older(x, o)
<1>1. QueueOK /\ Made' = Made /\ Queued \cap pending = {} /\ pending \subseteq Made
  BY DEF TypeOK, QueueOK, Made
<1>2. /\ queue \in Seq((SUBSET Made) \ {{}}) /\ Len(queue) \in Nat \ {0}
      /\ o \in queue[1] /\ Head(queue) = queue[1] /\ 1 \in 1..Len(queue)
      /\ \A i \in 1..Len(queue) : queue[i] \in (SUBSET Made) \ {{}}
      /\ \A i \in 1..Len(queue) : i # 1 => o \notin queue[i]
  BY <1>1 DEF QueueOK, Next_
<1>3. \A x : x \in Queued <=> \E i \in 1..Len(queue) : x \in queue[i]
  BY <1>1, InQueue
<1>4. Queued \subseteq Made
  BY <1>2, <1>3
<1> DEFINE D == IF queue[1] = {o} THEN 1 ELSE 0
\* Element i of the new queue is element i + D of the old one, without o.
<1>5. /\ queue' \in Seq((SUBSET Made) \ {{}}) /\ Len(queue') = Len(queue) - D
      /\ \A i \in 1..Len(queue') : i + D \in 1..Len(queue) /\ queue'[i] = queue[i + D] \ {o}
      /\ \A i \in 1..Len(queue) : i > D => i - D \in 1..Len(queue')
  <2>1. CASE queue[1] = {o}
    <3>1. queue' = Tail(queue)
      BY <1>2, <2>1 DEF Next_
    <3>2. queue' \in Seq((SUBSET Made) \ {{}}) /\ Len(queue') = Len(queue) - 1
      BY <1>2, <3>1
    <3>3. \A i \in 1..Len(queue') : i + 1 \in 1..Len(queue) /\ queue'[i] = queue[i + 1] \ {o}
      BY <1>2, <3>1
    <3> QED BY <1>2, <2>1, <3>2, <3>3
  <2>2. CASE queue[1] # {o}
    <3>1. queue' = [queue EXCEPT ![1] = queue[1] \ {o}]
      BY <1>2, <2>2 DEF Next_
    <3>2. queue[1] \ {o} \in (SUBSET Made) \ {{}}
      BY <1>2, <2>2
    <3>3. queue' \in Seq((SUBSET Made) \ {{}}) /\ Len(queue') = Len(queue)
      BY <1>2, <3>1, <3>2, ExceptSeq
    <3>4. \A i \in 1..Len(queue') : queue'[i] = queue[i] \ {o}
      BY <1>2, <3>1, <3>3
    <3> QED BY <1>2, <2>2, <3>3, <3>4
  <2> QED BY <2>1, <2>2
<1>6. D \in Nat /\ Len(queue') \in Nat /\ (D = 1 => queue[1] = {o}) /\ D \in {0, 1}
  BY <1>5
<1> HIDE DEF D
<1>7. QueueOK'
  <2>1. \A i, j \in 1..Len(queue') : i # j => queue'[i] \cap queue'[j] = {}
    <3> SUFFICES ASSUME NEW i \in 1..Len(queue'), NEW j \in 1..Len(queue'), i # j
                 PROVE  queue'[i] \cap queue'[j] = {}
      OBVIOUS
    <3>1. i + D \in 1..Len(queue) /\ j + D \in 1..Len(queue)
      BY <1>5
    <3>2. i + D # j + D
      BY <1>6
    <3>3. queue'[i] \subseteq queue[i + D] /\ queue'[j] \subseteq queue[j + D]
      BY <1>5
    <3>4. queue[i + D] \cap queue[j + D] = {}
      BY <1>1, <3>1, <3>2 DEF QueueOK
    <3> QED BY <3>3, <3>4
  <2> QED BY <1>1, <1>5, <2>1 DEF QueueOK
<1>8. Queued' = Queued \ {o}
  <2>1. \A x : x \in Queued' <=> \E i \in 1..Len(queue') : x \in queue'[i]
    BY <1>5 DEF Queued, ToSet
  <2>2. ASSUME NEW x \in Queued' PROVE x \in Queued \ {o}
    BY <1>3, <1>5, <2>1, <2>2
  <2>3. ASSUME NEW x \in Queued, x # o PROVE x \in Queued'
    <3>1. PICK i \in 1..Len(queue) : x \in queue[i]
      BY <1>3
    <3>2. i > D
      BY <1>6, <2>3, <3>1
    <3>3. i - D \in 1..Len(queue') /\ (i - D) + D = i
      BY <1>5, <1>6, <3>2
    <3>4. x \in queue'[i - D]
      BY <1>5, <2>3, <3>1, <3>3
    <3> QED BY <2>1, <3>3, <3>4
  <2> QED BY <2>2, <2>3
<1>9. o \in Queued
  BY <1>2, <1>3
<1>10. \A x : Finalized(x)' <=> Finalized(x) \/ x = o
  BY <1>1, <1>4, <1>8, <1>9 DEF Finalized
<1>11. ASSUME NEW x, NEW y, FoundBefore(x, y) PROVE FoundBefore(x, y)'
  <2> SUFFICES ASSUME NEW i \in 1..Len(queue'), NEW j \in 1..Len(queue'),
                      x \in queue'[i], y \in queue'[j]
               PROVE  i <= j
    BY DEF FoundBefore
  <2>1. /\ i + D \in 1..Len(queue) /\ j + D \in 1..Len(queue)
        /\ x \in queue[i + D] /\ y \in queue[j + D]
    BY <1>5
  <2>2. i + D <= j + D
    BY <1>11, <2>1 DEF FoundBefore
  <2> QED BY <1>6, <2>2
<1>12. ASSUME NEW x \in Queued, FoundBefore(x, o), x # o PROVE Older(x, o)
  <2>1. PICK i \in 1..Len(queue) : x \in queue[i]
    BY <1>3
  <2>2. i <= 1
    BY <1>2, <1>12, <2>1 DEF FoundBefore
  <2>3. x \in Head(queue)
    BY <1>2, <2>1, <2>2
  <2> QED BY <1>12, <2>3 DEF Next_
<1>13. \A x, y : Older(x, y)' <=> Older(x, y)
  BY DEF Older
<1> QED BY <1>1, <1>7, <1>8, <1>9, <1>10, <1>11, <1>12, <1>13

\* What a cycle finds: nothing that the roots or the queue lead to, no value of
\* a cdata that stays; and the entry of a cdata not yet finalized stays.
LEMMA CollectFacts ==
    ASSUME IInv, Collect
    PROVE  \E S \in SUBSET pending :
             /\ queue' = Enqueued(S) /\ pending' = pending \ S /\ UNCHANGED made
             /\ S \cap Roots = {}
             /\ lua = "5.1" => S \cap TableHolds = {}
             /\ gc' \in [Cdata -> {None, Plain} \cup Made]
             /\ \A c \in Cdata :
                  /\ gc'[c] \in {gc[c], None}
                  /\ ~Finalized(c) => gc'[c] = gc[c]
                  /\ ~Finalized(c) /\ gc[c] \in S => c \in S
<1> DEFINE white == pending \ Marked(Roots \cup Queued)
           alive == Marked(Roots \cup Queued \cup white)
<1>1. /\ queue' = Enqueued(white) /\ pending' = pending \ white /\ UNCHANGED made
      /\ gc' = [c \in Cdata |-> IF c \in alive THEN gc[c] ELSE None]
  BY DEF Collect
<1>2. Roots \cup Queued \subseteq Marked(Roots \cup Queued)
  BY MarkedFacts
<1>3. Marked(Roots \cup Queued) \subseteq alive /\ white \subseteq alive
  BY MarkedFacts
<1>4. \A c \in Cdata : c \in Marked(Roots \cup Queued) => Value(c) \subseteq Marked(Roots \cup Queued)
  BY MarkedFacts
<1>5. lua = "5.1" => TableHolds \subseteq Marked(Roots \cup Queued)
  BY MarkedFacts
<1>6. /\ gc \in [Cdata -> {None, Plain} \cup Made] /\ pending \subseteq Made /\ Made \subseteq Objects
  BY DEF IInv, TypeOK, Made, ToSet
<1>7. ASSUME NEW c \in Cdata, ~Finalized(c)
      PROVE  gc'[c] = gc[c] /\ (gc[c] \in white => c \in white)
  <2>1. CASE c \notin Made
    <3>1. gc[c] = None
      BY <2>1 DEF IInv, EntryKept
    <3>2. None \notin Made
      BY <1>6, FinalizerAssumption
    <3> QED BY <1>1, <1>6, <3>1, <3>2
  <2>2. CASE c \in Made
    <3>1. c \in pending \/ c \in Queued
      BY <1>7, <2>2 DEF Finalized
    <3>2. c \in alive
      BY <1>2, <1>3, <3>1
    <3>3. gc'[c] = gc[c]
      BY <1>1, <3>2
    <3>4. ASSUME gc[c] \in white PROVE c \in white
      <4>1. gc[c] \in Value(c)
        BY <1>6, <3>4 DEF Value
      <4>2. c \notin Marked(Roots \cup Queued)
        BY <1>4, <3>4, <4>1
      <4> QED BY <1>2, <3>1, <4>2
    <3> QED BY <3>3, <3>4
  <2> QED BY <2>1, <2>2
<1>8. white \in SUBSET pending /\ white \cap Roots = {}
      /\ (lua = "5.1" => white \cap TableHolds = {})
  BY <1>2, <1>5
<1>9. \A c \in Cdata : gc'[c] \in {gc[c], None}
  BY <1>1
<1>10. gc' \in [Cdata -> {None, Plain} \cup Made]
  BY <1>1, <1>6
<1> HIDE DEF white, alive
<1> QED BY <1>1, <1>7, <1>8, <1>9, <1>10

\* lua_close queues all the rest.
LEMMA CloseFacts ==
    ASSUME Close
    PROVE  /\ queue' = Enqueued(pending) /\ pending' = pending \ pending /\ UNCHANGED made
           /\ phase = "open" /\ phase' = "closed"
           /\ UNCHANGED <<lua, gc, callbacks, code, promised, dead>>
BY DEF Close

-----------------------------------------------------------------------------
(* The kinds of steps *)

\* A step that makes no userdata and calls none.
Quiet ==
    \/ \E c \in Cdata, f \in {None, Plain} \cup held : SetGc(c, f)
    \/ \E o \in Objects : Drop(o)
    \/ DropModule \/ Resurrect \/ EndFinalizer
    \/ \E f \in Closures : Index(f) /\ f \in cache
    \/ UNCHANGED vars

Creates(o) ==
    \/ o \in Cdata /\ New(o)
    \/ o \in Closures /\ Index(o) /\ o \notin cache
    \/ o \in Closures /\ \E c \in Pointers : CallPointer(c, o)

Calls(o) ==
    \/ o \in Closures /\ FreeOwner(o)
    \/ o \in Cdata /\ (FinalizeByC(o) \/ BeginFinalizer(o))

LEMMA NextCases ==
    ASSUME [Next]_vars
    PROVE  \/ Quiet
           \/ \E o \in Objects : Creates(o) \/ Calls(o)
           \/ Collect
           \/ Close
BY DEF Next, CallGc, CdataGc, Quiet, Creates, Calls

LEMMA QuietFacts ==
    ASSUME TypeOK, Quiet
    PROVE  /\ UNCHANGED <<lua, phase, made, pending, queue, code, dead>>
           /\ Made' = Made /\ Queued' = Queued
           /\ \A x : Finalized(x)' <=> Finalized(x)
           /\ \A x, y : (Older(x, y)' <=> Older(x, y)) /\ (FoundBefore(x, y)' <=> FoundBefore(x, y))
<1>1. UNCHANGED <<lua, phase, made, pending, queue, code, dead>>
  BY DEF Quiet, SetGc, Drop, DropModule, Resurrect, EndFinalizer, Index, vars
<1> QED BY <1>1 DEF Made, Queued, Finalized, Older, FoundBefore

LEMMA CreatesFacts ==
    ASSUME TypeOK, NEW o \in Objects, Creates(o)
    PROVE  Create(o) /\ phase = "open" /\ UNCHANGED <<lua, phase, queue, running, dead>>
BY DEF Creates, New, Index, CallPointer, Create

LEMMA CallsFacts ==
    ASSUME TypeOK, NEW o \in Objects, Calls(o)
    PROVE  Next_(o) /\ UNCHANGED <<lua, phase, made, pending, held, cache, gc>>
BY DEF Calls, FreeOwner, FinalizeByC, BeginFinalizer

-----------------------------------------------------------------------------
(* Types *)

LifeOK ==
    /\ made \in Seq(Objects) /\ IsInjective(made) /\ QueueOK
    /\ pending \subseteq Made /\ Queued \cap pending = {}

RestOK ==
    /\ lua \in Versions /\ phase \in {"open", "closed"}
    /\ running = <<>> \/ running \in (Cdata \cap Made) \X ({Plain} \cup (Cdata \cap Made))
    /\ held \subseteq Made /\ cache \subseteq Closures \cap Made
    /\ gc \in [Cdata -> {None, Plain} \cup Made]
    /\ callbacks \in [Cdata -> (Closures \cap Made) \cup {None}]
    /\ code \in [Closures -> {"none", "live", "freed"}]
    /\ promised \in [Cdata -> Finalizer]
    /\ dead \subseteq Cdata \X Closures

LEMMA TypeParts == TypeOK <=> LifeOK /\ RestOK
BY DEF TypeOK, LifeOK, RestOK, QueueOK

\* Whatever the step, what was made stays made, and older.
LEMMA LifeStep ==
    ASSUME IInv, [Next]_vars
    PROVE  /\ LifeOK' /\ Made \subseteq Made' /\ Made' \subseteq Objects
           /\ \A x, y : Older(x, y) => Older(x, y)'
<1>1. TypeOK /\ LifeOK
  BY TypeParts DEF IInv
<1> SUFFICES /\ LifeOK' /\ Made \subseteq Made'
             /\ \A x, y : Older(x, y) => Older(x, y)'
  BY DEF LifeOK, Made, ToSet
<1>2. CASE Quiet
  BY <1>1, <1>2, QuietFacts DEF LifeOK, QueueOK
<1>3. ASSUME NEW o \in Objects, Creates(o)
      PROVE  LifeOK' /\ Made \subseteq Made' /\ \A x, y : Older(x, y) => Older(x, y)'
  <2>1. Create(o) /\ UNCHANGED queue
    BY <1>1, <1>3, CreatesFacts
  <2> QED BY <1>1, <2>1, CreateFacts DEF LifeOK
<1>4. ASSUME NEW S \in SUBSET pending, queue' = Enqueued(S), pending' = pending \ S,
             UNCHANGED made
      PROVE  LifeOK' /\ Made \subseteq Made' /\ \A x, y : Older(x, y) => Older(x, y)'
  BY <1>1, <1>4, EnqueueFacts DEF LifeOK
<1>5. ASSUME NEW o \in Objects, Calls(o)
      PROVE  LifeOK' /\ Made \subseteq Made' /\ \A x, y : Older(x, y) => Older(x, y)'
  <2>1. Next_(o) /\ UNCHANGED <<made, pending>>
    BY <1>1, <1>5, CallsFacts
  <2> QED BY <1>1, <2>1, NextFacts DEF LifeOK
<1>6. CASE Collect
  BY <1>4, <1>6, CollectFacts
<1>7. CASE Close
  BY <1>4, <1>7, CloseFacts
<1> QED BY <1>2, <1>3, <1>5, <1>6, <1>7, NextCases

\* One step per action, for what is not the life of userdata.
LEMMA RestStep ==
    ASSUME IInv, [Next]_vars
    PROVE  RestOK'
<1>1. RestOK /\ TypeOK /\ Made \subseteq Made' /\ Made' \subseteq Objects
  BY TypeParts, LifeStep DEF IInv
<1>2. /\ Cdata \cap Made \subseteq Cdata \cap Made' /\ Closures \cap Made \subseteq Closures \cap Made'
      /\ None \in Finalizer /\ Plain \in Finalizer /\ Objects \subseteq Finalizer
  BY <1>1 DEF Finalizer
<1>3. ASSUME NEW c \in Cdata, New(c) PROVE RestOK'
  <2>1. c \in Made'
    BY <1>1, <1>3, CreateFacts DEF New
  <2> QED BY <1>1, <1>2, <1>3, <2>1 DEF New, Create, RestOK
<1>4. ASSUME NEW f \in Closures, Index(f) PROVE RestOK'
  <2>1. f \in Made'
    <3>1. CASE f \in cache
      BY <1>1, <3>1 DEF RestOK
    <3>2. CASE f \notin cache
      BY <1>1, <1>4, <3>2, CreateFacts DEF Index
    <3> QED BY <3>1, <3>2
  <2>2. held' = held \cup {f} /\ cache' \subseteq cache \cup {f}
        /\ code' \in [Closures -> {"none", "live", "freed"}]
        /\ UNCHANGED <<lua, phase, running, gc, callbacks, promised, dead>>
    BY <1>1, <1>4 DEF Index, Create, RestOK
  <2> QED BY <1>1, <1>2, <2>1, <2>2 DEF RestOK
<1>5. ASSUME NEW c \in Pointers, NEW f \in Closures, CallPointer(c, f) PROVE RestOK'
  <2>1. f \in Made' /\ c \in Cdata
    BY <1>1, <1>5, CreateFacts, FinalizerAssumption DEF CallPointer
  <2>2. /\ callbacks' = [callbacks EXCEPT ![c] = f] /\ code' = [code EXCEPT ![f] = "live"]
        /\ UNCHANGED <<lua, phase, running, held, cache, gc, promised, dead>>
    BY <1>5 DEF CallPointer, Create
  <2> QED BY <1>1, <1>2, <2>1, <2>2 DEF RestOK
<1>6. ASSUME NEW c \in Cdata, NEW f \in {None, Plain} \cup held, SetGc(c, f) PROVE RestOK'
  <2>1. f \in {None, Plain} \cup Made /\ f \in Finalizer
    BY <1>1, <1>2 DEF RestOK
  <2> QED BY <1>1, <1>2, <1>6, <2>1 DEF SetGc, RestOK
<1>7. CASE \/ \E o \in Objects : Drop(o)
           \/ DropModule
           \/ UNCHANGED vars
  BY <1>1, <1>2, <1>7 DEF Drop, DropModule, vars, RestOK
<1>8. CASE Resurrect
  <2>1. ToSet(running) \cap Cdata \subseteq Made
    <3>1. PICK c \in Cdata \cap Made, f \in {Plain} \cup (Cdata \cap Made) : running = <<c, f>>
      BY <1>1, <1>8 DEF Resurrect, RestOK
    <3>2. ToSet(running) = {c, f}
      BY <3>1 DEF ToSet
    <3> QED BY <3>1, <3>2, FinalizerAssumption
  <2> QED BY <1>1, <1>2, <1>8, <2>1 DEF Resurrect, RestOK
<1>9. CASE Collect
  <2>1. gc' \in [Cdata -> {None, Plain} \cup Made]
    BY <1>9, CollectFacts
  <2> QED BY <1>1, <1>2, <1>9, <2>1 DEF Collect, RestOK
<1>10. CASE Close
  BY <1>1, <1>2, <1>10 DEF Close, RestOK
<1>11. ASSUME NEW f \in Closures, FreeOwner(f) PROVE RestOK'
  BY <1>1, <1>2, <1>11 DEF FreeOwner, RestOK
<1>12. ASSUME NEW c \in Cdata, FinalizeByC(c) \/ BeginFinalizer(c)
       PROVE  /\ promised' \in [Cdata -> Finalizer] /\ callbacks' \in [Cdata -> (Closures \cap Made) \cup {None}]
              /\ dead' \subseteq Cdata \X Closures
              /\ running' = <<>> \/ running' \in (Cdata \cap Made) \X ({Plain} \cup (Cdata \cap Made))
              /\ UNCHANGED <<lua, phase, held, cache, gc, code>>
  <2>1. c \in Made
    <3>1. Next_(c) /\ UNCHANGED <<made, pending>>
      BY <1>12 DEF FinalizeByC, BeginFinalizer
    <3>2. c \in Queued /\ QueueOK
      BY <1>1, <3>1, NextFacts DEF TypeOK, QueueOK
    <3>3. PICK i \in 1..Len(queue) : c \in queue[i]
      BY <3>2, InQueue
    <3> QED BY <3>2, <3>3 DEF QueueOK
  <2>2. promised' \in [Cdata -> Finalizer]
    BY <1>1, <1>2, <1>12 DEF FinalizeByC, BeginFinalizer, Called, RestOK
  <2>3. CASE FinalizeByC(c)
    <3>1. dead' = dead \/ (gc[c] \in Closures /\ dead' = dead \cup {<<c, gc[c]>>})
      BY <2>3, FinalizerAssumption DEF FinalizeByC
    <3> QED BY <1>1, <2>2, <2>3, <3>1 DEF FinalizeByC, Next_, RestOK
  <2>4. CASE BeginFinalizer(c)
    <3>1. gc[c] \in {Plain} \cup (Cdata \cap Made)
      BY <1>1, <2>4, FinalizerAssumption DEF BeginFinalizer, RestOK
    <3> QED BY <1>1, <2>1, <2>2, <2>4, <3>1 DEF BeginFinalizer, RestOK
  <2> QED BY <1>12, <2>3, <2>4
<1>13. CASE EndFinalizer
  <2>1. PICK c \in Cdata : callbacks' = [callbacks EXCEPT ![c] = None]
    BY <1>1, <1>13 DEF EndFinalizer, RestOK
  <2> QED BY <1>1, <1>2, <1>13, <2>1 DEF EndFinalizer, RestOK
<1>14. ASSUME NEW c \in Cdata, FinalizeByC(c) \/ BeginFinalizer(c) PROVE RestOK'
  BY <1>1, <1>2, <1>12, <1>14 DEF RestOK
<1> QED BY <1>3, <1>4, <1>5, <1>6, <1>7, <1>8, <1>9, <1>10, <1>11, <1>13, <1>14 DEF Next, CallGc, CdataGc

-----------------------------------------------------------------------------
(* Entries and code *)

\* What New, SetGc and the calls write in the gc table and in the history.
LEMMA EntryStep ==
    ASSUME IInv, [Next]_vars
    PROVE  EntryKept' /\ FinalizerKept'
<1>1. TypeOK /\ RestOK /\ EntryKept /\ FinalizerKept
  BY TypeParts DEF IInv
<1> SUFFICES ASSUME NEW c \in Cdata
             PROVE  (/\ c \notin Made => gc[c] = None
                     /\ ~Finalized(c) => gc[c] = promised[c]
                     /\ Finalized(c) => promised[c] = None)'
  BY DEF EntryKept, FinalizerKept
<1>2. /\ c \notin Made => gc[c] = None
      /\ ~Finalized(c) => gc[c] = promised[c]
      /\ Finalized(c) => promised[c] = None
      /\ Finalized(c) => c \in Made
  BY <1>1 DEF EntryKept, FinalizerKept, Finalized
<1>3. gc \in [Cdata -> {None, Plain} \cup Made] /\ promised \in [Cdata -> Finalizer]
  BY <1>1 DEF RestOK
<1>4. CASE Quiet
  <2>1. Made' = Made /\ (Finalized(c)' <=> Finalized(c))
    BY <1>1, <1>4, QuietFacts
  <2>2. ASSUME NEW d \in Cdata, NEW f \in {None, Plain} \cup held, SetGc(d, f)
        PROVE  /\ c \notin Made => gc'[c] = None
               /\ ~Finalized(c) => gc'[c] = promised'[c]
               /\ Finalized(c) => promised'[c] = None
    <3>1. d \in Made /\ gc' = [gc EXCEPT ![d] = f]
          /\ promised' = IF Finalized(d) THEN promised ELSE [promised EXCEPT ![d] = f]
      BY <1>1, <2>2 DEF SetGc, RestOK
    <3> QED BY <1>2, <1>3, <3>1
  <2>3. CASE UNCHANGED <<gc, promised>>
    BY <1>2, <2>1, <2>3
  <2> QED BY <1>4, <2>1, <2>2, <2>3 DEF Quiet, Drop, DropModule, Resurrect, EndFinalizer, Index, vars
<1>5. ASSUME NEW o \in Objects, Creates(o)
      PROVE  (/\ c \notin Made => gc[c] = None
              /\ ~Finalized(c) => gc[c] = promised[c]
              /\ Finalized(c) => promised[c] = None)'
  <2>1. Made' = Made \cup {o} /\ (Finalized(c)' <=> Finalized(c)) /\ o \notin Made
    BY <1>1, <1>5, CreatesFacts, CreateFacts
  <2>2. CASE UNCHANGED <<gc, promised>>
    BY <1>2, <2>1, <2>2
  <2>3. CASE o \in Cdata /\ New(o)
    <3>1. PICK f \in {None, Plain} : gc' = [gc EXCEPT ![o] = f] /\ promised' = [promised EXCEPT ![o] = f]
      BY <2>3 DEF New
    <3> QED BY <1>2, <1>3, <2>1, <3>1
  <2> QED BY <1>5, <2>2, <2>3 DEF Creates, Index, CallPointer
<1>6. ASSUME NEW o \in Objects, Calls(o)
      PROVE  (/\ c \notin Made => gc[c] = None
              /\ ~Finalized(c) => gc[c] = promised[c]
              /\ Finalized(c) => promised[c] = None)'
  <2>1. /\ Made' = Made /\ (Finalized(c)' <=> Finalized(c) \/ c = o) /\ gc' = gc
        /\ o \in Queued
    BY <1>1, <1>6, CallsFacts, NextFacts
  <2>2. ~Finalized(o)
    BY <2>1 DEF Finalized
  <2>3. CASE o \in Closures
    <3>1. c # o
      BY <2>3, FinalizerAssumption
    <3>2. promised' = promised
      BY <1>6, <2>3, FinalizerAssumption DEF Calls, FreeOwner
    <3> QED BY <1>2, <2>1, <3>1, <3>2
  <2>4. CASE o \in Cdata
    <3>1. promised' = IF gc[o] = promised[o] THEN [promised EXCEPT ![o] = None] ELSE promised
      BY <1>6, <2>4, FinalizerAssumption DEF Calls, FinalizeByC, BeginFinalizer, Called
    <3>2. promised' = [promised EXCEPT ![o] = None]
      BY <1>1, <2>2, <2>4, <3>1 DEF EntryKept
    <3> QED BY <1>2, <1>3, <2>1, <2>4, <3>2
  <2> QED BY <2>3, <2>4
<1>7. CASE Collect
  <2>1. promised' = promised
    BY <1>7 DEF Collect
  <2>2. PICK S \in SUBSET pending :
           /\ queue' = Enqueued(S) /\ pending' = pending \ S /\ UNCHANGED made
           /\ gc'[c] \in {gc[c], None}
           /\ ~Finalized(c) => gc'[c] = gc[c]
    BY <1>7, CollectFacts
  <2>3. Made' = Made /\ (Finalized(c)' <=> Finalized(c))
    BY <1>1, <2>2, EnqueueFacts
  <2> QED BY <1>2, <2>1, <2>2, <2>3
<1>8. CASE Close
  <2>1. Made' = Made /\ (Finalized(c)' <=> Finalized(c)) /\ gc' = gc /\ promised' = promised
    BY <1>1, <1>8, CloseFacts, EnqueueFacts
  <2> QED BY <1>2, <2>1
<1> QED BY <1>4, <1>5, <1>6, <1>7, <1>8, NextCases

\* Index and CallPointer compile, the owner's __gc frees.
LEMMA CodeStep ==
    ASSUME IInv, [Next]_vars
    PROVE  CodeByOwner'
<1>1. TypeOK /\ RestOK /\ CodeByOwner
  BY TypeParts DEF IInv
<1> SUFFICES ASSUME NEW f \in Closures
             PROVE  (/\ code[f] = "none" <=> f \notin Made
                     /\ code[f] = "freed" <=> Finalized(f))'
  BY DEF CodeByOwner
<1>2. /\ code[f] = "none" <=> f \notin Made
      /\ code[f] = "freed" <=> Finalized(f)
      /\ code \in [Closures -> {"none", "live", "freed"}]
  BY <1>1 DEF CodeByOwner, RestOK
<1>3. CASE Quiet
  BY <1>1, <1>2, <1>3, QuietFacts
<1>4. ASSUME NEW o \in Objects, Creates(o)
      PROVE  (/\ code[f] = "none" <=> f \notin Made
              /\ code[f] = "freed" <=> Finalized(f))'
  <2>1. Made' = Made \cup {o} /\ (Finalized(f)' <=> Finalized(f)) /\ o \notin Made
    BY <1>1, <1>4, CreatesFacts, CreateFacts
  <2>2. ~Finalized(o)
    BY <2>1 DEF Finalized
  <2>3. CASE o \in Cdata
    <3>1. code' = code /\ f # o
      BY <1>4, <2>3, FinalizerAssumption DEF Creates, New
    <3> QED BY <1>2, <2>1, <3>1
  <2>4. CASE o \in Closures
    <3>1. code' = [code EXCEPT ![o] = "live"]
      BY <1>4, <2>4, FinalizerAssumption DEF Creates, Index, CallPointer
    <3> QED BY <1>2, <2>1, <2>2, <2>4, <3>1
  <2> QED BY <2>3, <2>4
<1>5. ASSUME NEW o \in Objects, Calls(o)
      PROVE  (/\ code[f] = "none" <=> f \notin Made
              /\ code[f] = "freed" <=> Finalized(f))'
  <2>1. /\ Made' = Made /\ (Finalized(f)' <=> Finalized(f) \/ f = o) /\ o \in Queued
    BY <1>1, <1>5, CallsFacts, NextFacts
  <2>2. CASE o \in Cdata
    <3>1. code' = code /\ f # o
      BY <1>5, <2>2, FinalizerAssumption DEF Calls, FinalizeByC, BeginFinalizer
    <3> QED BY <1>2, <2>1, <3>1
  <2>3. CASE o \in Closures
    <3>1. code' = [code EXCEPT ![o] = "freed"]
      BY <1>5, <2>3, FinalizerAssumption DEF Calls, FreeOwner
    <3>2. o \in Made
      <4>1. PICK i \in 1..Len(queue) : o \in queue[i]
        BY <1>1, <2>1, InQueue DEF TypeOK, QueueOK
      <4> QED BY <1>1, <4>1 DEF TypeOK
    <3> QED BY <1>2, <2>1, <2>3, <3>1, <3>2
  <2> QED BY <2>2, <2>3
<1>6. ASSUME NEW S \in SUBSET pending, queue' = Enqueued(S), pending' = pending \ S,
             UNCHANGED <<made, code>>
      PROVE  (/\ code[f] = "none" <=> f \notin Made
              /\ code[f] = "freed" <=> Finalized(f))'
  BY <1>1, <1>2, <1>6, EnqueueFacts
<1>7. CASE Collect
  BY <1>6, <1>7, CollectFacts DEF Collect
<1>8. CASE Close
  BY <1>6, <1>8, CloseFacts
<1> QED BY <1>3, <1>4, <1>5, <1>7, <1>8, NextCases

-----------------------------------------------------------------------------
(* What the collector may find dead *)

RootClosures == (held \cap Closures) \cup cache \cup ({callbacks[c] : c \in Cdata} \ {None})

LEMMA RootsAre ==
    ASSUME RestOK PROVE Roots \cap Closures = RootClosures
BY FinalizerAssumption DEF Roots, Pins, RootClosures, RestOK

LEMMA RootsStep ==
    ASSUME IInv, [Next]_vars
    PROVE  RootsPending'
<1>1. TypeOK /\ RestOK /\ RestOK' /\ RootsPending
  BY TypeParts, RestStep DEF IInv
<1> SUFFICES ASSUME phase' = "open" PROVE RootClosures' \subseteq pending'
  <2>1. RestOK' => Roots' \cap Closures = RootClosures'
    BY FinalizerAssumption DEF Roots, Pins, RootClosures, RestOK
  <2> QED BY <1>1, <2>1 DEF RootsPending
<1>2. phase = "open" => RootClosures \subseteq pending
  BY <1>1, RootsAre DEF RootsPending
<1>3. callbacks \in [Cdata -> (Closures \cap Made) \cup {None}]
  BY <1>1 DEF RestOK
<1>4. CASE Quiet
  <2>1. phase' = phase /\ pending' = pending
    BY <1>1, <1>4, QuietFacts
  <2>2. RootClosures' \subseteq RootClosures
    <3>1. ASSUME NEW f \in Closures, Index(f), f \in cache PROVE RootClosures' \subseteq RootClosures
      BY <3>1 DEF Index, RootClosures
    <3>2. CASE EndFinalizer
      <4>1. PICK c : callbacks' = [callbacks EXCEPT ![c] = None]
        BY <3>2 DEF EndFinalizer
      <4>2. \A d \in Cdata : callbacks'[d] \in {callbacks[d], None}
        BY <1>3, <4>1
      <4> QED BY <3>2, <4>2 DEF EndFinalizer, RootClosures
    <3>3. CASE Resurrect
      BY <3>3, FinalizerAssumption DEF Resurrect, RootClosures
    <3> QED BY <1>4, <3>1, <3>2, <3>3 DEF Quiet, SetGc, Drop, DropModule, vars, RootClosures
  <2> QED BY <1>2, <2>1, <2>2
<1>5. ASSUME NEW o \in Objects, Creates(o) PROVE RootClosures' \subseteq pending'
  <2>1. phase = "open" /\ pending' = pending \cup {o}
    BY <1>1, <1>5, CreatesFacts, CreateFacts
  <2>2. RootClosures' \subseteq RootClosures \cup {o}
    <3>1. CASE o \in Cdata
      BY <1>5, <3>1, FinalizerAssumption DEF Creates, New, RootClosures
    <3>2. CASE o \in Closures /\ Index(o)
      BY <3>2 DEF Index, RootClosures
    <3>3. ASSUME NEW c \in Pointers, CallPointer(c, o) PROVE RootClosures' \subseteq RootClosures \cup {o}
      <4>1. callbacks' = [callbacks EXCEPT ![c] = o] /\ UNCHANGED <<held, cache>>
        BY <3>3 DEF CallPointer
      <4>2. \A d \in Cdata : callbacks'[d] \in {callbacks[d], o}
        BY <1>3, <4>1
      <4> QED BY <4>1, <4>2 DEF RootClosures
    <3> QED BY <1>5, <3>1, <3>2, <3>3, FinalizerAssumption DEF Creates
  <2> QED BY <1>2, <2>1, <2>2
<1>6. ASSUME NEW o \in Objects, Calls(o) PROVE RootClosures' \subseteq pending'
  <2>1. phase' = phase /\ pending' = pending /\ UNCHANGED <<held, cache>>
    BY <1>1, <1>6, CallsFacts
  <2>2. \A d \in Cdata : callbacks'[d] \in {callbacks[d], None}
    BY <1>3, <1>6 DEF Calls, FreeOwner, FinalizeByC, BeginFinalizer
  <2>3. RootClosures' \subseteq RootClosures
    BY <2>1, <2>2 DEF RootClosures
  <2> QED BY <1>2, <2>1, <2>3
<1>7. CASE Collect
  <2>1. PICK S \in SUBSET pending : pending' = pending \ S /\ S \cap Roots = {}
    BY <1>7, CollectFacts
  <2>2. phase = "open" /\ RootClosures' = RootClosures
    BY <1>7 DEF Collect, RootClosures
  <2>3. S \cap RootClosures = {}
    BY <1>1, <2>1, RootsAre
  <2> QED BY <1>2, <2>1, <2>2, <2>3
<1>8. CASE Close
  BY <1>8, CloseFacts
<1> QED BY <1>4, <1>5, <1>6, <1>7, <1>8, NextCases

\* A function the program holds is pending, so it may become a finalizer.
LEMMA HeldPending ==
    ASSUME IInv, phase = "open", NEW f \in held \cap Closures
    PROVE  f \in pending
BY DEF IInv, RootsPending, Roots

LEMMA TableStep ==
    ASSUME IInv, [Next]_vars
    PROVE  TableMarked'
<1>1. TypeOK /\ RestOK /\ TableMarked
  BY TypeParts DEF IInv
<1> SUFFICES ASSUME phase' = "open", lua' = "5.1", NEW c \in Cdata, gc'[c] \in Closures
             PROVE  gc'[c] \in pending'
  BY DEF TableMarked
<1>2. phase = "open" /\ lua = "5.1" => (gc[c] \in Closures => gc[c] \in pending)
  BY <1>1 DEF TableMarked
<1>3. gc \in [Cdata -> {None, Plain} \cup Made]
  BY <1>1 DEF RestOK
<1>4. CASE Quiet
  <2>1. UNCHANGED <<lua, phase, pending>>
    BY <1>1, <1>4, QuietFacts
  <2>2. ASSUME NEW d \in Cdata, NEW f \in {None, Plain} \cup held, SetGc(d, f)
        PROVE  gc'[c] \in pending'
    <3>1. gc' = [gc EXCEPT ![d] = f]
      BY <2>2 DEF SetGc
    <3>2. gc'[c] = gc[c] \/ gc'[c] = f
      BY <1>3, <3>1
    <3>3. f \in Closures => f \in held
      BY FinalizerAssumption
    <3> QED BY <1>2, <2>1, <3>2, <3>3, HeldPending
  <2>3. CASE UNCHANGED gc
    BY <1>2, <2>1, <2>3
  <2> QED BY <1>4, <2>2, <2>3 DEF Quiet, Drop, DropModule, Resurrect, EndFinalizer, Index, vars
<1>5. ASSUME NEW o \in Objects, Creates(o) PROVE gc'[c] \in pending'
  <2>1. phase = "open" /\ lua' = lua /\ pending' = pending \cup {o}
    BY <1>1, <1>5, CreatesFacts, CreateFacts
  <2>2. CASE UNCHANGED gc
    BY <1>2, <2>1, <2>2
  <2>3. CASE o \in Cdata /\ New(o)
    <3>1. PICK f \in {None, Plain} : gc' = [gc EXCEPT ![o] = f]
      BY <2>3 DEF New
    <3>2. gc'[c] = gc[c]
      BY <1>3, <3>1, FinalizerAssumption
    <3> QED BY <1>2, <2>1, <3>2
  <2> QED BY <1>5, <2>2, <2>3 DEF Creates, Index, CallPointer
<1>6. ASSUME NEW o \in Objects, Calls(o) PROVE gc'[c] \in pending'
  BY <1>1, <1>2, <1>6, CallsFacts
<1>7. CASE Collect
  <2>1. PICK S \in SUBSET pending :
           /\ pending' = pending \ S /\ (lua = "5.1" => S \cap TableHolds = {})
           /\ gc'[c] \in {gc[c], None}
    BY <1>7, CollectFacts
  <2>2. phase = "open" /\ lua' = lua
    BY <1>7 DEF Collect
  <2>3. gc'[c] = gc[c]
    BY <2>1, FinalizerAssumption
  <2>4. gc[c] \in TableHolds
    BY <2>3 DEF TableHolds, Value
  <2> QED BY <1>2, <2>1, <2>2, <2>3, <2>4
<1>8. CASE Close
  BY <1>8, CloseFacts
<1> QED BY <1>4, <1>5, <1>6, <1>7, <1>8, NextCases

-----------------------------------------------------------------------------
(* The order in which functions and cdata are finalized *)

\* FoundNoSooner for a cdata c and its finalizer f.
NoSooner(c, f) ==
    \/ f \in pending
    \/ f \in Queued /\ c \in Queued /\ FoundBefore(c, f)
    \/ Finalized(f) /\ c \in Queued /\ Older(c, f)

LEMMA FoundStep ==
    ASSUME IInv, [Next]_vars
    PROVE  FoundNoSooner'
<1>1. TypeOK /\ RestOK /\ FoundNoSooner /\ EntryKept
  BY TypeParts DEF IInv
<1> SUFFICES ASSUME NEW c \in Cdata, ~Finalized(c)', NEW f \in Closures, f = gc'[c]
             PROVE  NoSooner(c, f)'
  BY DEF FoundNoSooner, NoSooner
<1>2. c # f
  BY FinalizerAssumption
<1>3. ASSUME ~Finalized(c), gc[c] = f PROVE NoSooner(c, f)
  BY <1>1, <1>3 DEF FoundNoSooner, NoSooner
<1>4. gc \in [Cdata -> {None, Plain} \cup Made] /\ None # f /\ Plain # f
  BY <1>1, FinalizerAssumption DEF RestOK
<1>5. CASE Quiet
  <2>1. /\ UNCHANGED <<phase, pending, queue>> /\ Queued' = Queued
        /\ \A x : Finalized(x)' <=> Finalized(x)
        /\ \A x, y : (Older(x, y)' <=> Older(x, y)) /\ (FoundBefore(x, y)' <=> FoundBefore(x, y))
    BY <1>1, <1>5, QuietFacts
  <2>2. NoSooner(c, f) => NoSooner(c, f)'
    BY <2>1 DEF NoSooner
  <2>3. ASSUME NEW d \in Cdata, NEW g \in {None, Plain} \cup held, SetGc(d, g)
        PROVE  NoSooner(c, f)'
    <3>1. gc' = [gc EXCEPT ![d] = g] /\ phase = "open"
      BY <2>3 DEF SetGc
    <3>2. f = gc[c] \/ f = g
      BY <1>4, <3>1
    <3>3. ASSUME f = g PROVE f \in pending'
      BY <1>4, <2>1, <3>1, <3>3, HeldPending
    <3> QED BY <1>3, <2>1, <2>2, <3>2, <3>3 DEF NoSooner
  <2>4. CASE UNCHANGED gc
    BY <1>3, <2>1, <2>2, <2>4
  <2> QED BY <1>5, <2>3, <2>4 DEF Quiet, Drop, DropModule, Resurrect, EndFinalizer, Index, vars
<1>6. ASSUME NEW o \in Objects, Creates(o) PROVE NoSooner(c, f)'
  <2>1. Create(o) /\ UNCHANGED queue
    BY <1>1, <1>6, CreatesFacts
  <2>2. /\ pending' = pending \cup {o} /\ Queued' = Queued
        /\ \A x : Finalized(x)' <=> Finalized(x)
        /\ \A x, y : Older(x, y) => Older(x, y)'
    BY <1>1, <2>1, CreateFacts
  <2>3. \A x, y : FoundBefore(x, y)' <=> FoundBefore(x, y)
    BY <2>1 DEF FoundBefore
  <2>4. NoSooner(c, f) => NoSooner(c, f)'
    BY <2>2, <2>3 DEF NoSooner
  <2>5. gc'[c] = gc[c]
    <3>1. CASE o \in Cdata /\ New(o)
      <4>1. PICK g \in {None, Plain} : gc' = [gc EXCEPT ![o] = g]
        BY <3>1 DEF New
      <4> QED BY <1>4, <4>1
    <3> QED BY <1>6, <3>1 DEF Creates, Index, CallPointer
  <2> QED BY <1>3, <2>2, <2>4, <2>5
<1>7. ASSUME NEW o \in Objects, Calls(o) PROVE NoSooner(c, f)'
  <2>1. Next_(o) /\ UNCHANGED <<made, pending, gc>>
    BY <1>1, <1>7, CallsFacts
  <2>2. /\ Queued' = Queued \ {o} /\ o \in Queued
        /\ \A x : Finalized(x)' <=> Finalized(x) \/ x = o
        /\ \A x, y : Older(x, y)' <=> Older(x, y)
        /\ \A x, y : FoundBefore(x, y) => FoundBefore(x, y)'
        /\ \A x \in Queued : FoundBefore(x, o) /\ x # o => Older(x, o)
    BY <1>1, <2>1, NextFacts
  <2>3. ~Finalized(c) /\ c # o /\ gc[c] = f
    BY <2>1, <2>2
  <2>4. NoSooner(c, f)
    BY <1>3, <2>3
  <2>5. CASE f = o
    <3>1. f \notin pending /\ ~Finalized(f)
      BY <1>1, <2>2, <2>5 DEF TypeOK, Finalized
    <3>2. c \in Queued /\ FoundBefore(c, f)
      BY <2>4, <3>1 DEF NoSooner
    <3> QED BY <2>2, <2>3, <2>5, <3>2 DEF NoSooner
  <2>6. CASE f # o
    BY <2>1, <2>2, <2>3, <2>4, <2>6 DEF NoSooner
  <2> QED BY <2>5, <2>6
<1>8. ASSUME NEW S \in SUBSET pending, queue' = Enqueued(S), pending' = pending \ S,
             UNCHANGED made, gc[c] = f, f \in S => c \in S \/ c \in Queued
      PROVE  NoSooner(c, f)'
  <2>1. /\ Queued' = Queued \cup S
        /\ \A x : Finalized(x)' <=> Finalized(x)
        /\ \A x, y : Older(x, y)' <=> Older(x, y)
        /\ \A x, y \in Queued : FoundBefore(x, y) => FoundBefore(x, y)'
        /\ \A x, y : y \in S => FoundBefore(x, y)'
    BY <1>1, <1>8, EnqueueFacts
  <2>2. NoSooner(c, f)
    BY <1>3, <1>8, <2>1
  <2>3. CASE f \in S
    BY <1>8, <2>1, <2>3 DEF NoSooner
  <2>4. CASE f \notin S
    BY <1>8, <2>1, <2>2, <2>4 DEF NoSooner
  <2> QED BY <2>3, <2>4
<1>9. CASE Collect
  <2>1. PICK S \in SUBSET pending :
           /\ queue' = Enqueued(S) /\ pending' = pending \ S /\ UNCHANGED made
           /\ gc'[c] \in {gc[c], None}
           /\ ~Finalized(c) /\ gc[c] \in S => c \in S
    BY <1>9, CollectFacts
  <2>2. gc[c] = f
    BY <1>4, <2>1
  <2>3. ~Finalized(c)
    BY <1>1, <2>1, EnqueueFacts
  <2> QED BY <1>8, <2>1, <2>2, <2>3
<1>10. CASE Close
  <2>1. /\ queue' = Enqueued(pending) /\ pending' = pending \ pending /\ UNCHANGED <<made, gc>>
        /\ pending \in SUBSET pending
    BY <1>10, CloseFacts
  <2>2. ~Finalized(c)
    BY <1>1, <2>1, EnqueueFacts
  <2>3. c \in Made
    BY <1>1, <1>4, <2>1 DEF EntryKept
  <2>4. c \in pending \/ c \in Queued
    BY <2>2, <2>3 DEF Finalized
  <2> QED BY <1>8, <2>1, <2>4
<1> QED BY <1>5, <1>6, <1>7, <1>9, <1>10, NextCases

\* Freed code is called only for an older cdata: under 5.2, or at the end.
LEMMA DeadStep ==
    ASSUME IInv, [Next]_vars
    PROVE  DeadFreed' /\ OldFinalizersSafe'
<1>1. /\ TypeOK /\ RestOK /\ DeadFreed /\ OldFinalizersSafe /\ CodeByOwner /\ FoundNoSooner
      /\ TableMarked
  BY TypeParts DEF IInv
<1>2. RestOK' /\ CodeByOwner' /\ RootsPending'
  BY RestStep, CodeStep, RootsStep
<1>3. /\ lua' = lua /\ (phase' = "open" => phase = "open")
      /\ \A f \in Closures : code[f] = "freed" => code'[f] = "freed"
  <2>1. CASE Quiet
    BY <1>1, <2>1, QuietFacts
  <2>2. ASSUME NEW o \in Objects, Creates(o)
        PROVE  \A f \in Closures : code[f] = "freed" => code'[f] = "freed"
    <3>1. o \notin Made
      BY <1>1, <2>2, CreatesFacts, CreateFacts
    <3>2. o \in Closures => code[o] = "none"
      BY <1>1, <3>1 DEF CodeByOwner
    <3>3. code' = code \/ (o \in Closures /\ code' = [code EXCEPT ![o] = "live"])
      BY <2>2 DEF Creates, New, Index, CallPointer
    <3> QED BY <1>1, <3>2, <3>3 DEF RestOK
  <2>3. ASSUME NEW o \in Objects, Calls(o)
        PROVE  \A f \in Closures : code[f] = "freed" => code'[f] = "freed"
    BY <1>1, <2>3 DEF Calls, FreeOwner, FinalizeByC, BeginFinalizer, RestOK
  <2> QED BY <1>1, <2>1, <2>2, <2>3, NextCases, CreatesFacts, CallsFacts, CloseFacts DEF Collect
<1>4. ASSUME NEW d \in dead'
      PROVE  /\ code'[d[2]] = "freed" /\ Older(d[1], d[2])'
             /\ phase' = "open" => lua' = "5.2"
  <2>1. CASE d \in dead
    <3>1. d[2] \in Closures
      BY <1>1, <2>1 DEF RestOK
    <3> QED BY <1>1, <1>3, <2>1, <3>1, LifeStep DEF DeadFreed, OldFinalizersSafe
  <2>2. CASE d \notin dead
    <3>1. PICK c \in Cdata : FinalizeByC(c) /\ d = <<c, gc[c]>> /\ gc[c] # None
                              /\ code[gc[c]] = "freed"
      BY <2>2 DEF Next, New, Create, Index, CallPointer, SetGc, Drop, DropModule, Resurrect,
        Collect, Close, CallGc, CdataGc, FinalizeByC, BeginFinalizer, EndFinalizer, FreeOwner, vars
    <3>2. PICK f \in Closures : f = gc[c]
      BY <3>1 DEF FinalizeByC
    <3>3. Finalized(f) /\ f \notin pending /\ f \notin Queued
      BY <1>1, <3>1, <3>2 DEF CodeByOwner, Finalized
    <3>4. ~Finalized(c)
      BY <1>1, <3>1, NextFacts DEF FinalizeByC, Finalized
    <3>5. Older(c, f)
      BY <1>1, <3>2, <3>3, <3>4 DEF FoundNoSooner
    <3>6. ~(phase = "open" /\ lua = "5.1")
      BY <1>1, <3>2, <3>3 DEF TableMarked
    <3>7. lua \in {"5.1", "5.2"}
      BY <1>1, FinalizerAssumption DEF RestOK
    <3> QED BY <1>3, <3>1, <3>2, <3>5, <3>6, <3>7, LifeStep
  <2> QED BY <2>1, <2>2
<1>5. ASSUME phase' = "open", NEW d \in dead' PROVE d[2] \notin cache'
  <2>1. PICK f \in Closures : f = d[2]
    BY <1>2, <1>5 DEF RestOK
  <2>2. f \notin pending'
    BY <1>2, <1>4, <2>1 DEF CodeByOwner, Finalized
  <2> QED BY <1>2, <1>5, <2>1, <2>2 DEF RootsPending, Roots
<1> QED BY <1>4, <1>5 DEF DeadFreed, OldFinalizersSafe

-----------------------------------------------------------------------------
(* The theorems *)

\* Every reachable state satisfies the inductive invariant: registrations reach
\* the finalizers, and a function is not found dead before what it finalizes
\* (ffi_gc, cdata_gc, callback_free).
THEOREM Invariance == Spec => []IInv
<1>1. Init => IInv
  <2> SUFFICES ASSUME Init PROVE IInv
    OBVIOUS
  <2>1. Made = {} /\ Queued = {} /\ \A o : ~Finalized(o)
    BY DEF Init, Made, Queued, Finalized, ToSet
  <2>2. TypeOK
    <3>1. LifeOK
      BY <2>1, EmptySeq DEF Init, LifeOK, QueueOK, IsInjective
    <3>2. RestOK
      BY <2>1 DEF Init, RestOK, Finalizer
    <3> QED BY <3>1, <3>2, TypeParts
  <2>3. EntryKept /\ CodeByOwner /\ FinalizerKept
    BY <2>1 DEF Init, EntryKept, CodeByOwner, FinalizerKept
  <2>4. RootsPending
    BY <2>2, TypeParts, RootsAre DEF Init, RootsPending, RootClosures
  <2>5. FoundNoSooner /\ TableMarked
    BY FinalizerAssumption DEF Init, FoundNoSooner, TableMarked
  <2>6. DeadFreed /\ OldFinalizersSafe
    BY DEF Init, DeadFreed, OldFinalizersSafe
  <2> QED BY <2>2, <2>3, <2>4, <2>5, <2>6 DEF IInv
<1>2. IInv /\ [Next]_vars => IInv'
  <2> SUFFICES ASSUME IInv, [Next]_vars PROVE IInv'
    OBVIOUS
  <2>1. TypeOK'
    <3>1. LifeOK' /\ RestOK'
      BY LifeStep, RestStep
    <3> QED BY <3>1 DEF TypeOK, LifeOK, RestOK, QueueOK
  <2> QED BY <2>1, EntryStep, CodeStep, RootsStep, FoundStep, TableStep, DeadStep DEF IInv
<1> QED BY <1>1, <1>2, PTL DEF Spec

\* Types of the gc table, the callbacks table and the collector's queues.
THEOREM TypeCorrect == Spec => []TypeOK
BY Invariance, PTL DEF IInv

\* The finalizer of a cdata is the one registered last, and no entry of the weak
\* gc table is lost before it is called.
THEOREM EveryFinalizerCalled == Spec => []FinalizerKept
BY Invariance, PTL DEF IInv

\* callback_free never frees code that the program can still call.
THEOREM CodeOutlivesUse == Spec => []ReachableCodeLive
<1>1. IInv => ReachableCodeLive
  <2> SUFFICES ASSUME IInv, phase = "open", NEW f \in Closures,
                      f \in held \cup cache \cup {callbacks[c] : c \in held \cap Cdata}
               PROVE  code[f] = "live"
    BY DEF ReachableCodeLive
  <2>1. f \in Roots
    BY FinalizerAssumption DEF Roots, Pins
  <2>2. f \in pending /\ f \in Made /\ ~Finalized(f)
    BY <2>1 DEF IInv, RootsPending, TypeOK, Finalized
  <2> QED BY <2>2 DEF IInv, CodeByOwner, TypeOK
<1> QED BY <1>1, Invariance, PTL

\* A C function compiled before the cdata is a safe finalizer for it; any is
\* under Lua 5.1 and while its module is kept, until lua_close.
THEOREM OldFunctionsFinalize == Spec => []OldFinalizersSafe
BY Invariance, PTL DEF IInv
=============================================================================
