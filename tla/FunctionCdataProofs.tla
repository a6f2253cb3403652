------------------------ MODULE FunctionCdataProofs ------------------------
(***************************************************************************)
(* Proofs about FunctionCdata for every value of its constants: what the   *)
(* callbacks run checks, and that the module implements CallbackSpec.      *)
(***************************************************************************)
EXTENDS FunctionCdata, SequenceTheorems, TLAPS

-----------------------------------------------------------------------------
(* The stack *)

LEMMA FrameType ==
  ASSUME TypeOK, NEW i \in 1..Len(stack)
  PROVE  /\ stack[i] \in Frames
         /\ stack[i].kind \in {"closure", "compile", "callback"}
         /\ stack[i].kind = "closure" => stack[i].id \in Closures /\ stack[i].ptr \in Ptrs
         /\ stack[i].kind = "compile" => stack[i].id \in Cdatas /\ stack[i].ptr \in Ptrs
         /\ stack[i].kind = "callback" => stack[i].id \in Blocks /\ stack[i].fn \in Fns
<1>1. stack[i] \in Frames
  BY ElementOfSeq DEF TypeOK
<1> QED BY <1>1 DEF Frames

LEMMA TopType ==
  ASSUME TypeOK, stack # <<>>
  PROVE  Len(stack) \in 1..Len(stack) /\ Top = stack[Len(stack)] /\ Len(stack) \in Nat
<1>1. Len(stack) \in Nat \ {0}
  BY EmptySeq DEF TypeOK
<1> QED BY <1>1 DEF Top

\* A call puts a frame on the stack.
LEMMA StackPush ==
  ASSUME TypeOK, NEW w \in Frames, stack' = Append(stack, w)
  PROVE  /\ stack' \in Seq(Frames) /\ Len(stack) \in Nat /\ Len(stack') = Len(stack) + 1
         /\ \A i \in 1..Len(stack) : stack'[i] = stack[i]
         /\ stack'[Len(stack')] = w
BY AppendProperties, LenProperties DEF TypeOK

\* A return or an error takes frames away.
LEMMA StackCut ==
  ASSUME TypeOK, NEW n \in 0..Len(stack), stack' = SubSeq(stack, 1, n)
  PROVE  /\ stack' \in Seq(Frames) /\ Len(stack') = n /\ Len(stack) \in Nat
         /\ \A i \in 1..n : i \in 1..Len(stack) /\ stack'[i] = stack[i]
<1>1. Len(stack) \in Nat /\ n \in Nat /\ n <= Len(stack)
  BY LenProperties DEF TypeOK
<1>2. \A i \in 1..n : i \in 1..Len(stack) /\ stack[i] \in Frames
  BY <1>1, ElementOfSeq DEF TypeOK
<1>3. /\ SubSeq(stack, 1, n) \in Seq(Frames)
      /\ Len(SubSeq(stack, 1, n)) = IF 1 <= n THEN n - 1 + 1 ELSE 0
      /\ \A i \in 1..(n - 1 + 1) : SubSeq(stack, 1, n)[i] = stack[1 + i - 1]
  BY <1>1, <1>2, SubSeqProperties
<1> QED BY <1>1, <1>2, <1>3

\* The closure that was compiled replaces the compilation.
LEMMA StackTop ==
  ASSUME TypeOK, stack # <<>>, NEW w \in Frames, stack' = [stack EXCEPT ![Len(stack)] = w]
  PROVE  /\ stack' \in Seq(Frames) /\ Len(stack') = Len(stack) /\ Len(stack) \in Nat
         /\ \A i \in 1..(Len(stack) - 1) : stack'[i] = stack[i]
         /\ stack'[Len(stack)] = w
<1>1. Len(stack) \in 1..Len(stack) /\ Len(stack) \in Nat
  BY TopType
<1>2. /\ stack' \in Seq(Frames) /\ Len(stack') = Len(stack)
      /\ \A j \in 1..Len(stack) : stack'[j] = IF j = Len(stack) THEN w ELSE stack[j]
  BY <1>1, ExceptSeq DEF TypeOK
<1>3. \A i \in 1..(Len(stack) - 1) : i \in 1..Len(stack) /\ i # Len(stack)
  BY <1>1
<1> QED BY <1>1, <1>2, <1>3

-----------------------------------------------------------------------------
(* Types *)

LEMMA MakeCallbackType ==
  ASSUME TypeOK, NEW c \in Cdatas, NEW k \in Blocks, NEW f \in Fns, MakeCallback(c, k, f),
         held' \subseteq Cdatas, cmem' \subseteq Ptrs, misuse' = misuse
  PROVE  TypeOK'
BY DEF MakeCallback, TypeOK, Ptrs, Frames

\* The frames that the calls put on the stack.
LEMMA NewFrame ==
  ASSUME TypeOK, CachedLive
  PROVE  /\ \A c \in Cdatas : CallCached(c) =>
              Frame("closure", callbacks[c], closure[callbacks[c]], NilFn) \in Frames
         /\ \A c \in Cdatas : BeginCall(c) => Frame("compile", c, cd[c].ptr, NilFn) \in Frames
         /\ \A cl \in Closures : EndCall(cl) =>
              Top.id \in Cdatas /\ Top.ptr \in Ptrs
                /\ Frame("closure", cl, Top.ptr, NilFn) \in Frames
         /\ \A k \in Blocks : EnterCallback(k) => Frame("callback", k, k, block[k]) \in Frames
<1>1. ASSUME NEW c \in Cdatas, CallCached(c)
      PROVE  Frame("closure", callbacks[c], closure[callbacks[c]], NilFn) \in Frames
  <2>1. callbacks[c] \in Closures /\ closure[callbacks[c]] \in Ptrs
    BY <1>1 DEF CallCached, CachedLive, TypeOK
  <2> QED BY <2>1 DEF Frame, Frames
<1>2. ASSUME NEW c \in Cdatas
      PROVE  Frame("compile", c, cd[c].ptr, NilFn) \in Frames
  BY DEF TypeOK, Frame, Frames
<1>3. ASSUME NEW cl \in Closures, EndCall(cl)
      PROVE  Top.id \in Cdatas /\ Top.ptr \in Ptrs
               /\ Frame("closure", cl, Top.ptr, NilFn) \in Frames
  <2>1. Top.id \in Cdatas /\ Top.ptr \in Ptrs
    BY <1>3, TopType, FrameType DEF EndCall
  <2> QED BY <2>1 DEF Frame, Frames
<1>4. ASSUME NEW k \in Blocks, EnterCallback(k)
      PROVE  Frame("callback", k, k, block[k]) \in Frames
  BY <1>4 DEF EnterCallback, LiveBlock, TypeOK, Frame, Frames
<1> QED BY <1>1, <1>2, <1>3, <1>4

LEMMA TypeStep == TypeOK /\ CachedLive /\ [Next]_vars => TypeOK'
<1> SUFFICES ASSUME TypeOK, CachedLive, Step, misuse' = misuse PROVE TypeOK'
  BY DEF Next, TypeOK, vars
<1>1. ASSUME NEW c \in Cdatas, NEW k \in Blocks, NEW f \in Fns, NewCallback(c, k, f)
      PROVE  TypeOK'
  BY <1>1, MakeCallbackType DEF NewCallback, TypeOK
<1>2. ASSUME NEW c \in Cdatas, NEW k \in Blocks, NEW f \in Fns, PassLuaFunction(c, k, f)
      PROVE  TypeOK'
  BY <1>2, MakeCallbackType DEF PassLuaFunction, TypeOK, Ptrs
<1>3. ASSUME NEW c \in Cdatas, NEW p \in Ptrs, NewPointer(c, p)
      PROVE  TypeOK'
  BY <1>3 DEF NewPointer, TypeOK
<1>4. ASSUME NEW c \in Cdatas, NEW d \in Cdatas, NEW p \in Ptrs, CopyWithType(c, d, p)
      PROVE  TypeOK'
  BY <1>4 DEF CopyWithType, TypeOK
<1>5. ASSUME NEW c \in Cdatas, PassPointer(c)
      PROVE  TypeOK'
  BY <1>5 DEF PassPointer, TypeOK
<1>6. ASSUME NEW p \in Ptrs, Overwrite(p)
      PROVE  TypeOK'
  BY <1>6 DEF Overwrite, TypeOK
<1>7. ASSUME NEW c \in Cdatas, Drop(c)
      PROVE  TypeOK'
  BY <1>7 DEF Drop, TypeOK
<1>8. ASSUME NEW c \in Cdatas, NEW f \in LuaFns, Set(c, f)
      PROVE  TypeOK'
  BY <1>8 DEF Set, TypeOK, Fns
<1>9. ASSUME NEW c \in Cdatas, Free(c)
      PROVE  TypeOK'
  <2>1. block' \in [Blocks -> Fns \cup {Dead}]
    BY <1>9 DEF Free, TypeOK
  <2>2. cd' \in [Cdatas -> [live : BOOLEAN, jitted : BOOLEAN, ptr : Ptrs]]
    BY <1>9 DEF Free, TypeOK, Ptrs
  <2> QED BY <1>9, <2>1, <2>2 DEF Free, TypeOK
<1>10. ASSUME NEW c \in Cdatas, CallCached(c)
       PROVE  TypeOK'
  BY <1>10, NewFrame, StackPush DEF CallCached, TypeOK
<1>11. ASSUME NEW c \in Cdatas, BeginCall(c)
       PROVE  TypeOK'
  BY <1>11, NewFrame, StackPush DEF BeginCall, TypeOK
<1>12. ASSUME NEW cl \in Closures, EndCall(cl)
       PROVE  TypeOK'
  BY <1>12, NewFrame, StackTop DEF EndCall, TypeOK
<1>13. ASSUME NEW k \in Blocks, EnterCallback(k)
       PROVE  TypeOK'
  BY <1>13, NewFrame, StackPush DEF EnterCallback, TypeOK
<1>14. ASSUME NEW p \in Ptrs, EnterFreed(p)
       PROVE  TypeOK'
  BY <1>14 DEF EnterFreed, TypeOK
<1>15. CASE Return
  <2>1. Len(stack) - 1 \in 0..Len(stack)
    BY <1>15, TopType DEF Return
  <2> QED BY <1>15, <2>1, StackCut DEF Return, TypeOK
<1>16. ASSUME NEW n \in 0..(Len(stack) - 1), Error(n)
       PROVE  TypeOK'
  <2>1. n \in 0..Len(stack)
    BY LenProperties DEF TypeOK
  <2> QED BY <1>16, <2>1, StackCut DEF Error, TypeOK
<1>17. ASSUME NEW c \in Cdatas, Collect(c)
       PROVE  TypeOK'
  BY <1>17 DEF Collect, NoCdata, TypeOK, Ptrs
<1>18. ASSUME NEW cl \in Closures, CollectClosure(cl)
       PROVE  TypeOK'
  BY <1>18 DEF CollectClosure, TypeOK
<1> QED BY <1>1, <1>2, <1>3, <1>4, <1>5, <1>6, <1>7, <1>8, <1>9, <1>10, <1>11, <1>12,
           <1>13, <1>14, <1>15, <1>16, <1>17, <1>18 DEF Step

-----------------------------------------------------------------------------
(* The inductive invariant *)

\* A frame is an old one, or the one that the step puts on top.
LEMMA StackStep ==
  ASSUME TypeOK, CachedLive, [Next]_vars
  PROVE  \A i \in 1..Len(stack') :
         \/ i \in 1..Len(stack) /\ stack'[i] = stack[i]
         \/ \E c \in Cdatas :
              CallCached(c)
                /\ stack'[i] = Frame("closure", callbacks[c], closure[callbacks[c]], NilFn)
         \/ \E c \in Cdatas : BeginCall(c) /\ stack'[i] = Frame("compile", c, cd[c].ptr, NilFn)
         \/ \E cl \in Closures : EndCall(cl) /\ stack'[i] = Frame("closure", cl, Top.ptr, NilFn)
         \/ \E k \in Blocks :
              EnterCallback(k) /\ stack'[i] = Frame("callback", k, k, block[k])
<1> DEFINE Old == \A i \in 1..Len(stack') : i \in 1..Len(stack) /\ stack'[i] = stack[i]
           Top1(w) == \A i \in 1..Len(stack') :
                        (i \in 1..Len(stack) /\ stack'[i] = stack[i]) \/ stack'[i] = w
<1>0. TypeOK'
  BY TypeStep
<1>1. ASSUME NEW w \in Frames, stack' = Append(stack, w)
      PROVE  Top1(w)
  BY <1>1, StackPush
<1>2. ASSUME NEW n \in 0..Len(stack), stack' = SubSeq(stack, 1, n)
      PROVE  Old
  BY <1>2, StackCut
<1>3. ASSUME NEW c \in Cdatas, CallCached(c)
      PROVE  Top1(Frame("closure", callbacks[c], closure[callbacks[c]], NilFn))
  BY <1>1, <1>3, NewFrame DEF CallCached
<1>4. ASSUME NEW c \in Cdatas, BeginCall(c)
      PROVE  Top1(Frame("compile", c, cd[c].ptr, NilFn))
  BY <1>1, <1>4, NewFrame DEF BeginCall
<1>5. ASSUME NEW cl \in Closures, EndCall(cl)
      PROVE  Top1(Frame("closure", cl, Top.ptr, NilFn))
  <2>1. stack' = [stack EXCEPT ![Len(stack)] = Frame("closure", cl, Top.ptr, NilFn)]
    BY <1>5 DEF EndCall
  <2> QED BY <1>5, <2>1, NewFrame, StackTop DEF EndCall
<1>6. ASSUME NEW k \in Blocks, EnterCallback(k)
      PROVE  Top1(Frame("callback", k, k, block[k]))
  BY <1>1, <1>6, NewFrame DEF EnterCallback
<1>7. Return => Old
  <2>1. Return => Len(stack) - 1 \in 0..Len(stack)
    BY TopType DEF Return
  <2> QED BY <2>1, <1>2 DEF Return
<1>8. ASSUME NEW n \in 0..(Len(stack) - 1), Error(n)
      PROVE  Old
  <2>1. n \in 0..Len(stack)
    BY LenProperties DEF TypeOK
  <2> QED BY <1>8, <2>1, <1>2 DEF Error
<1> HIDE DEF Top1, Old
<1>9. UNCHANGED stack \/ Old
        \/ (\E c \in Cdatas : CallCached(c) \/ BeginCall(c))
        \/ (\E cl \in Closures : EndCall(cl)) \/ (\E k \in Blocks : EnterCallback(k))
  BY <1>7, <1>8 DEF Next, Step, vars, NewCallback, PassLuaFunction, MakeCallback, NewPointer,
    CopyWithType, PassPointer, Overwrite, Drop, Set, Free, EnterFreed, Collect, CollectClosure
<1> USE DEF Top1, Old
<1> QED BY <1>3, <1>4, <1>5, <1>6, <1>9

\* What the collector may take is not held.
LEMMA HeldLiveStep ==
  ASSUME TypeOK, HeldLive, [Next]_vars
  PROVE  HeldLive'
<1>1. ASSUME NEW c \in Cdatas, NEW k \in Blocks, NEW f \in Fns, MakeCallback(c, k, f),
             held' \subseteq held \cup {c}
      PROVE  HeldLive'
  BY <1>1 DEF MakeCallback, TypeOK, HeldLive
<1>2. ASSUME NEW c \in Cdatas, NEW d \in Cdatas, NEW p \in Ptrs,
             NewPointer(c, p) \/ CopyWithType(c, d, p)
      PROVE  HeldLive'
  BY <1>2 DEF NewPointer, CopyWithType, TypeOK, HeldLive
<1>3. ASSUME NEW c \in Cdatas, Drop(c)
      PROVE  HeldLive'
  BY <1>3 DEF Drop, TypeOK, HeldLive
<1>4. ASSUME NEW c \in Cdatas, Free(c)
      PROVE  HeldLive'
  BY <1>4 DEF Free, TypeOK, HeldLive
<1>5. ASSUME NEW c \in Cdatas, Collect(c)
      PROVE  HeldLive'
  BY <1>5 DEF Collect, TypeOK, HeldLive
<1>6. CASE UNCHANGED <<cd, held>>
  BY <1>6 DEF HeldLive
<1> QED BY <1>1, <1>2, <1>3, <1>4, <1>5, <1>6 DEF Next, Step, vars, NewCallback,
    PassLuaFunction, PassPointer, Overwrite, Set, CallCached, BeginCall, EndCall,
    EnterCallback, EnterFreed, Return, Error, CollectClosure

\* The collector takes no closure that is in the table, and only a compilation
\* puts one there.
LEMMA CachedLiveStep ==
  ASSUME TypeOK, CachedLive, [Next]_vars
  PROVE  CachedLive'
<1>1. ASSUME NEW c \in Cdatas, NEW k \in Blocks, NEW f \in Fns, MakeCallback(c, k, f)
      PROVE  CachedLive'
  BY <1>1, FunctionCdataAssumption DEF MakeCallback, TypeOK, CachedLive
<1>2. ASSUME NEW c \in Cdatas, NEW f \in LuaFns, Set(c, f)
      PROVE  CachedLive'
  BY <1>2, FunctionCdataAssumption DEF Set, TypeOK, CachedLive
<1>3. ASSUME NEW c \in Cdatas, Free(c)
      PROVE  CachedLive'
  BY <1>3, FunctionCdataAssumption DEF Free, TypeOK, CachedLive
<1>4. ASSUME NEW cl \in Closures, EndCall(cl)
      PROVE  CachedLive'
  <2>1. Top.id \in Cdatas /\ Top.ptr # Dead
    BY <1>4, NewFrame, FunctionCdataAssumption DEF Ptrs
  <2> QED BY <1>4, <2>1 DEF EndCall, TypeOK, CachedLive
<1>5. ASSUME NEW cl \in Closures, CollectClosure(cl)
      PROVE  CachedLive'
  BY <1>5 DEF CollectClosure, TypeOK, CachedLive
<1>6. CASE UNCHANGED <<callbacks, closure>>
  BY <1>6 DEF CachedLive
<1> QED BY <1>1, <1>2, <1>3, <1>4, <1>5, <1>6 DEF Next, Step, vars, NewCallback,
    PassLuaFunction, NewPointer, CopyWithType, PassPointer, Overwrite, Drop, CallCached,
    BeginCall, EnterCallback, EnterFreed, Return, Error, Collect

\* A cdata whose closure is compiled stays as it is: only cb:free() changes the
\* pointer of a cdata, and the collector finds it on the stack.
LEMMA CompileCurrentStep ==
  ASSUME TypeOK, HeldLive, CachedLive, CompileCurrent, [Next]_vars
  PROVE  CompileCurrent'
<1> SUFFICES ASSUME "finalizer" \notin misuse, NEW i \in 1..Len(stack'),
                    stack'[i].kind = "compile"
             PROVE  cd'[stack'[i].id].live /\ cd'[stack'[i].id].ptr = stack'[i].ptr
  BY DEF CompileCurrent, Next, vars
<1>1. ASSUME NEW c \in Cdatas, BeginCall(c), stack'[i] = Frame("compile", c, cd[c].ptr, NilFn)
      PROVE  cd'[stack'[i].id].live /\ cd'[stack'[i].id].ptr = stack'[i].ptr
  BY <1>1 DEF BeginCall, HeldLive, Frame
<1>2. ASSUME i \in 1..Len(stack), stack'[i] = stack[i]
      PROVE  cd'[stack'[i].id].live /\ cd'[stack'[i].id].ptr = stack'[i].ptr
  <2> DEFINE c == stack[i].id
  <2>1. c \in Cdatas /\ cd[c].live /\ cd[c].ptr = stack[i].ptr
    BY <1>2, FrameType DEF CompileCurrent
  <2>2. ASSUME NEW d \in Cdatas, Free(d)
        PROVE  cd'[c] = cd[c]
    BY <1>2, <2>1, <2>2 DEF Free, MayFree, TypeOK
  <2>3. ASSUME NEW d \in Cdatas, Collect(d)
        PROVE  cd'[c] = cd[c]
    BY <1>2, <2>1, <2>3 DEF Collect, TypeOK
  <2>4. ASSUME NEW d \in Cdatas, ~cd[d].live, NEW v, cd' = [cd EXCEPT ![d] = v]
        PROVE  cd'[c] = cd[c]
    BY <2>1, <2>4 DEF TypeOK
  <2>5. cd'[c] = cd[c]
    BY <2>2, <2>3, <2>4 DEF Next, Step, vars, NewCallback, MakeCallback, PassLuaFunction,
      NewPointer, CopyWithType, PassPointer, Overwrite, Drop, Set, CallCached, BeginCall,
      EndCall, EnterCallback, EnterFreed, Return, Error, CollectClosure
  <2> QED BY <1>2, <2>1, <2>5
<1>3. \/ i \in 1..Len(stack) /\ stack'[i] = stack[i]
      \/ \E c \in Cdatas : BeginCall(c) /\ stack'[i] = Frame("compile", c, cd[c].ptr, NilFn)
  <2>1. \A x, y, z : /\ Frame("closure", x, y, z).kind # "compile"
                     /\ Frame("callback", x, y, z).kind # "compile"
    BY DEF Frame
  <2> QED BY <2>1, StackStep
<1> QED BY <1>1, <1>2, <1>3

\* Two callbacks have two pieces of code, and only cb:free() ends one.
LEMMA OwnBlockStep ==
  ASSUME TypeOK, HeldLive, OwnBlock, [Next]_vars
  PROVE  OwnBlock'
<1> SUFFICES ASSUME "copy" \notin misuse PROVE OwnBlock'
  BY DEF OwnBlock, Next, vars
<1>1. ASSUME NEW c \in Cdatas, NEW k \in Blocks, NEW f \in Fns, MakeCallback(c, k, f),
             misuse' = misuse
      PROVE  OwnBlock'
  <2>1. f # Dead /\ k # Null
    BY FunctionCdataAssumption DEF Fns
  <2> QED BY <1>1, <2>1 DEF MakeCallback, TypeOK, OwnBlock, LiveBlock
<1>2. ASSUME NEW c \in Cdatas, NEW p \in Ptrs, NewPointer(c, p), misuse' = misuse
      PROVE  OwnBlock'
  BY <1>2 DEF NewPointer, TypeOK, OwnBlock, LiveBlock
<1>3. ASSUME NEW c \in Cdatas, NEW f \in LuaFns, Set(c, f), misuse' = misuse
      PROVE  OwnBlock'
  BY <1>3, FunctionCdataAssumption DEF Set, TypeOK, OwnBlock, LiveBlock
<1>4. ASSUME NEW c \in Cdatas, Free(c), misuse' = misuse
      PROVE  OwnBlock'
  <2>1. CASE UNCHANGED <<cd, block>>
    BY <1>4, <2>1 DEF OwnBlock, LiveBlock
  <2>2. CASE ~UNCHANGED <<cd, block>>
    <3>1. /\ cd[c].jitted /\ LiveBlock(cd[c].ptr)
          /\ block' = [block EXCEPT ![cd[c].ptr] = Dead]
          /\ cd' = [cd EXCEPT ![c].ptr = Null]
          /\ c \in held
      BY <1>4, <2>2 DEF Free
    <3>2. /\ cd'[c].ptr = Null
          /\ \A d \in Cdatas : /\ d # c => cd'[d] = cd[d]
                               /\ cd'[d].live = cd[d].live /\ cd'[d].jitted = cd[d].jitted
      BY <3>1 DEF TypeOK
    <3>3. \A b \in Blocks : b # cd[c].ptr => block'[b] = block[b]
      BY <3>1 DEF TypeOK
    <3>4. \A d \in Cdatas : cd[d].live /\ cd[d].jitted /\ d # c => cd[d].ptr # cd[c].ptr
      BY <3>1, FunctionCdataAssumption DEF OwnBlock, LiveBlock, HeldLive
    <3> QED BY <1>4, <3>1, <3>2, <3>3, <3>4 DEF OwnBlock, LiveBlock
  <2> QED BY <2>1, <2>2
<1>5. ASSUME NEW c \in Cdatas, Collect(c), misuse' = misuse
      PROVE  OwnBlock'
  BY <1>5 DEF Collect, NoCdata, TypeOK, OwnBlock, LiveBlock
<1>6. CASE UNCHANGED <<cd, block, misuse>>
  BY <1>6 DEF OwnBlock, LiveBlock
<1> QED BY <1>1, <1>2, <1>3, <1>4, <1>5, <1>6 DEF Next, Step, vars, NewCallback,
    PassLuaFunction, CopyWithType, PassPointer, Overwrite, Drop, CallCached, BeginCall,
    EndCall, EnterCallback, EnterFreed, Return, Error, CollectClosure

\* The cdata that owns the code of a callback keeps its entry, whatever becomes
\* of other cdata.
LEMMA PinnedStep ==
  ASSUME TypeOK, CachedLive, PinnedWhileLive, [Next]_vars
  PROVE  PinnedWhileLive'
<1> DEFINE Owns(c, k) ==
      cd[c].live /\ cd[c].jitted /\ cd[c].ptr = k /\ callbacks[c] # Absent
<1>1. ASSUME NEW c \in Cdatas, NEW k \in Blocks, NEW f \in Fns, MakeCallback(c, k, f)
      PROVE  PinnedWhileLive'
  <2> SUFFICES ASSUME NEW b \in Blocks, block'[b] # Dead
               PROVE  \E d \in Cdatas : Owns(d, b)'
    BY DEF PinnedWhileLive
  <2>1. CASE b = k
    BY <1>1, <2>1, FunctionCdataAssumption DEF MakeCallback, TypeOK
  <2>2. CASE b # k
    <3>1. PICK d \in Cdatas : Owns(d, b)
      BY <1>1, <2>2 DEF MakeCallback, TypeOK, PinnedWhileLive
    <3> QED BY <1>1, <3>1 DEF MakeCallback, TypeOK
  <2> QED BY <2>1, <2>2
<1>2. ASSUME NEW c \in Cdatas, NEW d \in Cdatas, NEW p \in Ptrs,
             NewPointer(c, p) \/ CopyWithType(c, d, p)
      PROVE  PinnedWhileLive'
  BY <1>2 DEF NewPointer, CopyWithType, TypeOK, PinnedWhileLive
<1>3. ASSUME NEW c \in Cdatas, NEW f \in LuaFns, Set(c, f)
      PROVE  PinnedWhileLive'
  <2>1. CASE LiveBlock(cd[c].ptr)
    <3>1. /\ cd' = cd /\ Pinned # Absent
          /\ callbacks' = [callbacks EXCEPT ![c] = Pinned]
          /\ \A b \in Blocks : block'[b] # Dead => block[b] # Dead
      BY <1>3, <2>1, FunctionCdataAssumption DEF Set, LiveBlock, TypeOK
    <3> QED BY <3>1 DEF TypeOK, PinnedWhileLive
  <2> QED BY <1>3, <2>1 DEF Set, PinnedWhileLive
<1>4. ASSUME NEW c \in Cdatas, Free(c)
      PROVE  PinnedWhileLive'
  <2> SUFFICES ASSUME NEW b \in Blocks, block'[b] # Dead
               PROVE  \E d \in Cdatas : Owns(d, b)'
    BY DEF PinnedWhileLive
  <2>1. block[b] # Dead /\ (cd[c].jitted => cd[c].ptr # b)
    BY <1>4 DEF Free, LiveBlock, TypeOK
  <2>2. PICK d \in Cdatas : Owns(d, b)
    BY <2>1 DEF PinnedWhileLive
  <2> QED BY <1>4, <2>1, <2>2 DEF Free, TypeOK
<1>5. ASSUME NEW cl \in Closures, EndCall(cl)
      PROVE  PinnedWhileLive'
  <2>1. Top.id \in Cdatas /\ cl # Absent
    BY <1>5, NewFrame, FunctionCdataAssumption
  <2> QED BY <1>5, <2>1 DEF EndCall, TypeOK, PinnedWhileLive
<1>6. ASSUME NEW c \in Cdatas, Collect(c)
      PROVE  PinnedWhileLive'
  BY <1>6 DEF Collect, TypeOK, PinnedWhileLive
<1>7. CASE UNCHANGED <<cd, callbacks, block>>
  BY <1>7 DEF PinnedWhileLive
<1> QED BY <1>1, <1>2, <1>3, <1>4, <1>5, <1>6, <1>7 DEF Next, Step, vars, NewCallback,
    PassLuaFunction, PassPointer, Overwrite, Drop, CallCached, BeginCall, EnterCallback,
    EnterFreed, Return, Error, CollectClosure

\* A closure on the stack is not collected, and a callback on the stack is freed
\* only by a program that misuses it.
LEMMA ActiveStep ==
  ASSUME TypeOK, CachedLive, ActiveCodeLive, [Next]_vars
  PROVE  ActiveCodeLive'
<1> SUFFICES ASSUME fault' = "none", NEW i \in 1..Len(stack')
             PROVE  /\ stack'[i].kind = "closure" => closure'[stack'[i].id] # Dead
                    /\ stack'[i].kind = "callback" /\ "active" \notin misuse'
                         => block'[stack'[i].id] # Dead
  BY DEF ActiveCodeLive
<1>1. ASSUME NEW c \in Cdatas, CallCached(c),
             stack'[i] = Frame("closure", callbacks[c], closure[callbacks[c]], NilFn)
      PROVE  stack'[i].kind = "closure" /\ closure'[stack'[i].id] # Dead
  BY <1>1 DEF CallCached, CachedLive, Frame
<1>2. ASSUME NEW cl \in Closures, EndCall(cl),
             stack'[i] = Frame("closure", cl, Top.ptr, NilFn)
      PROVE  stack'[i].kind = "closure" /\ closure'[stack'[i].id] # Dead
  <2>1. Top.ptr # Dead
    BY <1>2, NewFrame, FunctionCdataAssumption DEF Ptrs
  <2> QED BY <1>2, <2>1 DEF EndCall, Frame, TypeOK
<1>3. ASSUME NEW k \in Blocks, EnterCallback(k), stack'[i] = Frame("callback", k, k, block[k])
      PROVE  stack'[i].kind = "callback" /\ block'[stack'[i].id] # Dead
  BY <1>3 DEF EnterCallback, LiveBlock, Frame
<1>4. ASSUME i \in 1..Len(stack), stack'[i] = stack[i]
      PROVE  /\ stack[i].kind = "closure" => closure'[stack[i].id] # Dead
             /\ stack[i].kind = "callback" /\ "active" \notin misuse
                  => block'[stack[i].id] # Dead
  <2>1. fault = "none"
    BY DEF Next, Step, vars, NewCallback, PassLuaFunction, MakeCallback, NewPointer,
      CopyWithType, PassPointer, Overwrite, Drop, Set, Free, CallCached, BeginCall, EndCall,
      EnterCallback, CanEnter, EnterFreed, Return, Error, Collect, CollectClosure, LuaRuns
  <2>2. ASSUME stack[i].kind = "closure"
        PROVE  closure'[stack[i].id] # Dead
    <3>1. stack[i].id \in Closures /\ closure[stack[i].id] # Dead
      BY <1>4, <2>1, <2>2, FrameType DEF ActiveCodeLive
    <3>2. ASSUME NEW cl \in Closures, EndCall(cl)
          PROVE  closure'[stack[i].id] # Dead
      BY <3>1, <3>2 DEF EndCall, TypeOK
    <3>3. ASSUME NEW cl \in Closures, CollectClosure(cl)
          PROVE  closure'[stack[i].id] # Dead
      BY <1>4, <2>2, <3>1, <3>3 DEF CollectClosure, NotOnStack, TypeOK
    <3>4. CASE UNCHANGED closure
      BY <3>1, <3>4
    <3> QED BY <3>2, <3>3, <3>4 DEF Next, Step, vars, NewCallback, PassLuaFunction,
        MakeCallback, NewPointer, CopyWithType, PassPointer, Overwrite, Drop, Set, Free,
        CallCached, BeginCall, EnterCallback, EnterFreed, Return, Error, Collect
  <2>3. ASSUME stack[i].kind = "callback", "active" \notin misuse
        PROVE  block'[stack[i].id] # Dead
    <3>1. stack[i].id \in Blocks /\ block[stack[i].id] # Dead
      BY <1>4, <2>1, <2>3, FrameType DEF ActiveCodeLive
    <3>2. ASSUME NEW k, NEW f \in Fns, block' = [block EXCEPT ![k] = f]
          PROVE  block'[stack[i].id] # Dead
      BY <3>1, <3>2, FunctionCdataAssumption DEF TypeOK, Fns
    <3>3. ASSUME NEW c \in Cdatas, Free(c)
          PROVE  block'[stack[i].id] # Dead
      BY <1>4, <2>3, <3>1, <3>3 DEF Free, MayFree, TypeOK
    <3>4. CASE UNCHANGED block
      BY <3>1, <3>4
    <3> QED BY <3>2, <3>3, <3>4 DEF Next, Step, vars, NewCallback, PassLuaFunction,
        MakeCallback, NewPointer, CopyWithType, PassPointer, Overwrite, Drop, Set, Fns,
        CallCached, BeginCall, EndCall, EnterCallback, EnterFreed, Return, Error, Collect,
        CollectClosure
  <2> QED BY <2>2, <2>3
<1>5. \/ stack'[i].kind = "compile"
      \/ i \in 1..Len(stack) /\ stack'[i] = stack[i]
      \/ \E c \in Cdatas :
           CallCached(c)
             /\ stack'[i] = Frame("closure", callbacks[c], closure[callbacks[c]], NilFn)
      \/ \E cl \in Closures : EndCall(cl) /\ stack'[i] = Frame("closure", cl, Top.ptr, NilFn)
      \/ \E k \in Blocks :
           EnterCallback(k) /\ stack'[i] = Frame("callback", k, k, block[k])
  <2>1. \A c \in Cdatas :
          stack'[i] = Frame("compile", c, cd[c].ptr, NilFn) => stack'[i].kind = "compile"
    BY DEF Frame
  <2> QED BY <2>1, StackStep, Zenon
<1>6. misuse' = misuse
  BY DEF Next, vars
<1> QED BY <1>1, <1>2, <1>3, <1>4, <1>5, <1>6

\* What is cached calls what the cdata holds: set and free drop the closure, and
\* a compilation ends with the pointer it began with.
LEMMA ClosureMatchesStep ==
  ASSUME TypeOK, CachedLive, CompileCurrent, ClosureMatches, [Next]_vars
  PROVE  ClosureMatches'
<1> SUFFICES ASSUME "finalizer" \notin misuse, NEW c \in Cdatas, callbacks'[c] \in Closures
             PROVE  cd'[c].live /\ closure'[callbacks'[c]] = cd'[c].ptr
  BY DEF ClosureMatches, Next, vars
<1> DEFINE Goal == cd'[c].live /\ closure'[callbacks'[c]] = cd'[c].ptr
<1>1. ASSUME NEW d \in Cdatas, NEW k \in Blocks, NEW f \in Fns, MakeCallback(d, k, f)
      PROVE  Goal
  BY <1>1, FunctionCdataAssumption DEF MakeCallback, TypeOK, ClosureMatches
<1>2. ASSUME NEW d \in Cdatas, NEW e \in Cdatas, NEW p \in Ptrs,
             NewPointer(d, p) \/ CopyWithType(d, e, p)
      PROVE  Goal
  BY <1>2 DEF NewPointer, CopyWithType, TypeOK, ClosureMatches
<1>3. ASSUME NEW d \in Cdatas, NEW f \in LuaFns, Set(d, f)
      PROVE  Goal
  BY <1>3, FunctionCdataAssumption DEF Set, TypeOK, ClosureMatches
<1>4. ASSUME NEW d \in Cdatas, Free(d)
      PROVE  Goal
  BY <1>4, FunctionCdataAssumption DEF Free, TypeOK, ClosureMatches
<1>5. ASSUME NEW cl \in Closures, EndCall(cl)
      PROVE  Goal
  <2>1. Top.id \in Cdatas /\ cd[Top.id].live /\ cd[Top.id].ptr = Top.ptr
    BY <1>5, NewFrame, TopType DEF EndCall, CompileCurrent
  <2>2. callbacks[c] \in Closures => callbacks[c] # cl
    BY <1>5 DEF EndCall, CachedLive
  <2> QED BY <1>5, <2>1, <2>2 DEF EndCall, TypeOK, ClosureMatches
<1>6. ASSUME NEW d \in Cdatas, Collect(d)
      PROVE  Goal
  BY <1>6, FunctionCdataAssumption DEF Collect, TypeOK, ClosureMatches
<1>7. ASSUME NEW cl \in Closures, CollectClosure(cl)
      PROVE  Goal
  BY <1>7 DEF CollectClosure, TypeOK, ClosureMatches
<1>8. CASE UNCHANGED <<cd, callbacks, closure>>
  BY <1>8 DEF ClosureMatches
<1> QED BY <1>1, <1>2, <1>3, <1>4, <1>5, <1>6, <1>7, <1>8 DEF Next, Step, vars, NewCallback,
    PassLuaFunction, PassPointer, Overwrite, Drop, CallCached, BeginCall, EnterCallback,
    EnterFreed, Return, Error

\* The four ways to touch freed code, each kept away by an invariant or by what
\* a careful program does.
LEMMA NoFaultStep ==
  ASSUME TypeOK, HeldLive, OwnBlock, ActiveCodeLive, NoFault, [Next]_vars
  PROVE  NoFault'
<1> SUFFICES ASSUME misuse = {}, fault = "none" PROVE fault' = "none"
  BY DEF NoFault, Next, vars
<1>1. ASSUME NEW c \in Cdatas, c \in held, cd[c].jitted, cd[c].ptr # Null
      PROVE  LiveBlock(cd[c].ptr)
  BY <1>1 DEF HeldLive, OwnBlock
<1>2. ASSUME NEW c \in Cdatas, NEW f \in LuaFns, Set(c, f)
      PROVE  fault' = "none"
  BY <1>1, <1>2 DEF Set
<1>3. ASSUME NEW c \in Cdatas, Free(c)
      PROVE  fault' = "none"
  BY <1>1, <1>3 DEF Free, MayFree
<1>4. ASSUME NEW p \in Ptrs, EnterFreed(p)
      PROVE  FALSE
  BY <1>4 DEF EnterFreed, CanEnter, MayCall
<1>5. ASSUME Return
      PROVE  fault' = "none"
  <2>1. Len(stack) \in 1..Len(stack) /\ Top = stack[Len(stack)]
    BY <1>5, TopType DEF Return
  <2>2. /\ Top.kind = "closure" => closure[Top.id] # Dead
        /\ Top.kind = "callback" => block[Top.id] # Dead
    BY <2>1 DEF ActiveCodeLive
  <2> QED BY <1>5, <2>2 DEF Return
<1>6. CASE UNCHANGED fault
  BY <1>6
<1> QED BY <1>2, <1>3, <1>4, <1>5, <1>6 DEF Next, Step, vars, NewCallback, PassLuaFunction,
    MakeCallback, NewPointer, CopyWithType, PassPointer, Overwrite, Drop, CallCached,
    BeginCall, EndCall, EnterCallback, Error, Collect, CollectClosure

LEMMA InitInvariant == Init => IInv
<1> SUFFICES ASSUME Init PROVE IInv
  OBVIOUS
<1>1. TypeOK
  BY EmptySeq DEF Init, TypeOK, NoCdata, Ptrs
<1>2. Len(stack) = 0
  BY EmptySeq DEF Init
<1> QED BY <1>1, <1>2, FunctionCdataAssumption DEF Init, IInv, NoCdata, HeldLive, CachedLive,
    CompileCurrent, OwnBlock, PinnedWhileLive, ActiveCodeLive, ClosureMatches, NoFault

\* Every reachable state satisfies the inductive invariant: a callback's block
\* has one cdata, and what is cached, held or being compiled for lives.
THEOREM Invariance == Spec => []IInv
<1>1. IInv /\ [Next]_vars => IInv'
  BY TypeStep, HeldLiveStep, CachedLiveStep, CompileCurrentStep, OwnBlockStep, PinnedStep,
    ActiveStep, ClosureMatchesStep, NoFaultStep DEF IInv
<1> QED BY InitInvariant, <1>1, PTL DEF Spec

-----------------------------------------------------------------------------
(* The properties of the callbacks run. *)

\* Every variable stays in its type: a cdata has a pointer, an entry of the
\* callbacks table is absent, a pin or a closure, and so on.
THEOREM TypeCorrect == Spec => []TypeOK
BY Invariance, PTL DEF IInv

\* Code that C may still call belongs to a cdata in the callbacks table, which
\* can set and free it.
THEOREM CallbacksPinned == Spec => []PinnedWhileLive
BY Invariance, PTL DEF IInv

\* Every call under way returns to code that exists.
THEOREM ActiveCodeStays == Spec => []ActiveCodeLive
BY Invariance, PTL DEF IInv

\* A cached closure calls the pointer that its cdata holds.
THEOREM CacheCurrent == Spec => []ClosureMatches
BY Invariance, PTL DEF IInv

\* A program without misuse never touches freed code.
THEOREM CarefulNeverFaults == Spec => []NoFault
BY Invariance, PTL DEF IInv

-----------------------------------------------------------------------------
(* The module implements CallbackSpec. *)

LEMMA RunningType ==
  ASSUME TypeOK
  PROVE  /\ Running \in Seq(Fns \cup {Dead})
         /\ Len(Running) = Len(stack) /\ Len(stack) \in Nat
         /\ \A i \in 1..Len(stack) :
              Running[i] = IF stack[i].kind = "callback" THEN stack[i].fn ELSE Dead
<1>1. Len(stack) \in Nat
  BY LenProperties DEF TypeOK
<1>2. \A i \in 1..Len(stack) : stack[i].kind = "callback" => stack[i].fn \in Fns
  BY FrameType
<1>3. Running \in [1..Len(stack) -> Fns \cup {Dead}]
  BY <1>2 DEF Running
<1> QED BY <1>1, <1>3, IsASeq, LenProperties DEF Running

\* A new frame is a new call of the abstract program.
LEMMA RunningPush ==
  ASSUME TypeOK, TypeOK', NEW w \in Frames, stack' = Append(stack, w)
  PROVE  Running' = Append(Running, IF w.kind = "callback" THEN w.fn ELSE Dead)
<1> DEFINE v == IF w.kind = "callback" THEN w.fn ELSE Dead
<1>1. v \in Fns \cup {Dead}
  BY DEF Frames
<1>2. /\ Len(stack') = Len(stack) + 1
      /\ \A i \in 1..Len(stack) : stack'[i] = stack[i]
      /\ stack'[Len(stack')] = w
  BY StackPush
<1>3. /\ Running \in Seq(Fns \cup {Dead}) /\ Len(Running) = Len(stack) /\ Len(stack) \in Nat
      /\ \A i \in 1..Len(stack) :
           Running[i] = IF stack[i].kind = "callback" THEN stack[i].fn ELSE Dead
  BY RunningType
<1>4. /\ Append(Running, v) \in Seq(Fns \cup {Dead})
      /\ Len(Append(Running, v)) = Len(stack) + 1
      /\ \A i \in 1..Len(stack) : Append(Running, v)[i] = Running[i]
      /\ Append(Running, v)[Len(stack) + 1] = v
  BY <1>1, <1>3, AppendProperties
<1>5. Running' = [i \in 1..(Len(stack) + 1) |->
                    IF stack'[i].kind = "callback" THEN stack'[i].fn ELSE Dead]
  BY <1>2 DEF Running
<1>6. Append(Running, v) = [i \in 1..(Len(stack) + 1) |-> Append(Running, v)[i]]
  BY <1>4, LenProperties
<1>7. \A i \in 1..(Len(stack) + 1) :
        (IF stack'[i].kind = "callback" THEN stack'[i].fn ELSE Dead) = Append(Running, v)[i]
  BY <1>2, <1>3, <1>4
<1> QED BY <1>5, <1>6, <1>7

\* A return, or an error, is a return or an error of the abstract program.
LEMMA RunningCut ==
  ASSUME TypeOK, TypeOK', NEW n \in 0..(Len(stack) - 1), stack' = SubSeq(stack, 1, n)
  PROVE  n \in 0..(Len(Running) - 1) /\ Running' = SubSeq(Running, 1, n)
<1>1. /\ Running \in Seq(Fns \cup {Dead}) /\ Len(Running) = Len(stack) /\ Len(stack) \in Nat
      /\ \A i \in 1..Len(stack) :
           Running[i] = IF stack[i].kind = "callback" THEN stack[i].fn ELSE Dead
  BY RunningType
<1>2. n \in 0..Len(stack)
  BY <1>1
<1>3. /\ Len(stack') = n
      /\ \A i \in 1..n : i \in 1..Len(stack) /\ stack'[i] = stack[i]
  BY <1>2, StackCut
<1>4. \A i \in 1..n : Running[i] \in Fns \cup {Dead}
  BY <1>1, <1>3, ElementOfSeq
<1>5. /\ SubSeq(Running, 1, n) \in Seq(Fns \cup {Dead})
      /\ Len(SubSeq(Running, 1, n)) = IF 1 <= n THEN n - 1 + 1 ELSE 0
      /\ \A i \in 1..(n - 1 + 1) : SubSeq(Running, 1, n)[i] = Running[1 + i - 1]
  BY <1>1, <1>4, SubSeqProperties
<1>6. SubSeq(Running, 1, n) = [i \in 1..n |-> SubSeq(Running, 1, n)[i]]
  BY <1>2, <1>5, LenProperties
<1>7. Running' = [i \in 1..n |-> IF stack'[i].kind = "callback" THEN stack'[i].fn ELSE Dead]
  BY <1>3 DEF Running
<1>8. \A i \in 1..n :
        (IF stack'[i].kind = "callback" THEN stack'[i].fn ELSE Dead) = SubSeq(Running, 1, n)[i]
  BY <1>1, <1>3, <1>5
<1> QED BY <1>1, <1>6, <1>7, <1>8

LEMMA RunningSame == UNCHANGED stack => UNCHANGED Running
BY DEF Running

\* Every step of the module is a step of CallbackSpec, or none.
LEMMA StepImplements ==
  ASSUME IInv, [Next]_vars
  PROVE  [Abstract!Next]_<<block, Running>>
<1> USE DEF IInv
<1>0. TypeOK'
  BY TypeStep
<1>1. ASSUME NEW c \in Cdatas, NEW k \in Blocks, NEW f \in Fns, MakeCallback(c, k, f)
      PROVE  Abstract!Create(k, f)
  BY <1>1, RunningSame DEF MakeCallback, Abstract!Create
<1>2. ASSUME NEW c \in Cdatas, NEW f \in LuaFns, Set(c, f)
      PROVE  UNCHANGED <<block, Running>> \/ \E k \in Blocks : Abstract!Give(k, f)
  BY <1>2, RunningSame DEF Set, LiveBlock, Abstract!Give
<1>3. ASSUME NEW c \in Cdatas, Free(c)
      PROVE  UNCHANGED <<block, Running>> \/ \E k \in Blocks : Abstract!Free(k)
  BY <1>3, RunningSame DEF Free, LiveBlock, Abstract!Free
<1>4. ASSUME NEW c \in Cdatas, CallCached(c)
      PROVE  Abstract!Call
  <2>1. Frame("closure", callbacks[c], closure[callbacks[c]], NilFn).kind # "callback"
    BY DEF Frame
  <2> QED BY <1>0, <1>4, <2>1, NewFrame, RunningPush DEF CallCached, Abstract!Call
<1>5. ASSUME NEW c \in Cdatas, BeginCall(c)
      PROVE  Abstract!Call
  <2>1. Frame("compile", c, cd[c].ptr, NilFn).kind # "callback"
    BY DEF Frame
  <2> QED BY <1>0, <1>5, <2>1, NewFrame, RunningPush DEF BeginCall, Abstract!Call
<1>6. ASSUME NEW cl \in Closures, EndCall(cl)
      PROVE  UNCHANGED <<block, Running>>
  <2> DEFINE w == Frame("closure", cl, Top.ptr, NilFn)
  <2>1. w.kind # "callback"
    BY DEF Frame
  <2>2. stack # <<>> /\ Top.kind # "callback" /\ w \in Frames
          /\ stack' = [stack EXCEPT ![Len(stack)] = w]
    BY <1>6, NewFrame DEF EndCall
  <2> HIDE DEF w
  <2>3. /\ Len(stack') = Len(stack) /\ Len(stack) \in Nat
        /\ \A i \in 1..(Len(stack) - 1) : stack'[i] = stack[i]
        /\ stack'[Len(stack)] = w
    BY <2>2, StackTop
  <2>4. \A i \in 1..Len(stack) :
          (IF stack'[i].kind = "callback" THEN stack'[i].fn ELSE Dead)
            = (IF stack[i].kind = "callback" THEN stack[i].fn ELSE Dead)
    <3>1. \A i \in 1..Len(stack) : i \in 1..(Len(stack) - 1) \/ i = Len(stack)
      BY <2>3
    <3>2. stack[Len(stack)].kind # "callback"
      BY <2>2 DEF Top
    <3> QED BY <2>1, <2>3, <3>1, <3>2
  <2>5. Running' = Running
    BY <2>3, <2>4 DEF Running
  <2> QED BY <1>6, <2>5 DEF EndCall
<1>7. ASSUME NEW k \in Blocks, EnterCallback(k)
      PROVE  Abstract!Enter(k)
  <2>1. /\ Frame("callback", k, k, block[k]).kind = "callback"
        /\ Frame("callback", k, k, block[k]).fn = block[k]
    BY DEF Frame
  <2> QED BY <1>0, <1>7, <2>1, NewFrame, RunningPush DEF EnterCallback, LiveBlock, Abstract!Enter
<1>8. ASSUME Return
      PROVE  UNCHANGED <<block, Running>>
               \/ \E n \in 0..(Len(Running) - 1) : Abstract!Leave(n)
  <2>1. CASE UNCHANGED stack
    BY <1>8, <2>1, RunningSame DEF Return
  <2>2. CASE stack' = SubSeq(stack, 1, Len(stack) - 1)
    <3>1. Len(stack) - 1 \in 0..(Len(stack) - 1)
      BY <1>8, TopType DEF Return
    <3> QED BY <1>0, <1>8, <2>2, <3>1, RunningCut DEF Return, Abstract!Leave
  <2> QED BY <1>8, <2>1, <2>2 DEF Return
<1>9. ASSUME NEW n \in 0..(Len(stack) - 1), Error(n)
      PROVE  \E m \in 0..(Len(Running) - 1) : Abstract!Leave(m)
  BY <1>0, <1>9, RunningCut DEF Error, Abstract!Leave
<1>10. CASE UNCHANGED <<block, stack>>
  BY <1>10, RunningSame
<1> QED BY <1>1, <1>2, <1>3, <1>4, <1>5, <1>6, <1>7, <1>8, <1>9, <1>10 DEF Next, Step, vars,
    NewCallback, PassLuaFunction, NewPointer, CopyWithType, PassPointer, Overwrite, Drop,
    EnterFreed, Collect, CollectClosure, Fns, Abstract!Next

\* Only cb:set changes what a callback runs, only cb:free ends it, and each
\* entry runs, to its end, the function of that moment.
THEOREM ImplementsCallbackSpec == Spec => KeepsPromise
<1>1. Init => Abstract!Init
  <2>1. Init => Running = <<>>
    BY EmptySeq DEF Init, Running
  <2> QED BY <2>1 DEF Init, Abstract!Init
<1>2. IInv /\ [Next]_vars => [Abstract!Next]_<<block, Running>>
  BY StepImplements
<1> QED BY <1>1, <1>2, Invariance, PTL DEF Spec, KeepsPromise, Abstract!Spec
=============================================================================
