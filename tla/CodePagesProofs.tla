-------------------------- MODULE CodePagesProofs --------------------------
(***************************************************************************)
(* Proofs about CodePages for every value of its constants: first what     *)
(* keeps code mapped, apart and executable, then the accounts that are     *)
(* kept of it.                                                             *)
(***************************************************************************)
EXTENDS CodePages, FiniteSetTheorems, SequenceTheorems, TLAPS

LEMMA AlignUpType ==
  ASSUME NEW n \in Nat, NEW g \in Nat \ {0}
  PROVE  /\ ((n + g - 1) \div g) * g \in Nat
         /\ ((n + g - 1) \div g) * g >= n
<1> DEFINE q == (n + g - 1) \div g
           r == (n + g - 1) % g
<1>1. q \in Int /\ r \in 0..(g - 1) /\ n + g - 1 = g * q + r
  BY SMT
<1>2. g * q >= n
  BY <1>1, SMT
<1>3. q * g = g * q
  BY <1>1, SMT
<1> QED BY <1>1, <1>2, <1>3, SMT

LEMMA DropPageType ==
  ASSUME pages \in Seq(PageIds), NEW i \in 1..Len(pages)
  PROVE  /\ DropPage(i) \in Seq(PageIds)
         /\ Len(DropPage(i)) = Len(pages) - 1
         /\ \A j \in 1..(Len(pages) - 1) :
              DropPage(i)[j] = IF j < i THEN pages[j] ELSE pages[j + 1]
<1> DEFINE n == Len(pages) - 1
<1>1. n \in Nat /\ \A j \in 1..(n + 1) : pages[j] \in PageIds
  BY LenProperties, ElementOfSeq, SMT
<1>2. DropPage(i) \in [1..n -> PageIds]
  BY <1>1, SMT DEF DropPage
<1>3. DropPage(i) \in Seq(PageIds)
  BY <1>1, <1>2, SeqDef, SMT
<1>4. Len(DropPage(i)) \in Nat /\ DOMAIN DropPage(i) = 1..Len(DropPage(i))
  BY <1>3, LenProperties
<1>5. 1..Len(DropPage(i)) = 1..n
  BY <1>2, <1>4
<1>6. Len(DropPage(i)) = n
  BY <1>1, <1>4, <1>5, SMT
<1> QED BY <1>3, <1>6 DEF DropPage

LEMMA PageFields ==
  ASSUME TypeOK, NEW p \in PageIds
  PROVE  /\ mem[p] \in Page
         /\ mem[p].size \in Nat /\ mem[p].off \in Nat /\ mem[p].freed \in Nat
         /\ mem[p].links \in 0..NLinks
         /\ mem[p].prot \in {"none", "rw", "rx"}
BY DEF TypeOK, Page

LEMMA BlockFields ==
  ASSUME TypeOK, NEW f \in Fns
  PROVE  /\ code[f] \in Block
         /\ code[f].start \in Nat /\ code[f].size \in Nat
         /\ code[f].page \in PageIds \cup {Nil}
BY DEF TypeOK, Block

\* What the updates of one page do to its type.
LEMMA PageUpdates ==
  ASSUME NEW M \in [PageIds -> Page], NEW p \in PageIds, NEW n \in Nat
  PROVE  /\ \A l \in 0..NLinks :
              [M EXCEPT ![p].links = l, ![p].off = n] \in [PageIds -> Page]
         /\ [M EXCEPT ![p].freed = n] \in [PageIds -> Page]
         /\ [M EXCEPT ![p].freed = n, ![p].prot = "rx"] \in [PageIds -> Page]
BY DEF Page

LEMMA PopFrameType ==
  ASSUME TypeOK, PopFrame
  PROVE  frame' \in Frame /\ suspended' \in Seq(Frame)
<1>1. NoFrame \in Frame
  BY DEF NoFrame, Frame
<1>2. CASE suspended = <<>>
  BY <1>1, <1>2, EmptySeq DEF PopFrame, TypeOK
<1>3. CASE suspended # <<>>
  BY <1>3, HeadTailProperties DEF PopFrame, TypeOK
<1> QED BY <1>2, <1>3

LEMMA CommitType ==
  ASSUME TypeOK, NEW sz \in Nat, Commit(sz)
  PROVE  mem' \in [PageIds -> Page]
<1>1. CASE LastPage \in PageIds
  <2>1. mem[LastPage].off + sz \in Nat
    BY <1>1 DEF TypeOK, Page
  <2> QED BY <1>1, <2>1 DEF Commit, TypeOK, Page
<1>2. CASE LastPage \notin PageIds
  BY <1>2 DEF Commit, TypeOK
<1> QED BY <1>1, <1>2

LEMMA TypeStep == TypeOK /\ [Next]_vars => TypeOK'
<1> SUFFICES ASSUME TypeOK, [Next]_vars PROVE TypeOK'
  OBVIOUS
<1> USE CodePagesAssumption
<1>1. ASSUME NEW f \in Fns, BeginCompile(f) PROVE TypeOK'
  <2>1. frame' \in Frame
    BY <1>1 DEF BeginCompile, EmptyBuffer, NoFrame, Frame
  <2>2. suspended' \in Seq(Frame)
    <3>1. <<frame>> \in Seq(Frame) /\ suspended \in Seq(Frame)
      BY DEF TypeOK
    <3>2. <<frame>> \o suspended \in Seq(Frame)
      BY <3>1, ConcatProperties
    <3> QED BY <1>1, <3>1, <3>2 DEF BeginCompile, EmptyBuffer
  <2>3. ctx' \in [owners : Seq(Fns), size : Nat]
    BY <1>1, EmptySeq DEF BeginCompile, EmptyBuffer
  <2> QED BY <1>1, <2>1, <2>2, <2>3 DEF BeginCompile, EmptyBuffer, TypeOK
<1>2. CASE Emit
  <2>1. frame.fn \in Fns
    BY <1>2 DEF Emit, FreeRefs, TypeOK, Frame
  <2>2. ctx' \in [owners : Seq(Fns), size : Nat]
    <3>1. Append(ctx.owners, frame.fn) \in Seq(Fns)
      BY <2>1 DEF TypeOK
    <3>2. ctx.size + CodeSize[frame.fn] \in Nat
      BY <2>1 DEF TypeOK
    <3> QED BY <1>2, <3>1, <3>2 DEF Emit, FreeRefs
  <2>3. frame' \in Frame /\ registry' \subseteq Refs
    <3>1. CASE frame.fn \in Callbacks
      <4>1. PICK r \in Refs \ registry :
              /\ registry' = registry \cup {r}
              /\ frame' = [frame EXCEPT !.pc = "emitted", !.ref = r]
        BY <1>2, <3>1 DEF Emit, FreeRefs
      <4> QED BY <2>1, <4>1 DEF TypeOK, Frame
    <3>2. CASE frame.fn \notin Callbacks
      BY <1>2, <2>1, <3>2 DEF Emit, FreeRefs, TypeOK, Frame
    <3> QED BY <3>1, <3>2
  <2> QED BY <1>2, <2>2, <2>3 DEF Emit, FreeRefs, TypeOK
<1>3. CASE CompileError
  BY <1>3, PopFrameType DEF CompileError, TypeOK
<1>4. CASE ReserveOnLastPage
  <2>1. CodeSz \in Nat
    BY DEF TypeOK, CodeSz
  <2>2. LastPage \in PageIds
    BY <1>4, EmptySeq, ElementOfSeq DEF ReserveOnLastPage, Fits, LastPage, TypeOK
  <2>3. mem' \in [PageIds -> Page]
    BY <1>4, <2>2 DEF ReserveOnLastPage, TypeOK, Page
  <2>4. frame' \in Frame
    BY <1>4, <2>1, <2>2 DEF ReserveOnLastPage, TypeOK, Frame, Page
  <2> QED BY <1>4, <2>3, <2>4 DEF ReserveOnLastPage, TypeOK
<1>5. ASSUME NEW p \in PageIds, ReserveNewPage(p) PROVE TypeOK'
  <2>1. CodeSz \in Nat /\ LinkTableMax \in Nat
    BY DEF TypeOK, CodeSz, LinkTableMax
  <2>2. AlignUp(CodeSz + LinkTableMax + PageHdr) \in Nat
    BY <2>1, AlignUpType DEF AlignUp
  <2>3. mem' \in [PageIds -> Page]
    BY <1>5, <2>2 DEF ReserveNewPage, TypeOK, Page
  <2>4. frame' \in Frame
    BY <1>5, <2>1 DEF ReserveNewPage, TypeOK, Frame
  <2>5. pages' \in Seq(PageIds)
    BY <1>5 DEF ReserveNewPage, TypeOK
  <2> QED BY <1>5, <2>3, <2>4, <2>5 DEF ReserveNewPage, TypeOK
<1>6. CASE LinkSlot
  <2> DEFINE p == frame.page
  <2>1. p \in PageIds
    BY <1>6 DEF LinkSlot, TypeOK, Frame
  <2>2. mem[p].links + 1 \in 0..NLinks /\ mem[p].off + JumpSize \in Nat
    <3>1. mem[p].links \in 0..NLinks /\ mem[p].links < NLinks /\ mem[p].off \in Nat
      BY <1>6, <2>1, PageFields DEF LinkSlot
    <3> QED BY <3>1
  <2>3. mem' \in [PageIds -> Page]
    <3>1. CASE Writable(p)
      <4>1. mem' = [mem EXCEPT ![p].links = mem[p].links + 1,
                               ![p].off = mem[p].off + JumpSize]
        BY <1>6, <3>1 DEF LinkSlot
      <4> QED BY <2>1, <2>2, <4>1, PageUpdates DEF TypeOK
    <3>2. CASE ~Writable(p)
      BY <1>6, <3>2 DEF LinkSlot, TypeOK
    <3> QED BY <3>1, <3>2
  <2> QED BY <1>6, <2>3 DEF LinkSlot, TypeOK
<1>7. CASE LinkDone
  <2> DEFINE p == frame.page
  <2>1. p \in PageIds
    BY <1>7 DEF LinkDone, TableFreed, CodeStart, TypeOK, Frame
  <2>2. mem[p].off \in Nat
    BY <2>1, PageFields
  <2>3. mem' \in [PageIds -> Page]
    <3>1. CASE Writable(p)
      <4>1. mem' = [mem EXCEPT ![p].freed = mem[p].off]
        BY <1>7, <3>1 DEF LinkDone, TableFreed, CodeStart
      <4> QED BY <2>1, <2>2, <4>1, PageUpdates DEF TypeOK
    <3>2. CASE ~Writable(p)
      BY <1>7, <3>2 DEF LinkDone, TableFreed, CodeStart, TypeOK
    <3> QED BY <3>1, <3>2
  <2>4. frame' \in Frame
    BY <1>7, <2>1, <2>2 DEF LinkDone, TableFreed, CodeStart, TypeOK, Frame
  <2> QED BY <1>7, <2>3, <2>4 DEF LinkDone, TableFreed, CodeStart, TypeOK
<1>8. CASE LinkError
  BY <1>8, PopFrameType DEF LinkError, TypeOK
<1>9. CASE EncodeOk
  <2>1. frame.fn \in Fns /\ frame.size \in Nat
    BY <1>9 DEF EncodeOk, NewBlock, TypeOK, Frame
  <2>2. mem' \in [PageIds -> Page]
    BY <1>9, <2>1, CommitType DEF EncodeOk, NewBlock
  <2>3. code' \in [Fns -> Block]
    BY <1>9, <2>1 DEF EncodeOk, NewBlock, TypeOK, Block, Frame
  <2>4. frame' \in Frame /\ suspended' \in Seq(Frame)
    <3>1. [frame EXCEPT !.pc = "publish"] \in Frame
      BY <2>1 DEF TypeOK, Frame
    <3> QED BY <1>9, <3>1, PopFrameType DEF EncodeOk, NewBlock, TypeOK
  <2> QED BY <1>9, <2>2, <2>3, <2>4 DEF EncodeOk, NewBlock, TypeOK
<1>10. CASE EncodeError
  BY <1>10, CommitType, PopFrameType DEF EncodeError, TypeOK
<1>11. CASE Publish
  <2>1. frame.fn \in Fns
    BY <1>11 DEF Publish, TypeOK, Frame
  <2>2. [code[frame.fn] EXCEPT !.st = "published"] \in Block
    <3>1. code[frame.fn] \in Block
      BY <2>1, BlockFields
    <3> QED BY <3>1 DEF Block
  <2>3. code' \in [Fns -> Block]
    BY <1>11, <2>1, <2>2 DEF Publish, TypeOK
  <2> QED BY <1>11, <2>3, PopFrameType DEF Publish, TypeOK
<1>12. CASE PublishError
  BY <1>12, PopFrameType DEF PublishError, TypeOK
<1>13. ASSUME NEW f \in Fns, FreeCode(f) PROVE TypeOK'
  <2>1. NoCode \in Block /\ Unmapped \in Page
    BY EmptySeq DEF NoCode, Block, Unmapped, Page
  <2>2. CASE Holders(f) = {}
    BY <1>13, <2>2 DEF FreeCode, RefsWithout, TypeOK
  <2>3. CASE Holders(f) # {}
    <3>1. PICK i \in Holders(f) : ReleaseFrom(i, f)
      BY <1>13, <2>3 DEF FreeCode, RefsWithout
    <3>2. i \in 1..Len(pages) /\ pages[i] \in PageIds
      BY <3>1, ElementOfSeq DEF Holders, TypeOK
    <3>3. mem[pages[i]].freed + code[f].size \in Nat
      BY <3>2, PageFields, BlockFields
    <3>4. mem' \in [PageIds -> Page]
      <4> DEFINE p == pages[i]
                 n == mem[p].freed + code[f].size
      <4>1. CASE n < mem[p].off
        <5>1. mem' = [mem EXCEPT ![p].freed = n, ![p].prot = "rx"]
          BY <3>1, <4>1 DEF ReleaseFrom, FreedWith
        <5> QED BY <3>2, <3>3, <5>1, PageUpdates DEF TypeOK
      <4>2. CASE ~(n < mem[p].off)
        <5>1. mem' = [mem EXCEPT ![p] = Unmapped]
          BY <3>1, <4>2 DEF ReleaseFrom, FreedWith
        <5> QED BY <2>1, <3>2, <5>1 DEF TypeOK
      <4> QED BY <4>1, <4>2
    <3>5. pages' \in Seq(PageIds)
      BY <3>1, <3>2, DropPageType DEF ReleaseFrom, FreedWith, TypeOK
    <3>6. code' \in [Fns -> Block] /\ registry' \subseteq Refs
      BY <1>13, <2>1, <2>3 DEF FreeCode, RefsWithout, TypeOK
    <3> QED BY <1>13, <2>3, <3>4, <3>5, <3>6 DEF FreeCode, RefsWithout, TypeOK
  <2> QED BY <2>2, <2>3
<1>14. CASE JitGc
  <2>1. Unmapped \in Page
    BY DEF Unmapped, Page
  <2>2. NoCode \in Block
    BY EmptySeq DEF NoCode, Block
  <2> QED BY <1>14, <2>1, <2>2 DEF JitGc, TypeOK
<1>15. CASE UNCHANGED vars
  BY <1>15 DEF vars, TypeOK
<1> QED BY <1>1, <1>2, <1>3, <1>4, <1>5, <1>6, <1>7, <1>8, <1>9, <1>10, <1>11,
           <1>12, <1>13, <1>14, <1>15 DEF Next

LEMMA TypeInit == Init => TypeOK
<1> USE CodePagesAssumption, EmptySeq
<1>1. Unmapped \in Page /\ NoFrame \in Frame /\ NoCode \in Block
  BY DEF Unmapped, Page, NoFrame, Frame, NoCode, Block
<1>2. Init => ctx \in [owners : Seq(Fns), size : Nat]
  BY DEF Init
<1> SUFFICES ASSUME Init PROVE TypeOK
  OBVIOUS
<1>3. pages \in Seq(PageIds) /\ suspended \in Seq(Frame)
  BY DEF Init
<1>4. mem \in [PageIds -> Page] /\ code \in [Fns -> Block] /\ frame \in Frame
  BY <1>1 DEF Init
<1>5. registry \subseteq Refs /\ fault \in {"none", "write", "assert"} /\ closed \in BOOLEAN
  BY DEF Init
<1> QED BY <1>2, <1>3, <1>4, <1>5 DEF TypeOK

\* Every variable of CodePages keeps its type, whatever fails and however
\* deep compilations nest.
THEOREM TypeCorrect == Spec => []TypeOK
<1> QED BY TypeInit, TypeStep, PTL DEF Spec

-----------------------------------------------------------------------------
(* The bytes in use of a page. *)

LEMMA PageRec ==
  ASSUME NEW M \in [PageIds -> Page], NEW p \in PageIds
  PROVE  /\ M[p].size \in Nat /\ M[p].off \in Nat /\ M[p].freed \in Nat
         /\ M[p].links \in 0..NLinks
BY DEF Page

LEMMA IntervalSize ==
  ASSUME NEW a \in Nat, NEW n \in Nat
  PROVE  IsFiniteSet(a .. (a + n - 1)) /\ Cardinality(a .. (a + n - 1)) = n
<1>1. a \in Int /\ a + n - 1 \in Int
  OBVIOUS
<1>2. /\ IsFiniteSet(a .. (a + n - 1))
      /\ Cardinality(a .. (a + n - 1))
           = IF a > a + n - 1 THEN 0 ELSE (a + n - 1) - a + 1
  BY <1>1, FS_Interval, Zenon
<1>3. (IF a > a + n - 1 THEN 0 ELSE (a + n - 1) - a + 1) = n
  OBVIOUS
<1> QED BY <1>2, <1>3

LEMMA UsedFinite ==
  ASSUME TypeOK, BlockInv, NEW p \in PageIds
  PROVE  /\ UsedBytes(p) \subseteq 0..(mem[p].off - 1)
         /\ IsFiniteSet(UsedBytes(p))
         /\ Cardinality(UsedBytes(p)) \in Nat
<1>1. mem[p].off \in Nat
  BY PageFields
<1>2. ASSUME NEW f \in LiveOn(p) PROVE Bytes(f) \subseteq 0..(mem[p].off - 1)
  <2>1. f \in Fns /\ code[f].st # "none" /\ code[f].page = p
    BY DEF LiveOn, Live
  <2>2. code[f].start \in Nat /\ code[f].size \in Nat
        /\ code[f].start + code[f].size <= mem[p].off
    BY <2>1, BlockFields DEF BlockInv
  <2> QED BY <1>1, <2>2 DEF Bytes
<1>3. UsedBytes(p) \subseteq 0..(mem[p].off - 1)
  BY <1>2 DEF UsedBytes
<1>4. IsFiniteSet(0..(mem[p].off - 1))
  BY <1>1, FS_Interval
<1>5. IsFiniteSet(UsedBytes(p))
  BY <1>3, <1>4, FS_Subset
<1> QED BY <1>3, <1>5, FS_CardinalityType

\* Committing a block behind all others adds its size to the bytes in use.
LEMMA UsedAdd ==
  ASSUME TypeOK, BlockInv, NEW f \in Fns, NEW b \in Block,
         code[f].st = "none", b.st # "none", b.page \in PageIds,
         b.start >= mem[b.page].off,
         code' = [code EXCEPT ![f] = b]
  PROVE  /\ Cardinality(UsedBytes(b.page)') = Cardinality(UsedBytes(b.page)) + b.size
         /\ \A p \in PageIds : p # b.page => UsedBytes(p)' = UsedBytes(p)
<1> DEFINE p == b.page
           B == b.start .. (b.start + b.size - 1)
<1>1. b.start \in Nat /\ b.size \in Nat /\ mem[p].off \in Nat
  BY PageFields DEF Block
<1>2. \A g \in Fns : code'[g] = IF g = f THEN b ELSE code[g]
  BY DEF TypeOK
<1>3. LiveOn(p)' = LiveOn(p) \cup {f} /\ f \notin LiveOn(p)
  BY <1>2 DEF LiveOn, Live
<1>4. Bytes(f)' = B /\ \A g \in LiveOn(p) : Bytes(g)' = Bytes(g)
  BY <1>2, <1>3 DEF Bytes, LiveOn, Live
<1>5. UsedBytes(p)' = UsedBytes(p) \cup B
  BY <1>3, <1>4 DEF UsedBytes
<1>6. UsedBytes(p) \cap B = {}
  BY <1>1, UsedFinite
<1>7. IsFiniteSet(B) /\ Cardinality(B) = b.size
  BY <1>1, IntervalSize
<1>8. Cardinality(UsedBytes(p)') = Cardinality(UsedBytes(p)) + b.size
  <2>1. Cardinality(UsedBytes(p) \cup B)
          = Cardinality(UsedBytes(p)) + Cardinality(B) - Cardinality(UsedBytes(p) \cap B)
    BY <1>7, UsedFinite, FS_Union
  <2>2. Cardinality(UsedBytes(p) \cap B) = 0
    BY <1>6, FS_EmptySet
  <2> QED BY <1>1, <1>5, <1>7, <2>1, <2>2, UsedFinite
<1>9. ASSUME NEW q \in PageIds, q # p PROVE UsedBytes(q)' = UsedBytes(q)
  <2>1. LiveOn(q)' = LiveOn(q)
    BY <1>2, <1>9 DEF LiveOn, Live
  <2>2. \A g \in LiveOn(q) : Bytes(g)' = Bytes(g)
    BY <1>2, <1>9 DEF Bytes, LiveOn, Live
  <2> QED BY <2>1, <2>2 DEF UsedBytes
<1> QED BY <1>8, <1>9

\* Freeing a block takes its size from the bytes in use of its page.
LEMMA UsedSub ==
  ASSUME TypeOK, BlockInv, ApartInv, NEW f \in Fns, code[f].st # "none",
         NEW p \in PageIds, p = code[f].page,
         code' = [code EXCEPT ![f] = NoCode]
  PROVE  /\ Cardinality(UsedBytes(p)') = Cardinality(UsedBytes(p)) - code[f].size
         /\ \A g \in LiveOn(p) : g # f => Cardinality(UsedBytes(p)) > code[f].size
         /\ \A q \in PageIds : q # p => UsedBytes(q)' = UsedBytes(q)
<1>1. p \in PageIds /\ f \in LiveOn(p) /\ code[f].start \in Nat /\ code[f].size \in Nat
  BY BlockFields DEF BlockInv, LiveOn, Live
<1>2. \A g \in Fns : code'[g] = IF g = f THEN NoCode ELSE code[g]
  BY DEF TypeOK
<1>3. LiveOn(p)' = LiveOn(p) \ {f}
  <2>1. code'[f].st = "none" /\ \A g \in Fns \ {f} : code'[g] = code[g]
    BY <1>2 DEF NoCode
  <2>2. LiveOn(p)' = {g \in Fns : code'[g].st # "none" /\ code'[g].page = p}
    BY DEF LiveOn, Live
  <2> QED BY <2>1 DEF LiveOn, Live
<1>4. \A g \in LiveOn(p) \ {f} : Bytes(g)' = Bytes(g)
  BY <1>2 DEF Bytes, LiveOn, Live
<1>5. ASSUME NEW g \in LiveOn(p), g # f PROVE Bytes(g) \cap Bytes(f) = {}
  <2>1. g \in Fns /\ code[g].st # "none" /\ code[g].page = code[f].page
    BY DEF LiveOn, Live
  <2>2. code[g].start \in Nat /\ code[g].size \in Nat
    BY <2>1, BlockFields
  <2>3. \/ code[f].start + code[f].size <= code[g].start
        \/ code[g].start + code[g].size <= code[f].start
    BY <1>5, <2>1 DEF ApartInv
  <2> QED BY <1>1, <2>2, <2>3 DEF Bytes
<1>6. UsedBytes(p)' = UsedBytes(p) \ Bytes(f)
  BY <1>1, <1>3, <1>4, <1>5 DEF UsedBytes
<1>7. IsFiniteSet(Bytes(f)) /\ Cardinality(Bytes(f)) = code[f].size
  BY <1>1, IntervalSize DEF Bytes
<1>8. Bytes(f) \subseteq UsedBytes(p)
  BY <1>1 DEF UsedBytes
<1>9. Cardinality(UsedBytes(p)') = Cardinality(UsedBytes(p)) - code[f].size
  <2>1. Cardinality(UsedBytes(p) \ Bytes(f))
          = Cardinality(UsedBytes(p)) - Cardinality(UsedBytes(p) \cap Bytes(f))
    BY <1>1, UsedFinite, FS_Difference
  <2>2. UsedBytes(p) \cap Bytes(f) = Bytes(f)
    BY <1>8
  <2> QED BY <1>6, <1>7, <2>1, <2>2
<1>10. ASSUME NEW g \in LiveOn(p), g # f
       PROVE  Cardinality(UsedBytes(p)) > code[f].size
  <2>1. g \in Fns /\ code[g].st # "none"
    BY DEF LiveOn, Live
  <2>2. code[g].start \in Nat /\ code[g].size \in Nat /\ code[g].size > 0
    BY <2>1, BlockFields DEF BlockInv
  <2>3. code[g].start \in Bytes(g)
    BY <2>2 DEF Bytes
  <2>4. code[g].start \in UsedBytes(p) /\ code[g].start \notin Bytes(f)
    BY <1>5, <1>10, <2>3 DEF UsedBytes
  <2>5. Cardinality(Bytes(f)) <= Cardinality(UsedBytes(p))
        /\ Cardinality(Bytes(f)) # Cardinality(UsedBytes(p))
    BY <1>1, <1>8, <2>4, UsedFinite, FS_Subset
  <2> QED BY <1>1, <1>7, <2>5, UsedFinite
<1>11. ASSUME NEW q \in PageIds, q # p PROVE UsedBytes(q)' = UsedBytes(q)
  <2>1. LiveOn(q)' = LiveOn(q)
    BY <1>2, <1>11 DEF LiveOn, Live, NoCode
  <2>2. \A g \in LiveOn(q) : Bytes(g)' = Bytes(g)
    BY <1>2, <1>11 DEF Bytes, LiveOn, Live
  <2> QED BY <2>1, <2>2 DEF UsedBytes
<1> QED BY <1>9, <1>10, <1>11

-----------------------------------------------------------------------------
(* The inductive invariant, for a process in which no finalizer starts a    *)
(* compilation inside another (MaxNest = 0).  One lemma per action.         *)

LEMMA FrameFields ==
  ASSUME TypeOK
  PROVE  /\ frame \in [fn : Fns \cup {Nil},
              pc : {"idle", "setup", "emitted", "link", "encode", "publish"},
              page : PageIds \cup {Nil}, start : Nat, size : Nat,
              ref : Refs \cup {Nil}]
         /\ frame.pc # "idle" => frame.fn \in Fns
         /\ frame.pc \in {"link", "encode"} => frame.page \in PageIds
         /\ frame.start \in Nat /\ frame.size \in Nat
BY DEF TypeOK, Frame

LEMMA CodeSzPositive == TypeOK => CodeSz \in Nat /\ CodeSz > 0
BY CodePagesAssumption DEF TypeOK, CodeSz

\* The last entry of jit->pages is a mapped page.
LEMMA LastPageMapped ==
  ASSUME TypeOK, ListInv, ~closed, pages # <<>>
  PROVE  /\ Len(pages) \in Nat /\ Len(pages) > 0
         /\ LastPage \in PageIds
         /\ mem[LastPage].prot # "none"
<1>1. pages \in Seq(PageIds)
  BY DEF TypeOK
<1>2. Len(pages) \in Nat /\ Len(pages) # 0
  BY <1>1, EmptySeq, LenProperties
<1>3. Len(pages) \in 1..Len(pages)
  BY <1>2
<1>4. LastPage \in PageIds
  BY <1>1, <1>3, ElementOfSeq DEF LastPage
<1> QED BY <1>2, <1>3, <1>4 DEF ListInv, LastPage

\* Memory, pages and code are as before.
LEMMA MemorySame ==
  ASSUME ListInv, PageInv, BlockInv, ApartInv, FreedInv,
         UNCHANGED <<pages, mem, code, closed>>
  PROVE  ListInv' /\ PageInv' /\ BlockInv' /\ ApartInv' /\ FreedInv'
BY DEF ListInv, PageInv, BlockInv, ApartInv, FreedInv, UsedBytes, Bytes, LiveOn, Live

LEMMA InvInit == Init => IInv
<1> SUFFICES ASSUME Init PROVE IInv
  OBVIOUS
<1>1. /\ \A p \in PageIds : mem[p] = Unmapped
      /\ \A f \in Fns : code[f] = NoCode
  BY DEF Init
<1>2. \A p \in PageIds : mem[p].prot = "none"
  BY <1>1 DEF Unmapped
<1>3. \A f \in Fns : code[f].st = "none"
  BY <1>1 DEF NoCode
<1>4. Len(pages) = 0 /\ frame.pc = "idle" /\ suspended = <<>> /\ fault = "none"
      /\ ~closed
  BY EmptySeq DEF Init, NoFrame
<1>5. ListInv
  BY <1>2, <1>4 DEF ListInv
<1>6. PageInv /\ BlockInv /\ ApartInv /\ FreedInv /\ ExecInv
  BY <1>2, <1>3 DEF PageInv, BlockInv, ApartInv, FreedInv, ExecInv
<1>7. FrameInv
  BY <1>4 DEF FrameInv
<1> QED BY <1>4, <1>5, <1>6, <1>7, TypeInit DEF IInv

LEMMA InvBegin ==
  ASSUME IInv, MaxNest = 0, NEW f \in Fns, BeginCompile(f)
  PROVE  IInv'
<1>1. suspended' = <<>>
  <2>1. ~(Len(suspended) < MaxNest)
    BY EmptySeq DEF IInv
  <2> QED BY <2>1 DEF BeginCompile, EmptyBuffer, IInv
<1>2. frame' = [NoFrame EXCEPT !.fn = f, !.pc = "setup"]
  BY DEF BeginCompile, EmptyBuffer
<1>3. frame'.pc = "setup" /\ frame'.fn = f /\ ~closed' /\ fault' = "none"
  BY <1>2 DEF BeginCompile, EmptyBuffer, Running, NoFrame
<1>4. TypeOK'
  BY TypeStep DEF IInv, Next
<1>5. ListInv' /\ PageInv' /\ BlockInv' /\ ApartInv' /\ FreedInv'
  BY MemorySame DEF BeginCompile, EmptyBuffer, IInv
<1>6. ExecInv'
  <2>1. frame.pc # "encode"
    BY DEF BeginCompile, EmptyBuffer, CanRunLua
  <2> QED BY <2>1 DEF BeginCompile, EmptyBuffer, IInv, ExecInv
<1>7. FrameInv'
  BY <1>3 DEF FrameInv, BeginCompile
<1> QED BY <1>1, <1>3, <1>4, <1>5, <1>6, <1>7 DEF IInv

LEMMA InvEmit ==
  ASSUME IInv, Emit
  PROVE  IInv'
<1>1. frame'.pc = "emitted" /\ frame'.fn = frame.fn
  BY FrameFields DEF Emit, FreeRefs, IInv
<1>2. ~closed' /\ fault' = "none" /\ suspended' = <<>>
  BY DEF Emit, FreeRefs, Running, IInv
<1>3. TypeOK'
  BY TypeStep DEF IInv, Next
<1>4. ListInv' /\ PageInv' /\ BlockInv' /\ ApartInv' /\ FreedInv'
  BY MemorySame DEF Emit, FreeRefs, IInv
<1>5. ExecInv'
  BY DEF Emit, FreeRefs, IInv, ExecInv
<1>6. FrameInv'
  BY <1>1, <1>2 DEF FrameInv, Emit, IInv
<1> QED BY <1>2, <1>3, <1>4, <1>5, <1>6 DEF IInv

\* An error that changes neither memory nor code.
LEMMA InvError ==
  ASSUME IInv, CompileError \/ LinkError \/ PublishError
  PROVE  IInv'
<1>1. /\ Running /\ PopFrame /\ frame.pc # "encode"
      /\ UNCHANGED <<pages, mem, ctx, code, registry, fault, closed>>
  BY DEF CompileError, LinkError, PublishError
<1>2. frame'.pc = "idle" /\ suspended' = <<>> /\ ~closed' /\ fault' = "none"
  BY <1>1 DEF PopFrame, IInv, NoFrame, Running
<1>3. TypeOK'
  BY TypeStep DEF IInv, Next
<1>4. ListInv' /\ PageInv' /\ BlockInv' /\ ApartInv' /\ FreedInv'
  BY <1>1, MemorySame DEF IInv
<1>5. ExecInv'
  BY <1>1 DEF IInv, ExecInv
<1>6. FrameInv'
  BY <1>2 DEF FrameInv
<1> QED BY <1>2, <1>3, <1>4, <1>5, <1>6 DEF IInv


\* The invariants that speak of one page survive a step that keeps the code
\* and, of every page, what it holds: size, offset, freed bytes, mapping.
LEMMA LayoutSame ==
  ASSUME PageInv, BlockInv, ApartInv, FreedInv, UNCHANGED code,
         \A p \in PageIds :
           /\ mem'[p].off = mem[p].off /\ mem'[p].size = mem[p].size
           /\ mem'[p].freed = mem[p].freed
           /\ mem'[p].prot # "none" <=> mem[p].prot # "none"
  PROVE  PageInv' /\ BlockInv' /\ ApartInv' /\ FreedInv'
<1>1. \A p \in PageIds : UsedBytes(p)' = UsedBytes(p)
  BY DEF UsedBytes, Bytes, LiveOn, Live
<1>2. PageInv'
  BY DEF PageInv
<1>3. BlockInv'
  BY DEF BlockInv
<1>4. ApartInv'
  BY DEF ApartInv
<1>5. FreedInv'
  BY <1>1 DEF FreedInv
<1> QED BY <1>2, <1>3, <1>4, <1>5

LEMMA InvReserveOld ==
  ASSUME IInv, ReserveOnLastPage
  PROVE  IInv'
<1> DEFINE q == LastPage
<1>1. /\ Len(pages) > 0 /\ q \in PageIds /\ mem[q].prot # "none" /\ ~closed
      /\ CodeSz \in Nat /\ CodeSz > 0
      /\ mem[q].off + CodeSz < mem[q].size
  BY LastPageMapped, CodeSzPositive DEF ReserveOnLastPage, Running, Fits, IInv
<1>2. \A p \in PageIds :
        /\ mem'[p].off = mem[p].off /\ mem'[p].size = mem[p].size
        /\ mem'[p].freed = mem[p].freed
        /\ mem'[p].prot = IF p = q THEN "rw" ELSE mem[p].prot
  BY <1>1 DEF ReserveOnLastPage, IInv, TypeOK, Page
<1>3. /\ frame'.pc = "encode" /\ frame'.page = q /\ frame'.fn = frame.fn
      /\ frame'.start = mem[q].off /\ frame'.size = CodeSz
  BY FrameFields DEF ReserveOnLastPage, IInv
<1>4. UNCHANGED <<pages, code, suspended, fault, closed>>
  BY DEF ReserveOnLastPage
<1>5. TypeOK'
  BY TypeStep DEF IInv, Next
<1>6. PageInv' /\ BlockInv' /\ ApartInv' /\ FreedInv'
  BY <1>1, <1>2, <1>4, LayoutSame DEF IInv
<1>7. ListInv'
  BY <1>1, <1>2, <1>4 DEF IInv, ListInv
<1>8. ExecInv'
  <2> SUFFICES ASSUME NEW f \in Fns, code[f].st # "none"
               PROVE  mem'[code[f].page].prot = "rx" \/ code[f].page = q
    BY <1>3, <1>4 DEF ExecInv
  <2>1. code[f].page \in PageIds
    BY DEF IInv, BlockInv
  <2>2. mem[code[f].page].prot = "rx"
    BY DEF IInv, ExecInv, ReserveOnLastPage
  <2> QED BY <1>2, <2>1, <2>2
<1>9. FrameInv'
  <2>1. LastPage' = q
    BY <1>4 DEF LastPage
  <2>2. code[frame.fn].st = "none"
    BY DEF ReserveOnLastPage, IInv, FrameInv
  <2>3. /\ mem'[q].off = mem[q].off /\ mem'[q].size = mem[q].size
        /\ mem'[q].prot = "rw"
    BY <1>1, <1>2
  <2>4. mem[q].off \in Nat /\ mem[q].size \in Nat
    BY <1>1, PageFields DEF IInv
  <2>5. frame'.start + frame'.size <= mem'[frame'.page].size
    BY <1>1, <1>3, <2>3, <2>4
  <2> HIDE DEF q
  <2> QED BY <1>1, <1>3, <1>4, <2>1, <2>2, <2>3, <2>5 DEF FrameInv
<1> QED BY <1>4, <1>5, <1>6, <1>7, <1>8, <1>9 DEF IInv

\* Room for what reserve_code asks: header, link table with the end marker
\* it never writes, and the code.
LEMMA NewPageRoom ==
  ASSUME NEW c \in Nat
  PROVE  /\ LinkTableMax \in Nat
         /\ NLinks * JumpSize \in Nat
         /\ AlignUp(c + LinkTableMax + PageHdr)
              >= PageHdr + NLinks * JumpSize + JumpSize + c
<1> USE CodePagesAssumption
<1>1. NLinks * JumpSize \in Nat /\ LinkTableMax = NLinks * JumpSize + JumpSize
  BY SMT DEF LinkTableMax
<1>2. c + LinkTableMax + PageHdr \in Nat
  BY <1>1
<1>3. AlignUp(c + LinkTableMax + PageHdr) >= c + LinkTableMax + PageHdr
      /\ AlignUp(c + LinkTableMax + PageHdr) \in Nat
  BY <1>2, AlignUpType DEF AlignUp
<1> HIDE DEF LinkTableMax
<1> QED BY <1>1, <1>3 DEF AlignUp

LEMMA InvReserveNew ==
  ASSUME IInv, NEW q \in PageIds, ReserveNewPage(q)
  PROVE  IInv'
<1> DEFINE sz == AlignUp(CodeSz + LinkTableMax + PageHdr)
<1>1. /\ mem[q].prot = "none" /\ ~closed /\ CodeSz \in Nat /\ CodeSz > 0
      /\ NLinks * JumpSize \in Nat
      /\ sz \in Nat /\ sz >= PageHdr + NLinks * JumpSize + JumpSize + CodeSz
  <2>1. mem[q].prot = "none" /\ ~closed
    BY DEF ReserveNewPage, Running, Mapped
  <2>2. CodeSz \in Nat /\ CodeSz > 0
    BY CodeSzPositive DEF IInv
  <2>3. CodeSz + LinkTableMax + PageHdr \in Nat
    BY <2>2, NewPageRoom, CodePagesAssumption
  <2>4. sz \in Nat
    BY <2>3, AlignUpType, CodePagesAssumption DEF AlignUp
  <2> QED BY <2>1, <2>2, <2>4, NewPageRoom
<1> HIDE DEF sz
<1>2. \A p \in PageIds :
        mem'[p] = IF p = q THEN [size |-> sz, off |-> PageHdr, freed |-> 0,
                                 prot |-> "rw", links |-> 0]
                  ELSE mem[p]
  BY DEF ReserveNewPage, IInv, TypeOK, sz
<1>3. /\ mem'[q].size = sz /\ mem'[q].off = PageHdr /\ mem'[q].freed = 0
      /\ mem'[q].prot = "rw" /\ mem'[q].links = 0
      /\ \A p \in PageIds \ {q} : mem'[p] = mem[p]
  BY <1>2
<1>4. /\ frame'.pc = "link" /\ frame'.page = q /\ frame'.fn = frame.fn
      /\ frame'.size = CodeSz /\ frame.pc = "emitted"
  BY FrameFields DEF ReserveNewPage, IInv
<1>5. UNCHANGED <<code, suspended, fault, closed>>
  BY DEF ReserveNewPage
<1>6. TypeOK'
  BY TypeStep DEF IInv, Next
<1>7. /\ pages' = Append(pages, q) /\ Len(pages) \in Nat
      /\ Len(pages') = Len(pages) + 1
      /\ pages'[Len(pages) + 1] = q
      /\ \A i \in 1..Len(pages) : pages'[i] = pages[i]
  BY AppendProperties, LenProperties DEF ReserveNewPage, IInv, TypeOK
<1>8. \A i \in 1..Len(pages) : pages[i] # q
  BY <1>1 DEF IInv, ListInv
<1>9. \A f \in Fns : code[f].st # "none" =>
        code[f].page # q /\ code[f].page \in PageIds
  BY <1>1 DEF IInv, BlockInv
<1>10. ListInv'
  <2>1. \A i, j \in 1..Len(pages') : pages'[i] = pages'[j] => i = j
    <3> SUFFICES ASSUME NEW i \in 1..Len(pages'), NEW j \in 1..Len(pages'),
                        pages'[i] = pages'[j]
                 PROVE  i = j
      OBVIOUS
    <3>1. CASE i = Len(pages) + 1 \/ j = Len(pages) + 1
      BY <1>7, <1>8, <3>1
    <3>2. CASE i \in 1..Len(pages) /\ j \in 1..Len(pages)
      BY <1>7, <3>2 DEF IInv, ListInv
    <3> QED BY <1>7, <3>1, <3>2
  <2>2. ASSUME NEW p \in PageIds
        PROVE  mem'[p].prot # "none" <=> \E i \in 1..Len(pages') : pages'[i] = p
    <3>1. CASE p = q
      <4>1. Len(pages) + 1 \in 1..Len(pages')
        BY <1>7
      <4> QED BY <1>3, <1>7, <3>1, <4>1
    <3>2. CASE p # q
      <4>1. mem[p].prot # "none" <=> \E i \in 1..Len(pages) : pages[i] = p
        BY <1>1 DEF IInv, ListInv
      <4>2. \A i \in 1..Len(pages') : pages'[i] = p => i \in 1..Len(pages)
        BY <1>7, <3>2
      <4>3. \A i \in 1..Len(pages) : i \in 1..Len(pages')
        BY <1>7
      <4> QED BY <1>3, <1>7, <3>2, <4>1, <4>2, <4>3
    <3> QED BY <3>1, <3>2
  <2> QED BY <1>1, <1>5, <2>1, <2>2 DEF ListInv
<1>11. PageInv'
  BY <1>1, <1>3, CodePagesAssumption DEF PageInv, IInv
<1>12. BlockInv'
  BY <1>3, <1>5, <1>9 DEF BlockInv, IInv
<1>13. ApartInv'
  BY <1>5 DEF ApartInv, IInv
<1>14. FreedInv'
  <2>1. \A p \in PageIds : UsedBytes(p)' = UsedBytes(p)
    BY <1>5 DEF UsedBytes, Bytes, LiveOn, Live
  <2>2. UsedBytes(q) = {}
    BY <1>9 DEF UsedBytes, LiveOn, Live
  <2>3. mem'[q].freed + Cardinality(UsedBytes(q)) <= mem'[q].off
    BY <1>3, <2>2, FS_EmptySet, CodePagesAssumption
  <2> QED BY <1>3, <2>1, <2>3 DEF FreedInv, IInv
<1>15. ExecInv'
  BY <1>3, <1>4, <1>5, <1>9 DEF ExecInv, IInv
<1>16. FrameInv'
  <2>1. LastPage' = q /\ Len(pages') > 0
    BY <1>7 DEF LastPage
  <2>2. code[frame.fn].st = "none"
    BY <1>4 DEF IInv, FrameInv
  <2>3. (NLinks - 0) * JumpSize = NLinks * JumpSize
    BY CodePagesAssumption
  <2>4. PageHdr + (NLinks - 0) * JumpSize + JumpSize + CodeSz <= sz
    BY <1>1, <2>3, CodePagesAssumption
  <2> QED BY <1>1, <1>3, <1>4, <1>5, <1>9, <2>1, <2>2, <2>4 DEF FrameInv
<1> QED BY <1>5, <1>6, <1>10, <1>11, <1>12, <1>13, <1>14, <1>15, <1>16 DEF IInv


\* The page that reserve_code just made, while its link table is written.
LEMMA LinkFacts ==
  ASSUME IInv, frame.pc = "link", NEW p, p = frame.page
  PROVE  /\ p \in PageIds /\ p = LastPage /\ Len(pages) > 0
         /\ mem[p].prot = "rw" /\ mem[p].freed = 0
         /\ mem[p].off \in Nat /\ mem[p].size \in Nat /\ mem[p].links \in 0..NLinks
         /\ frame.size \in Nat /\ frame.size > 0
         /\ code[frame.fn].st = "none"
         /\ mem[p].off + (NLinks - mem[p].links) * JumpSize
              + JumpSize + frame.size <= mem[p].size
         /\ \A f \in Fns : code[f].st # "none" =>
              code[f].page # p /\ mem[code[f].page].prot = "rx"
         /\ UsedBytes(p) = {}
<1>1. p \in PageIds /\ frame.size \in Nat
  BY FrameFields DEF IInv
<1>2. FrameInv
  BY DEF IInv
<1>3. mem[p].off \in Nat /\ mem[p].size \in Nat /\ mem[p].links \in 0..NLinks
  BY <1>1, PageFields DEF IInv
<1>4. \A f \in Fns : code[f].st # "none" => code[f].page # p
  BY <1>2 DEF FrameInv
<1>5. \A f \in Fns : code[f].st # "none" => mem[code[f].page].prot = "rx"
  BY DEF IInv, ExecInv
<1>6. UsedBytes(p) = {}
  BY <1>4 DEF UsedBytes, LiveOn, Live
<1> QED BY <1>1, <1>2, <1>3, <1>4, <1>5, <1>6 DEF FrameInv

\* One more slot leaves room for the others, the marker and the code.
LEMMA LinkArith ==
  ASSUME NEW n \in Nat, NEW j \in Nat \ {0}, NEW l \in 0..n, l < n,
         NEW off \in Nat, NEW sz \in Nat, NEW total \in Nat,
         off + (n - l) * j + j + sz <= total
  PROVE  /\ off + j + (n - (l + 1)) * j + j + sz <= total
         /\ off + j <= total
<1> DEFINE m == n - (l + 1)
<1>1. m \in Nat /\ n - l = m + 1
  OBVIOUS
<1>2. (m + 1) * j = m * j + j /\ m * j \in Nat
  BY <1>1
<1>3. off + (m * j + j) + j + sz <= total
  BY <1>1, <1>2
<1> QED BY <1>1, <1>2, <1>3

LEMMA InvLinkSlot ==
  ASSUME IInv, LinkSlot
  PROVE  IInv'
<1> DEFINE p == frame.page
           l == mem[p].links
<1>1. frame.pc = "link" /\ ~closed /\ l < NLinks /\ fault = "none"
  BY DEF LinkSlot, Running
<1>2. /\ p \in PageIds /\ p = LastPage /\ Len(pages) > 0
      /\ mem[p].prot = "rw" /\ mem[p].freed = 0
      /\ mem[p].off \in Nat /\ mem[p].size \in Nat /\ l \in 0..NLinks
      /\ frame.size \in Nat /\ frame.size > 0
      /\ code[frame.fn].st = "none"
      /\ mem[p].off + (NLinks - l) * JumpSize + JumpSize + frame.size <= mem[p].size
      /\ \A f \in Fns : code[f].st # "none" =>
           code[f].page # p /\ mem[code[f].page].prot = "rx"
      /\ UsedBytes(p) = {}
  BY <1>1, LinkFacts
<1>3. /\ mem' = [mem EXCEPT ![p].links = l + 1, ![p].off = mem[p].off + JumpSize]
      /\ fault' = "none"
  BY <1>1, <1>2 DEF LinkSlot, Writable
<1>4. UNCHANGED <<pages, ctx, code, registry, frame, suspended, closed>>
  BY DEF LinkSlot
<1>5. /\ mem'[p].off = mem[p].off + JumpSize /\ mem'[p].size = mem[p].size
      /\ mem'[p].freed = 0 /\ mem'[p].prot = "rw" /\ mem'[p].links = l + 1
      /\ \A r \in PageIds \ {p} : mem'[r] = mem[r]
  BY <1>2, <1>3 DEF IInv, TypeOK, Page
<1>6. TypeOK'
  BY TypeStep DEF IInv, Next
<1>7. /\ mem[p].off + JumpSize + (NLinks - (l + 1)) * JumpSize
           + JumpSize + frame.size <= mem[p].size
      /\ mem[p].off + JumpSize <= mem[p].size
  <2>1. NLinks \in Nat /\ JumpSize \in Nat \ {0} /\ l \in 0..NLinks /\ l < NLinks
        /\ mem[p].off \in Nat /\ mem[p].size \in Nat /\ frame.size \in Nat
        /\ mem[p].off + (NLinks - l) * JumpSize + JumpSize + frame.size <= mem[p].size
    BY <1>1, <1>2, CodePagesAssumption
  <2> HIDE DEF p, l
  <2> QED BY <2>1, LinkArith
<1>8. ListInv'
  <2>1. \A r \in PageIds : mem'[r].prot # "none" <=> mem[r].prot # "none"
    BY <1>2, <1>5
  <2> QED BY <1>1, <1>4, <2>1 DEF ListInv, IInv
<1>9. PageInv'
  <2>1. PageHdr <= mem[p].off
    BY <1>2 DEF IInv, PageInv
  <2>2. PageHdr <= mem'[p].off /\ mem'[p].off <= mem'[p].size
    BY <1>2, <1>5, <1>7, <2>1, CodePagesAssumption
  <2> QED BY <1>5, <2>2 DEF PageInv, IInv
<1>10. BlockInv'
  BY <1>2, <1>4, <1>5 DEF BlockInv, IInv
<1>11. ApartInv'
  BY <1>4 DEF ApartInv, IInv
<1>12. FreedInv'
  <2>1. \A r \in PageIds : UsedBytes(r)' = UsedBytes(r)
    BY <1>4 DEF UsedBytes, Bytes, LiveOn, Live
  <2>2. mem'[p].freed + Cardinality(UsedBytes(p)) <= mem'[p].off
    BY <1>2, <1>5, FS_EmptySet, CodePagesAssumption
  <2> HIDE DEF p
  <2> QED BY <1>5, <2>1, <2>2 DEF FreedInv, IInv
<1>13. ExecInv'
  BY <1>2, <1>4, <1>5 DEF ExecInv, IInv, BlockInv
<1>14. FrameInv'
  <2>1. LastPage' = p
    BY <1>2, <1>4 DEF LastPage
  <2>2. mem'[p].off + (NLinks - mem'[p].links) * JumpSize
          + JumpSize + frame.size <= mem'[p].size
    <3> HIDE DEF p, l
    <3> QED BY <1>5, <1>7
  <2> QED BY <1>1, <1>2, <1>4, <1>5, <2>1, <2>2 DEF FrameInv
<1> QED BY <1>3, <1>4, <1>6, <1>8, <1>9, <1>10, <1>11, <1>12, <1>13, <1>14 DEF IInv

LEMMA InvLinkDone ==
  ASSUME IInv, LinkDone
  PROVE  IInv'
<1> DEFINE p == frame.page
<1>1. frame.pc = "link" /\ ~closed /\ mem[p].links = NLinks /\ fault = "none"
  BY DEF LinkDone, TableFreed, CodeStart, Running
<1>2. /\ p \in PageIds /\ p = LastPage /\ Len(pages) > 0
      /\ mem[p].prot = "rw"
      /\ mem[p].off \in Nat /\ mem[p].size \in Nat
      /\ frame.size \in Nat /\ frame.size > 0
      /\ code[frame.fn].st = "none"
      /\ mem[p].off + (NLinks - mem[p].links) * JumpSize + JumpSize + frame.size
           <= mem[p].size
      /\ \A f \in Fns : code[f].st # "none" =>
           code[f].page # p /\ mem[code[f].page].prot = "rx"
      /\ UsedBytes(p) = {}
  BY <1>1, LinkFacts
<1>3. /\ mem' = [mem EXCEPT ![p].freed = mem[p].off]
      /\ frame' = [frame EXCEPT !.pc = "encode", !.start = mem[p].off]
      /\ fault' = "none"
  BY <1>1, <1>2 DEF LinkDone, TableFreed, CodeStart, Writable
<1>4. UNCHANGED <<pages, ctx, code, registry, suspended, closed>>
  BY DEF LinkDone, TableFreed, CodeStart
<1>5. /\ mem'[p].off = mem[p].off /\ mem'[p].size = mem[p].size
      /\ mem'[p].freed = mem[p].off /\ mem'[p].prot = "rw"
      /\ \A r \in PageIds \ {p} : mem'[r] = mem[r]
  BY <1>2, <1>3 DEF IInv, TypeOK, Page
<1>6. /\ frame'.pc = "encode" /\ frame'.page = p /\ frame'.fn = frame.fn
      /\ frame'.start = mem[p].off /\ frame'.size = frame.size
  BY <1>3, FrameFields DEF IInv
<1>7. TypeOK'
  BY TypeStep DEF IInv, Next
<1>8. ListInv'
  <2>1. \A r \in PageIds : mem'[r].prot # "none" <=> mem[r].prot # "none"
    BY <1>2, <1>5
  <2> QED BY <1>1, <1>4, <2>1 DEF ListInv, IInv
<1>9. PageInv' /\ BlockInv' /\ ApartInv'
  BY <1>2, <1>4, <1>5 DEF PageInv, BlockInv, ApartInv, IInv
<1>10. FreedInv'
  <2>1. \A r \in PageIds : UsedBytes(r)' = UsedBytes(r)
    BY <1>4 DEF UsedBytes, Bytes, LiveOn, Live
  <2>2. mem[p].off + Cardinality(UsedBytes(p)) <= mem[p].off
    BY <1>2, FS_EmptySet
  <2>3. mem'[p].freed + Cardinality(UsedBytes(p)) <= mem'[p].off
    BY <1>5, <2>2
  <2> HIDE DEF p
  <2> QED BY <1>5, <2>1, <2>3 DEF FreedInv, IInv
<1>11. ExecInv'
  BY <1>2, <1>4, <1>5 DEF ExecInv, IInv, BlockInv
<1>12. FrameInv'
  <2>1. LastPage' = p
    BY <1>2, <1>4 DEF LastPage
  <2>2. mem[p].off + frame.size <= mem[p].size
    <3>1. (NLinks - mem[p].links) * JumpSize = 0
      BY <1>1, CodePagesAssumption
    <3>2. mem[p].off + 0 + JumpSize + frame.size <= mem[p].size
      BY <1>2, <3>1
    <3>3. /\ mem[p].off \in Nat /\ mem[p].size \in Nat
          /\ frame.size \in Nat /\ JumpSize \in Nat
      BY <1>2, CodePagesAssumption
    <3> HIDE DEF p
    <3> QED BY <3>2, <3>3
  <2> HIDE DEF p
  <2> QED BY <1>1, <1>2, <1>4, <1>5, <1>6, <2>1, <2>2 DEF FrameInv
<1> QED BY <1>3, <1>4, <1>7, <1>8, <1>9, <1>10, <1>11, <1>12 DEF IInv


\* The room that reserve_code returned, when compile encodes into it.
LEMMA EncodeFacts ==
  ASSUME IInv, frame.pc = "encode", NEW p, p = frame.page
  PROVE  /\ p \in PageIds /\ p = LastPage /\ Len(pages) > 0
         /\ mem[p].prot = "rw"
         /\ mem[p].off \in Nat /\ mem[p].size \in Nat /\ mem[p].freed \in Nat
         /\ frame.fn \in Fns /\ code[frame.fn].st = "none"
         /\ frame.size \in Nat /\ frame.size > 0
         /\ frame.start = mem[p].off
         /\ mem[p].off + frame.size <= mem[p].size
         /\ PageHdr <= mem[p].off
<1>1. p \in PageIds /\ frame.size \in Nat /\ frame.fn \in Fns
  BY FrameFields DEF IInv
<1>2. mem[p].off \in Nat /\ mem[p].size \in Nat /\ mem[p].freed \in Nat
  BY <1>1, PageFields DEF IInv
<1>3. FrameInv
  BY DEF IInv
<1>4. p = LastPage /\ Len(pages) > 0 /\ mem[p].prot = "rw" /\ frame.size > 0
      /\ code[frame.fn].st = "none" /\ frame.start = mem[p].off
      /\ mem[p].off + frame.size <= mem[p].size
  BY <1>3 DEF FrameInv
<1> QED BY <1>1, <1>2, <1>4 DEF IInv, PageInv

\* commit_code: the protection and, by sz, the offset of the last page.
LEMMA CommitFacts ==
  ASSUME TypeOK, NEW sz \in Nat, Commit(sz), NEW p \in PageIds, p = LastPage
  PROVE  /\ mem'[p].off = mem[p].off + sz /\ mem'[p].size = mem[p].size
         /\ mem'[p].freed = mem[p].freed /\ mem'[p].prot = "rx"
         /\ \A r \in PageIds \ {p} : mem'[r] = mem[r]
BY DEF Commit, TypeOK, Page

LEMMA InvEncodeOk ==
  ASSUME IInv, EncodeOk
  PROVE  IInv'
<1> SUFFICES ASSUME
        NEW f, f = frame.fn, NEW p, p = frame.page,
        NEW b, b = [st |-> IF f \in Callbacks THEN "published" ELSE "committed",
                    page |-> p, start |-> frame.start, size |-> frame.size,
                    ref |-> frame.ref, body |-> ctx.owners]
      PROVE IInv'
  OBVIOUS
<1>1. frame.pc = "encode" /\ ~closed /\ fault = "none"
  BY DEF EncodeOk, NewBlock, Running
<1>2. /\ p \in PageIds /\ p = LastPage /\ Len(pages) > 0
      /\ mem[p].prot = "rw"
      /\ mem[p].off \in Nat /\ mem[p].size \in Nat /\ mem[p].freed \in Nat
      /\ f \in Fns /\ code[f].st = "none"
      /\ frame.size \in Nat /\ frame.size > 0
      /\ frame.start = mem[p].off
      /\ mem[p].off + frame.size <= mem[p].size
      /\ PageHdr <= mem[p].off
  BY <1>1, EncodeFacts
<1>3. code' = [code EXCEPT ![f] = b] /\ Commit(frame.size)
      /\ UNCHANGED <<pages, ctx, registry, fault, closed>>
  BY DEF EncodeOk, NewBlock
<1>4. b \in Block /\ b.st # "none" /\ b.page = p /\ b.start = mem[p].off
      /\ b.size = frame.size
  <2>1. frame.ref \in Refs \cup {Nil} /\ ctx.owners \in Seq(Fns)
    BY FrameFields DEF IInv, TypeOK
  <2> QED BY <1>2, <2>1 DEF Block
<1>5. /\ mem'[p].off = mem[p].off + frame.size /\ mem'[p].size = mem[p].size
      /\ mem'[p].freed = mem[p].freed /\ mem'[p].prot = "rx"
      /\ \A r \in PageIds \ {p} : mem'[r] = mem[r]
  BY <1>2, <1>3, CommitFacts DEF IInv
<1>6. \/ f \in Callbacks \cup {Globals} /\ PopFrame
      \/ /\ f \notin Callbacks \cup {Globals}
         /\ frame' = [frame EXCEPT !.pc = "publish"]
         /\ UNCHANGED suspended
  BY DEF EncodeOk, NewBlock
<1>7. suspended' = <<>> /\ (frame'.pc = "idle"
        \/ (frame'.pc = "publish" /\ frame'.fn = f /\ f \notin Callbacks))
  <2>1. CASE f \in Callbacks \cup {Globals} /\ PopFrame
    <3>1. frame' = NoFrame /\ suspended' = <<>>
      BY <2>1 DEF PopFrame, IInv
    <3>2. frame'.pc = "idle"
      BY <3>1 DEF NoFrame
    <3>3. suspended' = <<>>
      BY <3>1
    <3> QED BY <3>2, <3>3
  <2>2. CASE f \notin Callbacks \cup {Globals}
             /\ frame' = [frame EXCEPT !.pc = "publish"]
             /\ UNCHANGED suspended
    BY <2>2, FrameFields DEF IInv
  <2> QED BY <1>6, <2>1, <2>2
<1>8. TypeOK'
  BY TypeStep DEF IInv, Next
<1>9. /\ code'[f] = b
      /\ \A g \in Fns \ {f} : code'[g] = code[g]
  BY <1>2, <1>3 DEF IInv, TypeOK
<1>10. \A r \in PageIds : mem'[r].prot # "none" <=> mem[r].prot # "none"
  BY <1>2, <1>5
<1>11. ListInv'
  BY <1>1, <1>3, <1>10 DEF ListInv, IInv
<1>12. PageInv'
  <2>1. PageHdr <= mem'[p].off /\ mem'[p].off <= mem'[p].size
    BY <1>2, <1>5, CodePagesAssumption
  <2> QED BY <1>2, <1>5, <2>1 DEF PageInv, IInv
<1>13. BlockInv'
  <2> SUFFICES ASSUME NEW g \in Fns, code'[g].st # "none"
               PROVE  /\ code'[g].page \in PageIds
                      /\ mem'[code'[g].page].prot # "none"
                      /\ code'[g].size > 0
                      /\ PageHdr <= code'[g].start
                      /\ code'[g].start + code'[g].size <= mem'[code'[g].page].off
    BY DEF BlockInv
  <2>1. CASE g = f
    BY <1>2, <1>4, <1>5, <1>9, <2>1
  <2>2. CASE g # f
    <3>1. /\ code[g].page \in PageIds
          /\ mem[code[g].page].prot # "none"
          /\ code[g].size > 0
          /\ PageHdr <= code[g].start
          /\ code[g].start + code[g].size <= mem[code[g].page].off
      BY <1>9, <2>2 DEF IInv, BlockInv
    <3>2. code[g].start \in Nat /\ code[g].size \in Nat
      BY BlockFields DEF IInv
    <3>3. code'[g] = code[g]
      BY <1>9, <2>2
    <3>4. code[g].start + code[g].size <= mem'[code[g].page].off
      <4>1. CASE code[g].page = p
        BY <1>2, <1>5, <3>1, <3>2, <4>1
      <4>2. CASE code[g].page # p
        BY <1>5, <3>1, <4>2
      <4> QED BY <4>1, <4>2
    <3>5. mem'[code[g].page].prot # "none"
      BY <1>10, <3>1
    <3> QED BY <3>1, <3>3, <3>4, <3>5
  <2> QED BY <2>1, <2>2
<1>14. ApartInv'
  <2>1. \A g \in Fns : code[g].st # "none" /\ code[g].page = p
          => code[g].start + code[g].size <= b.start
    BY <1>4 DEF IInv, BlockInv
  <2> SUFFICES ASSUME NEW g \in Fns, NEW h \in Fns, g # h,
                      code'[g].st # "none", code'[h].st # "none",
                      code'[g].page = code'[h].page
               PROVE  \/ code'[g].start + code'[g].size <= code'[h].start
                      \/ code'[h].start + code'[h].size <= code'[g].start
    BY DEF ApartInv
  <2>2. CASE g = f
    BY <1>4, <1>9, <2>1, <2>2
  <2>3. CASE h = f
    BY <1>4, <1>9, <2>1, <2>3
  <2>4. CASE g # f /\ h # f
    <3>1. code'[g] = code[g] /\ code'[h] = code[h]
      BY <1>9, <2>4
    <3> QED BY <3>1 DEF IInv, ApartInv
  <2> QED BY <2>2, <2>3, <2>4
<1>15. FreedInv'
  <2>0. b.page \in PageIds /\ b.start >= mem[b.page].off
    BY <1>2, <1>4
  <2>1. /\ Cardinality(UsedBytes(b.page)') = Cardinality(UsedBytes(b.page)) + b.size
        /\ \A r \in PageIds : r # b.page => UsedBytes(r)' = UsedBytes(r)
    BY <1>2, <1>3, <1>4, <2>0, UsedAdd DEF IInv
  <2>2. mem[p].freed + Cardinality(UsedBytes(p)) <= mem[p].off
        /\ Cardinality(UsedBytes(p)) \in Nat
    BY <1>2, UsedFinite DEF IInv, FreedInv
  <2>3. mem'[p].freed + Cardinality(UsedBytes(p)') <= mem'[p].off
    BY <1>2, <1>4, <1>5, <2>1, <2>2
  <2>4. \A r \in PageIds \ {p} : UsedBytes(r)' = UsedBytes(r)
    BY <1>4, <2>1
  <2> SUFFICES ASSUME NEW r \in PageIds, mem'[r].prot # "none"
               PROVE  mem'[r].freed + Cardinality(UsedBytes(r)') <= mem'[r].off
    BY DEF FreedInv
  <2>5. CASE r = p
    BY <2>3, <2>5
  <2>6. CASE r # p
    <3>1. mem'[r] = mem[r] /\ UsedBytes(r)' = UsedBytes(r)
      BY <1>5, <2>4, <2>6
    <3>2. mem[r].freed + Cardinality(UsedBytes(r)) <= mem[r].off
      BY <1>10 DEF IInv, FreedInv
    <3> QED BY <3>1, <3>2
  <2> QED BY <2>5, <2>6
<1>16. ExecInv'
  <2> SUFFICES ASSUME NEW g \in Fns, code'[g].st # "none"
               PROVE  mem'[code'[g].page].prot = "rx"
    BY DEF ExecInv
  <2>1. CASE code'[g].page = p
    BY <1>5, <2>1
  <2>2. CASE code'[g].page # p
    <3>1. g # f /\ code'[g] = code[g]
      BY <1>4, <1>9, <2>2
    <3>2. mem[code[g].page].prot = "rx" /\ code[g].page \in PageIds
      BY <2>2, <3>1 DEF IInv, ExecInv, BlockInv
    <3> QED BY <1>5, <2>2, <3>1, <3>2
  <2> QED BY <2>1, <2>2
<1>17. FrameInv'
  BY <1>1, <1>3, <1>4, <1>7, <1>9 DEF FrameInv
<1> QED BY <1>1, <1>3, <1>7, <1>8, <1>11, <1>12, <1>13, <1>14, <1>15, <1>16, <1>17 DEF IInv

LEMMA InvEncodeError ==
  ASSUME IInv, EncodeError
  PROVE  IInv'
<1> DEFINE p == frame.page
<1>1. /\ frame.pc = "encode" /\ ~closed /\ fault = "none"
      /\ Commit(0) /\ PopFrame
      /\ UNCHANGED <<pages, ctx, code, registry, fault, closed>>
  BY DEF EncodeError, Running
<1>2. /\ p \in PageIds /\ p = LastPage /\ mem[p].prot = "rw" /\ mem[p].off \in Nat
  BY <1>1, EncodeFacts
<1>3. /\ mem'[p].off = mem[p].off + 0 /\ mem'[p].size = mem[p].size
      /\ mem'[p].freed = mem[p].freed /\ mem'[p].prot = "rx"
      /\ \A r \in PageIds \ {p} : mem'[r] = mem[r]
  BY <1>1, <1>2, CommitFacts DEF IInv
<1>4. frame'.pc = "idle" /\ suspended' = <<>>
  BY <1>1 DEF PopFrame, NoFrame, IInv
<1>5. TypeOK'
  BY TypeStep DEF IInv, Next
<1> HIDE DEF p
<1>6. \A r \in PageIds :
        /\ mem'[r].off = mem[r].off /\ mem'[r].size = mem[r].size
        /\ mem'[r].freed = mem[r].freed
        /\ mem'[r].prot # "none" <=> mem[r].prot # "none"
  BY <1>2, <1>3
<1>7. PageInv' /\ BlockInv' /\ ApartInv' /\ FreedInv'
  BY <1>1, <1>6, LayoutSame DEF IInv
<1>8. ListInv'
  BY <1>1, <1>6 DEF ListInv, IInv
<1>9. ExecInv'
  BY <1>1, <1>2, <1>3 DEF ExecInv, IInv, BlockInv, p
<1>10. FrameInv'
  BY <1>4 DEF FrameInv
<1> QED BY <1>1, <1>4, <1>5, <1>7, <1>8, <1>9, <1>10 DEF IInv


LEMMA InvPublish ==
  ASSUME IInv, Publish
  PROVE  IInv'
<1> SUFFICES ASSUME NEW f, f = frame.fn PROVE IInv'
  OBVIOUS
<1>1. /\ frame.pc = "publish" /\ ~closed /\ fault = "none" /\ f \in Fns
      /\ code' = [code EXCEPT ![f].st = "published"]
      /\ PopFrame
      /\ UNCHANGED <<pages, mem, ctx, registry, fault, closed>>
  BY FrameFields DEF Publish, Running, IInv
<1>2. code[f].st = "committed"
  BY <1>1 DEF IInv, FrameInv
<1>3. \A g \in Fns :
        /\ code'[g].page = code[g].page /\ code'[g].start = code[g].start
        /\ code'[g].size = code[g].size
        /\ code'[g].st # "none" <=> code[g].st # "none"
  BY <1>1, <1>2 DEF IInv, TypeOK, Block
<1>4. frame' = NoFrame /\ suspended' = <<>>
  BY <1>1 DEF PopFrame, IInv
<1>5. frame'.pc = "idle"
  BY <1>4 DEF NoFrame
<1>6. TypeOK'
  BY TypeStep DEF IInv, Next
<1>7. ListInv'
  BY <1>1, <1>3 DEF ListInv, IInv
<1>8. PageInv' /\ BlockInv' /\ ApartInv'
  BY <1>1, <1>3 DEF PageInv, BlockInv, ApartInv, IInv
<1>9. FreedInv'
  <2>1. ASSUME NEW p \in PageIds PROVE UsedBytes(p)' = UsedBytes(p)
    <3>1. LiveOn(p)' = LiveOn(p)
      BY <1>3 DEF LiveOn, Live
    <3>2. \A g \in LiveOn(p) : Bytes(g)' = Bytes(g)
      BY <1>3 DEF Bytes, LiveOn, Live
    <3> QED BY <3>1, <3>2 DEF UsedBytes
  <2> QED BY <1>1, <2>1 DEF FreedInv, IInv
<1>10. ExecInv'
  BY <1>1, <1>3 DEF ExecInv, IInv
<1>11. FrameInv'
  BY <1>5 DEF FrameInv
<1> QED BY <1>1, <1>4, <1>6, <1>7, <1>8, <1>9, <1>10, <1>11 DEF IInv

\* free_code: with other blocks on the page p of f (the i-th of the list) p
\* stays, and by UsedSub p is released only when f is the last of them.
LEMMA InvFree ==
  ASSUME IInv, NEW f \in Fns, FreeCode(f)
  PROVE  IInv'
<1> SUFFICES ASSUME NEW p, p = code[f].page PROVE IInv'
  OBVIOUS
<1>1. /\ ~closed /\ fault = "none" /\ code[f].st = "published"
      /\ frame.pc # "encode" /\ CanRunLua
      /\ UNCHANGED <<ctx, frame, suspended, closed>>
  BY DEF FreeCode, RefsWithout, Running, CanRunLua
<1>2. /\ p \in PageIds /\ mem[p].prot = "rx"
      /\ code[f].start \in Nat /\ code[f].size \in Nat /\ code[f].size > 0
      /\ code[f].start + code[f].size <= mem[p].off
      /\ mem[p].off <= mem[p].size
      /\ mem[p].off \in Nat /\ mem[p].size \in Nat /\ mem[p].freed \in Nat
  <2>1. p \in PageIds /\ mem[p].prot = "rx" /\ code[f].size > 0
        /\ code[f].start + code[f].size <= mem[p].off
    BY <1>1 DEF IInv, BlockInv, ExecInv
  <2> QED BY <2>1, BlockFields, PageFields DEF IInv, PageInv
<1>3. Holders(f) # {}
  <2>1. PICK i \in 1..Len(pages) : pages[i] = p
    BY <1>1, <1>2 DEF IInv, ListInv
  <2>2. code[f].start < mem[pages[i]].size
    BY <1>2, <2>1
  <2> QED BY <2>1, <2>2 DEF Holders
<1>4. PICK i \in Holders(f) : ReleaseFrom(i, f)
  BY <1>3 DEF FreeCode, RefsWithout
<1>5. i \in 1..Len(pages) /\ pages[i] = p /\ code' = [code EXCEPT ![f] = NoCode]
      /\ fault' = "none"
  BY <1>1, <1>3, <1>4 DEF FreeCode, RefsWithout, Holders
<1>6. /\ code'[f].st = "none"
      /\ \A g \in Fns : code'[g].st # "none" =>
           g # f /\ code'[g] = code[g] /\ code[g].st # "none"
      /\ \A g \in Fns : code[g].st # "none" /\ g # f => code'[g] = code[g]
  BY <1>5 DEF IInv, TypeOK, NoCode
<1>7. TypeOK'
  BY TypeStep DEF IInv, Next
<1>8. /\ Cardinality(UsedBytes(p)') = Cardinality(UsedBytes(p)) - code[f].size
      /\ \A g \in LiveOn(p) : g # f => Cardinality(UsedBytes(p)) > code[f].size
      /\ \A q \in PageIds : q # p => UsedBytes(q)' = UsedBytes(q)
  BY <1>1, <1>2, <1>5, UsedSub DEF IInv
<1>9. /\ Cardinality(UsedBytes(p)) \in Nat
      /\ mem[p].freed + Cardinality(UsedBytes(p)) <= mem[p].off
  BY <1>2, UsedFinite DEF IInv, FreedInv
<1>10. /\ \A j, k \in 1..Len(pages) : pages[j] = pages[k] => j = k
       /\ \A q \in PageIds :
            mem[q].prot # "none" <=> \E j \in 1..Len(pages) : pages[j] = q
  BY <1>1 DEF IInv, ListInv
<1>11. /\ frame.pc # "idle" => frame.fn # f
       /\ frame.pc = "link" => frame.page # p /\ mem[frame.page].prot = "rw"
  <2>1. frame.pc = "publish" => code[frame.fn].st = "committed"
    BY DEF IInv, FrameInv
  <2>2. frame.pc \in {"setup", "emitted", "link"} => code[frame.fn].st = "none"
    BY DEF IInv, FrameInv
  <2>3. frame.pc = "link" => frame.page # p /\ mem[frame.page].prot = "rw"
    BY <1>1 DEF IInv, FrameInv
  <2> QED BY <1>1, <2>1, <2>2, <2>3 DEF CanRunLua
<1>12. CASE mem[p].freed + code[f].size < mem[p].off
  <2>1. /\ mem' = [mem EXCEPT ![p].freed = mem[p].freed + code[f].size,
                             ![p].prot = "rx"]
        /\ UNCHANGED pages
    BY <1>4, <1>5, <1>12 DEF ReleaseFrom, FreedWith
  <2>2. /\ mem'[p].freed = mem[p].freed + code[f].size /\ mem'[p].prot = "rx"
        /\ mem'[p].off = mem[p].off /\ mem'[p].size = mem[p].size
        /\ \A q \in PageIds \ {p} : mem'[q] = mem[q]
    BY <1>2, <2>1 DEF IInv, TypeOK, Page
  <2>3. \A q \in PageIds : mem'[q].prot # "none" <=> mem[q].prot # "none"
    BY <1>2, <2>2
  <2>4. ListInv'
    BY <1>1, <1>10, <2>1, <2>3 DEF ListInv
  <2>5. PageInv'
    BY <2>2, <2>3 DEF PageInv, IInv
  <2>6. \A q \in PageIds : mem'[q].off = mem[q].off
    BY <2>2
  <2>7. BlockInv'
    BY <1>6, <2>3, <2>6 DEF BlockInv, IInv
  <2>8. ApartInv'
    BY <1>6 DEF ApartInv, IInv
  <2>9. FreedInv'
    <3>1. mem'[p].freed + Cardinality(UsedBytes(p)') <= mem'[p].off
      BY <1>2, <1>8, <1>9, <2>2
    <3> SUFFICES ASSUME NEW q \in PageIds, mem'[q].prot # "none", q # p
                 PROVE  mem'[q].freed + Cardinality(UsedBytes(q)') <= mem'[q].off
      BY <3>1 DEF FreedInv
    <3>2. UsedBytes(q)' = UsedBytes(q) /\ mem'[q] = mem[q]
      BY <1>8, <2>2
    <3> QED BY <2>3, <3>2 DEF FreedInv, IInv
  <2>10. ExecInv'
    <3> SUFFICES ASSUME NEW g \in Fns, code'[g].st # "none"
                 PROVE  mem'[code'[g].page].prot = "rx"
      BY DEF ExecInv
    <3>1. code'[g] = code[g] /\ code[g].page \in PageIds
          /\ mem[code[g].page].prot = "rx"
      BY <1>1, <1>6 DEF IInv, BlockInv, ExecInv
    <3> QED BY <2>2, <3>1
  <2>11. FrameInv'
    <3>1. frame.pc = "link" => mem'[frame.page] = mem[frame.page]
      BY <1>11, <2>2, FrameFields DEF IInv
    <3>2. LastPage' = LastPage
      BY <2>1 DEF LastPage
    <3>3. frame.pc \in {"setup", "emitted", "link"} => code'[frame.fn].st = "none"
      BY <1>6, FrameFields DEF IInv, FrameInv
    <3>4. frame.pc = "publish" => code'[frame.fn].st = "committed"
      BY <1>6, <1>11, FrameFields DEF IInv, FrameInv
    <3>5. \A g \in Fns : frame.pc = "link" /\ code'[g].st # "none"
            => code'[g].page # frame.page
      BY <1>6 DEF IInv, FrameInv
    <3> QED BY <1>1, <2>1, <3>1, <3>2, <3>3, <3>4, <3>5 DEF FrameInv, IInv
  <2> QED BY <1>1, <1>5, <1>7, <2>4, <2>5, <2>7, <2>8, <2>9, <2>10, <2>11 DEF IInv
<1>13. CASE ~(mem[p].freed + code[f].size < mem[p].off)
  <2>1. mem' = [mem EXCEPT ![p] = Unmapped] /\ pages' = DropPage(i)
    BY <1>4, <1>5, <1>13 DEF ReleaseFrom, FreedWith
  <2>2. /\ mem'[p].prot = "none"
        /\ \A q \in PageIds \ {p} : mem'[q] = mem[q]
    BY <1>2, <2>1 DEF IInv, TypeOK, Unmapped
  <2>3. \A g \in LiveOn(p) : g = f
    BY <1>2, <1>8, <1>9, <1>13
  <2>4. \A g \in Fns : code'[g].st # "none" =>
          /\ code'[g] = code[g] /\ code[g].st # "none"
          /\ code[g].page \in PageIds \ {p}
          /\ mem'[code[g].page] = mem[code[g].page]
    <3> SUFFICES ASSUME NEW g \in Fns, code'[g].st # "none"
                 PROVE  /\ code'[g] = code[g] /\ code[g].st # "none"
                        /\ code[g].page \in PageIds \ {p}
                        /\ mem'[code[g].page] = mem[code[g].page]
      OBVIOUS
    <3>1. code'[g] = code[g] /\ code[g].st # "none" /\ g # f
      BY <1>6
    <3>2. code[g].page \in PageIds /\ code[g].page # p
      BY <2>3, <3>1 DEF IInv, BlockInv, LiveOn, Live
    <3> QED BY <2>2, <3>1, <3>2
  <2>5. /\ Len(pages') = Len(pages) - 1 /\ Len(pages) \in Nat
        /\ \A j \in 1..(Len(pages) - 1) :
             pages'[j] = IF j < i THEN pages[j] ELSE pages[j + 1]
    BY <1>5, <2>1, DropPageType, LenProperties DEF IInv, TypeOK
  <2>6. ListInv'
    <3>1. \A j, k \in 1..Len(pages') : pages'[j] = pages'[k] => j = k
      BY <1>5, <1>10, <2>5
    <3>2. ASSUME NEW q \in PageIds
          PROVE  mem'[q].prot # "none" <=> \E j \in 1..Len(pages') : pages'[j] = q
      <4>1. CASE q = p
        <5>1. \A j \in 1..Len(pages') : pages'[j] # p
          BY <1>5, <1>10, <2>5
        <5> QED BY <2>2, <4>1, <5>1
      <4>2. CASE q # p
        <5>1. mem'[q].prot # "none" <=> \E j \in 1..Len(pages) : pages[j] = q
          BY <1>10, <2>2, <4>2
        <5>2. ASSUME NEW j \in 1..Len(pages), pages[j] = q
              PROVE  \E k \in 1..Len(pages') : pages'[k] = q
          <6>1. CASE j < i
            BY <1>5, <2>5, <5>2, <6>1
          <6>2. CASE j > i
            <7>1. j - 1 \in 1..Len(pages') /\ pages'[j - 1] = pages[j]
              BY <1>5, <2>5, <6>2
            <7> QED BY <5>2, <7>1
          <6>3. j # i
            BY <1>5, <4>2, <5>2
          <6> QED BY <1>5, <6>1, <6>2, <6>3
        <5>3. ASSUME NEW k \in 1..Len(pages'), pages'[k] = q
              PROVE  \E j \in 1..Len(pages) : pages[j] = q
          <6>1. k \in 1..Len(pages) /\ k + 1 \in 1..Len(pages)
            BY <2>5
          <6> QED BY <2>5, <5>3, <6>1
        <5> QED BY <5>1, <5>2, <5>3
      <4> QED BY <4>1, <4>2
    <3> QED BY <1>1, <3>1, <3>2 DEF ListInv
  <2>7. PageInv'
    BY <2>2 DEF PageInv, IInv
  <2>8. BlockInv'
    BY <2>4 DEF BlockInv, IInv
  <2>9. ApartInv'
    BY <2>4 DEF ApartInv, IInv
  <2>10. FreedInv'
    BY <1>8, <2>2 DEF FreedInv, IInv
  <2>11. ExecInv'
    BY <1>1, <2>4 DEF ExecInv, IInv
  <2>12. FrameInv'
    <3>1. frame.pc = "link" => mem'[frame.page] = mem[frame.page]
      BY <1>11, <2>2, FrameFields DEF IInv
    <3>2. frame.pc = "link" => Len(pages') > 0 /\ LastPage' = LastPage
      <4> SUFFICES ASSUME frame.pc = "link"
                   PROVE  Len(pages') > 0 /\ LastPage' = LastPage
        OBVIOUS
      <4>1. frame.page = LastPage /\ Len(pages) > 0
        BY DEF IInv, FrameInv
      <4>2. i < Len(pages)
        BY <1>5, <1>11, <2>5, <4>1 DEF LastPage
      <4>3. Len(pages') > 0 /\ pages'[Len(pages')] = pages[Len(pages)]
        BY <1>5, <2>5, <4>2
      <4> QED BY <4>3 DEF LastPage
    <3>3. frame.pc \in {"setup", "emitted", "link"} => code'[frame.fn].st = "none"
      BY <1>6, FrameFields DEF IInv, FrameInv
    <3>4. frame.pc = "publish" => code'[frame.fn].st = "committed"
      BY <1>6, <1>11, FrameFields DEF IInv, FrameInv
    <3>5. \A g \in Fns : frame.pc = "link" /\ code'[g].st # "none"
            => code'[g].page # frame.page
      BY <1>6 DEF IInv, FrameInv
    <3> QED BY <1>1, <3>1, <3>2, <3>3, <3>4, <3>5 DEF FrameInv, IInv
  <2> QED BY <1>1, <1>5, <1>7, <2>6, <2>7, <2>8, <2>9, <2>10, <2>11, <2>12 DEF IInv
<1> QED BY <1>12, <1>13


LEMMA InvJitGc ==
  ASSUME IInv, JitGc
  PROVE  IInv'
<1>1. /\ ~closed /\ closed' /\ fault = "none" /\ frame.pc = "idle"
      /\ UNCHANGED <<pages, ctx, registry, frame, suspended, fault>>
      /\ code' = [f \in Fns |-> NoCode]
      /\ mem' = [p \in PageIds |->
                   IF \E i \in 1..Len(pages) : pages[i] = p THEN Unmapped ELSE mem[p]]
  BY DEF JitGc, Running
<1>2. \A f \in Fns : code'[f].st = "none"
  BY <1>1 DEF NoCode
<1>3. ASSUME NEW p \in PageIds PROVE mem'[p].prot = "none"
  <2>1. CASE \E i \in 1..Len(pages) : pages[i] = p
    BY <1>1, <2>1 DEF Unmapped
  <2>2. CASE ~\E i \in 1..Len(pages) : pages[i] = p
    BY <1>1, <2>2 DEF IInv, ListInv
  <2> QED BY <2>1, <2>2
<1>4. TypeOK'
  BY TypeStep DEF IInv, Next
<1>5. ListInv'
  BY <1>1, <1>2, <1>3 DEF ListInv, IInv
<1>6. PageInv' /\ BlockInv' /\ ApartInv' /\ FreedInv' /\ ExecInv'
  BY <1>2, <1>3 DEF PageInv, BlockInv, ApartInv, FreedInv, ExecInv
<1>7. FrameInv'
  BY <1>1 DEF FrameInv
<1> QED BY <1>1, <1>4, <1>5, <1>6, <1>7 DEF IInv

LEMMA InvStep == MaxNest = 0 /\ IInv /\ [Next]_vars => IInv'
<1> SUFFICES ASSUME MaxNest = 0, IInv, [Next]_vars PROVE IInv'
  OBVIOUS
<1>1. CASE \E f \in Fns : BeginCompile(f)
  BY <1>1, InvBegin
<1>2. CASE Emit
  BY <1>2, InvEmit
<1>3. CASE CompileError \/ LinkError \/ PublishError
  BY <1>3, InvError
<1>4. CASE ReserveOnLastPage
  BY <1>4, InvReserveOld
<1>5. CASE \E p \in PageIds : ReserveNewPage(p)
  BY <1>5, InvReserveNew
<1>6. CASE LinkSlot
  BY <1>6, InvLinkSlot
<1>7. CASE LinkDone
  BY <1>7, InvLinkDone
<1>8. CASE EncodeOk
  BY <1>8, InvEncodeOk
<1>9. CASE EncodeError
  BY <1>9, InvEncodeError
<1>10. CASE Publish
  BY <1>10, InvPublish
<1>11. CASE \E f \in Fns : FreeCode(f)
  BY <1>11, InvFree
<1>12. CASE JitGc
  BY <1>12, InvJitGc
<1>13. CASE UNCHANGED vars
  <2>1. ListInv' /\ PageInv' /\ BlockInv' /\ ApartInv' /\ FreedInv'
    BY <1>13, MemorySame DEF vars, IInv
  <2>2. ExecInv' /\ FrameInv'
    BY <1>13 DEF vars, IInv, ExecInv, FrameInv, LastPage
  <2> QED BY <1>13, <2>1, <2>2, TypeStep DEF vars, IInv
<1> QED BY <1>1, <1>2, <1>3, <1>4, <1>5, <1>6, <1>7, <1>8, <1>9, <1>10,
           <1>11, <1>12, <1>13 DEF Next

LEMMA InvAlways ==
  ASSUME MaxNest = 0
  PROVE  Spec => []IInv
<1>1. IInv /\ [Next]_vars => IInv'
  BY InvStep
<1> QED BY <1>1, InvInit, PTL DEF Spec

-----------------------------------------------------------------------------
(* What the invariant gives, for every number of functions, pages and link  *)
(* table entries, every size, and whatever compilations fail.               *)

\* free_code never unmaps the page of code that is still in use, and never
\* leaves a block outside the part of its page that is in use.
THEOREM CodeStaysMapped ==
  ASSUME MaxNest = 0
  PROVE  Spec => []LiveCodeMapped
<1>1. IInv => LiveCodeMapped
  BY DEF IInv, BlockInv, PageInv, LiveCodeMapped, Live, Mapped
<1> QED BY <1>1, InvAlways, PTL

\* reserve_code and commit_code never hand out the same byte twice.
THEOREM BlocksDisjoint ==
  ASSUME MaxNest = 0
  PROVE  Spec => []LiveCodeDisjoint
<1>1. ASSUME IInv, NEW f \in Live, NEW g \in Live, f # g,
             code[f].page = code[g].page
      PROVE  Bytes(f) \cap Bytes(g) = {}
  <2>1. /\ f \in Fns /\ g \in Fns
        /\ code[f].st # "none" /\ code[g].st # "none"
    BY DEF Live
  <2>2. /\ code[f].start \in Nat /\ code[f].size \in Nat
        /\ code[g].start \in Nat /\ code[g].size \in Nat
    BY <1>1, <2>1, BlockFields DEF IInv
  <2>3. \/ code[f].start + code[f].size <= code[g].start
        \/ code[g].start + code[g].size <= code[f].start
    BY <1>1, <2>1 DEF IInv, ApartInv
  <2> QED BY <2>2, <2>3 DEF Bytes
<1>2. IInv => LiveCodeDisjoint
  BY <1>1 DEF LiveCodeDisjoint
<1> QED BY <1>2, InvAlways, PTL

\* Whenever Lua can run, no page with code in it is left writable.
THEOREM CodeStaysExecutable ==
  ASSUME MaxNest = 0
  PROVE  Spec => []LiveCodeExecutable
<1>1. IInv => LiveCodeExecutable
  BY DEF IInv, ExecInv, LiveCodeExecutable, Live, CanRunLua
<1> QED BY <1>1, InvAlways, PTL

\* The list jit->pages and the mapped pages agree.
THEOREM PageListExact ==
  ASSUME MaxNest = 0
  PROVE  Spec => []PagesAreMapped
<1>1. ASSUME IInv PROVE PagesAreMapped
  <2>1. \A i \in 1..Len(pages) : pages[i] \in PageIds
    BY <1>1, ElementOfSeq DEF IInv, TypeOK
  <2>2. Mapped = IF closed THEN {} ELSE {pages[i] : i \in 1..Len(pages)}
    BY <1>1, <2>1 DEF IInv, ListInv, Mapped
  <2> QED BY <1>1, <2>2 DEF IInv, ListInv, PagesAreMapped
<1> QED BY <1>1, InvAlways, PTL

\* get_extern and commit_code look up the page that reserve_code returned.
THEOREM CommitsInPlace ==
  ASSUME MaxNest = 0
  PROVE  Spec => []CommitsWhereReserved
<1>1. IInv => CommitsWhereReserved
  BY DEF IInv, FrameInv, CommitsWhereReserved, Writable
<1> QED BY <1>1, InvAlways, PTL

\* Every block that is freed is found in a page, and no page is written
\* while it is protected.
THEOREM NoFault ==
  ASSUME MaxNest = 0
  PROVE  Spec => []NeverStops
<1>1. IInv => NeverStops
  BY DEF IInv, NeverStops
<1> QED BY <1>1, InvAlways, PTL

-----------------------------------------------------------------------------
(* What the pages keep account of: the registry slots of callbacks, however *)
(* deep compilations nest, and, when none nests, the bytes of each page     *)
(* that are in use.                                                         *)

-----------------------------------------------------------------------------
(* The compilations under way. *)

LEMMA FramesType ==
  ASSUME TypeOK
  PROVE  /\ Len(suspended) \in Nat
         /\ \A i \in 0..Len(suspended) : FrameAt(i) \in Frame
<1>1. suspended \in Seq(Frame) /\ Len(suspended) \in Nat
  BY LenProperties DEF TypeOK
<1>2. \A i \in 0..Len(suspended) : i # 0 => i \in 1..Len(suspended)
  BY <1>1
<1>3. \A i \in 1..Len(suspended) : suspended[i] \in Frame
  BY <1>1, ElementOfSeq
<1> QED BY <1>1, <1>2, <1>3 DEF FrameAt, TypeOK

\* The frame on top goes and the others move up.
LEMMA PopShift ==
  ASSUME TypeOK, PopFrame
  PROVE  \/ /\ suspended = <<>> /\ suspended' = <<>> /\ Len(suspended') = 0
            /\ FrameAt(0)' = NoFrame
         \/ /\ suspended # <<>> /\ Len(suspended') = Len(suspended) - 1
            /\ Len(suspended) \in Nat
            /\ \A i \in 0..Len(suspended') :
                 i + 1 \in 1..Len(suspended) /\ FrameAt(i)' = FrameAt(i + 1)
<1>1. suspended \in Seq(Frame)
  BY DEF TypeOK
<1>2. CASE suspended = <<>>
  BY <1>2, EmptySeq DEF PopFrame, FrameAt
<1>3. CASE suspended # <<>>
  <2>1. frame' = Head(suspended) /\ suspended' = Tail(suspended)
    BY <1>3 DEF PopFrame
  <2>2. /\ Len(suspended') = Len(suspended) - 1
        /\ \A i \in 1..Len(suspended') : suspended'[i] = suspended[i + 1]
    BY <1>1, <1>3, <2>1, HeadTailProperties
  <2>3. Len(suspended) \in Nat \ {0}
    BY <1>1, <1>3, EmptySeq
  <2>4. frame' = suspended[1]
    BY <2>1
  <2>5. ASSUME NEW i \in 0..Len(suspended')
        PROVE  i + 1 \in 1..Len(suspended) /\ FrameAt(i)' = FrameAt(i + 1)
    <3>1. i + 1 \in 1..Len(suspended) /\ i + 1 # 0 /\ (i # 0 => i \in 1..Len(suspended'))
      BY <2>2, <2>3
    <3>2. CASE i = 0
      BY <2>4, <3>1, <3>2 DEF FrameAt
    <3>3. CASE i # 0
      BY <2>2, <3>1, <3>3 DEF FrameAt
    <3> QED BY <3>1, <3>2, <3>3
  <2> QED BY <1>3, <2>2, <2>3, <2>5
<1> QED BY <1>2, <1>3

\* A compilation that is interrupted goes to the front of the others.
LEMMA PushShift ==
  ASSUME TypeOK, suspended' = <<frame>> \o suspended
  PROVE  /\ Len(suspended') = Len(suspended) + 1
         /\ \A i \in 1..Len(suspended') :
              i - 1 \in 0..Len(suspended) /\ FrameAt(i)' = FrameAt(i - 1)
<1>1. suspended \in Seq(Frame) /\ frame \in Frame /\ Len(suspended) \in Nat
  BY LenProperties DEF TypeOK
<1>2. <<frame>> \in Seq(Frame) /\ Len(<<frame>>) = 1 /\ <<frame>>[1] = frame
  BY <1>1
<1>3. /\ Len(suspended') = 1 + Len(suspended)
      /\ \A i \in 1..(1 + Len(suspended)) :
           suspended'[i] = IF i <= 1 THEN <<frame>>[i] ELSE suspended[i - 1]
  BY <1>1, <1>2, ConcatProperties
<1>4. ASSUME NEW i \in 1..Len(suspended')
      PROVE  i - 1 \in 0..Len(suspended) /\ FrameAt(i)' = FrameAt(i - 1)
  <2>1. i - 1 \in 0..Len(suspended) /\ i # 0 /\ (i <= 1 => i = 1 /\ i - 1 = 0)
    BY <1>1, <1>3
  <2>2. suspended'[i] = FrameAt(i - 1)
    BY <1>2, <1>3, <2>1 DEF FrameAt
  <2> QED BY <2>1, <2>2 DEF FrameAt
<1> QED BY <1>1, <1>3, <1>4

-----------------------------------------------------------------------------
(* The references of callbacks. *)

LEMMA RefInit == Init => RefInv
<1> SUFFICES ASSUME Init PROVE RefInv
  OBVIOUS
<1>1. Len(suspended) = 0 /\ frame = NoFrame /\ \A f \in Fns : code[f].st = "none" /\ code[f].ref = Nil
  BY EmptySeq DEF Init, NoCode
<1>2. FrameRef(NoFrame)
  BY DEF FrameRef, NoFrame
<1> QED BY <1>1, <1>2 DEF RefInv, FramesRef, FramesApart, CodeRef, FrameAt

LEMMA RefBegin ==
  ASSUME TypeOK, RefInv, NEW f \in Fns, BeginCompile(f)
  PROVE  RefInv'
<1>1. /\ frame' = [NoFrame EXCEPT !.fn = f, !.pc = "setup"]
      /\ UNCHANGED <<code, registry>> /\ code[f].st = "none"
      /\ Len(suspended) \in Nat
  BY LenProperties DEF BeginCompile, TypeOK
<1>2. frame'.fn = f /\ frame'.pc = "setup" /\ frame'.ref = Nil
  BY <1>1 DEF NoFrame
<1>3. ASSUME NEW i \in 0..Len(suspended) PROVE FrameAt(i).fn # f
  <2>1. i = 0 \/ i \in 1..Len(suspended)
    BY <1>1
  <2> QED BY <2>1 DEF BeginCompile, FrameAt
<1>4. \A i \in 0..Len(suspended') : i = 0 \/ i \in 1..Len(suspended')
  BY <1>1, PushShift DEF BeginCompile
<1>5. ASSUME NEW i \in 1..Len(suspended'), NEW j \in 1..Len(suspended')
      PROVE  \E k, l \in 0..Len(suspended) :
               FrameAt(i)' = FrameAt(k) /\ FrameAt(j)' = FrameAt(l) /\ (i = j <=> k = l)
  <2>1. CASE UNCHANGED suspended
    <3>1. i \in 0..Len(suspended) /\ j \in 0..Len(suspended) /\ i # 0 /\ j # 0
      BY <1>1, <2>1
    <3>2. FrameAt(i)' = FrameAt(i) /\ FrameAt(j)' = FrameAt(j)
      BY <2>1, <3>1 DEF FrameAt
    <3> QED BY <3>1, <3>2
  <2>2. CASE suspended' = <<frame>> \o suspended
    <3>1. /\ i - 1 \in 0..Len(suspended) /\ FrameAt(i)' = FrameAt(i - 1)
          /\ j - 1 \in 0..Len(suspended) /\ FrameAt(j)' = FrameAt(j - 1)
      BY <2>2, PushShift
    <3> QED BY <3>1
  <2> QED BY <2>1, <2>2 DEF BeginCompile
<1>6. FrameAt(0)' = frame'
  BY DEF FrameAt
<1>7. \A i \in 1..Len(suspended') :
        /\ FrameRef(FrameAt(i))' /\ FrameAt(i)'.fn # f
        /\ \A g \in Fns : code[g].ref # Nil
             => code[g].ref # FrameAt(i)'.ref
  BY <1>1, <1>3, <1>5 DEF RefInv, FramesRef, CodeRef, FrameRef
<1>8. \A i, j \in 1..Len(suspended') : i # j =>
        /\ FrameAt(i)'.fn # FrameAt(j)'.fn
        /\ FrameAt(i)'.ref # Nil => FrameAt(i)'.ref # FrameAt(j)'.ref
  BY <1>5 DEF RefInv, FramesApart
<1>9. FrameRef(frame)'
  BY <1>1, <1>2 DEF FrameRef
<1>10. FramesRef'
  BY <1>4, <1>6, <1>7, <1>9 DEF FramesRef
<1>11. FramesApart'
  BY <1>2, <1>4, <1>6, <1>7, <1>8 DEF FramesApart
<1>12. \A g \in Fns : CodeRef(g)'
  BY <1>1, <1>2, <1>4, <1>6, <1>7 DEF RefInv, CodeRef
<1> QED BY <1>10, <1>11, <1>12 DEF RefInv

\* A callback takes a free slot.
LEMMA RefEmit ==
  ASSUME TypeOK, RefInv, Emit
  PROVE  RefInv'
<1>1. /\ frame.pc = "setup" /\ frame.fn \in Fns /\ frame.ref = Nil
      /\ code[frame.fn].st = "none" /\ Len(suspended) \in Nat
      /\ UNCHANGED <<code, suspended>>
  <2>1. Len(suspended) \in Nat /\ 0 \in 0..Len(suspended) /\ FrameAt(0) = frame
    BY FramesType DEF FrameAt
  <2> QED BY <2>1, FrameFields DEF Emit, RefInv, FramesRef, FrameRef
<1>2. PICK r \in Refs \cup {Nil} :
        /\ frame' = [frame EXCEPT !.pc = "emitted", !.ref = r]
        /\ registry' = registry \cup ({r} \ {Nil})
        /\ frame.fn \in Callbacks <=> r # Nil
        /\ r \notin registry
  <2>1. CASE frame.fn \in Callbacks
    <3>1. PICK r \in Refs \ registry :
            registry' = registry \cup {r} /\ frame' = [frame EXCEPT !.pc = "emitted", !.ref = r]
      BY <2>1 DEF Emit, FreeRefs
    <3> QED BY <2>1, <3>1, CodePagesAssumption
  <2>2. CASE frame.fn \notin Callbacks
    <3>1. frame' = [frame EXCEPT !.pc = "emitted"] /\ registry' = registry
      BY <2>2 DEF Emit
    <3>2. frame' = [frame EXCEPT !.pc = "emitted", !.ref = Nil]
      BY <1>1, <3>1, FrameFields
    <3>3. Nil \notin registry
      BY CodePagesAssumption DEF TypeOK
    <3> QED BY <2>2, <3>1, <3>2, <3>3
  <2> QED BY <2>1, <2>2
<1>3. frame'.pc = "emitted" /\ frame'.fn = frame.fn /\ frame'.ref = r
  BY <1>2, FrameFields
<1>4. FrameRef(frame)'
  BY <1>1, <1>2, <1>3 DEF FrameRef
<1>5. /\ FrameAt(0)' = frame' /\ FrameAt(0) = frame
      /\ \A i \in 0..Len(suspended) : i # 0 => FrameAt(i)' = FrameAt(i)
  BY <1>1 DEF FrameAt
<1>6. \A i \in 0..Len(suspended) : i # 0 =>
        FrameRef(FrameAt(i))' /\ (FrameAt(i).ref # Nil => FrameAt(i).ref # r)
  BY <1>1, <1>2, <1>5 DEF RefInv, FramesRef, FrameRef
<1>7. 0 \in 0..Len(suspended)
  BY <1>1
<1>8. FramesRef'
  BY <1>1, <1>4, <1>5, <1>6 DEF FramesRef
<1>9. FramesApart'
  <2> SUFFICES ASSUME NEW i \in 0..Len(suspended), NEW j \in 0..Len(suspended), i # j
               PROVE  /\ FrameAt(i)'.fn # FrameAt(j)'.fn
                      /\ FrameAt(i)'.ref # Nil => FrameAt(i)'.ref # FrameAt(j)'.ref
    BY <1>1 DEF FramesApart
  <2>1. /\ FrameAt(i).fn # FrameAt(j).fn
        /\ FrameAt(i).ref # Nil => FrameAt(i).ref # FrameAt(j).ref
    BY DEF RefInv, FramesApart
  <2>2. CASE i = 0
    BY <1>3, <1>5, <1>6, <2>1, <2>2
  <2>3. CASE j = 0
    BY <1>3, <1>5, <1>6, <2>1, <2>3
  <2>4. CASE i # 0 /\ j # 0
    BY <1>5, <2>1, <2>4
  <2> QED BY <2>2, <2>3, <2>4
<1>10. \A g \in Fns : CodeRef(g)'
  <2> SUFFICES ASSUME NEW g \in Fns PROVE CodeRef(g)'
    BY <1>1
  <2>1. CodeRef(g)
    BY DEF RefInv
  <2>2. registry \subseteq registry'
    BY <1>2
  <2>3. code[g].ref # Nil => \A i \in 0..Len(suspended) : code[g].ref # FrameAt(i)'.ref
    <3>1. code[g].ref # Nil => code[g].ref # r
      BY <1>2, <2>1 DEF CodeRef
    <3> QED BY <1>3, <1>5, <2>1, <3>1 DEF CodeRef
  <2> QED BY <1>1, <2>1, <2>2, <2>3 DEF CodeRef
<1> QED BY <1>8, <1>9, <1>10 DEF RefInv

\* A step of the running compilation that leaves code and references alone.
LEMMA RefFrame ==
  ASSUME TypeOK, RefInv, UNCHANGED <<code, registry, suspended>>,
         frame'.fn = frame.fn, frame'.ref = frame.ref,
         frame.pc \in {"emitted", "link", "encode"},
         frame'.pc \in {"emitted", "link", "encode"}
  PROVE  RefInv'
<1>1. Len(suspended) \in Nat /\ 0 \in 0..Len(suspended)
  BY FramesType
<1>2. /\ FrameAt(0)' = frame' /\ FrameAt(0) = frame
      /\ \A i \in 0..Len(suspended) : i # 0 => FrameAt(i)' = FrameAt(i)
  BY DEF FrameAt
<1>3. FrameRef(frame)'
  BY <1>1, <1>2 DEF RefInv, FramesRef, FrameRef
<1>4. \A i \in 0..Len(suspended) : i # 0 => FrameRef(FrameAt(i))'
  BY <1>2 DEF RefInv, FramesRef, FrameRef
<1>5. FramesRef'
  BY <1>2, <1>3, <1>4 DEF FramesRef
<1>6. FramesApart'
  BY <1>1, <1>2 DEF RefInv, FramesApart
<1>7. \A g \in Fns : CodeRef(g)'
  BY <1>1, <1>2 DEF RefInv, CodeRef
<1> QED BY <1>5, <1>6, <1>7 DEF RefInv

\* The running compilation ends; its code, if it made any, has its reference.
LEMMA RefPop ==
  ASSUME TypeOK, RefInv, PopFrame, UNCHANGED registry, frame.fn \in Fns,
         \A g \in Fns \ {frame.fn} :
           code'[g].st = code[g].st /\ code'[g].ref = code[g].ref,
         IF code'[frame.fn].st = "none"
           THEN code'[frame.fn].ref = Nil
           ELSE frame.pc \notin {"idle", "setup"} /\ code'[frame.fn].ref = frame.ref
  PROVE  RefInv'
<1> DEFINE f == frame.fn
<1>1. /\ Len(suspended) \in Nat /\ 0 \in 0..Len(suspended) /\ FrameAt(0) = frame
      /\ FrameRef(frame)
  BY FramesType DEF FrameAt, RefInv, FramesRef
<1>2. FrameRef(NoFrame)' /\ NoFrame.ref = Nil
  BY DEF FrameRef, NoFrame
\* What moves up.
<1>3. ASSUME NEW i \in 0..Len(suspended')
      PROVE  \/ /\ Len(suspended') = 0 /\ FrameAt(i)' = NoFrame
             \/ /\ i + 1 \in 1..Len(suspended) /\ i + 1 # 0
                /\ FrameAt(i)' = FrameAt(i + 1)
  BY PopShift
<1>4. ASSUME NEW i \in 1..Len(suspended), NEW w, w = FrameAt(i)
      PROVE  /\ FrameRef(w)' /\ w.fn # f
             /\ frame.ref # Nil => frame.ref # w.ref
  <2>1. /\ i \in 0..Len(suspended) /\ i # 0
        /\ FrameAt(i).fn # f /\ FrameRef(FrameAt(i))
        /\ frame.ref # Nil => frame.ref # FrameAt(i).ref
    BY <1>1 DEF RefInv, FramesApart, FramesRef
  <2>2. w.pc # "idle" => w.fn \in Fns
    BY <1>4, <2>1, FramesType DEF Frame
  <2>3. FrameRef(w)'
    BY <1>4, <2>1, <2>2 DEF FrameRef
  <2> QED BY <1>4, <2>1, <2>3
<1>5. FramesRef'
  BY <1>2, <1>3, <1>4 DEF FramesRef
<1>6. FramesApart'
  <2> SUFFICES ASSUME NEW i \in 0..Len(suspended'), NEW j \in 0..Len(suspended'), i # j
               PROVE  /\ FrameAt(i)'.fn # FrameAt(j)'.fn
                      /\ FrameAt(i)'.ref # Nil => FrameAt(i)'.ref # FrameAt(j)'.ref
    BY DEF FramesApart
  <2>1. /\ i + 1 \in 0..Len(suspended) /\ FrameAt(i)' = FrameAt(i + 1)
        /\ j + 1 \in 0..Len(suspended) /\ FrameAt(j)' = FrameAt(j + 1)
        /\ i + 1 # j + 1
    BY <1>1, <1>3
  <2> QED BY <2>1 DEF RefInv, FramesApart
<1>7. ASSUME NEW g \in Fns
      PROVE  CodeRef(g)'
  <2>1. ASSUME code'[g].ref # Nil
        PROVE  /\ code'[g].ref \in registry
               /\ \A i \in 1..Len(suspended) : code'[g].ref # FrameAt(i).ref
               /\ \A h \in Fns : h # g => code'[g].ref # code'[h].ref
    <3>1. CASE g = f
      <4>1. code'[g].ref = frame.ref /\ frame.ref \in registry
        BY <1>1, <2>1, <3>1 DEF FrameRef
      <4>2. \A h \in Fns : code[h].ref # frame.ref
        BY <1>1, <2>1, <4>1 DEF RefInv, CodeRef
      <4> QED BY <1>4, <2>1, <3>1, <4>1, <4>2
    <3>2. CASE g # f
      <4>1. code'[g].ref = code[g].ref
        BY <3>2
      <4>2. CodeRef(g)
        BY DEF RefInv
      <4>3. \A i \in 1..Len(suspended) : i \in 0..Len(suspended)
        BY <1>1
      <4>4. code[g].ref # frame.ref
        BY <1>1, <2>1, <4>1, <4>2 DEF CodeRef
      <4>5. code'[f].ref \in {Nil, frame.ref}
        OBVIOUS
      <4> QED BY <2>1, <3>2, <4>1, <4>2, <4>3, <4>4, <4>5 DEF CodeRef
    <3> QED BY <3>1, <3>2
  <2>2. code'[g].ref # Nil <=> g \in Callbacks /\ code'[g].st # "none"
    <3>1. CASE g = f
      BY <1>1, <3>1 DEF FrameRef
    <3>2. CASE g # f
      BY <3>2 DEF RefInv, CodeRef
    <3> QED BY <3>1, <3>2
  <2>3. code'[g].ref # Nil => \A i \in 0..Len(suspended') : code'[g].ref # FrameAt(i)'.ref
    BY <1>2, <1>3, <2>1
  <2> QED BY <2>1, <2>2, <2>3 DEF CodeRef
<1> QED BY <1>5, <1>6, <1>7 DEF RefInv

\* compile hands the slot to the code; a function has none.
LEMMA RefEncode ==
  ASSUME TypeOK, RefInv, EncodeOk
  PROVE  RefInv'
<1>1. /\ Len(suspended) \in Nat /\ 0 \in 0..Len(suspended) /\ FrameAt(0) = frame
      /\ FrameRef(frame) /\ frame.pc = "encode" /\ frame.fn \in Fns
      /\ code[frame.fn].st = "none"
      /\ UNCHANGED registry
  BY FramesType, FrameFields DEF FrameAt, RefInv, FramesRef, FrameRef, EncodeOk
<1>2. /\ code' = [code EXCEPT ![frame.fn] = NewBlock]
      /\ NewBlock.st # "none" /\ NewBlock.ref = frame.ref
  BY DEF EncodeOk, NewBlock
<1>3. /\ code'[frame.fn].st # "none" /\ code'[frame.fn].ref = frame.ref
      /\ \A g \in Fns \ {frame.fn} : code'[g] = code[g]
  BY <1>1, <1>2 DEF TypeOK
<1>4. CASE PopFrame
  BY <1>1, <1>3, <1>4, RefPop
<1>5. CASE ~PopFrame
  <2>1. /\ frame.fn \notin Callbacks /\ UNCHANGED suspended
        /\ frame' = [frame EXCEPT !.pc = "publish"]
    BY <1>5 DEF EncodeOk
  <2>2. frame'.pc = "publish" /\ frame'.fn = frame.fn /\ frame'.ref = frame.ref
    BY <2>1, FrameFields
  <2>3. frame.ref = Nil
    BY <1>1, <2>1 DEF FrameRef
  <2>4. /\ FrameAt(0)' = frame'
        /\ \A i \in 0..Len(suspended) : i # 0 => FrameAt(i)' = FrameAt(i)
    BY <2>1 DEF FrameAt
  <2>5. FrameRef(frame)'
    BY <2>1, <2>2, <2>3 DEF FrameRef
  <2>6. ASSUME NEW i \in 0..Len(suspended), i # 0
        PROVE  FrameRef(FrameAt(i))'
    <3>1. FrameRef(FrameAt(i)) /\ FrameAt(i).fn # frame.fn
      BY <1>1, <2>6 DEF RefInv, FramesRef, FramesApart
    <3>2. FrameAt(i).pc # "idle" => FrameAt(i).fn \in Fns
      BY FramesType DEF Frame
    <3> QED BY <1>1, <1>3, <2>4, <2>6, <3>1, <3>2 DEF FrameRef
  <2>7. FramesRef'
    BY <2>1, <2>4, <2>5, <2>6 DEF FramesRef
  <2>0. /\ Len(suspended') = Len(suspended)
        /\ \A i \in 0..Len(suspended) :
             FrameAt(i)'.fn = FrameAt(i).fn /\ FrameAt(i)'.ref = FrameAt(i).ref
    BY <1>1, <2>1, <2>2, <2>4
  <2>8. FramesApart'
    BY <2>0 DEF RefInv, FramesApart
  <2>9. code[frame.fn].ref = Nil
    BY <1>1 DEF RefInv, CodeRef
  <2>10. \A g \in Fns : code'[g].ref = code[g].ref
    BY <1>3, <2>3, <2>9
  <2>11. \A g \in Fns : g # frame.fn => code'[g].st = code[g].st
    BY <1>3
  <2>12. \A g \in Fns : CodeRef(g)'
    BY <1>1, <1>3, <2>0, <2>1, <2>10, <2>11 DEF RefInv, CodeRef
  <2> QED BY <2>7, <2>8, <2>12 DEF RefInv
<1> QED BY <1>4, <1>5

\* free_code gives the slot back.
LEMMA RefFree ==
  ASSUME TypeOK, RefInv, NEW f \in Fns, FreeCode(f)
  PROVE  RefInv'
<1>1. UNCHANGED <<frame, suspended>> /\ \A i \in 0..Len(suspended) : FrameAt(i)' = FrameAt(i)
  BY DEF FreeCode, FrameAt
<1>2. CASE UNCHANGED <<code, registry>>
  <2>1. FramesRef' /\ FramesApart'
    BY <1>1, <1>2 DEF RefInv, FramesRef, FramesApart, FrameRef
  <2>2. \A g \in Fns : CodeRef(g)'
    BY <1>1, <1>2 DEF RefInv, CodeRef
  <2> QED BY <2>1, <2>2 DEF RefInv
<1>3. CASE ~UNCHANGED <<code, registry>>
  <2>1. registry' = registry \ {code[f].ref} /\ code' = [code EXCEPT ![f] = NoCode]
    BY <1>3 DEF FreeCode, RefsWithout
  <2>2. /\ code'[f].st = "none" /\ code'[f].ref = Nil
        /\ \A g \in Fns \ {f} : code'[g] = code[g]
    BY <2>1 DEF TypeOK, NoCode
  <2>3. ASSUME NEW i \in 0..Len(suspended)
        PROVE  FrameRef(FrameAt(i))'
    <3>1. FrameRef(FrameAt(i)) /\ (code[f].ref # Nil => code[f].ref # FrameAt(i).ref)
      BY DEF RefInv, FramesRef, CodeRef
    <3>2. FrameAt(i).pc # "idle" => FrameAt(i).fn \in Fns
      BY FramesType DEF Frame
    <3> QED BY <1>1, <2>1, <2>2, <3>1, <3>2 DEF FrameRef
  <2>4. FramesRef' /\ FramesApart'
    BY <1>1, <2>3 DEF RefInv, FramesRef, FramesApart
  <2>5. \A g \in Fns : CodeRef(g)'
    BY <1>1, <2>1, <2>2 DEF RefInv, CodeRef
  <2> QED BY <2>4, <2>5 DEF RefInv
<1> QED BY <1>2, <1>3

LEMMA RefStep == TypeOK /\ RefInv /\ [Next]_vars => RefInv'
<1> SUFFICES ASSUME TypeOK, RefInv, [Next]_vars PROVE RefInv'
  OBVIOUS
<1>0. /\ FrameRef(frame) /\ (frame.pc # "idle" => frame.fn \in Fns)
      /\ \A f \in Fns : CodeRef(f)
  <2>1. 0 \in 0..Len(suspended) /\ FrameAt(0) = frame
    BY FramesType DEF FrameAt
  <2> QED BY <2>1, FrameFields DEF RefInv, FramesRef
<1>1. CASE \E f \in Fns : BeginCompile(f)
  BY <1>1, RefBegin
<1>2. CASE Emit
  BY <1>2, RefEmit
<1>3. CASE CompileError \/ LinkError \/ EncodeError \/ PublishError
  BY <1>0, <1>3, RefPop DEF CompileError, LinkError, EncodeError, PublishError, FrameRef, CodeRef
<1>4. CASE ReserveOnLastPage \/ (\E p \in PageIds : ReserveNewPage(p)) \/ LinkSlot \/ LinkDone
  <2>1. /\ frame.pc \in {"emitted", "link"} /\ UNCHANGED <<code, registry, suspended>>
        /\ frame'.fn = frame.fn /\ frame'.ref = frame.ref
        /\ frame'.pc \in {"emitted", "link", "encode"}
    BY <1>4, FrameFields DEF ReserveOnLastPage, ReserveNewPage, LinkSlot, LinkDone
  <2> QED BY <2>1, RefFrame
<1>5. CASE EncodeOk
  BY <1>5, RefEncode
<1>6. CASE Publish
  <2>1. \A g \in Fns : code'[g].ref = code[g].ref /\ (g # frame.fn => code'[g] = code[g])
    BY <1>0, <1>6 DEF Publish, TypeOK, Block
  <2>2. frame.fn \in Fns /\ frame.ref = Nil /\ code[frame.fn].ref = Nil
    BY <1>0, <1>6 DEF Publish, FrameRef, CodeRef
  <2> QED BY <1>6, <2>1, <2>2, RefPop DEF Publish
<1>7. CASE \E f \in Fns : FreeCode(f)
  BY <1>7, RefFree
<1>8. CASE JitGc
  <2>1. /\ UNCHANGED <<registry, frame, suspended>> /\ frame.pc = "idle"
        /\ \A f \in Fns : code'[f].st = "none" /\ code'[f].ref = Nil
        /\ \A i \in 0..Len(suspended) : FrameAt(i)' = FrameAt(i)
    BY <1>8 DEF JitGc, NoCode, FrameAt
  <2>2. ASSUME NEW i \in 0..Len(suspended)
        PROVE  FrameRef(FrameAt(i))'
    <3>1. FrameRef(FrameAt(i))
      BY DEF RefInv, FramesRef
    <3>2. FrameAt(i).pc # "idle" => FrameAt(i).fn \in Fns
      BY FramesType DEF Frame
    <3> QED BY <2>1, <3>1, <3>2 DEF FrameRef
  <2>3. FramesRef' /\ FramesApart' /\ \A f \in Fns : CodeRef(f)'
    BY <2>1, <2>2 DEF RefInv, FramesRef, FramesApart, CodeRef
  <2> QED BY <2>3 DEF RefInv
<1>9. CASE UNCHANGED vars
  <2>1. /\ UNCHANGED <<code, registry, frame, suspended>>
        /\ \A i \in 0..Len(suspended) : FrameAt(i)' = FrameAt(i)
    BY <1>9 DEF vars, FrameAt
  <2>2. FramesRef' /\ FramesApart' /\ \A f \in Fns : CodeRef(f)'
    BY <2>1 DEF RefInv, FramesRef, FramesApart, FrameRef, CodeRef
  <2> QED BY <2>2 DEF RefInv
<1> QED BY <1>1, <1>2, <1>3, <1>4, <1>5, <1>6, <1>7, <1>8, <1>9 DEF Next

LEMMA RefAlways == Spec => [](TypeOK /\ RefInv)
BY TypeInit, TypeStep, RefInit, RefStep, PTL DEF Spec

\* The upval table of a callback stays in the registry as long as its code, in
\* a slot of its own: whatever fails, and however deep compilations nest.
THEOREM ReferencesKept == Spec => []RefsKept
<1>1. RefInv => RefsKept
  BY DEF RefInv, CodeRef, RefsKept, Live
<1> QED BY <1>1, RefAlways, PTL

-----------------------------------------------------------------------------
(* No slot is lost, when no compilation fails between the reference and the *)
(* code that takes it.                                                      *)

HeldRef(r) ==
  \/ \E f \in Fns : code[f].ref = r
  \/ \E i \in 0..Len(suspended) : FrameAt(i).ref = r

NoneLost == ~closed => \A r \in registry : HeldRef(r)

\* What the frame that goes has is nothing, or its code has it.
LEMMA LostPop ==
  ASSUME TypeOK, RefInv, NoneLost, PopFrame, UNCHANGED <<registry, closed>>,
         \A g \in Fns : code[g].ref # Nil => code'[g].ref = code[g].ref,
         frame.ref # Nil => \E g \in Fns : code'[g].ref = frame.ref
  PROVE  NoneLost'
<1> SUFFICES ASSUME ~closed, NEW r \in registry PROVE HeldRef(r)'
  BY DEF NoneLost
<1>1. r # Nil /\ HeldRef(r)
  BY CodePagesAssumption DEF NoneLost, TypeOK
<1>2. CASE \E f \in Fns : code[f].ref = r
  BY <1>1, <1>2 DEF HeldRef
<1>3. CASE frame.ref = r
  BY <1>1, <1>3 DEF HeldRef
<1>4. ASSUME NEW i \in 0..Len(suspended), i # 0, FrameAt(i).ref = r
      PROVE  \E j \in 0..Len(suspended') : FrameAt(j)'.ref = r
  <2>1. CASE suspended = <<>>
    BY <1>4, <2>1, EmptySeq
  <2>2. CASE suspended # <<>>
    <3>1. /\ Len(suspended') = Len(suspended) - 1 /\ Len(suspended) \in Nat
          /\ \A j \in 0..Len(suspended') : FrameAt(j)' = FrameAt(j + 1)
      BY <2>2, PopShift
    <3>2. i - 1 \in 0..Len(suspended') /\ (i - 1) + 1 = i
      BY <1>4, <3>1
    <3>3. FrameAt(i - 1)' = FrameAt(i)
      BY <3>1, <3>2
    <3> QED BY <1>4, <3>2, <3>3
  <2> QED BY <2>1, <2>2
<1>5. \A i \in 0..Len(suspended) : i = 0 => FrameAt(i).ref = frame.ref
  BY DEF FrameAt
<1> QED BY <1>1, <1>2, <1>3, <1>4, <1>5 DEF HeldRef

LEMMA LostStep ==
  ASSUME Faults \subseteq {"setup", "publish"}, TypeOK, RefInv, NoneLost, [Next]_vars
  PROVE  NoneLost'
<1>0. /\ FrameRef(frame) /\ (frame.pc # "idle" => frame.fn \in Fns)
      /\ Len(suspended) \in Nat /\ 0 \in 0..Len(suspended)
      /\ FrameAt(0) = frame /\ FrameAt(0)' = frame' /\ Nil \notin registry
      /\ \A f \in Fns : CodeRef(f)
  <2>1. /\ 0 \in 0..Len(suspended) /\ Len(suspended) \in Nat
        /\ FrameAt(0) = frame /\ FrameAt(0)' = frame'
    BY FramesType DEF FrameAt
  <2> QED BY <2>1, FrameFields, CodePagesAssumption DEF RefInv, FramesRef, TypeOK
<1>1. ASSUME NEW f \in Fns, BeginCompile(f)
      PROVE  NoneLost'
  <2> SUFFICES ASSUME ~closed, NEW r \in registry PROVE HeldRef(r)'
    BY <1>1 DEF NoneLost, BeginCompile
  <2>1. HeldRef(r) /\ r # Nil /\ UNCHANGED code
    BY <1>0, <1>1 DEF NoneLost, BeginCompile
  <2>2. ASSUME NEW i \in 0..Len(suspended), FrameAt(i).ref = r
        PROVE  \E j \in 0..Len(suspended') : FrameAt(j)'.ref = r
    <3>1. CASE UNCHANGED suspended
      <4>1. i # 0
        BY <1>0, <1>1, <2>1, <2>2, <3>1 DEF BeginCompile, FrameRef
      <4> QED BY <2>2, <3>1, <4>1 DEF FrameAt
    <3>2. CASE suspended' = <<frame>> \o suspended
      <4>1. /\ Len(suspended') = Len(suspended) + 1
            /\ \A j \in 1..Len(suspended') : FrameAt(j)' = FrameAt(j - 1)
        BY <3>2, PushShift
      <4>2. i + 1 \in 1..Len(suspended') /\ i + 1 \in 0..Len(suspended') /\ (i + 1) - 1 = i
        BY <1>0, <4>1
      <4>3. FrameAt(i + 1)' = FrameAt(i)
        BY <4>1, <4>2
      <4> QED BY <2>2, <4>2, <4>3
    <3> QED BY <1>1, <3>1, <3>2 DEF BeginCompile
  <2> QED BY <2>1, <2>2 DEF HeldRef
<1>2. CASE Emit
  <2> SUFFICES ASSUME ~closed, NEW r \in registry' PROVE HeldRef(r)'
    BY <1>2 DEF NoneLost, Emit
  <2>1. CASE r \in registry
    <3>1. HeldRef(r) /\ r # Nil /\ UNCHANGED <<code, suspended>> /\ frame.ref = Nil
      BY <1>0, <1>2, <2>1 DEF NoneLost, Emit, FrameRef
    <3>2. \A i \in 0..Len(suspended) : FrameAt(i).ref = r => FrameAt(i)' = FrameAt(i)
      BY <1>0, <3>1 DEF FrameAt
    <3> QED BY <3>1, <3>2 DEF HeldRef
  <2>2. CASE r \notin registry
    <3>1. PICK q \in FreeRefs :
            registry' = registry \cup {q} /\ frame' = [frame EXCEPT !.pc = "emitted", !.ref = q]
      BY <1>2, <2>2 DEF Emit
    <3>2. frame'.ref = r /\ UNCHANGED suspended
      BY <1>2, <2>2, <3>1, FrameFields DEF Emit
    <3> QED BY <1>0, <3>2 DEF HeldRef
  <2> QED BY <2>1, <2>2
<1>3. CASE CompileError \/ LinkError \/ EncodeError \/ PublishError
  <2>1. frame.ref = Nil
    BY <1>0, <1>3 DEF CompileError, LinkError, EncodeError, PublishError, FrameRef
  <2> QED BY <1>3, <2>1, LostPop DEF CompileError, LinkError, EncodeError, PublishError
<1>4. CASE ReserveOnLastPage \/ (\E p \in PageIds : ReserveNewPage(p)) \/ LinkSlot \/ LinkDone
  <2>1. UNCHANGED <<code, registry, suspended, closed>> /\ frame'.ref = frame.ref
    BY <1>4, FrameFields DEF ReserveOnLastPage, ReserveNewPage, LinkSlot, LinkDone
  <2>2. \A i \in 0..Len(suspended) : FrameAt(i)'.ref = FrameAt(i).ref
    BY <2>1 DEF FrameAt
  <2> QED BY <2>1, <2>2 DEF NoneLost, HeldRef
<1>5. CASE EncodeOk
  <2>1. /\ code' = [code EXCEPT ![frame.fn] = NewBlock]
        /\ NewBlock.ref = frame.ref /\ frame.fn \in Fns /\ code[frame.fn].ref = Nil
        /\ UNCHANGED <<registry, closed>>
    BY <1>0, <1>5 DEF EncodeOk, NewBlock, FrameRef, CodeRef
  <2>2. /\ code'[frame.fn].ref = frame.ref
        /\ \A g \in Fns : code[g].ref # Nil => code'[g].ref = code[g].ref
    BY <2>1 DEF TypeOK
  <2>3. CASE PopFrame
    BY <2>1, <2>2, <2>3, LostPop
  <2>4. CASE ~PopFrame
    <3>1. UNCHANGED suspended /\ frame'.ref = frame.ref
      BY <1>5, <2>4, FrameFields DEF EncodeOk
    <3>2. \A i \in 0..Len(suspended) : FrameAt(i)'.ref = FrameAt(i).ref
      BY <3>1 DEF FrameAt
    <3>3. ASSUME ~closed, NEW r \in registry PROVE HeldRef(r)'
      BY <1>0, <2>2, <3>1, <3>2, <3>3 DEF NoneLost, HeldRef
    <3> QED BY <2>1, <3>3 DEF NoneLost
  <2> QED BY <2>3, <2>4
<1>6. CASE Publish
  <2>1. frame.ref = Nil
    BY <1>0, <1>6 DEF Publish, FrameRef
  <2>2. \A g \in Fns : code'[g].ref = code[g].ref
    BY <1>6 DEF Publish, TypeOK, Block
  <2> QED BY <1>6, <2>1, <2>2, LostPop DEF Publish
<1>7. ASSUME NEW f \in Fns, FreeCode(f)
      PROVE  NoneLost'
  <2>1. /\ UNCHANGED <<frame, suspended, closed>>
        /\ \A i \in 0..Len(suspended) : FrameAt(i)' = FrameAt(i)
    BY <1>7 DEF FreeCode, FrameAt
  <2>2. CASE UNCHANGED <<code, registry>>
    BY <2>1, <2>2 DEF NoneLost, HeldRef
  <2>3. CASE registry' = registry \ {code[f].ref} /\ code' = [code EXCEPT ![f] = NoCode]
    <3>1. \A g \in Fns \ {f} : code'[g] = code[g]
      BY <2>3 DEF TypeOK
    <3> QED BY <2>1, <2>3, <3>1 DEF NoneLost, HeldRef
  <2> QED BY <1>7, <2>2, <2>3 DEF FreeCode, RefsWithout
<1>8. CASE JitGc
  BY <1>8 DEF JitGc, NoneLost
<1>9. CASE UNCHANGED vars
  BY <1>9 DEF vars, NoneLost, HeldRef, FrameAt
<1> QED BY <1>1, <1>2, <1>3, <1>4, <1>5, <1>6, <1>7, <1>8, <1>9 DEF Next

\* Every slot belongs to a callback that lives or is being compiled, as long as
\* no compilation fails after it took one.
THEOREM NoReferenceLost ==
  ASSUME Faults \subseteq {"setup", "publish"}
  PROVE  Spec => []NoRefLeak
<1>1. Init => NoneLost
  BY DEF Init, NoneLost
<1>2. TypeOK /\ RefInv /\ NoneLost /\ [Next]_vars => NoneLost'
  BY LostStep
<1>3. ASSUME TypeOK, RefInv, NoneLost
      PROVE  NoRefLeak
  <2> SUFFICES ASSUME ~closed, NEW r \in registry
               PROVE  r \in {code[f].ref : f \in Live} \cup {frame.ref}
                        \cup {suspended[i].ref : i \in 1..Len(suspended)}
    BY DEF NoRefLeak
  <2>1. r # Nil /\ HeldRef(r) /\ Len(suspended) \in Nat
    BY <1>3, FramesType, CodePagesAssumption DEF NoneLost, TypeOK
  <2>2. ASSUME NEW f \in Fns, code[f].ref = r
        PROVE  f \in Live
    BY <1>3, <2>1, <2>2 DEF RefInv, CodeRef, Live
  <2>3. ASSUME NEW i \in 0..Len(suspended), FrameAt(i).ref = r
        PROVE  r \in {frame.ref} \cup {suspended[j].ref : j \in 1..Len(suspended)}
    <3>1. i = 0 \/ i \in 1..Len(suspended)
      BY <2>1
    <3> QED BY <2>1, <2>3, <3>1 DEF FrameAt
  <2> QED BY <2>1, <2>2, <2>3 DEF HeldRef
<1> QED BY <1>1, <1>2, <1>3, RefAlways, PTL DEF Spec

-----------------------------------------------------------------------------
(* The bytes in use, when no finalizer starts a compilation. *)

\* A step that keeps the code, and completes no link table.
LEMMA UseSame ==
  ASSUME UseExact, UNCHANGED code,
         \A p \in PageIds : mem'[p].prot # "none" /\ Complete(p)' =>
           /\ mem[p].prot # "none" /\ Complete(p)
           /\ mem'[p].freed = mem[p].freed /\ mem'[p].off = mem[p].off
  PROVE  UseExact'
<1>1. \A p \in PageIds : UsedBytes(p)' = UsedBytes(p)
  BY DEF UsedBytes, Bytes, LiveOn, Live
<1> QED BY <1>1 DEF UseExact

\* The freed code of a page is taken from what is in use.
LEMMA UseFree ==
  ASSUME IInv, UseExact, NEW f \in Fns, FreeCode(f), NEW p, p = code[f].page
  PROVE  /\ UNCHANGED <<frame, closed>> /\ p \in PageIds /\ mem[p].prot = "rx"
         /\ \A q \in PageIds \ {p} : mem'[q] = mem[q] /\ LiveOn(q)' = LiveOn(q)
         /\ LiveOn(p)' = LiveOn(p) \ {f} /\ f \in LiveOn(p)
         /\ \A q \in PageIds \ {p} : UsedBytes(q)' = UsedBytes(q)
         /\ \/ /\ mem'[p].prot = "none"
               /\ LiveOn(p)' = {}
            \/ /\ mem'[p].prot = "rx" /\ mem'[p].links = mem[p].links
               /\ mem'[p].off = mem[p].off
               /\ Complete(p) => LiveOn(p)' # {}
               /\ Complete(p) =>
                    mem'[p].freed + Cardinality(UsedBytes(p)') = mem'[p].off
<1>1. /\ code[f].st = "published" /\ CanRunLua /\ ~closed
      /\ UNCHANGED <<ctx, frame, suspended, closed>> /\ fault = "none"
  BY DEF FreeCode, Running
<1>2. /\ p \in PageIds /\ mem[p].prot = "rx"
      /\ code[f].start \in Nat /\ code[f].size \in Nat /\ code[f].size > 0
      /\ code[f].start + code[f].size <= mem[p].off
      /\ mem[p].off <= mem[p].size
      /\ mem[p].off \in Nat /\ mem[p].size \in Nat /\ mem[p].freed \in Nat
  <2>1. p \in PageIds /\ mem[p].prot = "rx" /\ code[f].size > 0
        /\ code[f].start + code[f].size <= mem[p].off
    BY <1>1 DEF IInv, BlockInv, ExecInv, CanRunLua
  <2> QED BY <2>1, BlockFields, PageFields DEF IInv, PageInv
<1>3. fault' = "none"
  BY InvFree DEF IInv
<1>4. PICK i \in Holders(f) : ReleaseFrom(i, f)
  BY <1>3 DEF FreeCode
<1>5. pages[i] = p /\ code' = [code EXCEPT ![f] = NoCode]
  BY <1>3, <1>4 DEF FreeCode, Holders
<1>6. /\ Cardinality(UsedBytes(p)') = Cardinality(UsedBytes(p)) - code[f].size
      /\ \A g \in LiveOn(p) : g # f => Cardinality(UsedBytes(p)) > code[f].size
      /\ \A q \in PageIds : q # p => UsedBytes(q)' = UsedBytes(q)
  BY <1>1, <1>2, <1>5, UsedSub DEF IInv
<1>7. /\ code'[f].st = "none"
      /\ \A g \in Fns \ {f} : code'[g] = code[g]
  BY <1>5 DEF IInv, TypeOK, NoCode
<1>8. /\ \A q \in PageIds \ {p} : LiveOn(q)' = LiveOn(q)
      /\ LiveOn(p)' = LiveOn(p) \ {f} /\ f \in LiveOn(p)
  BY <1>1, <1>7 DEF LiveOn, Live
<1>9. /\ Cardinality(UsedBytes(p)) \in Nat
      /\ mem[p].freed + Cardinality(UsedBytes(p)) <= mem[p].off
      /\ Complete(p) => mem[p].freed + Cardinality(UsedBytes(p)) = mem[p].off
  BY <1>2, UsedFinite DEF IInv, FreedInv, UseExact
<1>10. CASE mem[p].freed + code[f].size < mem[p].off
  <2>1. mem' = [mem EXCEPT ![p].freed = mem[p].freed + code[f].size, ![p].prot = "rx"]
    BY <1>4, <1>5, <1>10 DEF ReleaseFrom, FreedWith
  <2>2. /\ mem'[p].freed = mem[p].freed + code[f].size /\ mem'[p].prot = "rx"
        /\ mem'[p].off = mem[p].off /\ mem'[p].links = mem[p].links
        /\ \A q \in PageIds \ {p} : mem'[q] = mem[q]
    BY <1>2, <2>1 DEF IInv, TypeOK, Page
  <2>3. Complete(p) => mem'[p].freed + Cardinality(UsedBytes(p)') = mem'[p].off
    BY <1>2, <1>6, <1>9, <2>2
  <2>4. ASSUME Complete(p), LiveOn(p) \ {f} = {} PROVE FALSE
    <3>1. UsedBytes(p) = Bytes(f)
      <4>1. LiveOn(p) = {f}
        BY <1>8, <2>4
      <4> QED BY <4>1 DEF UsedBytes
    <3>2. Cardinality(UsedBytes(p)) = code[f].size
      <4>1. Cardinality(Bytes(f)) = code[f].size
        BY <1>2, IntervalSize DEF Bytes
      <4> QED BY <3>1, <4>1
    <3> QED BY <1>2, <1>9, <1>10, <2>4, <3>2
  <2> QED BY <1>1, <1>2, <1>6, <1>8, <2>2, <2>3, <2>4
<1>11. CASE ~(mem[p].freed + code[f].size < mem[p].off)
  <2>1. mem' = [mem EXCEPT ![p] = Unmapped]
    BY <1>4, <1>5, <1>11 DEF ReleaseFrom, FreedWith
  <2>2. /\ mem'[p].prot = "none"
        /\ \A q \in PageIds \ {p} : mem'[q] = mem[q]
    BY <1>2, <2>1 DEF IInv, TypeOK, Unmapped
  <2>3. \A g \in LiveOn(p) : g = f
    BY <1>2, <1>6, <1>9, <1>11
  <2> QED BY <1>1, <1>2, <1>6, <1>8, <2>2, <2>3
<1> QED BY <1>10, <1>11

\* compile adds its block to the page that it filled.
LEMMA UseEncode ==
  ASSUME IInv, EncodeOk, NEW f, f = frame.fn, NEW p, p = frame.page
  PROVE  /\ p \in PageIds /\ f \in Fns /\ code[f].st = "none"
         /\ mem[p].prot # "none" /\ mem'[p].prot = "rx"
         /\ mem'[p].off = mem[p].off + frame.size /\ mem'[p].links = mem[p].links
         /\ mem'[p].freed = mem[p].freed
         /\ \A q \in PageIds \ {p} : mem'[q] = mem[q]
         /\ code'[f].st # "none" /\ code'[f].page = p /\ code'[f].start = mem[p].off
         /\ \A g \in Fns \ {f} : code'[g] = code[g]
         /\ mem[p].off \in Nat /\ mem[p].freed \in Nat /\ frame.size \in Nat
         /\ Cardinality(UsedBytes(p)') = Cardinality(UsedBytes(p)) + frame.size
         /\ \A q \in PageIds \ {p} : UsedBytes(q)' = UsedBytes(q)
<1>1. frame.pc = "encode" /\ code' = [code EXCEPT ![f] = NewBlock] /\ Commit(frame.size)
  BY DEF EncodeOk
<1>2. /\ p \in PageIds /\ p = LastPage
      /\ mem[p].prot = "rw"
      /\ mem[p].off \in Nat /\ mem[p].size \in Nat /\ mem[p].freed \in Nat
      /\ f \in Fns /\ code[f].st = "none"
      /\ frame.size \in Nat /\ frame.size > 0
      /\ frame.start = mem[p].off
  BY <1>1, EncodeFacts
<1>3. /\ NewBlock \in Block /\ NewBlock.st # "none" /\ NewBlock.page = p
      /\ NewBlock.start = mem[p].off /\ NewBlock.size = frame.size
  <2>1. frame.ref \in Refs \cup {Nil} /\ ctx.owners \in Seq(Fns)
    BY FrameFields DEF IInv, TypeOK
  <2> QED BY <1>2, <2>1 DEF Block, NewBlock
<1>4. /\ mem'[p].off = mem[p].off + frame.size /\ mem'[p].freed = mem[p].freed
      /\ mem'[p].prot = "rx"
      /\ \A r \in PageIds \ {p} : mem'[r] = mem[r]
  BY <1>1, <1>2, CommitFacts DEF IInv
<1>5. mem'[p].links = mem[p].links
  BY <1>1, <1>2 DEF Commit, IInv, TypeOK, Page
<1>6. code'[f] = NewBlock /\ \A g \in Fns \ {f} : code'[g] = code[g]
  BY <1>1, <1>2 DEF IInv, TypeOK
<1>7. /\ Cardinality(UsedBytes(p)') = Cardinality(UsedBytes(p)) + frame.size
      /\ \A q \in PageIds : q # p => UsedBytes(q)' = UsedBytes(q)
  <2> SUFFICES ASSUME NEW b, b = NewBlock
               PROVE  /\ Cardinality(UsedBytes(p)') = Cardinality(UsedBytes(p)) + frame.size
                      /\ \A q \in PageIds : q # p => UsedBytes(q)' = UsedBytes(q)
    OBVIOUS
  <2>1. /\ b \in Block /\ b.st # "none" /\ b.page = p /\ b.start >= mem[b.page].off
        /\ b.size = frame.size /\ code' = [code EXCEPT ![f] = b]
    BY <1>1, <1>2, <1>3
  <2>2. /\ Cardinality(UsedBytes(b.page)') = Cardinality(UsedBytes(b.page)) + b.size
        /\ \A q \in PageIds : q # b.page => UsedBytes(q)' = UsedBytes(q)
    BY <1>2, <2>1, UsedAdd DEF IInv
  <2> QED BY <2>1, <2>2
<1> QED BY <1>2, <1>3, <1>4, <1>5, <1>6, <1>7

LEMMA UseStep ==
  ASSUME MaxNest = 0, IInv, IInv', UseExact, [Next]_vars
  PROVE  UseExact'
<1>1. CASE UNCHANGED <<mem, code>> /\ frame'.pc # "link" /\ (frame.pc = "link" => LinkError)
  <2> SUFFICES ASSUME NEW p \in PageIds, Complete(p)' PROVE Complete(p)
    BY <1>1, UseSame
  <2>1. mem[p].links = NLinks
    BY <1>1 DEF Complete
  <2>2. frame.pc = "link" => mem[frame.page].links # NLinks
    BY <1>1, FrameFields, PageFields, CodePagesAssumption DEF LinkError, IInv
  <2> QED BY <2>1, <2>2 DEF Complete
<1>2. CASE ReserveOnLastPage
  <2>1. frame.pc = "emitted" /\ frame'.pc = "encode" /\ UNCHANGED code
    BY <1>2, FrameFields DEF ReserveOnLastPage, IInv
  <2>2. /\ LastPage \in PageIds
        /\ mem' = [mem EXCEPT ![LastPage].prot = "rw"] /\ mem[LastPage].prot # "none"
    BY <1>2, LastPageMapped DEF ReserveOnLastPage, Running, Fits, IInv
  <2>3. \A p \in PageIds :
          /\ mem'[p].off = mem[p].off /\ mem'[p].freed = mem[p].freed
          /\ mem'[p].links = mem[p].links
          /\ mem'[p].prot # "none" <=> mem[p].prot # "none"
    BY <2>2 DEF IInv, TypeOK, Page
  <2> QED BY <2>1, <2>3, UseSame DEF Complete
<1>3. ASSUME NEW p \in PageIds, ReserveNewPage(p)
      PROVE  UseExact'
  <2>1. frame.pc = "emitted" /\ frame'.pc = "link" /\ frame'.page = p /\ UNCHANGED code
    BY <1>3, FrameFields DEF ReserveNewPage, IInv
  <2>2. \A q \in PageIds : q # p => mem'[q] = mem[q]
    BY <1>3 DEF ReserveNewPage, IInv, TypeOK
  <2> QED BY <2>1, <2>2, UseSame DEF Complete
<1>4. CASE LinkSlot
  <2>1. frame.pc = "link" /\ UNCHANGED <<code, frame>> /\ frame.page \in PageIds
    BY <1>4, FrameFields DEF LinkSlot, IInv
  <2>2. \A q \in PageIds : q # frame.page => mem'[q] = mem[q]
    BY <1>4 DEF LinkSlot, IInv, TypeOK
  <2> QED BY <2>1, <2>2, UseSame DEF Complete
<1>5. CASE LinkDone
  <2> DEFINE p == frame.page
  <2>1. /\ frame.pc = "link" /\ UNCHANGED code /\ p \in PageIds
        /\ mem[p].prot = "rw" /\ \A f \in Fns : code[f].st # "none" => code[f].page # p
    BY <1>5, FrameFields DEF LinkDone, IInv, FrameInv
  <2>2. mem' = [mem EXCEPT ![p].freed = mem[p].off] /\ frame'.pc = "encode"
    BY <1>5, <2>1, FrameFields DEF LinkDone, Writable, TableFreed, IInv
  <2>3. /\ \A q \in PageIds : q # p => mem'[q] = mem[q]
        /\ mem'[p].freed = mem[p].off /\ mem'[p].off = mem[p].off /\ mem[p].off \in Nat
    BY <2>1, <2>2 DEF IInv, TypeOK, Page
  <2>4. \A q \in PageIds : UsedBytes(q)' = UsedBytes(q)
    BY <2>1 DEF UsedBytes, Bytes, LiveOn, Live
  <2>5. Cardinality(UsedBytes(p)) = 0
    <3>1. LiveOn(p) = {}
      BY <2>1 DEF LiveOn, Live
    <3>2. UsedBytes(p) = {}
      BY <3>1 DEF UsedBytes
    <3> QED BY <3>2, FS_EmptySet
  <2> HIDE DEF p
  <2>6. ASSUME NEW q \in PageIds, q # p, mem'[q].prot # "none", Complete(q)'
        PROVE  mem'[q].freed + Cardinality(UsedBytes(q)') = mem'[q].off
    <3>1. Complete(q) /\ mem'[q] = mem[q]
      BY <2>3, <2>6 DEF Complete, p
    <3> QED BY <2>4, <2>6, <3>1 DEF UseExact
  <2> QED BY <2>3, <2>4, <2>5, <2>6 DEF UseExact
<1>6. CASE EncodeOk
  <2> SUFFICES ASSUME NEW p, p = frame.page PROVE UseExact'
    OBVIOUS
  <2>1. /\ p \in PageIds /\ mem[p].prot # "none"
        /\ mem'[p].off = mem[p].off + frame.size /\ mem'[p].links = mem[p].links
        /\ mem'[p].freed = mem[p].freed
        /\ \A q \in PageIds \ {p} : mem'[q] = mem[q]
        /\ mem[p].off \in Nat /\ mem[p].freed \in Nat /\ frame.size \in Nat
        /\ Cardinality(UsedBytes(p)') = Cardinality(UsedBytes(p)) + frame.size
        /\ \A q \in PageIds \ {p} : UsedBytes(q)' = UsedBytes(q)
        /\ Cardinality(UsedBytes(p)) \in Nat
    BY <1>6, UseEncode, UsedFinite DEF IInv
  <2>2. \A q \in PageIds : Complete(q)' => Complete(q)
    BY <1>6, <2>1 DEF EncodeOk, Complete
  <2> QED BY <2>1, <2>2 DEF UseExact
<1>7. CASE EncodeError
  <2> DEFINE p == frame.page
  <2>1. frame.pc = "encode" /\ Commit(0) /\ UNCHANGED code
    BY <1>7 DEF EncodeError
  <2>2. p \in PageIds /\ p = LastPage /\ mem[p].off \in Nat /\ mem[p].prot # "none"
    BY <2>1, EncodeFacts
  <2>3. /\ mem'[p].off = mem[p].off + 0 /\ mem'[p].freed = mem[p].freed
        /\ mem'[p].links = mem[p].links
        /\ \A r \in PageIds \ {p} : mem'[r] = mem[r]
    BY <2>1, <2>2, CommitFacts DEF IInv, Commit, TypeOK, Page
  <2> HIDE DEF p
  <2>4. \A q \in PageIds : Complete(q)' => Complete(q)
    BY <2>1, <2>3 DEF Complete
  <2> QED BY <2>1, <2>2, <2>3, <2>4, UseSame
<1>8. CASE Publish
  <2>1. frame.pc = "publish" /\ code' = [code EXCEPT ![frame.fn].st = "published"]
        /\ UNCHANGED mem /\ frame.fn \in Fns /\ code[frame.fn].st = "committed"
    BY <1>8, FrameFields DEF Publish, IInv, FrameInv
  <2>2. \A g \in Fns :
          /\ code'[g].page = code[g].page /\ code'[g].start = code[g].start
          /\ code'[g].size = code[g].size
          /\ code'[g].st # "none" <=> code[g].st # "none"
    BY <2>1 DEF IInv, TypeOK, Block
  <2>3. ASSUME NEW p \in PageIds PROVE UsedBytes(p)' = UsedBytes(p)
    <3>1. LiveOn(p)' = LiveOn(p)
      BY <2>2 DEF LiveOn, Live
    <3>2. \A g \in LiveOn(p) : Bytes(g)' = Bytes(g)
      BY <2>2 DEF Bytes, LiveOn, Live
    <3> QED BY <3>1, <3>2 DEF UsedBytes
  <2>4. \A q \in PageIds : Complete(q)' => Complete(q)
    BY <2>1 DEF Complete
  <2> QED BY <2>1, <2>3, <2>4 DEF UseExact
<1>9. ASSUME NEW f \in Fns, FreeCode(f)
      PROVE  UseExact'
  <2> SUFFICES ASSUME NEW p, p = code[f].page PROVE UseExact'
    OBVIOUS
  <2>1. /\ UNCHANGED frame /\ p \in PageIds /\ mem[p].prot = "rx"
        /\ \A q \in PageIds \ {p} : mem'[q] = mem[q] /\ UsedBytes(q)' = UsedBytes(q)
        /\ \/ mem'[p].prot = "none"
           \/ /\ mem'[p].links = mem[p].links
              /\ Complete(p) =>
                   mem'[p].freed + Cardinality(UsedBytes(p)') = mem'[p].off
    BY <1>9, UseFree
  <2> QED BY <2>1 DEF UseExact, Complete
<1>10. CASE JitGc
  <2>1. \A p \in PageIds : mem'[p].prot = "none"
    BY <1>10 DEF IInv, ListInv, JitGc
  <2> QED BY <2>1 DEF UseExact
<1>11. CASE UNCHANGED vars
  BY <1>11, UseSame DEF vars, Complete
<1>12. ASSUME (\E f \in Fns : BeginCompile(f)) \/ Emit \/ CompileError \/ LinkError \/ PublishError
       PROVE  UNCHANGED <<mem, code>> /\ frame'.pc # "link" /\ (frame.pc = "link" => LinkError)
  <2>1. NoFrame.pc # "link" /\ frame \in Frame /\ suspended = <<>> /\ ~(Len(suspended) < MaxNest)
    BY EmptySeq DEF NoFrame, IInv, TypeOK
  <2>2. CASE \E f \in Fns : BeginCompile(f)
    BY <2>1, <2>2 DEF BeginCompile, NoFrame
  <2>3. CASE Emit
    BY <2>1, <2>3, FrameFields DEF Emit, IInv
  <2>4. CASE CompileError \/ LinkError \/ PublishError
    BY <2>1, <2>4 DEF CompileError, LinkError, PublishError, PopFrame
  <2> QED BY <1>12, <2>2, <2>3, <2>4
<1> QED BY <1>1, <1>2, <1>3, <1>4, <1>5, <1>6, <1>7, <1>8, <1>9, <1>10, <1>11, <1>12 DEF Next

LEMMA SlotArith ==
  ASSUME NEW l \in Nat
  PROVE  /\ l * JumpSize \in Nat
         /\ (l + 1) * JumpSize = l * JumpSize + JumpSize
<1>1. JumpSize \in Nat
  BY CodePagesAssumption
<1> QED BY <1>1

\* The protection, the bytes freed, and code that goes, do not matter.
LEMMA TableSame ==
  ASSUME IInv, TableInv,
         \A p \in PageIds : mem'[p].prot # "none" =>
           /\ mem[p].prot # "none"
           /\ mem'[p].off = mem[p].off /\ mem'[p].links = mem[p].links,
         \A f \in Fns : code'[f].st # "none" =>
           /\ code[f].st # "none" /\ mem'[code[f].page].prot # "none"
           /\ code'[f].page = code[f].page /\ code'[f].start = code[f].start
  PROVE  TableInv'
BY DEF TableInv, IInv, BlockInv

LEMMA TableStep ==
  ASSUME IInv, IInv', TableInv, [Next]_vars
  PROVE  TableInv'
<1>1. CASE UNCHANGED <<mem, code>>
  BY <1>1 DEF TableInv
<1>2. CASE ReserveOnLastPage
  <2>1. /\ LastPage \in PageIds /\ UNCHANGED code
        /\ mem' = [mem EXCEPT ![LastPage].prot = "rw"] /\ mem[LastPage].prot # "none"
    BY <1>2, LastPageMapped DEF ReserveOnLastPage, Running, Fits, IInv
  <2>2. \A p \in PageIds :
          /\ mem'[p].off = mem[p].off /\ mem'[p].links = mem[p].links
          /\ mem'[p].prot # "none" <=> mem[p].prot # "none"
    BY <2>1 DEF IInv, TypeOK, Page
  <2> QED BY <2>1, <2>2, TableSame DEF IInv, BlockInv
<1>3. ASSUME NEW p \in PageIds, ReserveNewPage(p)
      PROVE  TableInv'
  <2>1. mem[p].prot = "none" /\ UNCHANGED code /\ \A q \in PageIds : q # p => mem'[q] = mem[q]
    BY <1>3 DEF ReserveNewPage, Mapped, IInv, TypeOK
  <2>2. mem'[p].off = PageHdr /\ mem'[p].links = 0
    BY <1>3 DEF ReserveNewPage, IInv, TypeOK
  <2>3. mem'[p].off >= PageHdr + mem'[p].links * JumpSize
    BY <2>2, CodePagesAssumption
  <2>4. \A f \in Fns : code[f].st # "none" => code[f].page \in PageIds \ {p}
    BY <2>1 DEF IInv, BlockInv
  <2> QED BY <2>1, <2>3, <2>4 DEF TableInv
<1>4. CASE LinkSlot
  <2> SUFFICES ASSUME NEW p, p = frame.page PROVE TableInv'
    OBVIOUS
  <2>1. /\ frame.pc = "link" /\ p \in PageIds /\ mem[p].prot = "rw" /\ UNCHANGED code
        /\ \A f \in Fns : code[f].st # "none" => code[f].page # p
    BY <1>4, FrameFields DEF LinkSlot, IInv, FrameInv
  <2>2. mem' = [mem EXCEPT ![p].links = mem[p].links + 1, ![p].off = mem[p].off + JumpSize]
    BY <1>4, <2>1 DEF LinkSlot, Writable
  <2>3. /\ mem'[p].links = mem[p].links + 1 /\ mem'[p].off = mem[p].off + JumpSize
        /\ \A q \in PageIds : q # p => mem'[q] = mem[q]
    BY <2>1, <2>2 DEF IInv, TypeOK, Page
  <2>4. mem[p].off \in Nat /\ mem[p].links \in Nat
    BY <2>1, PageFields, CodePagesAssumption DEF IInv
  <2>5. mem'[p].off >= PageHdr + mem'[p].links * JumpSize
    <3> DEFINE l == mem[p].links
    <3>1. mem[p].off >= PageHdr + l * JumpSize
      BY <2>1 DEF TableInv
    <3>2. l * JumpSize \in Nat /\ (l + 1) * JumpSize = l * JumpSize + JumpSize
      BY <2>4, SlotArith
    <3>3. mem[p].off + JumpSize >= PageHdr + (l + 1) * JumpSize
      BY <2>4, <3>1, <3>2, CodePagesAssumption
    <3> QED BY <2>3, <3>3
  <2>6. \A f \in Fns : code[f].st # "none" => code[f].page \in PageIds \ {p}
    BY <2>1 DEF IInv, BlockInv
  <2>7. \A q \in PageIds : q # p /\ mem'[q].prot # "none" =>
          mem'[q].off >= PageHdr + mem'[q].links * JumpSize
    BY <2>3 DEF TableInv
  <2>8. \A f \in Fns : code'[f].st # "none" =>
          code'[f].start >= PageHdr + mem'[code'[f].page].links * JumpSize
    BY <2>1, <2>3, <2>6 DEF TableInv
  <2> QED BY <2>5, <2>7, <2>8 DEF TableInv
<1>5. CASE LinkDone
  <2> SUFFICES ASSUME NEW p, p = frame.page PROVE TableInv'
    OBVIOUS
  <2>1. /\ p \in PageIds /\ UNCHANGED code /\ mem[p].prot = "rw" /\ frame.pc = "link"
    BY <1>5, FrameFields DEF LinkDone, IInv, FrameInv
  <2>2. mem' = [mem EXCEPT ![p].freed = mem[p].off]
    BY <1>5, <2>1 DEF LinkDone, Writable, TableFreed
  <2>3. \A q \in PageIds :
          /\ mem'[q].off = mem[q].off /\ mem'[q].links = mem[q].links
          /\ mem'[q].prot = mem[q].prot
    BY <2>1, <2>2 DEF IInv, TypeOK, Page
  <2> QED BY <2>1, <2>3, TableSame DEF IInv, BlockInv
<1>6. CASE EncodeOk
  <2> SUFFICES ASSUME NEW p, p = frame.page, NEW f, f = frame.fn PROVE TableInv'
    OBVIOUS
  <2>1. /\ p \in PageIds /\ f \in Fns /\ mem[p].prot # "none"
        /\ mem'[p].off = mem[p].off + frame.size /\ mem'[p].links = mem[p].links
        /\ \A q \in PageIds \ {p} : mem'[q] = mem[q]
        /\ code'[f].page = p /\ code'[f].start = mem[p].off
        /\ \A g \in Fns \ {f} : code'[g] = code[g]
        /\ mem[p].off \in Nat /\ frame.size \in Nat
    BY <1>6, UseEncode
  <2>2. mem[p].links * JumpSize \in Nat /\ mem[p].off >= PageHdr + mem[p].links * JumpSize
    <3>1. mem[p].links \in Nat
      BY <2>1, PageFields, CodePagesAssumption DEF IInv
    <3> QED BY <2>1, <3>1, SlotArith DEF TableInv
  <2>3. mem'[p].off >= PageHdr + mem'[p].links * JumpSize
    BY <2>1, <2>2, CodePagesAssumption
  <2>4. \A q \in PageIds : q # p /\ mem'[q].prot # "none" =>
          mem'[q].off >= PageHdr + mem'[q].links * JumpSize
    BY <2>1 DEF TableInv
  <2>5. \A q \in PageIds : mem'[q].links = mem[q].links
    BY <2>1
  <2>6. ASSUME NEW g \in Fns, code'[g].st # "none"
        PROVE  code'[g].start >= PageHdr + mem'[code'[g].page].links * JumpSize
    <3>1. CASE g = f
      BY <2>1, <2>2, <3>1
    <3>2. CASE g # f
      <4>1. code'[g] = code[g] /\ code[g].page \in PageIds
        BY <2>1, <2>6, <3>2 DEF IInv, BlockInv
      <4> QED BY <2>5, <2>6, <4>1 DEF TableInv
    <3> QED BY <3>1, <3>2
  <2> QED BY <2>3, <2>4, <2>6 DEF TableInv
<1>7. CASE EncodeError
  <2> SUFFICES ASSUME NEW p, p = frame.page PROVE TableInv'
    OBVIOUS
  <2>1. frame.pc = "encode" /\ Commit(0) /\ UNCHANGED code
    BY <1>7 DEF EncodeError
  <2>2. p \in PageIds /\ p = LastPage /\ mem[p].off \in Nat /\ mem[p].prot # "none"
    BY <2>1, EncodeFacts
  <2>3. /\ mem'[p].off = mem[p].off + 0 /\ mem'[p].prot = "rx"
        /\ \A r \in PageIds \ {p} : mem'[r] = mem[r]
    BY <2>1, <2>2, CommitFacts DEF IInv
  <2>4. mem'[p].links = mem[p].links
    BY <2>1, <2>2 DEF IInv, Commit, TypeOK, Page
  <2> QED BY <2>1, <2>2, <2>3, <2>4, TableSame DEF IInv, BlockInv
<1>8. CASE Publish
  <2>1. code' = [code EXCEPT ![frame.fn].st = "published"]
        /\ UNCHANGED mem /\ frame.fn \in Fns /\ code[frame.fn].st = "committed"
    BY <1>8, FrameFields DEF Publish, IInv, FrameInv
  <2>2. \A g \in Fns :
          /\ code'[g].page = code[g].page /\ code'[g].start = code[g].start
          /\ code'[g].st # "none" <=> code[g].st # "none"
    BY <2>1 DEF IInv, TypeOK, Block
  <2> QED BY <2>1, <2>2 DEF TableInv
<1>9. ASSUME NEW f \in Fns, FreeCode(f)
      PROVE  TableInv'
  <2>1. \A g \in Fns : code'[g].st # "none" => code'[g] = code[g]
    BY <1>9 DEF FreeCode, IInv, TypeOK, NoCode
  <2>2. ASSUME NEW q \in PageIds, mem'[q].prot # "none"
        PROVE  /\ mem[q].prot # "none"
               /\ mem'[q].off = mem[q].off /\ mem'[q].links = mem[q].links
    <3>1. CASE UNCHANGED mem
      BY <2>2, <3>1
    <3>2. CASE \E i \in Holders(f) : ReleaseFrom(i, f)
      <4>1. PICK i \in Holders(f) : ReleaseFrom(i, f)
        BY <3>2
      <4>2. pages[i] = code[f].page /\ mem[pages[i]].prot # "none"
        BY <1>9, <4>1 DEF FreeCode, Holders, IInv, BlockInv
      <4>3. \/ \E n : mem' = [mem EXCEPT ![pages[i]].freed = n, ![pages[i]].prot = "rx"]
            \/ mem' = [mem EXCEPT ![pages[i]] = Unmapped]
        BY <4>1 DEF ReleaseFrom
      <4>4. CASE q = pages[i]
        <5>1. CASE mem' = [mem EXCEPT ![q] = Unmapped]
          BY <2>2, <5>1 DEF IInv, TypeOK, Unmapped
        <5>2. ASSUME NEW n, mem' = [mem EXCEPT ![q].freed = n, ![q].prot = "rx"]
              PROVE  mem'[q].off = mem[q].off /\ mem'[q].links = mem[q].links
          BY <5>2 DEF IInv, TypeOK, Page
        <5> QED BY <2>2, <4>2, <4>3, <4>4, <5>1, <5>2
      <4>5. CASE q # pages[i]
        BY <2>2, <4>3, <4>5 DEF IInv, TypeOK
      <4> QED BY <4>4, <4>5
    <3> QED BY <1>9, <3>1, <3>2 DEF FreeCode
  <2>3. \A g \in Fns : code'[g].st # "none" => mem'[code'[g].page].prot # "none"
    BY DEF IInv, BlockInv
  <2>4. \A g \in Fns : code'[g].st # "none" => code[g].st # "none"
    BY <2>1
  <2> QED BY <2>1, <2>2, <2>3, <2>4, TableSame
<1>10. CASE JitGc
  <2>1. /\ \A p \in PageIds : mem'[p].prot = "none"
        /\ \A f \in Fns : code'[f].st = "none"
    BY <1>10 DEF IInv, ListInv, JitGc
  <2> QED BY <2>1 DEF TableInv
<1> QED BY <1>1, <1>2, <1>3, <1>4, <1>5, <1>6, <1>7, <1>8, <1>9, <1>10 DEF Next, vars,
    BeginCompile, Emit, CompileError, LinkError, PublishError

LEMMA UseAlways ==
  ASSUME MaxNest = 0
  PROVE  Spec => [](IInv /\ UseExact /\ TableInv)
<1>1. Init => UseExact /\ TableInv
  BY DEF Init, UseExact, TableInv, Unmapped, NoCode
<1>2. IInv /\ UseExact /\ TableInv /\ [Next]_vars => (IInv /\ UseExact /\ TableInv)'
  BY InvStep, UseStep, TableStep
<1> QED BY InvInit, <1>1, <1>2, PTL DEF Spec

\* page->off - page->freed is the code of the page, byte for byte.
THEOREM FreedExact ==
  ASSUME MaxNest = 0
  PROVE  Spec => []FreedIsExact
<1>1. ASSUME IInv, UseExact
      PROVE  FreedIsExact
  <2> SUFFICES ASSUME NEW p \in Mapped, Complete(p)
               PROVE  mem[p].off - mem[p].freed = Cardinality(UsedBytes(p))
    BY DEF FreedIsExact
  <2>1. p \in PageIds /\ mem[p].prot # "none"
    BY DEF Mapped
  <2>2. mem[p].freed + Cardinality(UsedBytes(p)) = mem[p].off
    BY <1>1, <2>1 DEF UseExact
  <2>3. mem[p].off \in Nat /\ mem[p].freed \in Nat /\ Cardinality(UsedBytes(p)) \in Nat
    BY <1>1, <2>1, PageFields, UsedFinite DEF IInv
  <2> QED BY <2>2, <2>3
<1> QED BY <1>1, UseAlways, PTL

\* No code overwrites the link table of its page.
THEOREM CodeBehindLinks ==
  ASSUME MaxNest = 0
  PROVE  Spec => []LinkedBeforeCode
<1>1. TableInv => LinkedBeforeCode
  BY DEF TableInv, LinkedBeforeCode, LinkEnd, Live
<1> QED BY <1>1, UseAlways, PTL

\* free_code unmaps a page with the last of its code, and with no other.
THEOREM UnmapsWithLast ==
  ASSUME MaxNest = 0
  PROVE  Spec => UnmapsLast
<1> DEFINE Kept(p) == Complete(p) /\ ~closed' =>
                        (p \notin Mapped' <=> LiveOn(p) # {} /\ LiveOn(p)' = {})
<1>1. ASSUME IInv, IInv', UseExact, [Next]_vars, NEW p \in Mapped
      PROVE  Kept(p)
  <2>0. p \in PageIds /\ mem[p].prot # "none"
    BY DEF Mapped
  <2>1. ASSUME mem'[p].prot # "none", LiveOn(p) \subseteq LiveOn(p)'
        PROVE  Kept(p)
    BY <2>0, <2>1 DEF Mapped
  <2>2. ASSUME NEW f \in Fns, FreeCode(f)
        PROVE  Kept(p)
    <3> SUFFICES ASSUME NEW q, q = code[f].page PROVE Kept(p)
      OBVIOUS
    <3>1. /\ q \in PageIds
          /\ \A r \in PageIds \ {q} : mem'[r] = mem[r] /\ LiveOn(r)' = LiveOn(r)
          /\ f \in LiveOn(q)
          /\ \/ mem'[q].prot = "none" /\ LiveOn(q)' = {}
             \/ mem'[q].prot = "rx" /\ (Complete(q) => LiveOn(q)' # {})
      BY <1>1, <2>2, UseFree
    <3>2. CASE p = q
      BY <2>0, <3>1, <3>2 DEF Mapped
    <3>3. CASE p # q
      BY <2>0, <2>1, <3>1, <3>3
    <3> QED BY <3>2, <3>3
  <2>3. CASE EncodeOk
    <3> SUFFICES ASSUME NEW q, q = frame.page, NEW f, f = frame.fn PROVE Kept(p)
      OBVIOUS
    <3>1. /\ mem'[q].prot = "rx" /\ code[f].st = "none"
          /\ \A r \in PageIds \ {q} : mem'[r] = mem[r]
          /\ \A g \in Fns \ {f} : code'[g] = code[g]
      BY <1>1, <2>3, UseEncode
    <3>2. mem'[p].prot # "none" /\ LiveOn(p) \subseteq LiveOn(p)'
      BY <2>0, <3>1 DEF LiveOn, Live
    <3> QED BY <2>1, <3>2
  <2>4. CASE EncodeError
    <3> SUFFICES ASSUME NEW q, q = frame.page PROVE Kept(p)
      OBVIOUS
    <3>1. frame.pc = "encode" /\ Commit(0) /\ UNCHANGED code
      BY <2>4 DEF EncodeError
    <3>2. q \in PageIds /\ q = LastPage
      BY <1>1, <3>1, EncodeFacts
    <3>3. mem'[q].prot = "rx" /\ \A r \in PageIds \ {q} : mem'[r] = mem[r]
      BY <1>1, <3>1, <3>2, CommitFacts DEF IInv
    <3> QED BY <2>0, <2>1, <3>1, <3>3 DEF LiveOn, Live
  <2>5. CASE Publish
    <3>1. \A g \in Fns : /\ code'[g].page = code[g].page
                         /\ code[g].st # "none" => code'[g].st # "none"
      BY <1>1, <2>5 DEF Publish, IInv, TypeOK, Block
    <3> QED BY <2>0, <2>1, <2>5, <3>1 DEF Publish, LiveOn, Live
  <2>6. CASE UNCHANGED code /\ \A r \in PageIds : mem[r].prot # "none" => mem'[r].prot # "none"
    BY <2>0, <2>1, <2>6 DEF LiveOn, Live
  <2>7. CASE JitGc
    BY <2>7 DEF JitGc
  <2>8. CASE \/ ReserveOnLastPage \/ (\E q \in PageIds : ReserveNewPage(q))
             \/ LinkSlot \/ LinkDone
    <3>1. UNCHANGED code
      BY <2>8 DEF ReserveOnLastPage, ReserveNewPage, LinkSlot, LinkDone
    <3>2. ASSUME NEW r \in PageIds, mem[r].prot # "none" PROVE mem'[r].prot # "none"
      <4>1. CASE ReserveOnLastPage
        BY <1>1, <3>2, <4>1 DEF ReserveOnLastPage, IInv, TypeOK, Page
      <4>2. CASE \E q \in PageIds : ReserveNewPage(q)
        BY <1>1, <3>2, <4>2 DEF ReserveNewPage, IInv, TypeOK
      <4>3. CASE LinkSlot
        <5>1. PICK q \in PageIds : q = frame.page
          BY <1>1, <4>3, FrameFields DEF LinkSlot, IInv
        <5>2. \/ UNCHANGED mem
              \/ mem' = [mem EXCEPT ![q].links = mem[q].links + 1, ![q].off = mem[q].off + JumpSize]
          BY <4>3, <5>1 DEF LinkSlot
        <5>3. mem \in [PageIds -> Page]
          BY <1>1 DEF IInv, TypeOK
        <5>4. CASE UNCHANGED mem
          BY <3>2, <5>4
        <5>5. CASE mem' = [mem EXCEPT ![q].links = mem[q].links + 1, ![q].off = mem[q].off + JumpSize]
          <6> SUFFICES ASSUME NEW ln, NEW of, mem' = [mem EXCEPT ![q].links = ln, ![q].off = of]
                       PROVE  mem'[r].prot # "none"
            BY <5>5
          <6>1. mem'[r].prot = mem[r].prot
            BY <5>3 DEF Page
          <6> QED BY <3>2, <6>1
        <5> QED BY <5>2, <5>4, <5>5
      <4>4. CASE LinkDone
        <5>1. PICK q \in PageIds : q = frame.page
          BY <1>1, <4>4, FrameFields DEF LinkDone, IInv
        <5>2. UNCHANGED mem \/ mem' = [mem EXCEPT ![q].freed = mem[q].off]
          BY <4>4, <5>1 DEF LinkDone, TableFreed
        <5> QED BY <1>1, <3>2, <5>2 DEF IInv, TypeOK, Page
      <4> QED BY <2>8, <4>1, <4>2, <4>3, <4>4
    <3> QED BY <2>6, <3>1, <3>2
  <2> QED BY <1>1, <2>2, <2>3, <2>4, <2>5, <2>6, <2>7, <2>8 DEF Next, vars, BeginCompile, Emit,
      CompileError, LinkError, PublishError
<1>2. IInv /\ IInv' /\ UseExact /\ [Next]_vars => [\A p \in Mapped : Kept(p)]_vars
  BY <1>1
<1> QED BY <1>2, UseAlways, PTL DEF Spec, UnmapsLast
=============================================================================
