----------------------------- MODULE CodePages -----------------------------
(***************************************************************************)
(* The executable memory of luaffi (call.c): the pages that hold the code  *)
(* generated for C functions, for callbacks and for the shared globals,    *)
(* with the buffer of the assembler (jit->ctx) that fills them.            *)
(*                                                                         *)
(* luaffi is single threaded, but a compilation allocates Lua objects, and *)
(* an allocation may run the garbage collector and with it finalizers:     *)
(* these free code, and may themselves call a C function that is not       *)
(* compiled yet.  Control is therefore the frame of the compilation that   *)
(* runs, a stack of the compilations it interrupted, and in each frame the *)
(* points at which Lua code can run (CanRunLua).                           *)
(*                                                                         *)
(* An address is a page and an offset.  Sizes are small numbers; the only  *)
(* contents kept of a code block are its header (size, ref) and the        *)
(* functions whose instructions it holds (body).                           *)
(***************************************************************************)
EXTENDS Integers, Sequences, FiniteSets

CONSTANTS
  Fns,        \* what can be compiled: C functions, callbacks, the globals
  Callbacks,  \* the members of Fns that are callbacks (compile_callback)
  Globals,    \* the code shared by all others (compile_globals)
  CodeSize,   \* [Fns -> Nat]: bytes dasm_link reports for each
  PageIds,    \* the addresses AllocPage can return
  Refs,       \* the registry slots luaL_ref can return
  Nil,        \* no page, no function, LUA_NOREF
  PageHdr,    \* sizeof(struct page)
  JumpSize,   \* JUMP_SIZE
  NLinks,     \* entries of extnames before its NULL
  HeadSize,   \* sizeof(struct jit_head)
  Granule,    \* jit->align_page_size + 1
  MaxNest,    \* bound: compilations a finalizer may start inside another
  Faults      \* the failures that may happen: see FaultKinds

FaultKinds == {"setup", "emit", "link", "encode", "publish"}

ASSUME CodePagesAssumption ==
  /\ Callbacks \subseteq Fns
  /\ Globals \in Fns \ Callbacks
  /\ CodeSize \in [Fns -> Nat]
  /\ Nil \notin Fns \cup PageIds \cup Refs
  /\ PageHdr \in Nat \ {0} /\ JumpSize \in Nat \ {0} /\ NLinks \in Nat
  /\ HeadSize \in Nat \ {0} /\ Granule \in Nat \ {0}
  /\ MaxNest \in Nat
  /\ Faults \subseteq FaultKinds

VARIABLES
  pages,      \* jit->pages[0 .. pagenum-1], the last one takes new code
  mem,        \* per address: struct page, protection, link slots written
  ctx,        \* jit->ctx: whose instructions it buffers, and their size
  code,       \* per function: the block compiled for it
  registry,   \* slots of LUA_REGISTRYINDEX taken by luaL_ref
  frame,      \* the compilation that runs (pc "idle": none)
  suspended,  \* the compilations it interrupted, innermost first
  fault,      \* "none", or the access or assertion that stopped the process
  closed      \* jit_gc has run

vars == <<pages, mem, ctx, code, registry, frame, suspended, fault, closed>>

-----------------------------------------------------------------------------
(* Layout. *)

LinkTableMax == (NLinks + 1) * JumpSize
LinkEnd      == PageHdr + NLinks * JumpSize

\* Mutant: ALIGN_DOWN.
AlignDown(n) == (n \div Granule) * Granule

AlignUp(n)   == ((n + Granule - 1) \div Granule) * Granule

Unmapped == [size |-> 0, off |-> 0, freed |-> 0, prot |-> "none", links |-> 0]
NoCode   == [st |-> "none", page |-> Nil, start |-> 0, size |-> 0,
             ref |-> Nil, body |-> <<>>]
NoFrame  == [fn |-> Nil, pc |-> "idle", page |-> Nil, start |-> 0,
             size |-> 0, ref |-> Nil]

LastPage == pages[Len(pages)]
Mapped   == {p \in PageIds : mem[p].prot # "none"}
Live     == {f \in Fns : code[f].st # "none"}

\* An access to a page, by the code that runs, that the process survives.
Writable(p) == mem[p].prot = "rw"

Running == fault = "none" /\ ~closed

\* Where Lua allocates, so that a collection can run finalizers, or where no
\* compilation runs at all.
CanRunLua ==
  \/ frame.pc \in {"idle", "setup", "publish"}
  \/ frame.pc = "emitted" /\ frame.fn \in Callbacks
  \/ frame.pc = "link" /\ mem[frame.page].links < NLinks

\* An error, or the end, of the running compilation resumes the one it
\* interrupted: finalizers run under pcall.
PopFrame ==
  /\ frame' = IF suspended = <<>> THEN NoFrame ELSE Head(suspended)
  /\ suspended' = IF suspended = <<>> THEN <<>> ELSE Tail(suspended)

-----------------------------------------------------------------------------
(* compile_globals, compile_function and compile_callback up to compile(). *)

EmptyBuffer == [owners |-> <<>>, size |-> 0]

\* dasm_setup empties the one buffer, whoever was filling it.
BeginCompile(f) ==
  /\ Running
  /\ code[f].st = "none"
  /\ IF f = Globals THEN pages = <<>> ELSE code[Globals].st # "none"
  /\ CanRunLua
  /\ \/ frame.pc = "idle" /\ UNCHANGED suspended
     \/ /\ frame.pc # "idle" /\ Len(suspended) < MaxNest
        /\ suspended' = <<frame>> \o suspended
  /\ \A s \in {frame} \cup {suspended[i] : i \in 1..Len(suspended)} : s.fn # f
  /\ ctx' = EmptyBuffer
  /\ frame' = [NoFrame EXCEPT !.fn = f, !.pc = "setup"]
  /\ UNCHANGED <<pages, mem, code, registry, fault, closed>>

FreeRefs == Refs \ registry

\* The upval table of a callback is referenced, then the instructions are
\* buffered after whatever the buffer holds.
Emit ==
  /\ Running
  /\ frame.pc = "setup"
  /\ ctx' = [owners |-> Append(ctx.owners, frame.fn),
             size   |-> ctx.size + CodeSize[frame.fn]]
  /\ IF frame.fn \in Callbacks
       THEN \E r \in FreeRefs :
              /\ registry' = registry \cup {r}
              /\ frame' = [frame EXCEPT !.pc = "emitted", !.ref = r]
       ELSE /\ frame' = [frame EXCEPT !.pc = "emitted"]
            /\ UNCHANGED registry
  /\ UNCHANGED <<pages, mem, code, suspended, fault, closed>>

\* luaL_error (varargs, NYI types, dasm_link) or out of memory before compile
\* reserves room.  The reference a callback took is not given back.
CompileError ==
  /\ Running
  /\ \/ frame.pc = "setup" /\ "setup" \in Faults
     \/ frame.pc = "emitted" /\ "emit" \in Faults
  /\ PopFrame
  /\ UNCHANGED <<pages, mem, ctx, code, registry, fault, closed>>

-----------------------------------------------------------------------------
(* reserve_code: the last page if the code fits, else a new one. *)

CodeSz == HeadSize + ctx.size

Fits == pages # <<>> /\ mem[LastPage].off + CodeSz < mem[LastPage].size

ReserveOnLastPage ==
  /\ Running
  /\ frame.pc = "emitted"
  /\ Fits
  /\ mem' = [mem EXCEPT ![LastPage].prot = "rw"]
  /\ frame' = [frame EXCEPT !.pc = "encode", !.page = LastPage,
                            !.start = mem[LastPage].off, !.size = CodeSz]
  /\ UNCHANGED <<pages, ctx, code, registry, suspended, fault, closed>>

\* The page is in jit->pages before its link table exists; freed is not set
\* (mmap returns zeroed memory).
ReserveNewPage(p) ==
  /\ Running
  /\ frame.pc = "emitted"
  /\ ~Fits
  /\ p \notin Mapped
  /\ pages' = Append(pages, p)
  /\ mem' = [mem EXCEPT ![p] =
              [size  |-> AlignUp(CodeSz + LinkTableMax + PageHdr),
               off   |-> PageHdr, freed |-> 0, prot |-> "rw", links |-> 0]]
  /\ frame' = [frame EXCEPT !.pc = "link", !.page = p, !.size = CodeSz]
  /\ UNCHANGED <<ctx, code, registry, suspended, fault, closed>>

\* One slot of the link table: write the jump, advance off.
LinkSlot ==
  LET p == frame.page IN
  /\ Running
  /\ frame.pc = "link"
  /\ mem[p].links < NLinks
  /\ IF Writable(p)
       THEN /\ mem' = [mem EXCEPT ![p].links = mem[p].links + 1,
                                 ![p].off = mem[p].off + JumpSize]
            /\ UNCHANGED fault
       ELSE fault' = "write" /\ UNCHANGED mem
  /\ UNCHANGED <<pages, ctx, code, registry, frame, suspended, closed>>

\* Mutant: code starts behind the header, over the link table.
CodeStartHeader(p) == PageHdr

CodeStart(p) == mem[p].off

\* Mutant: header and link table are not counted.
TableUncounted(p) == 0

TableFreed(p) == mem[p].off

\* page->freed = page->off: header and link table count as freed.
LinkDone ==
  LET p == frame.page IN
  /\ Running
  /\ frame.pc = "link"
  /\ mem[p].links = NLinks
  /\ IF Writable(p)
       THEN /\ mem' = [mem EXCEPT ![p].freed = TableFreed(p)]
            /\ frame' = [frame EXCEPT !.pc = "encode", !.start = CodeStart(p)]
            /\ UNCHANGED fault
       ELSE fault' = "write" /\ UNCHANGED <<mem, frame>>
  /\ UNCHANGED <<pages, ctx, code, registry, suspended, closed>>

\* Out of memory, or a missing link, while the table is being filled: the
\* half-made page stays the last one of jit->pages.
LinkError ==
  /\ Running
  /\ "link" \in Faults
  /\ frame.pc = "link"
  /\ mem[frame.page].links < NLinks
  /\ PopFrame
  /\ UNCHANGED <<pages, mem, ctx, code, registry, fault, closed>>

-----------------------------------------------------------------------------
(* compile: encode into the reserved room, then commit_code. *)

\* Mutant: off advances by the instructions, not by their header.
CommitNoHead(sz) ==
  mem' = [mem EXCEPT ![LastPage].off =
                       IF sz = 0 THEN mem[LastPage].off
                                 ELSE mem[LastPage].off + sz - HeadSize,
                     ![LastPage].prot = "rx"]

\* Mutant: an error leaves the page writable.
CommitIfAny(sz) ==
  mem' = [mem EXCEPT ![LastPage].off = mem[LastPage].off + sz,
                     ![LastPage].prot = IF sz = 0 THEN "rw" ELSE "rx"]

\* commit_code looks the page up again: it is the last one, not necessarily
\* the one that was reserved.
Commit(sz) ==
  mem' = [mem EXCEPT ![LastPage].off = mem[LastPage].off + sz,
                     ![LastPage].prot = "rx"]

\* Mutant: compile does not store ref.
BlockNoRef ==
  [st |-> IF frame.fn \in Callbacks THEN "published" ELSE "committed",
   page |-> frame.page, start |-> frame.start, size |-> frame.size,
   ref |-> Nil, body |-> ctx.owners]

\* struct jit_head and the instructions behind it.
NewBlock ==
  [st |-> IF frame.fn \in Callbacks THEN "published" ELSE "committed",
   page |-> frame.page, start |-> frame.start, size |-> frame.size,
   ref |-> frame.ref, body |-> ctx.owners]

\* The globals have no owner; the address of a callback is stored in its
\* cdata; a function waits for the userdata that will free it.
EncodeOk ==
  /\ Running
  /\ frame.pc = "encode"
  /\ code' = [code EXCEPT ![frame.fn] = NewBlock]
  /\ Commit(frame.size)
  /\ IF frame.fn \in Callbacks \cup {Globals}
       THEN PopFrame
       ELSE /\ frame' = [frame EXCEPT !.pc = "publish"]
            /\ UNCHANGED suspended
  /\ UNCHANGED <<pages, ctx, registry, fault, closed>>

\* dasm_encode failed: commit nothing, raise the error.
EncodeError ==
  /\ Running
  /\ "encode" \in Faults
  /\ frame.pc = "encode"
  /\ Commit(0)
  /\ PopFrame
  /\ UNCHANGED <<pages, ctx, code, registry, fault, closed>>

\* push_callback and the closure that holds it.
Publish ==
  /\ Running
  /\ frame.pc = "publish"
  /\ code' = [code EXCEPT ![frame.fn].st = "published"]
  /\ PopFrame
  /\ UNCHANGED <<pages, mem, ctx, registry, fault, closed>>

\* Out of memory in push_callback: nothing will ever free the code.
PublishError ==
  /\ Running
  /\ "publish" \in Faults
  /\ frame.pc = "publish"
  /\ PopFrame
  /\ UNCHANGED <<pages, mem, ctx, code, registry, fault, closed>>

-----------------------------------------------------------------------------
(* free_code, called by callback_free (a finalizer) and by cdata_free. *)

\* Mutant: only the page that takes new code is searched.
HolderLast(f) == {i \in {Len(pages)} \cap 1..Len(pages) : pages[i] = code[f].page}

\* The pages whose address range holds the block.
Holders(f) == {i \in 1..Len(pages) :
                 /\ pages[i] = code[f].page
                 /\ code[f].start < mem[pages[i]].size}

\* Mutant: --pagenum without the memmove.
DropLast(i) == [j \in 1..(Len(pages) - 1) |-> pages[j]]

\* memmove over the i-th entry, --pagenum.
DropPage(i) ==
  [j \in 1..(Len(pages) - 1) |-> IF j < i THEN pages[j] ELSE pages[j + 1]]

\* Mutants: the size is subtracted, added twice, or lacks the header.
FreedMinus(p, f)  == mem[p].freed - code[f].size
FreedTwice(p, f)  == mem[p].freed + 2 * code[f].size
FreedNoHead(p, f) == mem[p].freed + code[f].size - HeadSize

FreedWith(p, f) == mem[p].freed + code[f].size

\* Mutant: luaL_unref is forgotten.
RefsKeptBy(f) == registry

RefsWithout(f) == registry \ {code[f].ref}

\* A page is unmapped when all of it has been freed.
ReleaseFrom(i, f) ==
  LET p == pages[i]
      freed == FreedWith(p, f)
  IN  IF freed < mem[p].off
        THEN /\ mem' = [mem EXCEPT ![p].freed = freed, ![p].prot = "rx"]
             /\ UNCHANGED pages
        ELSE /\ mem' = [mem EXCEPT ![p] = Unmapped]
             /\ pages' = DropPage(i)

\* assert(!"couldn't find func in the jit pages") stops the process.
FreeCode(f) ==
  /\ Running
  /\ CanRunLua
  /\ code[f].st = "published"
  /\ IF Holders(f) = {}
       THEN fault' = "assert" /\ UNCHANGED <<pages, mem, code, registry>>
       ELSE /\ \E i \in Holders(f) : ReleaseFrom(i, f)
            /\ registry' = RefsWithout(f)
            /\ code' = [code EXCEPT ![f] = NoCode]
            /\ UNCHANGED fault
  /\ UNCHANGED <<ctx, frame, suspended, closed>>

\* lua_close has run every other finalizer: the pages go, whatever they hold.
JitGc ==
  /\ Running
  /\ frame.pc = "idle"
  /\ \A f \in Fns \ Callbacks : code[f].st # "published"
  /\ mem' = [p \in PageIds |->
               IF \E i \in 1..Len(pages) : pages[i] = p THEN Unmapped ELSE mem[p]]
  /\ code' = [f \in Fns |-> NoCode]
  /\ closed' = TRUE
  /\ UNCHANGED <<pages, ctx, registry, frame, suspended, fault>>

-----------------------------------------------------------------------------

Init ==
  /\ pages = <<>>
  /\ mem = [p \in PageIds |-> Unmapped]
  /\ ctx = [owners |-> <<>>, size |-> 0]
  /\ code = [f \in Fns |-> NoCode]
  /\ registry = {}
  /\ frame = NoFrame
  /\ suspended = <<>>
  /\ fault = "none"
  /\ closed = FALSE

Next ==
  \/ \E f \in Fns : BeginCompile(f)
  \/ Emit
  \/ CompileError
  \/ ReserveOnLastPage
  \/ \E p \in PageIds : ReserveNewPage(p)
  \/ LinkSlot
  \/ LinkDone
  \/ LinkError
  \/ EncodeOk
  \/ EncodeError
  \/ Publish
  \/ PublishError
  \/ \E f \in Fns : FreeCode(f)
  \/ JitGc

Spec == Init /\ [][Next]_vars

-----------------------------------------------------------------------------
(* What the code generator promises. *)

\* Types of the variables.
Block == [st : {"none", "committed", "published"}, page : PageIds \cup {Nil},
          start : Nat, size : Nat, ref : Refs \cup {Nil}, body : Seq(Fns)]
Page  == [size : Nat, off : Nat, freed : Nat, prot : {"none", "rw", "rx"},
          links : 0..NLinks]
Frame == {w \in [fn : Fns \cup {Nil},
                 pc : {"idle", "setup", "emitted", "link", "encode", "publish"},
                 page : PageIds \cup {Nil}, start : Nat, size : Nat,
                 ref : Refs \cup {Nil}] :
            /\ w.pc # "idle" => w.fn \in Fns
            /\ w.pc \in {"link", "encode"} => w.page \in PageIds}

TypeOK ==
  /\ pages \in Seq(PageIds)
  /\ mem \in [PageIds -> Page]
  /\ ctx \in [owners : Seq(Fns), size : Nat]
  /\ code \in [Fns -> Block]
  /\ registry \subseteq Refs
  /\ frame \in Frame
  /\ suspended \in Seq(Frame)
  /\ fault \in {"none", "write", "assert"}
  /\ closed \in BOOLEAN

Bytes(f) == code[f].start .. (code[f].start + code[f].size - 1)

LiveOn(p) == {f \in Live : code[f].page = p}

\* Code that was handed out stays in memory that is mapped and in use until it
\* is freed: free_code releases a page only with the last of its blocks.
LiveCodeMapped ==
  \A f \in Live :
    /\ code[f].page \in Mapped
    /\ code[f].start >= PageHdr
    /\ code[f].start + code[f].size <= mem[code[f].page].off
    /\ mem[code[f].page].off <= mem[code[f].page].size

\* No two blocks share a byte.
LiveCodeDisjoint ==
  \A f, g \in Live :
    f # g /\ code[f].page = code[g].page => Bytes(f) \cap Bytes(g) = {}

\* Whenever Lua runs, and with it any compiled function, every block is
\* executable: no page is left writable by a reservation, an error or a free.
LiveCodeExecutable ==
  Running /\ CanRunLua => \A f \in Live : mem[code[f].page].prot = "rx"

\* jit->pages lists each mapped page once: memmove and pagenum keep up with
\* AllocPage and FreePage, and jit_gc leaves nothing mapped.
PagesAreMapped ==
  /\ Mapped = IF closed THEN {} ELSE {pages[i] : i \in 1..Len(pages)}
  /\ \A i, j \in 1..Len(pages) : pages[i] = pages[j] => i = j

\* The bytes of a page that are in use and not freed are those of its blocks.
UsedBytes(p) == UNION {Bytes(f) : f \in LiveOn(p)}

Complete(p) ==
  mem[p].links = NLinks /\ ~(frame.pc = "link" /\ frame.page = p)

FreedIsExact ==
  \A p \in Mapped :
    Complete(p) => mem[p].off - mem[p].freed = Cardinality(UsedBytes(p))

\* What get_extern and commit_code recompute (the last page, its off) is what
\* reserve_code returned, although finalizers ran in between, and the room
\* that is about to be written is writable and lies in the page.
CommitsWhereReserved ==
  Running /\ frame.pc = "encode" =>
    /\ frame.page = LastPage
    /\ Writable(LastPage)
    /\ frame.start = mem[LastPage].off
    /\ frame.start + frame.size <= mem[LastPage].size

\* The code of a block calls out through the link table of its page and does not
\* overwrite it (once the table is whole: an error while it is made leaves a page
\* that the next compilation takes as it is).
LinkedBeforeCode ==
  \A f \in Live : mem[code[f].page].links = NLinks => code[f].start >= LinkEnd

\* A block holds the instructions of its own function and no other.
OwnInstructions == \A f \in Live : code[f].body = <<f>>

\* A page with a whole link table is unmapped with the last of its code, and at
\* no other time before jit_gc.
UnmapsLast ==
  [][\A p \in Mapped : Complete(p) /\ ~closed' =>
       (p \notin Mapped' <=> LiveOn(p) # {} /\ LiveOn(p)' = {})]_vars

\* No finalizer, page fault or lost block stops the process.
NeverStops == fault = "none"

\* The upval table of a callback stays in the registry as long as its code, in
\* a slot of its own.
RefsKept ==
  /\ \A f \in Live \cap Callbacks : code[f].ref \in registry
  /\ \A f, g \in Live \cap Callbacks : code[f].ref = code[g].ref => f = g

\* Every slot taken belongs to a callback that lives or is being compiled.
NoRefLeak ==
  ~closed => registry \subseteq {code[f].ref : f \in Live} \cup {frame.ref}
               \cup {suspended[i].ref : i \in 1..Len(suspended)}

-----------------------------------------------------------------------------
(* The inductive invariant behind the properties above, for MaxNest = 0:    *)
(* what the running compilation knows of the page it fills (FrameInv), how  *)
(* blocks lie in their pages (PageInv, BlockInv, ApartInv), and that the    *)
(* bytes counted as freed are none of theirs (FreedInv).                    *)

ListInv ==
  /\ \A i, j \in 1..Len(pages) : pages[i] = pages[j] => i = j
  /\ ~closed => \A p \in PageIds :
       mem[p].prot # "none" <=> \E i \in 1..Len(pages) : pages[i] = p
  /\ closed => /\ \A p \in PageIds : mem[p].prot = "none"
               /\ \A f \in Fns : code[f].st = "none"

PageInv ==
  \A p \in PageIds : mem[p].prot # "none" =>
    PageHdr <= mem[p].off /\ mem[p].off <= mem[p].size

BlockInv ==
  \A f \in Fns : code[f].st # "none" =>
    /\ code[f].page \in PageIds
    /\ mem[code[f].page].prot # "none"
    /\ code[f].size > 0
    /\ PageHdr <= code[f].start
    /\ code[f].start + code[f].size <= mem[code[f].page].off

ApartInv ==
  \A f, g \in Fns :
    /\ f # g /\ code[f].st # "none" /\ code[g].st # "none"
    /\ code[f].page = code[g].page
    => \/ code[f].start + code[f].size <= code[g].start
       \/ code[g].start + code[g].size <= code[f].start

FreedInv ==
  \A p \in PageIds : mem[p].prot # "none" =>
    mem[p].freed + Cardinality(UsedBytes(p)) <= mem[p].off

ExecInv ==
  \A f \in Fns : code[f].st # "none" =>
    mem[code[f].page].prot = "rx" \/ (frame.pc = "encode" /\ frame.page = code[f].page)

FrameInv ==
  /\ closed => frame.pc = "idle"
  /\ frame.pc \in {"setup", "emitted", "link", "encode"} => code[frame.fn].st = "none"
  /\ frame.pc = "publish" => code[frame.fn].st = "committed"
  /\ frame.pc \in {"link", "encode"} =>
       /\ Len(pages) > 0
       /\ frame.page = LastPage
       /\ mem[frame.page].prot = "rw"
       /\ frame.size > 0
  /\ frame.pc = "link" =>
       /\ \A f \in Fns : code[f].st # "none" => code[f].page # frame.page
       /\ mem[frame.page].freed = 0
       /\ mem[frame.page].off + (NLinks - mem[frame.page].links) * JumpSize
            + JumpSize + frame.size <= mem[frame.page].size
  /\ frame.pc = "encode" =>
       /\ frame.start = mem[frame.page].off
       /\ frame.start + frame.size <= mem[frame.page].size

IInv ==
  /\ TypeOK
  /\ suspended = <<>>
  /\ fault = "none"
  /\ ListInv
  /\ PageInv
  /\ BlockInv
  /\ ApartInv
  /\ FreedInv
  /\ ExecInv
  /\ FrameInv

\* What is in use of a page whose link table is whole is its code, exactly.
UseExact ==
  \A p \in PageIds : mem[p].prot # "none" /\ Complete(p) =>
    mem[p].freed + Cardinality(UsedBytes(p)) = mem[p].off

\* Code lies behind the slots of the link table that are written.
TableInv ==
  /\ \A p \in PageIds : mem[p].prot # "none" =>
       mem[p].off >= PageHdr + mem[p].links * JumpSize
  /\ \A f \in Fns : code[f].st # "none" =>
       code[f].start >= PageHdr + mem[code[f].page].links * JumpSize

\* The references of callbacks, however deep compilations nest.  A compilation
\* takes its slot in Emit and gives it to the code in EncodeOk; FrameAt(0) is
\* the one that runs, the others are those it interrupted.
FrameAt(i) == IF i = 0 THEN frame ELSE suspended[i]

FrameRef(w) ==
  /\ w.ref # Nil <=> w.fn \in Callbacks /\ w.pc \notin {"idle", "setup"}
  /\ w.ref # Nil => w.ref \in registry
  /\ w.pc \in {"setup", "emitted", "link", "encode"} => code[w.fn].st = "none"
  /\ w.pc = "publish" => w.fn \notin Callbacks

FramesRef == \A i \in 0..Len(suspended) : FrameRef(FrameAt(i))

FramesApart ==
  \A i, j \in 0..Len(suspended) : i # j =>
    /\ FrameAt(i).fn # FrameAt(j).fn
    /\ FrameAt(i).ref # Nil => FrameAt(i).ref # FrameAt(j).ref

CodeRef(f) ==
  /\ code[f].ref # Nil <=> f \in Callbacks /\ code[f].st # "none"
  /\ code[f].ref # Nil =>
       /\ code[f].ref \in registry
       /\ \A i \in 0..Len(suspended) : code[f].ref # FrameAt(i).ref
       /\ \A g \in Fns : g # f => code[f].ref # code[g].ref

RefInv ==
  /\ FramesRef
  /\ FramesApart
  /\ \A f \in Fns : CodeRef(f)
=============================================================================
