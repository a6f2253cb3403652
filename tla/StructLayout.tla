---------------------------- MODULE StructLayout ----------------------------
(***************************************************************************)
(* Where the members of a struct or union lie, and how bitfields are read  *)
(* and written (parser.c calculate_member_position as compiled with GCC    *)
(* for anything but OS X, calculate_struct_offsets; ffi.c set_value and    *)
(* cdata_index).                                                           *)
(*                                                                         *)
(* A record is laid out member by member; then an object of it is written. *)
(* Memory is the set of bits that are 1, bit b of byte n being 8 * n + b,  *)
(* and a uint64_t is a subset of 0..63.  A shift by 64 or more is          *)
(* undefined: the processor reduces the count, a constant folded by the    *)
(* compiler gives 0; both are in ShiftedOne.                               *)
(***************************************************************************)
EXTENDS Integers, Sequences

CONSTANTS
  Members,     \* what may be declared, see Declaration
  Values,      \* what is written to members, as sets of bits
  MaxMembers   \* bound: members of the record

\* mt as parse_struct leaves it: base_size and align_mask of its type, already
\* limited by pragma pack and attributes.
Declaration == [size : Nat \ {0}, align : Nat, bitfield : BOOLEAN,
                bits : 0..64, named : BOOLEAN, packed : BOOLEAN]

ASSUME StructLayoutAssumption ==
  /\ Members \subseteq Declaration
  /\ \A m \in Members : m.bits <= 8 * m.size /\ m.align < m.size
  /\ \A m \in Members : m.packed => m.align = 0
  /\ \A v \in Values : v \subseteq 0..63
  /\ MaxMembers \in Nat

VARIABLES
  kind,    \* "struct" or "union"
  ct,      \* the record so far: base_size, bits used behind it, align_mask
  mts,     \* its members so far, with offset and bit_offset
  done,    \* the closing brace was read, an object exists
  mem,     \* the bits of the object, and of what follows it
  vals     \* per member: what was last written to it

vars == <<kind, ct, mts, done, mem, vals>>

-----------------------------------------------------------------------------
(* Layout. *)

AlignUp(n, mask) == ((n + mask) \div (mask + 1)) * (mask + 1)

\* Mutant: whole bytes only, the last one is lost.
WholeBytes(bits) == bits \div 8

BytesFor(bits) == (bits + 7) \div 8

Larger(a, b) == IF a > b THEN a ELSE b

\* The current bytes are closed, and the next member starts on its boundary.
Realigned(c, m) ==
  [c EXCEPT !.size = AlignUp(c.size + BytesFor(c.bit), m.align), !.bit = 0]

\* bits_used + bit_size > base_size * CHAR_BIT
Crosses(c, m) ==
  (c.size % (m.align + 1)) * 8 + c.bit + m.bits > m.size * 8

NeedsRealign(c, m) == ~m.packed /\ (m.bits = 0 \/ Crosses(c, m))

Start(c, m) ==
  IF m.bitfield THEN IF NeedsRealign(c, m) THEN Realigned(c, m) ELSE c
                ELSE Realigned(c, m)

\* Unnamed bitfields do not align the record.
AlignOf(m) == IF m.bitfield /\ ~m.named THEN 0 ELSE m.align

After(c, m) ==
  LET s    == Start(c, m)
      bits == s.bit + m.bits
  IN  [size  |-> s.size + (IF m.bitfield THEN bits \div 8 ELSE m.size),
       bit   |-> IF m.bitfield THEN bits % 8 ELSE 0,
       align |-> Larger(c.align, AlignOf(m))]

\* A bitfield in a union counts as the bytes of its alignment, not of its bits.
UnionSize(m) == IF m.bitfield THEN m.align + 1 ELSE m.size

Placed(m, offset, bit) == [m |-> m, offset |-> offset, bit |-> bit]

\* calculate_member_position on the next member.
AddMember(m) ==
  /\ ~done
  /\ Len(mts) < MaxMembers
  /\ ~(m.bitfield /\ m.named /\ m.bits = 0 /\ kind = "struct")  \* an error
  /\ IF kind = "union"
       THEN /\ mts' = Append(mts, Placed(m, 0, 0))
            /\ ct' = [ct EXCEPT !.size = Larger(@, UnionSize(m)),
                                !.align = Larger(@, m.align)]
       ELSE /\ mts' = Append(mts, Placed(m, Start(ct, m).size, Start(ct, m).bit))
            /\ ct' = After(ct, m)
  /\ UNCHANGED <<kind, done, mem, vals>>

\* Mutant: the size is not rounded up.
Unrounded(c) == [c EXCEPT !.size = Larger(1, c.size + BytesFor(c.bit)), !.bit = 0]

\* The end of calculate_struct_offsets; only void has size 0.
Finished(c) ==
  [c EXCEPT !.size = AlignUp(Larger(1, c.size + BytesFor(c.bit)), c.align), !.bit = 0]

Finish ==
  /\ ~done
  /\ mts # <<>>
  /\ ct' = Finished(ct)
  /\ done' = TRUE
  /\ vals' = [i \in 1..Len(mts) |-> {}]
  /\ UNCHANGED <<kind, mts, mem>>

-----------------------------------------------------------------------------
(* Access. *)

\* UINT64_C(1) << n
ShiftedOne(n) == IF n < 64 THEN {{n}} ELSE {{n - 64}, {}}

\* 0 - w and w - 1, for w zero or a power of two.
Negated(w)  == IF w = {} THEN {} ELSE (CHOOSE b \in w : TRUE)..63
MinusOne(w) == IF w = {} THEN 0..63 ELSE 0..((CHOOSE b \in w : TRUE) - 1)

\* The eight bytes at a member, which may reach into the next ones.
Word(x)   == {b \in 0..63 : 8 * x.offset + b \in mem}
WithWord(x, w) ==
  {b \in mem : b < 8 * x.offset \/ b >= 8 * x.offset + 64}
    \cup {8 * x.offset + b : b \in w}

\* Mutant: the bits below the field are not kept.
KeepAbove(x, hi) == Negated(hi)

\* hi_mask | low_mask
Keep(x, hi) == Negated(hi) \cup 0..(x.bit - 1)

\* set_value on a bitfield.
SetBits(i, v) ==
  LET x == mts[i] IN
  /\ done
  /\ x.m.bitfield /\ x.m.named
  /\ \E hi \in ShiftedOne(x.bit + x.m.bits), one \in ShiftedOne(x.m.bits) :
       LET val == {b + x.bit : b \in v \cap MinusOne(one)} \cap 0..63
       IN  mem' = WithWord(x, val \cup (Word(x) \cap Keep(x, hi)))
  /\ vals' = [vals EXCEPT ![i] = {b \in v : b < x.m.bits}]
  /\ UNCHANGED <<kind, ct, mts, done>>

\* set_value on any other member.
SetPlain(i, v) ==
  LET x == mts[i]
      own == 8 * x.offset .. (8 * (x.offset + x.m.size) - 1)
  IN
  /\ done
  /\ ~x.m.bitfield
  /\ mem' = (mem \ own) \cup ({8 * x.offset + b : b \in v} \cap own)
  /\ vals' = [vals EXCEPT ![i] = {b \in v : b < 8 * x.m.size}]
  /\ UNCHANGED <<kind, ct, mts, done>>

\* cdata_index on a bitfield: what it can return.
Read(x) ==
  {{b - x.bit : b \in {c \in Word(x) : c >= x.bit}} \cap MinusOne(one) :
     one \in ShiftedOne(x.m.bits)}

-----------------------------------------------------------------------------
Init ==
  /\ kind \in {"struct", "union"}
  /\ ct = [size |-> 0, bit |-> 0, align |-> 0]
  /\ mts = <<>>
  /\ done = FALSE
  /\ mem = {}
  /\ vals = <<>>

Next ==
  \/ \E m \in Members : AddMember(m)
  \/ Finish
  \/ \E i \in 1..Len(mts), v \in Values : SetBits(i, v) \/ SetPlain(i, v)

Spec == Init /\ [][Next]_vars

-----------------------------------------------------------------------------
(* Properties. *)

TypeOK ==
  /\ kind \in {"struct", "union"}
  /\ ct \in [size : Nat, bit : 0..7, align : Nat]
  /\ mts \in Seq([m : Members, offset : Nat, bit : 0..7])
  /\ done \in BOOLEAN
  /\ mem \subseteq Nat
  /\ vals \in Seq(SUBSET (0..63))

\* The bits of a member, counted from the start of the record.
From(x) == 8 * x.offset + x.bit
Upto(x) == From(x) + (IF x.m.bitfield THEN x.m.bits ELSE 8 * x.m.size)

\* The members of a struct lie one behind the other, none over another.
NoOverlap ==
  kind = "struct" =>
    \A i, j \in 1..Len(mts) : i < j => Upto(mts[i]) <= From(mts[j])

\* A member with the alignment of its type.
Natural(x) == x.m.align + 1 = x.m.size

\* The size of the record covers its members and is a multiple of its
\* alignment.  (Not those of a union with bitfields of a reduced alignment.)
SizeCovers ==
  done =>
    /\ ct.size % (ct.align + 1) = 0
    /\ \A i \in 1..Len(mts) :
         kind = "struct" \/ Natural(mts[i]) => Upto(mts[i]) <= 8 * ct.size

\* A member of a struct reads back what was last written to it, whatever was
\* written to others since, as long as it ends before the last bit of the
\* eight bytes it is accessed with.
Kept ==
  done /\ kind = "struct" =>
    \A i \in 1..Len(mts) :
      LET x == mts[i] IN
      IF x.m.bitfield THEN x.m.named /\ x.bit + x.m.bits < 64 => Read(x) = {vals[i]}
                      ELSE {b \in 0..(8 * x.m.size - 1) : 8 * x.offset + b \in mem} = vals[i]

\* push_cdata rounds objects with bitfields up to eight bytes, so that the
\* accesses stay in the object.
AccessInObject ==
  done => \A i \in 1..Len(mts) :
    mts[i].m.bitfield /\ mts[i].m.named => mts[i].offset + 8 <= AlignUp(ct.size, 7)

-----------------------------------------------------------------------------
(* The inductive invariant. *)

\* The next member of a struct begins behind all others; a union has room for
\* each that has the alignment of its type.
Cursor(c) == 8 * c.size + c.bit
RoomSoFar ==
  ~done => \A i \in 1..Len(mts) :
    IF kind = "struct" THEN Upto(mts[i]) <= Cursor(ct)
                       ELSE Natural(mts[i]) => Upto(mts[i]) <= 8 * ct.size

\* Only bitfields begin inside of a byte.
OnBytes == \A i \in 1..Len(mts) : mts[i].m.bitfield \/ mts[i].bit = 0

\* The bits of a member, counted from its start.
Stored(x, bits) == {b \in 0..(Upto(x) - From(x) - 1) : From(x) + b \in bits}
Readable(x) == x.m.bitfield => x.m.named /\ x.bit + x.m.bits < 64
MemoryCurrent ==
  IF done THEN /\ Len(vals) = Len(mts)
               /\ kind = "struct" =>
                    \A i \in 1..Len(mts) : Readable(mts[i]) => Stored(mts[i], mem) = vals[i]
          ELSE mem = {}

IInv ==
  /\ TypeOK /\ RoomSoFar /\ OnBytes /\ MemoryCurrent
  /\ NoOverlap /\ SizeCovers
=============================================================================
