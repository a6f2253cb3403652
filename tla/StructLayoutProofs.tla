-------------------------- MODULE StructLayoutProofs --------------------------
(***************************************************************************)
(* Proofs about the layout of records and the access to bitfields: for any *)
(* members, of any sizes, alignments and widths, and any number of them.   *)
(***************************************************************************)
EXTENDS StructLayout, SequenceTheorems, TLAPS

Sizes  == [size : Nat, bit : 0..7, align : Nat]
Placings == [m : Members, offset : Nat, bit : 0..7]

-----------------------------------------------------------------------------
(* Arithmetic *)

LEMMA Division ==
  ASSUME NEW n \in Nat, NEW k \in Nat \ {0}
  PROVE  /\ n = k * (n \div k) + (n % k)
         /\ n % k \in 0..(k - 1) /\ n \div k \in Nat
OBVIOUS

LEMMA Multiple ==
  ASSUME NEW n \in Nat, NEW k \in Nat \ {0}
  PROVE  (n * k) % k = 0
OBVIOUS

\* ALIGN_UP gives a multiple of the alignment, and not less than it is given.
LEMMA AlignUpFacts ==
  ASSUME NEW n \in Nat, NEW mask \in Nat
  PROVE  /\ AlignUp(n, mask) \in Nat /\ AlignUp(n, mask) >= n
         /\ AlignUp(n, mask) % (mask + 1) = 0
<1>1. PICK k \in Nat \ {0} : k = mask + 1
  OBVIOUS
<1>2. PICK s \in Nat : s = n + mask
  OBVIOUS
<1>3. PICK q \in Nat, r \in 0..(k - 1) : q = s \div k /\ s = k * q + r
  BY Division
<1>4. AlignUp(n, mask) = q * k /\ q * k = k * q /\ q * k \in Nat
  BY <1>1, <1>2, <1>3 DEF AlignUp
<1>5. q * k >= n
  BY <1>1, <1>2, <1>3, <1>4
<1> QED BY <1>1, <1>4, <1>5, Multiple

\* The bytes of the bits behind base_size.
LEMMA BytesForFacts ==
  ASSUME NEW n \in 0..7
  PROVE  BytesFor(n) \in Nat /\ 8 * BytesFor(n) >= n
BY DEF BytesFor

-----------------------------------------------------------------------------
(* Where members are placed *)

LEMMA MemberFacts ==
  ASSUME NEW m \in Members
  PROVE  /\ m.size \in Nat \ {0} /\ m.align \in Nat /\ m.bits \in 0..64
         /\ m.bitfield \in BOOLEAN /\ m.named \in BOOLEAN /\ m.packed \in BOOLEAN
         /\ m.bits <= 8 * m.size /\ m.align < m.size
BY StructLayoutAssumption DEF Declaration

LEMMA RealignedFacts ==
  ASSUME NEW c \in Sizes, NEW m \in Members
  PROVE  /\ Realigned(c, m) \in Sizes /\ Realigned(c, m).bit = 0
         /\ Realigned(c, m).align = c.align
         /\ Cursor(Realigned(c, m)) >= Cursor(c)
<1>1. c.size \in Nat /\ c.bit \in 0..7 /\ c.align \in Nat /\ m.align \in Nat
  BY MemberFacts DEF Sizes
<1>2. BytesFor(c.bit) \in Nat /\ 8 * BytesFor(c.bit) >= c.bit
  BY <1>1, BytesForFacts
<1>3. PICK n \in Nat : n = c.size + BytesFor(c.bit)
  BY <1>1, <1>2
<1>4. PICK a \in Nat : a = AlignUp(n, m.align) /\ a >= n
  BY <1>1, AlignUpFacts
<1>5. Realigned(c, m) = [c EXCEPT !.size = a, !.bit = 0]
  BY <1>3, <1>4 DEF Realigned
<1>6. Realigned(c, m) \in Sizes /\ Realigned(c, m).size = a /\ Realigned(c, m).bit = 0
      /\ Realigned(c, m).align = c.align
  <2>1. 0 \in 0..7
    OBVIOUS
  <2>2. [c EXCEPT !.size = a, !.bit = 0] \in Sizes
    BY <2>1 DEF Sizes
  <2>3. DOMAIN c = {"size", "bit", "align"}
    BY DEF Sizes
  <2>4. [c EXCEPT !.size = a, !.bit = 0].size = a /\ [c EXCEPT !.size = a, !.bit = 0].bit = 0
        /\ [c EXCEPT !.size = a, !.bit = 0].align = c.align
    BY <2>3
  <2> QED BY <1>5, <2>2, <2>4
<1> QED BY <1>1, <1>2, <1>3, <1>4, <1>6 DEF Cursor

\* The next member starts where the last one ends, or behind it; on a byte
\* boundary when it is no bitfield.
LEMMA StartFacts ==
  ASSUME NEW c \in Sizes, NEW m \in Members
  PROVE  /\ Start(c, m) \in Sizes /\ Start(c, m).align = c.align
         /\ Cursor(Start(c, m)) >= Cursor(c)
         /\ ~m.bitfield => Start(c, m).bit = 0
<1>1. Cursor(c) \in Nat
  BY DEF Cursor, Sizes
<1> QED BY <1>1, RealignedFacts DEF Start

\* What follows begins where the member ends.
LEMMA AfterFacts ==
  ASSUME NEW c \in Sizes, NEW m \in Members
  PROVE  /\ After(c, m) \in Sizes
         /\ Cursor(After(c, m)) = Upto(Placed(m, Start(c, m).size, Start(c, m).bit))
<1>1. PICK s \in Sizes : s = Start(c, m) /\ (~m.bitfield => s.bit = 0)
  BY StartFacts
<1>2. s.size \in Nat /\ s.bit \in 0..7 /\ c.align \in Nat
  BY DEF Sizes
<1>3. Larger(c.align, AlignOf(m)) \in Nat
  BY <1>2, MemberFacts DEF Larger, AlignOf
<1>4. Upto(Placed(m, s.size, s.bit)) =
        8 * s.size + s.bit + (IF m.bitfield THEN m.bits ELSE 8 * m.size)
  BY DEF Upto, From, Placed
<1>5. CASE m.bitfield
  <2>1. PICK bits \in Nat : bits = s.bit + m.bits
    BY <1>2, MemberFacts
  <2>2. bits = 8 * (bits \div 8) + (bits % 8) /\ bits % 8 \in 0..7 /\ bits \div 8 \in Nat
    BY Division
  <2>3. After(c, m) = [size |-> s.size + (bits \div 8), bit |-> bits % 8,
                       align |-> Larger(c.align, AlignOf(m))]
    BY <1>1, <1>5, <2>1 DEF After
  <2>4. After(c, m) \in Sizes
    BY <1>2, <1>3, <2>2, <2>3 DEF Sizes
  <2>5. Cursor(After(c, m)) = 8 * (s.size + (bits \div 8)) + (bits % 8)
    BY <2>3 DEF Cursor
  <2>6. Cursor(After(c, m)) = 8 * s.size + bits
    BY <1>2, <2>2, <2>5
  <2>7. 8 * s.size + bits = 8 * s.size + s.bit + m.bits
    BY <1>2, <2>1, MemberFacts
  <2> QED BY <1>1, <1>4, <1>5, <2>4, <2>6, <2>7
<1>6. CASE ~m.bitfield
  <2>1. After(c, m) = [size |-> s.size + m.size, bit |-> 0, align |-> Larger(c.align, AlignOf(m))]
    BY <1>1, <1>6 DEF After
  <2> QED BY <1>1, <1>2, <1>3, <1>4, <1>6, <2>1, MemberFacts DEF Sizes, Cursor
<1> QED BY <1>5, <1>6

\* The end of a record: its size is a multiple of its alignment, and covers all
\* that was placed.
LEMMA FinishedFacts ==
  ASSUME NEW c \in Sizes
  PROVE  /\ Finished(c) \in Sizes
         /\ Finished(c).size % (Finished(c).align + 1) = 0
         /\ Finished(c).size >= c.size /\ 8 * Finished(c).size >= Cursor(c)
<1>1. c.size \in Nat /\ c.bit \in 0..7 /\ c.align \in Nat
  BY DEF Sizes
<1>2. BytesFor(c.bit) \in Nat /\ 8 * BytesFor(c.bit) >= c.bit
  BY <1>1, BytesForFacts
<1>3. PICK n \in Nat : /\ n = Larger(1, c.size + BytesFor(c.bit))
                       /\ n >= c.size + BytesFor(c.bit)
  <2>1. PICK k \in Nat : k = c.size + BytesFor(c.bit)
    BY <1>1, <1>2
  <2>2. Larger(1, k) \in Nat /\ Larger(1, k) >= k
    BY DEF Larger
  <2> QED BY <2>1, <2>2
<1>4. PICK a \in Nat : a = AlignUp(n, c.align) /\ a >= n /\ a % (c.align + 1) = 0
  BY <1>1, <1>3, AlignUpFacts
<1>5. Finished(c) = [c EXCEPT !.size = a, !.bit = 0]
  BY <1>3, <1>4 DEF Finished
<1>6. Finished(c) \in Sizes /\ Finished(c).size = a /\ Finished(c).align = c.align
  <2>1. 0 \in 0..7
    OBVIOUS
  <2>2. [c EXCEPT !.size = a, !.bit = 0] \in Sizes
    BY <2>1 DEF Sizes
  <2>3. DOMAIN c = {"size", "bit", "align"}
    BY DEF Sizes
  <2>4. [c EXCEPT !.size = a, !.bit = 0].size = a /\ [c EXCEPT !.size = a, !.bit = 0].bit = 0
        /\ [c EXCEPT !.size = a, !.bit = 0].align = c.align
    BY <2>3
  <2> QED BY <1>5, <2>2, <2>4
<1> QED BY <1>1, <1>2, <1>3, <1>4, <1>6 DEF Cursor

\* The bits of a member.
LEMMA PlacingFacts ==
  ASSUME NEW x \in Placings
  PROVE  /\ x.m \in Members /\ x.offset \in Nat /\ x.bit \in 0..7
         /\ From(x) \in Nat /\ Upto(x) \in Nat /\ Upto(x) >= From(x)
         /\ Upto(x) - From(x) = IF x.m.bitfield THEN x.m.bits ELSE 8 * x.m.size
<1>1. x.m \in Members /\ x.offset \in Nat /\ x.bit \in 0..7
  BY DEF Placings
<1>2. From(x) \in Nat
  BY <1>1 DEF From
<1>3. PICK w \in Nat : w = IF x.m.bitfield THEN x.m.bits ELSE 8 * x.m.size
  BY <1>1, MemberFacts
<1>4. Upto(x) = From(x) + w
  BY <1>3 DEF Upto
<1> QED BY <1>1, <1>2, <1>3, <1>4

-----------------------------------------------------------------------------
(* Access *)

LEMMA ChooseOne == \A n : (CHOOSE b \in {n} : TRUE) = n
OBVIOUS

\* 1 << n, as far as it is defined.
LEMMA ShiftFacts ==
  ASSUME NEW n \in 0..63
  PROVE  /\ ShiftedOne(n) = {{n}}
         /\ Negated({n}) = n..63 /\ MinusOne({n}) = 0..(n - 1)
BY ChooseOne DEF ShiftedOne, Negated, MinusOne

\* The eight bytes at bit o of memory become w.
WordStep(m0, m1, o, w) ==
  \A b : b \in m1 <=> (b \in m0 /\ (b < o \/ b >= o + 64)) \/ \E c \in w : b = o + c

LEMMA WordWritten ==
  ASSUME NEW o \in Nat, NEW m0 \in SUBSET Nat, NEW w \in SUBSET (0..63), NEW m1,
         WordStep(m0, m1, o, w)
  PROVE  /\ m1 \subseteq Nat
         /\ \A b \in Nat : b < o \/ b >= o + 64 => (b \in m1 <=> b \in m0)
         /\ \A c \in 0..63 : o + c \in m1 <=> c \in w
<1>1. \A c \in w : c \in Nat /\ o + c \in Nat /\ o + c >= o /\ o + c < o + 64
  <2> SUFFICES ASSUME NEW c \in w PROVE c \in Nat /\ o + c \in Nat /\ o + c >= o /\ o + c < o + 64
    OBVIOUS
  <2>1. c \in 0..63
    OBVIOUS
  <2> QED BY <2>1
<1>2. ASSUME NEW c \in 0..63 PROVE o + c \in m1 <=> c \in w
  <2>1. ~(o + c < o) /\ ~(o + c >= o + 64)
    OBVIOUS
  <2>2. \A d \in w : o + d = o + c => d = c
    BY <1>1
  <2> QED BY <2>1, <2>2 DEF WordStep
<1>3. m1 \subseteq Nat
  BY <1>1 DEF WordStep
<1>4. ASSUME NEW b \in Nat, b < o \/ b >= o + 64 PROVE b \in m1 <=> b \in m0
  BY <1>1, <1>4 DEF WordStep
<1> QED BY <1>2, <1>3, <1>4

\* What set_value writes to a bitfield of w bits at bit p of the word: its own
\* bits (val), and those of the word that it keeps.
FieldStep(m0, m1, o, val, keep) ==
  \A b : b \in m1 <=>
    \/ b \in m0 /\ (b < o \/ b >= o + 64)
    \/ \E c \in 0..63 : b = o + c /\ (c \in val \/ (o + c \in m0 /\ c \in keep))

FieldMasks(p, w, val, keep) ==
  /\ val \subseteq p..63
  /\ w < 64 => \A c \in val : c < p + w
  /\ \A c \in 0..(p - 1) : c \in keep
  /\ p + w < 64 => \A c \in (p + w)..63 : c \in keep

FieldResult(m0, m1, o, p, w, val, keep) ==
  /\ m1 \subseteq Nat
  /\ \A b \in Nat : b < o + p \/ b >= o + p + w => (b \in m1 <=> b \in m0)
  /\ \A c \in 0..63 : o + c \in m1 <=> c \in val \/ (o + c \in m0 /\ c \in keep)

LEMMA FieldWritten ==
  ASSUME NEW o \in Nat, NEW p \in 0..7, NEW w \in 0..64,
         NEW m0 \in SUBSET Nat, NEW m1, NEW val, NEW keep,
         FieldMasks(p, w, val, keep), FieldStep(m0, m1, o, val, keep)
  PROVE  FieldResult(m0, m1, o, p, w, val, keep)
<1>1. PICK word \in SUBSET (0..63) : word = val \cup ({c \in 0..63 : o + c \in m0} \cap keep)
  <2>1. val \subseteq 0..63
    <3>1. \A c \in p..63 : c \in 0..63
      OBVIOUS
    <3> QED BY <3>1 DEF FieldMasks
  <2> QED BY <2>1
<1>2. /\ m1 \subseteq Nat
      /\ \A b \in Nat : b < o \/ b >= o + 64 => (b \in m1 <=> b \in m0)
      /\ \A c \in 0..63 : o + c \in m1 <=> c \in word
  <2>1. WordStep(m0, m1, o, word)
    BY <1>1 DEF WordStep, FieldStep
  <2> QED BY <2>1, WordWritten
<1>3. \A c \in 0..63 : o + c \in m1 <=> c \in val \/ (o + c \in m0 /\ c \in keep)
  BY <1>1, <1>2
<1>4. ASSUME NEW b \in Nat, b < o + p \/ b >= o + p + w PROVE b \in m1 <=> b \in m0
  <2>1. CASE b < o \/ b >= o + 64
    BY <1>2, <2>1
  <2>2. CASE ~(b < o \/ b >= o + 64)
    <3>1. PICK c \in Int : c = b - o
      OBVIOUS
    <3>2. c \in 0..63 /\ b = o + c
      BY <2>2, <3>1
    <3>3. c < p \/ (p + w <= c /\ p + w < 64)
      BY <1>4, <3>2
    <3>4. c \notin val
      <4>1. CASE c < p
        <5>1. c \notin p..63
          BY <4>1, <3>2
        <5> QED BY <5>1 DEF FieldMasks
      <4>2. CASE p + w <= c /\ p + w < 64
        <5>1. w < 64 /\ ~(c < p + w)
          BY <4>2, <3>2
        <5> QED BY <5>1 DEF FieldMasks
      <4> QED BY <3>3, <4>1, <4>2
    <3>5. c \in keep
      <4>1. c \in 0..(p - 1) \/ (p + w < 64 /\ c \in (p + w)..63)
        BY <3>2, <3>3
      <4> QED BY <4>1 DEF FieldMasks
    <3> QED BY <1>3, <3>2, <3>4, <3>5
  <2> QED BY <2>1, <2>2
<1> QED BY <1>2, <1>3, <1>4 DEF FieldResult

\* set_value on a bitfield writes no bit of any other member; the bits of the
\* field become those of the value, when a shift by its end is defined.
BitsStep(x, v) ==
  \E hi \in ShiftedOne(x.bit + x.m.bits), one \in ShiftedOne(x.m.bits) :
    mem' = WithWord(x, ({b + x.bit : b \in v \cap MinusOne(one)} \cap 0..63)
                         \cup (Word(x) \cap Keep(x, hi)))

LEMMA BitsWritten ==
  ASSUME NEW x \in Placings, x.m.bitfield, mem \subseteq Nat,
         NEW v \in SUBSET (0..63), BitsStep(x, v)
  PROVE  /\ mem' \subseteq Nat
         /\ \A b \in Nat : b < From(x) \/ b >= Upto(x) => (b \in mem' <=> b \in mem)
         /\ x.bit + x.m.bits < 64 =>
              \A b \in 0..(x.m.bits - 1) : From(x) + b \in mem' <=> b \in v
<1> PICK hi \in ShiftedOne(x.bit + x.m.bits), one \in ShiftedOne(x.m.bits) :
      mem' = WithWord(x, ({b + x.bit : b \in v \cap MinusOne(one)} \cap 0..63)
                           \cup (Word(x) \cap Keep(x, hi)))
  BY DEF BitsStep
<1>1. PICK o \in Nat, p \in 0..7, w \in 0..64 : o = 8 * x.offset /\ p = x.bit /\ w = x.m.bits
  BY PlacingFacts, MemberFacts
<1>2. From(x) = o + p /\ Upto(x) = o + p + w
  BY <1>1 DEF From, Upto
<1>3. PICK val : val = {b + p : b \in v \cap MinusOne(one)} \cap 0..63
  OBVIOUS
<1>4. PICK keep : keep = Keep(x, hi)
  OBVIOUS
<1>5. mem' = {b \in mem : b < o \/ b >= o + 64}
               \cup {o + c : c \in val \cup ({c \in 0..63 : o + c \in mem} \cap keep)}
  BY <1>1, <1>3, <1>4 DEF WithWord, Word
<1>6. \A c \in val : c \in p..63 /\ \E b \in v \cap MinusOne(one) : c = b + p
  <2> SUFFICES ASSUME NEW c \in val PROVE c \in p..63 /\ \E b \in v \cap MinusOne(one) : c = b + p
    OBVIOUS
  <2>1. PICK b \in v \cap MinusOne(one) : c = b + p
    BY <1>3
  <2>2. b \in 0..63 /\ c \in 0..63
    BY <1>3
  <2>3. c \in p..63
    BY <2>1, <2>2
  <2> QED BY <2>1, <2>3
<1>7. ASSUME w < 64 PROVE MinusOne(one) = 0..(w - 1)
  <2>1. w \in 0..63
    BY <1>7
  <2>2. one = {w}
    BY <1>1, <2>1, ShiftFacts
  <2> QED BY <2>1, <2>2, ShiftFacts
<1>8. w < 64 => \A c \in val : c < p + w
  <2> SUFFICES ASSUME w < 64, NEW c \in val PROVE c < p + w
    OBVIOUS
  <2>1. PICK b \in 0..(w - 1) : c = b + p
    BY <1>6, <1>7
  <2> QED BY <2>1
<1>9. p + w < 64 => keep = ((p + w)..63) \cup 0..(p - 1)
  <2> SUFFICES ASSUME p + w < 64 PROVE keep = ((p + w)..63) \cup 0..(p - 1)
    OBVIOUS
  <2>1. PICK n \in 0..63 : n = p + w
    <3>1. p + w \in 0..63
      OBVIOUS
    <3> QED BY <3>1
  <2>2. hi = {n} /\ Negated({n}) = n..63
    <3>1. ShiftedOne(n) = {{n}} /\ hi \in ShiftedOne(n)
      BY <1>1, <2>1, ShiftFacts
    <3> QED BY <3>1, ShiftFacts
  <2> QED BY <1>1, <1>4, <2>1, <2>2 DEF Keep
<1>10. \A c \in 0..(p - 1) : c \in keep
  BY <1>1, <1>4 DEF Keep
<1>11. /\ mem' \subseteq Nat
       /\ \A b \in Nat : b < o + p \/ b >= o + p + w => (b \in mem' <=> b \in mem)
       /\ \A c \in 0..63 : o + c \in mem' <=> c \in val \/ (o + c \in mem /\ c \in keep)
  <2>1. FieldMasks(p, w, val, keep)
    BY <1>6, <1>8, <1>9, <1>10 DEF FieldMasks
  <2>2. PICK m0, m1 : m0 \in SUBSET Nat /\ m0 = mem /\ m1 = mem'
    OBVIOUS
  <2>3. FieldStep(m0, m1, o, val, keep)
    <3>1. val \subseteq 0..63
      BY <1>3
    <3> QED BY <1>5, <2>2, <3>1 DEF FieldStep
  <2>4. FieldResult(m0, m1, o, p, w, val, keep)
    BY <2>1, <2>2, <2>3, FieldWritten
  <2> QED BY <2>2, <2>4 DEF FieldResult
<1>12. ASSUME p + w < 64, NEW b \in 0..(w - 1) PROVE o + p + b \in mem' <=> b \in v
  <2>1. PICK c \in 0..63 : c = p + b
    <3>1. p + b \in 0..63
      BY <1>12
    <3> QED BY <3>1
  <2>2. c \notin keep
    <3>1. c \notin (p + w)..63 /\ c \notin 0..(p - 1)
      <4>1. b \in Int /\ 0 <= b /\ b < w /\ p \in Int /\ w \in Int
        BY <1>12
      <4>2. c = p + b
        BY <2>1
      <4> QED BY ONLY <4>1, <4>2
    <3> QED BY <1>9, <1>12, <3>1
  <2>3. c \in val <=> b \in v
    <3>1. MinusOne(one) = 0..(w - 1)
      <4>1. w < 64
        BY <1>12
      <4> QED BY <1>7, <4>1
    <3>2. \A d \in 0..63 : c = d + p => d = b
      BY <2>1
    <3>3. c = b + p
      BY <2>1
    <3> QED BY <1>3, <3>1, <3>2, <3>3
  <2>4. o + c = o + p + b
    BY <2>1
  <2> QED BY <1>11, <2>2, <2>3, <2>4
<1> QED BY <1>1, <1>2, <1>11, <1>12

\* set_value on another member writes its bytes, and no others.
BytesStep(m0, m1, o, w, v) ==
  \A b : b \in m1 <=> IF b \in o..(o + w - 1) THEN \E c \in v : b = o + c ELSE b \in m0

LEMMA BytesWritten ==
  ASSUME NEW o \in Nat, NEW w \in Nat, NEW m0 \in SUBSET Nat, NEW m1, NEW v \in SUBSET Nat,
         BytesStep(m0, m1, o, w, v)
  PROVE  /\ m1 \subseteq Nat
         /\ \A b \in Nat : b < o \/ b >= o + w => (b \in m1 <=> b \in m0)
         /\ \A b \in 0..(w - 1) : o + b \in m1 <=> b \in v
<1>1. \A b \in o..(o + w - 1) : b \in Nat
  OBVIOUS
<1>2. \A b \in Nat : b < o \/ b >= o + w => b \notin o..(o + w - 1)
  OBVIOUS
<1>3. ASSUME NEW b \in 0..(w - 1) PROVE o + b \in m1 <=> b \in v
  <2>1. o + b \in o..(o + w - 1)
    OBVIOUS
  <2>2. \A c \in v : o + c = o + b => c = b
    OBVIOUS
  <2> QED BY <2>1, <2>2 DEF BytesStep
<1> QED BY <1>1, <1>2, <1>3 DEF BytesStep

PlainStep(x, v) ==
  LET own == 8 * x.offset .. (8 * (x.offset + x.m.size) - 1) IN
  mem' = (mem \ own) \cup ({8 * x.offset + b : b \in v} \cap own)

LEMMA PlainWritten ==
  ASSUME NEW x \in Placings, ~x.m.bitfield, x.bit = 0, mem \subseteq Nat,
         NEW v \in SUBSET (0..63), PlainStep(x, v)
  PROVE  /\ mem' \subseteq Nat
         /\ \A b \in Nat : b < From(x) \/ b >= Upto(x) => (b \in mem' <=> b \in mem)
         /\ \A b \in 0..(8 * x.m.size - 1) : From(x) + b \in mem' <=> b \in v
<1>1. PICK o \in Nat, w \in Nat : o = 8 * x.offset /\ w = 8 * x.m.size
  BY PlacingFacts, MemberFacts
<1>2. From(x) = o /\ Upto(x) = o + w
  BY <1>1 DEF From, Upto
<1>3. 8 * (x.offset + x.m.size) - 1 = o + w - 1
  <2>1. PICK a \in Nat, b \in Nat : a = x.offset /\ b = x.m.size
    BY PlacingFacts, MemberFacts
  <2>2. o = 8 * a /\ w = 8 * b
    BY <1>1, <2>1
  <2>3. 8 * (a + b) - 1 = o + w - 1
    BY <2>2
  <2> QED BY <2>1, <2>3
<1>4. mem' = (mem \ (o..(o + w - 1))) \cup ({o + b : b \in v} \cap (o..(o + w - 1)))
  BY <1>1, <1>3 DEF PlainStep
<1>5. v \in SUBSET Nat
  <2>1. \A b \in 0..63 : b \in Nat
    OBVIOUS
  <2> QED BY <2>1
<1>6. PICK m0, m1 : m0 \in SUBSET Nat /\ m0 = mem /\ m1 = mem'
  OBVIOUS
<1>7. /\ m1 \subseteq Nat
      /\ \A b \in Nat : b < o \/ b >= o + w => (b \in m1 <=> b \in m0)
      /\ \A b \in 0..(w - 1) : o + b \in m1 <=> b \in v
  <2>1. BytesStep(m0, m1, o, w, v)
    BY <1>4, <1>6 DEF BytesStep
  <2>2. PICK u \in SUBSET Nat : u = v
    BY <1>5
  <2>3. BytesStep(m0, m1, o, w, u)
    BY <2>1, <2>2
  <2>4. /\ m1 \subseteq Nat
        /\ \A b \in Nat : b < o \/ b >= o + w => (b \in m1 <=> b \in m0)
        /\ \A b \in 0..(w - 1) : o + b \in m1 <=> b \in u
    BY ONLY <1>6, <2>3, BytesWritten, o \in Nat, w \in Nat, u \in SUBSET Nat
  <2> QED BY <2>2, <2>4
<1> QED BY <1>1, <1>2, <1>6, <1>7

\* cdata_index gives the bits of the field.
LEMMA BitsRead ==
  ASSUME NEW x \in Placings, x.m.bitfield, x.bit + x.m.bits < 64
  PROVE  Read(x) = {Stored(x, mem)}
<1>1. PICK o \in Nat, p \in 0..7, w \in 0..63 : o = 8 * x.offset /\ p = x.bit /\ w = x.m.bits
  BY PlacingFacts, MemberFacts
<1>2. Word(x) = {c \in 0..63 : o + c \in mem}
  BY <1>1 DEF Word
<1>3. Stored(x, mem) = {b \in 0..(w - 1) : o + p + b \in mem}
  <2>1. Upto(x) - From(x) = w /\ From(x) = o + p
    BY <1>1, PlacingFacts DEF From
  <2> QED BY <2>1 DEF Stored
<1>4. Read(x) = {{b - p : b \in {c \in Word(x) : c >= p}} \cap 0..(w - 1)}
  <2>1. ShiftedOne(w) = {{w}} /\ MinusOne({w}) = 0..(w - 1)
    BY ShiftFacts
  <2> QED BY <1>1, <2>1 DEF Read
<1>5. {b - p : b \in {c \in Word(x) : c >= p}} \cap 0..(w - 1) = Stored(x, mem)
  <2>1. ASSUME NEW b \in 0..(w - 1)
        PROVE  b \in {c - p : c \in {c \in Word(x) : c >= p}} <=> o + p + b \in mem
    <3>1. p + b \in 0..63 /\ p + b >= p /\ b = (p + b) - p /\ o + (p + b) = o + p + b
      BY <1>1
    <3>2. \A c \in Word(x) : b = c - p => c = p + b
      BY <1>1, <1>2
    <3> QED BY <1>2, <3>1, <3>2
  <2> QED BY <1>3, <2>1
<1> QED BY <1>4, <1>5

-----------------------------------------------------------------------------
(* The inductive invariant *)

LayoutInv ==
  /\ kind \in {"struct", "union"} /\ done \in BOOLEAN
  /\ ct \in Sizes /\ mts \in Seq(Placings)
  /\ RoomSoFar /\ OnBytes /\ NoOverlap /\ SizeCovers

MemoryInv ==
  /\ mem \subseteq Nat /\ vals \in Seq(SUBSET (0..63))
  /\ MemoryCurrent

LEMMA Parts == IInv <=> LayoutInv /\ MemoryInv
BY DEF IInv, TypeOK, LayoutInv, MemoryInv, Sizes, Placings

LEMMA CursorFacts ==
  ASSUME NEW c \in Sizes
  PROVE  c.size \in Nat /\ Cursor(c) \in Nat
BY DEF Sizes, Cursor

\* A member is placed behind the ones there are.
LEMMA MemberAdded ==
  ASSUME LayoutInv, ~done, NEW x \in Placings, mts' = Append(mts, x),
         UNCHANGED <<kind, done>>, ct' \in Sizes, x.m.bitfield \/ x.bit = 0,
         kind = "struct" => Cursor(ct) <= From(x) /\ Cursor(ct') = Upto(x),
         kind = "union" => /\ ct.size <= ct'.size
                           /\ Natural(x) => Upto(x) <= 8 * ct'.size
  PROVE  LayoutInv'
<1>1. mts \in Seq(Placings) /\ Len(mts) \in Nat
  BY DEF LayoutInv
<1>2. PICK n \in Nat : n = Len(mts)
  BY <1>1
<1>3. /\ mts' \in Seq(Placings) /\ Len(mts') = n + 1 /\ mts'[n + 1] = x
      /\ \A i \in 1..n : mts'[i] = mts[i]
  BY <1>1, <1>2
<1>4. \A i \in 1..(n + 1) : i \in 1..n \/ i = n + 1
  BY <1>2
<1>5. Cursor(ct) \in Nat /\ Cursor(ct') \in Nat /\ ct.size \in Nat /\ ct'.size \in Nat
  BY CursorFacts DEF LayoutInv
<1>6. From(x) \in Nat /\ Upto(x) \in Nat /\ From(x) <= Upto(x)
  BY PlacingFacts
<1>7. \A i \in 1..n : /\ Upto(mts[i]) \in Nat
                      /\ kind = "struct" => Upto(mts[i]) <= Cursor(ct)
                      /\ kind = "union" /\ Natural(mts[i]) => Upto(mts[i]) <= 8 * ct.size
  <2> SUFFICES ASSUME NEW i \in 1..n
               PROVE  /\ Upto(mts[i]) \in Nat
                      /\ kind = "struct" => Upto(mts[i]) <= Cursor(ct)
                      /\ kind = "union" /\ Natural(mts[i]) => Upto(mts[i]) <= 8 * ct.size
    OBVIOUS
  <2>1. mts[i] \in Placings
    BY <1>1, <1>2
  <2> QED BY <1>2, <2>1, PlacingFacts DEF LayoutInv, RoomSoFar
<1>8. RoomSoFar'
  <2> SUFFICES ASSUME NEW i \in 1..(n + 1)
               PROVE  IF kind = "struct" THEN Upto(mts'[i]) <= Cursor(ct')
                                         ELSE Natural(mts'[i]) => Upto(mts'[i]) <= 8 * ct'.size
    BY <1>3 DEF RoomSoFar
  <2>0. kind = "struct" \/ kind = "union"
    BY DEF LayoutInv
  <2>1. CASE i \in 1..n
    <3>1. PICK y \in Placings : y = mts'[i] /\ y = mts[i] /\ Upto(y) \in Nat
      BY <1>1, <1>2, <1>3, <1>7, <2>1
    <3>2. CASE kind = "struct"
      <4>1. Upto(y) <= Cursor(ct) /\ Cursor(ct) <= Cursor(ct')
        BY <1>5, <1>6, <1>7, <2>1, <3>1, <3>2
      <4> QED BY <1>5, <3>1, <3>2, <4>1
    <3>3. CASE kind = "union"
      <4>1. Natural(y) => Upto(y) <= 8 * ct.size /\ ct.size <= ct'.size
        BY <1>7, <2>1, <3>1, <3>3
      <4>2. Natural(y) => Upto(y) <= 8 * ct'.size
        BY <1>5, <3>1, <4>1
      <4> QED BY <3>1, <3>3, <4>2
    <3> QED BY <2>0, <3>2, <3>3
  <2>2. CASE i = n + 1
    BY <1>3, <1>5, <1>6, <2>0, <2>2
  <2> QED BY <1>4, <2>1, <2>2
<1>9. OnBytes'
  <2> SUFFICES ASSUME NEW i \in 1..(n + 1) PROVE mts'[i].m.bitfield \/ mts'[i].bit = 0
    BY <1>3 DEF OnBytes
  <2>1. CASE i \in 1..n
    BY <1>2, <1>3, <2>1 DEF LayoutInv, OnBytes
  <2> QED BY <1>3, <1>4, <2>1
<1>10. NoOverlap'
  <2> SUFFICES ASSUME kind = "struct", NEW i \in 1..(n + 1), NEW j \in 1..(n + 1), i < j
               PROVE  Upto(mts'[i]) <= From(mts'[j])
    BY <1>3 DEF NoOverlap
  <2>1. i \in 1..n
    BY <1>2
  <2>2. CASE j \in 1..n
    BY <1>2, <1>3, <2>1, <2>2 DEF LayoutInv, NoOverlap
  <2>3. CASE j = n + 1
    BY <1>3, <1>5, <1>6, <1>7, <2>1, <2>3
  <2> QED BY <1>4, <2>2, <2>3
<1>11. SizeCovers'
  BY DEF SizeCovers
<1> QED BY <1>3, <1>8, <1>9, <1>10, <1>11 DEF LayoutInv

LEMMA AddMemberKeeps ==
  ASSUME LayoutInv, NEW m \in Members, AddMember(m)
  PROVE  LayoutInv'
<1>1. /\ ~done /\ UNCHANGED <<kind, done>> /\ ct \in Sizes
      /\ m.size \in Nat \ {0} /\ m.align \in Nat /\ m.bits \in 0..64 /\ m.bits <= 8 * m.size
  BY MemberFacts DEF AddMember, LayoutInv
<1>2. ASSUME NEW o \in Nat, NEW b \in 0..7
      PROVE  LET x == Placed(m, o, b) IN
             x \in Placings /\ x.m = m /\ x.bit = b /\ From(x) = 8 * o + b
  BY DEF Placed, Placings, From
<1>3. CASE kind = "struct"
  <2>1. PICK s \in Sizes : /\ s = Start(ct, m) /\ Cursor(s) >= Cursor(ct)
                           /\ ~m.bitfield => s.bit = 0
    BY <1>1, StartFacts
  <2>2. s.size \in Nat /\ s.bit \in 0..7
    BY DEF Sizes
  <2>3. PICK x \in Placings : /\ x = Placed(m, s.size, s.bit) /\ x.m = m /\ x.bit = s.bit
                              /\ From(x) = Cursor(s)
    BY <1>2, <2>2 DEF Cursor
  <2>4. ct' \in Sizes /\ Cursor(ct') = Upto(x) /\ mts' = Append(mts, x)
    BY <1>1, <1>3, <2>1, <2>3, AfterFacts DEF AddMember
  <2> QED BY <1>1, <1>3, <2>1, <2>3, <2>4, MemberAdded
<1>4. CASE kind = "union"
  <2>1. PICK x \in Placings : x = Placed(m, 0, 0) /\ x.m = m /\ x.bit = 0 /\ From(x) = 0
    BY <1>2
  <2>2. PICK u \in Nat : u = UnionSize(m)
    BY <1>1 DEF UnionSize
  <2>3. PICK a \in Nat, z \in Nat : /\ z = Larger(ct.size, u) /\ z >= ct.size /\ z >= u
                                    /\ a = Larger(ct.align, m.align)
    BY <1>1 DEF Larger, Sizes
  <2>4. ct' = [ct EXCEPT !.size = z, !.align = a] /\ mts' = Append(mts, x)
    BY <1>1, <1>4, <2>1, <2>2, <2>3 DEF AddMember
  <2>5. ct' \in Sizes /\ ct'.size = z
    BY <1>1, <2>4 DEF Sizes
  <2>6. Natural(x) => Upto(x) <= 8 * u
    BY <1>1, <2>1, <2>2 DEF Natural, Upto, UnionSize
  <2>7. Natural(x) => Upto(x) <= 8 * ct'.size
    BY <2>1, <2>3, <2>5, <2>6, PlacingFacts
  <2> QED BY <1>1, <1>4, <2>1, <2>3, <2>4, <2>5, <2>7, MemberAdded
<1> QED BY <1>3, <1>4 DEF LayoutInv

LEMMA FinishKeeps ==
  ASSUME IInv, Finish
  PROVE  IInv'
<1>1. LayoutInv /\ MemoryInv /\ ~done /\ done' = TRUE /\ UNCHANGED <<kind, mts, mem>>
      /\ ct' = Finished(ct)
  BY Parts DEF Finish
<1>2. /\ ct \in Sizes /\ ct' \in Sizes /\ ct'.size % (ct'.align + 1) = 0
      /\ ct'.size >= ct.size /\ 8 * ct'.size >= Cursor(ct)
  BY <1>1, FinishedFacts DEF LayoutInv
<1>3. SizeCovers'
  <2> SUFFICES ASSUME NEW i \in 1..Len(mts), kind = "struct" \/ Natural(mts[i])
               PROVE  Upto(mts[i]) <= 8 * ct'.size
    BY <1>1, <1>2 DEF SizeCovers
  <2>1. mts[i] \in Placings
    BY <1>1 DEF LayoutInv
  <2>2. Upto(mts[i]) \in Nat /\ ct.size \in Nat /\ ct'.size \in Nat /\ Cursor(ct) \in Nat
    BY <1>2, <2>1, PlacingFacts, CursorFacts
  <2>3. (kind = "struct" /\ Upto(mts[i]) <= Cursor(ct)) \/ Upto(mts[i]) <= 8 * ct.size
    BY <1>1 DEF LayoutInv, RoomSoFar
  <2> QED BY <1>2, <2>2, <2>3
<1>4. LayoutInv'
  BY <1>1, <1>2, <1>3 DEF LayoutInv, RoomSoFar, OnBytes, NoOverlap
<1>5. mem = {}
  BY <1>1 DEF MemoryInv, MemoryCurrent
<1>6. vals' \in Seq(SUBSET (0..63)) /\ Len(vals') = Len(mts) /\ \A i \in 1..Len(mts) : vals'[i] = {}
  <2>1. Len(mts) \in Nat /\ vals' = [i \in 1..Len(mts) |-> {}]
    BY <1>1 DEF Finish, LayoutInv
  <2> QED BY <2>1
<1>7. \A x : Stored(x, mem) = {}
  BY <1>5 DEF Stored
<1>8. MemoryInv'
  BY <1>1, <1>5, <1>6, <1>7 DEF MemoryInv, MemoryCurrent
<1> QED BY <1>4, <1>8 DEF IInv, TypeOK, LayoutInv, MemoryInv, Sizes, Placings

\* A value is written to a member: nothing else changes.
LEMMA ValueWritten ==
  ASSUME IInv, done, NEW i \in 1..Len(mts), UNCHANGED <<kind, ct, mts, done>>,
         mem' \subseteq Nat,
         \A b \in Nat : b < From(mts[i]) \/ b >= Upto(mts[i]) => (b \in mem' <=> b \in mem),
         NEW w \in SUBSET (0..63), vals' = [vals EXCEPT ![i] = w],
         Readable(mts[i]) => Stored(mts[i], mem') = w
  PROVE  IInv'
<1>1. LayoutInv /\ MemoryInv
  BY Parts
<1>2. LayoutInv'
  BY <1>1 DEF LayoutInv, RoomSoFar, OnBytes, NoOverlap, SizeCovers
<1>3. vals \in Seq(SUBSET (0..63)) /\ Len(vals) = Len(mts) /\ mts \in Seq(Placings)
  BY <1>1 DEF LayoutInv, MemoryInv, MemoryCurrent
<1>4. /\ vals' \in Seq(SUBSET (0..63)) /\ Len(vals') = Len(mts)
      /\ vals'[i] = w /\ \A j \in 1..Len(mts) : j # i => vals'[j] = vals[j]
  BY <1>3, ExceptSeq
<1>5. ASSUME kind = "struct", NEW j \in 1..Len(mts), j # i
      PROVE  Stored(mts[j], mem') = Stored(mts[j], mem)
  <2>1. mts[i] \in Placings /\ mts[j] \in Placings
    BY <1>3
  <2>2. PICK x \in Placings, y \in Placings : x = mts[i] /\ y = mts[j]
    BY <2>1
  <2>3. Upto(x) <= From(y) \/ Upto(y) <= From(x)
    <3>1. i < j \/ j < i
      BY <1>3, <1>5
    <3> QED BY <1>1, <1>5, <2>2, <3>1 DEF LayoutInv, NoOverlap
  <2>4. ASSUME NEW b \in 0..(Upto(y) - From(y) - 1) PROVE From(y) + b \in mem' <=> From(y) + b \in mem
    <3>1. /\ From(x) \in Nat /\ Upto(x) \in Nat /\ From(y) \in Nat /\ Upto(y) \in Nat
          /\ From(x) <= Upto(x) /\ From(y) <= Upto(y)
      BY PlacingFacts
    <3>2. From(y) + b \in Nat /\ (From(y) + b < From(x) \/ From(y) + b >= Upto(x))
      BY <2>3, <3>1
    <3> QED BY <2>2, <3>2
  <2> QED BY <2>2, <2>4 DEF Stored
<1>6. MemoryInv'
  <2>1. ASSUME kind = "struct", NEW j \in 1..Len(mts), Readable(mts[j])
        PROVE  Stored(mts[j], mem') = vals'[j]
    BY <1>1, <1>4, <1>5, <2>1 DEF MemoryInv, MemoryCurrent
  <2> QED BY <1>4, <2>1 DEF MemoryInv, MemoryCurrent
<1> QED BY <1>2, <1>6 DEF IInv, TypeOK, LayoutInv, MemoryInv, Sizes, Placings

LEMMA SetBitsKeeps ==
  ASSUME IInv, NEW i \in 1..Len(mts), NEW v \in SUBSET (0..63), SetBits(i, v)
  PROVE  IInv'
<1>1. LayoutInv /\ MemoryInv
  BY Parts
<1>2. PICK x \in Placings : x = mts[i]
  BY <1>1 DEF LayoutInv
<1>3. /\ done /\ x.m.bitfield /\ UNCHANGED <<kind, ct, mts, done>>
      /\ vals' = [vals EXCEPT ![i] = {b \in v : b < x.m.bits}]
  BY <1>2 DEF SetBits
<1>4. BitsStep(x, v)
  <2>1. BitsStep(mts[i], v)
    BY DEF SetBits, BitsStep
  <2> QED BY <1>2, <2>1
<1>5. /\ mem' \subseteq Nat
      /\ \A b \in Nat : b < From(x) \/ b >= Upto(x) => (b \in mem' <=> b \in mem)
      /\ x.bit + x.m.bits < 64 =>
           \A b \in 0..(x.m.bits - 1) : From(x) + b \in mem' <=> b \in v
  BY <1>1, <1>3, <1>4, BitsWritten DEF MemoryInv
<1>6. Readable(x) => Stored(x, mem') = {b \in v : b < x.m.bits}
  <2> SUFFICES ASSUME Readable(x) PROVE Stored(x, mem') = {b \in v : b < x.m.bits}
    OBVIOUS
  <2>1. PICK w \in 0..64 : w = x.m.bits /\ Upto(x) - From(x) = w
    BY <1>3, PlacingFacts, MemberFacts
  <2>2. \A b \in 0..(w - 1) : From(x) + b \in mem' <=> b \in v
    BY <1>3, <1>5, <2>1 DEF Readable
  <2>3. \A b \in v : b < w <=> b \in 0..(w - 1)
    <3>1. \A b \in 0..63 : b < w <=> b \in 0..(w - 1)
      OBVIOUS
    <3> QED BY <3>1
  <2> QED BY <2>1, <2>2, <2>3 DEF Stored
<1> QED BY <1>2, <1>3, <1>5, <1>6, ValueWritten

LEMMA SetPlainKeeps ==
  ASSUME IInv, NEW i \in 1..Len(mts), NEW v \in SUBSET (0..63), SetPlain(i, v)
  PROVE  IInv'
<1>1. LayoutInv /\ MemoryInv
  BY Parts
<1>2. PICK x \in Placings : x = mts[i]
  BY <1>1 DEF LayoutInv
<1>3. /\ done /\ ~x.m.bitfield /\ UNCHANGED <<kind, ct, mts, done>>
      /\ vals' = [vals EXCEPT ![i] = {b \in v : b < 8 * x.m.size}]
  BY <1>2 DEF SetPlain
<1>4. PlainStep(x, v)
  <2>1. PlainStep(mts[i], v)
    BY DEF SetPlain, PlainStep
  <2> QED BY <1>2, <2>1
<1>5. x.bit = 0
  BY <1>1, <1>2, <1>3 DEF LayoutInv, OnBytes
<1>6. /\ mem' \subseteq Nat
      /\ \A b \in Nat : b < From(x) \/ b >= Upto(x) => (b \in mem' <=> b \in mem)
      /\ \A b \in 0..(8 * x.m.size - 1) : From(x) + b \in mem' <=> b \in v
  BY <1>1, <1>3, <1>4, <1>5, PlainWritten DEF MemoryInv
<1>7. Stored(x, mem') = {b \in v : b < 8 * x.m.size}
  <2>1. PICK w \in Nat : w = 8 * x.m.size /\ Upto(x) - From(x) = w
    BY <1>3, PlacingFacts, MemberFacts
  <2>2. \A b \in v : b < w <=> b \in 0..(w - 1)
    <3>1. \A b \in 0..63 : b < w <=> b \in 0..(w - 1)
      OBVIOUS
    <3> QED BY <3>1
  <2> QED BY <1>6, <2>1, <2>2 DEF Stored
<1> QED BY <1>2, <1>3, <1>6, <1>7, ValueWritten

-----------------------------------------------------------------------------
(* The theorems *)

\* Every reachable state satisfies the inductive invariant.
THEOREM Invariance == Spec => []IInv
<1>1. Init => IInv
  <2> SUFFICES ASSUME Init PROVE IInv
    OBVIOUS
  <2>1. LayoutInv
    <3>1. kind \in {"struct", "union"} /\ done = FALSE /\ mts = <<>> /\ Len(mts) = 0
      BY DEF Init
    <3>2. ct \in Sizes
      BY DEF Init, Sizes
    <3>3. mts \in Seq(Placings) /\ 1..Len(mts) = {}
      BY <3>1
    <3> QED BY <3>1, <3>2, <3>3 DEF LayoutInv, RoomSoFar, OnBytes, NoOverlap, SizeCovers
  <2>2. MemoryInv
    BY DEF Init, MemoryInv, MemoryCurrent
  <2> QED BY <2>1, <2>2, Parts
<1>2. IInv /\ [Next]_vars => IInv'
  <2> SUFFICES ASSUME IInv, [Next]_vars PROVE IInv'
    OBVIOUS
  <2>1. ASSUME NEW m \in Members, AddMember(m) PROVE IInv'
    <3>1. LayoutInv'
      BY <2>1, AddMemberKeeps, Parts
    <3>2. MemoryInv'
      BY <2>1, Parts DEF AddMember, MemoryInv, MemoryCurrent
    <3> QED BY <3>1, <3>2 DEF IInv, TypeOK, LayoutInv, MemoryInv, Sizes, Placings
  <2>2. ASSUME NEW i \in 1..Len(mts), NEW v \in Values, SetBits(i, v) \/ SetPlain(i, v) PROVE IInv'
    <3>1. v \in SUBSET (0..63)
      BY StructLayoutAssumption
    <3> QED BY <2>2, <3>1, SetBitsKeeps, SetPlainKeeps
  <2>3. CASE UNCHANGED vars
    BY <2>3 DEF vars, IInv, TypeOK, RoomSoFar, OnBytes, MemoryCurrent, NoOverlap, SizeCovers
  <2> QED BY <2>1, <2>2, <2>3, FinishKeeps DEF Next
<1> QED BY <1>1, <1>2, PTL DEF Spec

\* The types of the variables.
THEOREM TypeCorrect == Spec => []TypeOK
BY Invariance, PTL DEF IInv

\* calculate_member_position puts no member of a struct over another one.
THEOREM MembersApart == Spec => []NoOverlap
BY Invariance, PTL DEF IInv

\* calculate_struct_offsets: the size of a record covers its members and is a
\* multiple of its alignment.
THEOREM SizeRight == Spec => []SizeCovers
BY Invariance, PTL DEF IInv

\* What set_value writes to a member is what cdata_index reads from it, and it
\* stays while others are written.
THEOREM ValuesKept == Spec => []Kept
<1>1. IInv => Kept
  <2> SUFFICES ASSUME IInv, done, kind = "struct", NEW i \in 1..Len(mts)
               PROVE  LET x == mts[i] IN
                      IF x.m.bitfield
                        THEN x.m.named /\ x.bit + x.m.bits < 64 => Read(x) = {vals[i]}
                        ELSE {b \in 0..(8 * x.m.size - 1) : 8 * x.offset + b \in mem} = vals[i]
    BY DEF Kept
  <2>1. LayoutInv /\ MemoryInv
    BY Parts
  <2>2. PICK x \in Placings : x = mts[i]
    BY <2>1 DEF LayoutInv
  <2>3. Readable(x) => Stored(x, mem) = vals[i]
    BY <2>1, <2>2 DEF MemoryInv, MemoryCurrent
  <2>4. ASSUME x.m.bitfield, x.m.named, x.bit + x.m.bits < 64 PROVE Read(x) = {vals[i]}
    BY <2>3, <2>4, BitsRead DEF Readable
  <2>5. ASSUME ~x.m.bitfield
        PROVE  {b \in 0..(8 * x.m.size - 1) : 8 * x.offset + b \in mem} = vals[i]
    <3>1. x.bit = 0 /\ From(x) = 8 * x.offset /\ Upto(x) - From(x) = 8 * x.m.size
      BY <2>1, <2>2, <2>5, PlacingFacts DEF LayoutInv, OnBytes, From
    <3> QED BY <2>3, <2>5, <3>1 DEF Readable, Stored
  <2> QED BY <2>2, <2>4, <2>5
<1> QED BY <1>1, Invariance, PTL

=============================================================================
