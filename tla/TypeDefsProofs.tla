---------------------------- MODULE TypeDefsProofs ----------------------------
(***************************************************************************)
(* Proofs about records used before they are defined: for every number of  *)
(* records, of types made from them and of nested declarations, and any    *)
(* bodies, a definition reaches every type made from the declaration.      *)
(*                                                                         *)
(* The invariant has a part about userdata (ObjInv), one about the         *)
(* declarations under way (FrameInv) and types of the rest; each action    *)
(* does one of a few things to each part.                                  *)
(***************************************************************************)
EXTENDS TypeDefs, SequenceTheorems, TLAPS

USE DEF Userdata

Objects == [name : Names \cup {"none"}, ct : Ctypes]
Frames  == [name : Names, ct : Ctypes, mode : Modes, record : BOOLEAN, fresh : BOOLEAN]

ObjInv ==
  /\ obj \in [Userdata -> Objects]
  /\ \A n \in Names : obj[n].name \in {n, "none"}
  /\ todo \in [Names -> SUBSET Live]
  /\ Listed
  /\ \A n \in Names : defs[n] # <<>> => n \in Live
  /\ \A o \in Live : obj[o].name \in Names \cap Live
  /\ \A o \in Live : obj[o].name \notin crossed => CopyOK(obj[o].ct, defs[obj[o].name])

FrameInv ==
  /\ frames \in Seq(Frames) /\ Len(frames) <= MaxDepth
  /\ \A i \in 1..Len(frames) :
       /\ frames[i].name \in Live
       /\ frames[i].name \notin crossed => CopyOK(frames[i].ct, defs[frames[i].name])
  /\ BodyOpen

RestInv ==
  /\ bodies \in [Names -> Nat]
  /\ crossed \subseteq Names
  /\ defs \in [Names -> Seq(Ctypes)]

LEMMA Parts == IInv <=> ObjInv /\ FrameInv /\ RestInv
BY DEF IInv, TypeOK, Declared, CopiesCurrent, ObjInv, FrameInv, RestInv, Objects, Frames

-----------------------------------------------------------------------------
(* Types made from a record *)

LEMMA UndefinedType == Undefined \in Ctypes /\ ~Undefined.def /\ NoObj \in Objects
BY DEF Undefined, Ctypes, Derivations, NoObj, Objects

\* A declarator changes neither size nor definition, and keeps what the plain
\* type has when it makes none (parse_argument2).
LEMMA DeriveFacts ==
  ASSUME NEW ct \in Ctypes, NEW d \in Derivations, CanDerive(ct, d)
  PROVE  /\ Derive(ct, d) \in Ctypes
         /\ Derive(ct, d).def = ct.def
         /\ Derive(ct, d).size = ct.size /\ Derive(ct, d).var = ct.var
         /\ Derive(ct, d).d = "plain" => Derive(ct, d) = ct
<1>1. CASE d = ct.d
  BY <1>1 DEF Derive
<1>2. CASE d # ct.d
  BY <1>2, TypeDefsAssumption DEF Derive, Ctypes, CanDerive
<1> QED BY <1>1, <1>2

LEMMA DerivedCopy ==
  ASSUME NEW ct \in Ctypes, NEW d \in Derivations, CanDerive(ct, d), NEW ds, CopyOK(ct, ds)
  PROVE  CopyOK(Derive(ct, d), ds)
BY DeriveFacts DEF CopyOK, Agrees

\* What is written at the closing brace.
LEMMA LaidFacts ==
  ASSUME NEW ct \in Ctypes, NEW s \in Shapes
  PROVE  LET new == Laid(ct, s) IN
         /\ new \in Ctypes /\ new.def
         /\ \A old \in Ctypes : /\ Updated(old, new) \in Ctypes
                                /\ Updated(old, new).def
                                /\ Agrees(Updated(old, new), new)
         /\ Agrees(new, new)
<1>1. s.size \in Nat /\ s.align \in Nat /\ s.inc \in Nat /\ s.bf \in BOOLEAN
  BY TypeDefsAssumption
<1>2. PICK v \in BOOLEAN : v = (s.inc > 0)
  <2>1. CASE s.inc > 0
    <3>1. TRUE = (s.inc > 0)
      BY <2>1
    <3> QED BY <3>1
  <2>2. CASE ~(s.inc > 0)
    <3>1. FALSE = (s.inc > 0)
      BY <2>2
    <3> QED BY <3>1
  <2> QED BY <2>1, <2>2
<1>3. Laid(ct, s) = [ct EXCEPT !.size = s.size, !.align = s.align, !.def = TRUE, !.bf = s.bf,
                             !.var = v, !.len = s.inc]
  BY <1>2 DEF Laid
<1>4. Laid(ct, s) \in Ctypes /\ Laid(ct, s).def
  BY <1>1, <1>3 DEF Ctypes
<1> SUFFICES ASSUME NEW new \in Ctypes, new.def
             PROVE  /\ \A old \in Ctypes : /\ Updated(old, new) \in Ctypes
                                           /\ Updated(old, new).def
                                           /\ Agrees(Updated(old, new), new)
                    /\ Agrees(new, new)
  BY <1>4
<1> QED BY DEF Updated, Ctypes, Agrees

-----------------------------------------------------------------------------
(* Userdata *)

\* The part about userdata survives a step that leaves them alone.
LEMMA ObjSame ==
  ASSUME ObjInv, UNCHANGED <<obj, todo, defs>>, crossed \subseteq crossed'
  PROVE  ObjInv' /\ Live' = Live
BY DEF ObjInv, Live, Listed, Of, CopyOK

\* push_ctype and push_cdata: a new userdata is on the list if incomplete.
LEMMA ObjPush ==
  ASSUME ObjInv, RestInv, NEW o \in Userdata, obj[o] = NoObj,
         NEW n \in Names, NEW ct \in Ctypes, Push(o, n, ct),
         o \in Names => o = n, n \in Live \/ o = n, n \notin crossed => CopyOK(ct, defs[n]),
         UNCHANGED <<defs, crossed>>
  PROVE  ObjInv' /\ Live' = Live \cup {o}
<1> DEFINE new == [name |-> n, ct |-> ct]
<1>1. /\ obj' = [obj EXCEPT ![o] = new]
      /\ todo' = [todo EXCEPT ![n] = IF ct.def THEN todo[n] ELSE todo[n] \cup {o}]
  BY DEF Push, ObjInv
<1>2. new \in Objects /\ new.name = n /\ new.ct = ct /\ new # NoObj
  BY TypeDefsAssumption DEF Objects, NoObj
<1>3. obj \in [Userdata -> Objects] /\ todo \in [Names -> SUBSET Live]
  BY DEF ObjInv
<1> HIDE DEF new
<1>4. obj' \in [Userdata -> Objects] /\ obj'[o] = new /\ \A x \in Userdata \ {o} : obj'[x] = obj[x]
  BY <1>1, <1>2, <1>3
<1>5. Live' = Live \cup {o}
  BY <1>2, <1>4 DEF Live
<1>6. o \notin Live
  BY DEF Live
<1>7. Listed'
  <2> SUFFICES ASSUME NEW m \in Names PROVE (todo[m] = {x \in Of(m) : ~obj[x].ct.def})'
    BY DEF Listed
  <2>1. todo[m] = {x \in Of(m) : ~obj[x].ct.def}
    BY DEF ObjInv, Listed
  <2>2. Of(m)' = IF m = n THEN Of(m) \cup {o} ELSE Of(m)
    BY <1>2, <1>4, <1>5, <1>6 DEF Of, Live
  <2>3. todo'[m] = IF m = n /\ ~ct.def THEN todo[m] \cup {o} ELSE todo[m]
    BY <1>1, <1>3
  <2>4. \A x \in Of(m) : x \in Userdata \ {o}
    BY <1>6 DEF Of, Live
  <2> QED BY <1>2, <1>4, <2>1, <2>2, <2>3, <2>4
<1>8. todo' \in [Names -> SUBSET Live']
  BY <1>1, <1>3, <1>5
<1>9. \A m \in Names : obj'[m].name \in {m, "none"}
  BY <1>2, <1>4 DEF ObjInv
<1>10. \A x \in Live' : obj'[x].name \in Names \cap Live'
  BY <1>2, <1>4, <1>5, <1>6 DEF ObjInv, Live
<1>11. ASSUME NEW x \in Live', obj'[x].name \notin crossed'
       PROVE  CopyOK(obj'[x].ct, defs'[obj'[x].name])
  <2>2. CASE x = o
    BY <1>2, <1>4, <1>11, <2>2
  <2>3. CASE x # o
    <3>1. x \in Live /\ obj'[x] = obj[x]
      BY <1>4, <1>5, <1>11, <2>3 DEF Live
    <3> QED BY <1>11, <3>1 DEF ObjInv
  <2> QED BY <2>2, <2>3
<1> QED BY <1>4, <1>5, <1>7, <1>8, <1>9, <1>10, <1>11 DEF ObjInv

\* The collector takes a type that is not a record, and its key.
LEMMA ObjCollect ==
  ASSUME ObjInv, NEW o \in Objs, Collect(o)
  PROVE  ObjInv' /\ Live' = Live \ {o}
<1>1. /\ obj' = [obj EXCEPT ![o] = NoObj] /\ todo' = [n \in Names |-> todo[n] \ {o}]
      /\ UNCHANGED <<defs, crossed>> /\ o \notin Names
  BY TypeDefsAssumption DEF Collect
<1>2. obj \in [Userdata -> Objects] /\ todo \in [Names -> SUBSET Live]
  BY DEF ObjInv
<1>3. obj' \in [Userdata -> Objects] /\ obj'[o] = NoObj /\ \A x \in Userdata \ {o} : obj'[x] = obj[x]
  BY <1>1, <1>2, UndefinedType
<1>4. Live' = Live \ {o}
  BY <1>3 DEF Live
<1>6. Listed'
  <2> SUFFICES ASSUME NEW m \in Names PROVE (todo[m] = {x \in Of(m) : ~obj[x].ct.def})'
    BY DEF Listed
  <2>1. todo[m] = {x \in Of(m) : ~obj[x].ct.def}
    BY DEF ObjInv, Listed
  <2>2. Of(m)' = Of(m) \ {o}
    BY <1>3, <1>4 DEF Of, Live
  <2>3. todo'[m] = todo[m] \ {o}
    BY <1>1
  <2>4. \A x \in Of(m)' : obj'[x] = obj[x]
    BY <1>3, <2>2 DEF Of, Live
  <2> QED BY <2>1, <2>2, <2>3, <2>4
<1>7. todo' \in [Names -> SUBSET Live']
  BY <1>1, <1>2, <1>4
<1>8. \A x \in Live' : obj'[x] = obj[x] /\ x \in Live
  BY <1>3, <1>4 DEF Live
<1>9. \A n \in Names : obj'[n] = obj[n] /\ (n \in Live' <=> n \in Live)
  BY <1>1, <1>3, <1>4
<1> QED BY <1>1, <1>3, <1>4, <1>6, <1>7, <1>8, <1>9 DEF ObjInv

\* set_defined: all incomplete userdata of a record get the definition.  In a
\* record that is not crossed none had another.
LEMMA ObjDefine ==
  ASSUME ObjInv, RestInv, NEW n \in Names, n \in Live, NEW new \in Ctypes, new.def,
         \A old \in Ctypes : /\ Updated(old, new) \in Ctypes /\ Updated(old, new).def
                             /\ Agrees(Updated(old, new), new),
         n \notin crossed => defs[n] = <<>>,
         SetDefined(n, new), defs' = [defs EXCEPT ![n] = Append(defs[n], new)],
         UNCHANGED crossed
  PROVE  /\ ObjInv' /\ Live' = Live
         /\ \A o \in Userdata : obj[o].ct.def => obj'[o] = obj[o]
<1>1. /\ obj \in [Userdata -> Objects] /\ todo \in [Names -> SUBSET Live]
      /\ \A m \in Names : todo[m] = {x \in Of(m) : ~obj[x].ct.def}
  BY DEF ObjInv, Listed
<1>2. /\ obj' = [o \in Userdata |->
                   IF o \in todo[n] THEN [obj[o] EXCEPT !.ct = Updated(obj[o].ct, new)] ELSE obj[o]]
      /\ todo' = [todo EXCEPT ![n] = {}]
  BY <1>1 DEF SetDefined
<1>3. ASSUME NEW o \in todo[n]
      PROVE  /\ o \in Live /\ obj[o].name = n /\ ~obj[o].ct.def
             /\ obj'[o] \in Objects /\ obj'[o].name = n
             /\ obj'[o].ct.def /\ Agrees(obj'[o].ct, new)
  <2>1. o \in Live /\ obj[o].name = n /\ ~obj[o].ct.def /\ o \in Userdata /\ obj[o] \in Objects
    BY <1>1 DEF Of, Live
  <2>2. PICK c \in Ctypes : c = Updated(obj[o].ct, new) /\ c.def /\ Agrees(c, new)
    BY <2>1 DEF Objects
  <2>3. obj'[o] = [obj[o] EXCEPT !.ct = c]
    BY <1>2, <2>1, <2>2
  <2>4. obj'[o].name = obj[o].name /\ obj'[o].ct = c /\ obj'[o] \in Objects
    BY <2>1, <2>3 DEF Objects
  <2> QED BY <2>1, <2>2, <2>4
<1>4. \A o \in Userdata : o \notin todo[n] => obj'[o] = obj[o]
  BY <1>2
<1>5. /\ obj' \in [Userdata -> Objects]
      /\ \A o \in Userdata : obj'[o].name = obj[o].name
      /\ \A o \in Userdata : obj[o].ct.def => obj'[o] = obj[o]
  <2>1. \A o \in Userdata : obj'[o] \in Objects
    BY <1>1, <1>3, <1>4
  <2> QED BY <1>2, <1>3, <1>4, <2>1
<1>6. Live' = Live
  <2>1. \A o \in Userdata : obj[o].name = "none" <=> obj[o] = NoObj
    <3>1. NoObj.name = "none" /\ "none" \notin Names
      BY TypeDefsAssumption DEF NoObj
    <3> QED BY <3>1 DEF ObjInv, Live
  <2>2. \A o \in todo[n] : obj'[o] # NoObj
    BY <1>3, TypeDefsAssumption DEF NoObj
  <2>3. \A o \in Userdata : obj'[o] = NoObj <=> obj[o] = NoObj
    BY <1>3, <1>4, <2>2 DEF Live
  <2> QED BY <2>3 DEF Live
<1>7. Listed'
  <2> SUFFICES ASSUME NEW m \in Names PROVE (todo[m] = {x \in Of(m) : ~obj[x].ct.def})'
    BY DEF Listed
  <2>1. Of(m)' = Of(m) /\ Of(m) \subseteq Userdata
    BY <1>5, <1>6 DEF Of, Live
  <2>2. CASE m = n
    <3>1. todo'[m] = {}
      BY <1>1, <1>2, <2>2
    <3>2. \A x \in Of(m) : obj'[x].ct.def
      BY <1>1, <1>3, <1>4, <2>1, <2>2
    <3> QED BY <2>1, <3>1, <3>2
  <2>3. CASE m # n
    <3>1. todo'[m] = todo[m]
      BY <1>1, <1>2, <2>3
    <3>2. \A x \in Of(m) : obj'[x] = obj[x]
      BY <1>3, <1>4, <2>1, <2>3 DEF Of
    <3> QED BY <1>1, <2>1, <3>1, <3>2
  <2> QED BY <2>2, <2>3
<1>8. todo' \in [Names -> SUBSET Live']
  BY <1>1, <1>2, <1>6
<1>9. /\ defs'[n] # <<>> /\ (n \notin crossed => Head(defs'[n]) = new)
      /\ \A m \in Names : m # n => defs'[m] = defs[m]
  <2>1. defs'[n] = Append(defs[n], new) /\ defs[n] \in Seq(Ctypes)
    BY DEF RestInv
  <2> QED BY <2>1 DEF RestInv
<1>10. ASSUME NEW o \in Live', obj'[o].name \notin crossed'
       PROVE  CopyOK(obj'[o].ct, defs'[obj'[o].name])
  <2>1. o \in Live /\ o \in Userdata /\ obj'[o].name = obj[o].name /\ obj[o].name \in Names
    BY <1>5, <1>6 DEF Live, ObjInv
  <2>2. CopyOK(obj[o].ct, defs[obj[o].name])
    BY <1>10, <2>1 DEF ObjInv
  <2>3. CASE o \in todo[n]
    BY <1>3, <1>9, <1>10, <2>3 DEF CopyOK
  <2>4. CASE o \notin todo[n]
    <3>1. obj'[o] = obj[o]
      BY <1>4, <2>1, <2>4
    <3>2. obj[o].name # n
      <4> SUFFICES ASSUME obj[o].name = n PROVE FALSE
        OBVIOUS
      <4>1. obj[o].ct.def
        BY <1>1, <2>1, <2>4 DEF Of
      <4> QED BY <1>10, <2>1, <2>2, <4>1 DEF CopyOK
    <3> QED BY <1>9, <2>1, <2>2, <3>1, <3>2 DEF CopyOK
  <2> QED BY <2>3, <2>4
<1>11. \A m \in Names : defs'[m] # <<>> => m \in Live'
  BY <1>6, <1>9 DEF ObjInv
<1>12. /\ \A m \in Names : obj'[m].name \in {m, "none"}
       /\ \A o \in Live' : obj'[o].name \in Names \cap Live'
  BY <1>5, <1>6 DEF ObjInv, Live
<1> QED BY <1>5, <1>6, <1>7, <1>8, <1>10, <1>11, <1>12 DEF ObjInv

-----------------------------------------------------------------------------
(* Declarations under way *)

\* A call of cdef, typeof, new, ... or a declaration in a body or in arguments.
LEMMA FramePush ==
  ASSUME FrameInv, NEW f \in Frames, f.mode = "decl", Len(frames) < MaxDepth,
         frames' = Append(frames, f), f.name \in Live',
         f.name \notin crossed => CopyOK(f.ct, defs[f.name]),
         Live \subseteq Live', UNCHANGED <<defs, crossed>>
  PROVE  FrameInv'
<1>1. frames \in Seq(Frames) /\ Len(frames) \in Nat
  BY DEF FrameInv
<1>2. /\ frames' \in Seq(Frames) /\ Len(frames') = Len(frames) + 1
      /\ frames'[Len(frames')] = f
      /\ \A i \in 1..Len(frames) : frames'[i] = frames[i]
      /\ \A i \in 1..Len(frames') : i \in 1..Len(frames) \/ i = Len(frames')
  BY <1>1
<1>3. Len(frames') <= MaxDepth
  BY <1>1, <1>2, TypeDefsAssumption
<1>4. \A i \in 1..Len(frames') :
        /\ frames'[i].name \in Live'
        /\ frames'[i].name \notin crossed' => CopyOK(frames'[i].ct, defs'[frames'[i].name])
  BY <1>2 DEF FrameInv
<1>5. BodyOpen'
  <2> SUFFICES ASSUME NEW k \in 1..Len(frames'), frames'[k].mode = "body"
               PROVE  /\ ~frames'[k].ct.def
                      /\ \A i \in 1..(k - 1) : frames'[i].name = frames'[k].name
                                                  => frames'[k].name \in crossed'
    BY DEF BodyOpen
  <2>1. k \in 1..Len(frames) /\ frames'[k] = frames[k]
    BY <1>2
  <2>2. \A i \in 1..(k - 1) : frames'[i] = frames[i]
    BY <1>1, <1>2, <2>1
  <2> QED BY <2>1, <2>2 DEF FrameInv, BodyOpen
<1> QED BY <1>2, <1>3, <1>4, <1>5 DEF FrameInv

\* A declaration that begins.
LEMMA NewFrame ==
  ASSUME NEW n \in Names, NEW c \in Ctypes, NEW record \in BOOLEAN, NEW fresh \in BOOLEAN
  PROVE  LET f == Frame(n, c, record, fresh) IN
         f \in Frames /\ f.name = n /\ f.ct = c /\ f.mode = "decl"
<1>1. "decl" \in Modes
  BY DEF Modes
<1> QED BY <1>1 DEF Frame, Frames

\* The end of declarations, with or without an error.
LEMMA FramePop ==
  ASSUME FrameInv, NEW k \in 0..Len(frames), frames' = SubSeq(frames, 1, k),
         Live' = Live, UNCHANGED <<defs, crossed>>
  PROVE  FrameInv'
<1>1. frames \in Seq(Frames) /\ Len(frames) \in Nat /\ k \in Nat /\ k <= Len(frames)
  BY DEF FrameInv
<1>2. /\ frames' \in Seq(Frames) /\ Len(frames') = k
      /\ \A i \in 1..k : frames'[i] = frames[i]
  BY <1>1, SubSeqProperties
<1>3. Len(frames') <= MaxDepth
  BY <1>1, <1>2, TypeDefsAssumption DEF FrameInv
<1>4. \A i \in 1..Len(frames') : i \in 1..Len(frames) /\ frames'[i] = frames[i]
  BY <1>1, <1>2
<1>5. BodyOpen'
  <2> SUFFICES ASSUME NEW j \in 1..Len(frames'), frames'[j].mode = "body"
               PROVE  /\ ~frames'[j].ct.def
                      /\ \A i \in 1..(j - 1) : frames'[i].name = frames'[j].name
                                                  => frames'[j].name \in crossed'
    BY DEF BodyOpen
  <2>1. \A i \in 1..(j - 1) : frames'[i] = frames[i]
    BY <1>1, <1>2
  <2> QED BY <1>4, <2>1 DEF FrameInv, BodyOpen
<1> QED BY <1>2, <1>3, <1>4, <1>5 DEF FrameInv

\* The innermost declaration goes on in another place: in a body only if its
\* record is incomplete, and crossed if an outer one is about it.
LEMMA FrameTop ==
  ASSUME FrameInv, frames # <<>>, NEW f \in Frames, f.name = Top.name, f.ct = Top.ct,
         frames' = SetTop(f),
         f.mode = "body" => ~Top.ct.def /\ (OuterOf(Top.name) # {} => Top.name \in crossed'),
         crossed \subseteq crossed', Live \subseteq Live', UNCHANGED defs
  PROVE  FrameInv'
<1> DEFINE n == Len(frames)
<1>1. frames \in Seq(Frames) /\ n \in Nat /\ n \in 1..n
  BY DEF FrameInv
<1>2. frames' = [frames EXCEPT ![n] = f] /\ Top = frames[n]
  BY DEF SetTop, Top
<1> HIDE DEF n
<1>3. /\ frames' \in Seq(Frames) /\ Len(frames') = n /\ Len(frames) = n
      /\ frames'[n] = f /\ \A i \in 1..n : i # n => frames'[i] = frames[i]
  BY <1>1, <1>2, ExceptSeq DEF n
<1>4. \A i \in 1..n : /\ frames'[i].name = frames[i].name /\ frames'[i].ct = frames[i].ct
                      /\ i # n => frames'[i] = frames[i]
  BY <1>2, <1>3
<1>5. BodyOpen'
  <2> SUFFICES ASSUME NEW k \in 1..n, frames'[k].mode = "body"
               PROVE  /\ ~frames'[k].ct.def
                      /\ \A i \in 1..(k - 1) : frames'[i].name = frames'[k].name
                                                  => frames'[k].name \in crossed'
    BY <1>3 DEF BodyOpen
  <2>1. \A i \in 1..(k - 1) : i \in 1..n
    BY <1>1
  <2>2. CASE k # n
    BY <1>3, <1>4, <2>1, <2>2 DEF FrameInv, BodyOpen
  <2>3. CASE k = n
    <3>1. f.mode = "body" /\ ~f.ct.def
      BY <1>3, <2>3
    <3>2. ASSUME NEW i \in 1..(n - 1), frames[i].name = Top.name PROVE Top.name \in crossed'
      BY <1>3, <3>1, <3>2 DEF OuterOf
    <3> QED BY <1>2, <1>3, <1>4, <2>1, <2>3, <3>1, <3>2
  <2> QED BY <2>2, <2>3
<1>6. \A i \in 1..n : /\ frames[i].name \in Live
                      /\ frames[i].name \notin crossed => CopyOK(frames[i].ct, defs[frames[i].name])
  BY <1>3 DEF FrameInv
<1>7. \A i \in 1..n : /\ frames'[i].name \in Live'
                      /\ frames'[i].name \notin crossed' => CopyOK(frames'[i].ct, defs'[frames'[i].name])
  BY <1>4, <1>6
<1> QED BY <1>3, <1>5, <1>7 DEF FrameInv

\* The closing brace: the only copy that any declaration holds of a record that
\* is not crossed is the one that is completed.
LEMMA FrameDefine ==
  ASSUME FrameInv, RestInv, frames # <<>>, Top.mode = "body",
         NEW new \in Ctypes, new.def, Agrees(new, new),
         NEW f \in Frames, f.name = Top.name, f.ct = new, f.mode = "decl",
         frames' = SetTop(f),
         defs' = [defs EXCEPT ![Top.name] = Append(defs[Top.name], new)],
         Top.name \notin crossed => defs[Top.name] = <<>>,
         Live' = Live, UNCHANGED crossed
  PROVE  FrameInv'
<1> DEFINE n == Len(frames)
<1>1. frames \in Seq(Frames) /\ n \in Nat /\ n \in 1..n
  BY DEF FrameInv
<1>2. frames' = [frames EXCEPT ![n] = f] /\ Top = frames[n] /\ Top \in Frames
  BY <1>1 DEF SetTop, Top
<1>3. f \in Frames /\ f.name = Top.name /\ f.ct = new /\ f.mode = "decl"
  OBVIOUS
<1>4. PICK r \in Names : r = Top.name
  BY <1>2 DEF Frames
<1> HIDE DEF n
<1>5. /\ frames' \in Seq(Frames) /\ Len(frames') = n /\ Len(frames) = n
      /\ frames'[n] = f /\ \A i \in 1..n : i # n => frames'[i] = frames[i]
  BY <1>1, <1>2, ExceptSeq DEF n
<1>6. BodyOpen'
  <2> SUFFICES ASSUME NEW k \in 1..n, frames'[k].mode = "body"
               PROVE  /\ ~frames'[k].ct.def
                      /\ \A i \in 1..(k - 1) : frames'[i].name = frames'[k].name
                                                  => frames'[k].name \in crossed'
    BY <1>5 DEF BodyOpen
  <2>1. k # n
    BY <1>3, <1>5
  <2>2. \A i \in 1..(k - 1) : i \in 1..n /\ i # n
    BY <1>1
  <2> QED BY <1>5, <2>1, <2>2 DEF FrameInv, BodyOpen
<1>7. /\ defs'[r] # <<>> /\ (r \notin crossed => Head(defs'[r]) = new)
      /\ \A m \in Names : m # r => defs'[m] = defs[m]
  <2>1. defs'[r] = Append(defs[r], new) /\ defs[r] \in Seq(Ctypes)
    BY <1>4 DEF RestInv
  <2>2. defs'[r] # <<>> /\ (defs[r] = <<>> => Head(defs'[r]) = new)
    BY <2>1
  <2> QED BY <1>4, <2>2 DEF RestInv
<1>8. ASSUME NEW i \in 1..n
      PROVE  /\ frames'[i].name \in Live'
             /\ frames'[i].name \notin crossed' => CopyOK(frames'[i].ct, defs'[frames'[i].name])
  <2> i \in 1..Len(frames) /\ frames[i] \in Frames
    BY <1>1, <1>5
  <2>1. frames[i].name \in Live /\ frames[i].name \in Names
        /\ (frames[i].name \notin crossed => CopyOK(frames[i].ct, defs[frames[i].name]))
    <3>1. frames[i].name \in Names
      BY DEF Frames
    <3> QED BY <3>1 DEF FrameInv
  <2>2. CASE i = n
    BY <1>2, <1>3, <1>4, <1>5, <1>7, <2>1, <2>2 DEF CopyOK
  <2>3. CASE i # n
    <3>1. frames'[i] = frames[i] /\ i \in 1..(n - 1)
      BY <1>1, <1>5, <2>3
    <3>2. frames[i].name = r => r \in crossed
      BY <1>1, <1>2, <1>4, <1>5, <3>1 DEF FrameInv, BodyOpen
    <3> QED BY <1>7, <2>1, <3>1, <3>2
  <2> QED BY <2>2, <2>3
<1> QED BY <1>5, <1>6, <1>8, <1>1 DEF FrameInv, n

-----------------------------------------------------------------------------
(* The actions *)

LEMMA TopFacts ==
  ASSUME IInv, frames # <<>>
  PROVE  /\ Top \in Frames /\ Top.name \in Names \cap Live /\ Len(frames) \in 1..Len(frames)
         /\ Top.name \notin crossed => CopyOK(Top.ct, defs[Top.name])
<1>1. frames \in Seq(Frames) /\ Len(frames) \in 1..Len(frames) /\ FrameInv
  BY Parts DEF FrameInv
<1>2. Top = frames[Len(frames)] /\ Top \in Frames
  BY <1>1 DEF Top
<1>3. Top.name \in Names
  BY <1>2 DEF Frames
<1>4. /\ Top.name \in Live
      /\ Top.name \notin crossed => CopyOK(Top.ct, defs[Top.name])
  BY <1>1, <1>2 DEF FrameInv
<1> QED BY <1>1, <1>2, <1>3, <1>4

\* A new userdata made by the innermost declaration.
LEMMA DeclareObj ==
  ASSUME IInv, frames # <<>>, NEW o \in Objs, o \notin Live, NEW d \in Derivations,
         CanDerive(Top.ct, d), Push(o, Top.name, Derive(Top.ct, d)),
         UNCHANGED <<defs, crossed>>
  PROVE  ObjInv' /\ Live' = Live \cup {o}
<1>1. PICK n \in Names \cap Live, c \in Ctypes : n = Top.name /\ c = Top.ct
  BY TopFacts DEF Frames
<1>2. n \notin crossed => CopyOK(c, defs[n])
  BY <1>1, TopFacts
<1>3. PICK e \in Ctypes : e = Derive(c, d) /\ (n \notin crossed => CopyOK(e, defs[n]))
  BY <1>1, <1>2, DeriveFacts, DerivedCopy
<1>4. obj[o] = NoObj /\ o \notin Names /\ o \in Userdata
  BY TypeDefsAssumption DEF Live
<1>5. Push(o, n, e)
  BY <1>1, <1>3
<1> QED BY <1>3, <1>4, <1>5, ObjPush, Parts

LEMMA IndStep ==
  ASSUME IInv, [Next]_vars
  PROVE  IInv' /\ \A o \in Userdata : obj[o].ct.def => obj'[o] \in {obj[o], NoObj}
<1> DEFINE Stable == \A o \in Userdata : obj[o].ct.def => obj'[o] \in {obj[o], NoObj}
<1> SUFFICES IInv' /\ Stable
  OBVIOUS
<1>1. ObjInv /\ FrameInv /\ RestInv
  BY Parts
<1>2. frames \in Seq(Frames) /\ Len(frames) \in Nat /\ obj \in [Userdata -> Objects]
      /\ ~NoObj.ct.def
  BY <1>1 DEF FrameInv, ObjInv, NoObj, Undefined
<1>3. ASSUME NEW o \in Userdata, NEW n, NEW ct, obj[o] = NoObj, Push(o, n, ct) PROVE Stable
  BY <1>2, <1>3 DEF Push
<1>4. UNCHANGED obj => Stable
  OBVIOUS
<1>5. RestInv /\ UNCHANGED <<bodies, crossed, defs>> => RestInv'
  BY DEF RestInv
<1>6. IInv' <=> ObjInv' /\ FrameInv' /\ RestInv'
  BY DEF IInv, TypeOK, Declared, CopiesCurrent, ObjInv, FrameInv, RestInv, Objects, Frames
<1>7. ASSUME NEW n \in Names, NEW fresh \in BOOLEAN, DeclareRecord(n, fresh)
      PROVE  IInv' /\ Stable
  <2>1. /\ obj[n] = NoObj /\ n \in Userdata /\ Push(n, n, Undefined) /\ n \notin Live
        /\ frames' = Append(frames, Frame(n, Undefined, TRUE, fresh))
        /\ UNCHANGED <<bodies, crossed, defs>> /\ Len(frames) < MaxDepth
    BY <1>7 DEF DeclareRecord, Live, MayBegin
  <2>2. CopyOK(Undefined, defs[n])
    BY <1>1, <2>1, UndefinedType DEF ObjInv, CopyOK
  <2>3. ObjInv' /\ Live' = Live \cup {n}
    BY <1>1, <2>1, <2>2, ObjPush, UndefinedType
  <2>4. PICK f \in Frames : /\ f = Frame(n, Undefined, TRUE, fresh)
                            /\ f.name = n /\ f.ct = Undefined /\ f.mode = "decl"
    <3>1. Undefined \in Ctypes /\ TRUE \in BOOLEAN
      BY UndefinedType
    <3>2. PICK b \in BOOLEAN : b = TRUE
      BY <3>1
    <3>3. LET f == Frame(n, Undefined, b, fresh) IN
          f \in Frames /\ f.name = n /\ f.ct = Undefined /\ f.mode = "decl"
      BY <3>1, NewFrame
    <3> QED BY <3>2, <3>3
  <2>5. FrameInv'
    BY <1>1, <2>1, <2>2, <2>3, <2>4, FramePush
  <2> QED BY <1>1, <1>3, <1>5, <1>6, <2>1, <2>3, <2>5
<1>8. ASSUME NEW o \in Userdata, NEW fresh \in BOOLEAN, ReadBase(o, fresh)
      PROVE  IInv' /\ Stable
  <2>1. /\ o \in Live /\ UNCHANGED <<obj, todo, bodies, crossed, defs>>
        /\ frames' = Append(frames, Frame(obj[o].name, obj[o].ct, o \in Names, fresh))
        /\ Len(frames) < MaxDepth
    BY <1>8 DEF ReadBase, MayBegin
  <2>2. ObjInv' /\ Live' = Live
    BY <1>1, <2>1, ObjSame
  <2>3. PICK n \in Names \cap Live, c \in Ctypes : n = obj[o].name /\ c = obj[o].ct
    BY <1>1, <1>2, <2>1 DEF ObjInv, Objects
  <2>4. PICK b \in BOOLEAN : b = (o \in Names)
    <3>1. CASE o \in Names
      <4>1. TRUE = (o \in Names)
        BY <3>1
      <4> QED BY <4>1
    <3>2. CASE o \notin Names
      <4>1. FALSE = (o \in Names)
        BY <3>2
      <4> QED BY <4>1
    <3> QED BY <3>1, <3>2
  <2>5. PICK f \in Frames : f = Frame(n, c, b, fresh) /\ f.name = n /\ f.ct = c /\ f.mode = "decl"
    BY NewFrame
  <2>6. frames' = Append(frames, f)
    BY <2>1, <2>3, <2>4, <2>5
  <2>7. n \notin crossed => CopyOK(c, defs[n])
    BY <1>1, <2>1, <2>3 DEF ObjInv
  <2>8. FrameInv'
    BY <1>1, <2>1, <2>2, <2>5, <2>6, <2>7, FramePush
  <2> QED BY <1>1, <1>4, <1>5, <1>6, <2>1, <2>2, <2>8
<1>9. ASSUME NEW o \in Objs, NEW d \in Derivations, Declare(o, d)
      PROVE  IInv' /\ Stable
  <2>1. /\ frames # <<>> /\ o \notin Live /\ CanDerive(Top.ct, d)
        /\ Push(o, Top.name, Derive(Top.ct, d))
        /\ UNCHANGED <<bodies, crossed, defs, frames>> /\ obj[o] = NoObj
    BY <1>9 DEF Declare, InFrame, Live
  <2>2. ObjInv' /\ Live' = Live \cup {o}
    BY <2>1, DeclareObj
  <2>3. FrameInv'
    BY <1>1, <2>1, <2>2 DEF FrameInv, BodyOpen
  <2> QED BY <1>1, <1>3, <1>5, <1>6, <2>1, <2>2, <2>3
<1>10. ASSUME NEW o \in Objs, NEW d \in Derivations, OpenArgs(o, d)
       PROVE  IInv' /\ Stable
  <2>1. /\ frames # <<>> /\ o \notin Live /\ CanDerive(Top.ct, d)
        /\ Push(o, Top.name, Derive(Top.ct, d)) /\ frames' = SetTop([Top EXCEPT !.mode = "args"])
        /\ UNCHANGED <<bodies, crossed, defs>> /\ obj[o] = NoObj
    BY <1>10 DEF OpenArgs, InFrame, Live
  <2>2. ObjInv' /\ Live' = Live \cup {o}
    BY <2>1, DeclareObj
  <2>3. PICK f \in Frames : f = [Top EXCEPT !.mode = "args"] /\ f.name = Top.name /\ f.ct = Top.ct
                            /\ f.mode = "args"
    BY <2>1, TopFacts DEF Frames, Modes
  <2>4. FrameInv'
    BY <1>1, <2>1, <2>2, <2>3, FrameTop
  <2> QED BY <1>1, <1>3, <1>5, <1>6, <2>1, <2>2, <2>4
<1>11. CASE CloseArgs
  <2>1. /\ frames # <<>> /\ frames' = SetTop([Top EXCEPT !.mode = "decl"])
        /\ UNCHANGED <<obj, todo, bodies, crossed, defs>>
    BY <1>11 DEF CloseArgs, InFrame
  <2>2. ObjInv' /\ Live' = Live
    BY <1>1, <2>1, ObjSame
  <2>3. PICK f \in Frames : f = [Top EXCEPT !.mode = "decl"] /\ f.name = Top.name /\ f.ct = Top.ct
                            /\ f.mode = "decl"
    BY <2>1, TopFacts DEF Frames, Modes
  <2>4. FrameInv'
    BY <1>1, <2>1, <2>2, <2>3, FrameTop
  <2> QED BY <1>1, <1>4, <1>5, <1>6, <2>1, <2>2, <2>4
<1>12. CASE OpenBody
  <2>1. /\ frames # <<>> /\ ~Top.ct.def /\ frames' = SetTop([Top EXCEPT !.mode = "body"])
        /\ crossed' = IF OuterOf(Top.name) = {} THEN crossed ELSE crossed \cup {Top.name}
        /\ UNCHANGED <<obj, todo, bodies, defs>>
    BY <1>12 DEF OpenBody, EnterBody, InFrame
  <2>2. PICK f \in Frames : f = [Top EXCEPT !.mode = "body"] /\ f.name = Top.name /\ f.ct = Top.ct
                            /\ f.mode = "body"
    BY <2>1, TopFacts DEF Frames, Modes
  <2>3. crossed \subseteq crossed' /\ crossed' \subseteq Names
        /\ (OuterOf(Top.name) # {} => Top.name \in crossed')
    BY <1>1, <2>1, TopFacts DEF RestInv
  <2>4. ObjInv' /\ Live' = Live
    BY <1>1, <2>1, <2>3, ObjSame
  <2>5. FrameInv'
    BY <1>1, <2>1, <2>2, <2>3, <2>4, FrameTop
  <2>6. RestInv'
    BY <1>1, <2>1, <2>3 DEF RestInv
  <2> QED BY <1>4, <1>6, <2>1, <2>4, <2>5, <2>6
<1>13. ASSUME NEW s \in Shapes, CloseBody(s)
       PROVE  IInv' /\ Stable
  <2>1. frames # <<>> /\ Top.mode = "body" /\ UNCHANGED crossed
    BY <1>13 DEF CloseBody, InFrame
  <2>2. PICK n \in Names \cap Live, c \in Ctypes : n = Top.name /\ c = Top.ct
    BY <2>1, TopFacts DEF Frames
  <2>3. PICK new \in Ctypes :
          /\ new = Laid(c, s) /\ new.def /\ Agrees(new, new)
          /\ \A old \in Ctypes : /\ Updated(old, new) \in Ctypes /\ Updated(old, new).def
                                 /\ Agrees(Updated(old, new), new)
    BY LaidFacts
  <2>4. /\ SetDefined(n, new)
        /\ bodies' = [bodies EXCEPT ![n] = bodies[n] + 1]
        /\ defs' = [defs EXCEPT ![n] = Append(defs[n], new)]
        /\ frames' = SetTop([Top EXCEPT !.mode = "decl", !.ct = new])
    <3>1. bodies \in [Names -> Nat] /\ defs \in [Names -> Seq(Ctypes)]
      BY <1>1 DEF RestInv
    <3> QED BY <1>13, <2>2, <2>3, <3>1 DEF CloseBody
  <2>5. n \notin crossed => defs[n] = <<>>
    <3>1. ~Top.ct.def
      BY <1>1, <2>1, TopFacts DEF FrameInv, BodyOpen, Top
    <3> QED BY <2>1, <2>2, <3>1, TopFacts DEF CopyOK
  <2>6. /\ ObjInv' /\ Live' = Live
        /\ \A o \in Userdata : obj[o].ct.def => obj'[o] = obj[o]
    BY <1>1, <2>1, <2>3, <2>4, <2>5, ObjDefine
  <2>7. FrameInv'
    <3>1. PICK f \in Frames : /\ f = [Top EXCEPT !.mode = "decl", !.ct = new]
                              /\ f.name = Top.name /\ f.ct = new /\ f.mode = "decl"
      <4>1. PICK t \in Frames : t = Top
        BY <2>1, TopFacts
      <4>2. [t EXCEPT !.mode = "decl", !.ct = new] \in Frames
        BY DEF Frames, Modes
      <4>3. LET f == [t EXCEPT !.mode = "decl", !.ct = new] IN
            f.name = t.name /\ f.ct = new /\ f.mode = "decl"
        BY DEF Frames
      <4> QED BY <4>1, <4>2, <4>3
    <3>2. /\ frames' = SetTop(f) /\ defs' = [defs EXCEPT ![Top.name] = Append(defs[Top.name], new)]
          /\ (Top.name \notin crossed => defs[Top.name] = <<>>)
      BY <2>2, <2>4, <2>5, <3>1
    <3> QED BY <1>1, <2>1, <2>3, <2>6, <3>1, <3>2, FrameDefine
  <2>8. RestInv'
    <3>1. defs[n] \in Seq(Ctypes) /\ bodies[n] \in Nat
      BY <1>1 DEF RestInv
    <3>2. Append(defs[n], new) \in Seq(Ctypes) /\ bodies[n] + 1 \in Nat
      BY <3>1
    <3> QED BY <1>1, <2>1, <2>4, <3>2 DEF RestInv
  <2> QED BY <1>6, <2>6, <2>7, <2>8
<1>14. CASE EndDecl \/ \E i \in 1..Len(frames) : Error(i) \/ LayoutError(i)
  <2>1. PICK k \in 0..Len(frames) : frames' = SubSeq(frames, 1, k)
    <3>1. CASE EndDecl
      <4>1. Len(frames) - 1 \in 0..Len(frames)
        BY <1>2, <3>1 DEF EndDecl, InFrame
      <4> QED BY <3>1, <4>1 DEF EndDecl
    <3>2. ASSUME NEW i \in 1..Len(frames), Error(i) \/ LayoutError(i)
          PROVE  i - 1 \in 0..Len(frames) /\ frames' = SubSeq(frames, 1, i - 1)
      BY <1>2, <3>2 DEF Error, LayoutError, Unwind
    <3> QED BY <1>14, <3>1, <3>2
  <2>2. UNCHANGED <<obj, todo, crossed, defs>>
    BY <1>14 DEF EndDecl, Error, LayoutError
  <2>3. ObjInv' /\ Live' = Live
    BY <1>1, <2>2, ObjSame
  <2>4. FrameInv'
    BY <1>1, <2>1, <2>2, <2>3, FramePop
  <2>5. bodies' \in [Names -> Nat]
    <3>1. ASSUME InFrame("body"), bodies' = [bodies EXCEPT ![Top.name] = @ + 1]
          PROVE  bodies' \in [Names -> Nat]
      <4>1. PICK n \in Names : n = Top.name
        BY <3>1, TopFacts DEF InFrame
      <4>2. bodies \in [Names -> Nat] /\ bodies' = [bodies EXCEPT ![n] = bodies[n] + 1]
        BY <1>1, <3>1, <4>1 DEF RestInv
      <4> QED BY <4>2
    <3> QED BY <1>1, <1>14, <3>1 DEF EndDecl, Error, LayoutError, RestInv
  <2> QED BY <1>1, <1>4, <1>6, <2>2, <2>3, <2>4, <2>5 DEF RestInv
<1>15. ASSUME NEW o \in Objs, Collect(o)
       PROVE  IInv' /\ Stable
  <2>1. obj' = [obj EXCEPT ![o] = NoObj] /\ UNCHANGED <<bodies, crossed, defs, frames>>
    BY <1>15 DEF Collect
  <2>2. ObjInv' /\ Live' = Live \ {o}
    BY <1>1, <1>15, ObjCollect
  <2>3. ASSUME NEW i \in 1..Len(frames) PROVE frames[i].name \in Live'
    <3>1. frames[i] \in Frames
      BY <1>2
    <3>2. frames[i].name \in Names /\ frames[i].name \in Live
      BY <1>1, <3>1 DEF FrameInv, Frames
    <3> QED BY <2>2, <3>2, TypeDefsAssumption
  <2>4. FrameInv'
    BY <1>1, <2>1, <2>3 DEF FrameInv, BodyOpen
  <2>5. Stable
    BY <1>2, <2>1
  <2> QED BY <1>1, <1>5, <1>6, <2>1, <2>2, <2>4, <2>5
<1>16. CASE UNCHANGED vars
  BY <1>4, <1>16 DEF vars, IInv, TypeOK, Listed, Declared, BodyOpen, CopiesCurrent, Live, Of
<1> HIDE DEF Stable
<1>17. CASE Next
  <2> USE <1>17 DEF Next
  <2> QED BY <1>7, <1>8, <1>9, <1>10, <1>11, <1>12, <1>13, <1>14, <1>15
<1> QED BY <1>16, <1>17

-----------------------------------------------------------------------------
(* The theorems *)

\* Every reachable state satisfies the inductive invariant: the lists of
\* set_defined hold what is incomplete, and copies are what was defined.
THEOREM Invariance == Spec => []IInv
<1>1. Init => IInv
  <2> SUFFICES ASSUME Init PROVE IInv
    OBVIOUS
  <2>1. Live = {} /\ \A n \in Names : Of(n) = {}
    BY DEF Init, Live, Of
  <2>2. ObjInv
    BY <2>1, UndefinedType DEF Init, ObjInv, Listed, NoObj
  <2>3. FrameInv
    BY TypeDefsAssumption DEF Init, FrameInv, BodyOpen
  <2>4. RestInv
    BY DEF Init, RestInv
  <2> QED BY <2>2, <2>3, <2>4, Parts
<1>2. IInv /\ [Next]_vars => IInv'
  BY IndStep
<1> QED BY <1>1, <1>2, PTL DEF Spec

\* The types of the variables.
THEOREM TypeCorrect == Spec => []TypeOK
BY Invariance, PTL DEF IInv

\* A definition reaches every ctype and cdata made from the declaration
\* (set_defined), unless it came in the middle of another declaration about it.
THEOREM AllCompleted == Spec => []NoneLeftBehind
<1>1. IInv => NoneLeftBehind
  BY DEF IInv, NoneLeftBehind, CopiesCurrent, CopyOK, Of
<1> QED BY <1>1, Invariance, PTL

\* Types made before the definition have the same size, alignment and length as
\* those made after it.
THEOREM EarlyIsLate == Spec => []EarlyEqualsLate
<1>1. IInv => EarlyEqualsLate
  BY DEF IInv, EarlyEqualsLate, CopiesCurrent, CopyOK, Agrees, Of
<1> QED BY <1>1, Invariance, PTL

\* set_defined writes only incomplete types: a complete one never changes.
THEOREM CompleteStays == Spec => DefinitionStable
<1>1. IInv /\ [Next]_vars =>
        [\A o \in Userdata : obj[o].ct.def => obj'[o] \in {obj[o], NoObj}]_vars
  BY IndStep
<1> QED BY <1>1, Invariance, PTL DEF Spec, DefinitionStable
=============================================================================
