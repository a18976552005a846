------------------------- MODULE RegAllocEmitting ---------------------------
(***************************************************************************)
(* The steps with which an instruction begins and ends preserve the        *)
(* invariant.                                                              *)
(***************************************************************************)
EXTENDS RegAllocRealizing

LEMMA CountType ==
    ASSUME NEW S, IsFiniteSet(S), NEW T \in SUBSET S
    PROVE  Cardinality(T) \in Int
BY FS_Subset, FS_CardinalityType

LEMMA CountsAreIntegers ==
    ASSUME NEW rs, IsFiniteSet(DOMAIN rs)
    PROVE  /\ \A i : Reads(rs, i) \in Int
           /\ \A v : ReadsOf(rs, v) \in Int /\ LocksOf(rs, v) \in Int
<1>1. ASSUME NEW i PROVE Reads(rs, i) \in Int
  BY CountType DEF Reads
<1>2. ASSUME NEW v PROVE ReadsOf(rs, v) \in Int /\ LocksOf(rs, v) \in Int
  BY CountType DEF ReadsOf, LocksOf
<1> QED
  BY <1>1, <1>2

Counted(info, a, b) == [info EXCEPT !.uses_this_inst = a, !.locked = b]
Updated(info, a, b) == [info EXCEPT !.uses_this_inst = a, !.accumulated_uses = b]
Freed(info, a, b, c) ==
    [info EXCEPT !.values = {}, !.uses_this_inst = a, !.accumulated_uses = b, !.expected_uses = c]

LEMMA CountedType ==
    ASSUME NEW info \in Info, NEW a \in Int, NEW b \in Int
    PROVE  Counted(info, a, b) \in Info /\ Counted(info, a, b).values = info.values
<1>1. Counted(info, a, b) \in Info
  BY Zenon DEF Info, Counted
<1>2. Counted(info, a, b).values = info.values
  BY DEF Info, Counted
<1> QED
  BY <1>1, <1>2

LEMMA UpdatedType ==
    ASSUME NEW info \in Info, NEW a \in Int, NEW b \in Int
    PROVE  Updated(info, a, b) \in Info /\ Updated(info, a, b).values = info.values
<1>1. Updated(info, a, b) \in Info
  BY Zenon DEF Info, Updated
<1>2. Updated(info, a, b).values = info.values
  BY DEF Info, Updated
<1> QED
  BY <1>1, <1>2

LEMMA FreedType ==
    ASSUME NEW info \in Info, NEW a \in Int, NEW b \in Int, NEW c \in Int
    PROVE  Freed(info, a, b, c) \in Info /\ Freed(info, a, b, c).values = {}
<1>1. Freed(info, a, b, c) \in Info
  BY Zenon DEF Info, Freed
<1>2. Freed(info, a, b, c).values = {}
  BY DEF Info, Freed
<1> QED
  BY <1>1, <1>2

\* Counting the arguments moves nothing.
LEMMA WithArgumentsKeeps ==
    ASSUME Good(RA), NEW rs, IsFiniteSet(DOMAIN rs)
    PROVE  /\ WithArguments(rs) \in [HostLoc -> Info]
           /\ \A l \in HostLoc : WithArguments(rs)[l].values = infos[l].values
<1>1. infos \in [HostLoc -> Info]
  BY DEF Good, RAType, RA
<1>2. ASSUME NEW l \in HostLoc
      PROVE  WithArguments(rs)[l] \in Info /\ WithArguments(rs)[l].values = infos[l].values
  <2> DEFINE a == infos[l].uses_this_inst + ReadsOf(rs, infos[l].values)
             b == infos[l].locked + LocksOf(rs, infos[l].values)
  <2>1. infos[l] \in Info
    BY <1>1
  <2>2. ReadsOf(rs, infos[l].values) \in Int /\ LocksOf(rs, infos[l].values) \in Int
    BY CountsAreIntegers
  <2>3. a \in Int /\ b \in Int
    BY <2>1, <2>2 DEF Info
  <2>4. WithArguments(rs)[l] = Counted(infos[l], a, b)
    BY DEF WithArguments, Counted
  <2> HIDE DEF a, b
  <2> QED
    BY <2>1, <2>3, <2>4, CountedType
<1> QED
  BY <1>2, Zenon DEF WithArguments

LEMMA UpdateUsesType ==
    ASSUME NEW info \in Info
    PROVE  UpdateUses(info) \in Info /\ UpdateUses(info).values \subseteq info.values
<1> DEFINE n == info.accumulated_uses + info.uses_this_inst
<1>1. n \in Int
  BY DEF Info
<1>2. UpdateUses(info) = IF n = info.expected_uses THEN Freed(info, 0, 0, 0) ELSE Updated(info, 0, n)
  BY DEF UpdateUses, Freed, Updated
<1> HIDE DEF n
<1> QED
  BY <1>1, <1>2, UpdatedType, FreedType

\* The state between two instructions.
LEMMA EndsInOrder ==
    ASSUME NEW is \in [HostLoc -> Info], NEW cs, NEW ds,
           \A l, m \in HostLoc : \A i \in Inst : i \in is[l].values /\ i \in is[m].values => l = m,
           \A l \in HostLoc : \A i \in is[l].values : ds[i] \in Inst /\ cs[l] = ds[i],
           uses' \in [Inst -> Int], EndsWith(is, cs, ds)
    PROVE  IInv'
<1>1. /\ infos' = is
      /\ content' = [l \in HostLoc |-> IF is[l].values = {} THEN None ELSE cs[l]]
      /\ data' = [i \in Inst |-> IF \E l \in HostLoc : i \in is[l].values THEN ds[i] ELSE i]
      /\ regs' = <<>> /\ step' = "next"
  BY DEF EndsWith
<1>2. content' \in [HostLoc -> Inst \cup {None, Imm}]
  BY <1>1 DEF Info
<1>3. data' \in [Inst -> Inst]
  BY <1>1
<1>4. Good(RA')
  BY <1>1, <1>2 DEF Good, RAType, Unique, RA
<1>5. \A l \in HostLoc : \A i \in is[l].values : content'[l] = data'[i]
  BY <1>1 DEF Info
<1> QED
  BY <1>1, <1>3, <1>4, <1>5, ZenonT(30) DEF IInv, Sound, RA

\* What the emitters ask for when they begin.
NewReg(r, use_count) ==
    /\ r.reg = NoReg
    /\ r.rw \in {"Read", "Write", "ReadWrite", "ReadWriteFlags"}
    /\ r.rw = "Read" => r.kind \in Kinds /\ r.read # None /\ r.write = None
    /\ r.rw = "Write" => r.read = None /\ r.write \in Inst
    /\ r.rw = "ReadWrite" => r.kind \in Kinds /\ r.read # None /\ r.write \in Inst
    /\ r.rw = "ReadWriteFlags" => r.kind = "Flags" /\ r.read \in Inst /\ infos[Flags].values = {}
    /\ r.write # None => r.write \in DOMAIN use_count
    /\ r.read \in Inst => Held(RA, r.read)

\* Two of them neither write the same value, nor both take the flags, nor read
\* the same value into registers of different kinds.
Compatible(q, r) ==
    /\ q.write # None => q.write # r.write
    /\ ~(q.kind = "Flags" /\ r.kind = "Flags")
    /\ q.rw = "Read" /\ r.rw = "Read" /\ DataOf(q.read) = DataOf(r.read) => q.kind = r.kind

NewRegs(rs, use_count) ==
    /\ rs \in [DOMAIN rs -> Entry] /\ DOMAIN rs \subseteq Nat \ {0} /\ IsFiniteSet(DOMAIN rs)
    /\ \A k \in DOMAIN rs : NewReg(rs[k], use_count)
    /\ \A i \in DOMAIN use_count : i \in Fresh /\ use_count[i] \in Int
    /\ \A k, m \in DOMAIN rs : k # m => Compatible(rs[k], rs[m])
    /\ \A k, m \in DOMAIN rs : rs[k].rw = "ReadWriteFlags" => m =< k

LEMMA BeginWithInOrder ==
    ASSUME IInv, NEW rs, NEW use_count, NEW then \in {"spill", "realize"},
           NewRegs(rs, use_count), BeginWith(rs, use_count, then),
           then = "spill" => \A k \in DOMAIN rs : rs[k].kind # "Flags"
    PROVE  IInv'
<1>1. Good(RA) /\ Sound(RA, <<>>) /\ data \in [Inst -> Inst] /\ uses \in [Inst -> Int]
  BY DEF IInv, BeginWith
<1>2. /\ infos' = WithArguments(rs)
      /\ uses' = UsesAfter(rs, use_count)
      /\ data' = [i \in Inst |-> IF i \in DOMAIN use_count THEN i ELSE data[i]]
      /\ regs' = rs /\ step' = then /\ content' = content
  BY DEF BeginWith
<1>3. /\ infos' \in [HostLoc -> Info]
      /\ \A l \in HostLoc : infos'[l].values = infos[l].values
  BY <1>1, <1>2, WithArgumentsKeeps DEF NewRegs, NewReg, Compatible
<1>4. Good(RA')
  BY <1>1, <1>2, <1>3, Zenon DEF Good, RAType, Unique, RA
<1>5. \A l \in HostLoc : \A i \in infos[l].values : i \in Inst /\ i \notin DOMAIN use_count
  BY <1>1, SMTT(30) DEF NewRegs, NewReg, Compatible, Fresh, Good, RAType, Info, RA, Holds
<1>6. Sound(RA, regs)'
  BY <1>1, <1>2, <1>3, <1>5 DEF Sound, RA
<1>7. data' \in [Inst -> Inst]
  BY <1>1, <1>2
<1>8. uses' \in [Inst -> Int]
  <2>1. \A i \in Inst : Reads(rs, i) \in Int
    BY CountsAreIntegers DEF NewRegs
  <2> QED
    BY <1>1, <1>2, <2>1 DEF UsesAfter, NewRegs
<1>9. \A i \in Inst : Held(RA', i) <=> Held(RA, i)
  BY <1>3 DEF Held, Holds, RA
<1>10. \A k \in DOMAIN rs : rs[k].read \in Inst => rs[k].read \notin DOMAIN use_count
  BY DEF NewRegs, NewReg, Fresh, Held
<1>11. \A k \in DOMAIN rs : rs[k].read # None => DataOf(rs[k].read)' = DataOf(rs[k].read)
  BY <1>2, <1>10, Zenon DEF DataOf, NewRegs, Entry
<1>12. Shape(rs)'
  <2>1. \A k \in DOMAIN rs : Asked(rs[k])'
    BY <1>2 DEF Asked, NewRegs, NewReg, Entry
  <2>2. \A k, m \in DOMAIN rs : rs[k].read \in Inst => rs[k].read # rs[m].write
    BY <1>10, RegAllocAssumption, ZenonT(30) DEF NewRegs, NewReg, Entry
  <2>3. \A k, m \in DOMAIN rs : 
            rs[k].rw = "Read" /\ rs[m].rw = "Read" /\ DataOf(rs[k].read)' = DataOf(rs[m].read)'
                => rs[k].kind = rs[m].kind
    BY <1>11 DEF NewRegs, NewReg, Compatible
  <2> QED
    BY <2>1, <2>2, <2>3 DEF Shape, NewRegs, NewReg, Compatible
<1>13. \A k \in DOMAIN rs : Todo(RA', rs[k])
  <2>1. \A k \in DOMAIN rs : rs[k].write # None => rs[k].write \in Inst /\ ~Held(RA, rs[k].write)
    BY DEF NewRegs, NewReg, Fresh, Held
  <2> QED
    BY <1>3, <1>9, <2>1, Locations, ZenonT(30) DEF Todo, NewRegs, NewReg, RA
<1>14. Realizing(RA, regs)'
  <2>1. \A k \in DOMAIN rs : rs[k].reg = NoReg
    BY DEF NewRegs, NewReg
  <2> QED
    BY <1>2, <1>12, <1>13, <2>1, ZenonT(30) DEF Realizing
<1> QED
  BY <1>2, <1>4, <1>6, <1>7, <1>8, <1>14, SMTT(30) DEF IInv

LEMMA BeginInOrder ==
    ASSUME IInv, NEW rs, NEW use_count, NewRegs(rs, use_count), Begin(rs, use_count)
    PROVE  IInv'
<1>1. BeginWith(rs, use_count, "realize")
  BY DEF Begin
<1> QED
  BY <1>1, BeginWithInOrder

\* An operand is an immediate or an instruction that is held and not fresh.
LEMMA OperandIsHeld ==
    ASSUME NEW a \in Operand
    PROVE  /\ a \in Inst \cup {Imm} /\ a # None /\ a \notin Fresh
           /\ a \in Inst => Held(RA, a)
<1>1. None # Imm
  BY DEF None, Imm
<1>2. Imm \notin Inst /\ None \notin Inst
  BY RegAllocAssumption
<1> QED
  BY <1>1, <1>2 DEF Operand, Fresh, Held

LEMMA AccessType ==
    ASSUME NEW rw \in {"Read", "Write", "ReadWrite", "ReadWriteFlags", "Argument"},
           NEW kind \in Kinds \cup {"Flags"}, NEW read \in Inst \cup {Imm, None},
           NEW write \in Inst \cup {None}
    PROVE  /\ Access(rw, kind, read, write) \in Entry
           /\ Access(rw, kind, read, write).rw = rw
           /\ Access(rw, kind, read, write).kind = kind
           /\ Access(rw, kind, read, write).read = read
           /\ Access(rw, kind, read, write).write = write
           /\ Access(rw, kind, read, write).reg = NoReg
BY DEF Access, Entry

\* The sequences that the emitters list.
LEMMA Listed ==
    ASSUME NEW x \in Entry, NEW y \in Entry, NEW z \in Entry
    PROVE  /\ <<x, y>> \in Seq(Entry) /\ <<x, y, z>> \in Seq(Entry)
           /\ <<x, y, z>> = Append(<<x, y>>, z)
           /\ \A k \in DOMAIN <<x, y>> : <<x, y>>[k] \in {x, y}
           /\ \A k \in DOMAIN <<x, y, z>> : <<x, y, z>>[k] \in {x, y, z}
OBVIOUS

LEMMA ListedFour ==
    ASSUME NEW x \in Entry, NEW y \in Entry, NEW z \in Entry, NEW v \in Entry
    PROVE  <<x, y, z, v>> = Append(<<x, y, z>>, v)
OBVIOUS

\* The registers of an instruction with two of them
LEMMA PairIsNew ==
    ASSUME NEW q \in Entry, NEW r \in Entry, NEW use_count,
           NewReg(q, use_count), NewReg(r, use_count), Compatible(q, r), Compatible(r, q),
           q.rw # "ReadWriteFlags", r.rw # "ReadWriteFlags",
           \A i \in DOMAIN use_count : i \in Fresh /\ use_count[i] \in Int
    PROVE  NewRegs(<<q, r>>, use_count)
<1> DEFINE rs == <<q, r>>
<1>1. rs \in [{1, 2} -> Entry] /\ DOMAIN rs = {1, 2}
  <2>1. rs \in [1 .. 2 -> Entry]
    OBVIOUS
  <2>2. 1 .. 2 = {1, 2}
    OBVIOUS
  <2> QED
    BY <2>1, <2>2, Zenon
<1>2. rs[1] = q /\ rs[2] = r
  OBVIOUS
<1> HIDE DEF rs
<1>3. IsFiniteSet(DOMAIN rs)
  <2>1. IsFiniteSet({1}) /\ IsFiniteSet({1} \cup {2})
    BY FS_Singleton, FS_AddElement, ZenonT(30)
  <2> QED
    BY <1>1, <2>1
<1>4. DOMAIN rs \subseteq Nat \ {0}
  BY <1>1
<1>5. \A k \in DOMAIN rs : NewReg(rs[k], use_count) /\ rs[k].rw # "ReadWriteFlags"
  BY <1>1, <1>2, Zenon
<1>6. \A k, m \in DOMAIN rs : k # m => Compatible(rs[k], rs[m])
  BY <1>1, <1>2, Zenon
<1>7. NewRegs(rs, use_count)
  BY <1>1, <1>3, <1>4, <1>5, <1>6, Zenon DEF NewRegs
<1> QED
  BY <1>7 DEF rs

LEMMA Appended ==
    ASSUME NEW rs \in Seq(Entry), NEW r \in Entry
    PROVE  /\ Append(rs, r) \in Seq(Entry) /\ Append(rs, r) \in [DOMAIN Append(rs, r) -> Entry]
           /\ DOMAIN Append(rs, r) \subseteq Nat \ {0} /\ IsFiniteSet(DOMAIN Append(rs, r))
           /\ \A k \in DOMAIN Append(rs, r) :
                \/ k = Len(rs) + 1 /\ Append(rs, r)[k] = r
                \/ k \in DOMAIN rs /\ Append(rs, r)[k] = rs[k]
           /\ \A k \in DOMAIN Append(rs, r) : k =< Len(rs) + 1
<1>1. Len(rs) + 1 \in Nat /\ Append(rs, r) \in Seq(Entry) /\ DOMAIN Append(rs, r) = 1 .. Len(rs) + 1
  OBVIOUS
<1>2. DOMAIN rs = 1 .. Len(rs) /\ Append(rs, r)[Len(rs) + 1] = r
  OBVIOUS
<1>3. \A k \in 1 .. Len(rs) : Append(rs, r)[k] = rs[k]
  OBVIOUS
<1>4. \A m \in Nat : IsFiniteSet(1 .. m)
  BY FS_Interval
<1>5. IsFiniteSet(DOMAIN Append(rs, r))
  BY <1>1, <1>4, Zenon
<1>6. \A k \in 1 .. Len(rs) + 1 : k = Len(rs) + 1 \/ k \in 1 .. Len(rs)
  OBVIOUS
<1>7. \A k \in 1 .. Len(rs) + 1 : k =< Len(rs) + 1 /\ k \in Nat \ {0}
  OBVIOUS
<1>8. Append(rs, r) \in [DOMAIN Append(rs, r) -> Entry]
  <2>1. \A s \in Seq(Entry) : s \in [DOMAIN s -> Entry]
    OBVIOUS
  <2> QED
    BY <1>1, <2>1, Zenon
<1> QED
  BY <1>1, <1>2, <1>3, <1>5, <1>6, <1>7, <1>8, ZenonT(30)

\* One more register, after others that do not take the flags
LEMMA AppendIsNew ==
    ASSUME NEW rs \in Seq(Entry), NEW r \in Entry, NEW use_count,
           NewRegs(rs, use_count), NewReg(r, use_count),
           \A k \in DOMAIN rs : /\ rs[k].rw # "ReadWriteFlags"
                                /\ Compatible(rs[k], r) /\ Compatible(r, rs[k])
    PROVE  NewRegs(Append(rs, r), use_count)
<1> DEFINE n == Len(rs) + 1
           as == Append(rs, r)
<1>1. /\ as \in [DOMAIN as -> Entry] /\ DOMAIN as \subseteq Nat \ {0} /\ IsFiniteSet(DOMAIN as)
      /\ \A k \in DOMAIN as : (k = n /\ as[k] = r) \/ (k \in DOMAIN rs /\ as[k] = rs[k])
      /\ \A k \in DOMAIN as : k =< n
  BY Appended, Zenon
<1> HIDE DEF n, as
<1>2. \A i \in DOMAIN use_count : i \in Fresh /\ use_count[i] \in Int
  BY DEF NewRegs
<1>3. \A k \in DOMAIN as : NewReg(as[k], use_count)
  BY <1>1, Zenon DEF NewRegs
<1>4. \A k, m \in DOMAIN as : k # m => Compatible(as[k], as[m])
  BY <1>1, Zenon DEF NewRegs
<1>5. \A k, m \in DOMAIN as : as[k].rw = "ReadWriteFlags" => m =< k
  BY <1>1, Zenon
<1>6. NewRegs(as, use_count)
  BY <1>1, <1>2, <1>3, <1>4, <1>5, ZenonT(30) DEF NewRegs
<1> QED
  BY <1>6 DEF as

LEMMA EmitUseInOrder ==
    ASSUME IInv, NEW a \in Operand, NEW b \in Operand, NEW ka \in Kinds, NEW kb \in Kinds,
           EmitUse(a, b, ka, kb)
    PROVE  IInv'
<1> DEFINE r1 == Access("Read", ka, a, None)
           r2 == Access("Read", kb, b, None)
           rs == <<r1, r2>>
<1>1. /\ a \in Inst \cup {Imm} /\ a # None /\ (a \in Inst => Held(RA, a))
      /\ b \in Inst \cup {Imm} /\ b # None /\ (b \in Inst => Held(RA, b))
  BY OperandIsHeld, Zenon
<1>2. /\ r1 \in Entry /\ r1.rw = "Read" /\ r1.kind = ka /\ r1.read = a /\ r1.write = None /\ r1.reg = NoReg
      /\ r2 \in Entry /\ r2.rw = "Read" /\ r2.kind = kb /\ r2.read = b /\ r2.write = None /\ r2.reg = NoReg
  BY <1>1, AccessType
<1>3. (DataOf(a) = DataOf(b) => ka = kb) /\ Begin(rs, <<>>)
  BY DEF EmitUse
<1> HIDE DEF r1, r2
<1>4. NewReg(r1, <<>>) /\ NewReg(r2, <<>>)
  BY <1>1, <1>2, Zenon DEF NewReg
<1>5. Compatible(r1, r2) /\ Compatible(r2, r1)
  BY <1>2, <1>3 DEF Compatible, Kinds
<1>6. r1.rw # "ReadWriteFlags" /\ r2.rw # "ReadWriteFlags"
  BY <1>2
<1>7. \A i \in DOMAIN <<>> : i \in Fresh /\ <<>>[i] \in Int
  OBVIOUS
<1>8. NewRegs(rs, <<>>)
  BY <1>2, <1>4, <1>5, <1>6, <1>7, PairIsNew, SMTT(30)
<1> QED
  BY <1>3, <1>8, BeginInOrder, Zenon

LEMMA EmitTwoOpInOrder ==
    ASSUME IInv, NEW a \in Operand, NEW w \in Fresh, NEW ka \in Kinds, NEW kw \in Kinds \cup {"Flags"},
           NEW n \in 0 .. MaxUses, EmitTwoOp(a, w, ka, kw, n)
    PROVE  IInv'
<1> DEFINE r1 == Access("Read", ka, a, None)
           r2 == Access("Write", kw, None, w)
           uc == [i \in {w} |-> n]
<1>1. /\ a \in Inst \cup {Imm} /\ a # None /\ (a \in Inst => Held(RA, a))
      /\ w \in Inst /\ w # None /\ n \in Int /\ ka # "Flags"
  BY OperandIsHeld, RegAllocAssumption, SMTT(30) DEF Fresh, Kinds
<1>2. /\ r1 \in Entry /\ r1.rw = "Read" /\ r1.kind = ka /\ r1.read = a /\ r1.write = None /\ r1.reg = NoReg
      /\ r2 \in Entry /\ r2.rw = "Write" /\ r2.kind = kw /\ r2.read = None /\ r2.write = w /\ r2.reg = NoReg
  BY <1>1, AccessType, SMTT(30)
<1>3. DOMAIN uc = {w} /\ uc[w] = n
  OBVIOUS
<1>4. Begin(<<r1, r2>>, uc) \/ Begin(<<r2, r1>>, uc)
  BY DEF EmitTwoOp
<1>5. None \notin Inst
  BY RegAllocAssumption
<1> HIDE DEF r1, r2, uc
<1>6. NewReg(r1, uc)
  BY <1>1, <1>2 DEF NewReg
<1>7. NewReg(r2, uc)
  BY <1>1, <1>2, <1>3, <1>5, SMTT(30) DEF NewReg
<1>8. Compatible(r1, r2) /\ Compatible(r2, r1)
  BY <1>1, <1>2 DEF Compatible
<1>9. r1.rw # "ReadWriteFlags" /\ r2.rw # "ReadWriteFlags"
  BY <1>2
<1>10. \A i \in DOMAIN uc : i \in Fresh /\ uc[i] \in Int
  BY <1>1, <1>3
<1>11. NewRegs(<<r1, r2>>, uc) /\ NewRegs(<<r2, r1>>, uc)
  BY <1>2, <1>6, <1>7, <1>8, <1>9, <1>10, PairIsNew, ZenonT(30)
<1> QED
  BY <1>4, <1>11, BeginInOrder, ZenonT(30)

LEMMA EmitSetElementInOrder ==
    ASSUME IInv, NEW a \in Operand, NEW b \in Operand, NEW w \in Fresh, NEW n \in 0 .. MaxUses,
           EmitSetElement(a, b, w, n)
    PROVE  IInv'
<1> DEFINE r1 == Access("ReadWrite", "Fpr", a, w)
           r2 == Access("Read", "Gpr", b, None)
           rs == <<r1, r2>>
           uc == [i \in {w} |-> n]
<1>1. /\ a \in Inst \cup {Imm} /\ a # None /\ (a \in Inst => Held(RA, a))
      /\ b \in Inst \cup {Imm} /\ b # None /\ (b \in Inst => Held(RA, b))
      /\ w \in Inst /\ w # None /\ n \in Int
  BY OperandIsHeld, RegAllocAssumption, SMTT(30) DEF Fresh
<1>2. /\ r1 \in Entry /\ r1.rw = "ReadWrite" /\ r1.kind = "Fpr" /\ r1.read = a /\ r1.write = w /\ r1.reg = NoReg
      /\ r2 \in Entry /\ r2.rw = "Read" /\ r2.kind = "Gpr" /\ r2.read = b /\ r2.write = None /\ r2.reg = NoReg
  BY <1>1, AccessType DEF Kinds
<1>3. DOMAIN uc = {w} /\ uc[w] = n
  OBVIOUS
<1>4. Begin(rs, uc)
  BY DEF EmitSetElement
<1> HIDE DEF r1, r2, uc
<1>5. None \notin Inst
  BY RegAllocAssumption, Zenon
<1>6. NewReg(r1, uc)
  BY <1>1, <1>2, <1>3, <1>5, SMTT(30) DEF NewReg, Kinds
<1>7. NewReg(r2, uc)
  BY <1>1, <1>2, SMTT(30) DEF NewReg, Kinds
<1>8. Compatible(r1, r2) /\ Compatible(r2, r1)
  BY <1>1, <1>2 DEF Compatible
<1>9. r1.rw # "ReadWriteFlags" /\ r2.rw # "ReadWriteFlags"
  BY <1>2
<1>10. \A i \in DOMAIN uc : i \in Fresh /\ uc[i] \in Int
  BY <1>1, <1>3
<1>11. NewRegs(rs, uc)
  BY <1>2, <1>6, <1>7, <1>8, <1>9, <1>10, PairIsNew, ZenonT(30)
<1> QED
  BY <1>4, <1>11, BeginInOrder, ZenonT(30)

\* What the emitters with two operands and one result or two ask for
TripleNew(r1, r2, r3, kind, w, uc) ==
    /\ NewRegs(<<r1, r2>>, uc) /\ NewRegs(<<r1, r2, r3>>, uc)
    /\ r1 \in Entry /\ r2 \in Entry /\ r3 \in Entry
    /\ \A r \in {r1, r2, r3} : r.rw \in {"Read", "Write"} /\ r.kind = kind /\ r.write \in {w, None}

LEMMA TripleIsNew ==
    ASSUME NEW a \in Operand, NEW b \in Operand, NEW w \in Fresh, NEW kind \in Kinds,
           NEW uc, w \in DOMAIN uc, \A i \in DOMAIN uc : i \in Fresh /\ uc[i] \in Int
    PROVE  TripleNew(Access("Write", kind, None, w), Access("Read", kind, a, None),
                     Access("Read", kind, b, None), kind, w, uc)
<1> DEFINE r1 == Access("Write", kind, None, w)
           r2 == Access("Read", kind, a, None)
           r3 == Access("Read", kind, b, None)
<1>1. /\ a \in Inst \cup {Imm} /\ a # None /\ (a \in Inst => Held(RA, a))
      /\ b \in Inst \cup {Imm} /\ b # None /\ (b \in Inst => Held(RA, b))
  BY OperandIsHeld, Zenon
<1>2. w \in Inst /\ w # None /\ None \notin Inst
  BY RegAllocAssumption DEF Fresh
<1>3. r1 \in Entry /\ r1.rw = "Write" /\ r1.kind = kind /\ r1.read = None /\ r1.write = w /\ r1.reg = NoReg
  BY <1>2, AccessType, SMTT(30)
<1>4. /\ r2 \in Entry /\ r2.rw = "Read" /\ r2.kind = kind /\ r2.read = a /\ r2.write = None /\ r2.reg = NoReg
      /\ r3 \in Entry /\ r3.rw = "Read" /\ r3.kind = kind /\ r3.read = b /\ r3.write = None /\ r3.reg = NoReg
  BY <1>1, AccessType, SMTT(30)
<1> HIDE DEF r1, r2, r3
<1>5. NewReg(r1, uc)
  BY <1>2, <1>3, SMTT(30) DEF NewReg
<1>6. NewReg(r2, uc) /\ NewReg(r3, uc)
  BY <1>1, <1>4, SMTT(30) DEF NewReg
<1>7. kind # "Flags"
  BY DEF Kinds
<1>8. /\ Compatible(r1, r2) /\ Compatible(r2, r1) /\ Compatible(r1, r3) /\ Compatible(r3, r1)
      /\ Compatible(r2, r3) /\ Compatible(r3, r2)
  BY <1>2, <1>3, <1>4, <1>7 DEF Compatible
<1>9. /\ <<r1, r2>> \in Seq(Entry) /\ <<r1, r2, r3>> \in Seq(Entry)
      /\ <<r1, r2, r3>> = Append(<<r1, r2>>, r3)
      /\ \A k \in DOMAIN <<r1, r2>> : <<r1, r2>>[k] \in {r1, r2}
  <2>1. r1 \in Entry /\ r2 \in Entry /\ r3 \in Entry
    BY <1>3, <1>4
  <2> QED
    BY <2>1, Listed
<1>10. \A r \in {r1, r2, r3} : r.rw \in {"Read", "Write"} /\ r.kind = kind /\ r.write \in {w, None}
  BY <1>3, <1>4
<1>11. \A r \in {r1, r2, r3} : r.rw # "ReadWriteFlags"
  BY <1>10
<1>12. NewRegs(<<r1, r2>>, uc)
  BY <1>3, <1>4, <1>5, <1>6, <1>8, <1>11, PairIsNew, ZenonT(30)
<1> DEFINE two == <<r1, r2>>
<1>13. two \in Seq(Entry) /\ NewRegs(two, uc) /\ \A k \in DOMAIN two : two[k] \in {r1, r2}
  BY <1>9, <1>12
<1> HIDE DEF two
<1>14. \A k \in DOMAIN two : /\ two[k].rw # "ReadWriteFlags"
                             /\ Compatible(two[k], r3) /\ Compatible(r3, two[k])
  BY <1>8, <1>11, <1>13, Zenon
<1>15. NewRegs(Append(two, r3), uc)
  BY <1>4, <1>6, <1>13, <1>14, AppendIsNew, ZenonT(30)
<1>16. NewRegs(<<r1, r2, r3>>, uc)
  BY <1>9, <1>15, Zenon DEF two
<1>17. r1 \in Entry /\ r2 \in Entry /\ r3 \in Entry
  BY <1>3, <1>4, Zenon
<1>18. TripleNew(r1, r2, r3, kind, w, uc)
  BY <1>10, <1>12, <1>16, <1>17, ZenonT(40) DEF TripleNew
<1> QED
  BY <1>18, ZenonT(40) DEF r1, r2, r3

LEMMA EmitThreeOpInOrder ==
    ASSUME IInv, NEW a \in Operand, NEW b \in Operand, NEW w \in Fresh, NEW kind \in Kinds,
           NEW n \in 0 .. MaxUses, EmitThreeOp(a, b, w, kind, n)
    PROVE  IInv'
<1> DEFINE uc == [i \in {w} |-> n]
           r1 == Access("Write", kind, None, w)
           r2 == Access("Read", kind, a, None)
           r3 == Access("Read", kind, b, None)
           rs == <<r1, r2, r3>>
<1>1. Begin(rs, uc)
  BY DEF EmitThreeOp
<1>2. w \in DOMAIN uc /\ \A i \in DOMAIN uc : i \in Fresh /\ uc[i] \in Int
  BY RegAllocAssumption
<1> HIDE DEF uc
<1>3. TripleNew(r1, r2, r3, kind, w, uc)
  BY <1>2, TripleIsNew, Zenon
<1> HIDE DEF r1, r2, r3
<1>4. NewRegs(rs, uc)
  BY <1>3, ZenonT(40) DEF TripleNew
<1> HIDE DEF rs
<1> QED
  BY <1>1, <1>4, BeginInOrder, Zenon

\* The operands of EmitAddSub, and one more register after them: the flags or a
\* second result
OperandsNew(rs, w, uc) ==
    /\ rs \in Seq(Entry) /\ NewRegs(rs, uc)
    /\ \A k \in DOMAIN rs : /\ rs[k].rw \in {"Read", "Write"} /\ rs[k].kind = "Gpr"
                            /\ rs[k].write \in {w, None}

LEMMA AddSubOperandsAreNew ==
    ASSUME NEW a \in Operand, NEW b \in Operand, NEW w \in Fresh,
           NEW uc, w \in DOMAIN uc, \A i \in DOMAIN uc : i \in Fresh /\ uc[i] \in Int
    PROVE  OperandsNew(AddSubOperands(a, b, w), w, uc)
<1> DEFINE r1 == Access("Write", "Gpr", None, w)
           r2 == Access("Read", "Gpr", a, None)
           r3 == Access("Read", "Gpr", b, None)
           rs == AddSubOperands(a, b, w)
<1>1. rs = <<r1, r2>> \/ rs = Append(<<r1, r2>>, r3)
  BY Zenon DEF AddSubOperands
<1>2. "Gpr" \in Kinds
  BY DEF Kinds
<1>3. TripleNew(r1, r2, r3, "Gpr", w, uc)
  BY <1>2, TripleIsNew, Zenon
<1> HIDE DEF r1, r2, r3, rs
<1>4. /\ NewRegs(<<r1, r2>>, uc) /\ NewRegs(<<r1, r2, r3>>, uc)
      /\ r1 \in Entry /\ r2 \in Entry /\ r3 \in Entry
      /\ \A r \in {r1, r2, r3} : r.rw \in {"Read", "Write"} /\ r.kind = "Gpr" /\ r.write \in {w, None}
  BY <1>3, ZenonT(40) DEF TripleNew
<1>5. /\ <<r1, r2>> \in Seq(Entry) /\ <<r1, r2, r3>> \in Seq(Entry)
      /\ <<r1, r2, r3>> = Append(<<r1, r2>>, r3)
      /\ \A k \in DOMAIN <<r1, r2>> : <<r1, r2>>[k] \in {r1, r2}
      /\ \A k \in DOMAIN <<r1, r2, r3>> : <<r1, r2, r3>>[k] \in {r1, r2, r3}
  BY <1>4, Listed
<1>6. rs \in Seq(Entry) /\ NewRegs(rs, uc) /\ \A k \in DOMAIN rs : rs[k] \in {r1, r2, r3}
  BY <1>1, <1>4, <1>5, Zenon
<1>7. \A k \in DOMAIN rs : /\ rs[k].rw \in {"Read", "Write"} /\ rs[k].kind = "Gpr"
                           /\ rs[k].write \in {w, None}
  BY <1>4, <1>6, Zenon
<1>8. OperandsNew(rs, w, uc)
  BY <1>6, <1>7, Zenon DEF OperandsNew
<1> QED
  BY <1>8, ZenonT(40) DEF rs

LEMMA ResultAfterOperands ==
    ASSUME NEW rs, NEW uc, NEW w \in Inst, NEW r \in Entry, OperandsNew(rs, w, uc), NewReg(r, uc),
           r.rw \in {"Write", "ReadWriteFlags"}, r.write # w
    PROVE  NewRegs(Append(rs, r), uc)
<1> USE DEF OperandsNew
<1>1. ASSUME NEW q \in Entry, q.rw \in {"Read", "Write"}, q.kind = "Gpr", q.write \in {w, None}
      PROVE  q.rw # "ReadWriteFlags" /\ Compatible(q, r) /\ Compatible(r, q)
  <2>1. q.write # None => q.write # r.write
    BY <1>1
  <2>2. r.write # None => r.write # q.write
    BY <1>1
  <2>3. q.kind # "Flags" /\ q.rw # "ReadWriteFlags" /\ r.rw # "Read"
    BY <1>1
  <2> QED
    BY <2>1, <2>2, <2>3, ZenonT(30) DEF Compatible
<1>2. \A k \in DOMAIN rs : rs[k] \in Entry
  OBVIOUS
<1>3. \A k \in DOMAIN rs : rs[k].rw # "ReadWriteFlags" /\ Compatible(rs[k], r) /\ Compatible(r, rs[k])
  BY <1>1, <1>2, Zenon
<1> QED
  BY <1>3, AppendIsNew, Zenon

\* The second result of EmitAddSub
LEMMA SecondResultIsNew ==
    ASSUME NEW rs, NEW uc, NEW w \in Fresh, NEW f \in Fresh, w # f, OperandsNew(rs, w, uc),
           f \in DOMAIN uc, NEW kind \in {"Gpr", "Flags"}
    PROVE  /\ NewRegs(Append(rs, Access("Write", kind, None, f)), uc)
           /\ Access("Write", kind, None, f).kind = kind
<1> DEFINE r == Access("Write", kind, None, f)
<1>1. w \in Inst /\ f \in Inst /\ None \notin Inst /\ f # None /\ kind \in Kinds \cup {"Flags"}
  BY RegAllocAssumption DEF Fresh, Kinds
<1>2. r \in Entry /\ r.rw = "Write" /\ r.kind = kind /\ r.read = None /\ r.write = f /\ r.reg = NoReg
  BY <1>1, AccessType, SMTT(30)
<1> HIDE DEF r
<1>3. NewReg(r, uc)
  BY <1>1, <1>2, SMTT(30) DEF NewReg
<1>4. NewRegs(Append(rs, r), uc)
  BY <1>1, <1>2, <1>3, ResultAfterOperands, SMTT(30)
<1> QED
  BY <1>2, <1>4, ZenonT(30) DEF r

LEMMA EmitAddSubInOrder ==
    ASSUME IInv, NEW a \in Operand, NEW b \in Operand, NEW w \in Fresh,
           NEW f \in Fresh \cup {None}, NEW n \in 0 .. MaxUses, w # f, EmitAddSub(a, b, w, f, n)
    PROVE  IInv'
<1> DEFINE uc == [i \in {w, f} \ {None} |-> n]
           rs == AddSubOperands(a, b, w)
<1>1. Begin(IF f = None THEN rs ELSE Append(rs, Access("Write", "Flags", None, f)), uc)
  BY DEF EmitAddSub
<1>2. w \in DOMAIN uc /\ (f # None => f \in DOMAIN uc) /\ \A i \in DOMAIN uc : i \in Fresh /\ uc[i] \in Int
  BY RegAllocAssumption DEF Fresh
<1> HIDE DEF uc
<1>3. OperandsNew(rs, w, uc)
  BY <1>2, AddSubOperandsAreNew, Zenon
<1> HIDE DEF rs
<1>4. CASE f = None
  <2>1. NewRegs(rs, uc) /\ Begin(rs, uc)
    BY <1>1, <1>3, <1>4, Zenon DEF OperandsNew
  <2> QED
    BY <2>1, BeginInOrder, Zenon
<1>5. CASE f # None
  <2> DEFINE all == Append(rs, Access("Write", "Flags", None, f))
  <2>1. f \in Fresh /\ f \in DOMAIN uc /\ "Flags" \in {"Gpr", "Flags"}
    BY <1>2, <1>5
  <2>2. NewRegs(all, uc)
    BY <1>3, <2>1, SecondResultIsNew, ZenonT(30)
  <2>3. Begin(all, uc)
    BY <1>1, <1>5, Zenon
  <2> HIDE DEF all
  <2> QED
    BY <2>2, <2>3, BeginInOrder, Zenon
<1> QED
  BY <1>4, <1>5

LEMMA EmitAddSubCarryInOrder ==
    ASSUME IInv, NEW a \in Operand, NEW b \in Operand, NEW c \in Operand \ {Imm}, NEW w \in Fresh,
           NEW f \in Fresh \cup {None}, NEW n \in 0 .. MaxUses, w # f, EmitAddSubCarry(a, b, c, w, f, n)
    PROVE  IInv'
<1> DEFINE uc == [i \in {w, f} \ {None} |-> n]
           rs == AddSubOperands(a, b, w)
           r == Access("ReadWriteFlags", "Flags", c, f)
           all == Append(rs, r)
<1>1. Begin(all, uc) /\ infos[Flags].values = {}
  BY DEF EmitAddSubCarry
<1>2. w \in DOMAIN uc /\ (f # None => f \in DOMAIN uc) /\ \A i \in DOMAIN uc : i \in Fresh /\ uc[i] \in Int
  BY RegAllocAssumption DEF Fresh
<1> HIDE DEF uc
<1>3. OperandsNew(rs, w, uc)
  BY <1>2, AddSubOperandsAreNew, ZenonT(30)
<1>4. c \in Inst /\ c # None /\ Held(RA, c) /\ w \in Inst /\ f \in Inst \cup {None}
  BY OperandIsHeld, RegAllocAssumption, SMTT(30) DEF Fresh
<1>5. r \in Entry /\ r.rw = "ReadWriteFlags" /\ r.kind = "Flags" /\ r.read = c /\ r.write = f /\ r.reg = NoReg
  BY <1>4, AccessType, SMTT(30)
<1> HIDE DEF rs, r
<1>6. NewReg(r, uc)
  BY <1>1, <1>2, <1>4, <1>5, SMTT(30) DEF NewReg
<1>7. NewRegs(all, uc)
  BY <1>3, <1>4, <1>5, <1>6, ResultAfterOperands, SMTT(30)
<1> HIDE DEF all
<1> QED
  BY <1>1, <1>7, BeginInOrder, ZenonT(30)

LEMMA EmitAddOverflowInOrder ==
    ASSUME IInv, NEW a \in Operand, NEW b \in Operand, NEW w \in Fresh, NEW o \in Fresh,
           NEW n \in 0 .. MaxUses, w # o, EmitAddOverflow(a, b, w, o, n)
    PROVE  IInv'
<1> DEFINE uc == [i \in {w, o} |-> n]
           r1 == Access("Write", "Gpr", None, w)
           r2 == Access("Read", "Gpr", a, None)
           r3 == Access("Read", "Gpr", b, None)
           r4 == Access("Write", "Gpr", None, o)
           rs == <<r1, r2, r3>>
           all == <<r1, r2, r3, r4>>
<1>1. BeginWith(all, uc, "spill")
  BY DEF EmitAddOverflow
<1>2. w \in DOMAIN uc /\ o \in DOMAIN uc /\ \A i \in DOMAIN uc : i \in Fresh /\ uc[i] \in Int
  BY RegAllocAssumption DEF Fresh
<1> HIDE DEF uc
<1>3. "Gpr" \in Kinds /\ "Gpr" \in {"Gpr", "Flags"} /\ o \in Inst /\ None \in Inst \cup {Imm, None}
  BY DEF Kinds, Fresh
<1>4. TripleNew(r1, r2, r3, "Gpr", w, uc)
  BY <1>2, <1>3, TripleIsNew, ZenonT(30)
<1>5. r4 \in Entry /\ r4.kind = "Gpr"
  BY <1>3, AccessType, SMTT(30)
<1> HIDE DEF r1, r2, r3
<1>6. /\ NewRegs(rs, uc) /\ r1 \in Entry /\ r2 \in Entry /\ r3 \in Entry
      /\ \A r \in {r1, r2, r3} : r.rw \in {"Read", "Write"} /\ r.kind = "Gpr" /\ r.write \in {w, None}
  BY <1>4, ZenonT(40) DEF TripleNew
<1>7. rs \in Seq(Entry) /\ \A k \in DOMAIN rs : rs[k] \in {r1, r2, r3}
  BY <1>6, Listed, SMTT(30)
<1>8. all = Append(rs, r4)
  <2> HIDE DEF r4
  <2> QED
    BY <1>5, <1>6, ListedFour, SMTT(30)
<1>9. \A k \in DOMAIN all : all[k] \in {r1, r2, r3, r4}
  <2> HIDE DEF r4
  <2> QED
    OBVIOUS
<1> HIDE DEF rs, all
<1>10. OperandsNew(rs, w, uc)
  BY <1>6, <1>7, ZenonT(30) DEF OperandsNew
<1>11. NewRegs(all, uc)
  BY <1>2, <1>3, <1>8, <1>10, SecondResultIsNew, ZenonT(30)
<1> HIDE DEF r4
<1>12. \A k \in DOMAIN all : all[k].kind # "Flags"
  BY <1>5, <1>6, <1>9, SMTT(30)
<1> QED
  BY <1>1, <1>11, <1>12, BeginWithInOrder, SMTT(30)

LEMMA FinishInOrder ==
    ASSUME IInv, Finish
    PROVE  IInv'
<1>1. /\ Good(RA) /\ Sound(RA, regs) /\ Realizing(RA, regs) /\ infos \in [HostLoc -> Info]
      /\ data \in [Inst -> Inst] /\ uses \in [Inst -> Int] /\ uses' = uses
      /\ \A k \in DOMAIN regs : regs[k].reg # NoReg
      /\ IsFiniteSet(DOMAIN regs)
  BY DEF IInv, Finish, Realizing, Shape, Good, RAType, RA
<1> DEFINE is == [l \in HostLoc |-> Released(l)]
           cs == [l \in HostLoc |-> ResultIn(l)]
<1>2. ASSUME NEW l \in HostLoc
      PROVE  is[l] \in Info /\ is[l].values \subseteq infos[l].values
  <2> DEFINE n == infos[l].locked - LocksOf(regs, infos[l].values)
             b == infos[l].realized /\ l \notin {regs[k].reg : k \in DOMAIN regs}
             info == [infos[l] EXCEPT !.locked = n, !.realized = b]
  <2>1. infos[l] \in Info /\ LocksOf(regs, infos[l].values) \in Int
    BY <1>1, CountsAreIntegers
  <2>2. n \in Int /\ b \in BOOLEAN
    BY <2>1 DEF Info
  <2>3. is[l] = UpdateUses(info)
    BY DEF Released
  <2> HIDE DEF n, b
  <2>4. info \in Info
    BY <2>1, <2>2, Zenon DEF Info
  <2>5. info.values = infos[l].values
    BY <2>1 DEF Info
  <2> HIDE DEF info, is
  <2> QED
    BY <2>3, <2>4, <2>5, UpdateUsesType, SMTT(30)
<1>3. ASSUME NEW l \in HostLoc, NEW i \in infos[l].values
      PROVE  data[i] \in Inst /\ cs[l] = data[i]
  <2> DEFINE ks == {k \in DOMAIN regs : regs[k].reg = l /\ regs[k].write # None}
  <2>1. i \in Inst /\ data[i] \in Inst
    BY <1>1, <1>3, SMTT(30) DEF Info
  <2>2. \A k \in DOMAIN regs : regs[k].write # None => 
            /\ regs[k].reg \in HostLoc /\ infos[regs[k].reg].values = {regs[k].write}
            /\ data[regs[k].write] = regs[k].write
    BY <1>1, SMTT(30) DEF Realizing, Done, Shape, Asked, RA
  <2>3. CASE ks = {}
    <3>1. cs[l] = content[l]
      BY <2>3 DEF ResultIn
    <3>2. ASSUME NEW k \in DOMAIN regs PROVE regs[k].write # i
      <4>1. SUFFICES ASSUME regs[k].write = i PROVE FALSE
        OBVIOUS
      <4>2. i # None
        BY <2>1, RegAllocAssumption, SMTT(30)
      <4>3. regs[k].reg = l
        BY <1>1, <1>3, <2>1, <2>2, <4>1, <4>2, SMTT(30) DEF Good, Unique, RA
      <4> QED
        BY <2>3, <4>1, <4>2, <4>3, SMTT(30)
    <3> QED
      BY <1>1, <1>3, <2>1, <3>1, <3>2, SMTT(30) DEF Sound, RA
  <2>4. CASE ks # {}
    <3> DEFINE k == CHOOSE n \in ks : TRUE
    <3>1. k \in ks
      BY <2>4
    <3>2. cs[l] = regs[k].write
      BY <2>4 DEF ResultIn
    <3> HIDE DEF k
    <3> QED
      BY <1>3, <2>1, <2>2, <3>1, <3>2, SMTT(30)
  <2> QED
    BY <2>3, <2>4
<1>4. EndsWith(is, cs, data)
  BY DEF Finish
<1>5. is \in [HostLoc -> Info]
  BY <1>2, SMTT(30)
<1> HIDE DEF is, cs
<1>6. \A l, m \in HostLoc : \A i \in Inst : i \in is[l].values /\ i \in is[m].values => l = m
  BY <1>1, <1>2, SMTT(30) DEF Good, Unique, RA
<1>7. \A l \in HostLoc : \A i \in is[l].values : data[i] \in Inst /\ cs[l] = data[i]
  BY <1>2, <1>3, SMTT(30)
<1> QED
  BY <1>1, <1>4, <1>5, <1>6, <1>7, EndsInOrder, SMTT(30)

LEMMA DefineAsExistingInOrder ==
    ASSUME IInv, NEW a \in Operand \ {Imm}, NEW w \in Fresh, NEW n \in 0 .. MaxUses,
           DefineAsExisting(w, a, n)
    PROVE  IInv'
<1> DEFINE rs == <<Access("Existing", "Gpr", a, None)>>
           at == ValueLocation(RA, a)
           wa == WithArguments(rs)
           defined == [wa EXCEPT ![at].values = @ \cup {w}, ![at].expected_uses = @ + n]
           is == [l \in HostLoc |-> UpdateUses(defined[l])]
           ds == [data EXCEPT ![w] = data[a]]
           uc == [i \in {w} |-> n]
<1>1. /\ Good(RA) /\ Sound(RA, <<>>) /\ data \in [Inst -> Inst] /\ uses \in [Inst -> Int]
  BY DEF IInv, DefineAsExisting
<1>2. /\ a \in Inst /\ Held(RA, a) /\ a # w
      /\ w \in Inst /\ n \in Int /\ \A l \in HostLoc : w \notin infos[l].values
  BY OperandIsHeld, RegAllocAssumption, SMTT(30) DEF Fresh, Holds, RA
<1>3. at \in HostLoc /\ a \in infos[at].values
  <2>1. at \in HostLoc /\ a \in RA.infos[at].values
    BY <1>2, ValueLocationHolds
  <2> QED
    BY <2>1 DEF RA
<1>4. uses' = UsesAfter(rs, uc) /\ EndsWith(is, content, ds)
  BY DEF DefineAsExisting
<1> HIDE DEF at
<1>5. IsFiniteSet(DOMAIN rs)
  <2>1. DOMAIN rs = 1 .. 1
    OBVIOUS
  <2>2. \A m \in Nat : IsFiniteSet(1 .. m)
    BY FS_Interval
  <2> QED
    BY <2>1, <2>2, Zenon
<1> HIDE DEF rs
<1>6. uses' \in [Inst -> Int]
  <2>1. \A i \in Inst : uses[i] - Reads(rs, i) \in Int
    BY <1>1, <1>5, CountsAreIntegers, SMTT(30)
  <2> QED
    BY <1>2, <1>4, <2>1 DEF UsesAfter
<1>7. wa \in [HostLoc -> Info] /\ \A l \in HostLoc : wa[l].values = infos[l].values
  BY <1>1, <1>5, WithArgumentsKeeps
<1> HIDE DEF wa
<1>8. \A l \in HostLoc : /\ defined[l] \in Info
                         /\ defined[l].values = IF l = at THEN infos[l].values \cup {w} ELSE infos[l].values
  <2> DEFINE v == wa[at].values \cup {w}
             e == wa[at].expected_uses + n
  <2>3. wa[at] \in Info /\ v \in SUBSET Inst /\ e \in Int
    BY <1>2, <1>3, <1>7 DEF Info
  <2>4. /\ defined[at] = [wa[at] EXCEPT !.values = v, !.expected_uses = e]
        /\ \A l \in HostLoc \ {at} : defined[l] = wa[l]
    BY <1>3, <1>7 DEF Info
  <2> HIDE DEF defined, v, e
  <2>5. defined[at] \in Info
    BY <2>3, <2>4, Zenon DEF Info
  <2>6. defined[at].values = v
    BY <2>3, <2>4 DEF Info
  <2> QED
    BY <1>3, <1>7, <2>4, <2>5, <2>6, ZenonT(30) DEF v
<1> HIDE DEF defined
<1>9. \A l \in HostLoc : is[l] \in Info /\ is[l].values \subseteq defined[l].values
  BY <1>8, UpdateUsesType, ZenonT(30)
<1>10. is \in [HostLoc -> Info]
  BY <1>9
<1> HIDE DEF is
<1>11. \A l, m \in HostLoc : \A i \in Inst : i \in is[l].values /\ i \in is[m].values => l = m
  <2> SUFFICES ASSUME NEW l \in HostLoc, NEW m \in HostLoc, NEW i \in Inst,
                      i \in is[l].values, i \in is[m].values
               PROVE  l = m
    OBVIOUS
  <2>1. i \in defined[l].values /\ i \in defined[m].values
    BY <1>9
  <2>2. CASE i = w
    BY <1>2, <1>8, <2>1, <2>2, ZenonT(30)
  <2>3. CASE i # w
    <3>1. i \in infos[l].values /\ i \in infos[m].values
      BY <1>8, <2>1, <2>3, ZenonT(30)
    <3> QED
      BY <1>1, <3>1 DEF Good, Unique, RA
  <2> QED
    BY <2>2, <2>3
<1>12. ASSUME NEW l \in HostLoc, NEW i \in is[l].values
       PROVE  ds[i] \in Inst /\ content[l] = ds[i]
  <2>1. \A m \in HostLoc : \A j \in infos[m].values : j \in Inst /\ j # w /\ content[m] = data[j]
    BY <1>1, <1>2, SMTT(30) DEF Sound, RA, Good, RAType, Info
  <2>2. CASE i = w
    <3>1. l = at
      BY <1>2, <1>8, <1>9, <1>12, <2>2, ZenonT(30)
    <3> QED
      BY <1>1, <1>2, <1>3, <2>1, <2>2, <3>1, SMTT(30)
  <2>3. CASE i # w
    <3>1. i \in infos[l].values
      BY <1>8, <1>9, <1>12, <2>3, Zenon
    <3> QED
      BY <1>1, <1>2, <2>1, <2>3, <3>1, SMTT(30)
  <2> QED
    BY <2>2, <2>3, SMTT(30)
<1> HIDE DEF ds
<1> QED
  BY <1>4, <1>6, <1>10, <1>11, <1>12, EndsInOrder, SMTT(30)
=============================================================================
