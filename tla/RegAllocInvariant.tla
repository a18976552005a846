------------------------- MODULE RegAllocInvariant --------------------------
(***************************************************************************)
(* The inductive invariant of RegAlloc, and what each operator on a state  *)
(* of the allocator does to the values that it holds.                      *)
(***************************************************************************)
EXTENDS RegAlloc, FiniteSetTheorems, WellFoundedInduction, TLAPS

Info ==
    [values : SUBSET Inst, locked : Int, realized : BOOLEAN,
     uses_this_inst : Int, accumulated_uses : Int, expected_uses : Int]

RAType(ra) ==
    ra \in [infos : [HostLoc -> Info], content : [HostLoc -> Inst \cup {None, Imm}]]

\* An instruction is in one location at most.
Unique(ra) ==
    \A l, m \in HostLoc : \A i \in Inst :
        i \in ra.infos[l].values /\ i \in ra.infos[m].values => l = m

Good(ra) == RAType(ra) /\ Unique(ra)

\* Every value of ra is in rb, and every value of rb but w comes from ra, with the
\* content of its location.
Keeps(ra, rb, w) ==
    /\ \A l \in HostLoc : \A i \in ra.infos[l].values :
        \E m \in HostLoc : i \in rb.infos[m].values /\ rb.content[m] = ra.content[l]
    /\ \A m \in HostLoc : \A i \in rb.infos[m].values \ {w} :
        \E l \in HostLoc : i \in ra.infos[l].values /\ rb.content[m] = ra.content[l]

\* The location l is the same in ra and rb, except that it may have been realized.
Same(ra, rb, l) ==
    /\ rb.infos[l].values = ra.infos[l].values
    /\ rb.content[l] = ra.content[l]
    /\ ra.infos[l].realized => rb.infos[l].realized

\* The code has the data of every value in its location, but for the results that
\* the instruction being emitted will write.
Sound(ra, rs) ==
    \A l \in HostLoc : \A i \in ra.infos[l].values :
        (\A k \in DOMAIN rs : rs[k].write # i) => ra.content[l] = data[i]

Held(ra, i) == \E l \in HostLoc : Holds(ra, l, i)

\* What the emitters ask for.
Entry ==
    [rw : {"Read", "Write", "ReadWrite", "ReadWriteFlags", "Argument"},
     kind : Kinds \cup {"Flags"}, read : Inst \cup {Imm, None},
     write : Inst \cup {None}, reg : HostLoc \cup {NoReg}]

Asked(r) ==
    /\ r.rw # "Argument"
    /\ r.rw = "Read" => r.kind \in Kinds /\ r.read # None /\ r.write = None
    /\ r.rw = "Write" => r.read = None /\ r.write \in Inst
    /\ r.rw = "ReadWrite" => r.kind \in Kinds /\ r.read # None /\ r.write \in Inst
    /\ r.rw = "ReadWriteFlags" => r.kind = "Flags" /\ r.read \in Inst
    /\ r.write # None => data[r.write] = r.write

Shape(rs) ==
    /\ rs \in [DOMAIN rs -> Entry] /\ DOMAIN rs \subseteq Nat \ {0} /\ IsFiniteSet(DOMAIN rs)
    /\ \A k \in DOMAIN rs : Asked(rs[k])
    /\ \A k, m \in DOMAIN rs :
        /\ rs[k].read \in Inst => rs[k].read # rs[m].write
        /\ k # m /\ rs[k].write # None => rs[k].write # rs[m].write
        /\ k # m => ~(rs[k].kind = "Flags" /\ rs[m].kind = "Flags")
        /\ rs[k].rw = "Read" /\ rs[m].rw = "Read" /\ DataOf(rs[k].read) = DataOf(rs[m].read)
            => rs[k].kind = rs[m].kind
        /\ rs[k].rw = "ReadWriteFlags" => m =< k
        /\ m < k /\ rs[k].reg # NoReg => rs[m].reg # NoReg

\* An RAReg that has its register.
Done(ra, r) ==
    /\ r.reg \in HostLoc \ SpillSlot
    /\ r.read # None => ra.content[r.reg] = DataOf(r.read)
    /\ r.rw # "ReadWriteFlags" => ra.infos[r.reg].realized /\ r.reg[1] = r.kind
    /\ r.write # None => ra.infos[r.reg].values = {r.write}
    /\ r.rw = "Read" /\ r.read = Imm => ra.infos[r.reg].values = {}
    /\ r.rw = "Read" /\ r.read # Imm => r.read \in ra.infos[r.reg].values

\* An RAReg that has not.
Todo(ra, r) ==
    /\ r.write # None => ~Held(ra, r.write)
    /\ r.read \in Inst => Held(ra, r.read)
    /\ r.rw = "ReadWriteFlags" => ra.infos[Flags].values = {}

Realizing(ra, rs) ==
    /\ Shape(rs)
    /\ \A k \in DOMAIN rs : IF rs[k].reg # NoReg THEN Done(ra, rs[k]) ELSE Todo(ra, rs[k])

Calling(ra, rs) ==
    /\ ra.infos[Flags].values = {}
    /\ rs \in [DOMAIN ArgumentRegister -> Entry]
    /\ \A k \in DOMAIN rs :
        /\ rs[k].rw = "Argument" /\ rs[k].write = None /\ rs[k].read # None
        /\ rs[k].read \in Inst => Held(ra, rs[k].read)
        /\ rs[k].reg # NoReg =>
            /\ rs[k].reg = ArgumentRegister[k]
            /\ \A l \in Range(CallerSave) : ra.infos[l].values = {}
            /\ ra.content[rs[k].reg] = DataOf(rs[k].read)

\* The inductive invariant.
IInv ==
    /\ Good(RA)
    /\ Sound(RA, regs)
    /\ uses \in [Inst -> Int]
    /\ data \in [Inst -> Inst]
    /\ step \in {"next", "spill", "realize", "call"}
    /\ step = "next" => regs = <<>>
    /\ step \in {"spill", "realize"} => Realizing(RA, regs)
    /\ step = "spill" => \A k \in DOMAIN regs : regs[k].kind # "Flags"
    /\ step = "call" => Calling(RA, regs)

-----------------------------------------------------------------------------
(* The operators on ra                                                     *)

\* The kinds of location are disjoint.
LEMMA Locations ==
    /\ \A k \in Kinds : Register(k) \subseteq HostLoc \ SpillSlot
    /\ \A k \in Kinds : \A l \in Register(k) : l[1] = k /\ l # Flags
    /\ Flags \in HostLoc \ SpillSlot /\ Flags[1] = "Flags"
    /\ SpillSlot \subseteq HostLoc
    /\ \A l \in SpillSlot : l[1] = "Spill"
    /\ ResultRegister \subseteq HostLoc
    /\ NoReg \notin HostLoc
    /\ Range(CallerSave) \subseteq HostLoc \ SpillSlot
BY RegAllocAssumption DEF HostLoc, Register, SpillSlot, Flags, Kinds, Gpr, NoReg

LEMMA EmptyInfoType == EmptyInfo \in Info /\ EmptyInfo.values = {} /\ ~EmptyInfo.realized
BY DEF EmptyInfo, Info

\* AllocateRegister returns a register that is not realized.
LEMMA Allocated ==
    ASSUME NEW ra, NEW kind \in Kinds, NEW l \in AllocateRegister(ra, kind)
    PROVE  l \in Register(kind) /\ ~ra.infos[l].realized
BY EmptyInfoType, Zenon DEF AllocateRegister, IsCompletelyEmpty, MaybeAllocatable, Register, Range

Less == {p \in Nat \X Nat : p[1] < p[2]}

\* A nonempty set of natural numbers has a least element.
LEMMA MinExists ==
    ASSUME NEW S \in SUBSET Nat, S # {}
    PROVE  Min(S) \in S
<1>1. IsWellFoundedOn(Less, Nat)
  BY NatLessThanWellFounded, Zenon DEF OpToRel, Less
<1>2. PICK x \in S : \A y \in S : ~(<<y, x>> \in Less)
  BY <1>1, WFMin, Zenon
<1>3. ASSUME NEW y \in S PROVE x =< y
  <2>1. x \in Nat /\ y \in Nat /\ <<y, x>> \in Nat \X Nat
    OBVIOUS
  <2>2. ~(y < x)
    BY <1>2, <2>1 DEF Less
  <2> QED
    BY <2>1, <2>2
<1> QED
  BY <1>3, Zenon DEF Min

\* There is a free spill slot for a value that is not in one.
LEMMA FreeSlot ==
    ASSUME NEW ra, Good(ra), NEW l \in HostLoc \ SpillSlot, ra.infos[l].values # {}
    PROVE  FindFreeSpill(ra) \in SpillSlot /\ ra.infos[FindFreeSpill(ra)].values = {}
<1> DEFINE Free == {i \in 0 .. SpillCount - 1 : ra.infos[<<"Spill", i>>].values = {}}
           At(i) == IF i = SpillCount THEN l ELSE <<"Spill", i>>
           f == [i \in 0 .. SpillCount |-> CHOOSE x \in Inst : x \in ra.infos[At(i)].values]
<1>1. SpillCount \in Nat
  BY RegAllocAssumption
<1>2. Free # {}
  <2>1. SUFFICES ASSUME Free = {} PROVE FALSE
    OBVIOUS
  <2>2. ASSUME NEW i \in 0 .. SpillCount
        PROVE  At(i) \in HostLoc /\ \E x \in Inst : x \in ra.infos[At(i)].values
    <3>1. CASE i = SpillCount
      BY <3>1 DEF Good, RAType, Info
    <3>2. CASE i # SpillCount
      <4>1. i \in 0 .. SpillCount - 1
        BY <3>2, <1>1
      <4>2. <<"Spill", i>> \in HostLoc /\ ra.infos[<<"Spill", i>>].values # {}
        BY <4>1, <2>1 DEF HostLoc, SpillSlot
      <4> QED
        BY <3>2, <4>2 DEF Good, RAType, Info
    <3> QED
      BY <3>1, <3>2
  <2>3. \A i \in 0 .. SpillCount : f[i] \in Inst /\ f[i] \in ra.infos[At(i)].values
    BY <2>2, Zenon
  <2>4. ASSUME NEW i \in 0 .. SpillCount, NEW j \in 0 .. SpillCount, f[i] = f[j]
        PROVE  i = j
    <3>1. At(i) = At(j)
      BY <2>2, <2>3, <2>4, ZenonT(30) DEF Good, Unique
    <3>2. \A n \in 0 .. SpillCount - 1 : <<"Spill", n>> \in SpillSlot
      BY DEF SpillSlot
    <3> QED
      BY <3>1, <3>2, <1>1
  <2>5. IsFiniteSet(0 .. SpillCount) /\ Cardinality(0 .. SpillCount) = SpillCount + 1
    BY <1>1, FS_Interval
  <2>6. Cardinality(Inst) \in Nat
    BY RegAllocAssumption, FS_CardinalityType
  <2>7. f \in [0 .. SpillCount -> Inst]
    BY <2>3
  <2> HIDE DEF f
  <2> QED
    BY <1>1, <2>4, <2>5, <2>6, <2>7, FS_PigeonHole, RegAllocAssumption
<1>3. Min(Free) \in Free
  <2>1. Free \in SUBSET Nat
    BY <1>1
  <2> HIDE DEF Free
  <2> QED
    BY <1>2, <2>1, MinExists
<1> QED
  BY <1>3, Zenon DEF FindFreeSpill, SpillSlot

\* Move takes the values of a location, and what the code has there, to another.
LEMMA MoveKeeps ==
    ASSUME NEW ra, Good(ra), NEW from \in HostLoc, NEW to \in HostLoc, from # to,
           ra.infos[to].values = {}
    PROVE  LET rb == Move(ra, from, to)
           IN  /\ Good(rb)
               /\ Keeps(ra, rb, None)
               /\ \A m \in HostLoc \ {from, to} : Same(ra, rb, m)
               /\ rb.infos[to] = ra.infos[from] /\ rb.content[to] = ra.content[from]
               /\ rb.infos[from].values = {}
<1> DEFINE rb == Move(ra, from, to)
<1>1. /\ rb.infos = [m \in HostLoc |-> IF m = from THEN EmptyInfo
                                       ELSE IF m = to THEN ra.infos[from] ELSE ra.infos[m]]
      /\ rb.content = [m \in HostLoc |-> IF m = to THEN ra.content[from] ELSE ra.content[m]]
  BY DEF Good, RAType, Move
<1>2. RAType(rb)
  BY EmptyInfoType DEF Good, RAType, Move
<1> HIDE DEF rb
<1>3. Unique(rb)
  BY <1>1, EmptyInfoType DEF Good, Unique
<1>4. Keeps(ra, rb, None)
  <2>1. ASSUME NEW l \in HostLoc, NEW i \in ra.infos[l].values
        PROVE  \E m \in HostLoc : i \in rb.infos[m].values /\ rb.content[m] = ra.content[l]
    <3>1. CASE l = from
      BY <3>1, <1>1, <2>1
    <3>2. CASE l # from
      BY <3>2, <1>1, <2>1
    <3> QED
      BY <3>1, <3>2
  <2>2. ASSUME NEW m \in HostLoc, NEW i \in rb.infos[m].values
        PROVE  \E l \in HostLoc : i \in ra.infos[l].values /\ rb.content[m] = ra.content[l]
    BY <1>1, <2>2, EmptyInfoType
  <2> QED
    BY <2>1, <2>2 DEF Keeps
<1>5. \A m \in HostLoc \ {from, to} : Same(ra, rb, m)
  BY <1>1 DEF Same
<1> QED
  BY <1>1, <1>2, <1>3, <1>4, <1>5, EmptyInfoType DEF Good, rb

\* Spill empties a location and disturbs no other but an empty spill slot.
LEMMA SpillKeeps ==
    ASSUME NEW ra, Good(ra), NEW l \in HostLoc \ SpillSlot
    PROVE  LET rb == Spill(ra, l)
           IN  /\ Good(rb)
               /\ Keeps(ra, rb, None)
               /\ \A m \in HostLoc \ {l} :
                    m \notin SpillSlot \/ ra.infos[m].values # {} => Same(ra, rb, m)
               /\ rb.infos[l].values = {}
<1>1. CASE ra.infos[l].values = {}
  BY <1>1 DEF Spill, Keeps, Same
<1>2. CASE ra.infos[l].values # {}
  <2>1. FindFreeSpill(ra) \in SpillSlot /\ ra.infos[FindFreeSpill(ra)].values = {}
    BY <1>2, FreeSlot
  <2>2. FindFreeSpill(ra) \in HostLoc /\ FindFreeSpill(ra) # l
    BY <2>1, Locations
  <2> QED
    BY <1>2, <2>1, <2>2, MoveKeeps DEF Spill
<1> QED
  BY <1>1, <1>2

LEMMA KeepsTrans ==
    ASSUME NEW ra, NEW rb, NEW rc, NEW w, Good(rb), Keeps(ra, rb, None), Keeps(rb, rc, w)
    PROVE  Keeps(ra, rc, w)
<1>1. \A m \in HostLoc : None \notin rb.infos[m].values
  BY RegAllocAssumption DEF Good, RAType, Info
<1> QED
  BY <1>1 DEF Keeps

\* SpillFlags moves the flags to a register that is not realized.
LEMMA SpillFlagsKeeps ==
    ASSUME NEW ra, Good(ra), NEW rb \in SpillFlags(ra)
    PROVE  /\ Good(rb)
           /\ Keeps(ra, rb, None)
           /\ rb.infos[Flags].values = {}
           /\ \A m \in HostLoc \ SpillSlot : m # Flags /\ ra.infos[m].realized => Same(ra, rb, m)
<1>1. CASE ra.infos[Flags].values = {}
  BY <1>1 DEF SpillFlags, Keeps, Same
<1>2. CASE ra.infos[Flags].values # {}
  <2>1. PICK l \in AllocateRegister(ra, "Gpr") : rb = Move(Spill(ra, l), Flags, l)
    BY <1>2 DEF SpillFlags
  <2>2. l \in HostLoc \ SpillSlot /\ l # Flags /\ ~ra.infos[l].realized
    BY Allocated, Locations DEF Kinds
  <2> DEFINE rs == Spill(ra, l)
  <2>3. /\ Good(rs)
        /\ Keeps(ra, rs, None)
        /\ \A m \in HostLoc \ {l} : m \notin SpillSlot => Same(ra, rs, m)
        /\ rs.infos[l].values = {}
    BY <2>2, SpillKeeps
  <2> HIDE DEF rs
  <2>4. /\ Good(rb)
        /\ Keeps(rs, rb, None)
        /\ \A m \in HostLoc \ {Flags, l} : Same(rs, rb, m)
        /\ rb.infos[Flags].values = {}
    BY <2>1, <2>2, <2>3, MoveKeeps, Locations DEF rs
  <2> QED
    BY <2>2, <2>3, <2>4, KeepsTrans DEF Same
<1> QED
  BY <1>1, <1>2

\* A value that is held is in its ValueLocation.
LEMMA ValueLocationHolds ==
    ASSUME NEW ra, NEW i, Held(ra, i)
    PROVE  ValueLocation(ra, i) \in HostLoc /\ i \in ra.infos[ValueLocation(ra, i)].values
BY DEF Held, ValueLocation, Holds
=============================================================================
