------------------------- MODULE RegAllocCalling ---------------------------
(***************************************************************************)
(* A call: PrepareForCall, its spills and its copies, and the return leave *)
(* the allocator in order.                                                 *)
(***************************************************************************)
EXTENDS RegAllocEmitting

LEMMA PrepareForCallInOrder ==
    ASSUME IInv, NEW args \in [DOMAIN ArgumentRegister -> Operand], PrepareForCall(args)
    PROVE  IInv'
<1> DEFINE rs == [k \in DOMAIN args |-> Access("Argument", "Gpr", args[k], None)]
           ra == [RA EXCEPT !.infos = WithArguments(rs)]
<1>1. /\ Good(RA) /\ Sound(RA, <<>>) /\ data \in [Inst -> Inst] /\ uses \in [Inst -> Int]
  BY DEF IInv, PrepareForCall
<1>2. PICK s \in SpillFlags(ra) : infos' = s.infos /\ content' = s.content
  BY Zenon DEF PrepareForCall
<1>3. uses' = UsesAfter(rs, <<>>) /\ regs' = rs /\ step' = "call" /\ data' = data
  BY DEF PrepareForCall
<1>4. ArgumentRegister \in Seq(HostLoc)
  BY RegAllocAssumption
<1>5. DOMAIN rs = DOMAIN ArgumentRegister /\ DOMAIN rs = 1 .. Len(ArgumentRegister) /\ Len(ArgumentRegister) \in Nat
  BY <1>4
<1>6. IsFiniteSet(DOMAIN rs)
  <2>1. \A m \in Nat : IsFiniteSet(1 .. m)
    BY FS_Interval
  <2> QED
    BY <1>5, <2>1
<1>7. \A k \in DOMAIN rs : /\ rs[k] \in Entry /\ rs[k].rw = "Argument" /\ rs[k].write = None
                           /\ rs[k].read # None /\ rs[k].reg = NoReg
                           /\ rs[k].read \in Inst => Held(RA, rs[k].read)
  <2> SUFFICES ASSUME NEW k \in DOMAIN args
               PROVE  /\ rs[k] \in Entry /\ rs[k].rw = "Argument" /\ rs[k].write = None
                      /\ rs[k].read # None /\ rs[k].reg = NoReg
                      /\ rs[k].read \in Inst => Held(RA, rs[k].read)
    OBVIOUS
  <2>1. args[k] \in Operand
    OBVIOUS
  <2>2. args[k] \in Inst \cup {Imm} /\ args[k] # None /\ (args[k] \in Inst => Held(RA, args[k]))
    BY <2>1, OperandIsHeld
  <2>3. rs[k] = Access("Argument", "Gpr", args[k], None)
    OBVIOUS
  <2> HIDE DEF rs
  <2> QED
    BY <2>2, <2>3 DEF Access, Entry, Kinds
<1>8. rs \in [DOMAIN rs -> Entry]
  BY <1>7
<1> HIDE DEF rs
<1>9. /\ WithArguments(rs) \in [HostLoc -> Info]
      /\ \A l \in HostLoc : WithArguments(rs)[l].values = infos[l].values
  BY <1>1, <1>6, WithArgumentsKeeps
<1>10. Good(ra) /\ ra.content = content /\ \A l \in HostLoc : ra.infos[l].values = infos[l].values
  BY <1>1, <1>9, Zenon DEF Good, RAType, Unique, RA
<1> HIDE DEF ra
<1>11. Good(s) /\ Keeps(ra, s, None) /\ s.infos[Flags].values = {}
  BY <1>10, SpillFlagsKeeps
<1>12. RA' = s
  BY <1>2, <1>11 DEF RA, Good, RAType
<1>13. \A m \in HostLoc : \A i \in s.infos[m].values : i # None
  BY <1>11, RegAllocAssumption DEF Good, RAType, Info
<1>14. \A l \in HostLoc : \A i \in s.infos[l].values : s.content[l] = data[i]
  <2> SUFFICES ASSUME NEW l \in HostLoc, NEW i \in s.infos[l].values PROVE s.content[l] = data[i]
    OBVIOUS
  <2>1. PICK m \in HostLoc : i \in ra.infos[m].values /\ s.content[l] = ra.content[m]
    BY <1>11, <1>13, SMTT(30) DEF Keeps
  <2> QED
    BY <1>1, <1>10, <2>1 DEF Sound, RA
<1>15. Sound(RA, regs)'
  BY <1>3, <1>12, <1>14, SMTT(30) DEF Sound
<1>16. \A i \in Inst : Held(RA, i) => Held(s, i)
  BY <1>10, <1>11 DEF Held, Holds, Keeps, RA
<1>17. Calling(RA, regs)'
  BY <1>3, <1>5, <1>7, <1>8, <1>11, <1>12, <1>16, SMTT(30) DEF Calling
<1>18. uses' \in [Inst -> Int]
  <2>1. \A i \in Inst : uses[i] - Reads(rs, i) \in Int
    BY <1>1, <1>6, CountsAreIntegers, SMTT(30)
  <2> QED
    BY <1>3, <2>1 DEF UsesAfter
<1> QED
  BY <1>1, <1>3, <1>11, <1>12, <1>15, <1>17, <1>18, SMTT(30) DEF IInv

LEMMA SpillCallerSaveInOrder ==
    ASSUME IInv, NEW k \in DOMAIN CallerSave, SpillCallerSave(k)
    PROVE  IInv'
<1> DEFINE l == CallerSave[k]
           rb == Spill(RA, l)
<1>1. /\ Good(RA) /\ Sound(RA, regs) /\ Calling(RA, regs)
      /\ data \in [Inst -> Inst] /\ uses \in [Inst -> Int]
      /\ infos[l].values # {} /\ infos' = rb.infos /\ content' = rb.content
      /\ UNCHANGED <<uses, data, regs, step>> /\ step = "call"
  BY DEF IInv, SpillCallerSave
<1>2. l \in Range(CallerSave) /\ l \in HostLoc \ SpillSlot /\ l # Flags
  BY Locations, RegAllocAssumption, SMTT(30) DEF Range, Kinds
<1> HIDE DEF l
<1>3. Good(rb) /\ Keeps(RA, rb, None) /\ rb.infos[Flags].values = {}
  <2>1. /\ Good(rb) /\ Keeps(RA, rb, None)
        /\ \A m \in HostLoc \ {l} : m \notin SpillSlot => Same(RA, rb, m)
    BY <1>1, <1>2, SpillKeeps
  <2> HIDE DEF rb
  <2>2. Same(RA, rb, Flags)
    BY <1>2, <2>1, Locations, SMTT(30)
  <2> QED
    BY <1>1, <2>1, <2>2, SMTT(30) DEF Same, Calling
<1> HIDE DEF rb
<1>4. RA' = rb
  BY <1>1, <1>3 DEF RA, Good, RAType
<1>5. \A m \in HostLoc : \A i \in rb.infos[m].values : i # None
  BY <1>3, RegAllocAssumption DEF Good, RAType, Info
<1>6. \A m \in DOMAIN regs : regs[m].reg = NoReg
  BY <1>1, <1>2 DEF Calling, RA
<1>7. Sound(rb, regs)
  <2> SUFFICES ASSUME NEW n \in HostLoc, NEW i \in rb.infos[n].values, \A m \in DOMAIN regs : regs[m].write # i
               PROVE  rb.content[n] = data[i]
    BY DEF Sound
  <2>1. PICK m \in HostLoc : i \in RA.infos[m].values /\ rb.content[n] = RA.content[m]
    BY <1>3, <1>5 DEF Keeps
  <2> QED
    BY <1>1, <2>1 DEF Sound
<1>8. \A i \in Inst : Held(RA, i) => Held(rb, i)
  BY <1>3 DEF Held, Holds, Keeps
<1>9. Calling(rb, regs)
  BY <1>1, <1>3, <1>6, <1>8, SMTT(30) DEF Calling
<1>10. Sound(RA, regs)' /\ Calling(RA, regs)'
  <2>1. data' = data /\ regs' = regs
    BY <1>1
  <2>2. Sound(RA, regs)'
    BY <1>4, <1>7, <2>1, SMTT(30) DEF Sound
  <2>3. Calling(RA, regs)'
    BY <1>4, <1>9, <2>1 DEF Calling, DataOf
  <2> QED
    BY <2>2, <2>3
<1> QED
  BY <1>1, <1>3, <1>4, <1>10, SMTT(30) DEF IInv

LEMMA CopyArgumentInOrder ==
    ASSUME IInv, NEW k \in DOMAIN regs, CopyArgument(k)
    PROVE  IInv'
<1> DEFINE i == regs[k].read
           l == ArgumentRegister[k]
           c == IF i = Imm THEN Imm ELSE content[ValueLocation(RA, i)]
<1>1. /\ Good(RA) /\ Sound(RA, regs) /\ Calling(RA, regs)
      /\ data \in [Inst -> Inst] /\ uses \in [Inst -> Int]
      /\ AllSpilled
      /\ content' = LoadCopyInto(RA, i, l).content
      /\ regs' = [regs EXCEPT ![k].reg = l]
      /\ UNCHANGED <<infos, uses, data, step>> /\ step = "call"
  BY DEF IInv, CopyArgument
<1>2. /\ regs \in [DOMAIN ArgumentRegister -> Entry] /\ regs[k] \in Entry
      /\ i # None /\ (i \in Inst => Held(RA, i)) /\ \A m \in DOMAIN regs : regs[m].write = None
  BY <1>1 DEF Calling
<1>3. l \in Range(CallerSave) /\ l \in HostLoc /\ infos[l].values = {}
  <2>1. l \in Range(ArgumentRegister)
    BY <1>2 DEF Range
  <2> QED
    BY <1>1, <2>1, Locations, RegAllocAssumption, SMTT(30) DEF AllSpilled
<1>4. content \in [HostLoc -> Inst \cup {None, Imm}]
  BY <1>1 DEF Good, RAType, RA
<1>5. content' = [content EXCEPT ![l] = c]
  BY <1>1 DEF LoadCopyInto, RA
<1>6. \A m \in HostLoc : \A j \in infos[m].values : j \in Inst /\ content[m] = data[j]
  <2> SUFFICES ASSUME NEW m \in HostLoc, NEW j \in infos[m].values
               PROVE  j \in Inst /\ content[m] = data[j]
    OBVIOUS
  <2>1. j \in Inst
    BY <1>1 DEF RA, Good, RAType, Info
  <2>2. \A n \in DOMAIN regs : regs[n].write # j
    BY <1>2, <2>1, RegAllocAssumption, SMTT(30)
  <2> QED
    BY <1>1, <2>1, <2>2 DEF Sound, RA
<1>7. c = DataOf(i) /\ c \in Inst \cup {Imm}
  <2>1. CASE i = Imm
    BY <2>1 DEF DataOf
  <2>2. CASE i # Imm
    <3>1. i \in Inst /\ Held(RA, i)
      BY <1>2, <2>2 DEF Entry
    <3>2. ValueLocation(RA, i) \in HostLoc /\ i \in infos[ValueLocation(RA, i)].values
      <4>1. ValueLocation(RA, i) \in HostLoc /\ i \in RA.infos[ValueLocation(RA, i)].values
        BY <3>1, ValueLocationHolds
      <4> QED
        BY <4>1 DEF RA
    <3> QED
      BY <1>1, <1>6, <2>2, <3>1, <3>2, SMTT(30) DEF DataOf
  <2> QED
    BY <2>1, <2>2
<1> HIDE DEF c
<1>8. Good(RA')
  BY <1>1, <1>3, <1>4, <1>5, <1>7, SMTT(30) DEF Good, RAType, Unique, RA
<1>9. Sound(RA, regs)'
  BY <1>1, <1>3, <1>4, <1>5, <1>6, SMTT(30) DEF Sound, RA
<1>10. /\ regs' \in [DOMAIN ArgumentRegister -> Entry]
       /\ DOMAIN regs' = DOMAIN regs
       /\ \A m \in DOMAIN regs : /\ regs'[m].rw = regs[m].rw /\ regs'[m].read = regs[m].read
                                 /\ regs'[m].write = regs[m].write
                                 /\ m # k => regs'[m] = regs[m]
       /\ regs'[k].reg = l
  BY <1>1, <1>2, <1>3 DEF Entry
<1>11. \A n \in Inst : Held(RA', n) <=> Held(RA, n)
  BY <1>1 DEF Held, Holds, RA
<1>12. \A n \in Range(CallerSave) : infos'[n].values = {}
  BY <1>1 DEF AllSpilled
<1>13. ASSUME NEW m \in DOMAIN regs, regs'[m].reg # NoReg
       PROVE  regs'[m].reg = ArgumentRegister[m] /\ content'[regs'[m].reg] = DataOf(regs[m].read)
  <2>1. CASE m = k
    BY <1>3, <1>4, <1>5, <1>7, <1>10, <2>1, SMTT(30)
  <2>2. CASE m # k
    <3>1. regs[m].reg = ArgumentRegister[m] /\ content[regs[m].reg] = DataOf(regs[m].read)
      BY <1>1, <1>10, <1>13, <2>2, SMTT(30) DEF Calling, RA
    <3>2. ArgumentRegister[m] # l /\ ArgumentRegister[m] \in HostLoc
      <4>1. IsInjective(ArgumentRegister) /\ ArgumentRegister \in Seq(HostLoc)
        BY RegAllocAssumption, SMTT(30)
      <4> QED
        BY <1>2, <2>2, <4>1, SMTT(30) DEF IsInjective
    <3> QED
      BY <1>4, <1>5, <1>10, <2>2, <3>1, <3>2, SMTT(30)
  <2> QED
    BY <2>1, <2>2
<1>14. Calling(RA, regs)'
  BY <1>1, <1>2, <1>10, <1>11, <1>12, <1>13, SMTT(30) DEF Calling, DataOf, RA
<1> QED
  BY <1>1, <1>8, <1>9, <1>14, SMTT(30) DEF IInv

LEMMA CallReturnsInOrder ==
    ASSUME IInv, NEW w \in Fresh \cup {None}, NEW n \in Int, NEW l \in ResultRegister,
           CallReturns(w, n, l)
    PROVE  IInv'
<1> DEFINE result == [EmptyInfo EXCEPT !.values = {w} \ {None}, !.expected_uses = n]
           old(m) == IF m = l THEN result ELSE infos[m]
           is == [m \in HostLoc |-> UpdateUses(old(m))]
           kept == [m \in HostLoc |-> IF m \in Range(CallerSave) \cup {Flags} THEN None ELSE content[m]]
           cs == [kept EXCEPT ![l] = w]
           ds == [i \in Inst |-> IF i = w THEN w ELSE data[i]]
<1>1. /\ Good(RA) /\ Sound(RA, regs) /\ Calling(RA, regs)
      /\ data \in [Inst -> Inst] /\ uses \in [Inst -> Int]
      /\ AllSpilled
      /\ uses' = [i \in Inst |-> IF i = w THEN n ELSE uses[i]]
      /\ EndsWith(is, cs, ds)
  BY DEF IInv, CallReturns
<1>2. /\ w \in Inst \cup {None} /\ None \notin Inst
      /\ \A m \in HostLoc : w \notin infos[m].values
  BY <1>1, RegAllocAssumption DEF Fresh, Holds, RA, Good, RAType, Info
<1>3. l \in Range(CallerSave) /\ l \in HostLoc
  BY RegAllocAssumption, Locations
<1>4. infos \in [HostLoc -> Info]
  BY <1>1, SMTT(30) DEF Good, RAType, RA
<1>5. result \in Info
  <2>1. ASSUME NEW info \in Info, NEW v \in SUBSET Inst
        PROVE  [info EXCEPT !.values = v, !.expected_uses = n] \in Info
    BY Zenon DEF Info
  <2>2. {w} \ {None} \in SUBSET Inst
    BY <1>2
  <2> QED
    BY <2>1, <2>2, EmptyInfoType, ZenonT(30)
<1>6. result.values = {w} \ {None}
  BY DEF EmptyInfo
<1> HIDE DEF result
<1>7. \A m \in HostLoc : is[m] \in Info /\ is[m].values \subseteq old(m).values
  BY <1>4, <1>5, UpdateUsesType, SMTT(30)
<1>8. is \in [HostLoc -> Info]
  BY <1>7
<1> HIDE DEF is
<1>9. \A m, o \in HostLoc : \A i \in Inst : i \in is[m].values /\ i \in is[o].values => m = o
  <2> SUFFICES ASSUME NEW m \in HostLoc, NEW o \in HostLoc, NEW i \in Inst,
                      i \in is[m].values, i \in is[o].values
               PROVE  m = o
    OBVIOUS
  <2>1. CASE i = w
    BY <1>2, <1>7, <2>1, SMTT(30)
  <2>2. CASE i # w
    <3>1. i \in infos[m].values /\ i \in infos[o].values
      BY <1>6, <1>7, <2>2, SMTT(30)
    <3> QED
      BY <1>1, <3>1 DEF Good, Unique, RA
  <2> QED
    BY <2>1, <2>2
<1>10. ASSUME NEW m \in HostLoc, NEW i \in is[m].values
       PROVE  ds[i] \in Inst /\ cs[m] = ds[i]
  <2>1. CASE m = l
    <3>1. i = w /\ w \in Inst
      BY <1>2, <1>6, <1>7, <1>10, <2>1, SMTT(30)
    <3> QED
      BY <1>3, <2>1, <3>1, SMTT(30)
  <2>2. CASE m # l
    <3>1. i \in infos[m].values
      BY <1>7, <1>10, <2>2, SMTT(30)
    <3>2. i \in Inst /\ i # w /\ m \notin Range(CallerSave) /\ m # Flags
      BY <1>1, <1>2, <1>4, <3>1, SMTT(30) DEF AllSpilled, Info, Calling, RA
    <3>3. \A o \in DOMAIN regs : regs[o].write # i
      BY <1>1, <1>2, <3>2, SMTT(30) DEF Calling
    <3>4. content[m] = data[i]
      BY <1>1, <3>1, <3>3, SMTT(30) DEF Sound, RA
    <3> QED
      BY <1>1, <2>2, <3>2, <3>4, SMTT(30)
  <2> QED
    BY <2>1, <2>2
<1>11. uses' \in [Inst -> Int]
  BY <1>1
<1> HIDE DEF ds, cs
<1> QED
  BY <1>1, <1>8, <1>9, <1>10, <1>11, EndsInOrder, SMTT(30)
=============================================================================
