-------------------------- MODULE RegAllocProofs ----------------------------
(***************************************************************************)
(* Every operand is in its register when the host instruction runs, for    *)
(* any register file, any number of spill slots and any set of             *)
(* instructions that fits them.                                            *)
(***************************************************************************)
EXTENDS RegAllocCalling

LEMMA RealizeInOrder ==
    ASSUME IInv, NEW k \in DOMAIN regs, Realize(k)
    PROVE  IInv'
<1>1. /\ Good(RA) /\ Sound(RA, regs) /\ Realizing(RA, regs)
      /\ data \in [Inst -> Inst] /\ uses \in [Inst -> Int]
      /\ regs[k].reg = NoReg /\ (\A m \in 1 .. k - 1 : regs[m].reg # NoReg)
      /\ UNCHANGED <<uses, data, step>> /\ step = "realize"
  BY DEF IInv, Realize
<1>2. PICK g \in Realizations(RA, regs[k]) :
        infos' = g.ra.infos /\ content' = g.ra.content /\ regs' = [regs EXCEPT ![k].reg = g.reg]
  BY Zenon DEF Realize
<1>3. regs[k].rw \in {"Read", "Write", "ReadWrite", "ReadWriteFlags"}
  BY <1>1 DEF Realizing, Shape, Asked, Entry
<1>4. Realizes(RA, g.ra, g.reg, regs[k], Others(regs, k))
  <2>1. CASE regs[k].rw = "Read"
    BY <1>1, <2>1, ReadRealizes DEF Realizations
  <2>2. CASE regs[k].rw = "Write"
    BY <1>1, <2>2, WriteRealizes, SMTT(30) DEF Realizations
  <2>3. CASE regs[k].rw = "ReadWrite"
    BY <1>1, <2>3, ReadWriteRealizes DEF Realizations
  <2>4. CASE regs[k].rw = "ReadWriteFlags"
    BY <1>1, <2>4, ReadWriteFlagsRealizes DEF Realizations
  <2> QED
    BY <1>3, <2>1, <2>2, <2>3, <2>4, SMTT(30)
<1> DEFINE ga == g.ra
<1>5. Good(ga) /\ Sound(ga, regs') /\ Realizing(ga, regs')
  BY <1>1, <1>2, <1>4, RealizedStaysInOrder, ZenonT(30)
<1>6. RA' = ga
  BY <1>2, <1>5 DEF RA, Good, RAType
<1> HIDE DEF ga
<1>7. Sound(RA, regs)' /\ Realizing(RA, regs)'
  <2>1. data' = data
    BY <1>1
  <2>2. Sound(RA, regs)'
    BY <1>5, <1>6, <2>1, SMTT(30) DEF Sound
  <2>3. Shape(regs)'
    BY <1>5, <2>1, SMTT(30) DEF Realizing, Shape, Asked, DataOf
  <2>4. Realizing(RA, regs)'
    BY <1>5, <1>6, <2>1, <2>3, ZenonT(60) DEF Realizing, Done, Todo, DataOf
  <2> QED
    BY <2>2, <2>4
<1> QED
  BY <1>1, <1>5, <1>6, <1>7, SMTT(30) DEF IInv

\* Spilling the flags disturbs no RAReg of an instruction that has none in them.
LEMMA SpilledFlagsInOrder ==
    ASSUME IInv, step \in {"spill", "realize"}, step' = "realize",
           \A k \in DOMAIN regs : regs[k].kind # "Flags",
           \E s \in SpillFlags(RA) : infos' = s.infos /\ content' = s.content,
           UNCHANGED <<uses, data, regs>>
    PROVE  IInv'
<1>1. /\ Good(RA) /\ Sound(RA, regs) /\ Realizing(RA, regs)
      /\ data \in [Inst -> Inst] /\ uses \in [Inst -> Int]
      /\ \A k \in DOMAIN regs : regs[k].kind # "Flags"
      /\ UNCHANGED <<uses, data, regs>> /\ step' = "realize"
  BY DEF IInv
<1>2. PICK s \in SpillFlags(RA) : infos' = s.infos /\ content' = s.content
  OBVIOUS
<1>3. /\ Good(s)
      /\ Keeps(RA, s, None)
      /\ \A m \in HostLoc \ SpillSlot : m # Flags /\ RA.infos[m].realized => Same(RA, s, m)
  BY <1>1, SpillFlagsKeeps
<1>4. RA' = s
  BY <1>2, <1>3 DEF RA, Good, RAType
<1>5. \A m \in HostLoc : \A i \in s.infos[m].values : i # None
  BY <1>3, RegAllocAssumption, SMTT(30) DEF Good, RAType, Info
<1>6. Sound(s, regs)
  <2> SUFFICES ASSUME NEW l \in HostLoc, NEW i \in s.infos[l].values, \A m \in DOMAIN regs : regs[m].write # i
               PROVE  s.content[l] = data[i]
    BY DEF Sound
  <2>1. PICK n \in HostLoc : i \in RA.infos[n].values /\ s.content[l] = RA.content[n]
    BY <1>3, <1>5, SMTT(30) DEF Keeps
  <2> QED
    BY <1>1, <2>1 DEF Sound
<1>7. ASSUME NEW k \in DOMAIN regs
      PROVE  IF regs[k].reg # NoReg THEN Done(s, regs[k]) ELSE Todo(s, regs[k])
  <2>1. regs[k].rw # "ReadWriteFlags" /\ regs[k] \in Entry
    BY <1>1, SMTT(30) DEF Realizing, Shape, Asked
  <2>2. CASE regs[k].reg # NoReg
    <3>1. Done(RA, regs[k])
      BY <1>1, <2>2, SMTT(30) DEF Realizing
    <3>2. regs[k].reg # Flags
      BY <1>1, <2>1, <3>1, Locations, SMTT(30) DEF Done
    <3>3. Same(RA, s, regs[k].reg)
      BY <1>3, <2>1, <3>1, <3>2, SMTT(30) DEF Done
    <3> QED
      BY <2>2, <3>1, <3>3, DoneStays
  <2>3. CASE regs[k].reg = NoReg
    <3>1. Todo(RA, regs[k])
      BY <1>1, <2>3, SMTT(30) DEF Realizing
    <3>2. regs[k].write # None => ~Held(s, regs[k].write)
      BY <1>3, <1>5, <2>1, <3>1, SMTT(30) DEF Todo, Keeps, Held, Holds
    <3>3. regs[k].read \in Inst => Held(s, regs[k].read)
      BY <1>3, <3>1 DEF Todo, Keeps, Held, Holds
    <3> QED
      BY <2>1, <2>3, <3>2, <3>3, SMTT(30) DEF Todo
  <2> QED
    BY <2>2, <2>3, SMTT(30)
<1>8. Sound(RA, regs)' /\ Realizing(RA, regs)'
  <2>1. data' = data /\ regs' = regs
    BY <1>1
  <2>2. Sound(RA, regs)'
    BY <1>4, <1>6, <2>1, SMTT(30) DEF Sound
  <2>3. Shape(regs)'
    <3>1. Shape(regs)
      BY <1>1, SMTT(30) DEF Realizing
    <3> QED
      BY <2>1, <3>1, SMTT(30) DEF Shape, Asked, DataOf
  <2>4. Realizing(RA, regs)'
    BY <1>4, <1>7, <2>1, <2>3, ZenonT(60) DEF Realizing, Done, Todo, DataOf
  <2> QED
    BY <2>2, <2>4, SMTT(30)
<1> QED
  BY <1>1, <1>3, <1>4, <1>8, SMTT(30) DEF IInv

LEMMA EmitterSpillsFlagsInOrder ==
    ASSUME IInv, EmitterSpillsFlags
    PROVE  IInv'
BY SpilledFlagsInOrder, SMTT(30) DEF EmitterSpillsFlags

LEMMA SpillsFlagsFirstInOrder ==
    ASSUME IInv, SpillsFlagsFirst
    PROVE  IInv'
<1>1. \A k \in DOMAIN regs : regs[k].kind # "Flags"
  BY SMTT(30) DEF IInv, SpillsFlagsFirst
<1> QED
  BY <1>1, SpilledFlagsInOrder, SMTT(30) DEF SpillsFlagsFirst

-----------------------------------------------------------------------------
(* The theorem                                                             *)

LEMMA InitInOrder == Init => IInv
<1> SUFFICES ASSUME Init PROVE IInv
  OBVIOUS
<1>1. Good(RA)
  BY EmptyInfoType DEF Init, Good, RAType, Unique, RA
<1>2. \A l \in HostLoc : infos[l].values = {}
  BY EmptyInfoType DEF Init
<1> QED
  BY <1>1, <1>2 DEF Init, IInv, Sound, RA

LEMMA StepInOrder == IInv /\ [Next]_vars => IInv'
<1> SUFFICES ASSUME IInv, [Next]_vars PROVE IInv'
  OBVIOUS
<1>1. ASSUME NEW a \in Operand, NEW b \in Operand, NEW ka \in Kinds, NEW kb \in Kinds, EmitUse(a, b, ka, kb)
      PROVE  IInv'
  BY <1>1, EmitUseInOrder
<1>2. ASSUME NEW a \in Operand, NEW w \in Fresh, NEW ka \in Kinds, NEW kw \in Kinds \cup {"Flags"},
             NEW n \in 0 .. MaxUses, EmitTwoOp(a, w, ka, kw, n)
      PROVE  IInv'
  BY <1>2, EmitTwoOpInOrder
<1>3. ASSUME NEW a \in Operand \ {Imm}, NEW b \in Operand, NEW w \in Fresh, NEW n \in 0 .. MaxUses,
             EmitSetElement(a, b, w, n)
      PROVE  IInv'
  BY <1>3, EmitSetElementInOrder
<1>4. ASSUME NEW a \in Operand, NEW b \in Operand, NEW w \in Fresh, NEW kind \in Kinds,
             NEW n \in 0 .. MaxUses, EmitThreeOp(a, b, w, kind, n)
      PROVE  IInv'
  BY <1>4, EmitThreeOpInOrder, SMTT(30)
<1>5. ASSUME NEW a \in Operand, NEW b \in Operand, NEW w \in Fresh, NEW f \in Fresh \cup {None},
             NEW n \in 0 .. MaxUses, w # f, EmitAddSub(a, b, w, f, n)
      PROVE  IInv'
  BY <1>5, EmitAddSubInOrder, SMTT(30)
<1>6. ASSUME NEW a \in Operand, NEW b \in Operand, NEW c \in Operand \ {Imm}, NEW w \in Fresh,
             NEW f \in Fresh \cup {None}, NEW n \in 0 .. MaxUses, w # f, EmitAddSubCarry(a, b, c, w, f, n)
      PROVE  IInv'
  BY <1>6, EmitAddSubCarryInOrder
<1>7. ASSUME NEW a \in Operand, NEW b \in Operand, NEW w \in Fresh, NEW o \in Fresh,
             NEW n \in 0 .. MaxUses, w # o, EmitAddOverflow(a, b, w, o, n)
      PROVE  IInv'
  BY <1>7, EmitAddOverflowInOrder
<1>8. ASSUME NEW a \in Operand \ {Imm}, NEW w \in Fresh, NEW n \in 0 .. MaxUses, DefineAsExisting(w, a, n)
      PROVE  IInv'
  BY <1>8, DefineAsExistingInOrder
<1>9. ASSUME NEW args \in [DOMAIN ArgumentRegister -> Operand], PrepareForCall(args) PROVE IInv'
  BY <1>9, PrepareForCallInOrder
<1>10. EmitNext => IInv'
  BY <1>1, <1>2, <1>3, <1>4, <1>5, <1>6, <1>7, <1>8, <1>9, ZenonT(30) DEF EmitNext
<1>11. ASSUME NEW k \in DOMAIN regs, Realize(k) PROVE IInv'
  BY <1>11, RealizeInOrder
<1>12. CASE SpillsFlagsFirst
  BY <1>12, SpillsFlagsFirstInOrder
<1>13. CASE EmitterSpillsFlags
  BY <1>13, EmitterSpillsFlagsInOrder, SMTT(30)
<1>14. CASE Finish
  BY <1>14, FinishInOrder
<1>15. ASSUME NEW k \in DOMAIN CallerSave, SpillCallerSave(k) PROVE IInv'
  BY <1>15, SpillCallerSaveInOrder, SMTT(30)
<1>16. ASSUME NEW k \in DOMAIN regs, CopyArgument(k) PROVE IInv'
  BY <1>16, CopyArgumentInOrder
<1>17. ASSUME NEW w \in Fresh, NEW n \in 0 .. MaxUses, NEW l \in ResultRegister, CallReturns(w, n, l)
       PROVE  IInv'
  BY <1>17, CallReturnsInOrder, RegAllocAssumption, SMTT(30)
<1>18. ASSUME NEW l \in ResultRegister, CallReturns(None, 0, l) PROVE IInv'
  BY <1>18, CallReturnsInOrder, SMTT(30)
<1>19. CASE UNCHANGED vars
  <2>1. RA' = RA /\ uses' = uses /\ data' = data /\ regs' = regs /\ step' = step
    BY <1>19, SMTT(30) DEF vars, RA
  <2>2. Good(RA)' /\ Sound(RA, regs)'
    BY <2>1, SMTT(30) DEF IInv, Good, RAType, Unique, Sound
  <2>3. step \in {"spill", "realize"} => Realizing(RA, regs)'
    <3>1. step \in {"spill", "realize"} => Shape(regs)'
      BY <2>1, SMTT(30) DEF IInv, Realizing, Shape, Asked, DataOf
    <3> QED
      BY <2>1, <3>1, ZenonT(60) DEF IInv, Realizing, Done, Todo, DataOf, Held, Holds
  <2>4. step = "call" => Calling(RA, regs)'
    <3>1. step = "call" => Calling(RA, regs)
      BY DEF IInv
    <3> QED
      BY <2>1, <3>1, SMTT(30) DEF Calling, DataOf, Held, Holds
  <2> QED
    BY <2>1, <2>2, <2>3, <2>4, SMTT(30) DEF IInv
<1> QED
  BY <1>10, <1>11, <1>12, <1>13, <1>14, <1>15, <1>16, <1>17, <1>18, <1>19, ZenonT(30) DEF Next

LEMMA Invariant == Spec => []IInv
<1>1. Init => IInv
  BY InitInOrder
<1>2. IInv /\ [Next]_vars => IInv'
  BY StepInOrder
<1> QED
  BY <1>1, <1>2, PTL DEF Spec

\* Whatever the allocator has spilled, moved and evicted for the other operands,
\* every RAReg that Realize has given a register and every argument register that
\* PrepareForCall has filled holds the data of its operand.
THEOREM OperandsInPlace == Spec => []OperandsAreInPlace
<1>1. IInv => OperandsAreInPlace
  <2> SUFFICES ASSUME IInv PROVE OperandsAreInPlace
    OBVIOUS
  <2>1. CASE step = "next"
    <3>1. regs = <<>>
      BY <2>1, SMTT(30) DEF IInv
    <3> QED
      BY <3>1 DEF OperandsAreInPlace
  <2>2. CASE step \in {"spill", "realize"}
    BY <2>2, SMTT(30) DEF IInv, Realizing, Done, OperandsAreInPlace, RA
  <2>3. CASE step = "call"
    BY <2>3 DEF IInv, Calling, OperandsAreInPlace, RA
  <2> QED
    BY <2>1, <2>2, <2>3 DEF IInv
<1> QED
  BY <1>1, Invariant, PTL
=============================================================================
