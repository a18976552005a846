------------------------------ MODULE RegAlloc ------------------------------
(***************************************************************************)
(* The register allocator (src/umbra/backend/arm64/reg_alloc.{h,cpp}) as   *)
(* EmitArm64 drives it: for each IR instruction the emitter asks for its   *)
(* operands and results with RARegs, realizes them in registers, emits the *)
(* host instruction and drops them.                                        *)
(*                                                                         *)
(*   infos    the HostLocInfo of every location                            *)
(*   content  what the emitted code has in each location: the data of an   *)
(*            instruction, an immediate, or nothing in particular          *)
(*   uses     the uses of each instruction that are still to be emitted    *)
(*   data     whose result each instruction has (DefineAsExisting shares)  *)
(*   regs     the RARegs of the instruction being emitted                  *)
(*   step     what the emitter is about                                    *)
(*                                                                         *)
(* A block is unbounded: an instruction's name is used again after its     *)
(* last use.                                                               *)
(***************************************************************************)
EXTENDS Integers, Sequences, FiniteSetsExt, Functions

CONSTANTS
    Inst,           \* names of instructions
    GprOrder,       \* gpr_order and fpr_order: sequences of register indexes
    FprOrder,
    CallerSave,     \* ABI_CALLER_SAVE: the caller-saved registers, in order
    ArgumentRegister,   \* the registers of a call's arguments
    ResultRegister,     \* the registers in which the emitters leave a call's result
    SpillCount,
    MaxUses         \* bound on UseCount

None == "none"      \* no instruction, or nothing in particular
Imm == "immediate"

Gpr(i) == <<"Gpr", i>>
Flags == <<"Flags", 0>>
NoReg == <<"None", 0>>      \* an RAReg that has not been realized
Kinds == {"Gpr", "Fpr"}
Order(kind) == IF kind = "Gpr" THEN GprOrder ELSE FprOrder
Register(kind) == {<<kind, i>> : i \in Range(Order(kind))}
SpillSlot == {<<"Spill", i>> : i \in 0 .. SpillCount - 1}
HostLoc == Register("Gpr") \cup Register("Fpr") \cup {Flags} \cup SpillSlot

\* A block never has more values alive than there are spill slots (64).
ASSUME RegAllocAssumption ==
    /\ Range(CallerSave) \subseteq Register("Gpr") \cup Register("Fpr")
    /\ Range(ArgumentRegister) \subseteq Range(CallerSave)
    /\ ArgumentRegister \in Seq(HostLoc) /\ IsInjective(ArgumentRegister)
    /\ ResultRegister \subseteq Range(CallerSave)
    /\ SpillCount \in Nat /\ MaxUses \in Nat
    /\ IsFiniteSet(Inst) /\ Cardinality(Inst) =< SpillCount
    /\ None \notin Inst /\ Imm \notin Inst

VARIABLES infos, content, uses, data, regs, step

vars == <<infos, content, uses, data, regs, step>>

EmptyInfo ==
    [values |-> {}, locked |-> 0, realized |-> FALSE,
     uses_this_inst |-> 0, accumulated_uses |-> 0, expected_uses |-> 0]

Init ==
    /\ infos = [l \in HostLoc |-> EmptyInfo]
    /\ content = [l \in HostLoc |-> None]
    /\ uses = [i \in Inst |-> 0]
    /\ data = [i \in Inst |-> i]
    /\ regs = <<>>
    /\ step = "next"

-----------------------------------------------------------------------------
(* Operators on ra = [infos, content].                                     *)

RA == [infos |-> infos, content |-> content]

IsCompletelyEmpty(info) == info = EmptyInfo
MaybeAllocatable(info) == info.locked = 0 /\ ~info.realized
IsOneRemainingUse(info) ==
    info.accumulated_uses + 1 = info.expected_uses /\ info.uses_this_inst = 1

\* ValueLocation, and ValueInfo's location
Holds(ra, l, i) == i \in ra.infos[l].values
ValueLocation(ra, i) == CHOOSE l \in HostLoc : Holds(ra, l, i)

FindFreeSpill(ra) ==
    <<"Spill", Min({i \in 0 .. SpillCount - 1 : ra.infos[<<"Spill", i>>].values = {}})>>

\* STR, LDR, FMOV or MRS of what is in from, and the exchange of its info
Move(ra, from, to) ==
    [infos |-> [ra.infos EXCEPT ![to] = ra.infos[from], ![from] = EmptyInfo],
     content |-> [ra.content EXCEPT ![to] = ra.content[from]]]

\* SpillGpr and SpillFpr
Spill(ra, l) == IF ra.infos[l].values = {} THEN ra ELSE Move(ra, l, FindFreeSpill(ra))

\* The first empty register, or a random one that is neither locked nor realized
AllocateRegister(ra, kind) ==
    LET order == Order(kind)
        empty == {k \in DOMAIN order : IsCompletelyEmpty(ra.infos[<<kind, order[k]>>])}
    IN  IF empty # {}
        THEN {<<kind, order[k]>> : k \in {m \in empty : \A n \in empty : m =< n}}
        ELSE {l \in Register(kind) : MaybeAllocatable(ra.infos[l])}

\* The possible results of SpillFlags
SpillFlags(ra) ==
    IF ra.infos[Flags].values = {}
    THEN {ra}
    ELSE {Move(Spill(ra, l), Flags, l) : l \in AllocateRegister(ra, "Gpr")}

SetupLocation(i, use_count) ==
    [EmptyInfo EXCEPT !.values = {i}, !.realized = TRUE, !.expected_uses = use_count]

DataOf(i) == IF i = Imm THEN Imm ELSE data[i]

\* LoadCopyInto
LoadCopyInto(ra, i, l) ==
    [ra EXCEPT !.content[l] = IF i = Imm THEN Imm ELSE ra.content[ValueLocation(ra, i)]]

-----------------------------------------------------------------------------
(* RAReg::Realize: the possible results, with the register it gets.        *)

Gets(ra, l) == [ra |-> ra, reg |-> l]

\* Mutant: the register of an immediate may be taken again.
GenerateUnreserved(ra, kind) ==
    {Gets(LoadCopyInto(Spill(ra, l), Imm, l), l) : l \in AllocateRegister(ra, kind)}

GenerateImmediate(ra, kind) ==
    {Gets([LoadCopyInto(Spill(ra, l), Imm, l) EXCEPT !.infos[l].realized = TRUE], l) :
        l \in AllocateRegister(ra, kind)}

\* The value is where it is wanted, or it moves to an allocated register.
RealizeRead(ra, r) ==
    LET current == ValueLocation(ra, r.read)
    IN  IF r.read = Imm THEN GenerateImmediate(ra, r.kind)
        ELSE IF current[1] = r.kind
        THEN {Gets([ra EXCEPT !.infos[current].realized = TRUE], current)}
        ELSE {Gets([Move(Spill(ra, l), current, l) EXCEPT !.infos[l].realized = TRUE], l) :
                l \in AllocateRegister(ra, r.kind)}

\* Mutant: the flags are not spilled.
RealizeWriteOverFlags(ra, r) ==
    LET info == SetupLocation(r.write, uses[r.write])
    IN  IF r.kind = "Flags"
        THEN {Gets([ra EXCEPT !.infos[Flags] = info], Flags)}
        ELSE {Gets([Spill(ra, l) EXCEPT !.infos[l] = info], l) : l \in AllocateRegister(ra, r.kind)}

RealizeWrite(ra, r) ==
    LET info == SetupLocation(r.write, uses[r.write])
    IN  IF r.kind = "Flags"
        THEN {Gets([s EXCEPT !.infos[Flags] = info], Flags) : s \in SpillFlags(ra)}
        ELSE {Gets([Spill(ra, l) EXCEPT !.infos[l] = info], l) : l \in AllocateRegister(ra, r.kind)}

RealizeReadWrite(ra, r) ==
    {Gets(LoadCopyInto(g.ra, r.read, g.reg), g.reg) : g \in RealizeWrite(ra, r)}

\* ReadWriteFlags, which looks the value up before it spills the flags
ReadWriteFlags(ra, r) ==
    LET current == ValueLocation(ra, r.read)
        loaded == IF current = Flags
                  THEN IF IsOneRemainingUse(ra.infos[Flags]) THEN {ra} ELSE SpillFlags(ra)
                  ELSE {[s EXCEPT !.content[Flags] = s.content[current]] : s \in SpillFlags(ra)}
        written(s) == IF r.write = None THEN s
                      ELSE [s EXCEPT !.infos[Flags] =
                                [SetupLocation(r.write, uses[r.write]) EXCEPT !.realized = FALSE]]
    IN  {Gets(written(s), Flags) : s \in loaded}

Realizations(ra, r) ==
    CASE r.rw = "Read" -> RealizeRead(ra, r)
      [] r.rw = "Write" -> RealizeWrite(ra, r)
      [] r.rw = "ReadWrite" -> RealizeReadWrite(ra, r)
      [] r.rw = "ReadWriteFlags" -> ReadWriteFlags(ra, r)

-----------------------------------------------------------------------------
(* The emitter of one IR instruction.                                      *)

Access(rw, kind, read, write) == [rw |-> rw, kind |-> kind, read |-> read, write |-> write, reg |-> NoReg]
Locks(r) == r.rw \in {"Read", "ReadWrite"}
Reads(rs, i) == Cardinality({k \in DOMAIN rs : rs[k].read = i})
ReadsOf(rs, v) == Cardinality({k \in DOMAIN rs : rs[k].read \in v})
LocksOf(rs, v) == Cardinality({k \in DOMAIN rs : rs[k].read \in v /\ Locks(rs[k])})

\* An argument must have been defined (GetArgumentInfo asserts it).
Operand == {Imm} \cup {i \in Inst : uses[i] > 0 /\ \E l \in HostLoc : Holds(RA, l, i)}
Fresh == {i \in Inst : uses[i] = 0 /\ \A l \in HostLoc : ~Holds(RA, l, i)}
Readable(i, kind) == i \in Inst /\ kind = "Fpr" => ~Holds(RA, Flags, i)

\* GetArgumentInfo and the RAReg constructors
WithArguments(rs) ==
    [l \in HostLoc |->
        [infos[l] EXCEPT !.uses_this_inst = @ + ReadsOf(rs, infos[l].values),
                         !.locked = @ + LocksOf(rs, infos[l].values)]]

\* The uses left once the arguments of rs are taken and its results are defined
UsesAfter(rs, use_count) ==
    [i \in Inst |-> IF i \in DOMAIN use_count THEN use_count[i] ELSE uses[i] - Reads(rs, i)]

\* Mutant: the counts outlive the values.
UpdateUsesKeepingCounts(info) ==
    LET accumulated == info.accumulated_uses + info.uses_this_inst
    IN  [info EXCEPT !.values = IF accumulated = info.expected_uses THEN {} ELSE @,
                     !.uses_this_inst = 0, !.accumulated_uses = accumulated]

UpdateUses(info) ==
    LET accumulated == info.accumulated_uses + info.uses_this_inst
    IN  IF accumulated = info.expected_uses
        THEN [info EXCEPT !.values = {}, !.uses_this_inst = 0, !.accumulated_uses = 0, !.expected_uses = 0]
        ELSE [info EXCEPT !.uses_this_inst = 0, !.accumulated_uses = accumulated]

\* The emitter asks for rs, whose results will be used use_count times, and goes on
\* to realize them or to spill the flags.
BeginWith(rs, use_count, then) ==
    /\ step = "next"
    /\ \A i \in Inst : Reads(rs, i) =< uses[i]
    /\ infos' = WithArguments(rs)
    /\ uses' = UsesAfter(rs, use_count)
    /\ data' = [i \in Inst |-> IF i \in DOMAIN use_count THEN i ELSE data[i]]
    /\ regs' = rs
    /\ step' = then
    /\ UNCHANGED content

Begin(rs, use_count) == BeginWith(rs, use_count, "realize")

\* Operands only, as in a store.  An address and a vector never share a location,
\* and an emitter that may read one value twice reads it in one kind of register.
EmitUse(a, b, ka, kb) ==
    /\ Readable(a, ka) /\ Readable(b, kb)
    /\ DataOf(a) = DataOf(b) => ka = kb
    /\ Begin(<<Access("Read", ka, a, None), Access("Read", kb, b, None)>>, <<>>)

\* An operand and a result of its own, realized in either order.  What sets the
\* flags reads a number, never flags.
EmitTwoOp(a, w, ka, kw, n) ==
    LET read == Access("Read", ka, a, None)
        write == Access("Write", kw, None, w)
    IN  /\ Readable(a, ka)
        /\ kw = "Flags" => a \notin infos[Flags].values
        /\ Begin(<<read, write>>, [i \in {w} |-> n]) \/ Begin(<<write, read>>, [i \in {w} |-> n])

\* A vector is copied to the result's register, and a number goes into it.
EmitSetElement(a, b, w, n) ==
    /\ Readable(a, "Fpr")
    /\ Begin(<<Access("ReadWrite", "Fpr", a, w), Access("Read", "Gpr", b, None)>>, [i \in {w} |-> n])

\* Two operands and a result in registers of one kind.
EmitThreeOp(a, b, w, kind, n) ==
    /\ Readable(a, kind) /\ Readable(b, kind)
    /\ Begin(<<Access("Write", kind, None, w), Access("Read", kind, a, None),
               Access("Read", kind, b, None)>>, [i \in {w} |-> n])

\* The first two RARegs of EmitAddSub, and the one of b unless b is an immediate
AddSubOperands(a, b, w) ==
    LET two == <<Access("Write", "Gpr", None, w), Access("Read", "Gpr", a, None)>>
    IN  IF b = Imm THEN two ELSE Append(two, Access("Read", "Gpr", b, None))

\* EmitAddSub without a carry argument, with or without a flags result
EmitAddSub(a, b, w, f, n) ==
    LET operands == AddSubOperands(a, b, w)
    IN  /\ f # None => a \notin infos[Flags].values /\ b \notin infos[Flags].values
        /\ Begin(IF f = None THEN operands ELSE Append(operands, Access("Write", "Flags", None, f)),
                 [i \in {w, f} \ {None} |-> n])

\* EmitAddSub with a carry argument, with or without a flags result.  The carry
\* has been in a general register, and the frontends store the flags of one guest
\* instruction before they read the carry for the next.
EmitAddSubCarry(a, b, c, w, f, n) ==
    /\ infos[Flags].values = {}
    /\ \E l \in Register("Gpr") \cup SpillSlot : Holds(RA, l, c)
    /\ Begin(Append(AddSubOperands(a, b, w), Access("ReadWriteFlags", "Flags", c, f)),
             [i \in {w, f} \ {None} |-> n])

\* EmitAddSub with an overflow result, which spills the flags before it realizes
EmitAddOverflow(a, b, w, o, n) ==
    /\ a \notin infos[Flags].values /\ b \notin infos[Flags].values
    /\ BeginWith(<<Access("Write", "Gpr", None, w), Access("Read", "Gpr", a, None),
                   Access("Read", "Gpr", b, None), Access("Write", "Gpr", None, o)>>,
                 [i \in {w, o} |-> n], "spill")

SpillsFlagsFirst ==
    /\ step = "spill"
    /\ \E s \in SpillFlags(RA) : infos' = s.infos /\ content' = s.content
    /\ step' = "realize"
    /\ UNCHANGED <<uses, data, regs>>

\* Realize takes the RARegs in the order in which the emitter lists them.
Realize(k) ==
    /\ step = "realize"
    /\ regs[k].reg = NoReg
    /\ \A m \in 1 .. k - 1 : regs[m].reg # NoReg
    /\ \E g \in Realizations(RA, regs[k]) :
        /\ infos' = g.ra.infos
        /\ content' = g.ra.content
        /\ regs' = [regs EXCEPT ![k].reg = g.reg]
    /\ UNCHANGED <<uses, data, step>>

\* An emitter whose code overwrites the flags without a flags result spills them
\* before it realizes or, if it reads flags, after it.
EmitterSpillsFlags ==
    /\ step = "realize"
    /\ \A k \in DOMAIN regs : regs[k].kind # "Flags" /\ regs[k].read \notin infos[Flags].values
    /\ infos[Flags].values # {}
    /\ \E s \in SpillFlags(RA) : infos' = s.infos /\ content' = s.content
    /\ UNCHANGED <<uses, data, regs, step>>

\* Mutant: an RAReg that was only read leaves its register realized.
ReleasedWrites(l) ==
    UpdateUses([infos[l] EXCEPT
        !.locked = @ - LocksOf(regs, infos[l].values),
        !.realized = @ /\ l \notin {regs[k].reg : k \in {m \in DOMAIN regs : regs[m].write # None}}])

\* The locations at the next instruction: ~RAReg, then UpdateAllUses.  What the
\* results hold comes from the host instruction; a location without a value holds
\* nothing in particular.
Released(l) ==
    UpdateUses([infos[l] EXCEPT
        !.locked = @ - LocksOf(regs, infos[l].values),
        !.realized = @ /\ l \notin {regs[k].reg : k \in DOMAIN regs}])

EndsWith(is, cs, ds) ==
    /\ infos' = is
    /\ content' = [l \in HostLoc |-> IF is[l].values = {} THEN None ELSE cs[l]]
    /\ data' = [i \in Inst |-> IF \E l \in HostLoc : i \in is[l].values THEN ds[i] ELSE i]
    /\ regs' = <<>>
    /\ step' = "next"

ResultIn(l) ==
    LET ks == {k \in DOMAIN regs : regs[k].reg = l /\ regs[k].write # None}
    IN  IF ks = {} THEN content[l] ELSE regs[CHOOSE k \in ks : TRUE].write

Finish ==
    /\ step = "realize"
    /\ \A k \in DOMAIN regs : regs[k].reg # NoReg
    /\ EndsWith([l \in HostLoc |-> Released(l)], [l \in HostLoc |-> ResultIn(l)], data)
    /\ UNCHANGED uses

\* An immediate argument replaces the uses of w, and no location changes.
DefineAsExisting(w, a, n) ==
    LET r == <<Access("Existing", "Gpr", a, None)>>
        at == ValueLocation(RA, a)
        defined == [WithArguments(r) EXCEPT ![at].values = @ \cup {w}, ![at].expected_uses = @ + n]
    IN  /\ step = "next"
        /\ uses' = UsesAfter(r, [i \in {w} |-> n])
        /\ EndsWith([l \in HostLoc |-> UpdateUses(defined[l])], content, [data EXCEPT ![w] = data[a]])

\* PrepareForCall: the flags are spilled, then every caller-saved register, and
\* the arguments are copied.
PrepareForCall(args) ==
    LET rs == [k \in DOMAIN args |-> Access("Argument", "Gpr", args[k], None)]
    IN  /\ step = "next"
        /\ \A i \in Inst : Reads(rs, i) =< uses[i]
        /\ \E s \in SpillFlags([RA EXCEPT !.infos = WithArguments(rs)]) :
            infos' = s.infos /\ content' = s.content
        /\ uses' = UsesAfter(rs, <<>>)
        /\ regs' = rs
        /\ step' = "call"
        /\ UNCHANGED data

AllSpilled == \A l \in Range(CallerSave) : infos[l].values = {}

\* An iteration of the loops over ABI_CALLER_SAVE that finds a value
SpillCallerSave(k) ==
    LET ra == Spill(RA, CallerSave[k])
    IN  /\ step = "call"
        /\ infos[CallerSave[k]].values # {}
        /\ \A m \in 1 .. k - 1 : infos[CallerSave[m]].values = {}
        /\ infos' = ra.infos
        /\ content' = ra.content
        /\ UNCHANGED <<uses, data, regs, step>>

CopyArgument(k) ==
    /\ step = "call"
    /\ AllSpilled
    /\ regs[k].reg = NoReg
    /\ \A m \in 1 .. k - 1 : regs[m].reg # NoReg
    /\ content' = LoadCopyInto(RA, regs[k].read, ArgumentRegister[k]).content
    /\ regs' = [regs EXCEPT ![k].reg = ArgumentRegister[k]]
    /\ UNCHANGED <<infos, uses, data, step>>

\* The call returns, with the flags and the caller-saved registers lost, and a
\* result in l or none (DefineAsRegister).
CallReturns(w, n, l) ==
    LET result == [EmptyInfo EXCEPT !.values = {w} \ {None}, !.expected_uses = n]
        kept == [m \in HostLoc |-> IF m \in Range(CallerSave) \cup {Flags} THEN None ELSE content[m]]
    IN  /\ step = "call"
        /\ AllSpilled
        /\ \A k \in DOMAIN regs : regs[k].reg # NoReg
        /\ uses' = [i \in Inst |-> IF i = w THEN n ELSE uses[i]]
        /\ EndsWith([m \in HostLoc |-> UpdateUses(IF m = l THEN result ELSE infos[m])],
                    [kept EXCEPT ![l] = w],
                    [i \in Inst |-> IF i = w THEN w ELSE data[i]])

-----------------------------------------------------------------------------
\* The emitter of the next instruction begins.
EmitNext ==
    \/ \E a, b \in Operand, ka, kb \in Kinds : EmitUse(a, b, ka, kb)
    \/ \E a \in Operand, w \in Fresh, ka \in Kinds, kw \in Kinds \cup {"Flags"}, n \in 0 .. MaxUses :
            EmitTwoOp(a, w, ka, kw, n)
    \/ \E a \in Operand \ {Imm}, b \in Operand, w \in Fresh, n \in 0 .. MaxUses : EmitSetElement(a, b, w, n)
    \/ \E a, b \in Operand, w \in Fresh, kind \in Kinds, n \in 0 .. MaxUses : EmitThreeOp(a, b, w, kind, n)
    \/ \E a, b \in Operand, w \in Fresh, f \in Fresh \cup {None}, n \in 0 .. MaxUses :
            w # f /\ EmitAddSub(a, b, w, f, n)
    \/ \E a, b \in Operand, c \in Operand \ {Imm}, w \in Fresh, f \in Fresh \cup {None}, n \in 0 .. MaxUses :
            w # f /\ EmitAddSubCarry(a, b, c, w, f, n)
    \/ \E a, b \in Operand, w, o \in Fresh, n \in 0 .. MaxUses : w # o /\ EmitAddOverflow(a, b, w, o, n)
    \/ \E a \in Operand \ {Imm}, w \in Fresh, n \in 0 .. MaxUses : DefineAsExisting(w, a, n)
    \/ \E args \in [DOMAIN ArgumentRegister -> Operand] : PrepareForCall(args)

Next ==
    \/ step = "next" /\ EmitNext
    \/ \E k \in DOMAIN regs : Realize(k)
    \/ SpillsFlagsFirst
    \/ EmitterSpillsFlags
    \/ Finish
    \/ \E k \in DOMAIN CallerSave : SpillCallerSave(k)
    \/ \E k \in DOMAIN regs : CopyArgument(k)
    \/ step = "call" /\ \E w \in Fresh, n \in 0 .. MaxUses, l \in ResultRegister : CallReturns(w, n, l)
    \/ \E l \in ResultRegister : CallReturns(None, 0, l)

Spec == Init /\ [][Next]_vars

-----------------------------------------------------------------------------
(* Properties                                                              *)

\* When the host instruction is emitted, the register of every operand and every
\* argument register of a call holds the operand's data, whatever has been
\* spilled, moved and evicted to make room for the others.
OperandsAreInPlace ==
    \A k \in DOMAIN regs : regs[k].reg # NoReg /\ regs[k].read # None
        => content[regs[k].reg] = DataOf(regs[k].read)

\* An instruction that has uses left is in exactly one location, and the emitted
\* code has its data there.
ValuesHaveOneHome ==
    step = "next" =>
        \A i \in Inst : uses[i] > 0 =>
            /\ \E l \in HostLoc : Holds(RA, l, i) /\ content[l] = data[i]
            /\ \A l, m \in HostLoc : Holds(RA, l, i) /\ Holds(RA, m, i) => l = m

\* UpdateUses frees a location exactly after the last use of the last of the
\* instructions that share it, and leaves nothing behind (AssertNoMoreUses at
\* the end of the block).
UsesAreCounted ==
    step = "next" =>
        \A l \in HostLoc :
            LET info == infos[l]
                left == MapThenSumSet(LAMBDA i : uses[i], info.values)
            IN  IF info.values = {}
                THEN IsCompletelyEmpty(info)
                ELSE left > 0 /\ info.expected_uses - info.accumulated_uses = left

Unlocked(l) == infos[l].locked = 0 /\ ~infos[l].realized

\* The assertions of the allocator hold: a value to be moved is locked and not
\* realized, the flags are not moved to a vector register, a register is found
\* whenever one is asked for and is empty once it is spilled, the flags are not
\* spilled while an operand in them is locked, a call finds its registers unlocked
\* and then empty, and nothing stays locked after the instruction
\* (AssertAllUnlocked).
AssertsHold ==
    /\ step = "next" => \A l \in HostLoc : Unlocked(l)
    /\ step = "call" =>
        /\ \A l \in Range(CallerSave) : Unlocked(l)
        /\ AllSpilled => \A l \in Range(CallerSave) : IsCompletelyEmpty(infos[l])
    /\ step = "realize" /\ (\A k \in DOMAIN regs : regs[k].read \notin infos[Flags].values) =>
        infos[Flags].locked = 0
    /\ \A k \in DOMAIN regs : step = "realize" /\ regs[k].reg = NoReg =>
        /\ Realizations(RA, regs[k]) # {}
        /\ regs[k].rw = "Write" /\ regs[k].kind = "Flags" => Unlocked(Flags)
        /\ regs[k].write # None /\ regs[k].kind # "Flags" =>
            \A l \in AllocateRegister(RA, regs[k].kind) : IsCompletelyEmpty(Spill(RA, l).infos[l])
        /\ regs[k].rw = "Read" /\ regs[k].read # Imm =>
            LET current == ValueLocation(RA, regs[k].read)
            IN  current[1] # regs[k].kind =>
                    /\ ~infos[current].realized
                    /\ infos[current].locked > 0
                    /\ ~(current = Flags /\ regs[k].kind = "Fpr")
=============================================================================
