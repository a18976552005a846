------------------------- MODULE RegAllocRealizing --------------------------
(***************************************************************************)
(* Realizing an RAReg leaves the registers of the others alone.            *)
(***************************************************************************)
EXTENDS RegAllocInvariant

\* The registers of the other RARegs of the instruction
Others(rs, k) == {rs[m].reg : m \in {n \in DOMAIN rs : n # k /\ rs[n].reg # NoReg}}

\* What realizing r in l, which makes rb of ra, does if the locations in U are in use.
Realizes(ra, rb, l, r, U) ==
    /\ Good(rb)
    /\ Keeps(ra, rb, r.write)
    /\ Done(rb, [r EXCEPT !.reg = l])
    /\ \A m \in U : Same(ra, rb, m)
    /\ r.kind \in Kinds /\ ra.infos[Flags].values = {} => rb.infos[Flags].values = {}

\* The other RARegs that have their registers keep them realized.
LEMMA OthersRealized ==
    ASSUME NEW ra, NEW rs, Realizing(ra, rs), NEW k \in DOMAIN rs, rs[k].reg = NoReg
    PROVE  \A l \in Others(rs, k) :
            l \in HostLoc \ SpillSlot /\ ra.infos[l].realized /\ (rs[k].kind = "Flags" => l # Flags)
<1> SUFFICES ASSUME NEW m \in DOMAIN rs, m # k, rs[m].reg # NoReg
             PROVE  /\ rs[m].reg \in HostLoc \ SpillSlot
                    /\ ra.infos[rs[m].reg].realized
                    /\ rs[k].kind = "Flags" => rs[m].reg # Flags
  BY DEF Others
<1>1. Shape(rs) /\ Done(ra, rs[m])
  BY DEF Realizing
<1>2. rs[m].rw # "ReadWriteFlags"
  BY <1>1 DEF Shape
<1>3. rs[k].kind = "Flags" => rs[m].kind # "Flags"
  BY <1>1 DEF Shape
<1> QED
  BY <1>1, <1>2, <1>3, Locations DEF Done

\* A location whose values are to be moved to another kind of register is not in use.
LEMMA MovedIsNotInUse ==
    ASSUME NEW ra, NEW rs, Good(ra), Sound(ra, rs), Realizing(ra, rs), data \in [Inst -> Inst],
           NEW k \in DOMAIN rs, rs[k].reg = NoReg, rs[k].rw = "Read", rs[k].read \in Inst,
           NEW l \in HostLoc, rs[k].read \in ra.infos[l].values, l[1] # rs[k].kind
    PROVE  l \notin Others(rs, k)
<1> SUFFICES ASSUME NEW m \in DOMAIN rs, m # k, rs[m].reg = l, rs[m].reg # NoReg
             PROVE  FALSE
  BY DEF Others
<1>1. Shape(rs) /\ Done(ra, rs[m]) /\ Asked(rs[m]) /\ rs[m] \in Entry
  BY DEF Realizing, Shape
<1>2. rs[m].rw # "ReadWriteFlags"
  BY <1>1 DEF Shape
<1>3. rs[m].write = None
  BY <1>1 DEF Shape, Done, Entry
<1>4. rs[m].rw = "Read" /\ rs[m].read \in ra.infos[l].values /\ rs[m].read \in Inst /\ l[1] = rs[m].kind
  BY <1>1, <1>2, <1>3, RegAllocAssumption DEF Asked, Done, Entry
<1>5. data[rs[m].read] = ra.content[l] /\ data[rs[k].read] = ra.content[l]
  BY <1>1, <1>4 DEF Shape, Sound
<1>6. DataOf(rs[m].read) = DataOf(rs[k].read)
  BY <1>4, <1>5, RegAllocAssumption DEF DataOf
<1> QED
  BY <1>1, <1>4, <1>6 DEF Shape

\* An allocated register is not in use.
LEMMA AllocatedIsFree ==
    ASSUME NEW ra, NEW rs, Realizing(ra, rs), NEW k \in DOMAIN rs, rs[k].reg = NoReg,
           NEW kind \in Kinds, NEW l \in AllocateRegister(ra, kind)
    PROVE  /\ l \in HostLoc \ SpillSlot /\ l # Flags /\ l[1] = kind
           /\ l \notin Others(rs, k)
           /\ ~ra.infos[l].realized
BY Allocated, Locations, OthersRealized

LEMMA SetRealized ==
    ASSUME NEW f \in [HostLoc -> Info], NEW l \in HostLoc
    PROVE  [f EXCEPT ![l].realized = TRUE] \in [HostLoc -> Info]
<1>1. [f[l] EXCEPT !.realized = TRUE] \in Info
  BY Zenon DEF Info
<1> QED
  BY <1>1

LEMMA ImmediateRealizes ==
    ASSUME NEW ra, NEW rs, Good(ra), Realizing(ra, rs), NEW k \in DOMAIN rs, rs[k].reg = NoReg,
           rs[k].rw = "Read", rs[k].read = Imm, NEW g \in GenerateImmediate(ra, rs[k].kind)
    PROVE  Realizes(ra, g.ra, g.reg, rs[k], Others(rs, k))
<1>1. Asked(rs[k]) /\ rs[k] \in Entry /\ rs[k].kind \in Kinds /\ rs[k].write = None
  BY DEF Realizing, Shape, Asked
<1>2. PICK l \in AllocateRegister(ra, rs[k].kind) :
        g = Gets([LoadCopyInto(Spill(ra, l), Imm, l) EXCEPT !.infos[l].realized = TRUE], l)
  BY DEF GenerateImmediate
<1> DEFINE ga == g.ra
           gl == g.reg
<1> HIDE DEF ga, gl
<1>3. l \in HostLoc \ SpillSlot /\ l # Flags /\ l[1] = rs[k].kind /\ l \notin Others(rs, k)
  BY <1>1, AllocatedIsFree
<1> DEFINE rb == Spill(ra, l)
<1>4. /\ Good(rb)
      /\ Keeps(ra, rb, None)
      /\ \A m \in HostLoc \ {l} : m \notin SpillSlot => Same(ra, rb, m)
      /\ rb.infos[l].values = {}
  BY <1>3, SpillKeeps
<1> HIDE DEF rb
<1>5. /\ gl = l
      /\ ga.infos = [rb.infos EXCEPT ![l].realized = TRUE]
      /\ ga.content = [rb.content EXCEPT ![l] = Imm]
      /\ ga = [infos |-> ga.infos, content |-> ga.content]
  BY <1>2, <1>4, Zenon DEF Gets, LoadCopyInto, Good, RAType, rb, ga, gl
<1>6. /\ \A m \in HostLoc : ga.infos[m].values = rb.infos[m].values
      /\ \A m \in HostLoc \ {l} : Same(rb, ga, m)
      /\ ga.infos[l].realized /\ ga.content[l] = Imm
  BY <1>3, <1>4, <1>5 DEF Good, RAType, Info, Same
<1>7. Good(ga)
  <2>1. RAType(ga)
    <3>1. ga.infos \in [HostLoc -> Info]
      BY <1>3, <1>4, <1>5, SetRealized, SMTT(30) DEF Good, RAType
    <3>2. ga.content \in [HostLoc -> Inst \cup {None, Imm}]
      BY <1>3, <1>4, <1>5 DEF Good, RAType
    <3> QED
      BY <1>5, <3>1, <3>2, Zenon DEF RAType
  <2>2. Unique(ga)
    BY <1>4, <1>6 DEF Good, Unique
  <2> QED
    BY <2>1, <2>2 DEF Good
<1>8. Keeps(rb, ga, None)
  BY <1>4, <1>6, SMTT(30) DEF Keeps, Same
<1>9. Done(ga, [rs[k] EXCEPT !.reg = gl])
  BY <1>1, <1>3, <1>4, <1>5, <1>6 DEF Done, Entry, DataOf
<1>10. \A m \in Others(rs, k) : Same(ra, ga, m)
  BY <1>3, <1>4, <1>6, OthersRealized, ZenonT(30) DEF Same
<1>11. ga.infos[Flags].values = ra.infos[Flags].values
  BY <1>3, <1>4, <1>6, Locations DEF Same
<1>12. Keeps(ra, ga, rs[k].write)
  BY <1>1, <1>4, <1>8, KeepsTrans
<1>13. Realizes(ra, ga, gl, rs[k], Others(rs, k))
  BY <1>7, <1>9, <1>10, <1>11, <1>12 DEF Realizes
<1> QED
  BY <1>13 DEF ga, gl

LEMMA ReadRealizes ==
    ASSUME NEW ra, NEW rs, Good(ra), Sound(ra, rs), Realizing(ra, rs), data \in [Inst -> Inst],
           NEW k \in DOMAIN rs, rs[k].reg = NoReg,
           rs[k].rw = "Read", NEW g \in RealizeRead(ra, rs[k])
    PROVE  Realizes(ra, g.ra, g.reg, rs[k], Others(rs, k))
<1> DEFINE i == rs[k].read
           current == ValueLocation(ra, i)
           ga == g.ra
           gl == g.reg
<1> HIDE DEF ga, gl
<1>1. Asked(rs[k]) /\ rs[k] \in Entry /\ rs[k].kind \in Kinds /\ rs[k].write = None /\ i # None
      /\ Todo(ra, rs[k]) /\ Shape(rs)
  BY DEF Realizing, Shape, Asked
<1>2. CASE i = Imm
  BY <1>2, ImmediateRealizes DEF RealizeRead
<1>3. CASE i # Imm
  <2>1. i \in Inst /\ Held(ra, i)
    BY <1>1, <1>3 DEF Entry, Todo
  <2>2. current \in HostLoc /\ i \in ra.infos[current].values
    BY <2>1, ValueLocationHolds
  <2>3. ra.content[current] = data[i] /\ DataOf(i) = data[i]
    BY <1>1, <1>3, <2>1, <2>2 DEF Sound, Shape, DataOf
  <2> HIDE DEF current
  <2>4. CASE current[1] = rs[k].kind
    <3>1. g = Gets([ra EXCEPT !.infos[current].realized = TRUE], current)
      BY <1>3, <2>4 DEF RealizeRead, current
    <3>2. /\ gl = current
          /\ ga.infos = [ra.infos EXCEPT ![current].realized = TRUE]
          /\ ga.content = ra.content
          /\ ga = [infos |-> ga.infos, content |-> ga.content]
      BY <3>1, Zenon DEF Gets, Good, RAType, ga, gl
    <3>3. /\ \A m \in HostLoc : ga.infos[m].values = ra.infos[m].values /\ Same(ra, ga, m)
          /\ ga.infos[current].realized
      BY <2>2, <3>2 DEF Good, RAType, Info, Same
    <3>4. RAType(ga)
      BY <2>2, <3>2, SetRealized DEF Good, RAType
    <3>5. Unique(ga)
      BY <3>3 DEF Good, Unique
    <3>6. Keeps(ra, ga, rs[k].write)
      BY <1>1, <3>2, <3>3 DEF Keeps
    <3>7. current \notin SpillSlot
      BY <1>1, <2>4, Locations DEF Kinds
    <3>8. Done(ga, [rs[k] EXCEPT !.reg = gl])
      BY <1>1, <1>3, <2>2, <2>3, <2>4, <3>2, <3>3, <3>7, SMTT(30) DEF Done, Entry
    <3>9. \A m \in Others(rs, k) : Same(ra, ga, m)
      BY <3>3, OthersRealized
    <3>10. ga.infos[Flags].values = ra.infos[Flags].values
      BY <3>3, Locations
    <3>11. Realizes(ra, ga, gl, rs[k], Others(rs, k))
      BY <3>4, <3>5, <3>6, <3>8, <3>9, <3>10 DEF Realizes, Good
    <3> QED
      BY <3>11 DEF ga, gl
  <2>5. CASE current[1] # rs[k].kind
    <3>1. PICK l \in AllocateRegister(ra, rs[k].kind) :
            g = Gets([Move(Spill(ra, l), current, l) EXCEPT !.infos[l].realized = TRUE], l)
      BY <1>3, <2>5, ZenonT(30) DEF RealizeRead, current
    <3>2. l \in HostLoc \ SpillSlot /\ l # Flags /\ l[1] = rs[k].kind /\ l \notin Others(rs, k) /\ l # current
      BY <1>1, <2>5, AllocatedIsFree, SMTT(30)
    <3> DEFINE rb == Spill(ra, l)
               rc == Move(rb, current, l)
    <3>3. /\ Good(rb)
          /\ Keeps(ra, rb, None)
          /\ \A m \in HostLoc \ {l} :
                m \notin SpillSlot \/ ra.infos[m].values # {} => Same(ra, rb, m)
          /\ rb.infos[l].values = {}
      BY <3>2, SpillKeeps
    <3> HIDE DEF rb
    <3>4. /\ Good(rc)
          /\ Keeps(rb, rc, None)
          /\ \A m \in HostLoc \ {current, l} : Same(rb, rc, m)
          /\ rc.infos[l] = rb.infos[current] /\ rc.content[l] = rb.content[current]
          /\ rc.infos[current].values = {}
      BY <2>2, <3>2, <3>3, MoveKeeps
    <3>5. i \in rb.infos[current].values /\ rb.content[current] = data[i]
      BY <2>2, <2>3, <3>2, <3>3 DEF Same
    <3> HIDE DEF rc
    <3>6. /\ gl = l
          /\ ga.infos = [rc.infos EXCEPT ![l].realized = TRUE]
          /\ ga.content = rc.content
          /\ ga = [infos |-> ga.infos, content |-> ga.content]
      BY <3>1, <3>4, Zenon DEF Gets, Good, RAType, rc, rb, ga, gl
    <3>7. /\ \A m \in HostLoc : ga.infos[m].values = rc.infos[m].values /\ Same(rc, ga, m)
          /\ ga.infos[l].realized
      BY <3>2, <3>4, <3>6 DEF Good, RAType, Info, Same
    <3>8. RAType(ga)
      <4>1. rc.infos \in [HostLoc -> Info] /\ rc.content \in [HostLoc -> Inst \cup {None, Imm}]
        BY <3>4 DEF Good, RAType
      <4>2. ga.infos \in [HostLoc -> Info]
        BY <3>2, <3>6, <4>1, SetRealized, SMTT(30)
      <4> QED
        BY <3>6, <4>1, <4>2, Zenon DEF RAType
    <3>9. Unique(ga)
      BY <3>4, <3>7 DEF Good, Unique
    <3>10. Keeps(ra, ga, rs[k].write)
      <4>1. Keeps(rc, ga, None)
        BY <3>6, <3>7, SMTT(30) DEF Keeps
      <4>2. Keeps(ra, ga, None)
        BY <3>3, <3>4, <4>1, KeepsTrans
      <4> QED
        BY <1>1, <4>2
    <3>11. Done(ga, [rs[k] EXCEPT !.reg = gl])
      BY <1>1, <1>3, <2>3, <3>2, <3>4, <3>5, <3>6, <3>7, SMTT(30) DEF Done, Entry
    <3>12. current \notin Others(rs, k)
      BY <2>1, <2>2, <2>5, MovedIsNotInUse, SMTT(30)
    <3>13. \A m \in Others(rs, k) : Same(ra, ga, m)
      BY <3>2, <3>3, <3>4, <3>7, <3>12, OthersRealized, SMTT(30) DEF Same
    <3>14. ra.infos[Flags].values = {} => ga.infos[Flags].values = {}
      BY <2>2, <3>2, <3>3, <3>4, <3>7, Locations, SMTT(30) DEF Same
    <3>15. Realizes(ra, ga, gl, rs[k], Others(rs, k))
      BY <3>8, <3>9, <3>10, <3>11, <3>13, <3>14, SMTT(30) DEF Realizes, Good
    <3> QED
      BY <3>15 DEF ga, gl
  <2> QED
    BY <2>4, <2>5
<1> QED
  BY <1>2, <1>3

LEMMA SetupLocationType ==
    ASSUME NEW i \in Inst, NEW n \in Int
    PROVE  /\ SetupLocation(i, n) \in Info
           /\ SetupLocation(i, n).values = {i}
           /\ SetupLocation(i, n).realized
           /\ [SetupLocation(i, n) EXCEPT !.realized = FALSE] \in Info
           /\ [SetupLocation(i, n) EXCEPT !.realized = FALSE].values = {i}
<1>1. ASSUME NEW info \in Info
      PROVE  /\ [info EXCEPT !.values = {i}, !.realized = TRUE, !.expected_uses = n] \in Info
             /\ [info EXCEPT !.values = {i}, !.realized = TRUE, !.expected_uses = n].values = {i}
             /\ [info EXCEPT !.values = {i}, !.realized = TRUE, !.expected_uses = n].realized
  BY Zenon DEF Info
<1>2. ASSUME NEW info \in Info
      PROVE  /\ [info EXCEPT !.realized = FALSE] \in Info
             /\ [info EXCEPT !.realized = FALSE].values = info.values
  BY Zenon DEF Info
<1>3. /\ SetupLocation(i, n) \in Info
      /\ SetupLocation(i, n).values = {i}
      /\ SetupLocation(i, n).realized
  BY <1>1, EmptyInfoType, Zenon DEF SetupLocation
<1> QED
  BY <1>2, <1>3

\* rb is ra with the new value w in the empty location l.
Enters(ra, rb, l, w, info) ==
    /\ l \in HostLoc /\ ra.infos[l].values = {}
    /\ w \in Inst /\ ~Held(ra, w)
    /\ info \in Info /\ info.values = {w}
    /\ rb = [ra EXCEPT !.infos[l] = info]

\* A new value enters an empty location.
LEMMA EnterKeeps ==
    ASSUME NEW ra, NEW rb, NEW l, NEW w, NEW info, Good(ra), Enters(ra, rb, l, w, info)
    PROVE  /\ Good(rb)
           /\ Keeps(ra, rb, w)
           /\ \A m \in HostLoc \ {l} : Same(ra, rb, m)
           /\ rb.infos[l] = info
           /\ rb.content = ra.content
<1>1. /\ rb.infos = [m \in HostLoc |-> IF m = l THEN info ELSE ra.infos[m]]
      /\ rb.content = ra.content
      /\ RAType(rb)
  BY DEF Good, RAType, Enters
<1>2. \A m \in HostLoc : w \notin ra.infos[m].values
  BY DEF Held, Holds, Enters
<1>3. Unique(rb)
  BY <1>1, <1>2 DEF Good, Unique, Enters
<1>4. Keeps(ra, rb, w)
  BY <1>1, SMTT(30) DEF Keeps, Enters
<1> QED
  BY <1>1, <1>3, <1>4 DEF Good, Same, Enters

\* rb is ra with the result of r set up in l.
SetsUp(ra, rb, l, r, U) ==
    /\ Good(rb)
    /\ Keeps(ra, rb, r.write)
    /\ l \in HostLoc \ SpillSlot /\ l[1] = r.kind
    /\ rb.infos[l].realized /\ rb.infos[l].values = {r.write}
    /\ l \notin U
    /\ \A m \in U : Same(ra, rb, m)
    /\ r.kind \in Kinds /\ ra.infos[Flags].values = {} => rb.infos[Flags].values = {}

LEMMA WriteSetsUp ==
    ASSUME NEW ra, NEW rs, Good(ra), Realizing(ra, rs), uses \in [Inst -> Int],
           NEW k \in DOMAIN rs, rs[k].reg = NoReg,
           rs[k].rw \in {"Write", "ReadWrite"}, NEW g \in RealizeWrite(ra, rs[k])
    PROVE  SetsUp(ra, g.ra, g.reg, rs[k], Others(rs, k))
<1> DEFINE w == rs[k].write
           info == SetupLocation(w, uses[w])
           ga == g.ra
           gl == g.reg
<1> HIDE DEF ga, gl
<1>1. rs[k] \in Entry /\ w \in Inst /\ w # None /\ ~Held(ra, w)
  BY RegAllocAssumption DEF Realizing, Shape, Asked, Todo
<1>2. info \in Info /\ info.values = {w} /\ info.realized
  BY <1>1, SetupLocationType, ZenonT(30)
<1> HIDE DEF info, w
<1>3. ASSUME NEW rb, Keeps(ra, rb, None) PROVE ~Held(rb, w)
  BY <1>1, <1>3 DEF Keeps, Held, Holds
<1>4. CASE rs[k].kind = "Flags"
  <2>1. PICK rb \in SpillFlags(ra) : g = Gets([rb EXCEPT !.infos[Flags] = info], Flags)
    BY <1>4, Zenon DEF RealizeWrite, info, w
  <2>2. /\ Good(rb)
        /\ Keeps(ra, rb, None)
        /\ rb.infos[Flags].values = {}
        /\ \A m \in HostLoc \ SpillSlot : m # Flags /\ ra.infos[m].realized => Same(ra, rb, m)
    BY SpillFlagsKeeps
  <2>3. gl = Flags /\ ga = [rb EXCEPT !.infos[Flags] = info]
    BY <2>1 DEF Gets, ga, gl
  <2>4. /\ Good(ga)
        /\ Keeps(rb, ga, w)
        /\ \A m \in HostLoc \ {Flags} : Same(rb, ga, m)
        /\ ga.infos[Flags] = info
    <3>1. ~Held(rb, w) /\ Flags \in HostLoc
      BY <1>3, <2>2, Locations
    <3>2. Enters(rb, ga, Flags, w, info)
      BY <1>1, <1>2, <2>2, <2>3, <3>1, SMTT(30) DEF Enters
    <3> QED
      BY <2>2, <3>2, EnterKeeps, SMTT(30)
  <2>5. Flags \notin Others(rs, k)
    BY <1>4, OthersRealized, SMTT(30)
  <2>6. \A m \in Others(rs, k) : Same(ra, ga, m)
    BY <2>2, <2>4, <2>5, OthersRealized, SMTT(30) DEF Same
  <2>7. Keeps(ra, ga, w)
    BY <2>2, <2>4, KeepsTrans
  <2>8. SetsUp(ra, ga, gl, rs[k], Others(rs, k))
    BY <1>2, <1>4, <2>3, <2>4, <2>5, <2>6, <2>7, Locations DEF Kinds, SetsUp, w
  <2> QED
    BY <2>8 DEF ga, gl
<1>5. CASE rs[k].kind # "Flags"
  <2>1. PICK l \in AllocateRegister(ra, rs[k].kind) : g = Gets([Spill(ra, l) EXCEPT !.infos[l] = info], l)
    BY <1>5 DEF RealizeWrite, info, w
  <2>2. l \in HostLoc \ SpillSlot /\ l # Flags /\ l[1] = rs[k].kind /\ l \notin Others(rs, k)
    BY <1>1, <1>5, AllocatedIsFree, SMTT(30) DEF Entry
  <2> DEFINE rb == Spill(ra, l)
  <2>3. /\ Good(rb)
        /\ Keeps(ra, rb, None)
        /\ \A m \in HostLoc \ {l} : m \notin SpillSlot => Same(ra, rb, m)
        /\ rb.infos[l].values = {}
    BY <2>2, SpillKeeps
  <2>4. gl = l /\ ga = [rb EXCEPT !.infos[l] = info]
    BY <2>1 DEF Gets, ga, gl
  <2> HIDE DEF rb
  <2>5. /\ Good(ga)
        /\ Keeps(rb, ga, w)
        /\ \A m \in HostLoc \ {l} : Same(rb, ga, m)
        /\ ga.infos[l] = info
    <3>1. ~Held(rb, w)
      BY <1>3, <2>3
    <3>2. Enters(rb, ga, l, w, info)
      BY <1>1, <1>2, <2>2, <2>3, <2>4, <3>1, SMTT(30) DEF Enters
    <3> QED
      BY <2>3, <3>2, EnterKeeps, SMTT(30)
  <2>6. \A m \in Others(rs, k) : Same(ra, ga, m)
    BY <2>2, <2>3, <2>5, OthersRealized, SMTT(30) DEF Same
  <2>7. Keeps(ra, ga, w)
    BY <2>3, <2>5, KeepsTrans, SMTT(30)
  <2>8. ga.infos[Flags].values = ra.infos[Flags].values
    BY <2>2, <2>3, <2>5, Locations, SMTT(30) DEF Same
  <2>9. SetsUp(ra, ga, gl, rs[k], Others(rs, k))
    BY <1>2, <2>2, <2>4, <2>5, <2>6, <2>7, <2>8, SMTT(30) DEF SetsUp, w
  <2> QED
    BY <2>9 DEF ga, gl
<1> QED
  BY <1>4, <1>5

LEMMA WriteRealizes ==
    ASSUME NEW ra, NEW rs, Good(ra), Realizing(ra, rs), uses \in [Inst -> Int],
           NEW k \in DOMAIN rs, rs[k].reg = NoReg,
           rs[k].rw = "Write", NEW g \in RealizeWrite(ra, rs[k])
    PROVE  Realizes(ra, g.ra, g.reg, rs[k], Others(rs, k))
<1> DEFINE ga == g.ra
           gl == g.reg
<1>1. rs[k] \in Entry /\ rs[k].read = None
  BY SMTT(30) DEF Realizing, Shape, Asked
<1>2. SetsUp(ra, ga, gl, rs[k], Others(rs, k))
  BY WriteSetsUp, ZenonT(30)
<1> HIDE DEF ga, gl
<1>3. Done(ga, [rs[k] EXCEPT !.reg = gl])
  BY <1>1, <1>2 DEF SetsUp, Done, Entry
<1>4. Realizes(ra, ga, gl, rs[k], Others(rs, k))
  BY <1>2, <1>3 DEF SetsUp, Realizes
<1> QED
  BY <1>4 DEF ga, gl

LEMMA ReadWriteRealizes ==
    ASSUME NEW ra, NEW rs, Good(ra), Sound(ra, rs), Realizing(ra, rs),
           data \in [Inst -> Inst], uses \in [Inst -> Int],
           NEW k \in DOMAIN rs, rs[k].reg = NoReg,
           rs[k].rw = "ReadWrite", NEW g \in RealizeReadWrite(ra, rs[k])
    PROVE  Realizes(ra, g.ra, g.reg, rs[k], Others(rs, k))
<1> DEFINE i == rs[k].read
<1>1. rs[k] \in Entry /\ rs[k].kind \in Kinds /\ i # None /\ rs[k].write \in Inst
      /\ Todo(ra, rs[k]) /\ Shape(rs)
  BY DEF Realizing, Shape, Asked
<1>2. PICK h \in RealizeWrite(ra, rs[k]) : g = Gets(LoadCopyInto(h.ra, i, h.reg), h.reg)
  BY SMTT(30) DEF RealizeReadWrite
<1> DEFINE ga == g.ra
           gl == g.reg
           ha == h.ra
           hl == h.reg
<1>a. SetsUp(ra, ha, hl, rs[k], Others(rs, k))
  BY WriteSetsUp, ZenonT(30)
<1>b. ga = LoadCopyInto(ha, i, hl) /\ gl = hl
  BY <1>2 DEF Gets
<1> HIDE DEF ga, gl, ha, hl
<1>3. /\ Good(ha)
      /\ Keeps(ra, ha, rs[k].write)
      /\ hl \in HostLoc \ SpillSlot /\ hl[1] = rs[k].kind
      /\ ha.infos[hl].realized /\ ha.infos[hl].values = {rs[k].write}
      /\ hl \notin Others(rs, k)
      /\ \A m \in Others(rs, k) : Same(ra, ha, m)
      /\ ra.infos[Flags].values = {} => ha.infos[Flags].values = {}
  BY <1>1, <1>a DEF SetsUp
<1> DEFINE c == IF i = Imm THEN Imm ELSE ha.content[ValueLocation(ha, i)]
<1>4. c = DataOf(i) /\ c \in Inst \cup {None, Imm}
  <2>1. CASE i = Imm
    BY <2>1, SMTT(30) DEF DataOf
  <2>2. CASE i # Imm
    <3>1. i \in Inst /\ Held(ra, i) /\ \A m \in DOMAIN rs : rs[m].write # i
      BY <1>1, <2>2, SMTT(30) DEF Entry, Todo, Shape
    <3>2. Held(ha, i)
      BY <1>3, <3>1, SMTT(30) DEF Keeps, Held, Holds
    <3>3. ValueLocation(ha, i) \in HostLoc /\ i \in ha.infos[ValueLocation(ha, i)].values
      BY <3>2, ValueLocationHolds, SMTT(30)
    <3>4. \E l \in HostLoc : i \in ra.infos[l].values /\ ha.content[ValueLocation(ha, i)] = ra.content[l]
      BY <1>3, <3>1, <3>3, SMTT(30) DEF Keeps
    <3>5. ha.content[ValueLocation(ha, i)] = data[i]
      BY <3>1, <3>4, SMTT(30) DEF Sound
    <3> QED
      BY <2>2, <3>1, <3>5 DEF DataOf
  <2> QED
    BY <2>1, <2>2
<1>5. /\ gl = hl
      /\ ga.infos = ha.infos
      /\ ga.content = [ha.content EXCEPT ![hl] = c]
      /\ ga = [infos |-> ga.infos, content |-> ga.content]
  BY <1>3, <1>b, SMTT(30) DEF LoadCopyInto, Good, RAType
<1> HIDE DEF c
<1>6. RAType(ga)
  BY <1>3, <1>4, <1>5, SMTT(30) DEF Good, RAType
<1>7. Unique(ga)
  BY <1>3, <1>5, SMTT(30) DEF Good, Unique
<1>8. /\ \A m \in HostLoc \ {hl} : ga.content[m] = ha.content[m] /\ Same(ha, ga, m)
      /\ ga.content[hl] = c
  BY <1>3, <1>5, SMTT(30) DEF Good, RAType, Same
<1>9. Keeps(ra, ga, rs[k].write)
  <2>1. ~Held(ra, rs[k].write)
    BY <1>1, RegAllocAssumption, SMTT(30) DEF Todo
  <2>2. ASSUME NEW l \in HostLoc, NEW j \in ra.infos[l].values
        PROVE  \E m \in HostLoc : j \in ga.infos[m].values /\ ga.content[m] = ra.content[l]
    <3>1. PICK m \in HostLoc : j \in ha.infos[m].values /\ ha.content[m] = ra.content[l]
      BY <1>3, <2>2, SMTT(30) DEF Keeps
    <3>2. m # hl
      BY <1>3, <2>1, <2>2, <3>1, SMTT(30) DEF Held, Holds
    <3> QED
      BY <1>5, <1>8, <3>1, <3>2, SMTT(30)
  <2>3. ASSUME NEW m \in HostLoc, NEW j \in ga.infos[m].values, j # rs[k].write
        PROVE  \E l \in HostLoc : j \in ra.infos[l].values /\ ga.content[m] = ra.content[l]
    <3>1. m # hl
      BY <1>3, <1>5, <2>3, SMTT(30)
    <3> QED
      BY <1>3, <1>5, <1>8, <2>3, <3>1, SMTT(30) DEF Keeps
  <2> QED
    BY <2>2, <2>3 DEF Keeps
<1>10. Done(ga, [rs[k] EXCEPT !.reg = gl])
  BY <1>1, <1>3, <1>4, <1>5, <1>8, SMTT(30) DEF Done, Entry
<1>11. \A m \in Others(rs, k) : Same(ra, ga, m)
  BY <1>3, <1>8, OthersRealized, SMTT(30) DEF Same
<1>12. Realizes(ra, ga, gl, rs[k], Others(rs, k))
  BY <1>3, <1>5, <1>6, <1>7, <1>9, <1>10, <1>11, SMTT(30) DEF Realizes, Good
<1> QED
  BY <1>12 DEF ga, gl

LEMMA ReadWriteFlagsRealizes ==
    ASSUME NEW ra, NEW rs, Good(ra), Sound(ra, rs), Realizing(ra, rs),
           data \in [Inst -> Inst], uses \in [Inst -> Int],
           NEW k \in DOMAIN rs, rs[k].reg = NoReg,
           rs[k].rw = "ReadWriteFlags", NEW g \in ReadWriteFlags(ra, rs[k])
    PROVE  Realizes(ra, g.ra, g.reg, rs[k], Others(rs, k))
<1> DEFINE i == rs[k].read
           w == rs[k].write
           current == ValueLocation(ra, i)
           s == [ra EXCEPT !.content[Flags] = ra.content[current]]
           info == [SetupLocation(w, uses[w]) EXCEPT !.realized = FALSE]
           ga == g.ra
           gl == g.reg
<1> HIDE DEF ga, gl
<1>1. rs[k] \in Entry /\ rs[k].kind = "Flags" /\ i \in Inst /\ i # Imm
      /\ Todo(ra, rs[k]) /\ Shape(rs)
  BY RegAllocAssumption DEF Realizing, Shape, Asked
<1>2. Held(ra, i) /\ ra.infos[Flags].values = {} /\ \A m \in DOMAIN rs : rs[m].write # i
  BY <1>1 DEF Todo, Shape
<1>3. current \in HostLoc /\ i \in ra.infos[current].values
  BY <1>2, ValueLocationHolds, SMTT(30)
<1>4. current # Flags /\ ra.content[current] = data[i]
  BY <1>1, <1>2, <1>3, SMTT(30) DEF Sound
<1>5. Flags \in HostLoc \ SpillSlot
  BY Locations
<1>6. SpillFlags(ra) = {ra}
  BY <1>2 DEF SpillFlags
<1>7. g = IF w = None THEN Gets(s, Flags) ELSE Gets([s EXCEPT !.infos[Flags] = info], Flags)
  BY <1>4, <1>6, Zenon DEF ReadWriteFlags
<1> HIDE DEF current
<1>8. /\ s.infos = ra.infos
      /\ \A m \in HostLoc \ {Flags} : s.content[m] = ra.content[m]
      /\ s.content[Flags] = data[i]
      /\ RAType(s)
  BY <1>3, <1>4, <1>5, SMTT(30) DEF Good, RAType
<1> HIDE DEF s, info
<1>9. Good(s)
  BY <1>8 DEF Good, Unique
<1>10. Keeps(ra, s, None) /\ \A m \in HostLoc \ {Flags} : Same(ra, s, m)
  BY <1>2, <1>8, SMTT(30) DEF Keeps, Same
<1>11. \A m \in Others(rs, k) : m \in HostLoc \ {Flags}
  BY <1>1, OthersRealized
<1>12. DataOf(i) = data[i]
  BY <1>1 DEF DataOf
<1>13. CASE w = None
  <2>1. ga = s /\ gl = Flags
    BY <1>7, <1>13 DEF Gets, ga, gl
  <2>2. Done(ga, [rs[k] EXCEPT !.reg = gl])
    BY <1>1, <1>5, <1>8, <1>12, <1>13, <2>1, SMTT(30) DEF Done, Entry
  <2>3. Realizes(ra, ga, gl, rs[k], Others(rs, k))
    BY <1>1, <1>9, <1>10, <1>11, <1>13, <2>1, <2>2 DEF Realizes, Kinds
  <2> QED
    BY <2>3 DEF ga, gl
<1>14. CASE w # None
  <2>1. ga = [s EXCEPT !.infos[Flags] = info] /\ gl = Flags
    BY <1>7, <1>14 DEF Gets, ga, gl
  <2>2. w \in Inst /\ ~Held(ra, w)
    BY <1>1, <1>14 DEF Entry, Todo
  <2>3. info \in Info /\ info.values = {w}
    BY <2>2, SetupLocationType DEF info
  <2>4. ~Held(s, w)
    BY <1>8, <2>2 DEF Held, Holds
  <2>5. Enters(s, ga, Flags, w, info)
    BY <1>2, <1>5, <1>8, <2>1, <2>2, <2>3, <2>4, SMTT(30) DEF Enters
  <2>6. /\ Good(ga)
        /\ Keeps(s, ga, w)
        /\ \A m \in HostLoc \ {Flags} : Same(s, ga, m)
        /\ ga.infos[Flags] = info
        /\ ga.content = s.content
    BY <1>9, <2>5, EnterKeeps, SMTT(30)
  <2>7. Keeps(ra, ga, w)
    BY <1>9, <1>10, <2>6, KeepsTrans
  <2>8. Done(ga, [rs[k] EXCEPT !.reg = gl])
    BY <1>1, <1>5, <1>8, <1>12, <2>1, <2>3, <2>6, SMTT(30) DEF Done, Entry
  <2>9. \A m \in Others(rs, k) : Same(ra, ga, m)
    BY <1>10, <1>11, <2>6 DEF Same
  <2>10. Realizes(ra, ga, gl, rs[k], Others(rs, k))
    BY <1>1, <2>6, <2>7, <2>8, <2>9 DEF Realizes, Kinds
  <2> QED
    BY <2>10 DEF ga, gl
<1> QED
  BY <1>13, <1>14, SMTT(30)

\* An RAReg keeps its location while the location is the same.
LEMMA DoneStays ==
    ASSUME NEW ra, NEW rb, NEW r, Done(ra, r), Same(ra, rb, r.reg)
    PROVE  Done(rb, r)
BY ZenonT(30) DEF Done, Same

\* A realized RAReg leaves the instruction in order.
LEMMA RealizedStaysInOrder ==
    ASSUME NEW ra, NEW rs, Good(ra), Sound(ra, rs), Realizing(ra, rs), data \in [Inst -> Inst],
           NEW k \in DOMAIN rs, rs[k].reg = NoReg, \A m \in 1 .. k - 1 : rs[m].reg # NoReg,
           NEW rb, NEW reg, Realizes(ra, rb, reg, rs[k], Others(rs, k))
    PROVE  LET rn == [rs EXCEPT ![k].reg = reg]
           IN  Good(rb) /\ Sound(rb, rn) /\ Realizing(rb, rn)
<1> DEFINE rn == [rs EXCEPT ![k].reg = reg]
<1>1. Shape(rs) /\ rs[k] \in Entry /\ reg \in HostLoc
  <2>1. Shape(rs) /\ rs[k] \in Entry
    BY DEF Realizing, Shape
  <2>2. [rs[k] EXCEPT !.reg = reg].reg \in HostLoc
    BY DEF Realizes, Done
  <2>3. [rs[k] EXCEPT !.reg = reg].reg = reg
    BY <2>1 DEF Entry
  <2> QED
    BY <2>1, <2>2, <2>3
<1>2. /\ DOMAIN rn = DOMAIN rs
      /\ \A m \in DOMAIN rs : /\ rn[m].rw = rs[m].rw /\ rn[m].kind = rs[m].kind
                              /\ rn[m].read = rs[m].read /\ rn[m].write = rs[m].write
                              /\ m # k => rn[m] = rs[m]
      /\ rn[k] = [rs[k] EXCEPT !.reg = reg]
      /\ rn[k].reg = reg
      /\ rn \in [DOMAIN rs -> Entry]
  BY <1>1 DEF Shape, Entry
<1> HIDE DEF rn
<1>3. Sound(rb, rn)
  <2> SUFFICES ASSUME NEW l \in HostLoc, NEW i \in rb.infos[l].values, \A m \in DOMAIN rn : rn[m].write # i
               PROVE  rb.content[l] = data[i]
    BY DEF Sound
  <2>1. \A m \in DOMAIN rs : rs[m].write # i
    BY <1>2
  <2>2. PICK n \in HostLoc : i \in ra.infos[n].values /\ rb.content[l] = ra.content[n]
    BY <2>1 DEF Realizes, Keeps
  <2> QED
    BY <2>1, <2>2, SMTT(30) DEF Sound
<1>4. Shape(rn)
  <2>1. \A m \in DOMAIN rn : Asked(rn[m])
    BY <1>1, <1>2 DEF Shape, Asked
  <2>2. ASSUME NEW n \in DOMAIN rn, NEW m \in DOMAIN rn, m < n, rn[n].reg # NoReg
        PROVE  rn[m].reg # NoReg
    <3>1. m \in Nat \ {0} /\ n \in Nat /\ k \in Nat
      BY <1>1, <1>2 DEF Shape
    <3>2. CASE n = k
      BY <1>2, <2>2, <3>1, <3>2
    <3>3. CASE n # k
      <4>1. rs[n].reg # NoReg /\ rs[m].reg # NoReg
        BY <1>1, <1>2, <2>2, <3>3, SMTT(30) DEF Shape
      <4> QED
        BY <1>2, <4>1
    <3> QED
      BY <3>2, <3>3
  <2> QED
    BY <1>1, <1>2, <2>1, <2>2 DEF Shape
<1>5. ASSUME NEW m \in DOMAIN rn
      PROVE  IF rn[m].reg # NoReg THEN Done(rb, rn[m]) ELSE Todo(rb, rn[m])
  <2>1. CASE m = k
    <3>1. Done(rb, rn[k])
      BY <1>2 DEF Realizes
    <3>2. rn[k].reg # NoReg
      BY <1>1, <1>2, Locations, SMTT(30)
    <3> QED
      BY <2>1, <3>1, <3>2
  <2>2. CASE m # k /\ rs[m].reg # NoReg
    <3>1. Same(ra, rb, rs[m].reg) /\ Done(ra, rs[m])
      BY <1>2, <2>2, SMTT(30) DEF Realizes, Others, Realizing
    <3>2. Done(rb, rs[m])
      BY <3>1, DoneStays
    <3>3. rn[m] = rs[m]
      BY <1>2, <2>2
    <3> QED
      BY <2>2, <3>2, <3>3
  <2>3. CASE m # k /\ rs[m].reg = NoReg
    <3>1. Todo(ra, rs[m])
      BY <1>2, <2>3 DEF Realizing
    <3>2. rs[m].write # None => ~Held(rb, rs[m].write)
      BY <1>1, <1>2, <2>3, <3>1 DEF Shape, Todo, Realizes, Keeps, Held, Holds
    <3>3. rs[m].read \in Inst => Held(rb, rs[m].read)
      BY <3>1 DEF Todo, Realizes, Keeps, Held, Holds
    <3>4. rs[m].rw = "ReadWriteFlags" => rb.infos[Flags].values = {}
      <4>1. rs[m].rw = "ReadWriteFlags" => rs[k].kind \in Kinds
        BY <1>1, <1>2, <2>3 DEF Shape, Asked, Entry
      <4> QED
        BY <3>1, <4>1 DEF Todo, Realizes
    <3> QED
      BY <1>2, <2>3, <3>2, <3>3, <3>4 DEF Todo
  <2> QED
    BY <2>1, <2>2, <2>3, SMTT(30)
<1> QED
  BY <1>3, <1>4, <1>5, SMTT(30) DEF Realizing, Realizes, rn
=============================================================================
