# Umbra: the shared code cache, its Jits, the exclusive monitor and the register allocator

Umbra translates guest ARM code to host code at run time. Several A32 `Jit`s may share one
`NativeCodeSlab`: one code cache and one set of indexes, executed by many threads. What is
hard to get right, and to test, is to invalidate, recycle and relink code while executors
run inside it. That is what most of these modules are about; the others cover the exclusive
monitor, the index of guest ranges and the allocation of host registers.

Paths below are relative to `src/src/umbra/`. The host modelled is arm64.

## The system

| Part | Source | Module |
|---|---|---|
| Code segments of the slab | `backend/arm64/a32_interface.cpp` 116-265 | `CodeSegments` |
| Block indexes, direct links, retirement, faults of fast memory | `backend/arm64/address_space.cpp`, `a32_address_space.cpp`, `fastmem.h` | `AddressSpace` |
| The slab behind its mutex | `a32_interface.cpp` 267-704 | `NativeCodeSlabImpl` |
| The slab with its executors and the generated dispatch code | the same, `emit_arm64_a32.cpp`, `a32_address_space.cpp` 382-449 | `NativeCodeSlab` |
| `A32::Jit`: calls, lookups, invalidation flags | `a32_interface.cpp` 821-1333 | `A32Jit` |
| Index of guest ranges | `backend/block_range_information.cpp` and `.h` | `BlockRangeInformation` |
| Exclusive monitor and its users | `interface/exclusive_monitor.h`, `exclusive_monitor.cpp`, `x64/emit_x64_memory.cpp.inc` | `ExclusiveMonitor` |
| What the monitor promises | - | `ExclusiveAccess` |
| Register allocator and its emitters | `backend/arm64/reg_alloc.h` and `.cpp`, `emit_arm64*.cpp` | `RegAlloc` |

`PROJECT.json` lists the parts that are not modelled and the reason for each: the A64 Jit,
the x64 and riscv64 code caches, the x64 register allocator, the IR passes, the frontends,
the arithmetic helpers, the spin locks and the host exception handlers.

### How the state corresponds to the code

- **Pure functions on records.** A C++ object behind one lock is one record, and each of its
  functions is an operator from record to record: `CodeSegments` (segments), `AddressSpace`
  (`entries`, `infos`, `refs`, `pending`, `ranges`, `do_not_fastmem`, `ptr`) and `NativeCodeSlabImpl` (the
  fields of `NativeCodeSlab::Impl`). `active` is the set of executors whose `active` flag is
  set; `active_executions` is kept beside it, as in the code, and `AccountingIsExact` relates
  the two.
- **`NativeCodeSlab`** adds, for each executor, where its thread is (`phase`), the code it
  holds or executes (`ptr`) and the entry points in its return stack buffer (`rsb`). An
  action is one critical section or one step of generated code: enter, find, emit, follow a
  link, pop the buffer, poll the halt reason, return to the dispatcher, fault, leave. Calls that an
  embedder makes on the slab itself (`request_cache_clear`, `request_cache_range`,
  `service_pending_invalidation`) are actions here only.
- **`A32Jit`** drives those steps from the calls of `A32::Jit`. `flags[j]` are the fields
  behind `invalidation_mutex`, `thread[j]` the call in progress with its locals. Lookups,
  space checks, translation and emission are separate steps, because the mutex is released
  between them; so are the read and the write of the flags in
  `request_entire_cache_invalidation`, which takes no lock. `outdated` and `stale` are history
  variables: code that a request has asked to be gone, and translations older than a request.
- **Failures.** A fault in a block with fast memory runs `FastmemCallback` on the faulting
  thread: the block is marked, invalidated and emitted again without fast memory. With
  `EmitMayThrow`, `ensure_memory_committed` throws, `emit` throws or answers nothing before it
  has written code, or it throws with the block already published. A block of a provider or of a
  precompiling caller is then completed as failed and the cache is cleared; for a translated
  block the lookup gives up or the exception leaves `Run` or `Step` through its scope exit. An
  exception that reaches generated code would end the process and is excluded (`MayThrow`).
- **`RegAlloc`** has the `HostLocInfo` of every location and, beside it, what the emitted code
  has in each (`content`), which the allocator itself never sees: its properties relate the
  two. An emitter is a sequence of `RAReg`s that are realized one by one. The emitters
  modelled: two operands (stores), an operand and a result in either order, two operands and a
  result, a result that starts as a copy of an operand, every shape of `EmitAddSub` (one or two
  operands in registers, with or without a carry, with a flags result, an overflow result or
  neither), a value that becomes another, and a call with arguments in general and vector
  registers and a result in `X0`, `Q8` or nowhere. Emitters with three operands repeat these
  shapes with one register more. Instruction names are used again after their last use, so that
  a block has no length.
- **Abstractions.** A block is a location, a set of guest addresses, a size and a set of link
  targets; its instructions are nothing. Host addresses are small integers. Single-step
  locations are not told apart from ordinary ones, which only adds behaviour.

## Runs

| Run | Question | Bounds | Distinct states |
|---|---|---|---|
| `slab_safety` | Is code ever retired or patched under an executor? Do the indexes agree? Does a request weaken a pending one? Does a recycle take the newest code? | 2 executors, 2 locations that link to each other and overlap, 2 segments, 2 generations | 261,000 |
| `slab_lifecycle` | The same for the return stack buffer, while Jits come and go, users set and clear halts and `emit` throws | 2 executors, 1 location, room for 2 blocks | 312,000 |
| `slab_segments` | Does the accounting survive rounds of recycling, and are faults found and repaired? | 3 segments, 2 block sizes, fast memory | 491,000 |
| `jit_requests` | Is any request lost, overlooked or left waiting? | 2 Jits, 2 locations, 4 calls and failures, blocks translated or provided, space enough | 826,000 |
| `jit_all_calls` | Do the Jits respect the slab's contracts? Is every artifact completed once? | 2 Jits, all calls and answers of the provider, every failure, 2 segments, 3 calls | 146,000 |
| `jit_liveness` | Does a halted `Run` return, is a request served? | 2 Jits, 3 calls | 5,100 |
| `exclusive_monitor` | Does the monitor implement `ExclusiveAccess`? | 3 processors with a resolver, 2 without; 2 locations, 2 values | 53,000 |
| `block_ranges` | Does an invalidation find exactly the blocks it meets? | 2 locations, 6 addresses, every set of them | 2,100 |
| `reg_alloc` | Is every operand in its register when the host instruction runs? Is a value kept until its last use, and no longer? | 4 general registers, one of them caller-saved, 3 vector registers, 2 call arguments, 3 spill slots, 3 instructions alive with up to 2 uses each | 1,735,000 |

Why the bounds are enough: the conflicts are between one executor and one other thread, two
locations give every shape of link (to itself, forward, back, overlapping), and two segments
with several generations make every segment be the victim, the active one and the fresh one.
Three processors are needed for a removal from the middle of a reservation list. The lists
are never read without a resolver, so two processors are enough there (`Unresolved`).
Four general registers are the fewest an emitter can work with, an addition with two operands
and two results; immediates take a register too, so that two values kept for later make any
such emitter evict. Three vector registers, because two operands and a result may be in vector
registers at once. Evictions choose at random in the code, and in every possible way in the model.

`MaxGeneration` and `MaxCalls` bound the generation counter and the calls. `jit_requests`
gives every segment space enough on purpose: capacity recycling has the faults below.

`jit_all_calls` rests on an assumption about the code's constants (`JitAssumption`): the space
check and the emission are apart, so `MINIMUM_REMAINING_CODESIZE` must hold one block of every
Jit. The code has a fixed margin of 1 MiB and does not limit the number of Jits.

### Disagreements with the documented behaviour

Three runs are expected to be violated. Each shows an interleaving in which the code does not
do what `interface/A32/a32.h` 207-213 says of `ClearCache` ("Clears the code cache of all
compiled code.", "Can be called at any time.") or of `InvalidateCacheRange` ("Invalidate the
code cache at a range of addresses.").

- `jit_recycle_drops_range`: `PerformRequestedCacheInvalidation` clears
  `invalid_cache_ranges` after a capacity recycle that retires one segment only. With
  `ClearCache` among the operations of the same configuration TLC finds a second way: the
  unlocked `request_entire_cache_invalidation` reads the flags, `ClearCache` sets them on another
  thread, and the write turns the clear into a recycle.
- `jit_precompile_races_invalidation`: a range invalidation publishes no new generation, so a
  block translated before it by a precompiling Jit is emitted after it.
- `jit_reset_drops_request`: `Reset` zeroes the halt reason, and with it the signal of a
  request that is still flagged; the next `Run` executes the code that was to be cleared.

## Fairness

`A32Jit!Fairness` is weak fairness of each thread's steps inside a call, and of the poll of the
halt reason. The guest is not assumed to return, to reach the dispatcher or to follow any
link. The poll is justified by the generated code: `LinkBlock` and `CheckHalt` load the halt
reason, and `LinkBlockFast`, which does not, "MUST only be emitted when this is guaranteed not
to result in hanging" (`ir/terminal.h` 44-51). With cycle counting the poll is reached when
the ticks run out. Entering is weakly fair because the condition variable is notified
whenever a transition finishes.

## Proofs

- `NativeCodeSlabProofs`, for any number of executors and any geometry that satisfies the
  assumptions of the modules: `AccountingIsExactTheorem`, `LeaveNeverThrowsTheorem` and
  `PendingIsSignalledTheorem`. None of them is inductive by itself. The invariant
  `ControlInvariant` joins the types of the control fields, the accounting of active
  executors with their generations, the relation between `phase` and `active`, and the
  signal: an executor in the slab holds the current generation because a new one is published
  only when nobody is active, and has `CacheInvalidation` set while something is pending
  because nobody enters then and only the way out clears it. One lemma per function of the
  slab, one step per action.
- `BlockRangeInformationProofs`: `DirectionsAgreeTheorem`, for any locations and any width of
  the program counter. The invariant is the property with the types of the two maps.
- `RegAllocProofs`: `OperandsInPlace`, for every register order, every set of caller-saved
  registers, any number of spill slots and any set of instructions that is not larger than
  that (`RegAllocAssumption`), with any argument registers and any caller-saved result registers. The property speaks of realized operands only, so the invariant
  `IInv` adds what holds before: an instruction is in one location at most (`Unique`), the
  emitted code has the data of every value that is not being written in its location
  (`Sound`), an operand that is not realized is still held somewhere (`Todo`), one that is
  realized sits in a register that says so (`Done`), an emitter that spills the flags before it realizes asks for none of them, and a call has
  nothing in the flags (`Calling`). Two facts carry the proof. `AllocateRegister` never returns a register that is
  realized, so that realizing one operand leaves the others alone (`Realizes`). And a spill
  slot is free whenever a register holds a value, by the pigeonhole principle (`FreeSlot`), so
  that a spill never overwrites one. One lemma per operator says which values it keeps
  (`Keeps`), one per action that it preserves the invariant.
  The invariant and the operators are in `RegAllocInvariant`, the realization of one operand
  in `RegAllocRealizing`, the beginning and the end of an instruction in `RegAllocEmitting`,
  calls in `RegAllocCalling`.

Only model-checked: the refinements, the content of the address space (links, indexes, code
memory), the segments' accounting, `A32Jit`, `InvalidationIsExact` (that every covered address
lies in a node of the map needs induction), the reservation lists (a walk, likewise), the use
counts of `RegAlloc` and what follows from them (`UsesAreCounted`, `ValuesHaveOneHome`,
`AssertsHold`: sums over sets need induction), and all liveness.

## Left out

- The counters of the host execution budget (an exhausted budget is a return at a block
  boundary), and an exception inside `PerformRequestedCacheInvalidation`.
- The relocations of a block to prelude functions, which never change.
- The memory model: atomics and generated barriers are sequentially consistent steps; the
  unlocked flags are the exception, and are read and written in separate steps.
- A block that runs past the last guest address, which the architecture leaves unpredictable.
- An address equal to `INVALID_EXCLUSIVE_ADDRESS`, and `Unsafe_IgnoreGlobalMonitor`.
- In `RegAlloc`, the sizes of registers and the moves of the FPSR. `EmitAddSub` with a carry
  (`EmitAddSubCarry`) is modelled with empty flags, as the frontends call it: `ReadWriteFlags` looks the carry up before it spills
  the flags (`reg_alloc.cpp` 464-475), and with flags to spill and no free register the carry
  may move in between. Without the guard TLC finds `OperandsAreInPlace` violated.

### Not modelled

- The A64 Jit: the pattern of `A32Jit` with one executor and without a shared slab, on the same
  `AddressSpace`.
- The x64 and riscv64 backends: second implementations of the same interfaces. The inline
  exclusive accesses of x64 are part of `ExclusiveMonitor`.
- The IR passes and the frontends: sequential code in which an operation is a case per opcode
  or instruction; a model would repeat it line by line.
- Floating point, cryptography and CRC: arithmetic on words that are too wide to enumerate.
- The spin locks, whose mutual exclusion `ExclusiveMonitor` assumes, and the platform's signal
  handlers.
