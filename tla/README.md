# Verification of rv64rs

rv64rs (`src/rv64rs`) is a RISC-V emulator in Rust that boots xv6 on one or
more harts: a port of the Python `riscvm` (`src/riscvm`) with a TLB, a flat
dispatch chain and SMP added. This directory holds TLA+ modules that model it,
TLC configurations that check them on small instances, and TLAPS proofs of what
matters most for every value of the constants. `PROJECT.json` maps every
definition to the lines it models and lists runs, mutants, hazards, findings
and theorems.

## The system

| Part | State it keeps | Operations | Talks to |
|---|---|---|---|
| trap and CSR unit (`trap.rs`, `csr.rs`, SYSTEM in `execute.rs`) | mode, pc, CSRs | CSR instructions, ECALL, SRET, MRET, `raise_trap`, `check_interrupt` | samples CLINT and PLIC in every fetch; a write of satp flushes the TLB |
| MMU (`mmu.rs`) | per hart: 256-entry TLB | `translate`, flush | walks page tables through the bus |
| bus (`bus.rs`) | sorted range list; a range per device | `set_*`, `read`, `write` | every device |
| CLINT (`clint.rs`) | mtime, mtimecmp | `tick`, `pending`, register access | ticked by every fetch of every hart |
| PLIC (`plic.rs`) | priorities, enables, thresholds | claim, complete, register access | reads the devices' lines |
| UART (`uart.rs`) | receive queue, IER, LCR, divisor latch | `poll_input`, register access | host stdin and stdout |
| VirtIO block (`virtio.rs`) | queue registers, `last_avail_idx`, interrupt status, disk | register access, `process_queue` (DMA) | guest RAM through the bus; PLIC line |
| machine and run loops (`emulator.rs`, `main.rs`, `cpu.rs`) | harts, poll countdown, instruction count | `step` of each hart in turn, limits, the search for the prompt | all of the above |
| stdin reader (`main.rs`) | a thread and a channel | read, send | UART, by polling |
| instructions (`decode.rs`, `execute.rs`, `rvc.rs`, `asm.rs`, `register.rs`) | registers | decode, execute | bus through the MMU |
| RAM (`ram.rs`) | bytes of program and stack | read, write | behind the bus |

What is hard here. One thread steps all harts, so the interleavings are those of
whole instructions: traps between any two instructions of a handler, another
hart's handler in the middle of this one's, a page-table store on one hart and
a cached translation on another. The only true concurrency is the stdin thread.
Indices, mtime and addresses wrap. Device and guest driver share rings in
memory, and a bus error can stop a batch in the middle. Nothing is persisted;
a VirtIO reset is the only restart.

What makes each part correct: exactly the deliverable interrupt of highest rank
is taken, at the right level; traps nest and return to what they interrupted;
the TLB is never older than the hart's last flush and a walk follows Sv39; every
address goes to the device that owns it; every byte typed and every disk request
arrives once and in order; an access touches the bytes its address and width
name and no others; the timer keeps firing on every hart; a compressed
instruction is the instruction it stands for; a run ends when and how the
command line says.

## Modules

| Module | Models |
|---|---|
| `Hart` | privileged state of one hart and the functions on it: CSR access, `raise_trap`, `check_interrupt`, ECALL, SRET, MRET |
| `Trap` | one hart under an arbitrary guest and arbitrary interrupt lines |
| `TrapNest` | the steps of `Trap` that a guest with the discipline of xv6's handlers takes, with the frames its handlers have to preserve as history |
| `PageTable` | the Sv39 walk as functions of memory |
| `Walk` | the walk over every content of a few tables |
| `MmuAbs` | what an MMU promises: a walk over page tables no older than the hart's last flush |
| `Mmu` | the TLB of `mmu.rs` per hart, over shared page tables; refines `MmuAbs` |
| `Ranges` | address windows: what a window contains, the padding to a page |
| `Bus` | the constructors: the check of `ncpu`, the `set_*` calls, `RangeManager`; and the dispatch chain |
| `Numbers` | a number and its digits in a base: the bits of a register, the bytes of a value |
| `Ram`, `Mem` | bytes, and loads, stores and fetches of a hart over them: translation, dispatch to RAM or stack, little-endian access |
| `Clint`, `Plic`, `Uart`, `VirtIORegs` | the devices as functions of their state: every register, at its address |
| `Devices` | these devices under a guest that loads and stores anything anywhere in a window |
| `Soc` | the machine: round-robin harts (`Hart`), CLINT, PLIC, UART and the disk's interrupt, stdin thread, and the interrupt paths of the xv6 guest |
| `DiskAbs` | what a disk promises its driver: a queue of requests, each carried out in one step and in its turn, answers in order |
| `VirtIOBlk` | the block device with the xv6 driver on the other side of the rings; refines `DiskAbs` |
| `Runner` | the run loops of `xv6-boot` and `xv6-time-to-shell` |
| `Decode`, `Execute`, `Rvc` | instruction formats and effects, of 32-bit and compressed instructions |
| `Arith` | what the operations of those effects compute, on registers of `XLEN` bits |
| `Isa` | the instructions one at a time against the manual's tables and laws |
| `NumberLemmas` | division, powers, and what shifting and cutting a number does to its digits |
| `OperatorLemmas` | what the operators of `Hart`, `Plic` and `Uart` and the sequences of the queues do, proved once |
| `TrapProofs`, `MmuProofs`, `DevicesProofs`, `VirtIOBlkProofs`, `SocProofs` | theorems about the module each is named for (`TrapProofs`: about `TrapNest` too, `MmuProofs`: about `Walk`) |
| `MachineProofs` | theorems about `Bus`, `Runner`, `Mem` and `Isa` |
| `MC_*` | constants for TLC |

How state corresponds. A CSR of flags is the set of its one bits, so masks are
intersections and `csr_write` through `sstatus`, `sie` or `sip` is a set
expression; `mstatus` has its real bit numbers, and MPP is bits 11 and 12, so
that the mode 2 the code lets a guest reach is reached. Addresses are
`0 .. AddrSpace - 1` and wrap there. A step is two actions, as in `Cpu::step`:
`Fetch` (tick, poll, sample, deliver) and the execution of an instruction. In
`Soc` the guest's pc values name the places of its interrupt paths, taken from
the disassembly `src/tests/kernel64gc.asm`; the guest is the load, the
properties are about the emulator. `Soc` has of the disk what crosses the
machine: the store to QUEUE_NOTIFY, which serves the request before it returns,
the interrupt line, the acknowledge and the used ring's length; what the device
does to a request is `VirtIOBlk`. In `VirtIOBlk` one turn of `process_queue` is
one action, because a fault can end the loop between two of them, while the
guest stands still for all of them. The PLIC's registers are u32, and what a store carries above that
is dropped first (`as_u32`); those of the CLINT are u64, as the registers of a
hart are. `Mem` takes the translation as a mapping
that may change between any two instructions (another hart's turn, a write of
satp); how it is obtained is `Mmu`. In `Mmu` a page-table store goes through
the same translation as any other store. The effects in `Execute` are terms over
the registers read, so that two instructions are equal exactly if they do
the same for all register values. `mutant` operators next to a definition
are plausible bugs, kept to show that each property can fail.

## Runs

| Run | Checks | Bounds |
|---|---|---|
| `trap` | right interrupt, right level, nothing skipped, privilege drops only by return, a machine trap spares the supervisor | all lines at any fetch; nine CSR instructions that set and clear each bit involved, MPP = 2 too |
| `trap_nest` | frames of both levels hold, are not overwritten, and returns resume them | three words of code; unaligned stvec; delegation as xv6 sets it |
| `mmu` | TLB soundness, refinement of `MmuAbs`, exactness after a flush | two harts, two TLB slots, three virtual pages in one slot, tables of two entries with a superpage, remap, protect and unmap |
| `walk` | the walk is the mapping of the Sv39 rules, superpages included; locality of stores | all contents (6 PTEs in 5 entries) of three tables, with loops, bad pointers and misaligned leaves |
| `bus` | free ranges accepted, dispatch agrees with the list, no gaps, every hart has its PLIC context | all 48 load addresses, 5 lengths, both constructors, 0 to 3 harts for 2 pairs of contexts, on a scaled map |
| `bus_overlap` | *violated*: `NoOverlap` | same |
| `mem` | loads, stores and fetches are exact, byte by byte | pages of four 2-bit bytes, an image one byte short of its page, both constructors; pages in order, reversed, aliased, missing, beyond memory |
| `devices` | the right claim, independent registers, no input lost to register traffic, ring addresses | every register and the words around it; two contexts, two IRQs, two harts, two bytes |
| `soc` | every byte typed arrives, once, and in order on one hart; two harts in the UART's handler lose and duplicate none; no spurious claim on one hart; a disk request wakes its process; the timer keeps firing; SSIP, which it raises, stays until the supervisor acknowledges it, and it does; the kernel keeps running | two loads: one hart, two bytes, one disk request; two harts, one byte; a poll buffer of one, poll interval three, time that wraps after two intervals |
| `virtio` | the rings implement `DiskAbs`, chains are conserved, no lost completion, every request returns | indices mod 4 that start before the wrap, rings of two, two chains, a disk of one sector that grows, three requests of several kinds (short, looping, data or status unmapped), one reset |
| `isa` | compressed words against their expansions; a law for the result of every operation of OP and OP-32 | all 49152 words; all pairs of 8-bit operands (4-bit for -W) |
| `runner` | the count is per hart and the limit exact; limited runs end, a prompt that stays is noticed | three harts, a period of four, a count that wraps at 16, limits on and off a multiple of the period |

The bounds are the smallest at which the cases meet: a TLB slot is contended, a
ring is full and its index wraps within three requests, a buffer is shorter
than the input, time wraps within two intervals, an access is as wide as a page. The timer interval in `Soc` is
longer than both handlers of all harts take, as in xv6; with a shorter one the
guest would do nothing but serve its timer.

Fairness. In `Soc` the run loop never pauses: infinitely many steps are steps of
`Run`, which is always enabled, so this is its weak fairness; that each hart gets
its turn follows from the round robin and is not assumed. `WF(ReadStdin)`: the host
schedules the reader thread. In `VirtIOBlk` the driver notifies once after a submit,
in straight-line code: `Notify` is weakly fair while a submission has not been
notified (`notified` is FALSE) and no longer. It may notify more often, but it
need not, so a completion whose interrupt were lost would have no later
notification to bring it. The device's loop goes on, and the handler is
strongly fair, because the hart that runs it gets its turn again between
other harts' notifications. `Runner`: the loops never wait.

Ticks are not counted. SSIP is one bit: a tick that comes while it is still up,
be it between the two instructions by which `devintr` acknowledges it (a read and a
write of sip), is answered together with the one before, in xv6 on hardware as
well. So `TickReachesSupervisor` promises of a tick that SSIP is up when `timervec`
returns, that nothing else takes it down before that acknowledge (`TickWaits`:
no sampling of the lines, no CSR write, trap or step of another hart), and that
it is acknowledged.

CHECK_DEADLOCK is off where the system may stop: after an `EmuError` (`Trap`,
`VirtIOBlk`, `Devices`), once the constructor has returned (`Bus`) or the
program has exited (`Runner`), and in `Mmu`
after a fault, which ends the run loop.

### Where code and comments differ

* `bus_overlap` (*violated*: `NoOverlap`): `add_range` documents "erroring on
  overflow or overlap with a neighboring range" (`bus.rs:65-66`); an insertion in
  the middle compares only with the next range (`bus.rs:93-98`), so a range that
  starts inside its predecessor is accepted. `DispatchAgreesWithRangeManager`
  says what follows: memory wins over the device it covers.

Other differences met while modelling have no run of their own; the properties
say what does hold.

* The `Device` trait says the "PLIC's claim register consumes a pending
  interrupt" (`bus.rs:26`); the read changes nothing (`plic.rs:142-144`), and two
  harts can hold the same IRQ. In `soc` two harts are in `uartintr` at once, and
  one may find the queue emptied after it has looked at LSR. It reads a NUL,
  which xv6 drops, so nothing is lost (`InputIsConserved`); but with more bytes
  each hart may hold one, and their order is decided by the guest's lock,
  which is not modelled.
* The optimisation notes (`rv64rs/README.md:205-206`) say a guest "can never
  observe a stale mapping that wouldn't have been observable before the TLB
  existed"; without SFENCE.VMA it does, as the architecture allows. The
  statements that hold are `ImplementsMmuAbs` and `ExactAfterFlush`.
* `emulator.rs:8-9` says the bootloader "jumps into the kernel at `address`";
  its bytes (`emulator.rs:78`) always jump to 0x8000_0000, and a machine with
  any other load address is built without an error.
* `xv6-time-to-shell` looks for the prompt at multiples of 4096 instructions and
  for the limit at every one, so it can report that it gave up "without reaching
  the shell prompt" (`main.rs:190`) with the prompt on the console.
* With two queue indices (`virtio.rs:179`) the device would serve requests
  twice; a block driver has one queue.
* C.JR and C.JALR keep bit 0 of the target where JALR clears it (`rvc.rs:347`,
  comment "jalr x0, rs1, 0").
* The header of `rvc.rs` lists ADDI among the instructions that refuse a zero
  immediate while the code executes it.

## Proofs

The assumptions are the named ones on constants, each in the module that
declares it, and each evaluated by TLC on the instance of its run:
`AddrSpaceAssumption` (addresses wrap at a multiple of four), `PlicAssumption`
(at least one IRQ), `AddressMapAssumption` (the priorities, enables and compare
registers there are fit below the registers that follow them),
`AddressAssumption` (the load address and the stack's size are whole pages, and
the two memories end inside the address space, or `add_range` refuses them at
`bus.rs:75`), `ByteAssumption` (the program is bytes, the map of pages has one
entry for each page from 0 on), `XlenAssumption` (registers are twice as wide as a -W
operand, which is a power of two bits wide, as the masks of the shift amounts
have it), `LoadAssumption` and `GuestAssumption` (every hart has its
contexts in the PLIC, the input has no NUL, the guest's code fits into memory),
`RingAssumption` and `RequestAssumption` (the width of the indices is a multiple
of the ring's length, there are no more chains than the ring is long, a new
request has not been answered), `MapAssumption` (the fixed windows are apart,
and as the pages and the address space they begin at a multiple of every access
size), `HartsAssumption` and `CountAssumption` (types; a limit is a u64), and the
types of the rest. The
theorems on `VirtIOBlk` have one hypothesis more, `OneQueue`: the driver
notifies queue 0 only, as a block driver does. With a second index they are
false, as said above, and the run keeps to one queue too.

* `TrapProofs`: `TypeCorrect`, `MachineInterruptsStay`, `NothingSkipped`,
  `TakesHighest`, `DropsOnlyByReturn` and `MachineTrapSpares`. The type
  invariant is inductive. The next three speak of the state just after a
  fetch, so the argument is about `deliver`: the loop of `check_interrupt` is
  reduced to its first cause that `takes` accepts, and `takes` is shown to be
  the architecture's `Deliverable`. `TakesHighest` also needs that xPP and xPIE
  hold enough to recover the interrupted state, as far as `Deliverable` looks
  at it (`TrapSavesEnough`). The last two rest on `ModeMovesByTrap`: apart from
  SRET and MRET, the mode moves only by `raise_trap`.
* On `TrapNest`, also in `TrapProofs`: `FramesAlwaysHeld`, `NeverOverwritten`,
  `ReturnsResume`. A step of `TrapNest` is a step of `Trap`, which gives the types.
  The inductive invariant is type correctness together with the frames of
  both levels: that the machine frame is live exactly in M, with MIE off, is what
  keeps M from trapping onto itself, and that a live supervisor frame has SIE
  off while the code below M is S does the same one level down. The two
  action properties follow from it.
* `NumberLemmas`: the model has numbers where the code has bits and bytes, so a
  digit is `(v \div b^i) % b` and a value is the sum of its digits, with the
  power and the sum as recursive functions. What the other proofs need of them:
  that shifting moves digits (`DigitUp`, `DigitDown`), that cutting keeps the low
  ones (`DigitLow`), that above the width they are zero or copies of the sign
  (`DigitHigh`), and that a number is determined by its digits and the other way round
  (`NumberHasDigits`, `NumberOfDigits`). The inductions are written as least
  counterexamples (`LeastNatural`).
* `MmuProofs`: `TypeCorrect`, `TlbSound`, `TlbImplementsAbs`, `FlushMakesExact`.
  The invariant is that every valid entry is a walk over some memory of `recent`,
  the contents the page tables have had since the hart's last flush; the step
  that needs care is a store by one hart while another holds entries: `recent`
  only grows for a hart that does not flush. Refinement: the mapping is the
  identity on the shared variables; a hit is a walk over an old memory.
* On `Walk`, also in `MmuProofs`: `WalkIsSv39`, `StoresAreLocal`. The walk is
  followed level by level along the path of tables it reads, and compared at
  each level with the rule: a pointer goes down, a leaf ends, anything else
  faults. A store off the path leaves every entry on it, and so the walk, as it
  was.
* `OperatorLemmas`: among others the scan of `check_interrupt` and that of
  `claim_irq`. `claim_irq` goes through all IRQs, so what it returns is a
  statement about a loop of any length: `best` after k of them is the best of
  those k. The induction is again a least counterexample.
* `DevicesProofs`: `ClaimsAreBest`, `CellsHold`, `InputSurvives`, `RingAddresses`, for a guest
  that loads and stores anything. The first is the scan of `claim_irq` and
  arithmetic on the address map of the PLIC: the claim registers of two contexts
  are never each other's, nor an enable or a priority. `CellsHold` goes on from
  there: an address of the PLIC or of the CLINT is one cell (`CellOf`), a store
  changes that cell only, and what is read back is the value cut to the register,
  which for an enable register is a round trip through the set of its bits
  (`MaskOfBits`). The other two are inductive with the types of the registers they follow.
* `VirtIOBlkProofs`: `HeadsConserved`, `CompletionNoticed`, `RingsImplementDisk`.
  Indices wrap modulo `IDX` and slots are taken modulo `NUM`, so the invariant is
  stated on what the rings mean: the part of the available ring between the
  device's index and the driver's, and that of the used ring between the driver's
  and the device's, are two queues, whose heads, with the free ones, are all
  heads, each once. Because `NUM` divides `IDX` and no more than `NUM` heads
  exist, an append to one of these windows never falls on a slot that is still
  in it. The refinement maps the two windows to the queues of `DiskAbs`; a turn
  of the loop moves one head from the first to the second.
* `SocProofs`: `ConsoleFifo`, `InputConserved`, `ClaimSucceeds`, `TicksWait`. The inductive
  invariant has the types and six parts. `Control`, of every hart: the timer
  handler runs with machine interrupts off and returns to S, and the supervisor
  has its interrupts on only in the scheduler's two instructions, so a supervisor
  handler is never interrupted by another. `Boot` and `Latch`: hart 0 alone sets
  up the UART and the divisor latch is closed whenever a handler can run, or a
  load of RBR would read DLL. `InHand`: a hart holds a byte only between the load
  of RBR and `consoleintr`. `Fifo` and `Conserved` are the two properties
  themselves. `Claimable`: from the fetch that sees the line of a device to the
  claim, the line stays up: only the hart itself could lower it, a poll only adds
  to the queue, and a timer trap changes neither. Most steps are quiet, moving no
  byte: those that move one are `ReadStdin`, a fetch that polls, the load of RBR
  and `consoleintr`, and each is a lemma. `TicksWait` adds to this invariant that
  SSIP is up when `timervec` is about to return, and that the copy of sip `devintr`
  holds for its write is without it (`Relayed`).
* `MachineProofs`, on `Bus`: `DisjointAccepted`, `DispatchAgrees`, `AlignedServed`,
  `HartsServed`. The list is not free of overlaps (see `NoOverlap`), so the
  invariant cannot say so. It says that the starts are strictly increasing, which
  is what both binary searches need (`PartitionPoint`), that the list holds the
  windows of the devices and nothing else, that each device is set once, RAM and
  stack before the others, and, from the one comparison `fits` does make, that a
  fixed window that begins below RAM or stack also ends below it
  (`ClearOfMemory`). So where chain and list differ, a window begins inside
  the one that answers, and that one cannot be a fixed one. `AlignedServed`: the
  stack begins whole pages after the RAM and wraps by whole pages, so every window
  begins at a multiple of the access size, and the one that holds the last byte
  of an aligned access holds all of it. `HartsServed`: a number of harts that is
  refused leaves before the first `set_*` call.
* `MachineProofs`, on `Runner`: `CountExact`. Between two instructions the harts
  before `turn` have done one more than `count`, and a limit has not been reached
  while the loop runs, so `count` does not wrap under one.

* `MachineProofs`, on `Mem`: `AccessesBytewise`, `FetchExact`. The invariant is
  that RAM is as long as the program, with its padding or without, the stack
  `STACK_SIZE` bytes, and each element a byte. A load is then followed from the
  outside in: RAM and stack begin at whole pages, so an access inside a page whose
  bytes are all there is served by one memory (`PageLoad`); the dispatch chain picks
  the memory that holds the first byte and serves the access only if it holds the
  last (`BusRead`); and byte i of what is read is digit i of the number (`ReadByte`).
  A store is the same in the other direction, and the bytes it does not cover keep
  their place. For a fetch the first two of the four bytes decide: the low half of
  a number of four bytes is that of its first two (`FirstParcel`).
* `MachineProofs`, on `Isa`: `ArithmeticHolds`. A register is a number below
  `2^XLEN`, and its signed reading differs from it by nothing or by `2^XLEN`
  (`AsSigned`). Sums and differences leave the range by at most one width, which the
  comparison shows (`SumHolds`); adding half a width turns the signed order into
  the unsigned one (`OrderHolds`); XOR, OR and AND are numbers made of digits
  (`BitwiseHolds`). Division: the truncated quotient and remainder (`Truncates`) fit
  where the operands do but for MIN / -1, so cutting them and reading them as
  signed gives them back (`SignedBack`). Products: operands that agree modulo the width
  have products that do (`SameProduct`), so MUL is the lower half of every variant,
  and each product fits in two halves (`ProductFits`). Shifts: the lemmas on digits, with
  sign extension as copies of the top one (`SignExtends`); that a -W shift
  takes its amount from the low half of the register rests on the width being a power
  of two (`AmountInLowHalf`). The -W operations: sign-extending a word keeps its
  low half and its value (`Widened`), and sums, differences and products have
  their low half from the low halves (`LowOfSums`).

Only model-checked:

* all liveness (`EveryByteArrives`, `EveryRequestWakes`, `TimerKeepsFiring`,
  `SchedulerKeepsRunning`, `EveryRequestReturns`, `RunsEnd`, and of
  `TickReachesSupervisor` that the tick is acknowledged, the rest being `TicksWait`),
  which needs fairness and ENABLED;
* `CompressedIsExpansion`, which has no parameter: the run goes through all
  49152 words, so there is no larger instance that a proof would cover.

## Not modelled

* The boot code before S mode (`start`, `timerinit`) in `Soc`: it is
  straight-line code whose effect is `Booted`.
* The guest's spin locks: the critical sections they guard are single steps.
* UART output beyond what a store sends: it goes to the host and never blocks.
* A descriptor that points the device's DMA at its own window (`bus.rs:364`),
  which panics: addresses of DMA are mapped or not mapped.
* Bus errors on the ring, index and descriptor reads of `process_queue`
  (`virtio.rs:177-231`) as cases of their own in `ServeOne`: they end where the data
  and status faults do, in a stop before or after the effect of the request.
* Argument parsing, register dumps, the demo programs and error texts: input
  and output only.
* The Python implementation, which rv64rs ports, and its tools.

## What is done, and what is left

Modelled: `Hart`, `Trap`, `TrapNest`, `PageTable`, `Walk`, `MmuAbs`, `Mmu`,
`Ranges`, `Bus`, `Ram`, `Mem`, the devices and their registers, `Soc` with
timer, console and disk, `VirtIOBlk` and `DiskAbs`, `Runner`, the instructions.
Proved: every invariant and every action property that a passing run checks,
`CompressedIsExpansion` excepted, both refinements, and the safety half of
`TickReachesSupervisor`.

What would extend it: ordering of the console on several harts, with the guest's
spin locks; a machine of `Mmu`, `Mem` and `Soc` together, in which page tables lie in
the memory that stores reach; liveness on paper, from the invariants proved here.
