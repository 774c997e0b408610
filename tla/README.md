# OpenSoC in TLA+

Models of OpenSoC, a RISC-V system-on-chip in SystemVerilog, with the C library that drives its
programmable I/O and the C++ that simulates it: one module per component, model-checked with TLC
on small instances and, for the properties that matter most, proved with TLAPS for every instance.
Paths such as `hw/ip/...` and `sw/...` are those of the repository.

## The system

A Kronos CPU and several DMA masters share an AXI crossbar with one RAM and the peripherals.
Software programs a block through its registers, starts it with a GO bit and polls STATUS (or
takes an interrupt) for DONE. Blocks reach memory one word at a time, through a request, a grant and
a response; Conv1D, Conv2D, ReLU and Softmax can also hand results on over AXI-Stream links. The
software reaches the PIO through a library modelled on the Pico SDK, and the whole SoC runs in
Verilator, in a process that loads the memories, toggles the clock and turns the result that
software reports into an exit code.

| Part | State | Operations | Interacts with | What is hard, and what makes it right |
|---|---|---|---|---|
| Scatter-gather DMA (`sg_dma.sv`) | registers, 7-state FSM, latched descriptor, copy counters | register writes, GO, fetch, unpack, copy | memory, CPU stores to descriptors and data | descriptors are fetched in five reads while software may store, copies may overlap or overwrite the chain: block copies in chain order, accesses inside the descriptor, coherent status |
| Accelerator core and ReLU (`dma_accel_core.sv`, `relu_accel.sv`) | registers, mode bits, FSM, word counters | register writes, read, compute, write or stream | memory, an upstream and a downstream stream | mode bits are live during a transfer: no word lost or repeated, the right source and place |
| PIO (`pio.sv`, `pio_sm.sv`) | four state machines, instruction memory, 8 FIFOs, IRQ flags, DMA engine, GPIO | CPU accesses, FIFO operations, DMA, instructions, forced instructions | CPU bridge, memory, programs, pins | three users of one FIFO in the same cycle, registered strobes, fields latched a cycle late: no overflow, every word once, transfers exact |
| PIO SDK (`sw/lib/hardware/pio.h`, `pio_instructions.h`) | masks of used slots and claimed machines, configuration words | allocate, claim, configure, initialise, enable, force an instruction, set pins | registers and instruction memory of the PIO while it executes | calls are sequences of register writes between which machines tick; a forced instruction is one deep; field positions are written down twice: nothing shared, each machine in its own program, exactly the pins asked for, words decoded as meant |
| Conv1D (`conv1d.sv`) | registers, shift register, FSM, fill and result counters | register writes, GO, SOFT_RESET, read, write or stream | memory, ReLU over the stream | state kept between transfers, reset in mid-transfer: each result the convolution of its own samples, exact counts, named buffers |
| Conv2D, GEMM, Softmax, Vector MAC | registers, FSM, line buffers / systolic array / phase counters / accumulator | as Conv1D | memory, streams | live registers, soft resets, loop bounds: same families of properties |
| Stream routing and address map (`opensoc_top.sv`) | none of its own | valid/ready merging, address ranges | all stream devices | one ready for two producers: a beat is taken once |
| Timer and driver (`timer.sv`, `simple_system_common.c`) | two two-word registers, a sticky interrupt; tick count and period | count, compare, read and write a word; enable, read the time, handle the interrupt | CPU interrupt | words are accessed one after the other while time goes on and the handler interrupts: true times, no early tick, no lost tick |
| UART, I2C controller | FIFOs and shifters; byte FSM | register accesses, bit timing | lines, other masters, CPU | framing and overrun, arbitration loss |
| Simulation controller (`verilator_sim_ctrl.cc`, `opensoc_top_sim.cc`, `simulator_ctrl.sv`) | options, time, clock, reset, stop request, trace file | command line, half cycles, tracing, signals, the end of a run | signal handlers, the device software halts through | handlers run between any two accesses of the main loop: true exit code, exact cycles, a closed trace file, an end |
| Memory loader (`dpi_memutil.cc`, `verilator_memutil.cc`, `ranged_map.h`, `mem_area.cc`) | registry by name and by address, staged segments, load list | register an area, read options, stage an ELF file, write it, load by name | memories of the simulated design | overlapping and touching segments and areas, errors half way: a consistent registry, every byte the last file's |
| CPU, AXI crossbar, bridges | not in the repository (submodules) | | | external: their effect is the grant and response steps of each block |

`PROJECT.json` lists every part with its status, and the hazards of the code with the properties
that would catch them going wrong.

## Time

Where several writers may assign one register in a cycle, or users act on one structure in the
same cycle, a step is a clock cycle (`PioFifo`, `Conv1d`, `Timer`): everyone reads the registers as
they were before the edge. Where the register write path and the FSM assign disjoint registers
(`SgDma`, `DmaAccel`), a cycle in which both act equals the two one after the other, and a step is
one of them; the header of each module says which order stands for the shared cycle. Where software
runs beside something else (`PioSdk`, `SimCtrl`, `Timer`), a step of the software is one access to
what is shared. Addresses of the DMA engines count words, so "+ 4" in the code is "+ 1" in a model;
32-bit arithmetic is arithmetic modulo a constant (`Words`, `Values`, `Base`, `Space`).

## Modules

| Module | Models |
|---|---|
| `DescriptorChain` | what the scatter-gather engine promises: a chain of block copies, each at once |
| `SgDma` | `sg_dma.sv` with the memory and the bus in front of it |
| `SgDmaRefinement` | `SgDma` with the memory at the last descriptor boundary as a history variable; implements `DescriptorChain` |
| `DmaAccel` | `dma_accel_core.sv`, with the processing function as a constant; ReLU is an instance |
| `WordQueue` | what a FIFO promises: words come out once each and in order |
| `PioFifo` | FIFOs, FIFO registers and DMA engine of `pio.sv`, and the FIFO ports of `pio_sm.sv`; implements `WordQueue` per FIFO |
| `PioSdk` | the library of `pio.h` write by write, over the parts of `pio.sv` and `pio_sm.sv` it relies on: instruction memory, enables, wrap, jumps, SET and forced instructions |
| `PioFormats` | the words both sides of the PIO must agree on: field positions and encoders of the headers; register slices of `pio.sv` and decoder of `pio_sm.sv` |
| `PioEncoding` | the calls that build a configuration and assemble an instruction through these formats |
| `Conv1d` | `conv1d.sv` with its shift register; a result is represented by the samples that enter its sum |
| `Timer` | `timer.sv` with its driver, word by word |
| `SimCtrl` | the simulation process: command line, main loop, signal handlers, harness, and the device software ends the run with |
| `MemImage` | registration of memories and the loading of files into them |
| `MC...` | instances for TLC |
| `...Proofs` | theorems with their proofs |

State and actions carry the names of the code: `remaining` is `remaining_q`, an action per register
write, one per FSM state and handshake, one per library call or per access. Variables below
"history" in a declaration exist only in the model: what a transfer has read and put out so far,
its configuration at GO, what software asked for, and whether it has left the registers alone
(`quiet`). No guard reads them, except the rules that describe software (`Rules` in `PioFifo`,
`PioSdk` and `Conv1d`, `StoreWhileBusy` in `SgDma`, `Reenables` in `Timer`) and, in `PioSdk`, what
a caller knows it holds (`held`, `holders`, `job`).

How they correspond:

- **SgDma.** `Go`, `WriteDescAddr`, `WriteIer` are the write path; `Grant` leaves a `..._REQ` state;
  `Serve` is the memory's side of the access; `FetchField`, `Unpack`, `ReadDone` and `WriteDone`
  are the `rvalid` branches of `FETCH_WAIT` (fields 0 to 3, field 4), `COPY_RD_WAIT` and
  `COPY_WR_WAIT`. `CpuStore` is a store of software to the shared RAM. Addresses outside `Mapped`
  are answered by the crossbar's error slave, whose error the engine ignores.
- **DmaAccel.** The same bus; `StreamIn` and `StreamOut` are the two stream handshakes. `WriteCtrl`
  takes effect on the mode bits also while BUSY, as in the code.
- **PioFifo.** A cycle is composed of `Fifos` (pointers and memories), `Machines` (the registered
  strobes of the programs), `Registers`, `DmaCtrl` (fields latched a cycle after GO) and `Dma`
  (the FSM). A program is any sequence of pulls and pushes.
- **PioSdk.** A call computes its register writes and leaves them in `script`; `Bus` performs the
  next one and `Tick` executes an instruction of an enabled machine in between. Instructions are
  jumps, SETs of pins or directions, and one that stands for all others. `Rules` lists what callers
  must take care of because the library does not: see below.
- **PioFormats, PioEncoding.** A word is the set of its 1 bits. The header side (`Layout`, `Put`,
  `Encode`) and the hardware side (`HwField`, `Decode`, `HwSide`, `HwDelay`) are translated from
  different files and share only what a number and a word are (`Bits`, `Value`). A step of
  `PioEncoding` is a builder call or one of the three calls that assemble an instruction; `Operands`
  has the values callers pass, kind by kind. Its specification is called `EncodingSpec` because
  `PioSdkProofs` extends it together with `PioSdk`, the other half of the library.
- **Conv1d.** A cycle is `Registers` and `Fsm`; what SOFT_RESET assigns is overridden by the FSM's
  assignments, as their order in the code has it. Every sample read is arbitrary.
- **Timer.** `Clock` is a cycle of the hardware with at most one access. `frame` holds the locals of
  `timer_read` and `timecmp_update` for the main program and for the handler, which interrupts it
  between any two accesses and runs to its end. `start` and `due` are histories.
- **SimCtrl.** `pc` walks the main thread through `Run` with one step per access to what the signal
  handlers share: the test of `tracing_enabled_changed_`, the test of `tracing_enabled_` and the
  dump are three steps, the "and" of `RequestStop` is a load and a store. `Interrupt` and
  `TraceSignal` are SIGINT and SIGUSR1.
- **MemImage.** First areas are registered, in any order, clashing ones included; then a command
  line is read option by option (`loads`), and its loads are performed: an ELF file is staged
  segment by segment (`StageSegment`) and only then written (`WriteSegment`). `Emplace` and `Clash`
  are the two insertions of `RangedMap`; `Merged` joins the segments a new one touches, from the
  lowest up. Every error of the code is a step to an end state.

## Runs

| Run | Question | Bounds |
|---|---|---|
| `sgdma_chain` | With memory left alone during a transfer, does the engine implement the chain, and does a finite chain end? Is what it has latched current? | 16 words of memory, up to two descriptors; lengths 0 to 3, copies that overlap upwards, downwards, wrap around, overwrite the next descriptor, and a cyclic chain |
| `sgdma_any` | With stores to data and descriptors during the transfer and unmapped addresses, does it stay inside what it latched? | as above, a few memories, three unmapped words |
| `accel` | With all register writes at all times, are words conserved and status right; does TLAST mark the last word; with CTRL left alone, do words from memory come from the right place, and all leave on the right side for the right place; does every transfer end? | 2-bit words, four memory words, lengths 0 and 3, in place and wrapping overlap |
| `pio_queue` | Are the FIFOs queues, and do blocking operations stall, for programs that leave a cycle between operations? The DMA stands still. | one state machine, depth 2, two words |
| `pio_dma` | Are DMA transfers exact, is no DONE lost, do they end? | depth 1, two words, lengths 0 and 3 |
| `pio_first_rx` | Violation: is the first RX transfer after reset exact? Its first word is written twice. | depth 1, one word, length 2 |
| `conv1d` | Are results right, counted and in place, and does every transfer end? | two taps, one-bit samples, length 3, kernel 1 and 2, words modulo 8, buffers that wrap |
| `sdk` | While machines execute, does any sequence of library calls leave each machine with its own slots and program, and the pins as asked? | three slots, two machines, two pins, one pin per SET, a relocatable program of two instructions whose entry is not its wrap target and a loop at a fixed place |
| `sdk_encoding` | Does the hardware read words and instructions as the headers mean them? | pins 0, 18, 31; side-set of 0, 1, 2 and 5 bits; the first and the last value of every other operand, with some between for delays, side-sets and bit counts; two builder calls, of which at most one before an instruction is assembled |
| `mem_image` | Is the registry consistent after any registrations, does staged data fit, and does every memory hold what the files say? | 16 bytes of address space, 2-byte words; six areas that touch, overlap, repeat a name or run over the end, three of them tried; 13 files with up to three segments that touch, overlap, leave gaps or do not fit, two of them loaded |
| `sim_ctrl` | With SIGINT and SIGUSR1 anywhere, is the exit code true, are cycles exact, is the trace closed, and does a run with a timeout end? | two options, two signals, timeouts 2, 5 and 7 within 16 half cycles, reset after one cycle for two, an 8-value register |
| `timer` | Are times read true, and does no tick come early or get lost? | words of 6 values, periods shorter and longer than a word, 24 cycles |

Why the bounds are enough. Every counter that decides something is tested against 0 or 1 or against
another register: three words exercise the first word, a middle one and the last; two descriptors
exercise every link, first to second, second to first and to the end. FIFOs of depth 1 and 2 have
all combinations of empty, full and neither (at depth 1 never neither), and pointers that wrap
several times. The engines do not branch on data, so two distinct words tell
loss, repetition and reordering apart together with the position recorded in the histories. With two
taps the second one is the only state between samples; more taps repeat it, and the proofs
do not depend on the number. `Words` is small enough for addresses and counters to wrap within a
transfer. A transfer can be followed by any number of others: no run bounds their number. The only
bound inside these modules is on histories (`passed` in `PioFifo`, `reads` and `outs` in
`Conv1d`), which stop one entry past the length, where the properties are already violated.

One state machine stands for all in `PioFifo`: they meet only in the DMA's selection, and
`SM_SEL` of a transfer to another state machine is covered by the proofs, which are for any
number of them. In `PioSdk` two machines meet in the enables and the slots; pins are set on one of
them (`PinSms`), because no two machines share a pin register. Two programs are the fewest of which
one can be in the way of the other, and three slots the fewest with a gap between two places. The
number of calls is not bounded.

In `MemImage` three areas are the fewest in which one has a neighbour on both sides, and three
segments the fewest of which one joins two. `MaxTries` and `MaxLoads` bound the registrations and the
loads; a second load is the first that can go wrong because of another. In `PioEncoding` every
builder writes fixed bits of one or two words, so what two calls do to each other covers what any
number do (`MaxCalls`); an instruction depends on the configuration only through what
`SetSideset` writes, so one call before it is enough (`MaxBefore`). In `SimCtrl` two signals are the fewest that switch tracing on and off
within one call of `Trace`, or interrupt a run that is ending (`MaxSignals`); `MaxTime` is past
every timeout. The proofs about `PioSdk`, `PioEncoding`, `MemImage`, `SimCtrl` and `Timer` need none of these bounds.

Deadlock is checked in every run whose system never stops. The exceptions (`CHECK_DEADLOCK FALSE`)
are `MemImage` and `SimCtrl`, which are processes that end, `PioEncoding`, whose calls are bounded,
and `Timer`, whose time is.

### Fairness

- `SgDma`, `DmaAccel`: weak fairness of the grant, of the memory's answer and of the FSM's
  response steps. The crossbar arbitrates round-robin, the RAM answers every access, and the FSM is
  clocked. Stream partners of `DmaAccel` keep offering and accepting.
- `PioFifo`: the clock runs, the DMA leaves every bus state, and every program goes on pulling
  while its TX FIFO has a word and pushing while its RX FIFO has room. Without the last, a
  transfer may wait for ever, as in the code, which has no timeout.
- `Conv1d`: no state that waits for a handshake lasts for ever.
- `SimCtrl`: weak fairness of the main thread, which the operating system schedules. Nothing makes
  a signal arrive or the design stop.

Nothing is assumed of the CPU: it may stop or write registers for ever. The other modules state
safety only.

### Rules for software

Properties that software can break are checked under named rules. A hazard that its rule excludes is
listed without the property, or with a note; where a document promises what holds only under the
rule, the list further down says so.

- `PioFifo`: `spaced` (programs leave a cycle between FIFO operations at divider 1), `target`
  (a DMA transfer has the direction and state machine of the one before; `pio_first_rx` shows what
  happens otherwise), `poll` and `leave` (FSTAT is polled; a FIFO served by the DMA is left to it).
- `Conv1d`: `clear` (SOFT_RESET before a SAME transfer), `patient` (no SOFT_RESET
  during a transfer), `fits` (LENGTH at least KERNEL_SIZE in valid mode).
- `PioSdk`: `fixed` (a program with jumps has a fixed origin, for jumps are not relocated), `short`
  (a program is shorter than the memory, for the shift by 32 is undefined), `stopped` (a program is
  removed when no machine runs it), `checked` (`pio_sm_claim` is called on unclaimed machines only),
  `running` (pins are set through an enabled machine) and `fast` (whose divider lets it tick
  between two register writes): without the last two a forced instruction overwrites the one
  before.
- `Timer`: `Reenables` FALSE (only a disabled timer is enabled). With TRUE the handler may run with
  the old compare value after `time_elapsed` was cleared, and `TicksNotEarly` fails.

## Proofs

Types, for every value of the constants: `TypeCorrect` in the proof modules of the devices, a first
conjunct of the invariant in the others. Beyond them:

- **SgDmaProofs.** `IInv` joins the types with `CopyInWindow` and `StatusCoherent`; neither is
  inductive alone, because the copy counters are only meaningful in the copy states that the
  status and the bus port imply. From it follow that every memory change is inside the latched
  destination range (`WritesStayInDestination`) and, with software off memory, that latched
  words are current (`LatchedStaysCurrent`), the fact the refinement rests on.
  `EngineFollowsChain`: under `Discipline` (every address is answered and software leaves memory
  alone during a transfer), every step of the engine is a step of `DescriptorChain` or a stutter, for
  every memory and chain. `ChainInv` says that outside the copy loop memory is what the last descriptor
  left (`committed`), and inside it the block copy of the words copied so far (`NextOfBlock`: one
  more word, copied inside a block that overlaps its own source, gives the next block). The fields of a
  descriptor that overwrites itself are those it had in `committed`.
- **DmaAccelProofs.** Conservation is inductive once the status is known to follow the FSM and the
  history of outputs is at most one word behind that of inputs. `OutputsStayInMemory`: a transfer
  has fewer words than memory, so every place written lies behind the next destination and is not
  met again (`PlaceInv`). `InputsAreFromSource`: while software leaves CTRL alone the sides are
  those of GO, the address counters are functions of the number of words put out, and memory
  differs from what it was at GO in just the places of these words (`RunInv`), so a read meets
  either the source or an output of `Gap` words before (`Overlap`). `OutputsArePlaced`: the words
  left tell which is the last, and the destination counter is a function of the words put out
  (`RouteInv`).
- **PioFifoProofs.** `IInv` joins types, levels and the agreement of BUSY, count and FSM state.
  `ClockedFifo` is the lemma about one cycle of one FIFO on which the rest stands.
  `SpacedOpsStall` needs the rule `spaced`: a strobe of the last cycle is the only way the flags
  can be stale. `TransfersConserve` needs `leave` and `target` and the strengthening `Owned`:
  nobody else is at the served side of the FIFO, the latched selection is the job's, and a word
  on its way from memory finds room. `TxFollowsQueue` and `RxFollowsQueue` are the refinement of
  `WordQueue`, also with transfers under way, which the run `pio_queue` leaves out:
  `ClockedContents` turns a cycle of a FIFO into an operation on its contents. A TX queue needs every
  rule, and that the room FSTAT has shown is still there when the write arrives (`Awaited`).
- **PioSdkProofs.** `NothingIsShared`, under `short` and `checked`: that loaded programs are disjoint
  rests on their slots being marked, and that they stay marked when another is removed rests on
  their being disjoint, so the two are one invariant; the claims are a second one.
  `MachinesRunTheirPrograms`, under all rules: every instruction of a loaded program is in its slot
  or on its way there (`ImageInv`); a machine is enabled, or about to be, only with a program that is
  loaded and copied (`JobInv`, `EnableInv`); and from `pio_sm_init` on it has either writes to come that set
  its wrap, restart it and force its jump, in this order (`Starting`), or its wrap inside the program
  and a counter that is there or will be when the forced jump is taken (`Started`). No SET is on its
  way together with a write of CTRL (`SetInv`), so a forced jump is not overwritten.
  `PinsAreAsAsked`, under all rules and for programs without SETs of their own (`NoSets`), since one
  would change pins behind the library: `PinInv` says that every forced SET, and every one in the
  script, writes what is wanted to each pin it reaches with the base and count written just before
  it, and that a pin that is not as wanted is reached by one of them. It rests on what the
  helpers of `pio.h` compute for every base, count, value and mask (`Covers`).

  The second part is about `PioEncoding`, for all operands and any number of calls.
  `FieldsAlwaysDecode`: every field of the four words, also those the hardware does not slice, holds
  bit by bit what was last asked for it, and what is asked fits (`FieldInv`). A builder keeps this
  because fields of one word lie apart (`FieldsApart`) and what it asks for fits its own fields
  (`PutStores`); a threshold of 32 is the one value that does not fit, and is stored as 0.
  `InstrAlwaysDecodes`: an assembled instruction is the bits of the operation, of the delay below the
  power that the side-set count leaves to it, and of a side-set value below the power of its own bits
  (`InstrInv`); the three meet nowhere (`InstrParts`), so the decoder finds each of them
  (`EveryDecoded`, `DelayRead`, `SideRead`). It needs `FieldInv`, for the hardware splits the bits
  by the count it finds in the configuration. Both end in `SliceIs`: a slice with the bits of
  a number is that number, cut to the width. `Numeral` derives this without induction: it follows
  a number through its sixteen last bits. `EncodingIsUnambiguous` is a consequence: two requests never
  encode alike.
- **MemImageProofs.** `RegistryStaysCoherent`: `RegistryInv` says what registration has built, area by
  area (ranges, names and indices), so that looking at two neighbours is enough to find every clash
  (`NoClash`). `StagedAlwaysFits`: staged segments of an area are disjoint, aligned and end inside
  it (`StagingInv`), which rests on `EmplaceInserts`: inserting a segment into a ranged map
  gives a ranged map in which the new bytes win and every other byte is as before, however many
  segments it touches. `MemoryAlwaysHoldsImage`: while an ELF file is staged, the staged bytes are
  what its first `k` headers say (`StagedSome`); while it is written, the words of written segments
  are filled and the rest is as it was (`WrittenSome`). `DenseImage`, `SparseImage` and `VmemImage`
  then say that a flat load, a load segment by segment and a vmem load leave the image. For any number
  of areas, files, segments and loads, and every word width.
- **Conv1dProofs.** `StatusIsCoherent` under `patient`, `ResultsAreCounted` also under `fits`: the
  number of results computed at GO does not wrap and each result decrements it once.
  `ResultsAreConvolutions` and `BuffersAreRespected`, under all rules. Neither
  property says what the registers hold, so `FlowInv` does: in a transfer that software leaves
  alone the two address counters and the fill count are functions of the histories
  (`CountersFlow`), the shift register holds the last samples, and after a SOFT_RESET zeros
  (`ShiftFlow`), the reads are ahead of the results by exactly the samples a first result needs
  (`Reading`), and the result on its way out is the window at the last sample (`Writing`).
- **TimerProofs.** `TimesAreRead`: the high word belongs to the time at which the reading began, the
  low word to some time since, and if the high word is the same at the end it was the same in
  between, because the high word of time never falls (`ReadInv`). `NoTickIsEarly` and
  `NoTickIsLost`, without `Reenables`: `ArmInv` says that at most one thread is between the stores of a
  compare value, for the program stores only with the interrupt masked; so the value is
  whole after its last store. `TickInv` then keeps the compare value at or past the time the next
  run of the handler is owed, and a pending interrupt to one that this value has raised; `DueInv`
  keeps it, outside the stores, at or before the time asked for. The proofs are for every width of
  the words and every period.
- **SimCtrlProofs.** `TraceIsClosed`: a main thread that dumps has seen tracing enabled, and
  that it was enabled once is remembered. `CyclesAreExact`, for every reset of at least one cycle: the
  clock, the edges and the window of the reset are functions of time and of the place in the loop
  (`BenchInv`), and a run that goes on has found cycles left (`TimeoutInv`). `ExitCodeIsTrue`, also
  for counts whose report fits the register: the count comes back from the device unchanged
  (`DeviceInv`), `simulation_success_` and the value loaded from it agree with what has happened so
  far (`SuccessInv`, `WhyInv`).

Assumptions: only the named `ASSUME`s on constants of each module, and the rules and conditions named
in a theorem. All are evaluated, or true of the constants, in the runs.

The merging of segments (`Merged`) is a recursive function over numbers. That such a function exists
and satisfies its equations, and induction on numbers, are derived in `MemImageProofs` from the well-foundedness of the order of the natural numbers, in the form that every set of
numbers that is not empty has a least element; no schema with an operator parameter is needed.

Only model-checked: all liveness (`ImplementsChain` contains the fairness of the abstract chain,
`Terminates`, `DmaTerminates`, `TimeoutEnds`): the prover does not reason about fairness. Every
invariant and action property that a passing run checks is also proved.

## What the code does differently from its documents

Shown by the run `pio_first_rx`, and described in `PROJECT.json`: the first RX transfer of the PIO
DMA writes its first word twice.

Seen while modelling, and kept in the models as the code has it, with the rules above where a
property needs them:

- Conv1D: weight 0 meets the newest sample of the window (`conv1d.sv:175`), as
  `conv1d_test.c:52` and `docs/conv1d/conv1d.md:101` have it. `conv1d.sv:8` and `conv1d.md:8`
  (`y[n] = sum(x[n+k] * w[k])`) and `conv1d.md:168` ("Weight 0 is applied to the oldest sample in
  the shift register") say the opposite, and the code does not do it. `ConvCorrect`, which the
  run `conv1d` checks and `ResultsAreConvolutions` proves, is about the order of the code and its
  tests: that it holds says that those three lines are wrong.
- Conv1D: SOFT_RESET leaves the FSM running with BUSY clear (`conv1d.sv:333`; `conv1d.md:141` says
  it resets the FSM to IDLE). Without a SOFT_RESET before it, SAME mode starts from the samples of
  the last transfer and not from zeros (`conv1d.md:101`, `conv1d.sv:19`).
- PIO: blocking operations do not stall in consecutive cycles at divider 1
  (`pio_sm.sv:668`; `docs/pio/pio.md:267`).
- PIO SDK: programs are not relocated (`pio.h:384`; `pio.h:72` calls origin -1 relocatable).
- Scatter-gather DMA: IRQ_ON_DONE is unused (`sg_dma.sv:292`; `docs/sg_dma/sg_dma.md:48`).
- Accelerator core: a CTRL write during a transfer is ignored as a GO but redirects the words still
  to come.
- PIO: a CPU write to IRQ or IRQ_FORCE replaces the whole update of the flags in its cycle
  (`pio.sv:584`). STATUS, FJOIN and the fraction of the divider are ignored. A forced
  instruction is a register one deep that neither a disable nor a restart clears.
- PIO SDK: a program of 32 instructions shifts by 32 (`pio.h:362`); `pio_sm_drain_tx_fifo` reads the RX FIFO
  (`pio.h:344`; nobody calls it). `pio_i2c_init` forces several pin SETs on a stopped machine, of
  which only the last is performed (`i2c.pio.h:92`).
- Timer driver: `get_elapsed_time` reads the two words of `time_elapsed` one after the other.
- Simulation controller: SIGINT ends with exit code 0; a reset of duration 0 is never released
  (`verilator_sim_ctrl.cc:360`); statements after `return false` are never reached (`:170`);
  `sim_halt` shifts its count to the left, so that 2^31 failures would be a success.
- Memory loader: a range that clashes with the first area aborts in an assertion
  (`dpi_memutil.cc:354`) instead of the exception the header promises; a `--meminit` with an unknown
  type throws past its caller (`verilator_memutil.cc:73`); `--help` returns without loading.

## Not modelled

- The read paths of the register files: registered copies without further state. FSTAT, on which
  software decides, is modelled.
- Byte enables, debug registers, the weights and IER of Conv1D (see its component note), the addresses
  and the interrupt enable of the PIO DMA.
- The data path of the PIO state machines (shift registers, IN, OUT, MOV, WAIT), delays and divider,
  IRQ flags; with them the I2C programs.
- `vl_stop` of the simulation controller, compiled only under `VL_USER_STOP`, which no build of the
  repository defines.
- Writes of MTIME, which no software makes. ECC memories and address scrambling, which the SoC does not
  use. Reading memories back.
- CPU core, AXI library and bridges: external. FPGA and ASIC wrappers: no behaviour of their own.
- Everything listed as planned below.

## Plan

Modelled first: the blocks that move data for software and their concurrency with it; then the
software and the simulator around them.

1. `SgDma` over `DescriptorChain`; `DmaAccel`; `PioFifo` over `WordQueue`; `Conv1d`. Done.
2. `PioSdk` and `PioEncoding`; `Timer` with its driver; `SimCtrl`; `MemImage`. Done.
3. `PioSm`: IRQ flags of `pio.sv` as shared state of two state machines and the CPU, clock divider,
   delays and the rest of the instructions. Properties: the flag handshake, no flag lost. Composed
   with `PioFifo` through its ports, and the I2C programs on top.
4. The stream composition: `Conv1d` and `DmaAccel` over the routing of `opensoc_top.sv`, against a
   `WordQueue` between them; then two producers with the shared ready.
5. `Conv2d`, `Gemm`, `VecMac`, `Softmax`: FSM and counters against a reference result, on the
   pattern of `Conv1d`; the divider of Softmax as a pure function.
6. `Uart` (two back to back, bytes delivered in order), `I2c` (against a bus with another master).

Theorems to add: with each module, its type correctness and the invariants named here.
