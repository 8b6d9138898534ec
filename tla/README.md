# TLA+ models of the HW/SW project

The repository accelerates two pyperformance benchmarks, `pyflate` (bzip2 and
gzip decoding) and `nbody`, in software (development tiers, the landed Python
programs, Rust kernels) and in hardware (three SystemVerilog engines with Python
drivers and verification environments), and keeps tools that measure, track and
present all of it. These modules model the parts with state, protocol or an
algorithm that has to agree with another one. TLC checks them on small
instances; TLAPS proves, for every size, `mtf_cam` against its functional model
and its abstract specification, the registers, the drivers, the output and the
aborts of `huffman_engine`, the bzip2 header and the bit readers, and the tools
that keep a status and a release.

Contents: 1 inventory, 2 modules, 3 how to read them, 4 runs and bounds,
5 fairness, 6 proofs, 7 where documents and code disagree, 8 not modelled, 9 plan.

## 1. Inventory

| component | state it keeps | operations | what is hard |
|---|---|---|---|
| `mtf_cam` list, run accumulator, item FIFO, expander, packer, controller (`hw/mtf_cam/rtl`) | 256-entry list, run length, ring, byte buffer, FSM and counters | fill, move to front, accumulate, enqueue, pack, flush, one FSM arm per edge | a fill cut short and restarted, overflow before wrap, two-slot reservation, TLAST on a block of whole beats, withdrawn beats, abort on any edge |
| `mtf_cam` register file behind `axi_lite_if` | configuration, sticky STATUS, doorbell decision, interrupt | reads, writes, W1C, doorbell, abort | response held until the decision, W1C racing a set, configuration frozen while BUSY |
| `huffman_engine` (`hw/huffman_engine/rtl`) | aligner, tables, selector and DEFLATE sequencers, C1 register, output skid, FSM | refill, skip, table build, issue, resolve, emit | error priorities on one edge, group boundary, skid credits, tail of the stream, abort in flight |
| `pyflate_accel` | none of its own | `huffman_engine` in front of `mtf_cam` | one half stops while the other waits; a beat left on the wire |
| `grape_pipeline` | body banks, scratch, pair schedule, accumulators, FSM | step FSM, reservation table, accumulate, integrate | accumulate order per lane, six units shared by three clients, abort at a commit |
| engine drivers (`*/driver`) with their ModelBus | the caller's progress | configure, start, wait, abort, read | sticky flags of an earlier call, timeouts, a refused or half-written job |
| verification environments (`*/tb`) | scoreboard mirrors | register sequences, predictors | a mirror that drifts; an abort that races the last beat |
| golden models (`hw/*/golden`, `hw/*/docs/*_model.py`) | decoder position, list, cycle counts | decode, expand, replay, schedule | agreement with the benchmark and with the RTL |
| `pyflate` benchmark, tiers, Rust kernel | bit reader, tables, list, block | header parsers, symbol loop, inverse transform, run-length step, gzip copies | padding and hand-over of the reader, fallbacks, late range checks, runs at the end of a block |
| `nbody` benchmark, tiers, Rust kernel | SYSTEM, PAIRS, the generated `advance` | configure, bind, advance, bench, energy | an `advance` generated for other lists, order of operations, state over repeated calls |
| tools (`tools/hw`, `tools/trim_folded.py`, `report/vm_refresh*.py`) | STATUS.json and its mirrors, a profile, result directories, the installed extension | set, edit, render, sync; trim; stages of a release | two processes, crashes between steps, merged frames, shared installation |

The engines interact over AXI4-Stream and AXI4-Lite; within an engine every block
reads the others' registers combinationally on the same edge, which is why a
model composes them in one step. Drivers and scoreboards reach an engine through
one register access at a time, and the engine goes on in between.

What makes each component correct, in one line: the list is a permutation of its
used map; a run never wraps; the FIFO is a queue; every committed byte leaves
once, in order, TLAST on the last; every block ends in both halves, and nothing
of it reaches the next; a driver returns its own result; a scoreboard is silent
about a module that behaves; all decoders and integrators agree with the stock
program; a mirror shows the status; a complete release measured its own build.

## 2. Modules

`mtf_cam`, its registers and its driver:

| module | models | checked by |
|---|---|---|
| `MtfParams` | parameters with their assumptions, items | in `MtfCam` |
| `MtfList`, `MtfRun`, `MtfDrain` | `mtf_list.sv`; `mtf_run.sv`; queue, expander and packer as one edge | in `MtfCam` |
| `MtfCam` | `mtf_ctrl.sv`, enqueue and counters of `mtf_cam.sv`; EXTENDS the three above | `mtf_cam` |
| `MtfGolden` | `golden/list_model.py`, `compute_outcome()` of the bench | in `MtfCamHistory` |
| `MtfCamHistory` | `MtfCam` with its two streams recorded | `mtf_cam`, `pyflate_accel` |
| `MtfBlock` | abstract: bytes owed and delivered, one outcome per block | `mtf_cam` (refinement) |
| `ItemQueue`, `ItemQueueSpec` | what `item_fifo.sv` promises, as operators and as a machine | `hw_cells` (refinement) |
| `ItemFifo` | `item_fifo.sv` as built: ring, two pointers, count | `hw_cells` |
| `AxiLiteIf` | `axi_lite_if.sv`: one operator per channel | `hw_cells`, `mtf_control`, `mtf_host` |
| `HwCells` | the FIFO and the slave, each between arbitrary neighbours | `hw_cells` |
| `MtfRegs`, `MtfControl` | `mtf_regs.sv`; slave, registers and an invocation that may end on any edge | `mtf_control` |
| `MtfHost` | `mtf_cam_driver.py` over the bus, clock by clock, with a second coroutine that aborts | `mtf_host` |

`huffman_engine` and the chain:

| module | models | checked by |
|---|---|---|
| `PyflateHuffman` | five builders of a canonical table and their matchers | in `PyflateBlock`, `HuffGolden` |
| `HuffGolden` | the two decode loops of the emulation model, the scoreboard's stop conditions | in the next two |
| `HuffPredictor` | scoreboard predictor, recording wrapper, cycle model of the aligner | `pyflate_block` |
| `HuffEngine` | the RTL clock by clock: aligner, builder, cascade, selector FSM, DEFLATE resolve, skid, invocation FSM | `pyflate_accel` |
| `PyflateAccel` | the engine alone, and `HuffEngine` with an INSTANCE of `MtfCamHistory` behind it and a host | `pyflate_accel` |

Drivers and benches at the level of one register access:

| module | models | checked by |
|---|---|---|
| `EngineDevice` | the three engines' registers and progress, and the three ModelBus classes | in `Engines` |
| `EngineBench` | the three scoreboards' mirrors (`tb/env.py`) | in `Engines` |
| `EngineScripts` | the test sequences and the drivers' calls as sequences of operations | in `Engines` |
| `Engines` | a test or a series of driver calls, the engine and the scoreboard together | `engines`, `engines_start_stale` |

Software, the `grape_pipeline` step and the tools:

| module | models | checked by |
|---|---|---|
| `PyflateBits` | seven bit readers with their hand-overs | `pyflate_stream` |
| `PyflateBzip2` | nine parsers of the bzip2 header | `pyflate_stream` |
| `PyflateGzip` | the DEFLATE decoder, the golden recording, `calibrate.py`'s replay | `pyflate_stream` |
| `PyflateBlock` | the symbol loop of every tier on the same bits; inverse transform and run-length step, stock and landed, with the encoder they undo | `pyflate_block` |
| `NBodyKernel`, `NBody` | the integrators; the benchmark program, the stock one, the tiers | `nbody` |
| `GrapeStep` | `schedule_model.py`, `gen_reservation.py`, `grape_accum.sv`, the step FSM | `nbody` |
| `FoldedStacks`, `HwFlow`, `ReleaseRun` | `trim_folded.py`; `status.py`, hook and `gh_sync.py`; release worker and `vm_run_all.sh` | `repo_tools` |

The `MC*` modules hold the instances for TLC; `MtfCamHistory`, `MtfControl`,
`MtfHost`, `Engines`, `HuffPredictor` and `PyflateAccel` carry theirs at their
end. `MCNBody`, `MCPyflateStream`, `MCRepoTools` and `HwCells` put components that
share no state in one run: a behaviour is one of them from its first step.
Theorems are in eight modules:

| module | theorems about |
|---|---|
| `MtfCamProofs` | list, run accumulator, sequencer, packer of `mtf_cam`; its two streams against functional model, scoreboard and `MtfBlock` |
| `FoldLaws` | lemmas about `FoldLeft`, instantiated once for each fold |
| `MtfControlProofs` | item FIFO, AXI4-Lite slave, registers, controller, the driver over them |
| `EnginesProofs` | the three drivers over the three engines; the step of `grape_pipeline` against the emulation model |
| `HuffEngineProofs` | skid and aborts of `huffman_engine` |
| `HuffPredictorProofs` | the cycle model of its aligner |
| `NBodyProofs` | the benchmark program against the stock one, the tiers |
| `SoftwareProofs` | bzip2 header, selectors, bit readers; release run, status mirrors |

Operators whose name ends in `Mut` are deliberate faults that
no specification uses; each shows that some property can fail.

## 3. How the models correspond to the code

**RTL.** One step is one rising clock edge; the wires of an edge are parameters of
the action, the registers are the variables, named without their `_q`. Sequences
replace array-plus-count pairs (`buf` is `buf_arr[0..buf_cnt_q-1]`, `out` an
output register or skid, empty when its valid is low); a beat is the sequence of
its live lanes. Registers without a reset start with any contents (`lst`,
`mem`) or read as `Stale`. Lengths are integers, and the theorem `RunNeverWraps`
shows that the run's registers never wrap.

*mtf_cam.* `Idle`, `Doorbell`, `InitStep`, `Wait`, `AcceptRun`, `AcceptMtf`,
`AcceptEob`, `Reject`, `DrainStep`, `Done` and `Abort` are the arms of the FSM;
each steps list, accumulator and drain side with the wires this arm drives. An
error's flag is the first check that fails (`Verdict`). `used`, `status`, `heard`
and `delivered` are history.

*Registers.* A 32-bit word is the set of its 1 bits, so that strobes, masks and
write-1-to-clear are set operations. `MtfControl` reduces the FSM to `running`;
what an invocation may do on an edge (`Events`) is the outcome of `MtfCam`. In
`MtfHost` `pc` is the access the coroutine awaits, `txn` the transaction on the
bus, `Resume` the code between two awaits. Free-running or identifying words are
read as arbitrary.

*huffman_engine.* A job is what an invocation is configured with and fed with.
`View` is what the cascade sees in a cycle, `Wires` the issue decision with every
gate, `Decision` the FSM's priority list, and `Clock` applies them to every
register. `seen` is history. The streams, the sink and ABORT are free on every
edge on which the engine looks at them.

*pyflate_accel.* `SymReady` is `sym_tready` of `mtf_cam`; the halves step
together. The host rings the two doorbells of a block, in either order, when both
halves are idle, and may abort either at any time. A driver for the chain is not
in the repository: `DriverEdge` follows the chaining rules of
`hw/mtf_cam/docs/mas.md` (a half that stopped without an end of block: abort the
other), and is marked external.

*grape_pipeline.* The reservation table is computed by the scheduler's own
algorithm at the real configuration (five bodies, ten pairs, ADD 3, MUL 3, SQRT
30, RCP 22 cycles); `Events` replays it and `StepEdge` adds the accumulate and
integrate schedulers with their bypass.

**Drivers and benches.** A script is a sequence of operations; `Runs` lets the
engine progress between any two of them. A job stands for everything the
configuration registers hold, and the CTRL write with its decision is one access
(`MtfControl` has the edges in between). `sb` is the scoreboard's mirror and
`alarm` its complaint. `ModelBus` is the emulation the drivers also run on;
mtf's shows BUSY for two polls.

**Software.** A bit is the number of its place in the stream, so two readers agree
when they hand out the same places. Codes, headers and copies are small sets. In
`NBodyKernel` a float is a number below 61 under operations that are neither
associative nor distributive, so a result depends on the operations and their
order, as in IEEE-754; both the programs and `GrapeStep` use it.

**Tools.** One step is one file access, one call of `gh`, or one stage. `Torn` is
a file between its truncation and its write, `Mixed` what two writers of one file
may leave together. A rendering is three steps, `LoadForRender`,
`TruncateProgress` and `WriteProgress`, as a command of `status.py` is, so that
either may land late; a killed `render_progress.py` lets its hook go on to the
synchronisation. `may` (the changes STATUS.json may show), `together` (the most
synchronisations that ran at once), `settled` (an undisturbed one has ended),
`behind` (PROGRESS.md has a reason to be older than the status) and, in
`ReleaseRun`, `overlap` are history; no guard of an action reads them but
`Repaired`, which says what a person puts back into a torn file.

## 4. Runs

Twelve runs; ten pass and two show a disagreement (section 7).

* `mtf_cam` - three byte values, the least that tell a shift from an exchange; two
  lanes, depth 3, runs of up to three bytes, limits of five, every kind of symbol
  beat (runs, ranks, both EOB values, a rank and an EOB out of range, a foreign
  type, a misplaced TLAST), stalls and aborts on every edge, any number of
  blocks. `DeliveredIsPrefix` compares with the functional model,
  `ScoreboardPasses` with the bench's prediction, `ImplementsBlock` is the
  refinement of `MtfBlock`, its liveness included. The budgets bound the state.
* `hw_cells` - depth 3, no power of two, so that the wrap and the two-slot
  reservation with one slot free occur; the slave with two addresses and words,
  halves of a write in any order, a held response, an error wire that changes
  after the decoder answered.
* `mtf_control` - nine requests (doorbell, abort, both, clear, interrupt enable,
  a legal and an illegal limit, a partial write that makes it legal, the used
  map) in any order, address and data apart or together, reads beside writes.
* `mtf_host` - two legal configurations (to tell whose configuration a block ran
  on) and an illegal one, two polls before the timeout (they reach every place
  of `wait_done`), calls without end, aborts by another coroutine at any access.
* `pyflate_accel` - the engine alone: codes of up to three bits, words of four,
  groups of two symbols, 59 jobs with every way a block can end in both modes:
  selector lists that fit, end early, name no table or are too long; short,
  padded and cut streams; START_BIT inside, at and behind the first word; tight
  and loose limits; incomplete, empty and over-subscribed codes; copies whose
  distance has extra bits, is invalid or has no table. One abort per invocation,
  on any edge. The chain: two byte values, depth 2, five tasks (a whole block, its
  bits cut, a selector that names no table, too many bytes for BYTES_LIMIT, a
  used map too small for the symbols), aborts of both halves, consecutive blocks
  in any order. In the chain both input streams are offered at once, as
  `test_chain.py` queues them; alone they stall freely.
* `engines` - every test of the three benches and repeated driver calls over jobs
  that succeed, fail at the doorbell, in the run or in the driver, or starve;
  up to three symbols or steps, two or more of each so that an abort finds a run
  that goes on. The caller recovers after an exception (`CallerRecovers`):
  without it `ReturnsOwnRun` fails too, through a DONE that a timed-out run
  leaves behind.
* `pyflate_block` - codes of up to three bits in a primary table of two, so that
  the fallback of a group without short codes happens; four symbols, groups of
  two, all short bit strings; predictor: all streams of seven bits, complete,
  incomplete, empty and over-subscribed codes, three limits, two start bits;
  `TailInverts`: all strings of up to six over three values (runs of four with
  and without a count); the aligner's cycle model at its real widths.
* `pyflate_stream` - streams of up to twelve bytes (the widest refill, the widest
  field and the padding all fit), three groups, three selectors, two DEFLATE
  blocks of three symbols. Length symbols above 266 except the illegal 286 and
  distances above 4 are outside. `ReplayIsOutput` excludes stored blocks and
  distances beyond the output (`stored`, `far`): the record keeps neither.
* `nbody` - up to four bodies, which is more and fewer than the default of two
  here and crosses the unroll limit; three calls; five pair lists for the
  accelerator (forward, backward, empty, the same pair ten times, a body with
  itself) with no and two steps and an ABORT at any cycle; a step takes 123 cycles.
* `repo_tools` - all files of two stacks of up to three frames with all options;
  two processes with two commands, three synchronisations and one fault (a lost
  update and a duplicate need two processes, a half mirror one fault; the
  processes are interchangeable, hence the symmetry); two releases of two
  benchmarks with one failure. What `gh` prints, metrics and labels are left out,
  and a stage of a release is one step: two activities of different runs inside
  a stage are ordered.
* `mtf_control_clear_race`, `engines_start_stale` - section 7.

Deadlock is checked in `engines`, where a script must always go on. Elsewhere an
idle module may stay idle, a program may end, a stream may stop.

## 5. Fairness

* `mtf_cam`: `WF(HAdvance(TRUE))` - the clock does not stop, and on some later edge
  the consumer of `m_l` is ready and no abort takes effect. Nothing is assumed of
  `s_sym`: a block whose EOB never comes stays in DECODE, so liveness is stated
  for DRAIN and for the room that back-pressure takes away.
* `hw_cells`: the clock runs, the master takes its response, the decoder releases
  its hold (`mtf_regs` does on the edge of the decision).
* `mtf_host`: the transaction on the bus proceeds (`PresentAll`, `Complete`, weak),
  and an access the driver waits for is issued although the other coroutine keeps
  asking (`Issue`, strong): the sequencer serves its clients in order. `CallEnds`
  needs nothing of the block: the polls are bounded.
* `pyflate_accel`: `WF(FairStep)` - alone, the clock runs with the streams going on
  and the sink ready on some later edge; chained, the clock runs, `m_l` is taken
  at times, the host rings the second doorbell of a block, and the driver follows
  its rule. Without the last, `BlocksEnd` is false, as mas.md says.
* `nbody`: `WF(Grape)` - the clock runs. The host programs carry no fairness.

## 6. Proofs

What TLAPS proves holds for every value of the constants that satisfies the
assumptions named; TLC evaluates each of these on its run.

**`mtf_cam`**, for every list size, lane count, depth of at least two, run maximum
and set of symbol beats (`NListAssumption`, `LaneAssumption`, `DepthAssumption`,
`RunAssumption`, `BeatsAssumption`, `LimitsAssumption`):

* `ListTypes`, `ListIsPermutation`: `ListInv` adds to the permutation that the
  live entries are ascending and below the rest while a fill runs. The bound of
  the fill index needs the cardinality of the remaining bytes (`FillProgress`).
* `RunInvariant`, `RunNeverWraps`: `GroupRange` relates the length to the number
  of symbols; without it the weight is unbounded.
* `CamTypes`, `CamListReady`, `CamBudgets`: `CamInv` adds that INIT counts one
  cycle behind the fill (so the fill is finished when INIT ends) and that the
  symbol budget has a beat left while decoding. The step is proved arm by arm,
  citing `ListStepKeepsInv`, `RunInvStep` and `DrainTypeStep`.
* `CamIdleQuiet`, `CamLastBeat`, `CamFlushEnds`: `StreamInv` adds that until the
  final flush a beat on offer is full, not last, and has a byte behind it
  (`FullBeat`) - the reason the packer emits only when *more* than W bytes are
  there - and that a flush pending in IDLE is never a TLAST flush.
* `CamBeatStable`: from the types alone.
* `HistoryDelivers`: the bytes on `m_l` are a prefix of what the functional model
  makes of the symbols heard. `HistInv` says more: in a running block the model's
  bytes are the bytes received followed by those owed (`Owed`: the beat on offer,
  the buffer, the item being expanded, the items queued, in this order), and while
  symbols are decoded the model's list and run are the registers (`InStep`). Once
  the block has stopped only a prefix of what was owed still leaves.
* `HistoryScore`: a block that ends by itself is the one the scoreboard predicted.
  `WalkInv` keeps the prediction in step with the registers. `BeatsInv` is about the
  shape of the beats: as long as no short beat has been handed over, the packer
  keeps a byte behind every beat it lets go, so the flush finds one to mark; after
  it nothing is left. `AllSent` is what DONE adds.
* `HistoryImplements`: every edge is a step of `MtfBlock` or stutters there. The
  bytes pending are a fold over the queued items plus the rest; that an enqueue
  adds to it what the model commits, and that the packer takes from it what it
  emits, are the lemmas `ItemsBytesFlat` and `PendingIsOwed`. This is the safety
  part of `ImplementsBlock`.

What a fold computes is proved by a least counterexample: `FoldLaws` has the
folded operator as a constant of the module (an operator cannot be a parameter of
a theorem here), shows by well-foundedness of the naturals that a fold over a
longer sequence is one more step and that a fold over a concatenation splits, and
is instantiated once for each fold.

**Registers, cells and the `mtf_cam` driver**:

* `FifoInvariant`, `FifoImplementsQueue`, `CellsImplementQueue`
  (`FifoAssumption`): `PointersAgree` is inductive; each edge maps to `QueueEdge`
  with the ring's contents as the queue, also where the slave shares the run.
* `SlaveOneForOne`: `OneForOne` is inductive with the state of each channel tied to
  what is open and answered, for any master, decoder and length of the hold: no
  request is answered twice and none that was not accepted. That each is answered
  is `WriteAnswered`, which only TLC checks.
* `ControlDoorbell`, `ControlConfig`, `ControlAbort`, `ControlResponse`,
  `ControlFlags`, `ControlIrq`, for any set of requests, reads, faults and strobes
  (`WordAssumption`): `ControlInv` adds that a decision under way means the slave
  waits for the response, hence no second write request can come before it, and
  that the decision falls while the FSM is idle. Every action of `MtfControl` and
  of `MtfHost` is one `Edge`, so one lemma, `EdgeKeepsInv`, serves both
  specifications: `HostConfig`.
* `ControlStatus`: `StatusShowsBlock` needs that the flags set on an edge are those
  of the block that ran on it, hence `ControlInv`.
* `HostReturns`, with `AbortsOnTimeout` and `HostAssumption`: a call that returns
  normally does so for a block it started itself, run on the configuration of
  this call, with the flags that ended that block. `read_counters`, which the
  driver calls afterwards, is not modelled, hence nothing is said of the
  counters. `HostInv` says, access by access,
  what the transaction on the bus is, what of the configuration the registers
  already hold, in which phase the block of this call is, and which of the values
  read so far are its own. Without `AbortsOnTimeout` it is false (section 7).

**The drivers**, for every set of jobs (`CallJobsAssumption`: the types of a job, and
`advance` always loads bodies):

* `DriverReturns`, with `CallerRecovers`: a call that returns has waited for its own
  run and brings its result, over the RTL and over ModelBus. `CallInv` ties the
  place in the script, written as what is left to do there, to the engine: idle
  with an empty STATUS before the doorbell, the run of this job or a refusal behind
  it, the run over where the result is read. Failed calls leave nothing to rely on;
  the caller's abort, poll for IDLE and clear restore it.

**`huffman_engine`**, for every code, selector list, stream, limit and word width
above the code length (`EngineAssumption`, `HuffmanAssumption`):

* `EngineSkid`: `SkidHolds` says that a pushed beat finds a place. It is not
  inductive; `SkidInv` is: C1 and the skid together hold at most two beats, and in
  bzip2 mode no copy is ever resolved. A resolve pushes only when C1 and skid
  leave room.
* `EngineAbort`: an abort is answered within three cycles. In DRAIN the answer
  depends on what was handed over, so `EndInv` follows the TLAST beat from C1
  through the skid to the sink, and `AbortInv` shows that a pending abort is met
  in DRAIN only when it came with the end of block.
* `RefillHidden` (`RunsAssumption`), for runs of every length, rate of beats,
  back-pressure and start bit of the cycle model: `CycleInv` adds to the property
  that the bits consumed are the codes of the symbols decoded (`Accounted`) and,
  with a beat in every cycle, that behind the first cycle the buffer holds a
  refill (`Fed`): a code takes at most `Window` bits, so one beat makes up for it.

**`grape_pipeline`**, for every number of bodies, latency, length of the table and
job (`ScheduleAssumption`, `JobsAssumption`: the types of what a doorbell latches,
and at most one pair per slot of the table; a pair may name one body twice):

* `GrapeExact`: `CommittedIsExact`. The model's step is written lane by lane as the
  velocities after each accumulate operation (`Target`), which is what the loop
  over the pairs computes (`PulsesAre`, `OneStepIs`). `StepInv` says how far an
  invocation has come towards it: of the table only that an operation has at most
  one row and that the rows of its operands, with the latency of their units, lie
  before it (`RowsAre`, from the fold that schedules) - hence every forwarded or
  captured result is that of this step and its pair (`FrontFlow`, `Captures`);
  operations on a lane are issued in the order of the pairs (`InOrder`), so a lane
  at rest, or the result that retires on it, has exactly the target of those
  issued (`AccFlow`), and a lane has at most one result in flight; a lane is
  drifted when none of its updates is left (`MulFlow`), and moves only then
  (`AddFlow`), when the table has read its position in every pair. The step ends by
  a count: the operations retired and in flight are at most those issued
  (`Counted`), so when the count is full nothing is in flight. `GrapeInv` adds what
  the banks hold in each state of the FSM.

**nbody**, for every number of bodies, seed, unrolling limit, iteration count and
sequence of calls (`NBodyAssumption`):

* `StockTrajectory`, `CompleteAdvance`, `TierContract`: the integrators are six
  programs over four representations of a system - the list of bodies, unpacked
  pairs with literal masses, arrays, the locals of a generated function. Each
  representation is an image of a system of fixed masses (`Systems`), and each
  program is shown to take the image of a system to the image of `Rounds`, the
  plain loop over the pairs with the root or the power, pair by pair along the
  trace of its fold (`FoldTrace`): `T1Is`, `GeneratedIs`, `LeapsAre` with
  `ArraysFollow`, `OffsetIs` and `EnergyIs`. The inductive invariant `NInv` says that
  both modules hold a system with the masses of one body table, all its pairs, and
  that `advance` is the rolled loop or was generated for these masses and pairs
  (`Fits`); `_configure`, the back ends' write-back and the sweep's reset keep it.
  Of the arithmetic the proofs use only that an operation on floats gives a float:
  two programs agree because they apply the same operations in the same order.

**Software and tools**:

* `NativeHeaders` (`FieldsAssumption`): a header the native kernel accepts is one the
  stock parser accepts. The kernel checks a group's lengths late; `KernelBehind`
  says that where it goes on alone, a group without codes has been read, and
  `TakenIsSound` that it refuses this before it takes the block.
* `SelectorOrder`: `ByRecency` (the list holds every group, the last used first)
  and a unary code that goes on is shorter than the list.
* `ReadersAgree` (`ReadersAssumption`), for streams of every length: as long as the
  stock reader has not raised, all readers stand at one bit (`AllAt`), through
  refills, padding and hand-overs. They also tell that bit, except the stock one:
  the copy made behind the magic sets its byte counter to `x.bitfield`, which is 0
  there, in place of `x.count`, so that it tells 16 bits too few for ever
  (`Counted`, `TellBits`).
* `ReleaseComplete` (`BenchAssumption`), for any number of runs and benchmarks:
  `ReleaseInv` has one conjunct per promise of a run - stages in order, counted,
  its own record, vouched for, its own extension - and that runs on one host are
  alone there.
* `MirrorsSettled` (`StagesAssumption`, `UsersAssumption`), for any number of
  stages, processes, commands, synchronisations and faults. `MayInv`: what a
  command is about to write shows its own change and otherwise only what may be
  shown. `RenderInv`: a rendering whose status is still
  the present one carries it. `SyncsInv` says how far each synchronisation has
  brought the issues, compared with the list it read. `NumbersInv` counts: for one
  stage, its issues and the synchronisations that have listed none of them and may
  still create one (`Blind`) are never more than `together`.

Proved and in no run of their own, because they follow from the invariants above
and a run would repeat them: `DoorbellMeetsIdle`, `Permutation`, `NoWrap`,
`PointersAgree`, `DecodeListReady`, `IdleQuiet`, `FlushEndsBlock`, `BeatStable`,
`ResponseAfterDecision`, `IrqFollows`, `SymbolBudget`.

Only model-checked:

* liveness, the liveness part of `ImplementsBlock` included: fairness and ENABLED
  are out of the prover's reach here;
* `ScoreboardSilent` and `MirrorsInStep`: the tests of the benches are a fixed,
  finite set, which TLC enumerates; a proof would say no more;
* `EngineAgrees` and `ChainDelivers`, the agreement of `huffman_engine` with the
  emulation model's loops, and `PredictorAgrees`,
  `BackendsAgree`, `TailInverts`, `ReplayIsOutput`: two loops over data, each
  a recursion of its own, agree by induction on the data;

* `WidthsKept`: a recursion over the frames of a profile.

## 7. Where documents and code disagree

Shown by a run:

* `mtf_control_clear_race` - a STATUS clear on the edge on which the block ends
  erases the flag of this end (`mtf_regs.sv:204` after `:176-181`), though mas.md
  promises DONE on the next cycle. What does hold is `FlagsKept`: nothing but such
  a clear loses a flag.
* `engines_start_stale` - `start()` of the grape and huffman drivers reads a sticky
  flag behind the doorbell and reports an accepted doorbell as rejected.

Met while modelling, with no run of their own:

* `tools/hw/status_render_hook.py:2`, "when hw/STATUS.json changes, regenerate
  hw/PROGRESS.md", and `hw/FLOW.md:83` hold for edits by the session only.
  PROGRESS.md stays behind in three ways, which `behind` names and `MirrorsSettle`
  excludes: `status.py set` and `gate` save with no hook behind them; a rendering
  that read the status before a later edit lands last, or mixes with another; a
  rendering is cut off. A synchronisation may well end clean meanwhile: the issues
  show the status and PROGRESS.md does not.
* Of two commands that overlap the later save drops the other's change, and
  synchronisations that list before either creates make an issue twice. Both are
  what the code does without a lock; `MirrorsSettle` bounds them (section 6).
* `tellbits()` of the stock reader is 16 bits short from the copy made behind the
  magic onwards: the constructor copies `x.bitfield` into `count`
  (`dev/pyflate/t0_stock.py:22`, `447`). `hw/huffman_engine/golden/pyflate_ref.py:8-10`
  says as much, and works from positions of its own; `SameBits` states the
  difference exactly.
* `axi_lite_if.sv` header: write and read pulses are never simultaneous. The
  channels are not arbitrated; they coincide in `mtf_control`, and `mtf_regs`
  answers both.
* `mtf_cam` PRD-F10, at most one beat after an error: with a stalled output
  register and a non-empty buffer two leave. `p_bytes_budget` looks at the
  doorbell edge too, where the old byte count meets the new limit. A caller of
  `mtf_cam_driver` that retries after a timeout without an abort may get a normal
  return although its configuration writes were refused.
* `huffman_engine` PRD-F10, SYMBOLS equals the symbols before the error: entering
  ERR withdraws beats that were not handshaken, and a selector that names no table
  always withdraws the last symbol of its group. `huff_out.sv` calls ERR_LIMIT
  exempt from the flush; the FSM flushes in ERR always (nothing is left then).
  "No TLAST on abort" does not hold when the EOB beat handshakes in the abort's
  cycle: in the chain the engine is ABORTED and `mtf_cam` takes the EOB on the same
  edge and may be DONE. An error behind the last symbol of the limit may win over
  ERR_LIMIT, and an empty distance table over the underrun of a length's extra
  bits: `EngineAgrees` allows both (`Answers`).
* `huffman_engine`'s ModelBus ignores the extra bits of copies in BITS and returns
  a copy as 256; it ignores ABORT and never reports ERR_TABLE.
* The huffman scoreboard treats ABORT together with DOORBELL, configuration
  writes while busy and rejected doorbells differently from the RTL, and keeps
  its completed count over a reset. mtf_cam's predicts ABORTED whenever an abort
  was asked for, also where DONE won.
* `build_huffman_table` documents a zero entry of its table as "code is longer than
  pb bits"; in an incomplete code it also stands for bits that begin no code.
  `trim_folded.py` says that every width is unchanged: not with `--prefix` and a
  share below 100.
* `calibrate.py` of grape_pipeline calls the landed `advance(dt, n)` with four
  arguments. `gzip_main` raises AttributeError on FEXTRA and tests a stored
  block's complement with `&`; T1 to T3 refuse gzip. The header of
  `rust/nbody/src/lib.rs` describes a `write_back` that does not exist.
* A resumed release suite skips what its stamps call done, whatever revision made
  them (`vm_run_all.sh`); `vm_refresh.py` gives every run a directory of its own,
  so the release model starts without stamps.

## 8. Not modelled

The floating-point units of `grape_pipeline` (bit-level arithmetic: vectors and
bit-vector provers); `axi_lite_regs.sv` and the stream cells of `hw/common`, which
no RTL module instantiates; the register files of `huffman_engine` and
`grape_pipeline` between two edges of one access (`EngineDevice` has them access
by access, `MtfControl` the edges for `mtf_cam`); the counters CYCLES, OVERFETCH
and BUILD_CYCLES and the debug read ports, which influence nothing; a bzip2 job of
the engine without any selector, which waits for one for ever; reset in mid-run,
which is the initial state again; configuration writes of a job one by one in
`Engines`; functional coverage, stimulus generation and stream agents; the
measurement scripts and their statistics, hooks that only format or lint, the deck
and its images; gzip header strings and checksums, which nothing reads; ssh and
the profile stage of a release.

## 9. Plan

Done: `mtf_cam`, its registers and driver; `huffman_engine` clock by clock; the
chain; the `grape_pipeline` step; drivers and benches; the benchmarks, their tiers
and kernels; the tools with state.

Proved: every safety property of `mtf_cam`, its registers, cells and driver; the
drivers' results; skid, aborts and aligner of `huffman_engine`; header, selectors
and readers of the stream decoder; nbody and its tiers; the step of
`grape_pipeline`; release and mirrors.

Theorems worth proving next: the parts of `EngineAgrees` that need no emulation
model (a block is refused, reaches its limit or its last group only on the edge
that says so), then `ChainDelivers` from them and `HistoryDelivers`; `WidthsKept`
with `FoldLaws`.
