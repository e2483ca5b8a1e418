# PSX emulator: a TLA+ model of its control logic

This directory specifies the state machines of the PlayStation emulator in
`src/`, model-checks them on small instances, and proves their main invariants
for every instance. The emulator is a single-threaded C program. Its difficulty
is not threads: it is *simulated* concurrency. A guest program, which may do
anything at any cycle, interleaves with devices that act later, by countdowns,
queues and interrupts. Everything below is about those interleavings.

`PROJECT.json` holds the same facts for tools: which source lines each
definition stands for, the runs, the mutants each property was shown to catch,
the hazards, and the theorems.

## 1. The system

| Part | Source | State | Operations |
|---|---|---|---|
| Main loop, frame loop | `src/main.c` | cycle accumulator, frames | run a quantum of instructions, advance devices, pace frames |
| System clock | `src/main.c` (`advance_system_cycles`) | cycles left in the quantum | cut a quantum into slices at the next edge of any device |
| Scheduler | `src/scheduler.c` | one deadline per event kind | schedule, cancel, advance, drain |
| GPU beam | `src/gpu.c` (`gpu_step`) | line, phase in the line, video mode | HBlank, VBlank, end of line, mode switch |
| GPU ports | `src/gpu.c` (`gpu_gp0`, `gpu_gp1`, `gpu_read`) | command buffer, words remaining, GP0 mode, transfer cursor | packets, image load/store, polylines, reset |
| CD-ROM | `src/cdrom.c` | two FIFOs, response, irq flag/enable, deferred command, event queue, drive state | commands, acknowledge, queued events, sector stream, seek |
| DMA | `src/dma.c`, `src/interconnect.c` | channels, DICR, remembered line, edge owed | register accesses, block, list and OTC transfers |
| Root counters | `src/timer.c` | counter, target, mode, pending reset, one-shot latch | step by cycles, HBlank/VBlank, register accesses |
| Serial port, pad | `src/sio.c` | selection, address, position in the frame, countdown to the acknowledge | TX, RX, CTRL, time |
| Memory card storage | `src/sio.c` | image in memory, dirty flag, file, temporary file | load, format, write a sector, flush |
| Interrupt controller | `src/irq.c` | I_STAT, I_MASK | assert, acknowledge |
| CPU, instruction cache | `src/cpu.c`, `src/cpu_cache.c` | pc and next pc, load in flight, COP0, busy counters, cache lines | step, exception, interrupt, cache fill and emptying |
| MDEC | `src/mdec.c` | command, parameters, tables, output ring, staged macroblock | commands, decode, CPU and DMA reads, reset |
| SPU | `src/spu.c` | voices, envelopes, sound RAM, reverb addresses, CD audio ring | key on/off, uploads, sample clock, CD frames |
| CD audio, XA | `src/cdrom.c` | decoder history | filter, resample |
| GTE, rasteriser, renderer | `src/gte.c`, `src/gpu.c`, `src/renderer.c` | registers, VRAM, GL objects | arithmetic, pixels, output |
| Disc, BIOS, EXE, input, log | remaining files | byte arrays, host handles | file and host input/output |

**Interaction.** There is one thread. `main` calls `cpu_step` until the quantum
is used up; each instruction may call into any device through the interconnect.
`advance_system_cycles` then moves all devices, in slices that end no later than
the next scheduler deadline, beam edge or serial countdown. Devices talk to the
CPU only through I_STAT. The CD-ROM is the only client of the scheduler; DMA
moves words between RAM and the GPU, MDEC, CD-ROM and SPU synchronously, inside
the register store that starts it; HBlank and VBlank feed the root counters.

**What is hard, and what makes each part correct.**

* *CD-ROM*: responses are written when a command is issued, but delivered later
  by an event; an unacknowledged interrupt defers both the next command and the
  next sector. Correct: no lost wake-up (queue and scheduler slot agree), no
  deferred command without an acknowledge still to come, a busy drive always has
  the event that ends its work, every answer arrives with its interrupt.
* *Clock*: slices must never step over an edge of any device. Correct: one beam
  edge per slice, events at their cycle, one VBlank per frame, frames keep ending.
* *DMA*: the interrupt is an edge of a condition computed from DICR, noticed at
  the end of a quantum. Correct: every rising edge reaches I_STAT once.
* *Counters*: the reset at the target is delayed by one step and may be
  overtaken by writes. Correct: period target + 1; one-shot fires once.
* *Serial port*: a frame may be abandoned at any byte. Correct: a written sector
  is the frame that was sent, acknowledges belong to the frame they answer.
* *Card*: the emulator may be killed or the power may go between any two calls.
  Correct: the file is always a whole image, answered writes survive.
* *GP0*: a word's meaning depends on every word before it. Correct: the buffer
  never overruns, transfers end on the word of their last pixel, the decoder
  does not lose step with a well-behaved program, images arrive unchanged.
* *CPU*: an interrupt falls between any two instructions, also between a jump
  and its delay slot or a load and its use; a fault in a delay slot runs the
  branch a second time. Correct: the program cannot tell that it was interrupted,
  the cache serves what memory holds, results are waited for.
* *MDEC*: words arrive in the middle of blocks, and pictures are read while they
  are written. Correct: decoding piecemeal equals decoding at once, and words
  come out in the order of the port they are read at.
* *SPU*: registers change under a playing voice, the reverb writes into the RAM
  that holds the samples, the drive fills a ring that the sample clock empties.
  Correct: frames in order, uploads intact, notes get on, ends are reported.

The full list of hazards, each with its line, is in `PROJECT.json`. Those that
name no property are things the code lets happen (`gpu.c:2336`, `sio.c:504`,
`mdec.c:717`); section 3 says what holds around them.

## 2. The modules

Sources are given relative to the repository (`src/cdrom.c` and so on). Each
family has a component module (state, `Init`, one action per operation,
`Next`, `Spec`, properties), possibly a module that composes it with a *driver*
(a guest program that follows a stated protocol), a module of proofs, and `MC*`
modules that give TLC its constants. Definitions keep the names of the C code.
A definition whose comment begins with "Mutant:" is a deliberate error, placed
before the definition it distorts: each property has one that breaks it.

### CD-ROM: `Cdrom`, `CdromDriver`

`Cdrom` models `cdrom.c` between the guest's registers and the scheduler. Its
variables are the fields of the `Cdrom` structure that control depends on
(`evq`, `irq_flag`, `irq_enable`, `has_pending_cmd`, the FIFOs, `drive` state,
`cur_lba`/`seek_lba`) together with the scheduler slot and the CDROM bit of
I_STAT. Actions are the register accesses and `SchedulerEvent`, which is
`cdrom_on_scheduler_event` as a whole: fire the front event, queue its successor,
rearm the slot. Bytes of answers are left out: an answer is its kind and length.
`CdromDriver` adds a program that issues a command, waits for its interrupt,
reads the answer, acknowledges, and continues; `Issued` says which commands it
issues, `Streaming` which of them also while sectors are still arriving, and
`Discs` whether there is a disc. Or the program follows no rule at
all (`job = "Any"`), so one run asks both what the controller keeps for every
program and what it promises a polite one.

### System clock: `SystemClock`

`SystemClock` models the quantum loop, `advance_system_cycles`, the scheduler,
`gpu_step` with `gpu_cycles_until_timing_boundary`, and the serial countdown.
The program may change the video mode at any instruction, to a shorter line as
well as to a longer one; sums and differences that are unsigned in C wrap at
`PHASE_SPACE`.

### DMA: `Dma`, `DmaList`

`Dma` models the register window with its 32-bit and partial stores, the
synchronous transfer and the interrupt line. `DmaList` is the walk of a GPU
list over RAM, with the end marker and the map of visited headers that stops a
list that loops, and the ordering-table clear, compared with a reference definition of the list.

### Root counters: `RootCounter`

One counter; `Units` selects which of the three (they differ in clock sources
and synchronisation). Ghost variables hold an ideal counter next to it.

### Memory card: `CardStore`, `MemoryCard`

`CardStore` is the abstract promise: a card whose file is replaced as a whole or
not at all. `MemoryCard` is the code: load, validation and format, sector
writes, and the flush through a temporary file (`open`, `write`, `fsync`,
`rename`), each of which may fail, with a crash or a loss of power between any
two. It implements `CardStore` under the mapping in `ImplementsStore`.

### Serial port: `SioPort`, `SioDriver`

`SioPort` models the byte exchange of pad (with its configuration mode) and
card, the acknowledge countdown, and selection. `SioDriver` is a program that
waits for each acknowledge, may give a frame up and begin another one; or one
without any discipline, which does at the port what it likes (time stands still
for it: no property about it is about time).

### GP0: `Gp0`, `Gp0Driver`

`Gp0` models the word decoder: packet lengths, the image-load and image-store
modes, polylines with their terminator, GP1 resets, the ready bits, and the
transfer cursor over a small VRAM. Drawing is abstract: a primitive may change
any cell. `Gp0Driver` is a program that looks at GPUSTAT before each packet, may
reset at any word, and remembers what its images should look like.

### CPU: `ICache`, `Isa`, `Cpu`, `CpuProgram`

`ICache` is the instruction cache over a small address space with a cached and
an uncached alias of RAM. `Isa` says what one instruction does to the registers,
the load in flight and LO. Instructions fall into classes that differ in
control (an addition that traps and one that does not, aligned and unaligned
loads, links, coprocessor moves, and so on): `mult` stands for multiplication
and division, `addiu` and the logical immediates for the ALU. `Cpu` is
`cpu_run_next_instruction`: sampling of the interrupt, the check for a misaligned
pc, HLE calls at the BIOS vectors, fetch through the cache, decode, faults, delay
slots, the busy counters of GTE and multiplier, COP0 and RFE, stores blocked by
isolation. The exception handler is part of the program and runs instruction by
instruction. `CpuProgram` is the abstract machine: the same program with no
interrupts, no handler and no cache. `Cpu` implements it under a mapping that
shows the program's own registers and memory where it would be resumed.

### MDEC: `Mdec`

The decoder with a program that writes a stream word by word and reads through
one of the two ports. A word of the stream can be taken as a command or as two
halves, whichever the decoder expects: `Command` and `Data` build it from either
side. A half is its run field or the end code; a block is the coefficients it
defines with the tables in force (`InForce`); an output word is the place in the
picture that it belongs to. `Macroblocks` decodes an input as a whole;
`decode_available` does it as the words arrive, with roll-back and compaction.

### SPU: `Spu`

Voices (address, envelope, loop flags), sound RAM with its two ways in, the
addresses the reverb writes to, and the CD audio ring, driven by a program, a
drive and the slices of the system clock. A word of sound RAM is the set of loop
flags it has as the first word of a block.

## 3. The runs

| Run | What it shows |
|---|---|
| `cdrom_commands` | Any program, any timing, partial acknowledges and masks: the queue and its scheduler slot agree, a busy drive has its event (unless a full queue discarded one), a deferred command has an acknowledge still to come, sectors wait for the acknowledge. A program that issues one command at a time and stops the stream first gets every answer, complete, with its interrupt, with and without a disc. |
| `clock_slices` | Whatever switches between NTSC and PAL the program makes, both ways and at any instruction: no slice crosses two beam edges or runs past an event, and each frame has one VBlank. Frames keep ending, unless switches leave the beam past its edge again and again (`gpu.c:2336`, below). |
| `dma_irq` | Each rising edge of the DMA interrupt reaches I_STAT exactly once. |
| `dma_list` | For every content of a small RAM the list walk ends and sends the list; a table cleared by OTC is a complete list. |
| `timer_counting` | The counter with its pending reset equals an ideal counter with period target + 1; one-shot means one interrupt per write of the mode. |
| `card_crash` | File whole, answered writes survive, the card stays readable, `CardStore` is implemented. |
| `sio_acks` | A sector write carries out exactly the frame that was sent, whatever was abandoned before; frames for a device that is there complete. |
| `gp0_packets` | The command buffer holds; a well-behaved program stays in step, its images arrive and are delivered pixel for pixel, the GPU becomes ready again. (That the buffer holds for *any* stream of words is proved.) |
| `cpu_pipeline` | Twenty programs, an interrupt between any two instructions: the program runs as `CpuProgram` says, no jump is lost, the multiplier is waited for, the cache differs from memory only where it was not emptied, every interrupt is served. |
| `mdec_pictures` | Incremental decoding equals decoding at once; a picture begun on a drained decoder is delivered word for word through either port; a program that reads until the port is empty sees it empty. |
| `spu_sound` | CD audio comes out in order at both limits of the ring, no sample writes over uploaded data outside the work area, the reverb's offsets are a ring, notes leave attack and decay, ends of samples are reported. |

One run ends in a violation, where the code disagrees with what a comment and a
test of the repository say of it:

| Run | Source | Disagreement |
|---|---|---|
| `cdrom_overflow` | `cdrom.c:234` | "full — shouldn't happen" does happen. With a disc in the drive, a program that issues only ReadN, each one after it acknowledged the INT3 of the last, starts one more sector stream with each; the fifth finds four SECTOR events queued and its own is discarded. |

Met while modelling, and kept here as remarks without a run:

* `cdrom.c:1060` "stat already in resp FIFO": for a GetID issued while sectors
  stream in, the sector that fires first has replaced the stat byte. The polite
  program of `cdrom_commands` stops the stream first.
* `sio.c:175`: deselecting leaves the acknowledge countdown running, so a frame
  for an absent card can see the acknowledge of the frame given up before it.
  `FramesComplete` shows that devices that are there do not suffer from it.
* `sio.c:589`: the card "in slot 1" (`sio.h:11`) goes on answering when the slot
  bit changes under a transfer. `WriteIntact` holds all the same.
* `gpu.c:809` "both 16-bit halves belong to this transfer": for an odd number of
  pixels the last half does not. `StoreDelivers` is about the cells that do.
* `timer.h:15` says the counter "resets to 0 on write"; the code stores the
  written value.
* `gpu.c:2336` computes `target - line_phase` unsigned, without the check that
  `gpu_cycles_until_timing_boundary` makes (`gpu.c:2305`). After a switch from
  PAL to NTSC (GP1 08h, or GP1 00h) with the beam past the NTSC edge the
  difference wraps, the line does not end, and neither does the loop of
  `main.c:951` that waits for the next VBlank, until `line_phase` has gone
  through its 64 bits or the program switches again. `clock_slices` makes this
  switch, with a phase of a few bits instead, so that the beam comes back:
  slices, VBlanks and events stay right throughout, and `FramesKeepComing` names
  the stall as its exception. That only a switch causes it (`BeamOvershoots`) and
  that no edge is crossed meanwhile (`BeamPastEdgeStalls`) is proved.
* `sio.c:504`: after 16 responses that were never read the device no longer sees
  the bytes of a frame, while `tx_count` goes on. `WriteIntact` is about frames
  without such a loss; a shifted one is stopped only by its checksum byte.
* `cpu.c:590`: the check for a misaligned pc still sees `delay_slot` of the
  instruction before. After a jump to a misaligned address EPC is the word
  before the target, with BD set, and each return that faults again moves it
  down by a word. The abstract program leaves open where such a jump resumes.
* `cpu.c:573`: the cycles of entering an interrupt are not taken from the busy
  counters, and two GTE commands in a row are not added up: `ResultsWaited` is
  about the multiplier only. The first instruction of the handler still sees the
  old value of a load in flight; an HLE call returns to the RA before such a load.
* `mdec.c:717`: every command word sets `output_depth`, also tables and stray
  padding, while words of the last picture wait: they are then staged in the
  wrong size, or stay in `dma_output` for ever. `PictureDelivered` and
  `DrainedIsSeen` are about pictures begun on a drained decoder. The output ring
  drops words silently when full, which takes more than 5461 colour macroblocks
  unread; DMA that reads before a whole macroblock is there gets zeros.
* `spu.c:199`: the decay compares with the sustain level of the *previous* note,
  0 for the first one. Voices that are keyed off are skipped, so their release
  never runs. From power-on (work area and all reverb addresses at 0) each
  sample writes through all of sound RAM: `UploadsKept` is about data below the
  work area that no reverb address points at. `reverb_relative_addr` is a ring
  only for work areas of at most half of sound RAM.
* `spu.c:634`: the data port does not mask the transfer address, the DMA path
  does; the program of the model stays inside sound RAM. ENDX can also be written
  by the program (not modelled).
* The scheduler kinds for the timers and DMA are never scheduled; DPCR is stored
  and never consulted; words written to GP0 while a store waits to be read are
  counted but not kept.

### Bounds, and why they are enough

| Model | Bounds | Why |
|---|---|---|
| CD-ROM | queue 2 (the real 4 in `cdrom_overflow`), parameter FIFO 1, sectors of 1 or 2 bytes, 2 disc addresses; the unruly program uses four commands, the polite one all | A full queue, deferral, and streams across the last address are all reached; control looks at a FIFO only as empty or not, and the invariants are proved for every size. |
| Clock | quantum 5, frames of a few lines, two modes scaled so that one has the shorter line, `PHASE_SPACE` 40 | Every order of event, HBlank, line end and serial edge within a quantum occurs, also two at the same cycle; a switch finds the beam before, on and past the new edge, and the phase wraps. |
| DMA | 2 channels, every DICR value the two can tell apart; RAM of 3 words, `MAX_COUNT` 2 | Two channels suffice for one completing while the other's flag is set. 3 words give lists that end, self-loops, longer loops and lists that run into a loop. |
| Counters | 4 counts, divider 2, slices longer and shorter than the period, `MAX_IRQS` 2 | Wrap, target 0, target at the top and several periods in one slice occur; two interrupts are enough to violate one-shot. |
| Card | one directory frame, one data sector, two contents | A torn image needs two sectors; validation needs one good and one bad directory. |
| Serial | bytes 0..3 (the undisciplined program sends two of them), sectors of 2 bytes, `RX_SIZE` 1, `TX_COUNTS` 14, `MAX_POS` 14, `MAX_ABORTS` 2 | A frame has every field at least once and `tx_count` wraps; two abandoned frames give every stale state. |
| GP0 | VRAM 2x2 with 13 packets | Rectangles of odd and even size, wrap at both borders, a packet of each shape (fixed, polyline, load, store, reset). |
| CPU | 1024 bytes of address space in two segments, 2 cache lines, 7 registers, 20 programs in an endless loop, one interrupt source | Each program is one pattern of delay slots, faults or rewritten code; the interrupt and the restart reach every instruction of it in every phase of the busy counters. Two lines are enough for two addresses to share one. The invariants are proved for every program. |
| MDEC | blocks of 3 coefficients, 2x2 pixels, commands of up to 18 words, ring of 34 words | All mono pictures of 6 halves, colour macroblocks with each block in 4 encodings and cut off at each half; the longest command fills the parameter buffer, one picture exceeds the ring. |
| SPU | one voice, 8 words of RAM, blocks of 2 words, 5 samples, levels up to 31, ring of 3 frames | Voices do not look at each other. All scripts of 3 uploads around a moving work area; every pair of attack and decay; all ways a note can be changed under way; a full and an empty ring. |

### Fairness, and why the code justifies it

* CD-ROM: weak fairness of `SchedulerEvent`: `advance_system_cycles` is called
  for ever with a positive number of cycles, so an armed event fires. The driver
  adds weak fairness of taking the response and acknowledging: its interrupt
  handler runs to the end.
* Clock: weak fairness of `Next`: the loops of `main` have no exit but quitting.
* DMA: weak fairness of the end of the quantum; in `DmaList`, of the walk, which
  `do_dma` does not leave early.
* Serial: weak fairness of time (as above) and of the driver's own next step.
* GP0: weak fairness of sending and reading words (a program that began a packet
  finishes it) and of the GPU's busy counter, which `gpu_step` drains.

* CPU: weak fairness of `Step`: the main loop calls `cpu_run_next_instruction`
  for ever. No fairness of the device.
* MDEC: weak fairness of the program's reading, data and status: a movie player
  that waits for its picture. SPU: weak fairness of slices, as for the clock.

Nothing is strongly fair, and no fairness is assumed of the actions by which a
program abandons work.

## 4. What is proved

Types are among what is proved (alone or as the first conjunct of `IInv`), and
so are some properties that the runs do not repeat: `LineHasCause`,
`LineFollowsDicr`, `NoTransferInFlight`, `SioOnTime`, `TransfersCounted`,
`OnlySwitchOvershoots`, `NoEdgePastTarget`.

The proofs are checked by TLAPS for every value of the constants that satisfies
the named assumptions (sizes positive, modes with positive lengths, and so on).
Each family is proved with an inductive invariant: it holds initially, one step
of the proof per action shows that the action keeps it, and it implies the
properties.

| Module | Theorems | Inductive invariant and why it is needed |
|---|---|---|
| `CdromProofs` | `TypeCorrect`, `NoLostWakeup`, `NoOrphanedCommand`, `NoSpuriousInterrupt`, `DriveNeverStuck` | Types, `ArmedForFront` and `Links`. `Links` ties the deferred command and I_STAT to the interrupt flag; an acknowledge touches all three, so they are preserved only together. `DriveNeverStuck` is proved on top of it, from the phases of the queued events. |
| | `SectorsHeldBack` | An action property, from the same invariant: a sector that fires while an interrupt is unacknowledged only re-queues itself. |
| | `AnswersComeWithInterrupts`, `CarefulLosesNothing` (for programs that are `Careful`) | `Conversation`: at most one event is queued in each phase of it, the first answer of the command under way, its second one, or the next sector, and until a first answer is raised it lies untouched in the response FIFO. So a queue of any size suffices. |
| `SystemClockProofs` | `TypeCorrect`, `VBlankOncePerFrame`, `EventsAreOnTime`, `SioIsOnTime`; `SlicesAreUniform`, `BeamOvershoots`, `BeamPastEdgeStalls` | `LoopInv`: the slice fits in what remains of the quantum and in the serial countdown. `EdgeInv`, for every sequence of mode switches: a slice begun before the edge overshoots it by less than a cycle (`Approaching`); once the edge is crossed the rest does not reach the next (`Crossed`); a slice begun past the edge is one cycle long and, with what is left wrapped around, reaches none (`Past`). |
| `DmaMdecProofs` | `LineIsCurrent`, `NoEdgeLost`, `TransfersComplete` | Types, line equals DICR bit 31, edges owed equal edges pending, no channel active: the count of edges is preserved only if the remembered line is current. |
| | `ListsAreSent` | `Seen`: the headers visited are the first nodes of the list, each once and each the link of the one before. `Sending`: what was sent is their packets and the first words of the last. `Linked`: a table that OTC linked is still in RAM and the walk is on it. The reference list is unique by induction on its length. |
| | `MdecInvariant`, `DecodesAsWhole` | `MdecInv`: what is decoded is what the halves fed so far decode to as a whole, the buffer is the rest of them, and with what is still to come it is no longer than the longest command, so nothing fed is lost. The step is the argument below. |
| | `DeliversPictures` | `PictureInv`, on top of it: the words read and staged are macroblocks in raster order up to some macroblock, and the ring holds the words after it; read by the CPU, words read and ring make up the picture. Staging moves that border by one. |
| `RootCounterProofs` | `CountsLikeIdeal`, `OneShotIsOnce` | `PendingOnTarget`: the reset is pending exactly while an undisturbed counter stands on its target, which makes the next tick of both counters agree. `SpentOnce`: once a one-shot counter has interrupted, its latch is set. |
| `MemoryCardProofs` | `FileIsWhole`, `AnswersAreKept`, `CardStaysReadable`, `StoreImplemented` | The order of the flush (the temporary file is whole and synchronised before it is renamed), and that memory is sound whenever it may be written; from these every step maps to a step of `CardStore` or to a stutter. |
| | `FramesArriveIntact`, `WritesArriveIntact` | `FrameInv`: while the card listens, its position is the number of bytes sent since its address, and `WriteTaken` says how much of the frame its registers hold at that position: the sector number, the running checksum, the first bytes of the sector. Every release of the selection takes the position back to 0, which is what a frame given up half way depends on. `DriverInv` adds that the driver never sends past the end of its frame. |
| `Gp0Proofs` | `TypeCorrect`, `BufferNeverOverrun`, `TransfersStayCounted` | Also that a polyline counts no words, so that its terminator returns to a packet boundary with an empty count, and that the buffer has room in every mode. |
| | `StaysInStep`, `LoadsArrive`, `StoresDeliver` | `Track`, `AtRest`, `Collecting`, `Drawing` relate the decoder's mode and count to the place in the packet the program is at. `Loading`, `Storing`: the cursor stands at the pixel that the words so far lead to, and the cells before it hold (or have returned) their pixels; a rectangle that wraps onto itself keeps the last pixel written to a cell. |
| `CpuProofs` | `TypeCorrect`, `NoJumpIsLost`, `ProductsWaitedFor`, `CacheStaysFresh` | Types and `Pipeline`: without a branch in flight pc and next pc are in sequence, and a misaligned pc with a branch in flight can only follow a branch in a delay slot. That is what makes every EPC a place from which the jump is still taken. The multiplier's counter needs no more than itself; the cache needs that lines are filled from memory as it is and emptied whole. |
| | `ProgramsRunAsWritten`: `Cpu` implements `CpuProgram` under `[]Contract` | `OnTrack`: the machine is at an instruction of the program, in a delay slot whose branch it would repeat if interrupted there, or in the handler with EPC where the program will resume; in each case the abstract machine stands at that place with the same registers, memory and units. A slot that faults maps back to the branch before it, which therefore has to be repeatable. |
| `SpuProofs` | `CdAudioInOrder`, `UploadsSurvive`, `ReverbIsARing` | `RingInv`: the tail is the head plus the count, modulo the ring, and the frames between them are the queue. `MemoryInv`: the write address is inside the work area, and the words owed to the program are below it and off every reverb address; a store to a reverb register gives up the word it points at. |

**Assumed of the guest program.** Some results are about programs that keep to
something, as their runs' programs do:

* `AnswersComeWithInterrupts`, `CarefulLosesNothing`: `Careful`, the polite
  program stops a stream of sectors (Pause, Init) before it issues anything else.
* The three theorems about `Gp0Driver`: `PacketsAssumption`, the program sends
  whole packets (`WholePacket`), each of any kind and size.
* `ProgramsRunAsWritten`: `Contract`. The program keeps to its own registers,
  does not jump in a delay slot, does not jump through the register that the
  jump links, and runs code it has rewritten only after emptying the cache. The
  handler leaves the program's registers, memory and units alone, does not
  fault, keeps interrupts disabled and goes back to EPC. The twenty programs of
  `cpu_pipeline` and their handler keep to it: adding `INVARIANT Contract` to
  `MCCpu_pipeline.cfg` confirms it.
* `DriverAssumption`: a frame of `SioDriver` has at least one byte.
* `MdecAssumption`: sizes are positive, the parameter buffer holds the longest
  command, and no command for a picture counts more words than its 16 bits can.
  Apart from that the program of `Mdec` writes any words at all. `DeliversPictures`
  is about pictures that stay `clean`: begun drained, and nothing dropped by a
  full ring.

**Induction.** The library's induction theorems cannot be used here (they take an
operator as a parameter). `SetInduction`, proved in `DmaMdecProofs` and
`MemoryCardProofs` from the well-foundedness of the natural numbers, takes a set
instead; with it the facts about recursive functions that the proofs need (the
end of a list, the running checksum) are proved like any others.

**Decoding piece by piece.** A recursive function of `Mdec` looks ahead in the
buffer, and that it exists is itself to be proved: `SolutionExists` gives a
solution of any recursion that descends along a measure. Then, by induction from
the end of the buffer towards its start: a block or macroblock found in a buffer
that will grow is found unchanged in the grown one, since it does not look past
its end; a buffer from which whole macroblocks were removed decodes like its
original from that place on, the recursion being the same one, shifted. So
decoding what was left over together with the new word (`DecodeMore`) continues
the macroblocks found before, and roll-back loses only what is found again.

`DmaMdecProofs` holds the proofs of two components, the DMA controller and the
decoder at the other end of its channels 0 and 1; they share these lemmas and
the arithmetic of quotients and remainders.

**Only model-checked.** Everything under fairness (`CommandsComplete`,
`FramesKeepComing`, `EdgesDelivered`, `WalkEnds`, `FramesComplete`, `IdleAgain`,
`IrqServed`, `DrainedIsSeen`, `NoteSettles`, `EndReported`), as liveness and
ENABLED are outside the prover. Every safety invariant that a passing run checks
is the statement of a theorem.

## 5. What is not modelled, and why

* Arithmetic without control state: GTE, rasteriser, IDCT, quantisation, colour
  conversion, ADPCM, volumes and sweeps, noise, mixing, the reverb's filters.
  Nothing here is about the value of a pixel or a sample that is computed.
* Pure input and output: renderer, host input, logging, disc image, BIOS and EXE
  loading. Models take from them only what control depends on (for instance
  whether a sector can be read).
* Address decoding and access widths, which are tables without state.
* CD-ROM: contents of answers, the value of the seek delay, audio.
* CPU: wait states of the bus, the single results of the ALU, several interrupt
  sources at once, DMA that writes over cached code.
* MDEC: the enable bits of the control port, which only show in the status.
* SPU: register reads other than ENDX, volumes, and stores to ENDX.
* GP0: drawing registers, texture and CLUT cache; GP1 display registers.
* Clock: frame pacing against the host's clock, the pad script.

## 6. Plan

Done first, because everything else depends on them: the clock, the CD-ROM (the
only asynchronous device with a protocol), DMA, the counters, the serial port,
the card and the command stream of the GPU; then the CPU with its cache, the
MDEC and the SPU. Next, in this order:

1. CD-ROM refinements: the ring buffer of the event queue implements the
   sequence used here; XA filter and mute decisions, composed with the CD audio
   ring of `Spu`; the seek delay as a pure function against its bounds.
2. GPU registers: GP1 display state, CLUT cache against VRAM writes (`gpu.c:302`:
   a CLUT cached before a fill that wraps around VRAM, or before drawing over it,
   keeps being used).
3. A composition of the interrupt controller with CPU and several devices, and
   of block DMA with MDEC and SPU.
4. GTE saturation and flags as pure operators, checked against a reference.
5. Frame pacing against the host's clock.
