--------------------------------- MODULE Spu ---------------------------------
(* The sound unit of spu.c: voices with their envelopes, sound RAM with its  *)
(* transfer port and DMA, the reverb work area and the ring of CD audio that *)
(* the drive fills and each sample empties, driven by a program and by the   *)
(* slices of the system clock.  A 16-bit word of sound RAM is the set of     *)
(* loop flags it carries as the first word of an ADPCM block.  Sample values *)
(* are left out (ADPCM filter, volumes, sweeps, noise, pitch modulation,     *)
(* mixing, FIR): what they decide is when words are read and written.        *)
EXTENDS Integers, Sequences, FiniteSets

CONSTANTS Voices,
          RAM,                   \* words of sound RAM (SOUND_RAM_SIZE / 2)
          BLOCK,                 \* words of an ADPCM block (8)
          SAMPLES,               \* samples of a block (28)
          UNITY,                 \* pitch of one sample per tick (0x1000)
          TOP,                   \* highest envelope level (0x7FFF)
          SATURATE,              \* shift that updates the level on every tick (11)
          ENVELOPE_COUNTER_MAX,
          FRAMES,                \* SPU_CD_AUDIO_BUFFER_FRAMES
          SAMPLE_RATE, CPU_HZ,   \* SPU_SAMPLE_RATE, PS1_CPU_HZ
          Slices,                \* cycles of a slice of the system clock
          Reflect, ApfLeft, ApfRight, \* reverb registers whose address is written
          Reverb,                \* words the reverb may compute
          Sessions               \* what a program stores, and the CD audio of its disc

Min2(a, b) == IF a < b THEN a ELSE b

Address == 0 .. RAM - 1

Flags == {"start", "repeat", "end"}

MRegs == Reflect \cup ApfLeft \cup ApfRight

\* The ADSR registers of a voice: shift and step of each phase, and its curve.
Ramp == [shift : 0 .. 31, step : 0 .. 3, expo : BOOLEAN, down : BOOLEAN]

\* What the registers of a voice may hold.
RegsOK(q) ==
    \A f \in DOMAIN q :
        \/ f \in {"start", "repeat"} /\ q[f] \in Address
        \/ f = "rate" /\ q[f] \in Nat
        \/ f = "level" /\ q[f] \in 0 .. 15
        \/ f \in {"attack", "decay", "sustain", "release"} /\ q[f] \in Ramp

Silence == 0
None == {"none"}

\* What a program does with the sound unit, in order.
OpOK(o) ==
    \/ o.op \in {"address", "base"} /\ o.a \in Address
    \/ o.op = "target" /\ o.r \in MRegs /\ o.a \in Address
    \/ o.op = "data" /\ o.w \subseteq Flags
    \/ o.op = "dma" /\ o.lo \subseteq Flags /\ o.hi \subseteq Flags
    \/ o.op = "read"
    \/ o.op \in {"on", "off"} /\ o.mask \subseteq Voices
    \/ o.op = "voice" /\ o.v \in Voices /\ RegsOK(o.regs)

Ops == UNION { {s.script[k] : k \in DOMAIN s.script} : s \in Sessions }

\* What the ring and sound RAM may hold.
Frame == {Silence} \cup UNION {s.frames : s \in Sessions}
Word == (SUBSET Flags) \cup Reverb

ASSUME SpuAssumption ==
    /\ RAM \in Nat \ {0} /\ BLOCK \in Nat \ {0} /\ UNITY \in Nat \ {0} /\ FRAMES \in Nat \ {0}
    /\ SAMPLES \in Nat /\ SAMPLES > 4                  \* at most one block per tick
    /\ TOP \in Nat \ {0} /\ SATURATE \in Nat
    /\ ENVELOPE_COUNTER_MAX \in Nat /\ ENVELOPE_COUNTER_MAX >= 4 * 2 ^ SATURATE
    /\ SAMPLE_RATE \in Nat /\ CPU_HZ \in Nat \ {0}
    /\ \A c \in Slices : c \in Nat /\ c * SAMPLE_RATE < CPU_HZ     \* at most one tick per slice
    /\ \A o \in Ops : OpOK(o)
    /\ \A s \in Sessions : s.script \in Seq(Ops)

VARIABLES
    voices,
    endx,                    \* the voices whose bit of ENDX reads as 1
    sound_ram, sound_ram_start_address,
    reverb_start_address, reverb_write_address, reverb_left,
    m,                       \* the written addresses: mlsame, mrapf1, ...
    cd_audio, cd_audio_head, cd_audio_tail, cd_audio_count,
    sample_cycle_accum,
    todo, disc,              \* what the program still does, the frames of its disc
    queue,                   \* history: the CD audio that is owed, oldest first
    mine                     \* history: uploaded words no reverb address points at

ring == <<cd_audio, cd_audio_head, cd_audio_tail, cd_audio_count, queue>>
reverb == <<reverb_start_address, reverb_write_address, reverb_left, m>>
memory == <<sound_ram, sound_ram_start_address, mine>>
vars == <<voices, endx, memory, reverb, ring, sample_cycle_accum, todo, disc>>

-----------------------------------------------------------------------------
(* The envelope.                                                             *)

\* adsr_update: one step of the level, clamped to 0 .. TOP.
AdsrUpdate(level, ramp) ==
    LET s    == (IF ramp.down THEN -(8 - ramp.step) ELSE 7 - ramp.step)
                    * 2 ^ (SATURATE - Min2(ramp.shift, SATURATE))
        next == level + IF ramp.down /\ ramp.expo THEN (s * level) \div (TOP + 1) ELSE s
    IN  IF next < 0 THEN 0 ELSE Min2(next, TOP)

\* Mutant: the decay ends only below the sustain level, not at it.
AdsrCheckStrict(phase, level, sustain_level) ==
    LET top == IF phase = "attack" /\ level = TOP THEN "decay" ELSE phase
    IN  IF top = "decay" /\ level < sustain_level THEN "sustain" ELSE top

\* adsr_check_transition.
AdsrCheck(phase, level, sustain_level) ==
    LET top == IF phase = "attack" /\ level = TOP THEN "decay" ELSE phase
    IN  IF top = "decay" /\ level <= sustain_level THEN "sustain" ELSE top

\* adsr_clock: the level moves when the counter has run out.
AdsrClock(v, ramp) ==
    LET whole   == ENVELOPE_COUNTER_MAX \div 2 ^ (SATURATE - Min2(ramp.shift, SATURATE))
        slow    == ~ramp.down /\ ramp.expo /\ 4 * v.level > 3 * (TOP + 1)
        counter == v.counter - IF slow THEN whole \div 4 ELSE whole
        level   == AdsrUpdate(v.level, ramp)
    IN  IF counter > 0 THEN [v EXCEPT !.counter = counter]
        ELSE [v EXCEPT !.counter = ENVELOPE_COUNTER_MAX, !.level = level,
                       !.phase = AdsrCheck(@, level, v.sustain_level)]

-----------------------------------------------------------------------------
(* A voice.                                                                  *)

\* voice_init.
NewVoice ==
    [keyed_on |-> FALSE, phase |-> "release", level |-> 0, counter |-> 0, sustain_level |-> 0,
     reached_loop_end |-> FALSE, current_address |-> 0, pitch_counter |-> 0,
     current_buffer_idx |-> 0,
     regs |-> [start |-> 0, repeat |-> 0, rate |-> 0, level |-> 0,
               attack  |-> [shift |-> 0, step |-> 0, expo |-> FALSE, down |-> FALSE],
               decay   |-> [shift |-> 0, step |-> 0, expo |-> TRUE, down |-> TRUE],
               sustain |-> [shift |-> 0, step |-> 0, expo |-> FALSE, down |-> FALSE],
               release |-> [shift |-> 0, step |-> 0, expo |-> TRUE, down |-> TRUE]]]

\* Mutant: only a sample that stops reports its end, one that repeats does not.
DecodeNextBlockSilently(v, ram) ==
    LET flags  == ram[v.current_address]
        marked == IF "start" \in flags THEN [v EXCEPT !.regs.repeat = v.current_address] ELSE v
    IN  IF "end" \notin flags THEN [marked EXCEPT !.current_address = (@ + BLOCK) % RAM]
        ELSE IF "repeat" \in flags THEN [marked EXCEPT !.current_address = marked.regs.repeat]
        ELSE [marked EXCEPT !.reached_loop_end = TRUE, !.phase = "release",
                            !.current_address = marked.regs.repeat]

\* voice_decode_next_block: the loop flags of the block steer the voice.
DecodeNextBlock(v, ram) ==
    LET flags  == ram[v.current_address]
        marked == IF "start" \in flags THEN [v EXCEPT !.regs.repeat = v.current_address] ELSE v
    IN  IF "end" \notin flags THEN [marked EXCEPT !.current_address = (@ + BLOCK) % RAM]
        ELSE [marked EXCEPT !.reached_loop_end = TRUE,
                            !.current_address = marked.regs.repeat,
                            !.phase = IF "repeat" \in flags THEN @ ELSE "release"]

\* voice_key_on: the envelope and the sample begin again, the first block is decoded.
VoiceKeyOn(v, ram) ==
    DecodeNextBlock([v EXCEPT !.keyed_on = TRUE, !.phase = "attack", !.level = 0,
                              !.counter = ENVELOPE_COUNTER_MAX, !.current_address = v.regs.start,
                              !.pitch_counter = 0, !.current_buffer_idx = 0,
                              !.reached_loop_end = FALSE], ram)

\* voice_key_off.
VoiceKeyOff(v) == [v EXCEPT !.keyed_on = FALSE, !.phase = "release"]

\* The envelope's part of voice_clock.  The sustain level is set only here, in
\* the sustain phase: a decay ends at the level of the previous note.
ClockEnvelope(v) ==
    LET w == IF v.phase = "sustain"
             THEN [v EXCEPT !.sustain_level = ((v.regs.level + 1) * (TOP + 1)) \div 16] ELSE v
    IN  AdsrClock(w, v.regs[v.phase])

\* voice_clock: then the pitch counter moves through the block, and into the next.
VoiceClock(v, ram) ==
    LET w     == ClockEnvelope(v)
        pitch == v.pitch_counter + Min2(v.regs.rate, 4 * UNITY)
        idx   == v.current_buffer_idx + pitch \div UNITY
        moved == [w EXCEPT !.pitch_counter = pitch % UNITY, !.current_buffer_idx = idx % SAMPLES]
    IN  IF idx < SAMPLES THEN moved ELSE DecodeNextBlock(moved, ram)

-----------------------------------------------------------------------------
(* Reverb.                                                                   *)

\* Mutant: an offset past the end of sound RAM comes back at its beginning.
RelativeAddrUnwrapped(offset) == (offset + reverb_write_address) % RAM

\* reverb_relative_addr, where the filters read at an offset.
RelativeAddr(offset) ==
    LET addr == (offset + reverb_write_address) % RAM
    IN  IF addr < reverb_start_address THEN reverb_start_address + addr ELSE addr

\* Mutant: the reflections move with the write address but do not wrap with it.
TargetsUnwrapped ==
    {reverb_write_address}
    \cup {(reverb_write_address + m[r]) % RAM :
              r \in Reflect \cup IF reverb_left THEN ApfLeft ELSE ApfRight}

\* Where a sample is written: the input, four reflections, the filters of its side.
Targets ==
    {reverb_write_address}
    \cup {m[r] : r \in Reflect \cup IF reverb_left THEN ApfLeft ELSE ApfRight}

\* The write address runs through the work area.
NextReverbWrite ==
    IF reverb_write_address + 1 = RAM THEN reverb_start_address ELSE reverb_write_address + 1

\* The uploaded words that no reverb address points at any more are forgotten.
Clear(words, start, targets) ==
    [a \in Address |-> IF a >= start \/ \E r \in MRegs : targets[r] = a THEN None ELSE words[a]]

-----------------------------------------------------------------------------
(* What the program stores.                                                  *)

\* The next thing the program does is o.
Does(o) == todo # <<>> /\ o = Head(todo) /\ todo' = Tail(todo)

\* 0x1A6.
StoreTransferAddress(o) ==
    /\ Does(o) /\ o.op = "address"
    /\ sound_ram_start_address' = o.a
    /\ UNCHANGED <<voices, endx, sound_ram, mine, reverb, ring, sample_cycle_accum, disc>>

\* 0x1A8: the address is not masked; the program stays inside sound RAM.
StoreData(o) ==
    /\ Does(o) /\ o.op = "data"
    /\ sound_ram_start_address < RAM
    /\ sound_ram' = [sound_ram EXCEPT ![sound_ram_start_address] = o.w]
    /\ mine' = Clear([mine EXCEPT ![sound_ram_start_address] = o.w], reverb_start_address, m)
    /\ sound_ram_start_address' = sound_ram_start_address + 1
    /\ UNCHANGED <<voices, endx, reverb, ring, sample_cycle_accum, disc>>

\* spu_dma_write: two words of a DMA transfer, wrapping around sound RAM.
DmaWrite(o) ==
    LET a == sound_ram_start_address % RAM
        b == (a + 1) % RAM
    IN  /\ Does(o) /\ o.op = "dma"
        /\ sound_ram' = [sound_ram EXCEPT ![a] = o.lo, ![b] = o.hi]
        /\ mine' = Clear([mine EXCEPT ![a] = o.lo, ![b] = o.hi], reverb_start_address, m)
        /\ sound_ram_start_address' = (a + 2) % RAM
        /\ UNCHANGED <<voices, endx, reverb, ring, sample_cycle_accum, disc>>

\* spu_dma_read.
DmaRead(o) ==
    /\ Does(o) /\ o.op = "read"
    /\ sound_ram_start_address' = (sound_ram_start_address + 2) % RAM
    /\ UNCHANGED <<voices, endx, sound_ram, mine, reverb, ring, sample_cycle_accum, disc>>

\* 0x1A2: the work area reaches from here to the end of sound RAM.
StoreReverbBase(o) ==
    /\ Does(o) /\ o.op = "base"
    /\ reverb_start_address' = o.a
    /\ reverb_write_address' = o.a
    /\ mine' = Clear(mine, o.a, m)
    /\ UNCHANGED <<voices, endx, sound_ram, sound_ram_start_address, reverb_left, m,
                   ring, sample_cycle_accum, disc>>

\* 0x1F4 to 0x1FA (mlapf1 ...), likewise 0x1D4, 0x1D6, 0x1E4, 0x1E6 (mlsame ...):
\* the addresses the reverb writes to, absolute in sound RAM.
StoreReverbAddress(o) ==
    /\ Does(o) /\ o.op = "target"
    /\ m' = [m EXCEPT ![o.r] = o.a]
    /\ mine' = Clear(mine, reverb_start_address, m')
    /\ UNCHANGED <<voices, endx, sound_ram, sound_ram_start_address, reverb_start_address,
                   reverb_write_address, reverb_left, ring, sample_cycle_accum, disc>>

\* voice_store: a register of a voice, which is one field or, for ADSR, several.
VoiceStore(o) ==
    /\ Does(o) /\ o.op = "voice"
    /\ voices' = [voices EXCEPT ![o.v].regs =
                     [f \in DOMAIN @ |-> IF f \in DOMAIN o.regs THEN o.regs[f] ELSE @[f]]]
    /\ UNCHANGED <<endx, memory, reverb, ring, sample_cycle_accum, disc>>

\* 0x188, 0x18A: every voice of the mask begins.
KeyOn(o) ==
    /\ Does(o) /\ o.op = "on"
    /\ voices' = [v \in Voices |-> IF v \in o.mask THEN VoiceKeyOn(voices[v], sound_ram) ELSE voices[v]]
    /\ UNCHANGED <<endx, memory, reverb, ring, sample_cycle_accum, disc>>

\* 0x18C, 0x18E.
KeyOff(o) ==
    /\ Does(o) /\ o.op = "off"
    /\ voices' = [v \in Voices |-> IF v \in o.mask THEN VoiceKeyOff(voices[v]) ELSE voices[v]]
    /\ UNCHANGED <<endx, memory, reverb, ring, sample_cycle_accum, disc>>

-----------------------------------------------------------------------------
(* CD audio.                                                                 *)

\* Mutant: at its limit the ring overwrites the oldest frame without moving past it.
PushCdAudioFrameInPlace(f) ==
    /\ cd_audio' = [cd_audio EXCEPT ![cd_audio_tail] = f]
    /\ cd_audio_tail' = (cd_audio_tail + 1) % FRAMES
    /\ cd_audio_head' = cd_audio_head
    /\ cd_audio_count' = Min2(cd_audio_count + 1, FRAMES)
    /\ queue' = Append(IF Len(queue) >= FRAMES THEN Tail(queue) ELSE queue, f)
    /\ UNCHANGED <<voices, endx, memory, reverb, sample_cycle_accum, todo, disc>>

\* spu_push_cd_audio_frame: a full ring gives up its oldest frame.
PushCdAudioFrame(f) ==
    /\ cd_audio' = [cd_audio EXCEPT ![cd_audio_tail] = f]
    /\ cd_audio_tail' = (cd_audio_tail + 1) % FRAMES
    /\ IF cd_audio_count >= FRAMES
       THEN /\ cd_audio_head' = (cd_audio_head + 1) % FRAMES
            /\ cd_audio_count' = cd_audio_count
       ELSE /\ cd_audio_head' = cd_audio_head
            /\ cd_audio_count' = cd_audio_count + 1
    /\ queue' = Append(IF Len(queue) >= FRAMES THEN Tail(queue) ELSE queue, f)
    /\ UNCHANGED <<voices, endx, memory, reverb, sample_cycle_accum, todo, disc>>

\* spu_clear_cd_audio.
ClearCdAudio ==
    /\ cd_audio_head' = 0
    /\ cd_audio_tail' = 0
    /\ cd_audio_count' = 0
    /\ queue' = <<>>
    /\ UNCHANGED <<voices, endx, memory, reverb, cd_audio, sample_cycle_accum, todo, disc>>

\* spu_pop_cd_audio_frame.
PopCdAudioFrame ==
    /\ IF cd_audio_count = 0 THEN UNCHANGED <<cd_audio_head, cd_audio_count>>
       ELSE /\ cd_audio_head' = (cd_audio_head + 1) % FRAMES
            /\ cd_audio_count' = cd_audio_count - 1
    /\ queue' = IF queue = <<>> THEN queue ELSE Tail(queue)
    /\ UNCHANGED <<cd_audio, cd_audio_tail>>

\* The CD audio that a sample taken now carries.
NextFrame == IF cd_audio_count = 0 THEN Silence ELSE cd_audio[cd_audio_head]

-----------------------------------------------------------------------------
(* Time.                                                                     *)

\* spu_clock: one sample.  ENDX is read off before the voices move.
Clock ==
    /\ endx' = {v \in Voices : voices[v].reached_loop_end}
    /\ voices' = [v \in Voices |->
                     IF voices[v].keyed_on THEN VoiceClock(voices[v], sound_ram) ELSE voices[v]]
    /\ \E w \in Reverb :
           sound_ram' = [a \in Address |-> IF a \in Targets THEN w ELSE sound_ram[a]]
    /\ reverb_write_address' = NextReverbWrite
    /\ reverb_left' = ~reverb_left
    /\ PopCdAudioFrame
    /\ UNCHANGED <<sound_ram_start_address, mine, reverb_start_address, m, todo, disc>>

\* spu_step: a slice of the system clock; a sample when the cycles for it are there.
Step(c) ==
    LET accum == sample_cycle_accum + c * SAMPLE_RATE
    IN  IF accum >= CPU_HZ
        THEN sample_cycle_accum' = accum - CPU_HZ /\ Clock
        ELSE /\ sample_cycle_accum' = accum
             /\ UNCHANGED <<voices, endx, memory, reverb, ring, todo, disc>>

\* spu_init, and the program that will run.
Init ==
    /\ voices = [v \in Voices |-> NewVoice]
    /\ endx = {}
    /\ sound_ram = [a \in Address |-> {}]
    /\ sound_ram_start_address = 0
    /\ reverb_start_address = 0 /\ reverb_write_address = 0 /\ reverb_left = TRUE
    /\ m = [r \in MRegs |-> 0]
    /\ cd_audio = [i \in 0 .. FRAMES - 1 |-> Silence]
    /\ cd_audio_head = 0 /\ cd_audio_tail = 0 /\ cd_audio_count = 0
    /\ sample_cycle_accum = 0
    /\ \E s \in Sessions : todo = s.script /\ disc = s.frames
    /\ queue = <<>>
    /\ mine = [a \in Address |-> None]

Program(o) ==
    \/ StoreTransferAddress(o) \/ StoreData(o) \/ DmaWrite(o) \/ DmaRead(o)
    \/ StoreReverbBase(o) \/ StoreReverbAddress(o)
    \/ VoiceStore(o) \/ KeyOn(o) \/ KeyOff(o)

\* The drive plays, or stops.
Drive == (\E f \in disc : PushCdAudioFrame(f)) \/ (disc # {} /\ ClearCdAudio)

Next ==
    \/ todo # <<>> /\ Program(Head(todo))
    \/ Drive
    \/ \E c \in Slices : Step(c)

\* The main loop goes on handing out slices.
Spec == Init /\ [][Next]_vars /\ WF_vars(\E c \in Slices : Step(c))

-----------------------------------------------------------------------------
\* The ring holds the newest frames that were neither played nor cleared, oldest
\* first, and the next sample plays the first of them (spu_push_cd_audio_frame,
\* spu_pop_cd_audio_frame, spu_clear_cd_audio).
RingIsFifo ==
    /\ Len(queue) = cd_audio_count
    /\ \A i \in 1 .. Len(queue) : queue[i] = cd_audio[(cd_audio_head + i - 1) % FRAMES]
    /\ NextFrame = IF queue = <<>> THEN Silence ELSE Head(queue)

\* Sound data outside the work area, at which no reverb address points, is what
\* the program uploaded: no sample writes over it (spu_clock and the reflection
\* and all-pass stores; spu_store, spu_dma_write).
UploadsKept == \A a \in Address : mine[a] # None => sound_ram[a] = mine[a]

\* The input is written inside the work area; if that is at most half of sound
\* RAM, the offsets into it are a ring that begins at the write address
\* (reverb_relative_addr, spu_clock).
ReverbRing ==
    LET area  == RAM - reverb_start_address
        begin == reverb_write_address - reverb_start_address
    IN  /\ begin \in 0 .. area - 1
        /\ 2 * reverb_start_address >= RAM =>
               \A offset \in 0 .. area - 1 :
                   RelativeAddr(offset) = reverb_start_address + ((begin + offset) % area)

\* A note gets through attack and decay, whatever the ADSR registers hold, unless
\* it ends or is keyed off before (adsr_clock, adsr_check_transition).
NoteSettles ==
    \A v \in Voices :
        voices[v].keyed_on ~> voices[v].phase \in {"sustain", "release"}

\* Voice v is playing a sample that has ended or comes to a block with the end flag.
Ending(v) ==
    /\ voices[v].keyed_on /\ voices[v].regs.rate > 0
    /\ \/ voices[v].reached_loop_end
       \/ \E k \in 0 .. RAM : "end" \in sound_ram[(voices[v].current_address + k * BLOCK) % RAM]

\* The end of a sample is reported in ENDX, unless the voice is keyed off or
\* stopped, or the end is taken from it (voice_decode_next_block, spu_clock).
EndReported == \A v \in Voices : Ending(v) ~> v \in endx \/ ~Ending(v)
=============================================================================
