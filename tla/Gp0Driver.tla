----------------------------- MODULE Gp0Driver -----------------------------
(***************************************************************************)
(* A program that uses the GPU as its manual asks: it waits for bit 26 of  *)
(* GPUSTAT before it starts a packet, writes the packet word by word, reads*)
(* GPUREAD while bit 27 is set, and may reset the command buffer at any    *)
(* moment, in the middle of a packet or of a transfer too.                 *)
(***************************************************************************)
EXTENDS Gp0, SequencesExt

CONSTANT Packets

\* A polyline's terminator counts where its first word of a segment is due.
PolylineEnds(p, k) == Terminator(p[k]) /\ (Op(p[1]) \in 88 .. 95 => k % 2 = 1)

\* The data words of an image load.
DataWords(p) ==
    IF p[3][2] = 0 \/ p[3][1] = 0 THEN 0 ELSE WordsFor(p[3][2] * p[3][1])

\* What a program means by one packet: an image load with its data, a polyline
\* up to its first terminator, a single word the decoder does not know, or the
\* words of its opcode.
WholePacket(p) ==
    LET op == Op(p[1]) IN
    /\ p # << >>
    /\ op = 160 => Len(p) >= 3 /\ Len(p) = 3 + DataWords(p)
    /\ op \in Polylines =>
           Len(p) > 2 /\ \A k \in 3 .. Len(p) : PolylineEnds(p, k) <=> k = Len(p)
    /\ op \notin {160} \cup Polylines =>
           Len(p) = IF CommandLength(op) = 0 THEN 1 ELSE CommandLength(op)

ASSUME PacketsAssumption == \A p \in Packets : p \in Seq(Words) /\ WholePacket(p)

VARIABLES
    packet,     \* the last packet begun and not given up by a reset
    todo,       \* its words still to be written
    before,     \* VRAM when it was begun
    got         \* the cells GPUREAD returned since then

driver == << packet, todo, before, got >>

DriverInit ==
    /\ Init
    /\ packet = << >>
    /\ todo = << >>
    /\ before = vram
    /\ got = << >>

Begin(p) ==
    /\ todo = << >>
    /\ Idle
    /\ packet' = p
    /\ todo' = p
    /\ before' = vram
    /\ got' = << >>
    /\ UNCHANGED vars

Send ==
    /\ todo # << >>
    /\ gpu_gp0(Head(todo))
    /\ todo' = Tail(todo)
    /\ UNCHANGED << packet, before, got >>

Read ==
    /\ ReadyVramToCpu
    /\ gpu_read
    /\ got' = got \o ReadCells
    /\ UNCHANGED << packet, todo, before >>

Reset ==
    /\ gp1_reset_command_buffer
    /\ packet' = << >>
    /\ todo' = << >>
    /\ got' = << >>
    /\ UNCHANGED before

Drain == DrainBusy /\ UNCHANGED driver

DriverNext ==
    \/ \E p \in Packets : Begin(p)
    \/ Send
    \/ Read
    \/ Reset
    \/ Drain

\* The program keeps writing what it began and reading what it asked for, and
\* the main loop keeps calling gpu_step, which uses up the busy cycles.
DriverSpec ==
    /\ DriverInit
    /\ [][DriverNext]_<< vars, driver >>
    /\ WF_<< vars, driver >>(Send)
    /\ WF_<< vars, driver >>(Read)
    /\ WF_<< vars, driver >>(Drain)

------------------------------------------------------------------------------
(* Properties *)

\* The pixel cells of a transfer packet in the order they are sent, cells that
\* wrap around VRAM included.
Area(p) ==
    LET x == p[2][2]  y == p[2][1]  w == p[3][2]  h == p[3][1]
    IN  [i \in 1 .. w * h |-> << (x + ((i - 1) % w)) % VRAM_W,
                                 (y + ((i - 1) \div w)) % VRAM_H >>]

Sends(op) == packet # << >> /\ Op(packet[1]) = op

\* VRAM with a load packet's data in place, a later pixel covering an earlier
\* one in the same cell.
Loaded(p) ==
    LET area == Area(p)
        pixel(i) == p[4 + ((i - 1) \div 2)][IF i % 2 = 1 THEN 2 ELSE 1]
        last(c) == CHOOSE i \in DOMAIN area :
                      area[i] = c /\ \A j \in DOMAIN area : area[j] = c => j <= i
    IN  [c \in Cells |-> IF c \in ToSet(area) THEN pixel(last(c)) ELSE before[c]]

\* Between packets the decoder stands at a packet boundary, whatever packets
\* came before, of any length, kind and size, and wherever a reset fell.
InStep ==
    todo = << >> => /\ gp0_words_remaining = 0
                    /\ gp0_mode \in {"COMMAND", "IMAGE_STORE"}

\* Once an image load has been written, VRAM is what it was with exactly the
\* load's rectangle replaced by the load's data.
LoadArrives == Sends(160) /\ todo = << >> => vram = Loaded(packet)

\* Reading while bit 27 is set returns the cells of the rectangle in order, all
\* of them once the bit is clear again.
StoreDelivers ==
    Sends(192) /\ todo = << >> =>
        LET area == Area(packet)
            n == IF Len(got) <= Len(area) THEN Len(got) ELSE Len(area)
        IN  /\ SubSeq(got, 1, n) = SubSeq(area, 1, n)
            /\ ~ReadyVramToCpu => n = Len(area)

\* A program waiting for bit 26 is never left waiting: every packet is taken
\* to its end, every store drains, and the busy cycles run out.
IdleAgain == []<>Idle
==============================================================================
