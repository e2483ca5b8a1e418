-------------------------------- MODULE Gp0 --------------------------------
(***************************************************************************)
(* The GPU's command port: gpu_gp0, the image transfers it starts, the     *)
(* read port that drains them (gpu_read), the ready bits of gpu_status and *)
(* the two resets of gpu_gp1.                                              *)
(*                                                                         *)
(* GP0 is one stream of 32-bit words; where a packet ends depends on every *)
(* word before it.  The length of a packet comes from its first word, an   *)
(* image load adds as many data words as its size word asks for, and a     *)
(* polyline goes on until a terminator.  A wrong count anywhere makes the  *)
(* GPU read the rest of the stream at the wrong offset.                    *)
(*                                                                         *)
(* A word is a pair <<high half, low half>>.  What the drawing commands    *)
(* paint is left to the rasteriser and is any change of VRAM to Colours    *)
(* here; the drawing environment (0xE1-0xE6) and the display registers of  *)
(* GP1 hold no part of this state.  busy_cycles is kept as "is it zero",   *)
(* all that gpu_status asks of it.                                         *)
(***************************************************************************)
EXTENDS Integers, Sequences

CONSTANTS
    Words,      \* the words a program or a DMA transfer may write to GP0
    Colours,    \* the pixels the rasteriser may paint
    VRAM_W,     \* 1024 in the code: coordinates are masked with VRAM_W - 1
    VRAM_H      \* 512

Halves == { n \in Nat : n < 65536 }

ASSUME WordsAssumption == Words \subseteq Halves \X Halves
ASSUME ColoursAssumption == Colours \subseteq Halves
ASSUME VramAssumption == VRAM_W \in Nat \ {0} /\ VRAM_H \in Nat \ {0}

Cells == (0 .. VRAM_W - 1) \X (0 .. VRAM_H - 1)

BUFFER_WORDS == 16

VARIABLES
    gp0_mode,             \* what the next word means
    gp0_words_remaining,  \* words still missing from the packet or the image
    gp0_command_method,   \* the opcode of the packet being collected
    gp0_command,          \* its words, as far as they have been buffered
    image_load,           \* rectangle and cursor of the CPU-to-VRAM transfer
    image_store,          \* the same for VRAM-to-CPU
    image_store_words_remaining,
    polyline,             \* polyline_shaded and polyline_expect_color
    busy,                 \* busy_cycles # 0
    vram

vars == << gp0_mode, gp0_words_remaining, gp0_command_method, gp0_command,
           image_load, image_store, image_store_words_remaining, polyline,
           busy, vram >>

------------------------------------------------------------------------------
(* What a word says *)

Op(word) == word[1] \div 256

\* Both halves start with the digit 5.
Terminator(word) == word[1] \div 4096 = 5 /\ word[2] \div 4096 = 5

\* The words of a packet; 0 for an opcode the decoder does not know.
CommandLength(op) ==
    CASE op \in {0, 1} \cup (225 .. 230)                      -> 1
      [] op \in (72 .. 79) \cup (88 .. 95) \cup (104 .. 107)
                \cup (112 .. 115) \cup (120 .. 123)           -> 2
      [] op \in {2, 160, 192} \cup (64 .. 71) \cup (96 .. 99)
                \cup (108 .. 111) \cup (116 .. 119)
                \cup (124 .. 127)                             -> 3
      [] op \in (32 .. 35) \cup (80 .. 87) \cup (100 .. 103)
                \cup {128}                                    -> 4
      [] op \in 40 .. 43                                      -> 5
      [] op \in 48 .. 51                                      -> 6
      [] op \in 36 .. 39                                      -> 7
      [] op \in 56 .. 59                                      -> 8
      [] op \in (44 .. 47) \cup (52 .. 55)                    -> 9
      [] op \in 60 .. 63                                      -> 12
      [] OTHER                                                -> 0

Polylines == (72 .. 79) \cup (88 .. 95)

\* Fills, polygons, lines, rectangles and copies: they write pixels, and they
\* are the commands gp0_command_cost charges for.
Paints(op) == op \in {2, 128} \cup (32 .. 71) \cup (80 .. 87) \cup (96 .. 127)

------------------------------------------------------------------------------
(* Rectangles and their cursors *)

Transfer == [x : 0 .. VRAM_W - 1, y : 0 .. VRAM_H - 1, w : Halves, h : Halves,
             cur_x : Nat, cur_y : Nat]

NoRectangle == [x |-> 0, y |-> 0, w |-> 0, h |-> 0, cur_x |-> 0, cur_y |-> 0]

Rectangle(corner, size) ==
    [x |-> corner[2] % VRAM_W, y |-> corner[1] % VRAM_H,
     w |-> size[2], h |-> size[1], cur_x |-> 0, cur_y |-> 0]

CursorCell(t) == << (t.x + t.cur_x) % VRAM_W, (t.y + t.cur_y) % VRAM_H >>

\* Mutant: the row ends one pixel late.
AdvanceLate(t) ==
    IF t.cur_x >= t.w
    THEN [t EXCEPT !.cur_x = 0, !.cur_y = @ + 1]
    ELSE [t EXCEPT !.cur_x = @ + 1]

Advance(t) ==
    IF t.cur_x + 1 >= t.w
    THEN [t EXCEPT !.cur_x = 0, !.cur_y = @ + 1]
    ELSE [t EXCEPT !.cur_x = @ + 1]

\* The words that carry n pixels, two to a word.
WordsFor(n) == (n + 1) \div 2

\* Mutant: the spare half of an odd image is written too.
PutPixelAlways(state, pixel) ==
    [mem |-> [state.mem EXCEPT ![CursorCell(state.at)] = pixel],
     at |-> Advance(state.at)]

\* One pixel of an image load: past the last row it is dropped.
PutPixel(state, pixel) ==
    IF state.at.cur_y >= state.at.h
    THEN state
    ELSE [mem |-> [state.mem EXCEPT ![CursorCell(state.at)] = pixel],
          at |-> Advance(state.at)]

------------------------------------------------------------------------------
(* gpu_init *)

Init ==
    /\ gp0_mode = "COMMAND"
    /\ gp0_words_remaining = 0
    /\ gp0_command_method = 0
    /\ gp0_command = << >>
    /\ image_load = NoRectangle
    /\ image_store = NoRectangle
    /\ image_store_words_remaining = 0
    /\ polyline = [shaded |-> FALSE, expect_color |-> FALSE]
    /\ busy = FALSE
    /\ vram = [c \in Cells |-> 0]

------------------------------------------------------------------------------
(* The methods a complete packet calls *)

\* A size with a zero side starts no transfer: its data words, if any follow,
\* are taken for commands.
ImageLoad(corner, size) ==
    /\ LET t == Rectangle(corner, size)
           empty == t.w = 0 \/ t.h = 0
       IN  /\ image_load' = IF empty THEN image_load ELSE t
           /\ gp0_words_remaining' = IF empty THEN 0 ELSE WordsFor(t.w * t.h)
           /\ gp0_mode' = IF empty THEN "COMMAND" ELSE "IMAGE_LOAD"
    /\ UNCHANGED << image_store, image_store_words_remaining, polyline, vram >>

ImageStore(corner, size) ==
    /\ LET t == Rectangle(corner, size)
           empty == t.w = 0 \/ t.h = 0
       IN  /\ image_store' = IF empty THEN image_store ELSE t
           /\ image_store_words_remaining' =
                  IF empty THEN image_store_words_remaining
                  ELSE WordsFor(t.w * t.h)
           /\ gp0_mode' = IF empty THEN "COMMAND" ELSE "IMAGE_STORE"
    /\ gp0_words_remaining' = 0
    /\ UNCHANGED << image_load, polyline, vram >>

\* Mutant: a shaded polyline starts as if its next word were a vertex.
PolylineStartVertex(op) ==
    /\ gp0_mode' = "POLYLINE"
    /\ polyline' = [shaded |-> op \in 88 .. 95, expect_color |-> FALSE]
    /\ gp0_words_remaining' = 0
    /\ UNCHANGED << image_load, image_store, image_store_words_remaining, vram >>

PolylineStart(op) ==
    /\ gp0_mode' = "POLYLINE"
    /\ polyline' = [shaded |-> op \in 88 .. 95, expect_color |-> op \in 88 .. 95]
    /\ gp0_words_remaining' = 0
    /\ UNCHANGED << image_load, image_store, image_store_words_remaining, vram >>

Paint(cells, image) ==
    /\ vram' = [c \in Cells |-> IF c \in cells THEN image[c] ELSE vram[c]]
    /\ gp0_words_remaining' = 0
    /\ UNCHANGED << gp0_mode, image_load, image_store,
                    image_store_words_remaining, polyline >>

SetEnvironment ==
    /\ gp0_words_remaining' = 0
    /\ UNCHANGED << gp0_mode, image_load, image_store,
                    image_store_words_remaining, polyline, vram >>

\* The transfers read the corner and the size from the buffer.  A packet that
\* was cut short leaves there whatever an earlier one put: any words.
Execute(op, command) ==
    /\ \/ /\ op \in {160, 192}
          /\ \E corner, size \in Words :
                /\ Len(command) >= 2 => corner = command[2]
                /\ Len(command) >= 3 => size = command[3]
                /\ \/ op = 160 /\ ImageLoad(corner, size)
                   \/ op = 192 /\ ImageStore(corner, size)
       \/ op \in Polylines /\ PolylineStart(op)
       \/ /\ Paints(op)
          /\ \E cells \in SUBSET Cells, image \in [Cells -> Colours] :
                Paint(cells, image)
       \/ op \notin {160, 192} \cup Polylines /\ ~Paints(op) /\ SetEnvironment
    \* The cost is looked up by the first buffered word.
    /\ busy' = (busy \/ Paints(Op(command[1])))

------------------------------------------------------------------------------
(* gpu_gp0 *)

\* In POLYLINE mode nothing is counted.  A shaded line takes colour and vertex
\* in turn and looks for the terminator only where a colour is due.
PolylineWord(val) ==
    /\ gp0_mode = "POLYLINE"
    /\ LET ends == /\ polyline.shaded => polyline.expect_color
                   /\ Terminator(val)
           segment == ~ends /\ ~polyline.expect_color
       IN  /\ gp0_mode' = IF ends THEN "COMMAND" ELSE "POLYLINE"
           /\ polyline' = IF ends \/ ~polyline.shaded THEN polyline
                          ELSE [polyline EXCEPT !.expect_color = ~@]
           /\ busy' = (busy \/ segment)
           /\ \E cells \in SUBSET Cells, image \in [Cells -> Colours] :
                 /\ segment \/ cells = {}
                 /\ vram' = [c \in Cells |-> IF c \in cells THEN image[c]
                                                            ELSE vram[c]]
    /\ UNCHANGED << gp0_words_remaining, gp0_command_method, gp0_command,
                    image_load, image_store, image_store_words_remaining >>

AtBoundary == gp0_words_remaining = 0

\* The decoder reports an opcode it does not know and drops the word.
UnhandledWord(val) ==
    /\ gp0_mode # "POLYLINE"
    /\ AtBoundary
    /\ CommandLength(Op(val)) = 0
    /\ UNCHANGED vars

\* Mutant: a shaded, textured quad takes four words for each corner.
RemainingWide(val) ==
    (IF AtBoundary THEN IF Op(val) \in 60 .. 63 THEN 16 ELSE CommandLength(Op(val))
     ELSE gp0_words_remaining) - 1

\* What the decoder leaves for the rest of gpu_gp0: the method, the words still
\* to come after this one, and the buffer, cleared by a first word.
Method(val) == IF AtBoundary THEN Op(val) ELSE gp0_command_method
Remaining(val) ==
    (IF AtBoundary THEN CommandLength(Op(val)) ELSE gp0_words_remaining) - 1
Buffered == IF AtBoundary THEN << >> ELSE gp0_command

Accepts(val) == AtBoundary => CommandLength(Op(val)) # 0

CommandWord(val) ==
    /\ gp0_mode = "COMMAND"
    /\ Accepts(val)
    /\ gp0_command_method' = Method(val)
    /\ gp0_command' = Append(Buffered, val)
    /\ IF Remaining(val) = 0
       THEN Execute(Method(val), Append(Buffered, val))
       ELSE /\ gp0_words_remaining' = Remaining(val)
            /\ UNCHANGED << gp0_mode, image_load, image_store,
                            image_store_words_remaining, polyline, busy, vram >>

\* Two pixels, low half first.
LoadWord(val) ==
    /\ gp0_mode = "IMAGE_LOAD"
    /\ Accepts(val)
    /\ gp0_command_method' = Method(val)
    /\ gp0_command' = Buffered
    /\ gp0_words_remaining' = Remaining(val)
    /\ LET put == PutPixel(PutPixel([mem |-> vram, at |-> image_load], val[2]),
                           val[1])
       IN  vram' = put.mem /\ image_load' = put.at
    /\ gp0_mode' = IF Remaining(val) = 0 THEN "COMMAND" ELSE "IMAGE_LOAD"
    /\ UNCHANGED << image_store, image_store_words_remaining, polyline, busy >>

\* While a store waits to be read the words are decoded and counted, and then
\* neither buffered nor executed.
StoreWord(val) ==
    /\ gp0_mode = "IMAGE_STORE"
    /\ Accepts(val)
    /\ gp0_command_method' = Method(val)
    /\ gp0_command' = Buffered
    /\ gp0_words_remaining' = Remaining(val)
    /\ UNCHANGED << gp0_mode, image_load, image_store,
                    image_store_words_remaining, polyline, busy, vram >>

gpu_gp0(val) ==
    \/ PolylineWord(val)
    \/ UnhandledWord(val)
    \/ CommandWord(val)
    \/ LoadWord(val)
    \/ StoreWord(val)

------------------------------------------------------------------------------
(* gpu_read, gpu_status, gpu_gp1, gpu_step *)

\* The two pixels the next read of GPUREAD returns.
ReadCells == << CursorCell(image_store), CursorCell(Advance(image_store)) >>

\* Mutant: the end of the store is tested before the count goes down.
GpuReadLate ==
    /\ gp0_mode = "IMAGE_STORE"
    /\ image_store_words_remaining # 0
    /\ image_store' = Advance(Advance(image_store))
    /\ image_store_words_remaining' = image_store_words_remaining - 1
    /\ gp0_mode' = gp0_mode
    /\ UNCHANGED << gp0_words_remaining, gp0_command_method, gp0_command,
                    image_load, polyline, busy, vram >>

\* Outside a store gpu_read returns its latch and changes nothing.
gpu_read ==
    /\ gp0_mode = "IMAGE_STORE"
    /\ image_store_words_remaining # 0
    /\ image_store' = Advance(Advance(image_store))
    /\ image_store_words_remaining' = image_store_words_remaining - 1
    /\ gp0_mode' = IF image_store_words_remaining = 1 THEN "COMMAND" ELSE gp0_mode
    /\ UNCHANGED << gp0_words_remaining, gp0_command_method, gp0_command,
                    image_load, polyline, busy, vram >>

\* Bits 26 and 27 of GPUSTAT.
Idle == ~busy /\ gp0_mode # "IMAGE_STORE"
ReadyVramToCpu == gp0_mode = "IMAGE_STORE" /\ image_store_words_remaining > 0

\* GP1(0x00) and GP1(0x01) do the same to this state.
gp1_reset_command_buffer ==
    /\ gp0_command' = << >>
    /\ gp0_words_remaining' = 0
    /\ gp0_mode' = "COMMAND"
    /\ polyline' = [shaded |-> FALSE, expect_color |-> FALSE]
    /\ busy' = FALSE
    /\ UNCHANGED << gp0_command_method, image_load, image_store,
                    image_store_words_remaining, vram >>

\* The slice of gpu_step that uses up the last busy cycle.
DrainBusy ==
    /\ busy
    /\ busy' = FALSE
    /\ UNCHANGED << gp0_mode, gp0_words_remaining, gp0_command_method, gp0_command,
                    image_load, image_store, image_store_words_remaining,
                    polyline, vram >>

\* do_dma charges a transfer's bus time to the GPU.
DmaBusy ==
    /\ busy' = TRUE
    /\ UNCHANGED << gp0_mode, gp0_words_remaining, gp0_command_method, gp0_command,
                    image_load, image_store, image_store_words_remaining,
                    polyline, vram >>

Next ==
    \/ \E val \in Words : gpu_gp0(val)
    \/ gpu_read
    \/ gp1_reset_command_buffer
    \/ DrainBusy
    \/ DmaBusy

Spec == Init /\ [][Next]_vars

------------------------------------------------------------------------------
(* Properties *)

Modes == {"COMMAND", "IMAGE_LOAD", "IMAGE_STORE", "POLYLINE"}

\* Types of the GP0 state, for any words written at any time.
TypeOK ==
    /\ gp0_mode \in Modes
    /\ gp0_words_remaining \in Nat
    /\ gp0_command_method \in 0 .. 255
    /\ gp0_command \in Seq(Words)
    /\ image_load \in Transfer
    /\ image_store \in Transfer
    /\ image_store_words_remaining \in Nat
    /\ polyline \in [shaded : BOOLEAN, expect_color : BOOLEAN]
    /\ busy \in BOOLEAN
    /\ vram \in [Cells -> Halves]

\* cb_push has no bounds check of its own.  Whatever is written, in any mode,
\* with resets and reads in between, the words buffered and the words the
\* packet still expects stay within the longest packet, so buffer[16] is never
\* overrun.
BufferFits ==
    /\ Len(gp0_command) < BUFFER_WORDS
    /\ gp0_mode \in {"COMMAND", "IMAGE_STORE"} =>
           Len(gp0_command) + gp0_words_remaining < BUFFER_WORDS

\* The pixels from a cursor to the end of its rectangle.
PixelsLeft(t) == t.w * t.h - (t.cur_y * t.w + t.cur_x)

Counted(t, words) ==
    /\ words > 0
    /\ t.cur_x < t.w
    /\ 2 * words - PixelsLeft(t) \in {0, 1}

\* A transfer under way has exactly the words to go that its remaining pixels
\* need: gpu_gp0 and gpu_read advance a two-dimensional cursor and a word count
\* separately, and an odd rectangle has half a word to spare.  A load therefore
\* ends on the word that holds its last pixel, neither before nor after.
TransfersCounted ==
    /\ gp0_mode = "IMAGE_LOAD" => Counted(image_load, gp0_words_remaining)
    /\ gp0_mode = "IMAGE_STORE" =>
           Counted(image_store, image_store_words_remaining)
==============================================================================
