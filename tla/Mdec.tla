-------------------------------- MODULE Mdec --------------------------------
(* The motion decoder of mdec.c at its data and status ports, and a program  *)
(* that writes a stream of commands and reads the picture through one port.  *)
(* A half word is its run field, or EOB (0xFE00); a block is the set of      *)
(* coefficients it defines and the tables it is decoded with.  An output     *)
(* word is its macroblock and its place in it: what IDCT and colour          *)
(* conversion compute is left out, where every word goes is kept.  The       *)
(* enable bits of the control port only show in the status and are left out. *)
EXTENDS Integers, Sequences

CONSTANTS LAST,        \* last coefficient of a block (63)
          SIDE,        \* rows of a block (8)
          ROW_WORDS,   \* words of a mono block (depth 0, 1), of a row (2, 3)
          TABLE_WORDS, \* words of one quantisation table (16)
          PARAM_CAP,   \* MDEC_PARAM_HALF_CAP
          OUT_CAP,     \* MDEC_OUTPUT_WORD_CAP
          MAX_WORDS,   \* largest count a decode command can carry (65535)
          Streams,     \* what the program may write, word by word
          Restarts     \* what it may write after a reset

EOB == -1
Half == Nat \cup {EOB}

\* A word as the decoder may take it: as a command for a picture of n words or a
\* table (both tables if n = 1), or as two halves, the lower one first.
Word == [op : 0 .. 7, depth : 0 .. 3, n : Nat, halves : Half \X Half]

\* The program's commands, with small counts: the run field of the lower half is 0.
Command(op, depth, n) == [op |-> op, depth |-> depth, n |-> n, halves |-> <<0, 8 * op + 2 * depth>>]

\* Its data: the run field of the upper half holds opcode and depth, 0xFE00 is
\* opcode 7 with depth 3.
Data(lo, hi) == [op     |-> IF hi = EOB THEN 7 ELSE hi \div 8,
                 depth  |-> IF hi = EOB THEN 3 ELSE (hi \div 2) % 4,
                 n      |-> 0,
                 halves |-> <<lo, hi>>]

ASSUME MdecAssumption ==
    /\ LAST \in Nat /\ SIDE \in Nat \ {0} /\ TABLE_WORDS \in Nat \ {0}
    /\ \A d \in 0 .. 3 : ROW_WORDS[d] \in Nat \ {0}
    /\ PARAM_CAP \in Nat /\ OUT_CAP \in Nat /\ MAX_WORDS \in Nat
    /\ 2 * MAX_WORDS <= PARAM_CAP /\ 4 * TABLE_WORDS <= PARAM_CAP
    /\ Streams \cup Restarts \subseteq Seq(Word)
    /\ \A s \in Streams \cup Restarts : \A k \in DOMAIN s : s[k].op = 1 => s[k].n <= MAX_WORDS

VARIABLES
    params, words_remaining, receiving, active_command, command_bit0, output_depth,
    quant_y, quant_uv, scale,
    output,               \* the output ring, oldest word first
    dma_output,           \* what is left of the staged macroblock
    data_out_empty_delay,
    todo, port,           \* the program: what it still writes, where it reads
    fed, decoded,         \* history: halves and macroblocks of this command
    delivered,            \* history: words read since the picture began
    clean                 \* history: the picture began drained and nothing was dropped

input == <<params, words_remaining, receiving, active_command, command_bit0, output_depth>>
tables == <<quant_y, quant_uv, scale>>
outputs == <<output, dma_output, data_out_empty_delay>>
history == <<fed, decoded, delivered, clean>>
mdec_vars == <<input, tables, outputs, todo, port, history>>

Ones == <<>>     \* a quantisation table of ones, and default_scale

\* The tables in force.
InForce == [quant_y |-> quant_y, quant_uv |-> quant_uv, scale |-> scale]

-----------------------------------------------------------------------------
(* Decoding.  NoBlock: the input ends before the block does.                 *)
NoBlock == [next |-> 0, coeffs |-> {}]

\* decode_block and decode_color_block from the DC coefficient at pos: p is the
\* buffer, complete says that nothing will follow it, k the last coefficient.
Coefficients(p, pos, complete) ==
    LET Walk[i \in pos .. Len(p) + 1] == [k \in 0 .. LAST |->
            IF k = LAST THEN [next |-> i, coeffs |-> {k}]
            ELSE IF i > Len(p) THEN (IF complete THEN [next |-> i, coeffs |-> {k}] ELSE NoBlock)
            ELSE IF p[i] = EOB \/ k + p[i] + 1 > LAST THEN [next |-> i + 1, coeffs |-> {k}]
            ELSE LET rest == Walk[i + 1][k + p[i] + 1]
                 IN  IF rest = NoBlock THEN NoBlock ELSE [rest EXCEPT !.coeffs = @ \cup {k}]]
    IN  Walk[pos + 1][0]

\* Padding before a block is skipped; without a DC coefficient there is no block.
Block(p, pos, complete) ==
    LET dc == {i \in pos .. Len(p) : p[i] # EOB}
    IN  IF dc = {} THEN NoBlock
        ELSE Coefficients(p, CHOOSE i \in dc : \A j \in dc : i <= j, complete)

Colour(depth) == depth \in {2, 3}

BlocksOf(depth) == IF Colour(depth) THEN 6 ELSE 1

\* The macroblock at pos: its blocks with the tables t they are decoded with, or
\* nothing of it, and where it ends.
Macroblock(p, pos, depth, complete, t) ==
    LET Nothing == [next |-> 0, blocks |-> <<>>]
        UpTo[b \in 0 .. BlocksOf(depth)] ==
            IF b = 0 THEN [next |-> pos, blocks |-> <<>>]
            ELSE LET before == UpTo[b - 1]
                     block  == Block(p, before.next, complete)
                 IN  IF before = Nothing \/ block = NoBlock THEN Nothing
                     ELSE [next |-> block.next,
                           blocks |-> Append(before.blocks,
                               [coeffs |-> block.coeffs, scale |-> t.scale,
                                quant |-> IF Colour(depth) /\ b <= 2 THEN t.quant_uv ELSE t.quant_y])]
    IN  UpTo[BlocksOf(depth)]

\* All macroblocks from the start of p, and the first half not used for them.
Macroblocks(p, depth, complete, t) ==
    LET From[pos \in 1 .. Len(p) + 1] ==
            LET mb == Macroblock(p, pos, depth, complete, t)
            IN  IF pos > Len(p) \/ mb.blocks = <<>> THEN [next |-> pos, mbs |-> <<>>]
                ELSE [From[mb.next] EXCEPT !.mbs = <<mb.blocks>> \o @]
    IN  From[1]

MacroblockWords(depth) ==
    IF Colour(depth) THEN 4 * SIDE * ROW_WORDS[depth] ELSE ROW_WORDS[depth]

\* output_mono and output_color, word i of macroblock n: block after block, row
\* after row.
OutputWord(n, i, depth) ==
    LET rows == IF Colour(depth) THEN SIDE ELSE 1
    IN  [mb |-> n, block |-> (i - 1) \div (rows * ROW_WORDS[depth]),
         row |-> ((i - 1) \div ROW_WORDS[depth]) % rows, col |-> (i - 1) % ROW_WORDS[depth]]

\* The words of the macroblocks after the first m, up to the n-th.
OutputWords(m, n, depth) ==
    LET size == MacroblockWords(depth)
    IN  [i \in 1 .. (n - m) * size |->
            OutputWord(m + 1 + (i - 1) \div size, ((i - 1) % size) + 1, depth)]

\* push_output drops what does not fit.
Pushed(words) ==
    IF Len(output \o words) <= OUT_CAP THEN output \o words ELSE SubSeq(output \o words, 1, OUT_CAP)

\* Mutant: the lower pair of blocks is taken for the right-hand pair.
RasterByColumns(words, depth) ==
    LET row == ROW_WORDS[depth] IN
    [d \in 1 .. MacroblockWords(depth) |->
        LET y == (d - 1) \div (2 * row)
            x == ((d - 1) \div row) % 2
            block == 2 * x + (y \div SIDE)
        IN  words[block * SIDE * row + (y % SIDE) * row + ((d - 1) % row) + 1]]

\* stage_dma_macroblock: the words of four blocks, gathered row by row.
Raster(words, depth) ==
    LET row == ROW_WORDS[depth] IN
    [d \in 1 .. MacroblockWords(depth) |->
        LET y == (d - 1) \div (2 * row)
            x == ((d - 1) \div row) % 2
            block == x + 2 * (y \div SIDE)
        IN  words[block * SIDE * row + (y % SIDE) * row + ((d - 1) % row) + 1]]

-----------------------------------------------------------------------------
\* mdec_init, and a program that is about to write one of the streams.
MdecInit ==
    /\ params = <<>> /\ words_remaining = 0 /\ receiving = FALSE
    /\ active_command = 0 /\ command_bit0 = FALSE /\ output_depth = 2
    /\ quant_y = Ones /\ quant_uv = Ones /\ scale = Ones
    /\ output = <<>> /\ dma_output = <<>> /\ data_out_empty_delay = 0
    /\ fed = <<>> /\ decoded = <<>> /\ delivered = <<>> /\ clean = TRUE
    /\ todo \in Streams /\ port \in {"cpu", "dma"}

Drained == output = <<>> /\ dma_output = <<>>

\* update_status: bit 31 of the status word.
DataOutEmpty == Drained /\ data_out_empty_delay = 0

\* Mutant: half a macroblock is consumed when its other half has not arrived.
DecodeAvailableEager(p, complete) ==
    LET whole == Macroblocks(p, output_depth, complete, InForce)
        first == Block(p, whole.next, complete)
        next  == IF first = NoBlock THEN whole.next ELSE first.next
    IN
    /\ params' = SubSeq(p, next, Len(p))
    /\ decoded' = decoded \o whole.mbs
    /\ LET words == OutputWords(Len(decoded), Len(decoded \o whole.mbs), output_depth)
       IN  /\ output' = Pushed(words)
           /\ data_out_empty_delay' = IF words = <<>> THEN data_out_empty_delay ELSE 0
           /\ clean' = (clean /\ Len(output) + Len(words) <= OUT_CAP)

\* Whole macroblocks leave the buffer; what is left moves to its front.
decode_available(p, complete) ==
    LET whole == Macroblocks(p, output_depth, complete, InForce)
        words == OutputWords(Len(decoded), Len(decoded \o whole.mbs), output_depth)
    IN
    /\ params' = SubSeq(p, whole.next, Len(p))
    /\ decoded' = decoded \o whole.mbs
    /\ output' = Pushed(words)
    /\ data_out_empty_delay' = IF words = <<>> \/ Len(output) >= OUT_CAP THEN data_out_empty_delay ELSE 0
    /\ clean' = (clean /\ Len(output) + Len(words) <= OUT_CAP)

\* How many words the command will take.
Takes(c) ==
    CASE c.op = 1 -> c.n
      [] c.op = 2 -> IF c.n = 1 THEN 2 * TABLE_WORDS ELSE TABLE_WORDS
      [] c.op = 3 -> 2 * TABLE_WORDS
      [] OTHER    -> 0

\* mdec_dma_write while idle: every word is a command, and every command sets
\* the depth, also while words of the last picture wait to be read.
start_command ==
    LET c == Head(todo) IN
    /\ todo # <<>> /\ ~receiving
    /\ todo' = Tail(todo)
    /\ active_command' = c.op /\ command_bit0' = (c.n = 1) /\ output_depth' = c.depth
    /\ params' = <<>>
    /\ words_remaining' = Takes(c) /\ receiving' = (Takes(c) # 0)
    /\ fed' = <<>> /\ decoded' = <<>>
    /\ delivered' = IF c.op = 1 THEN <<>> ELSE delivered
    /\ clean' = IF c.op = 1 THEN Drained ELSE clean /\ Drained
    /\ UNCHANGED <<tables, outputs, port>>

\* The buffer after one more word; a word that does not fit is lost.
Received == IF Len(params) + 2 <= PARAM_CAP THEN params \o Head(todo).halves ELSE params

TakeWord ==
    /\ todo # <<>> /\ receiving
    /\ todo' = Tail(todo)
    /\ words_remaining' = words_remaining - 1
    /\ receiving' = (words_remaining > 1)
    /\ fed' = fed \o Head(todo).halves
    /\ UNCHANGED <<active_command, command_bit0, output_depth, dma_output, delivered, port>>

\* mdec_dma_write, decoding as the words arrive; the last one completes the input.
DecodeWord ==
    /\ active_command = 1
    /\ TakeWord
    /\ decode_available(Received, words_remaining = 1)
    /\ UNCHANGED tables

TableWord ==
    /\ active_command # 1 /\ words_remaining > 1
    /\ TakeWord
    /\ params' = Received
    /\ UNCHANGED <<tables, output, data_out_empty_delay, decoded, clean>>

set_quant_table ==
    /\ active_command = 2 /\ words_remaining = 1
    /\ TakeWord
    /\ params' = Received
    /\ quant_y' = SubSeq(Received, 1, 2 * TABLE_WORDS)
    /\ quant_uv' = IF command_bit0 THEN SubSeq(Received, 2 * TABLE_WORDS + 1, 4 * TABLE_WORDS) ELSE quant_uv
    /\ UNCHANGED <<scale, output, data_out_empty_delay, decoded, clean>>

set_scale_table ==
    /\ active_command = 3 /\ words_remaining = 1
    /\ TakeWord
    /\ params' = Received
    /\ scale' = SubSeq(Received, 1, 4 * TABLE_WORDS)
    /\ UNCHANGED <<quant_y, quant_uv, output, data_out_empty_delay, decoded, clean>>

mdec_dma_write == start_command \/ DecodeWord \/ TableWord \/ set_quant_table \/ set_scale_table

-----------------------------------------------------------------------------
\* pop_output for the CPU: after the last word the port looks full once more.
mdec_cpu_read ==
    /\ port = "cpu" /\ output # <<>>
    /\ output' = Tail(output)
    /\ data_out_empty_delay' = IF Len(output) = 1 THEN 1 ELSE data_out_empty_delay
    /\ delivered' = Append(delivered, Head(output))
    /\ UNCHANGED <<input, tables, dma_output, todo, port, fed, decoded, clean>>

\* stage_dma_macroblock, when nothing is staged, then one word of it.
DmaReadColour ==
    LET n == MacroblockWords(output_depth)
        staged == IF dma_output # <<>> THEN dma_output ELSE Raster(SubSeq(output, 1, n), output_depth)
    IN
    /\ port = "dma" /\ Colour(output_depth)
    /\ dma_output # <<>> \/ Len(output) >= n
    /\ output' = IF dma_output # <<>> THEN output ELSE SubSeq(output, n + 1, Len(output))
    /\ dma_output' = Tail(staged)
    /\ delivered' = Append(delivered, Head(staged))
    /\ UNCHANGED <<input, tables, data_out_empty_delay, todo, port, fed, decoded, clean>>

\* In the mono depths a staged macroblock stays where it is.
DmaReadMono ==
    /\ port = "dma" /\ ~Colour(output_depth)
    /\ output # <<>>
    /\ output' = Tail(output)
    /\ delivered' = Append(delivered, Head(output))
    /\ UNCHANGED <<input, tables, dma_output, data_out_empty_delay, todo, port, fed, decoded, clean>>

mdec_dma_read == DmaReadColour \/ DmaReadMono

\* Mutant: reading the status does not end the delay.
StatusReadKeepsDelay ==
    /\ data_out_empty_delay > 0
    /\ UNCHANGED mdec_vars

\* mdec_load32 of the status port: the delay ends with the first look at it.
StatusRead ==
    /\ data_out_empty_delay > 0
    /\ data_out_empty_delay' = data_out_empty_delay - 1
    /\ UNCHANGED <<input, tables, output, dma_output, todo, port, history>>

\* mdec_store32 of the control port with bit 31: the program starts afresh.
Reset ==
    /\ params' = <<>> /\ words_remaining' = 0 /\ receiving' = FALSE
    /\ active_command' = 0 /\ command_bit0' = FALSE /\ output_depth' = 2
    /\ quant_y' = Ones /\ quant_uv' = Ones /\ scale' = Ones
    /\ output' = <<>> /\ dma_output' = <<>> /\ data_out_empty_delay' = 0
    /\ fed' = <<>> /\ decoded' = <<>> /\ delivered' = <<>> /\ clean' = TRUE
    /\ todo' \in Restarts
    /\ UNCHANGED port

Read == mdec_cpu_read \/ mdec_dma_read

MdecNext == mdec_dma_write \/ Read \/ StatusRead \/ Reset

\* A program that goes on reading and looking at the status; it may stop writing.
MdecSpec == MdecInit /\ [][MdecNext]_mdec_vars /\ WF_mdec_vars(Read) /\ WF_mdec_vars(StatusRead)

-----------------------------------------------------------------------------
\* Decoding as the words arrive, with roll-back and compaction, gives the
\* macroblocks that decoding the whole input at once would give (decode_available);
\* the buffer holds the longest command, so no word of it is lost (mdec_dma_write).
DecodedAsWhole ==
    active_command = 1 => decoded = Macroblocks(fed, output_depth, ~receiving, InForce).mbs

\* What the screen wants of macroblock n: rows of two blocks side by side, top to
\* bottom; and of the first n macroblocks.
RasterWord(n, d, depth) ==
    LET row == ROW_WORDS[depth]
        y == (d - 1) \div (2 * row)
        x == ((d - 1) \div row) % 2
    IN  [mb |-> n, block |-> IF y < SIDE THEN x ELSE x + 2, row |-> y % SIDE, col |-> (d - 1) % row]

RasterWords(n, depth) ==
    LET size == MacroblockWords(depth)
    IN  [i \in 1 .. n * size |-> RasterWord(1 + (i - 1) \div size, ((i - 1) % size) + 1, depth)]

\* A picture that began with the decoder drained is delivered word for word:
\* through DMA in raster order, through the CPU's port block by block, however
\* writing and reading interleave (stage_dma_macroblock).
PictureDelivered ==
    clean /\ active_command = 1 =>
        LET raster == port = "dma" /\ Colour(output_depth)
            taken  == delivered \o dma_output
            k      == Len(taken) \div MacroblockWords(output_depth)
        IN  IF raster
            THEN /\ taken = RasterWords(k, output_depth)
                 /\ output = OutputWords(k, Len(decoded), output_depth)
            ELSE taken \o output = OutputWords(0, Len(decoded), output_depth)

\* A program that reads until the status says empty gets there
\* (update_status, mdec_load32), unless a picture was begun over words of the one before.
DrainedIsSeen == todo = <<>> /\ clean ~> DataOutEmpty \/ todo # <<>>
=============================================================================
