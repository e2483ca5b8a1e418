------------------------------- MODULE MCCpu -------------------------------
(* Programs for Cpu: each is one pattern of delay slots, faults or code      *)
(* changes, in an endless loop after four instructions of set-up.            *)
EXTENDS Cpu, TLC, Sequences

Ins(op, s, t, imm) == [op |-> op, s |-> s, t |-> t, imm |-> imm]

K0 == 26
K1 == 27
LOOP == START + 16
DATA == 320
ENABLED_SR == IE + IM_EXT + IM_SW

\* Instruction words 0 .. 52; everything else is illegal.
Words ==
    0 :> Ins("addiu", 0, 0, 0) @@ 1 :> Ins("mfc0 epc", 0, K0, 0) @@ 2 :> Ins("mfc0 sr", 0, K1, 0)
    @@ 3 :> Ins("sw", 0, 0, ISTAT) @@ 4 :> Ins("mtc0 cause", 0, 0, 0) @@ 5 :> Ins("ori", K1, K1, CU2)
    @@ 6 :> Ins("mtc0 sr", 0, K1, 0) @@ 7 :> Ins("jr", K0, 0, 0) @@ 8 :> Ins("rfe", 0, 0, 0)
    @@ 10 :> Ins("addiu", 0, 1, 1) @@ 11 :> Ins("sw", 0, 1, IMASK)
    @@ 12 :> Ins("addiu", 0, 1, ENABLED_SR) @@ 13 :> Ins("mtc0 sr", 0, 1, 0)
    @@ 14 :> Ins("addiu", 0, 1, ENABLED_SR + BEV) @@ 15 :> Ins("addiu", 0, 1, ENABLED_SR + ISOLATE)
    @@ 16 :> Ins("lw", 0, 1, DATA) @@ 17 :> Ins("xori", 1, 1, 1) @@ 18 :> Ins("sw", 0, 1, DATA)
    @@ 19 :> Ins("beq", 1, 0, 8) @@ 20 :> Ins("j", 0, 0, LOOP) @@ 21 :> Ins("xori", 2, 2, 1)
    @@ 22 :> Ins("jal", 0, 0, LOOP + 20) @@ 23 :> Ins("mult", 1, 0, 0) @@ 24 :> Ins("mflo", 0, 2, 0)
    @@ 25 :> Ins("jr", RA, 0, 0) @@ 26 :> Ins("lwl", 0, 1, DATA + 4) @@ 27 :> Ins("lwr", 0, 1, DATA)
    @@ 28 :> Ins("swl", 0, 1, DATA + 4) @@ 29 :> Ins("swr", 0, 1, DATA) @@ 30 :> Ins("cop2", 0, 0, 0)
    @@ 31 :> Ins("mfc2", 0, 1, 0) @@ 32 :> Ins("lw", 0, 1, LOOP + 28) @@ 33 :> Ins("sw", 0, 1, LOOP + 28)
    @@ 34 :> Ins("xori", 1, 1, 16) @@ 35 :> Ins("sw", 0, 1, LOOP + 28 + UNCACHED)
    @@ 36 :> Ins("addiu", 0, 1, LOOP + 2) @@ 37 :> Ins("jr", 1, 0, 0) @@ 38 :> Ins("syscall", 0, 0, 0)
    @@ 39 :> Ins("break", 0, 0, 0) @@ 40 :> Ins("lw", 0, 1, DATA + 2) @@ 41 :> Ins("sw", 0, 1, DATA + 1)
    @@ 42 :> Ins("addi", 1, 1, INT_MAX) @@ 43 :> Ins("jal", 0, 0, 160) @@ 44 :> Ins("addiu", 0, 1, IM_SW)
    @@ 45 :> Ins("mtc0 cause", 0, 1, 0) @@ 46 :> Ins("bne", 1, 0, 8) @@ 47 :> Ins("jalr", 31, 2, 0)
    @@ 48 :> Ins("addiu", 0, 31, LOOP) @@ 49 :> Ins("lw", 0, 31, DATA + 8) @@ 50 :> Ins("addiu", 0, A0, 1)
    @@ 51 :> Ins("addiu", 0, 1, -1) @@ 52 :> Ins("bltzal", 1, 0, 8)

HandlerCode_MC == {h + 4 * k : h \in {HANDLER, BEV_HANDLER}, k \in 0 .. 7}

Handler == <<1, 2, 3, 4, 5, 6, 7, 8>>

Setup(sr_word) == <<10, 11, sr_word, 13>>

Image(code, h) ==
    [mem |-> [a \in {128 + 4 * k : k \in 0 .. 7} \cup {START + 4 * k : k \in 0 .. 15}
                    \cup {DATA + 4 * k : k \in 0 .. 3} |->
                IF a < START THEN Handler[(a - 128) \div 4 + 1]
                ELSE IF a = DATA THEN 2 ELSE IF a = DATA + 8 THEN LOOP ELSE IF a >= DATA THEN 1
                ELSE LET k == (a - START) \div 4 + 1 IN IF k <= Len(code) THEN code[k] ELSE 0],
     hle |-> h]

Programs ==
    { Setup(12) \o <<16, 17, 18, 19, 17, 21, 20, 16>>,       \* load, branch and jump delay slots
      Setup(12) \o <<22, 23, 24, 20, 0, 25, 17>>,            \* call, multiplication in the slot
      Setup(14) \o <<48, 16, 46, 21, 24, 47, 17>>,               \* jalr and bne, handler uncached
      Setup(12) \o <<10, 52, 51, 52, 21, 23, 20, 24>>,       \* branch-and-link, not taken and taken
      Setup(12) \o <<26, 27, 18, 17, 28, 29, 20, 27>>,       \* unaligned loads and stores
      Setup(12) \o <<10, 12, 13, 20, 30>>,                   \* lazily enabled GTE in a delay slot
      Setup(12) \o <<30, 31, 30, 18, 12, 13, 20, 31>>,       \* GTE interlock, GTE moves
      Setup(12) \o <<32, 0, 34, 33, 15, 13, 33, 0, 12, 13, 20, 0>>, \* code rewritten, cache emptied
      Setup(12) \o <<32, 0, 34, 35, 15, 13, 33, 0, 12, 13, 20, 0>>, \* the same through the uncached alias
      Setup(12) \o <<36, 37, 21>>,                           \* jump to a misaligned address
      Setup(12) \o <<44, 45, 16, 20, 18>> }                  \* software interrupt

Faults == { Setup(12) \o <<w, 20, 17>> : w \in {38, 39, 40, 41, 42, 99} }

HlePrograms == { Setup(12) \o <<43, 50, 38, 20, 17>>,        \* BIOS call and syscall 1
                 Setup(12) \o <<21, 38, 20, 17>>,            \* a syscall the emulator does not serve
                 Setup(12) \o <<43, 49, 38, 20, 17>> }       \* RA in flight when the call is made

Images_MC == { Image(c, FALSE) : c \in Programs \cup Faults } \cup { Image(c, TRUE) : c \in HlePrograms }
=============================================================================
