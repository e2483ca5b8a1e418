-------------------------------- MODULE Isa --------------------------------
(* What one instruction of cpu.c does to the registers, without interrupts,  *)
(* exceptions or COP0.  An instruction word is a number; ISA decodes it to a *)
(* record.  Instructions that differ only in the arithmetic they do are one  *)
(* class.  A register half is one bit (HALF = 2): enough to tell which parts *)
(* an unaligned load or store has merged.                                    *)
EXTENDS ICache

CONSTANTS ISA,       \* instruction word -> decoded instruction
          RegSet,    \* register numbers
          INT_MAX    \* largest sum that does not overflow (2^31 - 1)

HALF == 2
RA == 31
V0 == 2
A0 == 4
ISOLATE == 65536   \* SR bit 16: stores go to the isolated cache
NoLoad == [reg |-> 0, val |-> 0]

IsInstruction(i) == i.s \in RegSet /\ i.t \in RegSet /\ i.imm \in Int

ASSUME IsaAssumption ==
    /\ {0, V0, A0, RA} \subseteq RegSet
    /\ INT_MAX \in Int
    /\ \A w \in DOMAIN ISA : IsInstruction(ISA[w])

Illegal == [op |-> "illegal", s |-> 0, t |-> 0, imm |-> 0]

Decode(w) == IF w \in DOMAIN ISA THEN ISA[w] ELSE Illegal

SetReg(r, idx, v) == [[r EXCEPT ![idx] = v] EXCEPT ![0] = 0]

Bit(w, b) == (w \div b) % 2 = 1
OrBit(w, b) == IF Bit(w, b) THEN w ELSE w + b
XorBit(w, b) == IF Bit(w, b) THEN w - b ELSE w + b

\* Register results.  addi is addiu unless it overflows (see Cpu!Fault).
Alu(i, regs) ==
    CASE i.op \in {"addiu", "addi"} -> regs[i.s] + i.imm
      [] i.op = "ori"               -> OrBit(regs[i.s], i.imm)
      [] i.op = "xori"              -> XorBit(regs[i.s], i.imm)

\* The word a load puts into its delay slot.  The unaligned halves merge with
\* out_regs, that is with a load still in flight to the same register.
LoadValue(i, out, mem, gte) ==
    LET word == Word(mem, i.imm)
        cur  == out[i.t]
    IN  CASE i.op = "lw"   -> word
          [] i.op = "lwl"  -> (cur % HALF) + HALF * (word % HALF)
          [] i.op = "lwr"  -> (HALF * (cur \div HALF)) + ((word \div HALF) % HALF)
          [] i.op = "mfc2" -> gte

\* The word a store writes; swl and swr keep the other half of the memory word.
StoreValue(i, regs, mem) ==
    LET word == Word(mem, i.imm)
        v    == regs[i.t]
    IN  CASE i.op = "sw"  -> v
          [] i.op = "swl" -> (HALF * (word \div HALF)) + ((v \div HALF) % HALF)
          [] i.op = "swr" -> (word % HALF) + HALF * (v % HALF)

AluOps   == {"addiu", "addi", "ori", "xori"}
LoadOps  == {"lw", "lwl", "lwr", "mfc2"}
StoreOps == {"sw", "swl", "swr"}
JumpOps  == {"beq", "bne", "bltzal", "j", "jal", "jr", "jalr"}
GteOps   == {"cop2", "mfc2"}

Linked(i, out, link) ==
    CASE i.op \in {"jal", "bltzal"} -> SetReg(out, RA, link)   \* bltzal links whether taken or not
      [] i.op = "jalr"             -> SetReg(out, i.t, link)
      [] OTHER                     -> out

Taken(i, regs) ==
    \/ i.op = "beq" /\ regs[i.s] = regs[i.t]
    \/ i.op = "bne" /\ regs[i.s] # regs[i.t]
    \/ i.op = "bltzal" /\ regs[i.s] < 0
    \/ i.op \in {"j", "jal", "jr", "jalr"}

\* pc is the address of the delay slot, as cpu->pc is when a branch executes.
Target(i, regs, pc) ==
    Wrap(CASE i.op \in {"beq", "bne", "bltzal"} -> pc + i.imm
           [] i.op \in {"jr", "jalr"}           -> regs[i.s]
           [] OTHER                             -> i.imm)

\* Registers after the instruction: out holds them with the pending load in.
RegsAfter(i, regs, out, lo, link) ==
    CASE i.op \in AluOps  -> SetReg(out, i.t, Alu(i, regs))
      [] i.op = "mflo"    -> SetReg(out, i.t, lo)
      [] i.op \in JumpOps -> Linked(i, out, link)
      [] i.op = "syscall" -> SetReg(out, V0, 0)   \* one the emulator serves
      [] OTHER            -> out

LoadAfter(i, out, mem, gte) ==
    IF i.op \in LoadOps THEN [reg |-> i.t, val |-> LoadValue(i, out, mem, gte)] ELSE NoLoad

LoAfter(i, regs, lo) == IF i.op = "mult" THEN regs[i.s] ELSE lo

GteAfter(i, gte) == IF i.op = "cop2" THEN (gte + 1) % HALF ELSE gte
=============================================================================
