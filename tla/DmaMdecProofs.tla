--------------------------- MODULE DmaMdecProofs ---------------------------
(***************************************************************************)
(* Proofs about the DMA controller, for any set of channels and any        *)
(* program, about its walks of ordering tables, for any contents of RAM,   *)
(* and about the motion decoder it feeds and drains, for any streams and   *)
(* any sizes within the limits of a command.                               *)
(***************************************************************************)
EXTENDS Dma, DmaList, Mdec, SequenceTheorems, FiniteSetTheorems, WellFoundedInduction, TLAPS

IInv == TypeOK /\ LineFollowsDicr /\ EdgesOwed /\ NoTransferInFlight

(* Whatever DICR becomes, looking for an edge keeps line and debt exact.   *)
LEMMA UpdateIrqKeeps ==
  ASSUME IInv, NEW d \in Dicr, UpdateIrq(d)
  PROVE  /\ dicr' \in Dicr /\ irq_line' \in BOOLEAN
         /\ irq_pending' \in BOOLEAN /\ owed' \in BOOLEAN
         /\ LineFollowsDicr' /\ EdgesOwed'
<1>1. Irq(d) \in BOOLEAN /\ Irq(dicr) \in BOOLEAN
  BY DEF Irq, Dicr, IInv, TypeOK
<1>2. dicr' = d /\ irq_line' = Irq(d)
  BY DEF UpdateIrq
<1>3. /\ irq_pending' = (irq_pending \/ (Irq(d) /\ ~irq_line))
      /\ owed' = (owed \/ (Irq(d) /\ ~Irq(dicr)))
  BY DEF UpdateIrq
<1>4. irq_line = Irq(dicr) /\ irq_pending = owed
  BY DEF IInv, LineFollowsDicr, EdgesOwed
<1>5. irq_pending' = owed'
  BY <1>3, <1>4
<1>6. irq_pending' \in BOOLEAN /\ owed' \in BOOLEAN
  BY <1>3, Zenon
<1>. QED
  BY <1>1, <1>2, <1>5, <1>6 DEF LineFollowsDicr, EdgesOwed

LEMMA WriteChannelKeeps ==
  ASSUME IInv, NEW p \in Ports, NEW c \in Channel, WriteChannel(p, c)
  PROVE  IInv'
<1>1. istat' = istat /\ channels \in [Ports -> Channel] /\ dicr \in Dicr
  BY DEF WriteChannel, IInv, TypeOK
<1>2. CASE /\ Active(c)
           /\ channels' = [channels EXCEPT ![p] = Done(c)]
           /\ UpdateIrq(MarkDone(dicr, p))
  <2>1. MarkDone(dicr, p) \in Dicr
    BY <1>1 DEF MarkDone, Dicr
  <2>2. Done(c) \in Channel /\ ~Active(Done(c))
    BY DEF Done, Channel, Active
  <2>3. channels' \in [Ports -> Channel] /\ NoTransferInFlight'
    BY <1>1, <1>2, <2>2 DEF IInv, NoTransferInFlight
  <2>. QED
    BY <1>1, <1>2, <2>1, <2>3, UpdateIrqKeeps DEF IInv, TypeOK
<1>3. CASE /\ ~Active(c)
           /\ channels' = [channels EXCEPT ![p] = c]
           /\ UNCHANGED <<dicr, irq_line, irq_pending, owed>>
  <2>1. channels' \in [Ports -> Channel] /\ NoTransferInFlight'
    BY <1>1, <1>3 DEF IInv, NoTransferInFlight
  <2>. QED
    BY <1>1, <1>3, <2>1 DEF IInv, TypeOK, LineFollowsDicr, EdgesOwed
<1>. QED
  BY <1>2, <1>3 DEF WriteChannel

LEMMA SetInterruptKeeps ==
  ASSUME IInv, NEW v \in Dicr, SetInterrupt(v), UNCHANGED <<channels, istat>>
  PROVE  IInv'
<1>. DEFINE d == [force |-> v.force, en |-> v.en, chan_en |-> v.chan_en,
                  flags |-> dicr.flags \ v.flags]
<1>1. d \in Dicr
  BY DEF IInv, TypeOK, Dicr
<1>2. UpdateIrq(d)
  BY DEF SetInterrupt
<1>3. NoTransferInFlight'
  BY DEF IInv, NoTransferInFlight
<1>. HIDE DEF d
<1>. QED
  BY <1>1, <1>2, <1>3, UpdateIrqKeeps DEF IInv, TypeOK

LEMMA Invariance == Spec => []IInv
<1>1. Init => IInv
  <2>. SUFFICES ASSUME Init PROVE IInv
    OBVIOUS
  <2>1. /\ channels \in [Ports -> Channel] /\ dicr \in Dicr
        /\ NoTransferInFlight /\ EdgesOwed
    BY DEF Init, Idle, Channel, Syncs, Dicr, NoTransferInFlight, Active, EdgesOwed
  <2>2. LineFollowsDicr
    BY DEF Init, LineFollowsDicr, Irq
  <2>. QED
    BY <2>1, <2>2 DEF Init, IInv, TypeOK
<1>2. IInv /\ [Next]_vars => IInv'
  <2>. SUFFICES ASSUME IInv, [Next]_vars PROVE IInv'
    OBVIOUS
  <2>1. ASSUME NEW p \in Ports, NEW c \in Controls \cup {channels[p]}, WriteChannel(p, c)
        PROVE  IInv'
    <3>1. c \in Channel
      BY ControlsAssumption DEF IInv, TypeOK
    <3>. QED
      BY <2>1, <3>1, WriteChannelKeeps
  <2>2. ASSUME NEW v \in Dicr, WriteDicr(v) PROVE IInv'
    BY <2>2, SetInterruptKeeps DEF WriteDicr
  <2>3. ASSUME NEW b \in BOOLEAN, WriteDicrForce(b) PROVE IInv'
    <3>1. [dicr EXCEPT !.force = b] \in Dicr
      BY DEF IInv, TypeOK, Dicr
    <3>. QED
      BY <2>3, <3>1, SetInterruptKeeps DEF WriteDicrForce
  <2>4. ASSUME NEW b \in BOOLEAN, NEW s \in SUBSET Ports, WriteDicrEnables(b, s)
        PROVE  IInv'
    <3>1. [dicr EXCEPT !.en = b, !.chan_en = s] \in Dicr
      BY DEF IInv, TypeOK, Dicr
    <3>. QED
      BY <2>4, <3>1, SetInterruptKeeps DEF WriteDicrEnables
  <2>5. ASSUME NEW s \in SUBSET Ports, WriteDicrFlags(s) PROVE IInv'
    <3>1. [dicr EXCEPT !.flags = s] \in Dicr
      BY DEF IInv, TypeOK, Dicr
    <3>. QED
      BY <2>5, <3>1, SetInterruptKeeps DEF WriteDicrFlags
  <2>6. ASSUME AckIStat \/ Step \/ UNCHANGED vars PROVE IInv'
    <3>1. /\ UNCHANGED <<channels, dicr, irq_line>>
          /\ istat' \in BOOLEAN /\ irq_pending' \in BOOLEAN /\ owed' \in BOOLEAN
          /\ irq_pending' = owed'
      BY <2>6 DEF AckIStat, Step, vars, IInv, TypeOK, EdgesOwed
    <3>. QED
      BY <3>1 DEF IInv, TypeOK, LineFollowsDicr, EdgesOwed, NoTransferInFlight
  <2>. QED
    BY <2>1, <2>2, <2>3, <2>4, <2>5, <2>6 DEF Next, Program
<1>. QED
  BY <1>1, <1>2, PTL DEF Spec

(* The remembered interrupt condition always is DICR bit 31.               *)
THEOREM LineIsCurrent == Spec => []LineFollowsDicr
BY Invariance, PTL DEF IInv

(* An interrupt is pending exactly for the undelivered rising edges.       *)
THEOREM NoEdgeLost == Spec => []EdgesOwed
BY Invariance, PTL DEF IInv

(* Transfers are complete when the store that starts them returns.         *)
THEOREM TransfersComplete == Spec => []NoTransferInFlight
BY Invariance, PTL DEF IInv
-----------------------------------------------------------------------------
(* Induction over the natural numbers, for sets.                           *)
LEMMA SetInduction ==
  ASSUME NEW T, 0 \in T, \A n \in T \cap Nat : n + 1 \in T
  PROVE  Nat \subseteq T
<1>. SUFFICES ASSUME Nat \ T # {} PROVE FALSE
  OBVIOUS
<1>1. IsWellFoundedOn(OpToRel(<, Nat), Nat)
  BY NatLessThanWellFounded
<1>2. PICK x \in Nat \ T : \A y \in Nat \ T : ~(<<y, x>> \in OpToRel(<, Nat))
  <2>. HIDE DEF IsWellFoundedOn, OpToRel
  <2>. QED BY <1>1, WFMin
<1>3. x \in Nat /\ x # 0
  OBVIOUS
<1>4. x - 1 \in Nat
  BY <1>3
<1>5. <<x - 1, x>> \in OpToRel(<, Nat)
  BY <1>3, <1>4 DEF OpToRel
<1>6. x - 1 \in T
  BY <1>2, <1>4, <1>5
<1>7. (x - 1) + 1 = x
  BY <1>3
<1>. QED
  BY <1>4, <1>6, <1>7

(* f is defined by recursion over 0 .. N.                                  *)
Follows(f, S, s0, N, step) ==
  f \in [0 .. N -> S] /\ f[0] = s0 /\ \A k \in 1 .. N : f[k] = step[<<k, f[k - 1]>>]

(* Every recursion over 0 .. N defines a function.                         *)
LEMMA RecursionExists ==
  ASSUME NEW S, NEW s0 \in S, NEW N \in Nat, NEW step \in [(1 .. N) \X S -> S]
  PROVE  \E f : Follows(f, S, s0, N, step)
<1>. DEFINE T == {n \in Nat : n <= N =>
                     \E f \in [0 .. n -> S] :
                        f[0] = s0 /\ \A k \in 1 .. n : f[k] = step[<<k, f[k - 1]>>]}
<1>1. 0 \in T
  <2>. DEFINE g == [k \in 0 .. 0 |-> s0]
  <2>1. g \in [0 .. 0 -> S] /\ g[0] = s0 /\ 1 .. 0 = {}
    OBVIOUS
  <2>. HIDE DEF g
  <2>. QED BY <2>1
<1>2. ASSUME NEW n \in T \cap Nat PROVE n + 1 \in T
  <2>. SUFFICES ASSUME n + 1 <= N
                PROVE  \E f \in [0 .. n + 1 -> S] :
                         f[0] = s0 /\ \A k \in 1 .. n + 1 : f[k] = step[<<k, f[k - 1]>>]
    OBVIOUS
  <2>1. n <= N /\ n + 1 \in 1 .. N
    OBVIOUS
  <2>2. PICK f \in [0 .. n -> S] :
           f[0] = s0 /\ \A k \in 1 .. n : f[k] = step[<<k, f[k - 1]>>]
    BY <2>1
  <2>3. PICK s \in S : s = step[<<n + 1, f[n]>>]
    BY <2>1
  <2>. DEFINE g == [k \in 0 .. n + 1 |-> IF k <= n THEN f[k] ELSE s]
  <2>4. g \in [0 .. n + 1 -> S]
    OBVIOUS
  <2>5. g[0] = s0 /\ g[n + 1] = s /\ \A k \in 0 .. n : g[k] = f[k]
    BY <2>2
  <2>. HIDE DEF g
  <2>6. ASSUME NEW k \in 1 .. n + 1 PROVE g[k] = step[<<k, g[k - 1]>>]
    <3>1. CASE k = n + 1
      <4>1. k - 1 = n /\ n \in 0 .. n
        BY <3>1
      <4>. QED BY <2>3, <2>5, <3>1, <4>1
    <3>2. CASE k # n + 1
      <4>1. k \in 1 .. n /\ k - 1 \in 0 .. n /\ k \in 0 .. n
        BY <3>2
      <4>. QED BY <2>2, <2>5, <4>1
    <3>. QED BY <3>1, <3>2
  <2>. QED BY <2>4, <2>5, <2>6
<1>3. N \in T
  <2>. HIDE DEF T
  <2>. QED BY <1>1, <1>2, SetInduction
<1>. QED
  BY <1>3 DEF Follows

LEMMA DivMod ==
  ASSUME NEW a \in Int, NEW b \in Nat \ {0}
  PROVE  /\ a % b \in 0 .. b - 1 /\ a \div b \in Int
         /\ a = b * (a \div b) + (a % b)
  OBVIOUS

LEMMA MulGap ==
  ASSUME NEW b \in Nat \ {0}, NEW d \in Int, d >= 1
  PROVE  b * d >= b
  OBVIOUS

(* Quotient and remainder are unique.                                      *)
LEMMA DivUnique ==
  ASSUME NEW b \in Nat \ {0}, NEW q \in Int, NEW r \in 0 .. b - 1,
         NEW p \in Int, NEW s \in 0 .. b - 1, b * q + r = b * p + s
  PROVE  q = p /\ r = s
  <1>1. b * (q - p) = s - r
    OBVIOUS
  <1>2. q - p >= 1 => FALSE
    BY <1>1, MulGap
  <1>3. b * (p - q) = r - s
    OBVIOUS
  <1>4. p - q >= 1 => FALSE
    BY <1>3, MulGap
  <1>5. q = p
    BY <1>2, <1>4
  <1> QED
    BY <1>5

(* A number below the divisor is its own remainder.                        *)
LEMMA ModSmall ==
  ASSUME NEW b \in Nat \ {0}, NEW a \in 0 .. b - 1
  PROVE  a % b = a
  <1>1. a \in Int
    OBVIOUS
  <1>2. PICK q \in Int, r \in 0 .. b - 1 : q = a \div b /\ r = a % b
    BY <1>1, DivMod, Zenon
  <1>3. a = b * q + r
    BY <1>1, <1>2, DivMod, Zenon
  <1>4. b * 0 + a = b * q + r /\ 0 \in Int
    BY <1>3
  <1>5. a = r
    BY <1>4, DivUnique
  <1> QED
    BY <1>2, <1>5, Zenon

(* Wrapping an address before or after stepping it is the same.            *)
LEMMA ModAdd ==
  ASSUME NEW a \in Int, NEW c \in Int, NEW b \in Nat \ {0}
  PROVE  ((a % b) + c) % b = (a + c) % b
  <1>3. ASSUME NEW x \in Int
        PROVE  \E e \in Int, r \in 0 .. b - 1 : r = x % b /\ x = b * e + r
    <2>1. /\ x % b \in 0 .. b - 1 /\ x \div b \in Int
          /\ x = b * (x \div b) + (x % b)
      BY DivMod, Zenon
    <2> QED
      BY <2>1, Zenon
  <1>1. PICK q \in Int, m \in 0 .. b - 1 : m = a % b /\ a = b * q + m
    BY <1>3, Zenon
  <1>2. m \in Int /\ m + c \in Int /\ a + c \in Int
    OBVIOUS
  <1>4. PICK e \in Int, r \in 0 .. b - 1 : r = (m + c) % b /\ m + c = b * e + r
    BY <1>2, <1>3, Zenon
  <1>5. PICK f \in Int, s \in 0 .. b - 1 : s = (a + c) % b /\ a + c = b * f + s
    BY <1>2, <1>3, Zenon
  <1>6. b * (q + e) = b * q + b * e
    OBVIOUS
  <1>7. b * (q + e) + r = b * f + s
    <2>1. PICK u \in Int, v \in Int, w \in Int : u = b * q /\ v = b * e /\ w = b * f
      OBVIOUS
    <2>2. a = u + m /\ m + c = v + r /\ a + c = w + s /\ b * (q + e) = u + v
      BY <1>1, <1>4, <1>5, <1>6, <2>1, Zenon
    <2>3. (u + v) + r = w + s
      BY <2>2
    <2> QED
      BY <2>1, <2>2, <2>3, Zenon
  <1>8. r = s
    BY <1>7, DivUnique
  <1> QED
    BY <1>1, <1>4, <1>5, <1>8, Zenon

(* An address plus a length short of RAM wraps to itself only at length 0. *)
LEMMA ModInjective ==
  ASSUME NEW a \in Int, NEW b \in Nat \ {0}, NEW i \in 0 .. b - 1, NEW j \in 0 .. b - 1,
         (a - i) % b = (a - j) % b
  PROVE  i = j
<1>1. ASSUME NEW x \in Int
      PROVE  \E e \in Int, r \in 0 .. b - 1 : r = x % b /\ x = b * e + r
  <2>1. /\ x % b \in 0 .. b - 1 /\ x \div b \in Int
        /\ x = b * (x \div b) + (x % b)
    BY DivMod, Zenon
  <2>. QED BY <2>1, Zenon
<1>2. PICK e \in Int, r \in 0 .. b - 1 : r = (a - i) % b /\ a - i = b * e + r
  <2>1. a - i \in Int
    OBVIOUS
  <2>. QED BY <1>1, <2>1, Zenon
<1>3. PICK f \in Int, s \in 0 .. b - 1 : s = (a - j) % b /\ a - j = b * f + s
  <2>1. a - j \in Int
    OBVIOUS
  <2>. QED BY <1>1, <2>1, Zenon
<1>4. b * (e - f) = j - i /\ b * (f - e) = i - j
  BY <1>2, <1>3
<1>5. e - f >= 1 => FALSE
  BY <1>4, MulGap
<1>6. f - e >= 1 => FALSE
  BY <1>4, MulGap
<1>7. e = f
  BY <1>5, <1>6
<1>. QED
  BY <1>2, <1>3, <1>7

(* The nodes of a list, and the words of their packets, are what their     *)
(* recursive definitions say.                                              *)
RamOK == base \in Addr /\ ram \in [Addr -> Header]

NodesOK == /\ Nodes \in [0 .. WORDS -> Addr]
           /\ Nodes[0] = base
           /\ \A k \in 1 .. WORDS : Nodes[k] = ram[Nodes[k - 1]].next

WordsOK == /\ PacketWords \in [0 .. WORDS -> Seq(Addr)]
           /\ PacketWords[0] = <<>>
           /\ \A k \in 1 .. WORDS :
                 PacketWords[k] = PacketWords[k - 1] \o Packet(Nodes[k - 1])

LEMMA NodesDef == RamOK => NodesOK
<1>. SUFFICES ASSUME RamOK PROVE NodesOK
  OBVIOUS
<1>0. ASSUME NEW k \in 0 .. WORDS PROVE k = 0 \/ (k # 0 /\ k \in 1 .. WORDS)
  BY SizesAssumption
<1>. DEFINE step == [x \in (1 .. WORDS) \X Addr |-> ram[x[2]].next]
<1>1. step \in [(1 .. WORDS) \X Addr -> Addr]
  BY DEF RamOK, Header
<1>2. \A k \in 1 .. WORDS, a \in Addr : step[<<k, a>>] = ram[a].next
  OBVIOUS
<1>3. PICK f \in [0 .. WORDS -> Addr] :
         f[0] = base /\ \A k \in 1 .. WORDS : f[k] = step[<<k, f[k - 1]>>]
  <2>1. base \in Addr /\ WORDS \in Nat
    BY SizesAssumption DEF RamOK
  <2>2. \E f : Follows(f, Addr, base, WORDS, step)
    <3>. HIDE DEF step, Addr
    <3>. QED BY <1>1, <2>1, RecursionExists
  <2>. QED BY <2>2 DEF Follows
<1>4. \A k \in 1 .. WORDS : f[k] = ram[f[k - 1]].next
  <2>. SUFFICES ASSUME NEW k \in 1 .. WORDS PROVE f[k] = ram[f[k - 1]].next
    OBVIOUS
  <2>1. k - 1 \in 0 .. WORDS
    BY SizesAssumption
  <2>2. f[k - 1] \in Addr /\ f[k] = step[<<k, f[k - 1]>>]
    BY <1>3, <2>1, Zenon
  <2>. QED BY <1>2, <2>2, Zenon
<1>5. f = [k \in 0 .. WORDS |-> IF k = 0 THEN base ELSE ram[f[k - 1]].next]
  <2>. SUFFICES ASSUME NEW k \in 0 .. WORDS
                PROVE  f[k] = IF k = 0 THEN base ELSE ram[f[k - 1]].next
    <3>1. f = [k \in 0 .. WORDS |-> f[k]]
      BY <1>3, Zenon
    <3>. QED BY <3>1, Zenon
  <2>. QED BY <1>0, <1>3, <1>4, Zenon
<1>6. Nodes = [k \in 0 .. WORDS |-> IF k = 0 THEN base ELSE ram[Nodes[k - 1]].next]
  BY <1>5 DEF Nodes
<1>. HIDE DEF Nodes, step
<1>7. /\ Nodes[0] = base
      /\ \A k \in 1 .. WORDS : Nodes[k] = ram[Nodes[k - 1]].next
  BY <1>6, SizesAssumption
<1>. DEFINE U == {n \in Nat : n <= WORDS => Nodes[n] \in Addr}
<1>8. ASSUME NEW n \in U \cap Nat PROVE n + 1 \in U
  <2>. SUFFICES ASSUME n + 1 <= WORDS PROVE Nodes[n + 1] \in Addr
    OBVIOUS
  <2>1. Nodes[n] \in Addr /\ n + 1 \in 1 .. WORDS /\ (n + 1) - 1 = n
    BY SizesAssumption
  <2>2. Nodes[n + 1] = ram[Nodes[n]].next
    BY <1>7, <2>1
  <2>. QED BY <2>1, <2>2 DEF RamOK, Header
<1>9. Nat \subseteq U
  <2>1. 0 \in U
    BY <1>7 DEF RamOK
  <2>. HIDE DEF U
  <2>. QED BY <1>8, <2>1, SetInduction
<1>10. \A k \in 0 .. WORDS : Nodes[k] \in Addr
  BY <1>9, SizesAssumption
<1>11. Nodes \in [0 .. WORDS -> Addr]
  BY <1>6, <1>10
<1>. QED
  BY <1>7, <1>11 DEF NodesOK

(* A packet's words lie in RAM.                                            *)
LEMMA PacketType ==
  ASSUME RamOK, NEW a \in Addr
  PROVE  Packet(a) \in Seq(Addr) /\ Len(Packet(a)) = ram[a].count /\ ram[a].count \in Nat
<1>1. PICK n \in Nat : n = ram[a].count
  BY SizesAssumption DEF RamOK, Header
<1>2. \A i \in 1 .. n : (a + i) % WORDS \in Addr
  BY SizesAssumption DEF Addr
<1>3. Packet(a) = [i \in 1 .. n |-> (a + i) % WORDS]
  BY <1>1 DEF Packet
<1>. QED
  BY <1>1, <1>2, <1>3

LEMMA WordsDef == RamOK => WordsOK
<1>. SUFFICES ASSUME RamOK PROVE WordsOK
  OBVIOUS
<1>1. NodesOK
  BY NodesDef
<1>2. \A k \in 1 .. WORDS : Nodes[k - 1] \in Addr /\ Packet(Nodes[k - 1]) \in Seq(Addr)
  <2>1. \A k \in 1 .. WORDS : k - 1 \in 0 .. WORDS
    BY SizesAssumption
  <2>. QED BY <1>1, <2>1, PacketType DEF NodesOK
<1>. DEFINE step == [x \in (1 .. WORDS) \X Seq(Addr) |-> x[2] \o Packet(Nodes[x[1] - 1])]
<1>3. step \in [(1 .. WORDS) \X Seq(Addr) -> Seq(Addr)]
  BY <1>2
<1>4. \A k \in 1 .. WORDS, s \in Seq(Addr) : step[<<k, s>>] = s \o Packet(Nodes[k - 1])
  OBVIOUS
<1>5. PICK f \in [0 .. WORDS -> Seq(Addr)] :
         f[0] = <<>> /\ \A k \in 1 .. WORDS : f[k] = step[<<k, f[k - 1]>>]
  <2>1. <<>> \in Seq(Addr) /\ WORDS \in Nat
    BY SizesAssumption
  <2>2. \E f : Follows(f, Seq(Addr), <<>>, WORDS, step)
    <3>. HIDE DEF step, Addr
    <3>. QED BY <1>3, <2>1, RecursionExists
  <2>. QED BY <2>2 DEF Follows
<1>6. \A k \in 1 .. WORDS : f[k] = f[k - 1] \o Packet(Nodes[k - 1])
  <2>1. \A k \in 1 .. WORDS : k - 1 \in 0 .. WORDS
    BY SizesAssumption
  <2>. QED BY <1>4, <1>5, <2>1
<1>7. f = [n \in 0 .. WORDS |-> IF n = 0 THEN <<>> ELSE f[n - 1] \o Packet(Nodes[n - 1])]
  <2>1. ASSUME NEW n \in 0 .. WORDS
        PROVE  f[n] = IF n = 0 THEN <<>> ELSE f[n - 1] \o Packet(Nodes[n - 1])
    <3>1. n = 0 \/ n \in 1 .. WORDS
      BY SizesAssumption
    <3>2. \A k \in 1 .. WORDS : k # 0
      OBVIOUS
    <3>. QED BY <1>5, <1>6, <3>1, <3>2, Zenon
  <2>. QED BY <2>1
<1>8. PacketWords = [n \in 0 .. WORDS |->
         IF n = 0 THEN <<>> ELSE PacketWords[n - 1] \o Packet(Nodes[n - 1])]
  BY <1>7 DEF PacketWords
<1>. HIDE DEF PacketWords, step
<1>a. PacketWords[0] = <<>>
  <2>1. 0 \in 0 .. WORDS
    BY SizesAssumption
  <2>. QED BY <1>8, <2>1, Zenon
<1>9. ASSUME NEW k \in 1 .. WORDS
      PROVE  PacketWords[k] = PacketWords[k - 1] \o Packet(Nodes[k - 1])
  <2>1. k \in 0 .. WORDS /\ k # 0
    OBVIOUS
  <2>. QED BY <1>8, <2>1, Zenon
<1>. DEFINE U == {n \in Nat : n <= WORDS => PacketWords[n] \in Seq(Addr)}
<1>10. ASSUME NEW n \in U \cap Nat PROVE n + 1 \in U
  <2>. SUFFICES ASSUME n + 1 <= WORDS PROVE PacketWords[n + 1] \in Seq(Addr)
    OBVIOUS
  <2>1. PacketWords[n] \in Seq(Addr) /\ n + 1 \in 1 .. WORDS /\ (n + 1) - 1 = n
    BY SizesAssumption
  <2>2. PacketWords[n + 1] = PacketWords[n] \o Packet(Nodes[n])
    BY <1>9, <2>1
  <2>3. Packet(Nodes[n]) \in Seq(Addr)
    BY <1>2, <2>1
  <2>. QED BY <2>1, <2>2, <2>3
<1>11. Nat \subseteq U
  <2>0. <<>> \in Seq(Addr)
    OBVIOUS
  <2>1. 0 \in U
    BY <1>a, <2>0
  <2>. HIDE DEF U
  <2>. QED BY <1>10, <2>1, SetInduction
<1>12. \A k \in 0 .. WORDS : PacketWords[k] \in Seq(Addr)
  BY <1>11, SizesAssumption
<1>13. PacketWords \in [0 .. WORDS -> Seq(Addr)]
  BY <1>8, <1>12
<1>. QED
  BY <1>a, <1>9, <1>13 DEF WordsOK

(* Neither changes while RAM and the start of the list stay.               *)
LEMMA ListKept ==
  ASSUME UNCHANGED <<base, ram>>
  PROVE  Nodes' = Nodes /\ PacketWords' = PacketWords
<1>1. Nodes' = Nodes
  BY DEF Nodes
<1>2. \A a : Packet(a)' = Packet(a)
  BY DEF Packet
<1>. QED
  BY <1>1, <1>2 DEF PacketWords, Packet

(* The headers visited so far are the first nodes of the list, all         *)
(* different, none but the last an end marker.                             *)
Count == Cardinality(visited)

ListTypeOK ==
  /\ pc \in Between \cup {"header", "packet"}
  /\ ram \in [Addr -> Header] /\ base \in Addr /\ addr \in Addr
  /\ visited \subseteq Addr /\ sent \in Seq(Addr)

Seen ==
  /\ Count \in 0 .. WORDS
  /\ visited = {Nodes[j] : j \in 0 .. Count - 1}
  /\ \A i, j \in 0 .. Count - 1 : Nodes[i] = Nodes[j] => i = j
  /\ pc # "idle" => \A j \in 0 .. Count - 2 : ~ram[Nodes[j]].end

(* The first m words of the packet at a.                                   *)
Part(a, m) == [i \in 1 .. m |-> (a + i) % WORDS]

(* What has been sent is their packets, the one under way in part.         *)
Sending ==
  /\ pc = "header" =>
       /\ addr = Nodes[Count] /\ sent = PacketWords[Count]
       /\ Count > 0 => ~ram[Nodes[Count - 1]].end
  /\ pc = "packet" =>
       /\ Count > 0
       /\ header = ram[Nodes[Count - 1]]
       /\ left \in 0 .. header.count
       /\ addr = (Nodes[Count - 1] + (header.count - left)) % WORDS
       /\ sent = PacketWords[Count - 1] \o Part(Nodes[Count - 1], header.count - left)
  /\ pc = "ended" =>
       Count > 0 /\ ram[Nodes[Count - 1]].end /\ sent = PacketWords[Count]
  /\ pc = "looped" =>
       /\ Count > 0 /\ ~ram[Nodes[Count - 1]].end
       /\ Nodes[Count] \in visited /\ sent = PacketWords[Count]

(* The table that the OTC channel linked is still there, and a walk from   *)
(* its start goes down it.                                                 *)
Linked ==
  table # {} =>
    \E n \in 1 .. WORDS :
      /\ table = Entries(base, n)
      /\ \A i \in 0 .. n - 1 : ram[(base - i) % WORDS]
                                 = IF i = n - 1 THEN End ELSE Link((base - i) % WORDS)
      /\ pc # "idle" => visited = Entries(base, Count) /\ sent = <<>>
      /\ pc = "header" => addr = (base - Count) % WORDS /\ Count < n
      /\ pc = "packet" => /\ Count \in 1 .. n /\ left = 0
                          /\ header = ram[(base - (Count - 1)) % WORDS]
      /\ pc = "ended" => Count = n
      /\ pc # "looped"

ListInv == ListTypeOK /\ Linked /\ (pc # "idle" => Seen /\ Sending)

(* RAM has WORDS addresses.                                                *)
LEMMA AddrFinite ==
  IsFiniteSet(Addr) /\ Cardinality(Addr) = WORDS /\ WORDS \in Nat \ {0}
<1>1. 0 \in Int /\ WORDS - 1 \in Int /\ 0 <= WORDS - 1
  BY SizesAssumption
<1>2. IsFiniteSet(0 .. WORDS - 1)
      /\ Cardinality(0 .. WORDS - 1) = IF 0 > WORDS - 1 THEN 0 ELSE (WORDS - 1) - 0 + 1
  BY <1>1, FS_Interval
<1>. QED
  BY <1>1, <1>2, SizesAssumption DEF Addr

(* What the invariant knows of the nodes, in this state and in the next.   *)
LEMMA ListFacts ==
  /\ ListInv => RamOK /\ NodesOK /\ WordsOK
  /\ RamOK' => NodesOK' /\ WordsOK'
<1>1. ListInv => RamOK
  BY DEF ListInv, ListTypeOK, RamOK
<1>2. RamOK' => NodesOK' /\ WordsOK'
  BY NodesDef, WordsDef, PTL
<1>. QED
  BY <1>1, <1>2, NodesDef, WordsDef

LEMMA StartKeeps == ASSUME ListInv, NEW b \in Addr, StartList(b) PROVE ListInv'
<1>1. /\ pc' = "header" /\ visited' = {} /\ sent' = <<>> /\ base' = b /\ addr' = b
      /\ UNCHANGED <<ram, header, left, table>>
      /\ table # {} => b = base
  BY DEF StartList
<1>2. Count' = 0
  BY <1>1, FS_EmptySet DEF Count
<1>3. ListTypeOK'
  <2>1. <<>> \in Seq(Addr)
    OBVIOUS
  <2>. QED BY <1>1, <2>1 DEF ListInv, ListTypeOK
<1>4. NodesOK' /\ WordsOK'
  BY <1>3, ListFacts DEF ListTypeOK, RamOK
<1>5. Seen'
  BY <1>1, <1>2, SizesAssumption DEF Seen
<1>6. Sending'
  BY <1>1, <1>2, <1>4 DEF Sending, NodesOK, WordsOK
<1>7. Linked'
  <2>. SUFFICES ASSUME table # {} PROVE Linked'
    BY <1>1 DEF Linked
  <2>1. PICK n \in 1 .. WORDS :
          /\ table = Entries(base, n)
          /\ \A i \in 0 .. n - 1 : ram[(base - i) % WORDS]
                                     = IF i = n - 1 THEN End ELSE Link((base - i) % WORDS)
    BY DEF ListInv, Linked
  <2>2. base' = base
    BY <1>1
  <2>3. Entries(base, 0) = {}
    BY DEF Entries
  <2>4. base = (base - 0) % WORDS
    <3>1. base \in 0 .. WORDS - 1 /\ WORDS \in Nat \ {0}
      BY SizesAssumption DEF ListInv, ListTypeOK, Addr
    <3>2. base - 0 = base
      BY <3>1
    <3>. QED BY <3>1, <3>2, ModSmall, Zenon
  <2>5. n > 0
    OBVIOUS
  <2>. QED
    BY <1>1, <1>2, <2>1, <2>2, <2>3, <2>4, <2>5 DEF Linked
<1>. QED
  BY <1>1, <1>3, <1>5, <1>6, <1>7 DEF ListInv

LEMMA ClearKeeps ==
  ASSUME ListInv, NEW b \in Addr, NEW n \in 1 .. WORDS, ClearTable(b, n)
  PROVE  ListInv'
<1>1. /\ pc' = "idle" /\ base' = b /\ table' = Entries(b, n)
      /\ ram' = [a \in Addr |-> IF a = Last(b, n) THEN End
                                ELSE IF a \in Entries(b, n) THEN Link(a) ELSE ram[a]]
      /\ UNCHANGED <<addr, visited, header, left, sent>>
  BY DEF ClearTable
<1>2. \A x \in Int : x % WORDS \in Addr
  BY DivMod, SizesAssumption DEF Addr
<1>3. End \in Header /\ \A a \in Addr : Link(a) \in Header
  <2>1. WORDS - 1 \in Addr /\ 0 \in 0 .. MAX_COUNT
    BY SizesAssumption DEF Addr
  <2>2. \A a \in Addr : (a - 1) % WORDS \in Addr
    BY <1>2 DEF Addr
  <2>. QED BY <2>1, <2>2 DEF End, Link, Header
<1>4. ListTypeOK'
  <2>1. ram' \in [Addr -> Header]
    BY <1>1, <1>3 DEF ListInv, ListTypeOK
  <2>. QED BY <1>1, <2>1 DEF ListInv, ListTypeOK, Between
<1>5. ASSUME NEW i \in 0 .. n - 1
      PROVE  ram'[(b - i) % WORDS] = IF i = n - 1 THEN End ELSE Link((b - i) % WORDS)
  <2>1. (b - i) % WORDS \in Addr /\ (b - i) % WORDS \in Entries(b, n)
    BY <1>2 DEF Addr, Entries
  <2>2. (b - i) % WORDS = (b - (n - 1)) % WORDS => i = n - 1
    <3>1. b \in Int /\ i \in 0 .. WORDS - 1 /\ n - 1 \in 0 .. WORDS - 1
      BY SizesAssumption DEF Addr
    <3>. QED BY <3>1, ModInjective, SizesAssumption
  <2>. QED BY <1>1, <2>1, <2>2 DEF Last
<1>6. Linked'
  BY <1>1, <1>5 DEF Linked
<1>. QED
  BY <1>1, <1>4, <1>6 DEF ListInv

LEMMA HeaderKeeps == ASSUME ListInv, ReadHeader PROVE ListInv'
<1>1. /\ pc = "header" /\ addr \notin visited /\ visited' = visited \cup {addr}
      /\ header' = ram[addr] /\ left' = ram[addr].count /\ pc' = "packet"
      /\ UNCHANGED <<ram, base, addr, sent, table>>
  BY DEF ReadHeader
<1>2. NodesOK /\ WordsOK /\ Nodes' = Nodes /\ PacketWords' = PacketWords
  BY <1>1, ListFacts, ListKept
<1>3. /\ ram \in [Addr -> Header] /\ addr \in Addr /\ visited \subseteq Addr
      /\ sent \in Seq(Addr)
  BY DEF ListInv, ListTypeOK
<1>4. PICK c \in 0 .. WORDS :
        /\ c = Count /\ visited = {Nodes[j] : j \in 0 .. c - 1}
        /\ \A i, j \in 0 .. c - 1 : Nodes[i] = Nodes[j] => i = j
        /\ \A j \in 0 .. c - 2 : ~ram[Nodes[j]].end
        /\ addr = Nodes[c] /\ sent = PacketWords[c]
        /\ c > 0 => ~ram[Nodes[c - 1]].end
  BY <1>1 DEF ListInv, Seen, Sending
<1>5. Count' = c + 1 /\ c + 1 \in 0 .. WORDS
  <2>1. IsFiniteSet(visited)
    BY <1>3, AddrFinite, FS_Subset
  <2>2. Cardinality(visited \cup {addr}) = Cardinality(visited) + 1
    BY <1>1, <2>1, FS_AddElement
  <2>3. visited \cup {addr} \subseteq Addr
    BY <1>3
  <2>4. Cardinality(visited \cup {addr}) <= Cardinality(Addr)
    BY <2>3, AddrFinite, FS_Subset
  <2>. QED BY <1>1, <1>4, <2>2, <2>4, AddrFinite DEF Count
<1>6. ListTypeOK'
  BY <1>1, <1>3 DEF ListInv, ListTypeOK
<1>7. Seen'
  <2>1. visited' = {Nodes[j] : j \in 0 .. c}
    <3>1. 0 .. c = (0 .. c - 1) \cup {c}
      OBVIOUS
    <3>. QED BY <1>1, <1>4, <3>1
  <2>2. ASSUME NEW i \in 0 .. c, NEW j \in 0 .. c, Nodes[i] = Nodes[j] PROVE i = j
    <3>1. \A k \in 0 .. c - 1 : Nodes[k] # Nodes[c]
      BY <1>1, <1>4
    <3>2. (i \in 0 .. c - 1 \/ i = c) /\ (j \in 0 .. c - 1 \/ j = c)
      OBVIOUS
    <3>. QED BY <1>4, <2>2, <3>1, <3>2
  <2>3. \A j \in 0 .. c - 1 : ~ram[Nodes[j]].end
    <3>1. \A j \in 0 .. c - 1 : j \in 0 .. c - 2 \/ (c > 0 /\ j = c - 1)
      OBVIOUS
    <3>. QED BY <1>4, <3>1
  <2>4. (c + 1) - 1 = c /\ (c + 1) - 2 = c - 1
    OBVIOUS
  <2>. QED BY <1>1, <1>2, <1>5, <2>1, <2>2, <2>3, <2>4 DEF Seen
<1>8. Sending'
  <2>1. PICK m \in Nat : m = ram[addr].count
    BY <1>3, SizesAssumption DEF Header
  <2>2. (addr + (m - m)) % WORDS = addr
    <3>1. addr \in 0 .. WORDS - 1 /\ WORDS \in Nat \ {0}
      BY <1>3, SizesAssumption DEF Addr
    <3>2. addr + (m - m) = addr
      BY <3>1
    <3>. QED BY <3>1, <3>2, ModSmall, Zenon
  <2>3. [i \in 1 .. m - m |-> (addr + i) % WORDS] = <<>>
    OBVIOUS
  <2>4. sent = sent \o <<>>
    BY <1>3
  <2>5. (c + 1) - 1 = c /\ c + 1 > 0 /\ m \in 0 .. m
    OBVIOUS
  <2>. QED BY <1>1, <1>2, <1>4, <1>5, <2>1, <2>2, <2>3, <2>4, <2>5 DEF Sending, Part
<1>9. Linked'
  <2>. SUFFICES ASSUME table # {} PROVE Linked'
    BY <1>1 DEF Linked
  <2>1. PICK n \in 1 .. WORDS :
          /\ table = Entries(base, n)
          /\ \A i \in 0 .. n - 1 : ram[(base - i) % WORDS]
                                     = IF i = n - 1 THEN End ELSE Link((base - i) % WORDS)
          /\ visited = Entries(base, c) /\ sent = <<>>
          /\ addr = (base - c) % WORDS /\ c < n
    BY <1>1, <1>4 DEF ListInv, Linked
  <2>2. visited' = Entries(base, c + 1)
    <3>1. 0 .. (c + 1) - 1 = (0 .. c - 1) \cup {c}
      OBVIOUS
    <3>. QED BY <1>1, <2>1, <3>1 DEF Entries
  <2>3. ram[addr].count = 0
    <3>1. c \in 0 .. n - 1
      BY <2>1
    <3>2. ram[addr] = End \/ ram[addr] = Link(addr)
      BY <2>1, <3>1
    <3>3. End.count = 0 /\ Link(addr).count = 0
      BY DEF End, Link
    <3>. QED BY <3>2, <3>3
  <2>4. c + 1 \in 1 .. n /\ (c + 1) - 1 = c
    BY <2>1
  <2>. QED BY <1>1, <1>5, <2>1, <2>2, <2>3, <2>4 DEF Linked
<1>. QED
  BY <1>6, <1>7, <1>8, <1>9 DEF ListInv

LEMMA LoopKeeps == ASSUME ListInv, LoopDetected PROVE ListInv'
<1>1. /\ pc = "header" /\ addr \in visited /\ pc' = "looped"
      /\ UNCHANGED <<ram, base, addr, visited, header, left, sent, table>>
  BY DEF LoopDetected
<1>2. Nodes' = Nodes /\ PacketWords' = PacketWords /\ Count' = Count
  BY <1>1, ListKept DEF Count
<1>3. PICK c \in 0 .. WORDS :
        /\ c = Count /\ visited = {Nodes[j] : j \in 0 .. c - 1}
        /\ addr = Nodes[c] /\ sent = PacketWords[c]
        /\ c > 0 => ~ram[Nodes[c - 1]].end
  BY <1>1 DEF ListInv, Seen, Sending
<1>4. c > 0
  BY <1>1, <1>3
<1>5. Seen' /\ Sending'
  BY <1>1, <1>2, <1>3, <1>4 DEF ListInv, Seen, Sending
<1>6. table = {}
  <2>. SUFFICES ASSUME table # {} PROVE FALSE
    OBVIOUS
  <2>1. PICK n \in 1 .. WORDS :
          visited = Entries(base, c) /\ addr = (base - c) % WORDS /\ c < n
    BY <1>1, <1>3 DEF ListInv, Linked
  <2>2. PICK i \in 0 .. c - 1 : (base - i) % WORDS = (base - c) % WORDS
    BY <1>1, <2>1 DEF Entries
  <2>3. i \in 0 .. WORDS - 1 /\ c \in 0 .. WORDS - 1 /\ base \in Int
    BY <2>1, SizesAssumption DEF ListInv, ListTypeOK, Addr
  <2>4. i = c
    BY <2>2, <2>3, ModInjective, SizesAssumption
  <2>. QED BY <2>4
<1>7. Linked'
  BY <1>1, <1>6 DEF Linked
<1>8. ListTypeOK'
  BY <1>1 DEF ListInv, ListTypeOK, Between
<1>. QED
  BY <1>5, <1>7, <1>8 DEF ListInv

(* A word appended to a concatenation is appended to its last part.        *)
LEMMA AppendAfter ==
  \A s \in Seq(Addr), f \in Seq(Addr), x \in Addr : Append(s \o f, x) = s \o Append(f, x)
<1>. SUFFICES ASSUME NEW s \in Seq(Addr), NEW f \in Seq(Addr), NEW x \in Addr
              PROVE  Append(s \o f, x) = s \o Append(f, x)
  OBVIOUS
<1>1. PICK u \in Seq(Addr), v \in Seq(Addr) : u = <<x>> /\ v = s \o f
  <2>1. <<x>> \in Seq(Addr)
    OBVIOUS
  <2>2. s \o f \in Seq(Addr)
    BY ConcatProperties
  <2>. QED BY <2>1, <2>2, Zenon
<1>2. Append(v, x) = v \o <<x>>
  BY AppendIsConcat, Zenon
<1>3. Append(f, x) = f \o <<x>>
  BY AppendIsConcat, Zenon
<1>4. (s \o f) \o u = s \o (f \o u)
  BY ConcatAssociative
<1>. QED
  BY <1>1, <1>2, <1>3, <1>4, Zenon

(* One more word of a packet.                                              *)
LEMMA AppendWord ==
  ASSUME NEW s \in Seq(Addr), NEW a \in Addr, NEW m \in Nat
  PROVE  LET word(i) == (a + i) % WORDS
         IN  /\ (((a + m) % WORDS) + 1) % WORDS = word(m + 1)
             /\ Append(s \o [i \in 1 .. m |-> word(i)], word(m + 1))
                  = s \o [i \in 1 .. m + 1 |-> word(i)]
             /\ Append(s \o [i \in 1 .. m |-> word(i)], word(m + 1)) \in Seq(Addr)
<1>. DEFINE word(i) == (a + i) % WORDS
<1>1. a \in Int /\ \A x \in Int : x % WORDS \in Addr
  BY DivMod, SizesAssumption DEF Addr
<1>2. \A i \in 1 .. m + 1 : word(i) \in Addr
  <2>1. \A i \in 1 .. m + 1 : a + i \in Int
    BY <1>1
  <2>. QED BY <1>1, <2>1
<1>3. (((a + m) % WORDS) + 1) % WORDS = word(m + 1)
  <2>1. a + m \in Int /\ (a + m) + 1 = a + (m + 1)
    BY <1>1
  <2>2. (((a + m) % WORDS) + 1) % WORDS = ((a + m) + 1) % WORDS
    BY <2>1, ModAdd, SizesAssumption
  <2>. QED BY <2>1, <2>2
<1>4. PICK g \in [1 .. m + 1 -> Addr] : \A i \in 1 .. m + 1 : g[i] = word(i)
  <2>1. [i \in 1 .. m + 1 |-> word(i)] \in [1 .. m + 1 -> Addr]
    BY <1>2
  <2>. HIDE DEF word
  <2>. QED BY <2>1
<1>. HIDE DEF word
<1>5. [i \in 1 .. m |-> word(i)] = [i \in 1 .. m |-> g[i]]
      /\ [i \in 1 .. m + 1 |-> word(i)] = g
  BY <1>4
<1>6. [i \in 1 .. m |-> g[i]] \in Seq(Addr) /\ g \in Seq(Addr)
  OBVIOUS
<1>7. Append(s \o [i \in 1 .. m |-> g[i]], g[m + 1]) = s \o g
  <2>1. PICK f \in Seq(Addr) : f = [i \in 1 .. m |-> g[i]]
    BY <1>6
  <2>2. Len(f) = m /\ \A i \in 1 .. m : f[i] = g[i]
    BY <2>1
  <2>3. PICK x \in Addr : x = g[m + 1]
    OBVIOUS
  <2>4. PICK l \in Seq(Addr) : l = Append(f, x)
    BY AppendProperties
  <2>5. l = g
    <3>1. Len(l) = m + 1 /\ Len(g) = m + 1
      BY <2>2, <2>4
    <3>2. ASSUME NEW i \in 1 .. m + 1 PROVE l[i] = g[i]
      <4>1. i \in 1 .. m \/ i = m + 1
        OBVIOUS
      <4>. QED BY <2>2, <2>3, <2>4, <4>1
    <3>. QED BY <1>6, <3>1, <3>2
  <2>6. Append(s \o f, x) = s \o Append(f, x)
    BY AppendAfter, Zenon
  <2>. QED BY <2>1, <2>3, <2>4, <2>5, <2>6, Zenon
<1>8. word(m + 1) = g[m + 1]
  BY <1>4
<1>9. Append(s \o g, word(m + 1)) \in Seq(Addr) /\ s \o g \in Seq(Addr)
  BY <1>6, <1>8
<1>10. (((a + m) % WORDS) + 1) % WORDS = word(m + 1)
  BY <1>3 DEF word
<1>. QED
  BY <1>5, <1>7, <1>8, <1>9, <1>10 DEF word

LEMMA PartGrows ==
  ASSUME NEW s \in Seq(Addr), NEW a \in Addr, NEW m \in Nat
  PROVE  /\ (((a + m) % WORDS) + 1) % WORDS = (a + (m + 1)) % WORDS
         /\ (a + (m + 1)) % WORDS \in Addr
         /\ Append(s \o Part(a, m), (a + (m + 1)) % WORDS) = s \o Part(a, m + 1)
         /\ s \o Part(a, m + 1) \in Seq(Addr)
<1>1. /\ (((a + m) % WORDS) + 1) % WORDS = (a + (m + 1)) % WORDS
      /\ Append(s \o Part(a, m), (a + (m + 1)) % WORDS) = s \o Part(a, m + 1)
      /\ Append(s \o Part(a, m), (a + (m + 1)) % WORDS) \in Seq(Addr)
  BY AppendWord DEF Part
<1>2. a + (m + 1) \in Int
  BY DEF Addr
<1>3. (a + (m + 1)) % WORDS \in Addr
  BY <1>2, DivMod, SizesAssumption DEF Addr
<1>. QED
  BY <1>1, <1>3, Zenon

LEMMA SendKeeps == ASSUME ListInv, SendWord PROVE ListInv'
<1>1. pc = "packet" /\ pc' = "packet" /\ left > 0 /\ left' = left - 1
  BY DEF SendWord
<1>2. addr' = (addr + 1) % WORDS /\ sent' = Append(sent, addr')
  BY DEF SendWord
<1>3. UNCHANGED <<ram, base, visited, header, table>>
  BY DEF SendWord
<1>4. Nodes' = Nodes /\ PacketWords' = PacketWords /\ Count' = Count
  BY <1>3, ListKept DEF Count
<1>5. ListTypeOK /\ Linked /\ Seen /\ Sending
  BY <1>1 DEF ListInv
<1>6. NodesOK /\ WordsOK
  BY ListFacts
<1>7. PICK c \in 1 .. WORDS, k \in 0 .. WORDS : c = Count /\ k = Count - 1
  <2>1. Count \in 0 .. WORDS /\ Count > 0
    BY <1>1, <1>5 DEF Seen, Sending
  <2>. QED BY <2>1, SizesAssumption
<1>8. PICK a \in Addr, s \in Seq(Addr) : a = Nodes[k] /\ s = PacketWords[k]
  <2>1. Nodes[k] \in Addr
    BY <1>6 DEF NodesOK
  <2>2. PacketWords[k] \in Seq(Addr)
    BY <1>6 DEF WordsOK
  <2>. QED BY <2>1, <2>2
<1>9. /\ header = ram[Nodes[Count - 1]] /\ left \in 0 .. header.count
      /\ addr = (Nodes[Count - 1] + (header.count - left)) % WORDS
      /\ sent = PacketWords[Count - 1] \o Part(Nodes[Count - 1], header.count - left)
  BY <1>1, <1>5, Zenon DEF Sending
<1>10. header = ram[a]
  BY <1>7, <1>8, <1>9, Zenon
<1>11. PICK h \in Nat, l \in Nat, m \in Nat :
          h = header.count /\ l = left /\ m = h - l /\ l \in 1 .. h
  <2>1. ram[a] \in Header
    BY <1>5 DEF ListTypeOK
  <2>2. header.count \in Nat
    BY <1>10, <2>1, SizesAssumption DEF Header
  <2>3. left \in 1 .. header.count
    BY <1>1, <1>9, <2>2
  <2>. QED BY <2>2, <2>3
<1>12. addr = (a + m) % WORDS /\ sent = s \o Part(a, m)
  BY <1>7, <1>8, <1>9, <1>11, Zenon
<1>13. /\ addr' = (a + (m + 1)) % WORDS /\ addr' \in Addr
       /\ sent' = s \o Part(a, m + 1) /\ sent' \in Seq(Addr)
  <2>1. addr' = (a + (m + 1)) % WORDS /\ addr' \in Addr
    BY <1>2, <1>12, PartGrows, Zenon
  <2>2. sent' = Append(s \o Part(a, m), (a + (m + 1)) % WORDS)
    BY <1>2, <1>12, <2>1, Zenon
  <2>3. sent' = s \o Part(a, m + 1) /\ sent' \in Seq(Addr)
    BY <2>2, PartGrows, Zenon
  <2>. QED BY <2>1, <2>3
<1>14. ListTypeOK'
  BY <1>1, <1>3, <1>5, <1>13 DEF ListTypeOK
<1>15. Seen'
  BY <1>1, <1>3, <1>4, <1>5, Zenon DEF Seen
<1>16. Sending'
  <2>1. h - (l - 1) = m + 1 /\ l - 1 \in 0 .. h
    BY <1>11
  <2>2. header' = header /\ ram' = ram /\ left' = l - 1
    BY <1>1, <1>3, <1>11, Zenon
  <2>3. header'.count = h /\ header'.count - left' = m + 1 /\ left' \in 0 .. header'.count
    BY <1>11, <2>1, <2>2, Zenon
  <2>4. Count' > 0
    BY <1>4, <1>7
  <2>5. header' = ram'[Nodes'[Count' - 1]]
    BY <1>4, <1>9, <2>2, Zenon
  <2>6. addr' = (Nodes'[Count' - 1] + (header'.count - left')) % WORDS
    BY <1>4, <1>7, <1>8, <1>13, <2>3, Zenon
  <2>7. sent' = PacketWords'[Count' - 1] \o Part(Nodes'[Count' - 1], header'.count - left')
    BY <1>4, <1>7, <1>8, <1>13, <2>3, Zenon
  <2>8. pc' # "header" /\ pc' # "ended" /\ pc' # "looped"
    BY <1>1
  <2>. QED BY <2>3, <2>4, <2>5, <2>6, <2>7, <2>8, Zenon DEF Sending
<1>17. Linked'
  <2>1. table = {}
    BY <1>1, <1>5 DEF Linked
  <2>. QED BY <1>3, <2>1 DEF Linked
<1>. QED
  BY <1>1, <1>14, <1>15, <1>16, <1>17, Zenon DEF ListInv

LEMMA NextKeeps == ASSUME ListInv, NextHeader PROVE ListInv'
<1>1. /\ pc = "packet" /\ left = 0
      /\ UNCHANGED <<ram, base, visited, header, left, sent, table>>
  BY DEF NextHeader
<1>2. NodesOK /\ WordsOK /\ Nodes' = Nodes /\ PacketWords' = PacketWords /\ Count' = Count
  BY <1>1, ListFacts, ListKept DEF Count
<1>3. PICK c \in 1 .. WORDS, a \in Addr :
        /\ c = Count /\ a = Nodes[c - 1] /\ header = ram[a]
        /\ sent = PacketWords[c - 1] \o Part(a, header.count - left)
  <2>1. Count \in 1 .. WORDS /\ Count - 1 \in 0 .. WORDS
    BY <1>1, SizesAssumption DEF ListInv, Seen, Sending
  <2>2. Nodes[Count - 1] \in Addr
    BY <1>2, <2>1 DEF NodesOK
  <2>. QED BY <1>1, <2>1, <2>2 DEF ListInv, Sending
<1>4. header \in Header /\ header.count \in Nat /\ header.next \in Addr
  BY <1>3, SizesAssumption DEF ListInv, ListTypeOK, Header
<1>5. sent = PacketWords[c]
  <2>1. header.count - left = header.count
    BY <1>1, <1>4
  <2>2. sent = PacketWords[c - 1] \o Packet(a)
    <3>1. Part(a, header.count) = Packet(a)
      BY <1>3, Zenon DEF Packet, Part
    <3>. QED BY <1>3, <2>1, <3>1, Zenon
  <2>. QED BY <1>2, <1>3, <2>2 DEF WordsOK
<1>6. Nodes[c] = header.next
  BY <1>2, <1>3 DEF NodesOK
<1>7. \/ pc' = "ended" /\ header.end /\ addr' = addr
      \/ pc' = "header" /\ ~header.end /\ addr' = header.next
  BY DEF NextHeader
<1>8. ListTypeOK'
  BY <1>1, <1>4, <1>7 DEF ListInv, ListTypeOK, Between
<1>9. Seen'
  BY <1>1, <1>2, <1>7 DEF ListInv, Seen
<1>10. Sending'
  <2>1. Count' = c /\ sent' = PacketWords'[c] /\ c > 0
    <3>1. Count' = c
      BY <1>2, <1>3
    <3>2. sent' = PacketWords'[c]
      BY <1>1, <1>2, <1>5
    <3>. QED BY <3>1, <3>2
  <2>2. ram'[Nodes'[c - 1]] = header
    BY <1>1, <1>2, <1>3
  <2>3. pc' = "header" => addr' = Nodes'[c] /\ ~ram'[Nodes'[c - 1]].end
    BY <1>2, <1>6, <1>7, <2>2
  <2>4. pc' = "ended" => ram'[Nodes'[c - 1]].end
    BY <1>7, <2>2
  <2>5. pc' = "header" \/ pc' = "ended"
    BY <1>7
  <2>. QED BY <2>1, <2>3, <2>4, <2>5 DEF Sending
<1>11. Linked'
  <2>. SUFFICES ASSUME table # {} PROVE Linked'
    BY <1>1 DEF Linked
  <2>1. PICK n \in 1 .. WORDS :
          /\ table = Entries(base, n)
          /\ \A i \in 0 .. n - 1 : ram[(base - i) % WORDS]
                                     = IF i = n - 1 THEN End ELSE Link((base - i) % WORDS)
          /\ visited = Entries(base, c) /\ sent = <<>>
          /\ c \in 1 .. n /\ header = ram[(base - (c - 1)) % WORDS]
    BY <1>1, <1>3 DEF ListInv, Linked
  <2>2. /\ c = n => header.end
        /\ c # n => ~header.end /\ header.next = (base - c) % WORDS
    <3>1. c - 1 \in 0 .. n - 1 /\ (c - 1 = n - 1 <=> c = n)
      BY <2>1
    <3>2. End.end /\ ~Link((base - (c - 1)) % WORDS).end
          /\ Link((base - (c - 1)) % WORDS).next = (((base - (c - 1)) % WORDS) - 1) % WORDS
      BY DEF End, Link
    <3>3. (((base - (c - 1)) % WORDS) - 1) % WORDS = (base - c) % WORDS
      <4>1. base - (c - 1) \in Int /\ -1 \in Int /\ (base - (c - 1)) + (-1) = base - c
        BY DEF ListInv, ListTypeOK, Addr
      <4>2. (((base - (c - 1)) % WORDS) + (-1)) % WORDS = ((base - (c - 1)) + (-1)) % WORDS
        BY <4>1, ModAdd, SizesAssumption
      <4>3. (base - (c - 1)) % WORDS \in Int
        BY <4>1, DivMod, SizesAssumption
      <4>4. ((base - (c - 1)) % WORDS) - 1 = ((base - (c - 1)) % WORDS) + (-1)
        BY <4>3
      <4>. QED BY <4>1, <4>2, <4>4
    <3>4. /\ c = n => header = End
          /\ c # n => header = Link((base - (c - 1)) % WORDS)
      BY <2>1, <3>1
    <3>. QED BY <3>2, <3>3, <3>4
  <2>3. pc' = "ended" => c = n
    BY <1>7, <2>2
  <2>4. pc' = "header" => c < n /\ addr' = (base - c) % WORDS
    BY <1>7, <2>1, <2>2
  <2>. QED BY <1>1, <1>2, <1>3, <1>7, <2>1, <2>3, <2>4 DEF Linked
<1>. QED
  BY <1>8, <1>9, <1>10, <1>11 DEF ListInv

LEMMA ListStarts == ListInit => ListInv
<1>. SUFFICES ASSUME ListInit PROVE ListInv
  OBVIOUS
<1>1. 0 \in Addr /\ <<>> \in Seq(Addr)
  BY SizesAssumption DEF Addr
<1>. QED
  BY <1>1 DEF ListInit, ListInv, ListTypeOK, Linked, Between

LEMMA ListStutters == ASSUME ListInv, UNCHANGED list_vars PROVE ListInv'
<1>1. UNCHANGED <<pc, ram, base, addr, visited, header, left, sent, table>>
  BY DEF list_vars
<1>2. Nodes' = Nodes /\ PacketWords' = PacketWords /\ Count' = Count
  BY <1>1, ListKept DEF Count
<1>3. ListTypeOK'
  BY <1>1 DEF ListInv, ListTypeOK, Between
<1>4. Linked'
  BY <1>1, <1>2 DEF ListInv, Linked
<1>5. pc' # "idle" => Seen' /\ Sending'
  BY <1>1, <1>2 DEF ListInv, Seen, Sending
<1>. QED
  BY <1>3, <1>4, <1>5 DEF ListInv

LEMMA ListStep == ListInv /\ [ListNext]_list_vars => ListInv'
<1>. SUFFICES ASSUME ListInv, [ListNext]_list_vars PROVE ListInv'
  OBVIOUS
<1>1. CASE UNCHANGED list_vars
  BY <1>1, ListStutters
<1>2. ASSUME NEW b \in Addr, StartList(b) PROVE ListInv'
  BY <1>2, StartKeeps
<1>3. ASSUME NEW b \in Addr, NEW n \in 1 .. WORDS, ClearTable(b, n) PROVE ListInv'
  BY <1>3, ClearKeeps
<1>4. CASE ReadHeader
  BY <1>4, HeaderKeeps
<1>5. CASE LoopDetected
  BY <1>5, LoopKeeps
<1>6. CASE SendWord
  BY <1>6, SendKeeps
<1>7. CASE NextHeader
  BY <1>7, NextKeeps
<1>. QED
  BY <1>1, <1>2, <1>3, <1>4, <1>5, <1>6, <1>7 DEF ListNext, Walk

LEMMA ListInvariance == ListSpec => []ListInv
  BY ListStarts, ListStep, PTL DEF ListSpec

(* A walk that has ended has seen as many headers as the list has nodes.   *)
LEMMA WalkCounts == ASSUME ListInv, Walked PROVE Count \in 1 .. WORDS /\ NodeCount = Count
<1>1. NodesOK /\ ListTypeOK /\ Seen /\ Sending
  BY ListFacts DEF ListInv, Walked
<1>2. PICK c \in 1 .. WORDS : c = Count
  BY <1>1, SizesAssumption DEF Seen, Sending, Walked
<1>3. /\ visited = {Nodes[j] : j \in 0 .. c - 1}
      /\ \A i, j \in 0 .. c - 1 : Nodes[i] = Nodes[j] => i = j
      /\ \A j \in 0 .. c - 2 : ~ram[Nodes[j]].end
      /\ ram[Nodes[c - 1]].end \/ Nodes[c] \in visited
  BY <1>1, <1>2 DEF Seen, Sending, Walked
<1>4. Stops(c - 1)
  <2>1. (c - 1) + 1 = c
    OBVIOUS
  <2>. QED BY <1>3, <2>1 DEF Stops
<1>5. ASSUME NEW k \in 0 .. c - 2 PROVE ~Stops(k)
  <2>1. ~ram[Nodes[k]].end
    BY <1>3
  <2>2. ASSUME NEW j \in 0 .. k PROVE Nodes[j] # Nodes[k + 1]
    <3>1. j \in 0 .. c - 1 /\ k + 1 \in 0 .. c - 1 /\ j # k + 1
      OBVIOUS
    <3>. QED BY <1>3, <3>1
  <2>. QED BY <2>1, <2>2 DEF Stops
<1>. DEFINE stop == {k \in 0 .. WORDS - 1 : Stops(k)}
            first(k) == k \in stop /\ \A j \in stop : k <= j
<1>6. c - 1 \in stop /\ \A j \in stop : c - 1 <= j
  <2>1. c - 1 \in 0 .. WORDS - 1
    BY SizesAssumption
  <2>2. \A j \in 0 .. WORDS - 1 : j \in 0 .. c - 2 \/ c - 1 <= j
    OBVIOUS
  <2>. QED BY <1>4, <1>5, <2>1, <2>2
<1>7. \A k \in stop : (\A j \in stop : k <= j) => k = c - 1
  <2>1. \A k \in stop : k \in Int
    OBVIOUS
  <2>. HIDE DEF stop
  <2>. QED BY <1>6, <2>1
<1>8. (CHOOSE k \in stop : \A j \in stop : k <= j) = c - 1
  <2>. HIDE DEF stop
  <2>1. \E k \in stop : \A j \in stop : k <= j
    BY <1>6
  <2>2. /\ (CHOOSE k \in stop : \A j \in stop : k <= j) \in stop
        /\ \A j \in stop : (CHOOSE k \in stop : \A i \in stop : k <= i) <= j
    BY <2>1
  <2>. QED BY <1>7, <2>2
<1>9. NodeCount = 1 + (c - 1)
  BY <1>8 DEF NodeCount
<1>. QED
  BY <1>2, <1>9

(* GP0 receives the packets of the list, each once and in order, whatever  *)
(* is in RAM, and a table that the OTC channel linked is walked to its end *)
(* (do_dma_linked_list, do_dma_block).                                     *)
THEOREM ListsAreSent == ListSpec => []SendsTheList
<1>1. ListInv => SendsTheList
  <2>. SUFFICES ASSUME ListInv, Walked PROVE SendsTheList
    BY DEF SendsTheList
  <2>1. Count \in 1 .. WORDS /\ NodeCount = Count
    BY WalkCounts
  <2>2. sent = PacketWords[NodeCount]
    BY <2>1 DEF ListInv, Sending, Walked
  <2>3. table # {} => pc = "ended" /\ visited = table /\ sent = <<>>
    BY DEF ListInv, Linked, Walked
  <2>. QED BY <2>2, <2>3 DEF SendsTheList
<1>. QED
  BY ListInvariance, <1>1, PTL


-----------------------------------------------------------------------------
(* The motion decoder.                                                     *)

(* A function whose value at x depends only on values of smaller measure.  *)
WellFounded(S, V, m, N, G) ==
  /\ V # {} /\ N \in Nat /\ m \in [S -> 0 .. N]
  /\ G \in [S \X [S -> V] -> V]
  /\ \A x \in S : \A g, h \in [S -> V] :
       (\A y \in S : m[y] < m[x] => g[y] = h[y]) => G[<<x, g>>] = G[<<x, h>>]

\* A function that takes the value G prescribes everywhere.
Solution(S, V, G, f) == f \in [S -> V] /\ \A x \in S : f[x] = G[<<x, f>>]

\* Such a prescription has a solution: what a recursive definition needs.
LEMMA SolutionExists ==
  ASSUME NEW S, NEW V, NEW m, NEW N, NEW G, WellFounded(S, V, m, N, G)
  PROVE  \E f : Solution(S, V, G, f)
<1>. PICK v \in V : TRUE
  BY DEF WellFounded
<1>. USE DEF WellFounded
<1>. DEFINE Upto(n, f) == \A x \in S : m[x] < n => f[x] = G[<<x, f>>]
            T == {n \in Nat : \E f \in [S -> V] : Upto(n, f)}
<1>1. 0 \in T
  <2>1. [x \in S |-> v] \in [S -> V] /\ Upto(0, [x \in S |-> v])
    OBVIOUS
  <2>. QED
    BY <2>1
<1>2. ASSUME NEW n \in T \cap Nat PROVE n + 1 \in T
  <2>1. PICK f \in [S -> V] : Upto(n, f)
    OBVIOUS
  <2>. DEFINE g == [x \in S |-> IF m[x] < n THEN f[x] ELSE G[<<x, f>>]]
  <2>2. g \in [S -> V]
    OBVIOUS
  <2>3. \A y \in S : m[y] < n => g[y] = f[y]
    OBVIOUS
  <2>4. ASSUME NEW x \in S, m[x] < n + 1 PROVE g[x] = G[<<x, g>>]
    <3>1. m[x] \in Nat /\ m[x] <= n
      BY <2>4
    <3>2. \A y \in S : m[y] < m[x] => g[y] = f[y]
      BY <2>3, <3>1
    <3>3. G[<<x, g>>] = G[<<x, f>>]
      BY <2>2, <3>2
    <3>4. g[x] = G[<<x, f>>]
      BY <2>1
    <3>. QED
      BY <3>3, <3>4
  <2>. HIDE DEF g
  <2>5. Upto(n + 1, g)
    BY <2>4
  <2>6. \E h \in [S -> V] : Upto(n + 1, h)
    <3>. HIDE DEF Upto
    <3>. QED BY <2>2, <2>5, Zenon
  <2>7. n + 1 \in Nat
    OBVIOUS
  <2>. HIDE DEF Upto
  <2>. QED
    BY <2>6, <2>7, Zenon
<1>. HIDE DEF T
<1>3. Nat \subseteq T
  BY <1>1, <1>2, SetInduction
<1>4. N + 1 \in T
  BY <1>3
<1>5. PICK f \in [S -> V] : Upto(N + 1, f)
  BY <1>4 DEF T
<1>6. \A x \in S : m[x] < N + 1
  OBVIOUS
<1>. QED
  BY <1>5, <1>6 DEF Solution

\* What is assumed of the sizes.
LEMMA MdecFacts ==
  /\ LAST \in Nat /\ SIDE \in Nat /\ SIDE > 0 /\ TABLE_WORDS \in Nat /\ TABLE_WORDS > 0
  /\ \A d \in 0 .. 3 : ROW_WORDS[d] \in Nat /\ ROW_WORDS[d] > 0
  /\ PARAM_CAP \in Nat /\ OUT_CAP \in Nat /\ MAX_WORDS \in Nat
  /\ 2 * MAX_WORDS <= PARAM_CAP /\ 4 * TABLE_WORDS <= PARAM_CAP
<1>1. \A n \in Nat \ {0} : n \in Nat /\ n > 0
  OBVIOUS
<1>2. SIDE \in Nat \ {0} /\ TABLE_WORDS \in Nat \ {0}
      /\ \A d \in 0 .. 3 : ROW_WORDS[d] \in Nat \ {0}
  BY MdecAssumption, Zenon
<1>3. /\ LAST \in Nat /\ PARAM_CAP \in Nat /\ OUT_CAP \in Nat /\ MAX_WORDS \in Nat
      /\ 2 * MAX_WORDS <= PARAM_CAP /\ 4 * TABLE_WORDS <= PARAM_CAP
  BY MdecAssumption, Zenon
<1>4. SIDE \in Nat /\ SIDE > 0 /\ TABLE_WORDS \in Nat /\ TABLE_WORDS > 0
  BY <1>1, <1>2, Zenon
<1>5. \A d \in 0 .. 3 : ROW_WORDS[d] \in Nat /\ ROW_WORDS[d] > 0
  BY <1>1, <1>2, Zenon
<1>. QED
  BY <1>3, <1>4, <1>5, Zenon

(* What a walk over the halves of a block finds.                           *)
Found == [next : Nat, coeffs : SUBSET (0 .. LAST)]

\* With the coefficient k in front of what is found from there on.
InFront(rest, k) == IF rest = NoBlock THEN NoBlock ELSE [rest EXCEPT !.coeffs = @ \cup {k}]

\* What the walk finds at position i with k the last coefficient.
WalkStep(W, p, c, i, k) ==
  IF k = LAST THEN [next |-> i, coeffs |-> {k}]
  ELSE IF i > Len(p) THEN (IF c THEN [next |-> i, coeffs |-> {k}] ELSE NoBlock)
  ELSE IF p[i] = EOB \/ k + p[i] + 1 > LAST THEN [next |-> i + 1, coeffs |-> {k}]
  ELSE InFront(W[i + 1][k + p[i] + 1], k)

\* W holds what the walk finds from everywhere.
WalkRule(W, p, pos, c) ==
  \A i \in pos .. Len(p) + 1 : \A k \in 0 .. LAST : W[i][k] = WalkStep(W, p, c, i, k)

\* A half is padding or a run.
LEMMA HalfFacts == ASSUME NEW h \in Half, h # EOB PROVE h \in Nat
BY DEF Half

\* A run that ends inside the block ends at one of its coefficients.
LEMMA RunInside ==
  \A k \in 0 .. LAST, h \in Nat : ~(k + h + 1 > LAST) => k + h + 1 \in 0 .. LAST
<1>1. PICK n \in Nat : n = LAST
  BY MdecFacts, Zenon
<1>2. \A k \in 0 .. n, h \in Nat : ~(k + h + 1 > n) => k + h + 1 \in 0 .. n
  OBVIOUS
<1>. QED
  BY <1>1, <1>2, Zenon

\* The position behind one position of a range.
LEMMA NextBack ==
  ASSUME NEW a \in Nat, NEW m \in Nat, NEW n \in Nat, NEW i \in a .. m + 1, m + 1 - i = n + 1
  PROVE  i + 1 \in a .. m + 1 /\ m + 1 - (i + 1) = n
OBVIOUS

\* A coefficient in front neither makes nor loses a block.
LEMMA InFrontFound ==
  ASSUME NEW r \in Found, NEW k \in 0 .. LAST
  PROVE  /\ InFront(r, k) \in Found
         /\ r.next = 0 => r = NoBlock \/ r.coeffs # {}
         /\ r = NoBlock => InFront(r, k) = NoBlock
         /\ r # NoBlock => InFront(r, k).next = r.next /\ InFront(r, k).coeffs = r.coeffs \cup {k}
BY DEF InFront, Found, NoBlock

\* One step of the walk finds a block or nothing.
LEMMA StepFound ==
  ASSUME NEW p \in Seq(Half), NEW pos \in Nat \ {0}, NEW c \in BOOLEAN,
         NEW W, NEW i \in pos .. Len(p) + 1, NEW k \in 0 .. LAST,
         i <= Len(p) => \A j \in 0 .. LAST : W[i + 1][j] \in Found
  PROVE  WalkStep(W, p, c, i, k) \in Found
<1>1. {k} \in SUBSET (0 .. LAST) /\ i \in Nat /\ i + 1 \in Nat /\ NoBlock \in Found
  BY DEF Found, NoBlock
<1>2. ASSUME i <= Len(p), p[i] # EOB, ~(k + p[i] + 1 > LAST) PROVE InFront(W[i + 1][k + p[i] + 1], k) \in Found
  <2>1. p[i] \in Nat
    BY <1>1, <1>2, HalfFacts
  <2>2. k + p[i] + 1 \in 0 .. LAST
    BY <1>2, <2>1, RunInside, Zenon
  <2>. QED
    BY <1>2, <2>2, InFrontFound
<1>. QED
  BY <1>1, <1>2 DEF WalkStep, Found

(* Coefficients is the end of a walk.                                      *)
LEMMA WalkExists ==
  ASSUME NEW p \in Seq(Half), NEW pos \in Nat \ {0}, NEW c \in BOOLEAN
  PROVE  \E W \in [pos .. Len(p) + 1 -> [0 .. LAST -> Found]] : WalkRule(W, p, pos, c)
<1>. DEFINE S == pos .. Len(p) + 1
            V == [0 .. LAST -> Found]
            m == [i \in S |-> Len(p) + 1 - i]
            G == [z \in S \X [S -> V] |-> [k \in 0 .. LAST |-> WalkStep(z[2], p, c, z[1], k)]]
<1>1. [k \in 0 .. LAST |-> NoBlock] \in V
  BY DEF NoBlock, Found
<1>2. m \in [S -> 0 .. Len(p) + 1]
  OBVIOUS
<1>3. ASSUME NEW f \in [S -> V], NEW i \in S PROVE [k \in 0 .. LAST |-> WalkStep(f, p, c, i, k)] \in V
  <2>1. i <= Len(p) => i + 1 \in S
    OBVIOUS
  <2>2. i <= Len(p) => \A j \in 0 .. LAST : f[i + 1][j] \in Found
    BY <2>1
  <2>3. \A k \in 0 .. LAST : WalkStep(f, p, c, i, k) \in Found
    BY <2>2, StepFound
  <2>. QED
    BY <2>3
<1>4. G \in [S \X [S -> V] -> V]
  <2>1. ASSUME NEW z \in S \X [S -> V] PROVE [k \in 0 .. LAST |-> WalkStep(z[2], p, c, z[1], k)] \in V
    <3>1. z[1] \in S /\ z[2] \in [S -> V]
      OBVIOUS
    <3>. HIDE DEF S, V
    <3>. QED
      BY <1>3, <3>1
  <2>. HIDE DEF S, V
  <2>. QED
    BY <2>1
<1>5. ASSUME NEW i \in S, NEW g \in [S -> V], NEW h \in [S -> V], \A j \in S : m[j] < m[i] => g[j] = h[j]
      PROVE  G[<<i, g>>] = G[<<i, h>>]
  <2>1. i <= Len(p) => i + 1 \in S /\ m[i + 1] < m[i]
    OBVIOUS
  <2>2. i <= Len(p) => g[i + 1] = h[i + 1]
    BY <1>5, <2>1
  <2>3. \A k \in 0 .. LAST : WalkStep(g, p, c, i, k) = WalkStep(h, p, c, i, k)
    BY <2>2 DEF WalkStep
  <2>4. G[<<i, g>>] = [k \in 0 .. LAST |-> WalkStep(g, p, c, i, k)]
    OBVIOUS
  <2>5. G[<<i, h>>] = [k \in 0 .. LAST |-> WalkStep(h, p, c, i, k)]
    OBVIOUS
  <2>. QED
    BY <2>3, <2>4, <2>5
<1>6. \A f \in [S -> V] : \A i \in S : G[<<i, f>>] = [k \in 0 .. LAST |-> WalkStep(f, p, c, i, k)]
  OBVIOUS
<1>7. Len(p) + 1 \in Nat
  OBVIOUS
<1>8. \E f \in [S -> V] : \A i \in S : f[i] = G[<<i, f>>]
  <2>1. \A i \in S : \A g, h \in [S -> V] :
          (\A j \in S : m[j] < m[i] => g[j] = h[j]) => G[<<i, g>>] = G[<<i, h>>]
    BY <1>5
  <2>2. WellFounded(S, V, m, Len(p) + 1, G)
    <3>. HIDE DEF S, V, m, G
    <3>. QED
      BY <1>1, <1>2, <1>4, <1>7, <2>1 DEF WellFounded
  <2>3. \E f : Solution(S, V, G, f)
    <3>. HIDE DEF S, V, m, G
    <3>. QED
      BY <2>2, SolutionExists, Zenon
  <2>. HIDE DEF S, V, m, G
  <2>. QED
    BY <2>3 DEF Solution
<1>9. PICK f \in [S -> V] : \A i \in S : f[i] = G[<<i, f>>]
  BY <1>8
<1>10. \A i \in S : \A k \in 0 .. LAST : f[i][k] = WalkStep(f, p, c, i, k)
  <2>1. ASSUME NEW i \in S PROVE f[i] = [k \in 0 .. LAST |-> WalkStep(f, p, c, i, k)]
    <3>. HIDE DEF S, V, m, G
    <3>. QED
      BY <1>6, <1>9
  <2>2. ASSUME NEW i \in S, NEW k \in 0 .. LAST PROVE f[i][k] = WalkStep(f, p, c, i, k)
    <3>. HIDE DEF S
    <3>. QED
      BY <2>1
  <2>. QED
    BY <2>2
<1>. QED
  BY <1>10 DEF WalkRule

\* What Coefficients computes is where such a walk begins.
LEMMA CoefficientsWalk ==
  ASSUME NEW p \in Seq(Half), NEW pos \in 1 .. Len(p), NEW c \in BOOLEAN
  PROVE  \E W : WalkRule(W, p, pos, c) /\ Coefficients(p, pos, c) = W[pos + 1][0]
<1>. DEFINE S == pos .. Len(p) + 1
            Eq(W) == W = [i \in S |-> [k \in 0 .. LAST |->
                            IF k = LAST THEN [next |-> i, coeffs |-> {k}]
                            ELSE IF i > Len(p) THEN (IF c THEN [next |-> i, coeffs |-> {k}] ELSE NoBlock)
                            ELSE IF p[i] = EOB \/ k + p[i] + 1 > LAST THEN [next |-> i + 1, coeffs |-> {k}]
                            ELSE LET rest == W[i + 1][k + p[i] + 1]
                                 IN  IF rest = NoBlock THEN NoBlock ELSE [rest EXCEPT !.coeffs = @ \cup {k}]]]
            walk == CHOOSE W : Eq(W)
<1>1. \A W : Eq(W) <=> W = [i \in S |-> [k \in 0 .. LAST |-> WalkStep(W, p, c, i, k)]]
  BY DEF WalkStep, InFront
<1>2. PICK f \in [S -> [0 .. LAST -> Found]] : WalkRule(f, p, pos, c)
  BY WalkExists
<1>3. f = [i \in S |-> [k \in 0 .. LAST |-> WalkStep(f, p, c, i, k)]]
  <2>1. \A i \in S : f[i] = [k \in 0 .. LAST |-> WalkStep(f, p, c, i, k)]
    <3>. SUFFICES ASSUME NEW i \in S PROVE f[i] = [k \in 0 .. LAST |-> WalkStep(f, p, c, i, k)]
      OBVIOUS
    <3>1. f[i] = [k \in 0 .. LAST |-> f[i][k]]
      OBVIOUS
    <3>2. \A k \in 0 .. LAST : f[i][k] = WalkStep(f, p, c, i, k)
      BY <1>2 DEF WalkRule
    <3>. QED
      BY <3>1, <3>2
  <2>. QED
    BY <2>1
<1>. HIDE DEF Eq
<1>4. Eq(f)
  BY <1>1, <1>3
<1>5. Eq(walk)
  BY <1>4
<1>6. walk = [i \in S |-> [k \in 0 .. LAST |-> WalkStep(walk, p, c, i, k)]]
  <2>. HIDE DEF walk
  <2>. QED BY <1>1, <1>5
<1>7. WalkRule(walk, p, pos, c)
  <2>. HIDE DEF walk
  <2>1. ASSUME NEW i \in S PROVE walk[i] = [k \in 0 .. LAST |-> WalkStep(walk, p, c, i, k)]
    <3>. HIDE DEF S
    <3>1. PICK w : w = walk
      OBVIOUS
    <3>2. w = [j \in S |-> [k \in 0 .. LAST |-> WalkStep(w, p, c, j, k)]]
      BY <1>6, <3>1, Zenon
    <3>. QED
      BY <3>1, <3>2
  <2>2. ASSUME NEW i \in S, NEW k \in 0 .. LAST PROVE walk[i][k] = WalkStep(walk, p, c, i, k)
    <3>. HIDE DEF S
    <3>. QED
      BY <2>1
  <2>. QED BY <2>2 DEF WalkRule
<1>8. Coefficients(p, pos, c) = walk[pos + 1][0]
  BY DEF Coefficients, walk, Eq
<1>. QED
  BY <1>7, <1>8

(* A walk ends inside the buffer, or nowhere.                              *)
LEMMA WalkTyped ==
  ASSUME NEW p \in Seq(Half), NEW pos \in Nat \ {0}, NEW c \in BOOLEAN, NEW W, WalkRule(W, p, pos, c)
  PROVE  \A i \in pos .. Len(p) + 1 : \A k \in 0 .. LAST :
           W[i][k] \in Found /\ (W[i][k] = NoBlock \/ W[i][k].next \in i .. Len(p) + 1)
<1>. DEFINE Good(i) == \A k \in 0 .. LAST :
                         W[i][k] \in Found /\ (W[i][k] = NoBlock \/ W[i][k].next \in i .. Len(p) + 1)
            T == {n \in Nat : \A i \in pos .. Len(p) + 1 : Len(p) + 1 - i = n => Good(i)}
<1>1. ASSUME NEW i \in pos .. Len(p) + 1, i <= Len(p) => Good(i + 1) PROVE Good(i)
  <2>. SUFFICES ASSUME NEW k \in 0 .. LAST
                PROVE  W[i][k] \in Found /\ (W[i][k] = NoBlock \/ W[i][k].next \in i .. Len(p) + 1)
    OBVIOUS
  <2>1. W[i][k] = WalkStep(W, p, c, i, k)
    BY DEF WalkRule
  <2>2. WalkStep(W, p, c, i, k) \in Found
    <3>1. i <= Len(p) => \A j \in 0 .. LAST : W[i + 1][j] \in Found
      BY <1>1
    <3>. QED
      BY <3>1, StepFound
  <2>3. CASE k = LAST \/ i > Len(p)
    BY <2>1, <2>2, <2>3 DEF WalkStep
  <2>4. CASE k # LAST /\ i <= Len(p) /\ (p[i] = EOB \/ k + p[i] + 1 > LAST)
    BY <2>1, <2>2, <2>4 DEF WalkStep
  <2>5. CASE k # LAST /\ i <= Len(p) /\ ~(p[i] = EOB \/ k + p[i] + 1 > LAST)
    <3>1. p[i] \in Nat /\ k + p[i] + 1 \in 0 .. LAST
      <4>1. p[i] \in Half
        BY <2>5
      <4>2. p[i] \in Nat
        BY <2>5, <4>1, HalfFacts, Zenon
      <4>. QED BY <2>5, <4>2, RunInside, Zenon
    <3>2. W[i][k] = InFront(W[i + 1][k + p[i] + 1], k)
      BY <2>1, <2>5 DEF WalkStep
    <3>. DEFINE r == W[i + 1][k + p[i] + 1]
    <3>3. r \in Found /\ (r = NoBlock \/ r.next \in i + 1 .. Len(p) + 1)
      BY <1>1, <2>5, <3>1
    <3>. HIDE DEF r
    <3>4. InFront(r, k) = NoBlock \/ InFront(r, k).next = r.next
      BY <3>3, InFrontFound
    <3>5. InFront(r, k) = NoBlock \/ InFront(r, k).next \in i .. Len(p) + 1
      BY <3>3, <3>4, InFrontFound
    <3>. QED
      BY <2>1, <2>2, <3>2, <3>5 DEF r
  <2>. QED
    BY <2>3, <2>4, <2>5
<1>. HIDE DEF Good
<1>2. 0 \in T
  <2>1. ASSUME NEW i \in pos .. Len(p) + 1, Len(p) + 1 - i = 0 PROVE Good(i)
    BY <1>1, <2>1
  <2>. QED BY <2>1
<1>3. ASSUME NEW n \in T \cap Nat PROVE n + 1 \in T
  <2>1. ASSUME NEW i \in pos .. Len(p) + 1, Len(p) + 1 - i = n + 1 PROVE Good(i)
    <3>1. i + 1 \in pos .. Len(p) + 1 /\ Len(p) + 1 - (i + 1) = n
      <4>1. PICK m \in Nat : m = Len(p)
        OBVIOUS
      <4>2. i \in pos .. m + 1 /\ m + 1 - i = n + 1
        BY <2>1, <4>1, Zenon
      <4>3. n \in Nat
        BY <1>3
      <4>4. i + 1 \in pos .. m + 1 /\ m + 1 - (i + 1) = n
        BY <4>2, <4>3, NextBack
      <4>. QED
        BY <4>1, <4>4, Zenon
    <3>2. Good(i + 1)
      BY <1>3, <3>1
    <3>. QED
      BY <1>1, <3>2
  <2>. QED BY <2>1
<1>. HIDE DEF T
<1>4. Nat \subseteq T
  BY <1>2, <1>3, SetInduction
<1>5. ASSUME NEW i \in pos .. Len(p) + 1 PROVE Good(i)
  <2>1. Len(p) + 1 - i \in Nat
    OBVIOUS
  <2>. QED
    BY <1>4, <2>1 DEF T
<1>. QED
  BY <1>5 DEF Good

(* The buffer q is found in p, s halves on.  Nothing follows it there, or  *)
(* it is read as the beginning of something longer.                        *)
Embedded(q, d, p, c, s) ==
  /\ Len(q) + s <= Len(p) /\ \A i \in 1 .. Len(q) : q[i] = p[i + s]
  /\ d => c /\ Len(q) + s = Len(p)

\* The same buffer, apart from what was dropped in front of it.
Same(q, d, p, c, s) == Embedded(q, d, p, c, s) /\ Len(q) + s = Len(p) /\ c = d

\* What was found, s halves on.
Shifted(r, s) == [next |-> r.next + s, coeffs |-> r.coeffs]

\* What is found in q is found in p, and in the same buffer nothing else.
Simulates(y, w, s, same) ==
  /\ y # NoBlock => w = Shifted(y, s)
  /\ same /\ y = NoBlock => w = NoBlock

\* A coefficient in front keeps that so.
LEMMA SimulatesInFront ==
  ASSUME NEW y \in Found, NEW w \in Found, NEW s \in Nat, NEW same, NEW k \in 0 .. LAST, y.next = 0 => y = NoBlock,
         Simulates(y, w, s, same)
  PROVE  Simulates(InFront(y, k), InFront(w, k), s, same)
<1>1. CASE y = NoBlock
  <2>1. InFront(y, k) = NoBlock
    BY <1>1 DEF InFront
  <2>2. same => InFront(w, k) = NoBlock
    BY <1>1 DEF InFront, Simulates
  <2>. QED
    BY <2>1, <2>2 DEF Simulates
<1>2. CASE y # NoBlock
  <2>1. w.next = y.next + s /\ w.coeffs = y.coeffs /\ y.next # 0 /\ y.next \in Nat
    BY <1>2 DEF Simulates, Shifted, Found
  <2>2. w # NoBlock
    BY <2>1 DEF NoBlock
  <2>3. InFront(y, k) = [next |-> y.next, coeffs |-> y.coeffs \cup {k}]
    BY <1>2 DEF InFront, Found
  <2>4. InFront(w, k) = [next |-> w.next, coeffs |-> w.coeffs \cup {k}]
    BY <2>2 DEF InFront, Found
  <2>5. InFront(w, k) = Shifted(InFront(y, k), s)
    BY <2>1, <2>3, <2>4 DEF Shifted
  <2>6. InFront(y, k) # NoBlock
    BY <2>1, <2>3 DEF NoBlock
  <2>. QED
    BY <2>5, <2>6 DEF Simulates
<1>. QED
  BY <1>1, <1>2

\* A walk over the one buffer and over the other find the same.
LEMMA WalkShifts ==
  ASSUME NEW p \in Seq(Half), NEW q \in Seq(Half), NEW s \in Nat, NEW c \in BOOLEAN, NEW d \in BOOLEAN,
         Embedded(q, d, p, c, s), NEW pos \in Nat \ {0},
         NEW W, WalkRule(W, p, pos + s, c), NEW Y, WalkRule(Y, q, pos, d)
  PROVE  \A i \in pos .. Len(q) + 1 : \A k \in 0 .. LAST :
           Simulates(Y[i][k], W[i + s][k], s, Same(q, d, p, c, s))
<1>. DEFINE same == Same(q, d, p, c, s)
            Good(i) == \A k \in 0 .. LAST : Simulates(Y[i][k], W[i + s][k], s, same)
            T == {n \in Nat : \A i \in pos .. Len(q) + 1 : Len(q) + 1 - i = n => Good(i)}
<1>0. /\ Len(p) \in Nat /\ Len(q) \in Nat
      /\ Len(q) + s <= Len(p) /\ \A i \in 1 .. Len(q) : q[i] = p[i + s]
      /\ d => c /\ Len(q) + s = Len(p)
      /\ same => Len(q) + s = Len(p) /\ c = d
  BY DEF Embedded, Same
<1>. HIDE DEF same
<1>1. ASSUME NEW i \in pos .. Len(q) + 1, i <= Len(q) => Good(i + 1) PROVE Good(i)
  <2>. SUFFICES ASSUME NEW k \in 0 .. LAST PROVE Simulates(Y[i][k], W[i + s][k], s, same)
    OBVIOUS
  <2>0. i + s \in pos + s .. Len(p) + 1 /\ i \in Nat /\ i > 0
    BY <1>0
  <2>1. Y[i][k] = WalkStep(Y, q, d, i, k)
    BY DEF WalkRule
  <2>2. W[i + s][k] = WalkStep(W, p, c, i + s, k)
    BY <2>0 DEF WalkRule
  <2>3. CASE k = LAST
    <3>1. Y[i][k] = [next |-> i, coeffs |-> {k}] /\ W[i + s][k] = [next |-> i + s, coeffs |-> {k}]
      BY <2>1, <2>2, <2>3 DEF WalkStep
    <3>. QED
      BY <2>0, <3>1 DEF Simulates, Shifted, NoBlock
  <2>4. CASE k # LAST /\ i > Len(q)
    <3>1. CASE d
      <4>1. c /\ i + s > Len(p)
        BY <1>0, <2>0, <2>4, <3>1
      <4>2. Y[i][k] = [next |-> i, coeffs |-> {k}] /\ W[i + s][k] = [next |-> i + s, coeffs |-> {k}]
        BY <2>1, <2>2, <2>4, <3>1, <4>1 DEF WalkStep
      <4>. QED
        BY <2>0, <4>2 DEF Simulates, Shifted, NoBlock
    <3>2. CASE ~d
      <4>1. Y[i][k] = NoBlock
        BY <2>1, <2>4, <3>2 DEF WalkStep
      <4>2. same => W[i + s][k] = NoBlock
        <5>1. same => ~c /\ i + s > Len(p)
          BY <1>0, <2>0, <2>4, <3>2
        <5>. QED
          BY <2>2, <2>4, <5>1 DEF WalkStep
      <4>. QED
        BY <4>1, <4>2 DEF Simulates
    <3>. QED
      BY <3>1, <3>2
  <2>5. ASSUME i <= Len(q) PROVE ~(i + s > Len(p)) /\ p[i + s] = q[i] /\ q[i] \in Half /\ ~(i > Len(q))
    BY <1>0, <2>0, <2>5
  <2>6. CASE k # LAST /\ i <= Len(q) /\ (q[i] = EOB \/ k + q[i] + 1 > LAST)
    <3>1. Y[i][k] = [next |-> i + 1, coeffs |-> {k}] /\ W[i + s][k] = [next |-> (i + s) + 1, coeffs |-> {k}]
      BY <2>1, <2>2, <2>5, <2>6 DEF WalkStep
    <3>2. (i + s) + 1 = (i + 1) + s /\ i + 1 # 0
      BY <2>0
    <3>3. W[i + s][k] = [next |-> (i + 1) + s, coeffs |-> {k}]
      BY <3>1, <3>2
    <3>4. Y[i][k] # NoBlock
      BY <3>1, <3>2 DEF NoBlock
    <3>5. W[i + s][k] = Shifted(Y[i][k], s)
      BY <3>1, <3>3 DEF Shifted
    <3>. QED
      BY <3>4, <3>5 DEF Simulates
  <2>7. CASE k # LAST /\ i <= Len(q) /\ ~(q[i] = EOB \/ k + q[i] + 1 > LAST)
    <3>0. q[i] \in Half /\ q[i] # EOB
      BY <2>5, <2>7
    <3>0a. q[i] \in Nat
      BY <3>0, HalfFacts
    <3>1. q[i] \in Nat /\ k + q[i] + 1 \in 0 .. LAST
      BY <2>7, <3>0a, RunInside, Zenon
    <3>. DEFINE y == Y[i + 1][k + q[i] + 1]
                w == W[(i + s) + 1][k + q[i] + 1]
    <3>2. Y[i][k] = InFront(y, k) /\ W[i + s][k] = InFront(w, k)
      BY <2>1, <2>2, <2>5, <2>7 DEF WalkStep
    <3>3. Simulates(y, w, s, same)
      <4>1. (i + s) + 1 = (i + 1) + s
        BY <2>0
      <4>. QED
        BY <1>1, <2>7, <3>1, <4>1
    <3>4. y \in Found /\ (y.next = 0 => y = NoBlock)
      <4>1. i + 1 \in pos .. Len(q) + 1 /\ i + 1 > 0
        BY <2>0, <2>7
      <4>2. y \in Found /\ (y = NoBlock \/ y.next \in i + 1 .. Len(q) + 1)
        BY <3>1, <4>1, WalkTyped
      <4>. QED
        BY <4>1, <4>2
    <3>5. w \in Found
      <4>1. (i + s) + 1 \in pos + s .. Len(p) + 1 /\ pos + s \in Nat \ {0}
        BY <1>0, <2>0, <2>7
      <4>. QED
        BY <3>1, <4>1, WalkTyped
    <3>. HIDE DEF y, w
    <3>6. Simulates(InFront(y, k), InFront(w, k), s, same)
      BY <3>3, <3>4, <3>5, SimulatesInFront
    <3>. QED
      BY <3>2, <3>6
  <2>. QED
    BY <1>0, <2>3, <2>4, <2>6, <2>7
<1>. HIDE DEF Good
<1>2. 0 \in T
  <2>1. ASSUME NEW i \in pos .. Len(q) + 1, Len(q) + 1 - i = 0 PROVE Good(i)
    BY <1>1, <2>1
  <2>. QED BY <2>1
<1>3. ASSUME NEW n \in T \cap Nat PROVE n + 1 \in T
  <2>1. ASSUME NEW i \in pos .. Len(q) + 1, Len(q) + 1 - i = n + 1 PROVE Good(i)
    <3>1. i + 1 \in pos .. Len(q) + 1 /\ Len(q) + 1 - (i + 1) = n
      <4>1. PICK m \in Nat : m = Len(q)
        BY <1>0
      <4>2. i \in pos .. m + 1 /\ m + 1 - i = n + 1
        BY <2>1, <4>1, Zenon
      <4>2a. n \in Nat /\ pos \in Nat /\ i \in Int
        BY <1>0, <1>3
      <4>3. i + 1 \in pos .. m + 1 /\ m + 1 - (i + 1) = n
        BY <4>2, <4>2a, NextBack
      <4>. QED
        BY <4>1, <4>3, Zenon
    <3>2. Good(i + 1)
      BY <1>3, <3>1
    <3>. QED
      BY <1>1, <3>2
  <2>. QED BY <2>1
<1>. HIDE DEF T
<1>4. Nat \subseteq T
  BY <1>2, <1>3, SetInduction
<1>5. ASSUME NEW i \in pos .. Len(q) + 1 PROVE Good(i)
  <2>1. Len(q) + 1 - i \in Nat
    OBVIOUS
  <2>. QED
    BY <1>4, <2>1 DEF T
<1>. QED
  BY <1>5 DEF Good, same

(* What is found of a block, and where it ends.                            *)
BlockResult(r, p, pos) == r \in Found /\ (r = NoBlock \/ r.next \in pos + 1 .. Len(p) + 1)

\* A block from its DC coefficient on is nothing, or ends behind it.
LEMMA CoefficientsTyped ==
  ASSUME NEW p \in Seq(Half), NEW pos \in 1 .. Len(p), NEW c \in BOOLEAN
  PROVE  BlockResult(Coefficients(p, pos, c), p, pos)
<1>1. PICK W : WalkRule(W, p, pos, c) /\ Coefficients(p, pos, c) = W[pos + 1][0]
  BY CoefficientsWalk
<1>2. pos \in Nat \ {0} /\ pos + 1 \in pos .. Len(p) + 1 /\ 0 \in 0 .. LAST
  BY MdecFacts
<1>3. W[pos + 1][0] \in Found /\ (W[pos + 1][0] = NoBlock \/ W[pos + 1][0].next \in pos + 1 .. Len(p) + 1)
  BY <1>1, <1>2, WalkTyped
<1>. QED
  BY <1>1, <1>3 DEF BlockResult

\* A block from its DC coefficient on is the same in both buffers.
LEMMA CoefficientsShift ==
  ASSUME NEW p \in Seq(Half), NEW q \in Seq(Half), NEW s \in Nat, NEW c \in BOOLEAN, NEW d \in BOOLEAN,
         Embedded(q, d, p, c, s), NEW pos \in 1 .. Len(q)
  PROVE  Simulates(Coefficients(q, pos, d), Coefficients(p, pos + s, c), s, Same(q, d, p, c, s))
<1>1. PICK Y : WalkRule(Y, q, pos, d) /\ Coefficients(q, pos, d) = Y[pos + 1][0]
  BY CoefficientsWalk
<1>2. pos + s \in 1 .. Len(p)
  <2>1. Len(p) \in Nat /\ Len(q) \in Nat /\ Len(q) + s <= Len(p)
    BY DEF Embedded
  <2>. QED
    BY <2>1
<1>3. PICK W : WalkRule(W, p, pos + s, c) /\ Coefficients(p, pos + s, c) = W[(pos + s) + 1][0]
  BY <1>2, CoefficientsWalk
<1>4. pos \in Nat \ {0} /\ pos + 1 \in pos .. Len(q) + 1 /\ 0 \in 0 .. LAST /\ (pos + s) + 1 = (pos + 1) + s
  BY MdecFacts
<1>5. Simulates(Y[pos + 1][0], W[(pos + 1) + s][0], s, Same(q, d, p, c, s))
  BY <1>1, <1>3, <1>4, WalkShifts
<1>. QED
  BY <1>1, <1>3, <1>4, <1>5

(* The first half from pos on that is not padding.                         *)
DcSet(p, pos) == {i \in pos .. Len(p) : p[i] # EOB}

\* The smallest of a set of positions.
IsFirst(i, dc) == i \in dc /\ \A j \in dc : i <= j

\* A set of natural numbers has a smallest one.
LEMMA NatMin ==
  ASSUME NEW S \in SUBSET Nat, S # {}
  PROVE  \E x \in S : IsFirst(x, S)
<1>1. IsWellFoundedOn(OpToRel(<, Nat), Nat)
  BY NatLessThanWellFounded
<1>2. PICK x \in S : \A y \in S : ~(<<y, x>> \in OpToRel(<, Nat))
  <2>. HIDE DEF IsWellFoundedOn, OpToRel
  <2>. QED BY <1>1, WFMin
<1>3. \A y \in S : x <= y
  <2>1. ASSUME NEW y \in S, ~(x <= y) PROVE FALSE
    <3>1. x \in Nat /\ y \in Nat /\ y < x
      BY <2>1
    <3>2. <<y, x>> \in OpToRel(<, Nat)
      BY <3>1 DEF OpToRel
    <3>. QED
      BY <1>2, <3>2
  <2>. QED BY <2>1
<1>. QED
  BY <1>3 DEF IsFirst

\* A block begins at the first half that is not padding.
LEMMA BlockAt ==
  ASSUME NEW p \in Seq(Half), NEW pos \in Nat \ {0}, NEW c \in BOOLEAN
  PROVE  /\ DcSet(p, pos) = {} => Block(p, pos, c) = NoBlock
         /\ \A i : IsFirst(i, DcSet(p, pos)) => i \in pos .. Len(p) /\ Block(p, pos, c) = Coefficients(p, i, c)
<1>1. DcSet(p, pos) = {} => Block(p, pos, c) = NoBlock
  BY DEF DcSet, Block
<1>2. ASSUME NEW i, IsFirst(i, DcSet(p, pos))
      PROVE  i \in pos .. Len(p) /\ Block(p, pos, c) = Coefficients(p, i, c)
  <2>. DEFINE dc == DcSet(p, pos)
              least == CHOOSE j \in dc : \A l \in dc : j <= l
  <2>1. i \in dc /\ \A l \in dc : i <= l
    BY <1>2 DEF IsFirst
  <2>2. dc \subseteq pos .. Len(p)
    BY DEF DcSet
  <2>3. least \in dc /\ \A l \in dc : least <= l
    <3>. HIDE DEF dc
    <3>. QED BY <2>1
  <2>4. least = i
    <3>. HIDE DEF least
    <3>1. i \in Int /\ least \in Int
      BY <2>1, <2>2, <2>3
    <3>. QED
      BY <2>1, <2>3, <3>1
  <2>5. Block(p, pos, c) = Coefficients(p, least, c)
    BY <2>1 DEF Block, DcSet
  <2>. QED
    BY <2>1, <2>2, <2>4, <2>5
<1>. QED
  BY <1>1, <1>2

\* If there is such a half, there is a first one.
LEMMA DcFirst ==
  ASSUME NEW p \in Seq(Half), NEW pos \in Nat \ {0}, DcSet(p, pos) # {}
  PROVE  \E i \in pos .. Len(p) : IsFirst(i, DcSet(p, pos))
<1>1. DcSet(p, pos) \in SUBSET Nat /\ DcSet(p, pos) \subseteq pos .. Len(p)
  BY DEF DcSet
<1>2. \E i \in DcSet(p, pos) : IsFirst(i, DcSet(p, pos))
  BY <1>1, NatMin
<1>. QED
  BY <1>1, <1>2

\* A block is nothing, or ends behind where it began.
LEMMA BlockTyped ==
  ASSUME NEW p \in Seq(Half), NEW pos \in Nat \ {0}, NEW c \in BOOLEAN
  PROVE  BlockResult(Block(p, pos, c), p, pos)
<1>1. CASE DcSet(p, pos) = {}
  BY <1>1, BlockAt DEF BlockResult, Found, NoBlock
<1>2. CASE DcSet(p, pos) # {}
  <2>1. PICK i \in pos .. Len(p) : IsFirst(i, DcSet(p, pos))
    BY <1>2, DcFirst
  <2>2. Block(p, pos, c) = Coefficients(p, i, c)
    BY <2>1, BlockAt
  <2>3. i \in 1 .. Len(p) /\ i + 1 >= pos + 1
    OBVIOUS
  <2>4. BlockResult(Coefficients(p, i, c), p, i)
    BY <2>3, CoefficientsTyped
  <2>. QED
    BY <2>2, <2>3, <2>4 DEF BlockResult
<1>. QED
  BY <1>1, <1>2

\* A block is the same in both buffers (decode_block).
LEMMA BlockShifts ==
  ASSUME NEW p \in Seq(Half), NEW q \in Seq(Half), NEW s \in Nat, NEW c \in BOOLEAN, NEW d \in BOOLEAN,
         Embedded(q, d, p, c, s), NEW pos \in Nat \ {0}
  PROVE  Simulates(Block(q, pos, d), Block(p, pos + s, c), s, Same(q, d, p, c, s))
<1>0. /\ Len(p) \in Nat /\ Len(q) \in Nat
      /\ Len(q) + s <= Len(p) /\ \A i \in 1 .. Len(q) : q[i] = p[i + s]
      /\ Same(q, d, p, c, s) => Len(q) + s = Len(p)
  BY DEF Embedded, Same
<1>1. pos + s \in Nat \ {0}
  OBVIOUS
<1>2. CASE DcSet(q, pos) = {}
  <2>1. Block(q, pos, d) = NoBlock
    BY <1>2, BlockAt
  <2>2. ASSUME Same(q, d, p, c, s) PROVE Block(p, pos + s, c) = NoBlock
    <3>1. DcSet(p, pos + s) = {}
      <4>. SUFFICES ASSUME NEW i \in pos + s .. Len(p), p[i] # EOB PROVE FALSE
        BY DEF DcSet
      <4>1. i - s \in pos .. Len(q) /\ i - s \in 1 .. Len(q) /\ (i - s) + s = i
        BY <1>0, <2>2
      <4>2. q[i - s] = p[i]
        BY <1>0, <4>1
      <4>. QED
        BY <1>2, <4>1, <4>2 DEF DcSet
    <3>. QED
      BY <1>1, <3>1, BlockAt
  <2>. QED
    BY <2>1, <2>2 DEF Simulates
<1>3. CASE DcSet(q, pos) # {}
  <2>1. PICK i \in pos .. Len(q) : IsFirst(i, DcSet(q, pos))
    BY <1>3, DcFirst
  <2>2. IsFirst(i + s, DcSet(p, pos + s))
    <3>1. i + s \in DcSet(p, pos + s)
      <4>1. q[i] # EOB /\ i \in 1 .. Len(q)
        BY <2>1 DEF IsFirst, DcSet
      <4>2. p[i + s] # EOB /\ i + s \in pos + s .. Len(p)
        BY <1>0, <4>1
      <4>. QED
        BY <4>2 DEF DcSet
    <3>2. ASSUME NEW j \in DcSet(p, pos + s) PROVE i + s <= j
      <4>1. j \in pos + s .. Len(p) /\ p[j] # EOB
        BY DEF DcSet
      <4>2. CASE j - s > Len(q)
        BY <4>1, <4>2
      <4>3. CASE j - s <= Len(q)
        <5>1. j - s \in pos .. Len(q) /\ j - s \in 1 .. Len(q) /\ (j - s) + s = j
          BY <1>0, <4>1, <4>3
        <5>2. q[j - s] # EOB
          BY <1>0, <4>1, <5>1
        <5>3. j - s \in DcSet(q, pos)
          BY <5>1, <5>2 DEF DcSet
        <5>4. i <= j - s
          BY <2>1, <5>3 DEF IsFirst
        <5>. QED
          BY <4>1, <5>4
      <4>. QED
        BY <1>0, <4>1, <4>2, <4>3
    <3>. QED
      BY <3>1, <3>2 DEF IsFirst
  <2>3. Block(q, pos, d) = Coefficients(q, i, d)
    BY <2>1, BlockAt
  <2>4. Block(p, pos + s, c) = Coefficients(p, i + s, c)
    BY <1>1, <2>2, BlockAt
  <2>5. i \in 1 .. Len(q)
    BY <1>0
  <2>6. Simulates(Coefficients(q, i, d), Coefficients(p, i + s, c), s, Same(q, d, p, c, s))
    BY <2>5, CoefficientsShift
  <2>. QED
    BY <2>3, <2>4, <2>6
<1>. QED
  BY <1>2, <1>3

(* A macroblock is built block by block.                                   *)
NoMacroblock == [next |-> 0, blocks |-> <<>>]

\* A block with the tables it is decoded with.
Coded(block, b, depth, t) ==
  [coeffs |-> block.coeffs, scale |-> t.scale,
   quant  |-> IF Colour(depth) /\ b <= 2 THEN t.quant_uv ELSE t.quant_y]

\* All such blocks.
CodedBlocks(t) == [coeffs : SUBSET (0 .. LAST), scale : {t.scale}, quant : {t.quant_uv, t.quant_y}]

\* What may have been built of a macroblock: nothing, or some blocks.
Built(t) == {NoMacroblock} \cup [next : Nat \ {0}, blocks : Seq(CodedBlocks(t))]

\* What is built with block b, from what was built before it.
UpToStep(U, p, pos, depth, c, t, b) ==
  IF b = 0 THEN [next |-> pos, blocks |-> <<>>]
  ELSE IF U[b - 1] = NoMacroblock \/ Block(p, U[b - 1].next, c) = NoBlock THEN NoMacroblock
  ELSE [next |-> Block(p, U[b - 1].next, c).next,
        blocks |-> Append(U[b - 1].blocks, Coded(Block(p, U[b - 1].next, c), b, depth, t))]

\* U holds what is built with every block.
UpToRule(U, p, pos, depth, c, t) ==
  \A b \in 0 .. BlocksOf(depth) : U[b] = UpToStep(U, p, pos, depth, c, t, b)

\* A macroblock has blocks.
LEMMA BlocksOfFacts ==
  ASSUME NEW depth PROVE BlocksOf(depth) \in Nat /\ BlocksOf(depth) > 0
BY DEF BlocksOf

\* A block found is such a block.
LEMMA CodedTyped ==
  ASSUME NEW block \in Found, NEW b, NEW depth, NEW t
  PROVE  Coded(block, b, depth, t) \in CodedBlocks(t)
BY DEF Coded, CodedBlocks, Found

\* One more block is built, or nothing.
LEMMA UpToStepTyped ==
  ASSUME NEW p \in Seq(Half), NEW pos \in Nat \ {0}, NEW c \in BOOLEAN, NEW depth, NEW t,
         NEW U, NEW b \in 0 .. BlocksOf(depth), b # 0 => U[b - 1] \in Built(t)
  PROVE  UpToStep(U, p, pos, depth, c, t, b) \in Built(t)
<1>1. CASE b = 0
  <2>1. UpToStep(U, p, pos, depth, c, t, b) = [next |-> pos, blocks |-> <<>>]
    BY <1>1 DEF UpToStep
  <2>. QED
    BY <2>1 DEF Built
<1>2. CASE b # 0 /\ (U[b - 1] = NoMacroblock \/ Block(p, U[b - 1].next, c) = NoBlock)
  BY <1>2 DEF UpToStep, Built
<1>3. CASE b # 0 /\ ~(U[b - 1] = NoMacroblock \/ Block(p, U[b - 1].next, c) = NoBlock)
  <2>. DEFINE u == U[b - 1]
              k == Block(p, u.next, c)
  <2>1. u \in [next : Nat \ {0}, blocks : Seq(CodedBlocks(t))]
    BY <1>3 DEF Built
  <2>2. u.next \in Nat \ {0} /\ u.blocks \in Seq(CodedBlocks(t))
    BY <2>1
  <2>3. BlockResult(k, p, u.next)
    BY <2>2, BlockTyped
  <2>4. k \in Found /\ k.next \in Nat \ {0}
    BY <1>3, <2>2, <2>3 DEF BlockResult
  <2>5. Append(u.blocks, Coded(k, b, depth, t)) \in Seq(CodedBlocks(t))
    BY <2>2, <2>4, CodedTyped
  <2>6. UpToStep(U, p, pos, depth, c, t, b) = [next |-> k.next, blocks |-> Append(u.blocks, Coded(k, b, depth, t))]
    BY <1>3 DEF UpToStep
  <2>. QED
    BY <2>4, <2>5, <2>6 DEF Built
<1>. QED
  BY <1>1, <1>2, <1>3

\* Building block by block is well defined.
LEMMA UpToExists ==
  ASSUME NEW p \in Seq(Half), NEW pos \in Nat \ {0}, NEW c \in BOOLEAN, NEW depth, NEW t
  PROVE  \E U \in [0 .. BlocksOf(depth) -> Built(t)] : UpToRule(U, p, pos, depth, c, t)
<1>. DEFINE S == 0 .. BlocksOf(depth)
            V == Built(t)
            m == [b \in S |-> b]
            G == [z \in S \X [S -> V] |-> UpToStep(z[2], p, pos, depth, c, t, z[1])]
<1>1. NoMacroblock \in V
  BY DEF Built
<1>2. m \in [S -> 0 .. BlocksOf(depth)]
  OBVIOUS
<1>3. ASSUME NEW f \in [S -> V], NEW b \in S PROVE UpToStep(f, p, pos, depth, c, t, b) \in V
  <2>1. b # 0 => b - 1 \in S
    BY BlocksOfFacts
  <2>2. b # 0 => f[b - 1] \in V
    BY <2>1
  <2>. QED
    BY <2>2, UpToStepTyped
<1>4. G \in [S \X [S -> V] -> V]
  <2>1. ASSUME NEW z \in S \X [S -> V] PROVE UpToStep(z[2], p, pos, depth, c, t, z[1]) \in V
    <3>1. z[1] \in S /\ z[2] \in [S -> V]
      OBVIOUS
    <3>. HIDE DEF S, V
    <3>. QED
      BY <1>3, <3>1
  <2>. HIDE DEF S, V
  <2>. QED
    BY <2>1
<1>5. ASSUME NEW b \in S, NEW g \in [S -> V], NEW h \in [S -> V], \A j \in S : m[j] < m[b] => g[j] = h[j]
      PROVE  G[<<b, g>>] = G[<<b, h>>]
  <2>1. b # 0 => b - 1 \in S /\ m[b - 1] < m[b]
    BY BlocksOfFacts
  <2>2. b # 0 => g[b - 1] = h[b - 1]
    BY <1>5, <2>1
  <2>3. UpToStep(g, p, pos, depth, c, t, b) = UpToStep(h, p, pos, depth, c, t, b)
    BY <2>2 DEF UpToStep
  <2>4. G[<<b, g>>] = UpToStep(g, p, pos, depth, c, t, b)
    OBVIOUS
  <2>5. G[<<b, h>>] = UpToStep(h, p, pos, depth, c, t, b)
    OBVIOUS
  <2>. QED
    BY <2>3, <2>4, <2>5
<1>6. \A f \in [S -> V] : \A b \in S : G[<<b, f>>] = UpToStep(f, p, pos, depth, c, t, b)
  OBVIOUS
<1>7. WellFounded(S, V, m, BlocksOf(depth), G)
  <2>1. \A b \in S : \A g, h \in [S -> V] :
          (\A j \in S : m[j] < m[b] => g[j] = h[j]) => G[<<b, g>>] = G[<<b, h>>]
    BY <1>5
  <2>. HIDE DEF S, V, m, G
  <2>. QED
    BY <1>1, <1>2, <1>4, <2>1, BlocksOfFacts DEF WellFounded
<1>8. \E f : Solution(S, V, G, f)
  <2>. HIDE DEF S, V, m, G
  <2>. QED
    BY <1>7, SolutionExists, Zenon
<1>9. PICK f \in [S -> V] : \A b \in S : f[b] = G[<<b, f>>]
  <2>. HIDE DEF S, V, m, G
  <2>. QED
    BY <1>8 DEF Solution
<1>10. \A b \in S : f[b] = UpToStep(f, p, pos, depth, c, t, b)
  <2>. HIDE DEF S, V, m, G
  <2>. QED
    BY <1>6, <1>9
<1>. QED
  BY <1>10 DEF UpToRule

\* What Macroblock computes is what is built with the last block.
LEMMA MacroblockUpTo ==
  ASSUME NEW p \in Seq(Half), NEW pos \in Nat \ {0}, NEW c \in BOOLEAN, NEW depth, NEW t
  PROVE  \E U : UpToRule(U, p, pos, depth, c, t) /\ Macroblock(p, pos, depth, c, t) = U[BlocksOf(depth)]
<1>. DEFINE S == 0 .. BlocksOf(depth)
            Eq(U) == U = [b \in S |->
              IF b = 0 THEN [next |-> pos, blocks |-> <<>>]
              ELSE LET before == U[b - 1]
                       block  == Block(p, before.next, c)
                   IN  IF before = [next |-> 0, blocks |-> <<>>] \/ block = NoBlock THEN [next |-> 0, blocks |-> <<>>]
                       ELSE [next |-> block.next,
                             blocks |-> Append(before.blocks,
                               [coeffs |-> block.coeffs, scale |-> t.scale,
                                quant |-> IF Colour(depth) /\ b <= 2 THEN t.quant_uv ELSE t.quant_y])]]
            upto == CHOOSE U : Eq(U)
<1>1. \A U : Eq(U) <=> U = [b \in S |-> UpToStep(U, p, pos, depth, c, t, b)]
  BY DEF UpToStep, NoMacroblock, Coded
<1>2. PICK f \in [S -> Built(t)] : UpToRule(f, p, pos, depth, c, t)
  BY UpToExists
<1>3. f = [b \in S |-> UpToStep(f, p, pos, depth, c, t, b)]
  <2>1. \A b \in S : f[b] = UpToStep(f, p, pos, depth, c, t, b)
    BY <1>2 DEF UpToRule
  <2>. QED
    BY <2>1
<1>. HIDE DEF Eq
<1>4. Eq(f)
  BY <1>1, <1>3
<1>5. Eq(upto)
  BY <1>4
<1>6. upto = [b \in S |-> UpToStep(upto, p, pos, depth, c, t, b)]
  <2>. HIDE DEF upto
  <2>. QED BY <1>1, <1>5
<1>7. UpToRule(upto, p, pos, depth, c, t)
  <2>. HIDE DEF upto
  <2>1. ASSUME NEW b \in S PROVE upto[b] = UpToStep(upto, p, pos, depth, c, t, b)
    <3>. HIDE DEF S
    <3>1. PICK u : u = upto
      OBVIOUS
    <3>2. u = [j \in S |-> UpToStep(u, p, pos, depth, c, t, j)]
      BY <1>6, <3>1, Zenon
    <3>. QED
      BY <3>1, <3>2
  <2>. QED BY <2>1 DEF UpToRule
<1>8. Macroblock(p, pos, depth, c, t) = upto[BlocksOf(depth)]
  BY DEF Macroblock, upto, Eq
<1>. QED
  BY <1>7, <1>8

(* A macroblock has all its blocks, and ends behind where it began.        *)
BuiltUpTo(u, b, p, pos, t) ==
  /\ u \in Built(t)
  /\ u = NoMacroblock \/ (u.next \in pos + b .. Len(p) + 1 /\ Len(u.blocks) = b)

\* After b blocks, b blocks are built and the input is b halves on, or nothing.
LEMMA UpToTyped ==
  ASSUME NEW p \in Seq(Half), NEW pos \in 1 .. Len(p) + 1, NEW c \in BOOLEAN, NEW depth, NEW t,
         NEW U, UpToRule(U, p, pos, depth, c, t)
  PROVE  \A b \in 0 .. BlocksOf(depth) : BuiltUpTo(U[b], b, p, pos, t)
<1>. DEFINE T == {n \in Nat : n \in 0 .. BlocksOf(depth) => BuiltUpTo(U[n], n, p, pos, t)}
<1>0. BlocksOf(depth) \in Nat /\ pos \in Nat \ {0} /\ Len(p) \in Nat
  BY BlocksOfFacts
<1>1. 0 \in T
  <2>1. U[0] = UpToStep(U, p, pos, depth, c, t, 0)
    BY <1>0 DEF UpToRule
  <2>2. U[0] = [next |-> pos, blocks |-> <<>>]
    BY <2>1 DEF UpToStep
  <2>3. <<>> \in Seq(CodedBlocks(t)) /\ Len(<<>>) = 0
    BY EmptySeq
  <2>4. U[0] \in Built(t)
    BY <1>0, <2>2, <2>3 DEF Built
  <2>5. U[0].next = pos /\ Len(U[0].blocks) = 0 /\ pos \in pos + 0 .. Len(p) + 1
    BY <1>0, <2>2, <2>3
  <2>6. BuiltUpTo(U[0], 0, p, pos, t)
    BY <2>4, <2>5 DEF BuiltUpTo
  <2>. QED
    BY <2>6
<1>2. ASSUME NEW n \in T \cap Nat PROVE n + 1 \in T
  <2>. SUFFICES ASSUME n + 1 \in 0 .. BlocksOf(depth) PROVE BuiltUpTo(U[n + 1], n + 1, p, pos, t)
    OBVIOUS
  <2>1. n \in 0 .. BlocksOf(depth) /\ (n + 1) - 1 = n /\ n + 1 # 0
    BY <1>0
  <2>. DEFINE u == U[n]
              k == Block(p, u.next, c)
  <2>2. BuiltUpTo(u, n, p, pos, t)
    BY <1>2, <2>1
  <2>3. U[n + 1] = UpToStep(U, p, pos, depth, c, t, n + 1)
    BY DEF UpToRule
  <2>4. CASE u = NoMacroblock \/ k = NoBlock
    <3>1. U[n + 1] = NoMacroblock
      BY <2>1, <2>3, <2>4 DEF UpToStep
    <3>. QED
      BY <3>1 DEF BuiltUpTo, Built
  <2>5. CASE ~(u = NoMacroblock \/ k = NoBlock)
    <3>1. U[n + 1] = [next |-> k.next, blocks |-> Append(u.blocks, Coded(k, n + 1, depth, t))]
      BY <2>1, <2>3, <2>5 DEF UpToStep
    <3>2. /\ u.next \in Nat \ {0} /\ u.blocks \in Seq(CodedBlocks(t))
          /\ u.next \in pos + n .. Len(p) + 1 /\ Len(u.blocks) = n
      BY <2>2, <2>5 DEF BuiltUpTo, Built
    <3>3. BlockResult(k, p, u.next)
      BY <3>2, BlockTyped
    <3>4. k \in Found /\ k.next \in u.next + 1 .. Len(p) + 1
      BY <2>5, <3>3 DEF BlockResult
    <3>5. k.next \in pos + (n + 1) .. Len(p) + 1 /\ k.next \in Nat \ {0}
      <4>0. n \in Nat
        BY <1>2
      <4>1. PICK l \in Nat, x \in pos + n .. Len(p) + 1, y \in u.next + 1 .. Len(p) + 1 :
              l = Len(p) /\ x = u.next /\ y = k.next
        BY <1>0, <3>2, <3>4, Zenon
      <4>1a. x \in pos + n .. l + 1 /\ y \in x + 1 .. l + 1
        BY <4>1, Zenon
      <4>2. y \in pos + (n + 1) .. l + 1 /\ y \in Nat \ {0}
        BY <1>0, <4>0, <4>1a
      <4>. QED BY <4>1, <4>2, Zenon
    <3>6. /\ Append(u.blocks, Coded(k, n + 1, depth, t)) \in Seq(CodedBlocks(t))
          /\ Len(Append(u.blocks, Coded(k, n + 1, depth, t))) = n + 1
      BY <3>2, <3>4, CodedTyped
    <3>. QED
      BY <3>1, <3>5, <3>6 DEF BuiltUpTo, Built
  <2>. QED
    BY <2>4, <2>5
<1>. HIDE DEF T
<1>3. Nat \subseteq T
  BY <1>1, <1>2, SetInduction
<1>4. ASSUME NEW b \in 0 .. BlocksOf(depth) PROVE BuiltUpTo(U[b], b, p, pos, t)
  <2>1. b \in T
    BY <1>0, <1>3
  <2>. QED
    BY <2>1 DEF T
<1>. QED
  BY <1>4

\* A macroblock is nothing, or has all its blocks and ends behind them.
LEMMA MacroblockTyped ==
  ASSUME NEW p \in Seq(Half), NEW pos \in 1 .. Len(p) + 1, NEW c \in BOOLEAN, NEW depth, NEW t
  PROVE  BuiltUpTo(Macroblock(p, pos, depth, c, t), BlocksOf(depth), p, pos, t)
<1>1. pos \in Nat \ {0} /\ BlocksOf(depth) \in 0 .. BlocksOf(depth)
  BY BlocksOfFacts
<1>2. PICK U : UpToRule(U, p, pos, depth, c, t) /\ Macroblock(p, pos, depth, c, t) = U[BlocksOf(depth)]
  BY <1>1, MacroblockUpTo
<1>3. BuiltUpTo(U[BlocksOf(depth)], BlocksOf(depth), p, pos, t)
  BY <1>1, <1>2, UpToTyped
<1>. QED
  BY <1>2, <1>3

(* What is built from q is built from p, and from the same buffer nothing  *)
(* else.                                                                   *)
BuiltAlike(y, w, s, same) ==
  /\ y # NoMacroblock => w = [next |-> y.next + s, blocks |-> y.blocks]
  /\ same /\ y = NoMacroblock => w = NoMacroblock

\* Block by block, both buffers give the same.
LEMMA UpToShifts ==
  ASSUME NEW p \in Seq(Half), NEW q \in Seq(Half), NEW s \in Nat, NEW c \in BOOLEAN, NEW d \in BOOLEAN,
         Embedded(q, d, p, c, s), NEW pos \in 1 .. Len(q) + 1, NEW depth, NEW t,
         NEW W, UpToRule(W, p, pos + s, depth, c, t), NEW Y, UpToRule(Y, q, pos, depth, d, t)
  PROVE  \A b \in 0 .. BlocksOf(depth) : BuiltAlike(Y[b], W[b], s, Same(q, d, p, c, s))
<1>. DEFINE same == Same(q, d, p, c, s)
            T == {n \in Nat : n \in 0 .. BlocksOf(depth) => BuiltAlike(Y[n], W[n], s, same)}
<1>0. BlocksOf(depth) \in Nat /\ pos \in Nat \ {0} /\ Len(q) \in Nat
  BY BlocksOfFacts
<1>1. 0 \in T
  <2>1. Y[0] = UpToStep(Y, q, pos, depth, d, t, 0) /\ W[0] = UpToStep(W, p, pos + s, depth, c, t, 0)
    BY <1>0 DEF UpToRule
  <2>2. Y[0] = [next |-> pos, blocks |-> <<>>] /\ W[0] = [next |-> pos + s, blocks |-> <<>>]
    BY <2>1 DEF UpToStep
  <2>3. Y[0] # NoMacroblock
    BY <1>0, <2>2 DEF NoMacroblock
  <2>4. W[0] = [next |-> Y[0].next + s, blocks |-> Y[0].blocks]
    BY <2>2
  <2>5. BuiltAlike(Y[0], W[0], s, same)
    BY <2>3, <2>4 DEF BuiltAlike
  <2>. QED
    BY <2>5
<1>2. ASSUME NEW n \in T \cap Nat PROVE n + 1 \in T
  <2>. SUFFICES ASSUME n + 1 \in 0 .. BlocksOf(depth) PROVE BuiltAlike(Y[n + 1], W[n + 1], s, same)
    OBVIOUS
  <2>1. n \in 0 .. BlocksOf(depth) /\ (n + 1) - 1 = n /\ n + 1 # 0
    BY <1>0
  <2>. DEFINE y == Y[n]
              w == W[n]
              k == Block(q, y.next, d)
              l == Block(p, w.next, c)
  <2>2. BuiltAlike(y, w, s, same)
    BY <1>2, <2>1
  <2>3. Y[n + 1] = UpToStep(Y, q, pos, depth, d, t, n + 1) /\ W[n + 1] = UpToStep(W, p, pos + s, depth, c, t, n + 1)
    BY DEF UpToRule
  <2>4. CASE y = NoMacroblock
    <3>1. Y[n + 1] = NoMacroblock
      BY <2>1, <2>3, <2>4 DEF UpToStep
    <3>2. same => w = NoMacroblock
      BY <2>2, <2>4 DEF BuiltAlike
    <3>3. same => W[n + 1] = NoMacroblock
      BY <2>1, <2>3, <3>2 DEF UpToStep
    <3>. QED
      BY <3>1, <3>3 DEF BuiltAlike
  <2>5. CASE y # NoMacroblock
    <3>1. BuiltUpTo(y, n, q, pos, t)
      BY <2>1, UpToTyped
    <3>2. y.next \in Nat \ {0}
      BY <2>5, <3>1 DEF BuiltUpTo, Built
    <3>3. w.next = y.next + s /\ w.blocks = y.blocks
      BY <2>2, <2>5 DEF BuiltAlike
    <3>4. w # NoMacroblock
      <4>1. PICK m \in Nat \ {0} : m = y.next
        BY <3>2, Zenon
      <4>2. m + s # 0
        OBVIOUS
      <4>3. NoMacroblock.next = 0
        BY DEF NoMacroblock
      <4>. QED BY <3>3, <4>1, <4>2, <4>3, Zenon
    <3>5. Simulates(k, Block(p, y.next + s, c), s, same)
      BY <3>2, BlockShifts
    <3>6. Simulates(k, l, s, same)
      BY <3>3, <3>5
    <3>7. CASE k = NoBlock
      <4>1. Y[n + 1] = NoMacroblock
        BY <2>1, <2>3, <3>7 DEF UpToStep
      <4>2. same => l = NoBlock
        BY <3>6, <3>7 DEF Simulates
      <4>3. same => W[n + 1] = NoMacroblock
        BY <2>1, <2>3, <4>2 DEF UpToStep
      <4>. QED
        BY <4>1, <4>3 DEF BuiltAlike
    <3>8. CASE k # NoBlock
      <4>1. BlockResult(k, q, y.next)
        BY <3>2, BlockTyped
      <4>2. k.next \in Nat \ {0}
        <5>1. k.next \in y.next + 1 .. Len(q) + 1
          BY <3>8, <4>1, Zenon DEF BlockResult
        <5>2. PICK m \in Nat \ {0} : m = y.next
          BY <3>2, Zenon
        <5>3. \A x \in m + 1 .. Len(q) + 1 : x \in Nat \ {0}
          OBVIOUS
        <5>. QED BY <5>1, <5>2, <5>3, Zenon
      <4>3. l.next = k.next + s /\ l.coeffs = k.coeffs
        BY <3>6, <3>8 DEF Simulates, Shifted
      <4>4. l # NoBlock
        BY <4>2, <4>3 DEF NoBlock
      <4>5. Y[n + 1] = [next |-> k.next, blocks |-> Append(y.blocks, Coded(k, n + 1, depth, t))]
        BY <2>1, <2>3, <2>5, <3>8 DEF UpToStep
      <4>6. W[n + 1] = [next |-> l.next, blocks |-> Append(w.blocks, Coded(l, n + 1, depth, t))]
        BY <2>1, <2>3, <3>4, <4>4 DEF UpToStep
      <4>7. Coded(l, n + 1, depth, t) = Coded(k, n + 1, depth, t)
        BY <4>3 DEF Coded
      <4>8. W[n + 1] = [next |-> k.next + s, blocks |-> Append(y.blocks, Coded(k, n + 1, depth, t))]
        BY <3>3, <4>3, <4>6, <4>7
      <4>9. W[n + 1] = [next |-> Y[n + 1].next + s, blocks |-> Y[n + 1].blocks]
        BY <4>5, <4>8
      <4>10. Y[n + 1] # NoMacroblock
        BY <4>2, <4>5 DEF NoMacroblock
      <4>. QED
        BY <4>9, <4>10 DEF BuiltAlike
    <3>. QED
      BY <3>7, <3>8
  <2>. QED
    BY <2>4, <2>5
<1>. HIDE DEF T
<1>3. Nat \subseteq T
  BY <1>1, <1>2, SetInduction
<1>4. ASSUME NEW b \in 0 .. BlocksOf(depth) PROVE BuiltAlike(Y[b], W[b], s, same)
  <2>1. b \in T
    BY <1>0, <1>3
  <2>. QED
    BY <2>1 DEF T
<1>. QED
  BY <1>4

\* A macroblock is the same in both buffers (decode_next_macroblock).
LEMMA MacroblockShifts ==
  ASSUME NEW p \in Seq(Half), NEW q \in Seq(Half), NEW s \in Nat, NEW c \in BOOLEAN, NEW d \in BOOLEAN,
         Embedded(q, d, p, c, s), NEW pos \in 1 .. Len(q) + 1, NEW depth, NEW t
  PROVE  BuiltAlike(Macroblock(q, pos, depth, d, t), Macroblock(p, pos + s, depth, c, t), s, Same(q, d, p, c, s))
<1>1. pos \in Nat \ {0} /\ pos + s \in Nat \ {0} /\ BlocksOf(depth) \in 0 .. BlocksOf(depth)
  BY BlocksOfFacts
<1>2. PICK Y : UpToRule(Y, q, pos, depth, d, t) /\ Macroblock(q, pos, depth, d, t) = Y[BlocksOf(depth)]
  BY <1>1, MacroblockUpTo
<1>3. PICK W : UpToRule(W, p, pos + s, depth, c, t) /\ Macroblock(p, pos + s, depth, c, t) = W[BlocksOf(depth)]
  <2>1. PICK m \in Nat \ {0} : m = pos + s
    BY <1>1, Zenon
  <2>2. \E W : UpToRule(W, p, m, depth, c, t) /\ Macroblock(p, m, depth, c, t) = W[BlocksOf(depth)]
    BY ONLY m \in Nat \ {0}, p \in Seq(Half), c \in BOOLEAN, MacroblockUpTo
  <2>. QED BY <2>1, <2>2, Zenon
<1>4. BuiltAlike(Y[BlocksOf(depth)], W[BlocksOf(depth)], s, Same(q, d, p, c, s))
  BY <1>1, <1>2, <1>3, UpToShifts
<1>. QED
  BY <1>2, <1>3, <1>4

(* The macroblocks of a buffer, one after the other.                       *)
InFrontOf(r, mb) == [r EXCEPT !.mbs = <<mb>> \o @]

\* What is found from pos on, from what is found further on.
FromStep(F, p, depth, c, t, pos) ==
  IF pos > Len(p) \/ Macroblock(p, pos, depth, c, t).blocks = <<>> THEN [next |-> pos, mbs |-> <<>>]
  ELSE InFrontOf(F[Macroblock(p, pos, depth, c, t).next], Macroblock(p, pos, depth, c, t).blocks)

\* F holds what is found from everywhere.
FromRule(F, p, depth, c, t) ==
  \A pos \in 1 .. Len(p) + 1 : F[pos] = FromStep(F, p, depth, c, t, pos)

\* Macroblocks, and where the first half not used for them is.
Sequence(t) == [next : Nat, mbs : Seq(Seq(CodedBlocks(t)))]

\* A macroblock in front leaves the end where it is.
LEMMA InFrontOfTyped ==
  ASSUME NEW t, NEW r \in Sequence(t), NEW mb \in Seq(CodedBlocks(t))
  PROVE  /\ InFrontOf(r, mb) = [next |-> r.next, mbs |-> <<mb>> \o r.mbs]
         /\ InFrontOf(r, mb) \in Sequence(t)
         /\ r.next \in Nat /\ r.mbs \in Seq(Seq(CodedBlocks(t)))
<1>1. r.next \in Nat /\ r.mbs \in Seq(Seq(CodedBlocks(t)))
  BY DEF Sequence
<1>2. InFrontOf(r, mb) = [next |-> r.next, mbs |-> <<mb>> \o r.mbs]
  <2>1. InFrontOf(r, mb) = [r EXCEPT !.mbs = <<mb>> \o r.mbs]
    BY DEF InFrontOf
  <2>2. ASSUME NEW v PROVE [r EXCEPT !.mbs = v] = [next |-> r.next, mbs |-> v]
    <3>1. PICK X : X = Seq(Seq(CodedBlocks(t)))
      OBVIOUS
    <3>2. r \in [next : Nat, mbs : X]
      BY <3>1, Zenon DEF Sequence
    <3>. QED BY ONLY <3>2
  <2>. QED
    BY <2>1, <2>2
<1>3. <<mb>> \o r.mbs \in Seq(Seq(CodedBlocks(t)))
  BY <1>1
<1>4. InFrontOf(r, mb) \in Sequence(t)
  BY <1>1, <1>2, <1>3 DEF Sequence
<1>. QED
  BY <1>1, <1>2, <1>4

\* There is nothing of a macroblock, or it is built and ends further on.
LEMMA MacroblockNext ==
  ASSUME NEW p \in Seq(Half), NEW pos \in 1 .. Len(p) + 1, NEW c \in BOOLEAN, NEW depth, NEW t,
         NEW mb, mb = Macroblock(p, pos, depth, c, t)
  PROVE  /\ mb.blocks = <<>> <=> mb = NoMacroblock
         /\ mb.blocks # <<>> => /\ mb.next \in 1 .. Len(p) + 1 /\ mb.next > pos
                                /\ mb.blocks \in Seq(CodedBlocks(t))
<1>1. BuiltUpTo(mb, BlocksOf(depth), p, pos, t) /\ BlocksOf(depth) \in Nat /\ BlocksOf(depth) > 0
  BY MacroblockTyped, BlocksOfFacts
<1>2. CASE mb = NoMacroblock
  BY <1>2 DEF NoMacroblock
<1>3. CASE mb # NoMacroblock
  <2>1. mb.next \in pos + BlocksOf(depth) .. Len(p) + 1 /\ Len(mb.blocks) = BlocksOf(depth)
    BY <1>1, <1>3 DEF BuiltUpTo
  <2>2. mb.blocks \in Seq(CodedBlocks(t))
    BY <1>1, <1>3 DEF BuiltUpTo, Built
  <2>3. mb.blocks # <<>>
    BY <1>1, <2>1
  <2>4. mb.next \in 1 .. Len(p) + 1 /\ mb.next > pos
    BY <1>1, <2>1
  <2>. QED
    BY <1>3, <2>2, <2>3, <2>4
<1>. QED
  BY <1>2, <1>3

\* One more macroblock is found, or none.
LEMMA FromStepTyped ==
  ASSUME NEW p \in Seq(Half), NEW c \in BOOLEAN, NEW depth, NEW t, NEW F, NEW pos \in 1 .. Len(p) + 1,
         \A i \in 1 .. Len(p) + 1 : i > pos => F[i] \in Sequence(t)
  PROVE  FromStep(F, p, depth, c, t, pos) \in Sequence(t)
<1>. DEFINE mb == Macroblock(p, pos, depth, c, t)
<1>1. CASE pos > Len(p) \/ mb.blocks = <<>>
  <2>1. FromStep(F, p, depth, c, t, pos) = [next |-> pos, mbs |-> <<>>]
    BY <1>1 DEF FromStep
  <2>2. pos \in Nat /\ <<>> \in Seq(Seq(CodedBlocks(t)))
    BY EmptySeq
  <2>. QED
    BY <2>1, <2>2 DEF Sequence
<1>2. CASE ~(pos > Len(p) \/ mb.blocks = <<>>)
  <2>1. FromStep(F, p, depth, c, t, pos) = InFrontOf(F[mb.next], mb.blocks)
    BY <1>2 DEF FromStep
  <2>2. mb.next \in 1 .. Len(p) + 1 /\ mb.next > pos /\ mb.blocks \in Seq(CodedBlocks(t))
    <3>1. mb.blocks # <<>>
      BY <1>2
    <3>2. PICK x : x = mb
      OBVIOUS
    <3>. QED
      BY <3>1, <3>2, MacroblockNext
  <2>3. F[mb.next] \in Sequence(t)
    BY <2>2
  <2>. QED
    BY <2>1, <2>2, <2>3, InFrontOfTyped
<1>. QED
  BY <1>1, <1>2

\* Finding one macroblock after the other is well defined.
LEMMA FromExists ==
  ASSUME NEW p \in Seq(Half), NEW c \in BOOLEAN, NEW depth, NEW t
  PROVE  \E F \in [1 .. Len(p) + 1 -> Sequence(t)] : FromRule(F, p, depth, c, t)
<1>. DEFINE S == 1 .. Len(p) + 1
            V == Sequence(t)
            m == [i \in S |-> Len(p) + 1 - i]
            G == [z \in S \X [S -> V] |-> FromStep(z[2], p, depth, c, t, z[1])]
<1>1. [next |-> 0, mbs |-> <<>>] \in V
  BY EmptySeq DEF Sequence
<1>2. m \in [S -> 0 .. Len(p)] /\ Len(p) \in Nat
  OBVIOUS
<1>3. ASSUME NEW f \in [S -> V], NEW i \in S PROVE FromStep(f, p, depth, c, t, i) \in V
  <2>1. \A j \in 1 .. Len(p) + 1 : j > i => f[j] \in Sequence(t)
    OBVIOUS
  <2>. HIDE DEF V
  <2>2. FromStep(f, p, depth, c, t, i) \in Sequence(t)
    BY <2>1, FromStepTyped
  <2>. QED
    BY <2>2 DEF V
<1>4. G \in [S \X [S -> V] -> V]
  <2>1. ASSUME NEW z \in S \X [S -> V] PROVE FromStep(z[2], p, depth, c, t, z[1]) \in V
    <3>1. z[1] \in S /\ z[2] \in [S -> V]
      OBVIOUS
    <3>. HIDE DEF S, V
    <3>. QED
      BY <1>3, <3>1
  <2>. HIDE DEF S, V
  <2>. QED
    BY <2>1
<1>5. ASSUME NEW i \in S, NEW g \in [S -> V], NEW h \in [S -> V], \A j \in S : m[j] < m[i] => g[j] = h[j]
      PROVE  G[<<i, g>>] = G[<<i, h>>]
  <2>. DEFINE mb == Macroblock(p, i, depth, c, t)
  <2>1. mb.blocks # <<>> => mb.next \in S /\ m[mb.next] < m[i]
    <3>1. PICK x : x = mb
      OBVIOUS
    <3>2. mb.blocks # <<>> => mb.next \in 1 .. Len(p) + 1 /\ mb.next > i
      BY <3>1, MacroblockNext
    <3>3. ASSUME NEW n \in S, n > i PROVE m[n] < m[i]
      BY <1>2, <3>3
    <3>. HIDE DEF mb, m
    <3>. QED
      BY <3>2, <3>3
  <2>2. mb.blocks # <<>> => g[mb.next] = h[mb.next]
    <3>. HIDE DEF m, mb
    <3>. QED
      BY <1>5, <2>1
  <2>3. FromStep(g, p, depth, c, t, i) = FromStep(h, p, depth, c, t, i)
    BY <2>2 DEF FromStep
  <2>4. G[<<i, g>>] = FromStep(g, p, depth, c, t, i)
    OBVIOUS
  <2>5. G[<<i, h>>] = FromStep(h, p, depth, c, t, i)
    OBVIOUS
  <2>. QED
    BY <2>3, <2>4, <2>5
<1>6. \A f \in [S -> V] : \A i \in S : G[<<i, f>>] = FromStep(f, p, depth, c, t, i)
  OBVIOUS
<1>7. WellFounded(S, V, m, Len(p), G)
  <2>1. \A i \in S : \A g, h \in [S -> V] :
          (\A j \in S : m[j] < m[i] => g[j] = h[j]) => G[<<i, g>>] = G[<<i, h>>]
    BY <1>5
  <2>. HIDE DEF S, V, m, G
  <2>. QED
    BY <1>1, <1>2, <1>4, <2>1 DEF WellFounded
<1>8. \E f : Solution(S, V, G, f)
  <2>. HIDE DEF S, V, m, G
  <2>. QED
    BY <1>7, SolutionExists, Zenon
<1>9. PICK f \in [S -> V] : \A i \in S : f[i] = G[<<i, f>>]
  <2>. HIDE DEF S, V, m, G
  <2>. QED
    BY <1>8 DEF Solution
<1>10. \A i \in S : f[i] = FromStep(f, p, depth, c, t, i)
  <2>. HIDE DEF S, V, m, G
  <2>. QED
    BY <1>6, <1>9
<1>. QED
  BY <1>10 DEF FromRule

\* What Macroblocks computes is what is found from the start.
LEMMA MacroblocksFrom ==
  ASSUME NEW p \in Seq(Half), NEW c \in BOOLEAN, NEW depth, NEW t
  PROVE  \E F : FromRule(F, p, depth, c, t) /\ Macroblocks(p, depth, c, t) = F[1]
<1>. DEFINE S == 1 .. Len(p) + 1
            Eq(F) == F = [pos \in S |->
              LET mb == Macroblock(p, pos, depth, c, t)
              IN  IF pos > Len(p) \/ mb.blocks = <<>> THEN [next |-> pos, mbs |-> <<>>]
                  ELSE [F[mb.next] EXCEPT !.mbs = <<mb.blocks>> \o @]]
            from == CHOOSE F : Eq(F)
<1>1. \A F : Eq(F) <=> F = [pos \in S |-> FromStep(F, p, depth, c, t, pos)]
  BY DEF FromStep, InFrontOf
<1>2. PICK f \in [S -> Sequence(t)] : FromRule(f, p, depth, c, t)
  BY FromExists
<1>3. f = [pos \in S |-> FromStep(f, p, depth, c, t, pos)]
  <2>1. \A pos \in S : f[pos] = FromStep(f, p, depth, c, t, pos)
    BY <1>2 DEF FromRule
  <2>. QED
    BY <2>1
<1>. HIDE DEF Eq
<1>4. Eq(f)
  BY <1>1, <1>3
<1>5. Eq(from)
  BY <1>4
<1>6. from = [pos \in S |-> FromStep(from, p, depth, c, t, pos)]
  <2>. HIDE DEF from
  <2>. QED BY <1>1, <1>5
<1>7. FromRule(from, p, depth, c, t)
  <2>. HIDE DEF from
  <2>1. ASSUME NEW pos \in S PROVE from[pos] = FromStep(from, p, depth, c, t, pos)
    <3>. HIDE DEF S
    <3>1. PICK f1 : f1 = from
      OBVIOUS
    <3>2. f1 = [j \in S |-> FromStep(f1, p, depth, c, t, j)]
      BY <1>6, <3>1, Zenon
    <3>. QED
      BY <3>1, <3>2
  <2>. QED BY <2>1 DEF FromRule
<1>8. Macroblocks(p, depth, c, t) = from[1]
  BY DEF Macroblocks, from, Eq
<1>. QED
  BY <1>7, <1>8

\* Decoding ends inside the buffer, and never before where it began.
LEMMA FromTyped ==
  ASSUME NEW p \in Seq(Half), NEW c \in BOOLEAN, NEW depth, NEW t, NEW F, FromRule(F, p, depth, c, t)
  PROVE  \A i \in 1 .. Len(p) + 1 : F[i] \in Sequence(t) /\ F[i].next \in i .. Len(p) + 1
<1>. DEFINE Good(i) == F[i] \in Sequence(t) /\ F[i].next \in i .. Len(p) + 1
            T == {n \in Nat : \A i \in 1 .. Len(p) + 1 : Len(p) + 1 - i <= n => Good(i)}
<1>0. Len(p) \in Nat
  OBVIOUS
<1>1. ASSUME NEW i \in 1 .. Len(p) + 1, \A j \in 1 .. Len(p) + 1 : j > i => Good(j) PROVE Good(i)
  <2>1. F[i] = FromStep(F, p, depth, c, t, i)
    BY DEF FromRule
  <2>2. F[i] \in Sequence(t)
    BY <1>1, <2>1, FromStepTyped
  <2>. DEFINE mb == Macroblock(p, i, depth, c, t)
  <2>3. CASE i > Len(p) \/ mb.blocks = <<>>
    <3>1. F[i] = [next |-> i, mbs |-> <<>>]
      BY <2>1, <2>3 DEF FromStep
    <3>. QED
      BY <1>0, <2>2, <3>1
  <2>4. CASE ~(i > Len(p) \/ mb.blocks = <<>>)
    <3>1. mb.next \in 1 .. Len(p) + 1 /\ mb.next > i /\ mb.blocks \in Seq(CodedBlocks(t))
      <4>1. mb.blocks # <<>>
        BY <2>4
      <4>2. PICK x : x = mb
        OBVIOUS
      <4>. QED
        BY <4>1, <4>2, MacroblockNext
    <3>2. F[i] = InFrontOf(F[mb.next], mb.blocks)
      BY <2>1, <2>4 DEF FromStep
    <3>3. Good(mb.next)
      BY <1>1, <3>1
    <3>4. F[i].next = F[mb.next].next
      <4>1. PICK n \in 1 .. Len(p) + 1, b \in Seq(CodedBlocks(t)) : n = mb.next /\ b = mb.blocks
        BY <3>1
      <4>2. F[n] \in Sequence(t)
        BY <3>3, <4>1
      <4>3. InFrontOf(F[n], b) = [next |-> F[n].next, mbs |-> <<b>> \o F[n].mbs]
        BY <4>2, InFrontOfTyped
      <4>4. F[i] = InFrontOf(F[n], b)
        BY <3>2, <4>1
      <4>5. F[i].next = F[n].next
        BY <4>3, <4>4
      <4>. QED
        BY <4>1, <4>5
    <3>. QED
      BY <1>0, <2>2, <3>1, <3>3, <3>4
  <2>. QED
    BY <2>3, <2>4
<1>. HIDE DEF Good
<1>2. 0 \in T
  <2>1. ASSUME NEW i \in 1 .. Len(p) + 1, Len(p) + 1 - i <= 0 PROVE Good(i)
    <3>1. ~\E j \in 1 .. Len(p) + 1 : j > i
      BY <1>0, <2>1
    <3>. QED
      BY <1>1, <3>1
  <2>. QED BY <2>1
<1>3. ASSUME NEW n \in T \cap Nat PROVE n + 1 \in T
  <2>1. ASSUME NEW i \in 1 .. Len(p) + 1, Len(p) + 1 - i <= n + 1 PROVE Good(i)
    <3>1. ASSUME NEW j \in 1 .. Len(p) + 1, j > i PROVE Good(j)
      <4>1. n \in Nat /\ i \in Int /\ j \in Int
        BY <1>3
      <4>2. Len(p) + 1 - j <= n
        BY <1>0, <2>1, <3>1, <4>1
      <4>. QED
        BY <1>3, <4>2
    <3>. QED
      BY <1>1, <3>1
  <2>. QED BY <2>1
<1>. HIDE DEF T
<1>4. Nat \subseteq T
  BY <1>2, <1>3, SetInduction
<1>5. ASSUME NEW i \in 1 .. Len(p) + 1 PROVE Good(i)
  <2>1. Len(p) + 1 - i \in Nat
    BY <1>0
  <2>2. Len(p) + 1 - i \in T
    BY <1>4, <2>1
  <2>. QED
    BY <1>0, <2>1, <2>2 DEF T
<1>. QED
  BY <1>5 DEF Good

\* An element in front of a concatenation is in front of its first part.
LEMMA ConcatInFront ==
  \A S : \A x \in S, u \in Seq(S), v \in Seq(S) : (<<x>> \o u) \o v = <<x>> \o (u \o v)
<1>. SUFFICES ASSUME NEW S, NEW x \in S, NEW u \in Seq(S), NEW v \in Seq(S)
              PROVE  (<<x>> \o u) \o v = <<x>> \o (u \o v)
  OBVIOUS
<1>0. <<x>> \in Seq(S)
  OBVIOUS
<1>1. PICK h \in Seq(S) : h = <<x>>
  BY <1>0, Zenon
<1>2. (h \o u) \o v = h \o (u \o v)
  BY ConcatAssociative
<1>. QED
  BY <1>1, <1>2

\* A macroblock in front of what splits in two is in front of its first part.
LEMMA JoinsInFront ==
  ASSUME NEW t, NEW g \in Sequence(t), NEW f \in Sequence(t), NEW e \in Sequence(t),
         NEW b \in Seq(CodedBlocks(t)), f.next = e.next, f.mbs = g.mbs \o e.mbs
  PROVE  /\ InFrontOf(g, b).next = g.next
         /\ InFrontOf(f, b).next = e.next
         /\ InFrontOf(f, b).mbs = InFrontOf(g, b).mbs \o e.mbs
<1>1. ASSUME NEW r \in Sequence(t)
      PROVE  /\ r.mbs \in Seq(Seq(CodedBlocks(t)))
             /\ InFrontOf(r, b).next = r.next /\ InFrontOf(r, b).mbs = <<b>> \o r.mbs
  <2>1. InFrontOf(r, b) = [next |-> r.next, mbs |-> <<b>> \o r.mbs]
    BY InFrontOfTyped
  <2>2. r.mbs \in Seq(Seq(CodedBlocks(t)))
    BY InFrontOfTyped
  <2>. QED BY <2>1, <2>2
<1>2. g.mbs \in Seq(Seq(CodedBlocks(t))) /\ e.mbs \in Seq(Seq(CodedBlocks(t)))
  BY <1>1, Zenon
<1>3. (<<b>> \o g.mbs) \o e.mbs = <<b>> \o (g.mbs \o e.mbs)
  <2>1. PICK S, u, v : S = Seq(CodedBlocks(t)) /\ u = g.mbs /\ v = e.mbs
    OBVIOUS
  <2>2. b \in S /\ u \in Seq(S) /\ v \in Seq(S)
    BY <1>2, <2>1, Zenon
  <2>3. (<<b>> \o u) \o v = <<b>> \o (u \o v)
    BY ONLY <2>2, ConcatInFront
  <2>. QED BY <2>1, <2>3
<1>4. InFrontOf(f, b).mbs = InFrontOf(g, b).mbs \o e.mbs
  BY <1>1, <1>3, Zenon
<1>. QED
  BY <1>1, <1>4, Zenon

(* Decoding p goes on where decoding q stopped, and in the same buffer it  *)
(* stops there.                                                            *)
Continues(F, G, i, s, same) ==
  /\ F[i + s].next = F[G[i].next + s].next
  /\ F[i + s].mbs = G[i].mbs \o F[G[i].next + s].mbs
  /\ same => F[G[i].next + s] = [next |-> G[i].next + s, mbs |-> <<>>]

\* Decoding the longer buffer is decoding the shorter one and going on from there.
LEMMA FromContinues ==
  ASSUME NEW p \in Seq(Half), NEW q \in Seq(Half), NEW s \in Nat, NEW c \in BOOLEAN, NEW d \in BOOLEAN,
         Embedded(q, d, p, c, s), NEW depth, NEW t,
         NEW F, FromRule(F, p, depth, c, t), NEW G, FromRule(G, q, depth, d, t)
  PROVE  \A i \in 1 .. Len(q) + 1 : Continues(F, G, i, s, Same(q, d, p, c, s))
<1>. DEFINE same == Same(q, d, p, c, s)
            Good(i) == Continues(F, G, i, s, same)
            T == {n \in Nat : \A i \in 1 .. Len(q) + 1 : Len(q) + 1 - i <= n => Good(i)}
<1>0. /\ Len(p) \in Nat /\ Len(q) \in Nat /\ Len(q) + s <= Len(p)
      /\ same => Len(q) + s = Len(p)
  BY DEF Embedded, Same
<1>1. ASSUME NEW i \in 1 .. Len(q) + 1, \A j \in 1 .. Len(q) + 1 : j > i => Good(j) PROVE Good(i)
  <2>0. i + s \in 1 .. Len(p) + 1 /\ i \in Nat \ {0}
    BY <1>0
  <2>1. G[i] = FromStep(G, q, depth, d, t, i) /\ F[i + s] = FromStep(F, p, depth, c, t, i + s)
    BY <2>0 DEF FromRule
  <2>2. F[i + s] \in Sequence(t)
    BY <2>0, FromTyped
  <2>3. F[i + s].mbs \in Seq(Seq(CodedBlocks(t)))
    BY <2>2 DEF Sequence
  <2>. DEFINE mb == Macroblock(q, i, depth, d, t)
              mc == Macroblock(p, i + s, depth, c, t)
  <2>4. BuiltAlike(mb, mc, s, same)
    BY MacroblockShifts
  <2>5. PICK xb, xc : xb = mb /\ xc = mc
    OBVIOUS
  <2>6. /\ mb.blocks = <<>> <=> mb = NoMacroblock
        /\ mb.blocks # <<>> => /\ mb.next \in 1 .. Len(q) + 1 /\ mb.next > i
                               /\ mb.blocks \in Seq(CodedBlocks(t))
    BY <2>5, MacroblockNext
  <2>7. CASE i > Len(q) \/ mb.blocks = <<>>
    <3>1. G[i] = [next |-> i, mbs |-> <<>>]
      BY <2>1, <2>7 DEF FromStep
    <3>2. G[i].next = i /\ G[i].mbs = <<>>
      BY <3>1
    <3>3. <<>> \o F[i + s].mbs = F[i + s].mbs
      BY <2>3
    <3>4. same => F[i + s] = [next |-> i + s, mbs |-> <<>>]
      <4>. SUFFICES ASSUME same PROVE F[i + s] = [next |-> i + s, mbs |-> <<>>]
        OBVIOUS
      <4>1. CASE i > Len(q)
        <5>1. i + s > Len(p)
          BY <1>0, <2>0, <4>1
        <5>. QED
          BY <2>1, <5>1 DEF FromStep
      <4>2. CASE mb.blocks = <<>>
        <5>1. mc = NoMacroblock
          BY <2>4, <2>6, <4>2 DEF BuiltAlike
        <5>2. mc.blocks = <<>>
          BY <5>1 DEF NoMacroblock
        <5>. QED
          BY <2>1, <5>2 DEF FromStep
      <4>. QED
        BY <2>7, <4>1, <4>2
    <3>. QED
      BY <3>2, <3>3, <3>4 DEF Continues
  <2>8. CASE ~(i > Len(q) \/ mb.blocks = <<>>)
    <3>1. mb.next \in 1 .. Len(q) + 1 /\ mb.next > i /\ mb.blocks \in Seq(CodedBlocks(t)) /\ mb # NoMacroblock
      BY <2>6, <2>8
    <3>2. mc.next = mb.next + s /\ mc.blocks = mb.blocks
      BY <2>4, <3>1 DEF BuiltAlike
    <3>3. G[i] = InFrontOf(G[mb.next], mb.blocks)
      BY <2>1, <2>8 DEF FromStep
    <3>4. ~(i + s > Len(p)) /\ mc.blocks # <<>>
      BY <1>0, <2>0, <2>8, <3>2
    <3>5. F[i + s] = InFrontOf(F[mb.next + s], mb.blocks)
      BY <2>1, <3>2, <3>4 DEF FromStep
    <3>6. PICK n \in 1 .. Len(q) + 1, b \in Seq(CodedBlocks(t)) : n = mb.next /\ b = mb.blocks /\ n > i
      BY <3>1
    <3>7. G[i] = InFrontOf(G[n], b) /\ F[i + s] = InFrontOf(F[n + s], b)
      BY <3>3, <3>5, <3>6
    <3>8. G[n] \in Sequence(t) /\ G[n].next \in n .. Len(q) + 1
      BY FromTyped
    <3>9. n + s \in 1 .. Len(p) + 1 /\ G[n].next + s \in 1 .. Len(p) + 1
      <4>1. PICK x \in Nat, y \in Nat, m \in Int : x = Len(p) /\ y = Len(q) /\ m = G[n].next
        BY <1>0, <3>8
      <4>2. n \in 1 .. y + 1 /\ m \in n .. y + 1 /\ y + s <= x
        BY <1>0, <3>8, <4>1, Zenon
      <4>3. n + s \in 1 .. x + 1 /\ m + s \in 1 .. x + 1
        BY <4>2
      <4>. QED BY <4>1, <4>3, Zenon
    <3>10. F[n + s] \in Sequence(t) /\ F[G[n].next + s] \in Sequence(t)
      BY <3>9, FromTyped
    <3>11. PICK g \in Sequence(t), f \in Sequence(t), e \in Sequence(t) :
              g = G[n] /\ f = F[n + s] /\ e = F[G[n].next + s]
      BY <3>8, <3>10, Zenon
    <3>12. Continues(F, G, n, s, same)
      BY <1>1, <3>6, Zenon
    <3>13. f.next = e.next /\ f.mbs = g.mbs \o e.mbs
      BY <3>11, <3>12, Zenon DEF Continues
    <3>14. /\ InFrontOf(g, b).next = g.next
           /\ InFrontOf(f, b).next = e.next
           /\ InFrontOf(f, b).mbs = InFrontOf(g, b).mbs \o e.mbs
      BY <3>13, JoinsInFront
    <3>15. G[i].next = G[n].next
      BY <3>7, <3>11, <3>14, Zenon
    <3>15a. F[G[i].next + s] = e
      BY <3>11, <3>15, Zenon
    <3>16. F[i + s].mbs = G[i].mbs \o F[G[i].next + s].mbs
      BY <3>7, <3>11, <3>14, <3>15a, Zenon
    <3>17. F[i + s].next = F[G[i].next + s].next
      BY <3>7, <3>11, <3>14, <3>15a, Zenon
    <3>18. same => F[G[i].next + s] = [next |-> G[i].next + s, mbs |-> <<>>]
      BY <3>12, <3>15, Zenon DEF Continues
    <3>. HIDE DEF same
    <3>. QED
      BY <3>16, <3>17, <3>18 DEF Continues
  <2>. QED
    BY <2>7, <2>8
<1>. HIDE DEF Good
<1>2. 0 \in T
  <2>1. ASSUME NEW i \in 1 .. Len(q) + 1, Len(q) + 1 - i <= 0 PROVE Good(i)
    <3>1. ~\E j \in 1 .. Len(q) + 1 : j > i
      BY <1>0, <2>1
    <3>. QED
      BY <1>1, <3>1
  <2>. QED BY <2>1
<1>3. ASSUME NEW n \in T \cap Nat PROVE n + 1 \in T
  <2>1. ASSUME NEW i \in 1 .. Len(q) + 1, Len(q) + 1 - i <= n + 1 PROVE Good(i)
    <3>1. ASSUME NEW j \in 1 .. Len(q) + 1, j > i PROVE Good(j)
      <4>1. n \in Nat /\ i \in Int /\ j \in Int
        BY <1>3
      <4>2. Len(q) + 1 - j <= n
        BY <1>0, <2>1, <3>1, <4>1
      <4>. QED
        BY <1>3, <4>2
    <3>. QED
      BY <1>1, <3>1
  <2>. QED BY <2>1
<1>. HIDE DEF T
<1>4. Nat \subseteq T
  BY <1>2, <1>3, SetInduction
<1>5. ASSUME NEW i \in 1 .. Len(q) + 1 PROVE Good(i)
  <2>1. Len(q) + 1 - i \in Nat
    BY <1>0
  <2>2. Len(q) + 1 - i \in T
    BY <1>4, <2>1
  <2>. QED
    BY <1>0, <2>1, <2>2 DEF T
<1>. QED
  BY <1>5 DEF Good

\* Decoding a buffer gives macroblocks and ends inside it or at its end.
LEMMA MacroblocksTyped ==
  ASSUME NEW p \in Seq(Half), NEW c \in BOOLEAN, NEW depth, NEW t
  PROVE  /\ Macroblocks(p, depth, c, t).next \in 1 .. Len(p) + 1
         /\ Macroblocks(p, depth, c, t).mbs \in Seq(Seq(CodedBlocks(t)))
<1>1. PICK F : FromRule(F, p, depth, c, t) /\ Macroblocks(p, depth, c, t) = F[1]
  BY MacroblocksFrom
<1>2. 1 \in 1 .. Len(p) + 1
  OBVIOUS
<1>3. F[1] \in Sequence(t) /\ F[1].next \in 1 .. Len(p) + 1
  BY <1>1, <1>2, FromTyped
<1>. QED
  BY <1>1, <1>3 DEF Sequence

(* What is left of f after decoding it, then h: decoding that is decoding  *)
(* the rest of both.                                                       *)
DecodesOn(W, M, A, r, p) ==
  /\ A.mbs = W.mbs \o M.mbs
  /\ A.next = M.next + (W.next - 1)
  /\ SubSeq(r, M.next, Len(r)) = SubSeq(p, A.next, Len(p))

\* What is left of a sequence from n on.
LEMMA RestOf ==
  ASSUME NEW S, NEW s \in Seq(S), NEW n \in 1 .. Len(s) + 1
  PROVE  /\ SubSeq(s, n, Len(s)) \in Seq(S) /\ Len(SubSeq(s, n, Len(s))) = Len(s) + 1 - n
         /\ \A j \in 1 .. Len(s) + 1 - n : SubSeq(s, n, Len(s))[j] = s[n + j - 1]
<1>0. Len(s) \in Nat
  OBVIOUS
<1>1. /\ SubSeq(s, n, Len(s)) \in Seq(S) /\ Len(SubSeq(s, n, Len(s))) = IF n <= Len(s) THEN Len(s) - n + 1 ELSE 0
      /\ \A j \in 1 .. Len(s) - n + 1 : SubSeq(s, n, Len(s))[j] = s[n + j - 1]
  <2>1. n \in Int /\ Len(s) \in Int /\ \A i \in n .. Len(s) : s[i] \in S
    BY <1>0
  <2>. QED
    BY <2>1, SubSeqProperties
<1>2. Len(s) - n + 1 = Len(s) + 1 - n /\ (IF n <= Len(s) THEN Len(s) - n + 1 ELSE 0) = Len(s) + 1 - n
  BY <1>0
<1>. QED
  BY <1>1, <1>2

\* W is found in f; what is left of f and then h is r, and M is found there; A is found in both.
Decoding(f, h, c, depth, t, W, r, M, A) ==
  /\ W = Macroblocks(f, depth, FALSE, t)
  /\ r = SubSeq(f, W.next, Len(f)) \o h
  /\ M = Macroblocks(r, depth, c, t)
  /\ A = Macroblocks(f \o h, depth, c, t)

\* The rests of two sequences that agree up to a shift.
LEMMA RestSame ==
  ASSUME NEW S, NEW r \in Seq(S), NEW p \in Seq(S), NEW k \in Nat, Len(p) = Len(r) + k,
         \A i \in 1 .. Len(r) : r[i] = p[i + k], NEW m \in 1 .. Len(r) + 1
  PROVE  SubSeq(r, m, Len(r)) = SubSeq(p, m + k, Len(p))
<1>1. PICK l \in Nat : l = Len(r)
  OBVIOUS
<1>2. m + k \in 1 .. Len(p) + 1
  BY <1>1
<1>3. PICK a : a = SubSeq(r, m, Len(r))
  OBVIOUS
<1>4. PICK b : b = SubSeq(p, m + k, Len(p))
  OBVIOUS
<1>5. a \in Seq(S) /\ Len(a) = l + 1 - m /\ \A j \in 1 .. l + 1 - m : a[j] = r[m + j - 1]
  BY <1>1, <1>3, RestOf
<1>6. /\ b \in Seq(S) /\ Len(b) = (l + k) + 1 - (m + k)
      /\ \A j \in 1 .. (l + k) + 1 - (m + k) : b[j] = p[(m + k) + j - 1]
  <2>1. /\ b \in Seq(S) /\ Len(b) = Len(p) + 1 - (m + k)
        /\ \A j \in 1 .. Len(p) + 1 - (m + k) : b[j] = p[(m + k) + j - 1]
    BY <1>2, <1>4, RestOf
  <2>. QED BY <1>1, <2>1, Zenon
<1>7. m \in 1 .. l + 1 /\ \A i \in 1 .. l : r[i] = p[i + k]
  BY <1>1, Zenon
<1>8. (l + k) + 1 - (m + k) = l + 1 - m
  BY <1>7
<1>9. ASSUME NEW j \in 1 .. l + 1 - m PROVE a[j] = b[j]
  <2>1. m + j - 1 \in 1 .. l /\ (m + j - 1) + k = (m + k) + j - 1
    BY <1>7
  <2>. QED BY <1>5, <1>6, <1>7, <1>8, <2>1, Zenon
<1>. QED
  BY <1>3, <1>4, <1>5, <1>6, <1>8, <1>9, SeqEqual

\* Roll-back and compaction lose nothing and find nothing twice (decode_available).
LEMMA DecodeMore ==
  ASSUME NEW f \in Seq(Half), NEW h \in Seq(Half), NEW c \in BOOLEAN, NEW depth, NEW t,
         NEW W, NEW r, NEW M, NEW A, Decoding(f, h, c, depth, t, W, r, M, A)
  PROVE  DecodesOn(W, M, A, r, f \o h)
<1>. DEFINE p == f \o h
<1>1. W.next \in 1 .. Len(f) + 1
  <2>1. Macroblocks(f, depth, FALSE, t).next \in 1 .. Len(f) + 1
    BY MacroblocksTyped
  <2>. QED
    BY <2>1 DEF Decoding
<1>2. PICK n \in 1 .. Len(f) + 1 : n = W.next
  BY <1>1
<1>3. p \in Seq(Half) /\ Len(p) = Len(f) + Len(h) /\ Len(f) \in Nat /\ Len(h) \in Nat
  OBVIOUS
<1>4a. PICK rest : rest = SubSeq(f, n, Len(f))
  OBVIOUS
<1>4b. /\ rest \in Seq(Half) /\ Len(rest) = Len(f) + 1 - n
       /\ \A j \in 1 .. Len(f) + 1 - n : rest[j] = f[n + j - 1]
  BY <1>4a, RestOf
<1>4c. r = rest \o h
  BY <1>2, <1>4a, Zenon DEF Decoding
<1>4. r \in Seq(Half) /\ Len(r) = Len(p) - (n - 1) /\ Len(r) \in Nat
  <2>1. r \in Seq(Half) /\ Len(r) = Len(rest) + Len(h)
    BY <1>4b, <1>4c, ConcatProperties
  <2>. QED
    BY <1>3, <1>4b, <2>1
<1>5. ASSUME NEW i \in 1 .. Len(r) PROVE r[i] = p[i + (n - 1)]
  <2>1. /\ \A j \in 1 .. Len(rest) + Len(h) : r[j] = IF j <= Len(rest) THEN rest[j] ELSE h[j - Len(rest)]
        /\ \A j \in 1 .. Len(f) + Len(h) : p[j] = IF j <= Len(f) THEN f[j] ELSE h[j - Len(f)]
    BY <1>4b, <1>4c, ConcatProperties
  <2>. HIDE DEF p
  <2>2. /\ i \in 1 .. Len(rest) + Len(h) /\ i + (n - 1) \in 1 .. Len(f) + Len(h)
        /\ i \in Int /\ (i <= Len(rest) <=> i + (n - 1) <= Len(f))
        /\ i - Len(rest) = (i + (n - 1)) - Len(f) /\ n + i - 1 = i + (n - 1)
    <3>0. Len(rest) \in Nat /\ Len(f) \in Nat /\ Len(h) \in Nat
      <4>1. rest \in Seq(Half)
        BY <1>4b, Zenon
      <4>. QED BY <1>3, <4>1
    <3>1. PICK x \in Nat, y \in Nat, z \in Nat : x = Len(rest) /\ y = Len(f) /\ z = Len(h)
      BY <3>0, Zenon
    <3>2. x = y + 1 - n /\ i \in 1 .. (y + z) - (n - 1) /\ n \in 1 .. y + 1
      BY <1>3, <1>4, <1>4b, <3>1, Zenon
    <3>3. /\ i \in 1 .. x + z /\ i + (n - 1) \in 1 .. y + z
          /\ i \in Int /\ (i <= x <=> i + (n - 1) <= y)
          /\ i - x = (i + (n - 1)) - y /\ n + i - 1 = i + (n - 1)
      <4>1. i \in Int /\ n \in Int /\ n >= 1
        BY <3>2
      <4>2. i \in 1 .. x + z /\ i + (n - 1) \in 1 .. y + z
        BY <3>2, <4>1
      <4>3. i <= x <=> i + (n - 1) <= y
        BY <3>2, <4>1
      <4>4. i - x = (i + (n - 1)) - y /\ n + i - 1 = i + (n - 1)
        BY <3>2, <4>1
      <4>. QED BY <4>1, <4>2, <4>3, <4>4, Zenon
    <3>. QED BY <3>1, <3>3, Zenon
  <2>3. CASE i <= Len(rest)
    <3>1. r[i] = rest[i]
      BY <2>1, <2>2, <2>3
    <3>2. rest[i] = f[n + i - 1]
      <4>1. i \in 1 .. Len(rest)
        BY <1>4b, <2>2, <2>3
      <4>. QED BY <1>4b, <4>1, Zenon
    <3>3. p[i + (n - 1)] = f[i + (n - 1)]
      <4>1. i + (n - 1) <= Len(f)
        BY <2>2, <2>3, Zenon
      <4>2. PICK k \in 1 .. Len(f) + Len(h) : k = i + (n - 1) /\ k <= Len(f)
        BY <2>2, <4>1, Zenon
      <4>3. p[k] = f[k]
        BY <2>1, <4>2, Zenon
      <4>. QED BY <4>2, <4>3, Zenon
    <3>. QED
      BY <2>2, <3>1, <3>2, <3>3, Zenon
  <2>4. CASE ~(i <= Len(rest))
    <3>1. r[i] = h[i - Len(rest)]
      BY <2>1, <2>2, <2>4
    <3>2. p[i + (n - 1)] = h[(i + (n - 1)) - Len(f)]
      BY <2>1, <2>2, <2>4
    <3>. QED
      BY <2>2, <3>1, <3>2
  <2>. QED
    BY <2>3, <2>4
<1>6. Embedded(f, FALSE, p, c, 0)
  BY <1>3 DEF Embedded
<1>7. Embedded(r, c, p, c, n - 1) /\ Same(r, c, p, c, n - 1) /\ n - 1 \in Nat
  <2>. HIDE DEF p
  <2>1. n - 1 \in Nat /\ Len(r) + (n - 1) = Len(p)
    BY <1>3, <1>4
  <2>. QED
    <3>1. \A i \in 1 .. Len(r) : r[i] = p[i + (n - 1)]
      BY <1>5
    <3>2. Len(r) + (n - 1) <= Len(p)
      BY <1>3, <2>1
    <3>3. Embedded(r, c, p, c, n - 1)
      BY <2>1, <3>1, <3>2, Zenon DEF Embedded
    <3>. QED
      BY <2>1, <3>3, Zenon DEF Same
<1>. HIDE DEF p
<1>8. PICK F : FromRule(F, p, depth, c, t) /\ A = F[1]
  <2>1. A = Macroblocks(p, depth, c, t)
    BY Zenon DEF p, Decoding
  <2>2. \E F : FromRule(F, p, depth, c, t) /\ Macroblocks(p, depth, c, t) = F[1]
    BY <1>3, MacroblocksFrom
  <2>. QED
    BY <2>1, <2>2, Zenon
<1>9. PICK G : FromRule(G, f, depth, FALSE, t) /\ W = G[1]
  <2>1. \E G : FromRule(G, f, depth, FALSE, t) /\ Macroblocks(f, depth, FALSE, t) = G[1]
    <3>1. \A b \in BOOLEAN : \E G : FromRule(G, f, depth, b, t) /\ Macroblocks(f, depth, b, t) = G[1]
      BY MacroblocksFrom
    <3>2. FALSE \in BOOLEAN
      OBVIOUS
    <3>. QED
      BY <3>1, <3>2, Zenon
  <2>2. W = Macroblocks(f, depth, FALSE, t)
    BY Zenon DEF Decoding
  <2>. QED
    BY <2>1, <2>2, Zenon
<1>10. PICK H : FromRule(H, r, depth, c, t) /\ M = H[1]
  <2>1. \E H : FromRule(H, r, depth, c, t) /\ Macroblocks(r, depth, c, t) = H[1]
    BY <1>4, MacroblocksFrom
  <2>2. M = Macroblocks(r, depth, c, t)
    BY Zenon DEF Decoding
  <2>. QED
    BY <2>1, <2>2, Zenon
<1>11. Continues(F, G, 1, 0, Same(f, FALSE, p, c, 0))
  <2>1. 1 \in 1 .. Len(f) + 1 /\ 0 \in Nat /\ FALSE \in BOOLEAN
    OBVIOUS
  <2>. QED
    BY <1>3, <1>6, <1>8, <1>9, <2>1, FromContinues
<1>12. F[1].next = F[n].next /\ F[1].mbs = W.mbs \o F[n].mbs
  <2>1. 1 + 0 = 1 /\ n + 0 = n
    OBVIOUS
  <2>. QED
    BY <1>2, <1>9, <1>11, <2>1 DEF Continues
<1>13. Continues(F, H, 1, n - 1, Same(r, c, p, c, n - 1))
  <2>1. 1 \in 1 .. Len(r) + 1
    BY <1>4
  <2>. QED
    BY <1>3, <1>4, <1>7, <1>8, <1>10, <2>1, FromContinues
<1>14. /\ F[n].next = F[M.next + (n - 1)].next
       /\ F[n].mbs = M.mbs \o F[M.next + (n - 1)].mbs
       /\ F[M.next + (n - 1)] = [next |-> M.next + (n - 1), mbs |-> <<>>]
  <2>1. 1 + (n - 1) = n
    OBVIOUS
  <2>. QED
    BY <1>7, <1>10, <1>13, <2>1 DEF Continues
<1>15. M.next \in 1 .. Len(r) + 1 /\ M.mbs \in Seq(Seq(CodedBlocks(t)))
  <2>1. M = Macroblocks(r, depth, c, t)
    BY Zenon DEF Decoding
  <2>. QED
    BY <1>4, <2>1, MacroblocksTyped
<1>16. F[n].next = M.next + (n - 1) /\ F[n].mbs = M.mbs
  <2>1. M.mbs \o <<>> = M.mbs
    BY <1>15
  <2>. QED
    BY <1>14, <2>1
<1>17. A.mbs = W.mbs \o M.mbs /\ A.next = M.next + (n - 1)
  BY <1>8, <1>12, <1>16
<1>18. SubSeq(r, M.next, Len(r)) = SubSeq(p, A.next, Len(p))
  <2>1. n - 1 \in Nat /\ Len(p) = Len(r) + (n - 1)
    BY <1>3, <1>4
  <2>2. \A i \in 1 .. Len(r) : r[i] = p[i + (n - 1)]
    BY <1>5, Zenon
  <2>3. PICK m \in 1 .. Len(r) + 1, k \in Nat : m = M.next /\ k = n - 1
    BY <1>15, <2>1, Zenon
  <2>4. Len(p) = Len(r) + k /\ \A i \in 1 .. Len(r) : r[i] = p[i + k]
    BY <2>1, <2>2, <2>3, Zenon
  <2>5. SubSeq(r, m, Len(r)) = SubSeq(p, m + k, Len(p))
    BY <1>3, <1>4, <2>4, RestSame
  <2>. QED
    BY <1>17, <2>3, <2>5, Zenon
<1>. QED
  BY <1>2, <1>17, <1>18 DEF DecodesOn, p

(* The program's words, and where decoding stands.                         *)
Commands(prog) ==
  prog \in Seq(Word) /\ \A k \in DOMAIN prog : prog[k].op = 1 => prog[k].n <= MAX_WORDS

\* What is decoded is whole, rest is what was not used, and the words due fit.
SoFar(dec, whole, f, rest, more, due) ==
  /\ dec = whole.mbs
  /\ more => rest = SubSeq(f, whole.next, Len(f)) /\ Len(f) + 2 * due <= 2 * MAX_WORDS

(* While a picture is decoded, the macroblocks found are those of all the  *)
(* halves fed, the buffer holds the rest of them, and what the command is  *)
(* still to bring fits.                                                    *)
MdecInv ==
  /\ Commands(todo)
  /\ fed \in Seq(Half)
  /\ words_remaining \in Nat
  /\ receiving \in BOOLEAN /\ (receiving <=> words_remaining # 0)
  /\ active_command \in 0 .. 7
  /\ output_depth \in 0 .. 3
  /\ active_command = 1 =>
       SoFar(decoded, Macroblocks(fed, output_depth, ~receiving, InForce), fed, params, receiving, words_remaining)

\* The first word of the program, and the rest of it.
LEMMA CommandsFacts ==
  ASSUME NEW prog, Commands(prog), prog # <<>>
  PROVE  /\ Commands(Tail(prog))
         /\ Head(prog).op \in 0 .. 7 /\ Head(prog).depth \in 0 .. 3 /\ Head(prog).n \in Nat
         /\ Head(prog).op = 1 => Head(prog).n <= MAX_WORDS
         /\ Head(prog).halves \in Seq(Half) /\ Len(Head(prog).halves) = 2
<1>1. prog \in Seq(Word) /\ \A k \in DOMAIN prog : prog[k].op = 1 => prog[k].n <= MAX_WORDS
  BY DEF Commands
<1>2. /\ Head(prog) = prog[1] /\ 1 \in DOMAIN prog /\ Head(prog) \in Word
      /\ Tail(prog) \in Seq(Word) /\ \A k \in DOMAIN Tail(prog) : k + 1 \in DOMAIN prog /\ Tail(prog)[k] = prog[k + 1]
  BY <1>1
<1>3. Commands(Tail(prog))
  BY <1>1, <1>2 DEF Commands
<1>4. Head(prog).op = 1 => Head(prog).n <= MAX_WORDS
  BY <1>1, <1>2
<1>5. /\ Head(prog).op \in 0 .. 7 /\ Head(prog).depth \in 0 .. 3 /\ Head(prog).n \in Nat
      /\ Head(prog).halves \in Half \X Half
  BY <1>2 DEF Word
<1>6. ASSUME NEW h \in Half \X Half PROVE h \in Seq(Half) /\ Len(h) = 2
  <2>1. PICK lo \in Half, hi \in Half : h = <<lo, hi>>
    OBVIOUS
  <2>2. <<lo, hi>> \in Seq(Half) /\ Len(<<lo, hi>>) = 2
    OBVIOUS
  <2>. QED
    BY <2>1, <2>2
<1>. QED
  BY <1>3, <1>4, <1>5, <1>6

\* Every stream is such a program.
LEMMA ProgramsAreCommands ==
  ASSUME NEW prog \in Streams \cup Restarts PROVE Commands(prog)
BY MdecAssumption DEF Commands

\* Nothing is found in an empty buffer.
LEMMA NothingFed ==
  ASSUME NEW c \in BOOLEAN, NEW depth, NEW t
  PROVE  Macroblocks(<<>>, depth, c, t) = [next |-> 1, mbs |-> <<>>]
<1>1. <<>> \in Seq(Half) /\ Len(<<>>) = 0
  BY EmptySeq
<1>2. PICK p \in Seq(Half) : p = <<>> /\ Len(p) = 0
  BY <1>1
<1>3. PICK F : FromRule(F, p, depth, c, t) /\ Macroblocks(p, depth, c, t) = F[1]
  BY MacroblocksFrom
<1>4. 1 \in 1 .. Len(p) + 1 /\ 1 > Len(p)
  BY <1>2
<1>5. F[1] = FromStep(F, p, depth, c, t, 1)
  BY <1>3, <1>4 DEF FromRule
<1>6. F[1] = [next |-> 1, mbs |-> <<>>]
  BY <1>4, <1>5 DEF FromStep
<1>. QED
  BY <1>2, <1>3, <1>6

\* A picture command begins with nothing decoded and room for all its words.
LEMMA StartsDecoding ==
  ASSUME NEW c \in BOOLEAN, NEW depth, NEW t, NEW n \in Nat, n <= MAX_WORDS
  PROVE  SoFar(<<>>, Macroblocks(<<>>, depth, c, t), <<>>, <<>>, ~c, n)
<1>1. PICK W : W = Macroblocks(<<>>, depth, c, t)
  OBVIOUS
<1>2. W.mbs = <<>> /\ W.next = 1
  BY <1>1, NothingFed
<1>3. Len(<<>>) = 0 /\ SubSeq(<<>>, 1, 0) = <<>>
  BY EmptySeq, SubSeqEmpty
<1>4. Len(<<>>) + 2 * n <= 2 * MAX_WORDS
  BY <1>3, MdecFacts
<1>5. <<>> = SubSeq(<<>>, W.next, Len(<<>>))
  BY <1>2, <1>3
<1>. QED
  BY <1>1, <1>2, <1>4, <1>5, Zenon DEF SoFar

\* It holds after mdec_init.
LEMMA MdecInitInv == MdecInit => MdecInv
<1>. SUFFICES ASSUME MdecInit PROVE MdecInv
  OBVIOUS
<1>1. Commands(todo)
  BY ProgramsAreCommands DEF MdecInit
<1>2. fed \in Seq(Half)
  BY EmptySeq DEF MdecInit
<1>3. /\ words_remaining = 0 /\ receiving = FALSE /\ active_command = 0 /\ output_depth = 2
  BY DEF MdecInit
<1>4. words_remaining \in Nat /\ active_command \in 0 .. 7 /\ active_command # 1 /\ output_depth \in 0 .. 3
  BY <1>3
<1>5. receiving \in BOOLEAN /\ (receiving <=> words_remaining # 0)
  BY <1>3
<1>. QED
  BY <1>1, <1>2, <1>4, <1>5, Zenon DEF MdecInv

\* The buffer after one more word: what was left and the word.
LEMMA WordFits ==
  ASSUME NEW f \in Seq(Half), NEW rest, NEW n \in 1 .. Len(f) + 1, rest = SubSeq(f, n, Len(f)),
         NEW due \in Nat, due # 0, Len(f) + 2 * due <= 2 * MAX_WORDS
  PROVE  Len(rest) + 2 <= PARAM_CAP
<1>1. Len(rest) = Len(f) + 1 - n /\ Len(f) \in Nat
  BY RestOf
<1>. QED
  BY <1>1, MdecFacts

\* Decoding as a word arrives keeps it.
LEMMA DecodeWordInv ==
  ASSUME MdecInv, DecodeWord PROVE MdecInv'
<1>0. /\ todo # <<>> /\ receiving /\ active_command = 1
      /\ todo' = Tail(todo)
      /\ words_remaining' = words_remaining - 1
      /\ receiving' = (words_remaining > 1)
      /\ fed' = fed \o Head(todo).halves
      /\ active_command' = active_command /\ output_depth' = output_depth
      /\ decode_available(Received, words_remaining = 1)
      /\ UNCHANGED tables
  BY DEF DecodeWord, TakeWord
<1>1. InForce' = InForce
  BY <1>0 DEF InForce, tables
<1>2. Commands(todo') /\ Head(todo).halves \in Seq(Half) /\ Len(Head(todo).halves) = 2
  BY <1>0, CommandsFacts DEF MdecInv
<1>3a. PICK t : t = InForce
  OBVIOUS
<1>3b. PICK f \in Seq(Half), h \in Seq(Half), c \in BOOLEAN, depth \in 0 .. 3 :
           f = fed /\ h = Head(todo).halves /\ c = (words_remaining = 1) /\ depth = output_depth
  BY <1>2, Zenon DEF MdecInv
<1>3. f = fed /\ h = Head(todo).halves /\ c = (words_remaining = 1) /\ depth = output_depth /\ t = InForce
  BY <1>3a, <1>3b, Zenon
<1>4. PICK W, r, M, A : /\ W = Macroblocks(f, depth, FALSE, t) /\ r = SubSeq(f, W.next, Len(f)) \o h
                        /\ M = Macroblocks(r, depth, c, t) /\ A = Macroblocks(f \o h, depth, c, t)
  OBVIOUS
<1>5. DecodesOn(W, M, A, r, f \o h)
  <2>1. Decoding(f, h, c, depth, t, W, r, M, A)
    BY <1>4, Zenon DEF Decoding
  <2>. HIDE DEF Decoding
  <2>. QED
    BY <2>1, DecodeMore
<1>6. words_remaining \in Nat /\ words_remaining # 0
  BY <1>0 DEF MdecInv
<1>7. (~receiving) = FALSE
  BY <1>0
<1>8. SoFar(decoded, W, f, params, TRUE, words_remaining)
  <2>1. SoFar(decoded, Macroblocks(fed, output_depth, ~receiving, InForce), fed, params, receiving, words_remaining)
    BY <1>0 DEF MdecInv
  <2>2. Macroblocks(fed, output_depth, ~receiving, InForce) = W
    BY <1>3, <1>4, <1>7, Zenon
  <2>3. SoFar(decoded, W, f, params, receiving, words_remaining)
    BY <2>1, <2>2, <1>3, Zenon
  <2>. QED
    BY <1>0, <2>3 DEF SoFar
<1>9. Received = r
  <2>1. W.next \in 1 .. Len(f) + 1
    <3>1. Macroblocks(f, depth, FALSE, t).next \in 1 .. Len(f) + 1
      BY MacroblocksTyped
    <3>. QED
      BY <1>4, <3>1
  <2>2. params = SubSeq(f, W.next, Len(f)) /\ Len(f) + 2 * words_remaining <= 2 * MAX_WORDS
    BY <1>8 DEF SoFar
  <2>3. Len(params) + 2 <= PARAM_CAP
    BY <1>6, <2>1, <2>2, WordFits
  <2>4. Received = params \o h
    BY <1>3, <2>3, Zenon DEF Received
  <2>. QED
    BY <1>4, <2>2, <2>4, Zenon
<1>10. params' = SubSeq(r, M.next, Len(r)) /\ decoded' = decoded \o M.mbs
  <2>1. decode_available(r, c)
    BY <1>0, <1>3, <1>9, Zenon
  <2>. QED
    BY <1>3, <1>4, <2>1, Zenon DEF decode_available
<1>11a. (words_remaining > 1) <=> ~(words_remaining = 1)
  BY <1>6
<1>11. (~receiving)' = c
  <2>1. receiving' <=> (words_remaining > 1)
    BY <1>0, Zenon
  <2>2. c <=> (words_remaining = 1)
    BY <1>3, Zenon
  <2>. QED
    BY <1>11a, <2>1, <2>2, Zenon
<1>12. A = Macroblocks(fed, output_depth, ~receiving, InForce)'
  BY <1>0, <1>1, <1>3, <1>4, <1>11, Zenon
<1>13. SoFar(decoded', A, fed', params', receiving', words_remaining')
  <2>1. decoded' = A.mbs
    BY <1>5, <1>8, <1>10, Zenon DEF DecodesOn, SoFar
  <2>2. fed' = f \o h
    BY <1>0, <1>3
  <2>3. params' = SubSeq(fed', A.next, Len(fed'))
    BY <1>5, <1>10, <2>2, Zenon DEF DecodesOn
  <2>4. Len(fed') + 2 * words_remaining' <= 2 * MAX_WORDS
    <3>0. Len(h) = 2
      BY <1>2, <1>3, Zenon
    <3>1. Len(f \o h) = Len(f) + 2 /\ Len(f) \in Nat
      <4>1. Len(f) \in Nat
        OBVIOUS
      <4>2. Len(f \o h) = Len(f) + Len(h)
        BY ConcatProperties
      <4>. QED
        BY <3>0, <4>1, <4>2
    <3>2. Len(f) + 2 * words_remaining <= 2 * MAX_WORDS
      BY <1>8 DEF SoFar
    <3>3. Len(fed') = Len(f) + 2
      BY <2>2, <3>1, Zenon
    <3>4. words_remaining' = words_remaining - 1
      BY <1>0
    <3>. QED
      BY <1>6, <3>1, <3>2, <3>3, <3>4, MdecFacts
  <2>. QED
    BY <2>1, <2>3, <2>4, Zenon DEF SoFar
<1>14. fed' \in Seq(Half)
  <2>1. f \o h \in Seq(Half)
    OBVIOUS
  <2>. QED
    BY <1>0, <1>3, <2>1
<1>15. words_remaining' \in Nat /\ receiving' \in BOOLEAN /\ (receiving' <=> words_remaining' # 0)
  <2>1. words_remaining' = words_remaining - 1
    BY <1>0
  <2>2. words_remaining' \in Nat /\ ((words_remaining > 1) <=> words_remaining' # 0)
    BY <1>6, <2>1
  <2>3. receiving' = (words_remaining > 1)
    BY <1>0
  <2>4. receiving' \in BOOLEAN
    BY <2>3
  <2>. QED
    BY <2>2, <2>3, <2>4, Zenon
<1>16. active_command' \in 0 .. 7 /\ output_depth' \in 0 .. 3
  BY <1>0 DEF MdecInv
<1>. QED
  BY <1>2, <1>12, <1>13, <1>14, <1>15, <1>16, Zenon DEF MdecInv

\* A command takes a number of words; a picture as many as it says.
LEMMA TakesFacts ==
  ASSUME NEW c, c.n \in Nat, c.op \in 0 .. 7
  PROVE  Takes(c) \in Nat /\ (c.op = 1 => Takes(c) = c.n)
<1>1. 2 * TABLE_WORDS \in Nat /\ TABLE_WORDS \in Nat
  BY MdecFacts
<1>. QED
  BY <1>1 DEF Takes

\* A command keeps it.
LEMMA StartCommandInv ==
  ASSUME MdecInv, start_command PROVE MdecInv'
<1>0. /\ todo # <<>> /\ todo' = Tail(todo)
      /\ active_command' = Head(todo).op /\ output_depth' = Head(todo).depth
      /\ params' = <<>> /\ words_remaining' = Takes(Head(todo)) /\ receiving' = (Takes(Head(todo)) # 0)
      /\ fed' = <<>> /\ decoded' = <<>>
  BY DEF start_command
<1>1. /\ Commands(todo') /\ Head(todo).op \in 0 .. 7 /\ Head(todo).depth \in 0 .. 3 /\ Head(todo).n \in Nat
      /\ Head(todo).op = 1 => Head(todo).n <= MAX_WORDS
  BY <1>0, CommandsFacts DEF MdecInv
<1>2. PICK c : c = Head(todo)
  OBVIOUS
<1>3. Takes(c) \in Nat /\ (c.op = 1 => Takes(c) = c.n)
  BY <1>1, <1>2, TakesFacts
<1>4. words_remaining' \in Nat /\ words_remaining' = Takes(c)
  BY <1>0, <1>2, <1>3
<1>5. receiving' \in BOOLEAN /\ (receiving' <=> words_remaining' # 0)
  BY <1>0
<1>6. ASSUME active_command' = 1
      PROVE  SoFar(decoded', Macroblocks(fed', output_depth', ~receiving', InForce'),
                   fed', params', receiving', words_remaining')
  <2>1. PICK t : t = InForce'
    OBVIOUS
  <2>2. PICK n \in Nat : n = words_remaining' /\ n <= MAX_WORDS
    BY <1>0, <1>1, <1>2, <1>3, <1>4, <1>6
  <2>3. PICK e \in BOOLEAN : e = ~receiving' /\ receiving' = ~e
    BY <1>5, Zenon
  <2>4. PICK depth : depth = output_depth'
    OBVIOUS
  <2>5. SoFar(<<>>, Macroblocks(<<>>, depth, e, t), <<>>, <<>>, ~e, n)
    BY <2>2, StartsDecoding
  <2>. QED
    BY <1>0, <2>1, <2>2, <2>3, <2>4, <2>5, Zenon
<1>7. fed' \in Seq(Half)
  BY <1>0, EmptySeq
<1>8. active_command' \in 0 .. 7 /\ output_depth' \in 0 .. 3
  BY <1>0, <1>1
<1>. QED
  BY <1>1, <1>4, <1>5, <1>6, <1>7, <1>8, Zenon DEF MdecInv

\* Words of a table, and whatever takes no word.
LEMMA TableWordInv ==
  ASSUME MdecInv, TakeWord, active_command # 1 PROVE MdecInv'
<1>0. /\ todo # <<>> /\ receiving /\ todo' = Tail(todo)
      /\ words_remaining' = words_remaining - 1 /\ receiving' = (words_remaining > 1)
      /\ fed' = fed \o Head(todo).halves
      /\ active_command' = active_command /\ output_depth' = output_depth
  BY DEF TakeWord
<1>1. Commands(todo') /\ Head(todo).halves \in Seq(Half)
  BY <1>0, CommandsFacts DEF MdecInv
<1>2. fed' \in Seq(Half)
  <2>1. fed \in Seq(Half)
    BY DEF MdecInv
  <2>2. fed \o Head(todo).halves \in Seq(Half)
    BY <1>1, <2>1, ConcatProperties
  <2>. QED
    BY <1>0, <2>2
<1>3. words_remaining \in Nat /\ words_remaining # 0
  BY <1>0 DEF MdecInv
<1>4. words_remaining' \in Nat /\ receiving' \in BOOLEAN /\ (receiving' <=> words_remaining' # 0)
  <2>1. words_remaining' \in Nat /\ ((words_remaining > 1) <=> words_remaining' # 0)
    BY <1>0, <1>3
  <2>2. receiving' = (words_remaining > 1)
    BY <1>0
  <2>3. receiving' \in BOOLEAN
    BY <2>2
  <2>. QED
    BY <2>1, <2>2, <2>3, Zenon
<1>5. active_command' \in 0 .. 7 /\ output_depth' \in 0 .. 3 /\ active_command' # 1
  BY <1>0 DEF MdecInv
<1>. QED
  BY <1>1, <1>2, <1>4, <1>5, Zenon DEF MdecInv

\* Reading keeps it.
LEMMA SameInputInv ==
  ASSUME MdecInv, UNCHANGED <<input, tables, todo, fed, decoded>> PROVE MdecInv'
<1>1. /\ params' = params /\ words_remaining' = words_remaining /\ receiving' = receiving
      /\ active_command' = active_command /\ output_depth' = output_depth
      /\ todo' = todo /\ fed' = fed /\ decoded' = decoded
      /\ quant_y' = quant_y /\ quant_uv' = quant_uv /\ scale' = scale
  BY DEF input, tables
<1>2. InForce' = InForce
  BY <1>1 DEF InForce
<1>3. Commands(todo')
  BY <1>1 DEF MdecInv
<1>. QED
  BY <1>1, <1>2, <1>3, Zenon DEF MdecInv

\* A reset keeps it.
LEMMA ResetInv ==
  ASSUME Reset PROVE MdecInv'
<1>0. /\ words_remaining' = 0 /\ receiving' = FALSE /\ active_command' = 0 /\ output_depth' = 2
      /\ fed' = <<>> /\ todo' \in Restarts
  BY DEF Reset
<1>1. Commands(todo')
  BY <1>0, ProgramsAreCommands
<1>2. fed' \in Seq(Half)
  BY <1>0, EmptySeq
<1>3. words_remaining' \in Nat /\ active_command' \in 0 .. 7 /\ active_command' # 1 /\ output_depth' \in 0 .. 3
  BY <1>0
<1>4. receiving' \in BOOLEAN /\ (receiving' <=> words_remaining' # 0)
  BY <1>0
<1>. QED
  BY <1>1, <1>2, <1>3, <1>4, Zenon DEF MdecInv

\* Every step keeps it.
LEMMA MdecInvStep ==
  ASSUME MdecInv, [MdecNext]_mdec_vars PROVE MdecInv'
<1>1. CASE start_command
  BY <1>1, StartCommandInv
<1>2. CASE DecodeWord
  BY <1>2, DecodeWordInv
<1>3. CASE TableWord \/ set_quant_table \/ set_scale_table
  <2>1. TakeWord /\ active_command # 1
    BY <1>3 DEF TableWord, set_quant_table, set_scale_table
  <2>. QED
    BY <2>1, TableWordInv
<1>4. CASE mdec_cpu_read
  BY <1>4, SameInputInv DEF mdec_cpu_read
<1>5. CASE DmaReadColour
  BY <1>5, SameInputInv DEF DmaReadColour
<1>6. CASE DmaReadMono
  BY <1>6, SameInputInv DEF DmaReadMono
<1>7. CASE StatusRead
  BY <1>7, SameInputInv DEF StatusRead, history
<1>8. CASE Reset
  BY <1>8, ResetInv
<1>9. CASE UNCHANGED mdec_vars
  BY <1>9, SameInputInv DEF mdec_vars, history
<1>. QED
  BY <1>1, <1>2, <1>3, <1>4, <1>5, <1>6, <1>7, <1>8, <1>9 DEF MdecNext, mdec_dma_write, Read, mdec_dma_read

\* The invariant of the decoder: what is decoded, what is buffered and what is
\* still to come account for every half of the command.
THEOREM MdecInvariant == MdecSpec => []MdecInv
<1>1. MdecInv /\ [MdecNext]_mdec_vars => MdecInv'
  BY MdecInvStep
<1>. QED
  BY MdecInitInv, <1>1, PTL DEF MdecSpec

\* Decoding as the words arrive gives the macroblocks decoding the whole input
\* at once would give, for every program within the limits of a command.
THEOREM DecodesAsWhole == MdecSpec => []DecodedAsWhole
<1>1. MdecInv => DecodedAsWhole
  BY Zenon DEF MdecInv, SoFar, DecodedAsWhole
<1>. QED
  BY MdecInvariant, <1>1, PTL

\* Quotient and remainder.
LEMMA DivModFacts ==
  ASSUME NEW x \in Nat, NEW n \in Nat, n > 0
  PROVE  x \div n \in Nat /\ x % n \in 0 .. n - 1 /\ x = (x \div n) * n + (x % n)
OBVIOUS

\* A positive multiple is no smaller.
LEMMA Bigger ==
  ASSUME NEW n \in Nat, NEW b \in Nat, b > 0
  PROVE  b * n >= n
OBVIOUS

\* Quotient and remainder are determined.
LEMMA DivModUnique ==
  ASSUME NEW n \in Nat, n > 0, NEW a \in Nat, NEW q \in Nat, NEW r \in 0 .. n - 1, NEW m \in 0 .. n - 1,
         a * n + r = q * n + m
  PROVE  a = q /\ r = m
<1>1. (a - q) * n = m - r /\ (q - a) * n = r - m
  OBVIOUS
<1>2. CASE a > q
  <2>1. (a - q) * n >= n
    BY <1>2, Bigger
  <2>. QED BY <1>1, <2>1
<1>3. CASE a < q
  <2>1. (q - a) * n >= n
    BY <1>3, Bigger
  <2>. QED BY <1>1, <2>1
<1>. QED BY <1>2, <1>3

\* The quotient and remainder of a sum that shows them.
LEMMA DivModOfSum ==
  ASSUME NEW n \in Nat, n > 0, NEW a \in Nat, NEW r \in 0 .. n - 1
  PROVE  (a * n + r) \div n = a /\ (a * n + r) % n = r
<1>1. a * n + r \in Nat
  OBVIOUS
<1>2. PICK x \in Nat : x = a * n + r
  BY <1>1
<1>3. x \div n \in Nat /\ x % n \in 0 .. n - 1 /\ x = (x \div n) * n + (x % n)
  BY DivModFacts
<1>. QED
  BY <1>2, <1>3, DivModUnique

\* Whole multiples add to the quotient only.
LEMMA DivShift ==
  ASSUME NEW n \in Nat, n > 0, NEW b \in Nat, NEW x \in Nat
  PROVE  (b * n + x) \div n = b + (x \div n) /\ (b * n + x) % n = x % n
<1>1. x \div n \in Nat /\ x % n \in 0 .. n - 1 /\ x = (x \div n) * n + (x % n)
  BY DivModFacts
<1>2. PICK q \in Nat, r \in 0 .. n - 1 : q = x \div n /\ r = x % n /\ x = q * n + r
  BY <1>1
<1>3. b * n + x = (b + q) * n + r
  BY <1>2
<1>4. ((b + q) * n + r) \div n = b + q /\ ((b + q) * n + r) % n = r
  BY DivModOfSum
<1>. QED
  BY <1>2, <1>3, <1>4

\* A quotient is below what the dividend is a multiple below.
LEMMA Below ==
  ASSUME NEW n \in Nat, n > 0, NEW b \in Nat, NEW x \in Nat, x < b * n
  PROVE  x \div n < b
<1>1. x \div n \in Nat /\ x % n \in 0 .. n - 1 /\ x = (x \div n) * n + (x % n)
  BY DivModFacts
<1>2. PICK q \in Nat, r \in 0 .. n - 1 : q = x \div n /\ x = q * n + r
  BY <1>1
<1>3. CASE q >= b
  <2>1. (q - b) * n >= 0 /\ q * n = (q - b) * n + b * n
    BY <1>3
  <2>. QED BY <1>2, <2>1
<1>. QED
  BY <1>2, <1>3

\* A dividend below the divisor is the remainder.
LEMMA Small ==
  ASSUME NEW n \in Nat, n > 0, NEW x \in 0 .. n - 1
  PROVE  x \div n = 0 /\ x % n = x
<1>1. (0 * n + x) \div n = 0 /\ (0 * n + x) % n = x
  BY DivModOfSum
<1>2. 0 * n + x = x
  OBVIOUS
<1>. QED
  BY <1>1, <1>2

\* A function on an initial segment is a sequence.
LEMMA FunctionIsSeq ==
  ASSUME NEW S, NEW n \in Nat, NEW f \in [1 .. n -> S]
  PROVE  f \in Seq(S) /\ Len(f) = n
OBVIOUS

\* The first word of a queue goes to the end of what was taken from it.
LEMMA HeadMoves ==
  ASSUME NEW S, NEW s \in Seq(S), NEW t \in Seq(S), t # <<>>
  PROVE  /\ Append(s, Head(t)) \o Tail(t) = s \o t
         /\ Append(s, Head(t)) \in Seq(S) /\ Tail(t) \in Seq(S)
<1>1. Append(s, Head(t)) \in Seq(S) /\ Tail(t) \in Seq(S)
  OBVIOUS
<1>2. Append(s, Head(t)) \o Tail(t) = s \o t
  OBVIOUS
<1>. QED
  BY <1>1, <1>2, Zenon

(* The words of a picture.                                                 *)
OutWord == [mb : Int, block : Int, row : Int, col : Int]

\* A macroblock has words.
LEMMA SizeFacts ==
  ASSUME NEW depth \in 0 .. 3
  PROVE  MacroblockWords(depth) \in Nat /\ MacroblockWords(depth) > 0
<1>1. PICK w \in Nat : w = ROW_WORDS[depth] /\ w > 0
  BY MdecFacts
<1>2. PICK s \in Nat : s = SIDE /\ s > 0
  BY MdecFacts
<1>3. s * w \in Nat /\ s * w > 0
  <2>1. s * w >= w
    BY <1>2, Bigger
  <2>. QED BY <1>1, <2>1
<1>4. 4 * s * w = 4 * (s * w)
  OBVIOUS
<1>5. 4 * s * w \in Nat /\ 4 * s * w > 0
  BY <1>3, <1>4
<1>. QED
  BY <1>1, <1>2, <1>5 DEF MacroblockWords

\* A word of a picture is such a word.
LEMMA WordTyped ==
  ASSUME NEW depth \in 0 .. 3, NEW n \in Nat, NEW i \in Nat, i > 0
  PROVE  OutputWord(n, i, depth) \in OutWord /\ RasterWord(n, i, depth) \in OutWord
<1>1. PICK w \in Nat : w = ROW_WORDS[depth] /\ w > 0
  BY MdecFacts
<1>2. PICK s \in Nat : s = SIDE /\ s > 0
  BY MdecFacts
<1>3. PICK rows \in Nat : rows = (IF Colour(depth) THEN SIDE ELSE 1) /\ rows > 0
  BY <1>2
<1>4. i - 1 \in Nat /\ rows * w \in Nat /\ rows * w > 0 /\ 2 * w \in Nat /\ 2 * w > 0
  <2>1. rows * w >= w
    BY <1>3, Bigger
  <2>. QED BY <1>1, <2>1
<1>5. (i - 1) \div (rows * w) \in Int /\ (i - 1) \div w \in Nat /\ (i - 1) % w \in Int /\ (i - 1) \div (2 * w) \in Nat
  BY <1>1, <1>4, DivModFacts
<1>6. ((i - 1) \div w) % rows \in Int /\ ((i - 1) \div (2 * w)) % s \in Int /\ ((i - 1) \div w) % 2 \in Int
  BY <1>2, <1>3, <1>5, DivModFacts
<1>7. OutputWord(n, i, depth) = [mb |-> n, block |-> (i - 1) \div (rows * w),
                                 row |-> ((i - 1) \div w) % rows, col |-> (i - 1) % w]
  BY <1>1, <1>3, Zenon DEF OutputWord
<1>8. RasterWord(n, i, depth) =
        [mb |-> n, block |-> IF (i - 1) \div (2 * w) < s THEN ((i - 1) \div w) % 2 ELSE (((i - 1) \div w) % 2) + 2,
         row |-> ((i - 1) \div (2 * w)) % s, col |-> (i - 1) % w]
  BY <1>1, <1>2, Zenon DEF RasterWord
<1>9. OutputWord(n, i, depth) \in OutWord
  BY <1>5, <1>6, <1>7 DEF OutWord
<1>10. RasterWord(n, i, depth) \in OutWord
  <2>1. (IF (i - 1) \div (2 * w) < s THEN ((i - 1) \div w) % 2 ELSE (((i - 1) \div w) % 2) + 2) \in Int
    BY <1>6
  <2>. QED
    BY <1>5, <1>6, <1>8, <2>1 DEF OutWord
<1>. QED
  BY <1>9, <1>10

\* The sequence s is the first N words of the macroblocks after the m-th.
WordsAfter(s, m, N, depth, z) ==
  /\ s \in Seq(OutWord) /\ Len(s) = N
  /\ \A i \in 1 .. N : s[i] = OutputWord(m + 1 + (i - 1) \div z, ((i - 1) % z) + 1, depth)

\* The words of b macroblocks after the m-th.
LEMMA OutputWordsTyped ==
  ASSUME NEW depth \in 0 .. 3, NEW m \in Nat, NEW b \in Nat, NEW n, n = m + b, NEW z, z = MacroblockWords(depth)
  PROVE  b * z \in Nat /\ WordsAfter(OutputWords(m, n, depth), m, b * z, depth, z)
<1>1. z \in Nat /\ z > 0
  BY SizeFacts
<1>2. PICK N \in Nat : N = b * z
  BY <1>1
<1>3. OutputWords(m, n, depth) = [i \in 1 .. N |-> OutputWord(m + 1 + (i - 1) \div z, ((i - 1) % z) + 1, depth)]
  <2>1. n - m = b
    OBVIOUS
  <2>. QED
    BY <1>2, <2>1, Zenon DEF OutputWords
<1>4. ASSUME NEW i \in 1 .. N PROVE OutputWord(m + 1 + (i - 1) \div z, ((i - 1) % z) + 1, depth) \in OutWord
  <2>1. i - 1 \in Nat
    OBVIOUS
  <2>2. (i - 1) \div z \in Nat /\ (i - 1) % z \in Nat
    BY <1>1, <2>1, DivModFacts
  <2>. QED
    BY <2>2, WordTyped
<1>5. OutputWords(m, n, depth) \in [1 .. N -> OutWord]
  BY <1>3, <1>4
<1>6. OutputWords(m, n, depth) \in Seq(OutWord) /\ Len(OutputWords(m, n, depth)) = N
  BY <1>5, FunctionIsSeq
<1>7. \A i \in 1 .. N : OutputWords(m, n, depth)[i] = OutputWord(m + 1 + (i - 1) \div z, ((i - 1) % z) + 1, depth)
  BY <1>3
<1>8. WordsAfter(OutputWords(m, n, depth), m, N, depth, z)
  BY <1>6, <1>7 DEF WordsAfter
<1>. QED
  BY <1>2, <1>8

\* The sequence s is N words in raster order.
RasterFirst(s, N, depth, z) ==
  /\ s \in Seq(OutWord) /\ Len(s) = N
  /\ \A i \in 1 .. N : s[i] = RasterWord(1 + (i - 1) \div z, ((i - 1) % z) + 1, depth)

\* The words of n macroblocks in raster order.
LEMMA RasterWordsTyped ==
  ASSUME NEW depth \in 0 .. 3, NEW n \in Nat, NEW z, z = MacroblockWords(depth)
  PROVE  n * z \in Nat /\ RasterFirst(RasterWords(n, depth), n * z, depth, z)
<1>1. z \in Nat /\ z > 0
  BY SizeFacts
<1>2. PICK N \in Nat : N = n * z
  BY <1>1
<1>3. RasterWords(n, depth) = [i \in 1 .. N |-> RasterWord(1 + (i - 1) \div z, ((i - 1) % z) + 1, depth)]
  BY <1>2, Zenon DEF RasterWords
<1>4. ASSUME NEW i \in 1 .. N PROVE RasterWord(1 + (i - 1) \div z, ((i - 1) % z) + 1, depth) \in OutWord
  <2>1. i - 1 \in Nat
    OBVIOUS
  <2>2. (i - 1) \div z \in Nat /\ (i - 1) % z \in Nat
    BY <1>1, <2>1, DivModFacts
  <2>. QED
    BY <2>2, WordTyped
<1>5. RasterWords(n, depth) \in [1 .. N -> OutWord]
  BY <1>3, <1>4
<1>6. RasterWords(n, depth) \in Seq(OutWord) /\ Len(RasterWords(n, depth)) = N
  BY <1>5, FunctionIsSeq
<1>7. \A i \in 1 .. N : RasterWords(n, depth)[i] = RasterWord(1 + (i - 1) \div z, ((i - 1) % z) + 1, depth)
  BY <1>3
<1>8. RasterFirst(RasterWords(n, depth), N, depth, z)
  BY <1>6, <1>7 DEF RasterFirst
<1>. QED
  BY <1>2, <1>8

\* The words of some macroblocks and then of the next ones.
LEMMA OutputWordsConcat ==
  ASSUME NEW depth \in 0 .. 3, NEW m \in Nat, NEW n \in Nat, NEW l \in Nat, m <= n, n <= l
  PROVE  OutputWords(m, n, depth) \o OutputWords(n, l, depth) = OutputWords(m, l, depth)
<1>. PICK z \in Nat : z = MacroblockWords(depth) /\ z > 0
  BY SizeFacts
<1>1. PICK b \in Nat, c \in Nat : b = n - m /\ c = l - n
  OBVIOUS
<1>2. PICK A, B, C : A = OutputWords(m, n, depth) /\ B = OutputWords(n, l, depth) /\ C = OutputWords(m, l, depth)
  OBVIOUS
<1>3. /\ A \in Seq(OutWord) /\ Len(A) = b * z
      /\ \A i \in 1 .. b * z : A[i] = OutputWord(m + 1 + (i - 1) \div z, ((i - 1) % z) + 1, depth)
  <2>1. n = m + b
    BY <1>1
  <2>2. WordsAfter(A, m, b * z, depth, z)
    BY <1>2, <2>1, OutputWordsTyped
  <2>. QED
    BY <2>2 DEF WordsAfter
<1>4. /\ B \in Seq(OutWord) /\ Len(B) = c * z
      /\ \A i \in 1 .. c * z : B[i] = OutputWord(n + 1 + (i - 1) \div z, ((i - 1) % z) + 1, depth)
  <2>1. l = n + c
    BY <1>1
  <2>2. WordsAfter(B, n, c * z, depth, z)
    BY <1>2, <2>1, OutputWordsTyped
  <2>. QED
    BY <2>2 DEF WordsAfter
<1>5. /\ C \in Seq(OutWord) /\ Len(C) = (b + c) * z
      /\ \A i \in 1 .. (b + c) * z : C[i] = OutputWord(m + 1 + (i - 1) \div z, ((i - 1) % z) + 1, depth)
  <2>1. l = m + (b + c) /\ b + c \in Nat
    BY <1>1
  <2>2. WordsAfter(C, m, (b + c) * z, depth, z)
    BY <1>2, <2>1, OutputWordsTyped
  <2>. QED
    BY <2>2 DEF WordsAfter
<1>6. PICK N \in Nat, M \in Nat : N = b * z /\ M = c * z
  OBVIOUS
<1>7. (b + c) * z = N + M
  BY <1>6
<1>8. ASSUME NEW i \in 1 .. N + M PROVE (A \o B)[i] = C[i]
  <2>1. C[i] = OutputWord(m + 1 + (i - 1) \div z, ((i - 1) % z) + 1, depth)
    BY <1>5, <1>7
  <2>2. (A \o B)[i] = IF i <= N THEN A[i] ELSE B[i - N]
    <3>1. Len(A) = N /\ Len(B) = M
      BY <1>3, <1>4, <1>6
    <3>2. \A j \in 1 .. Len(A) + Len(B) : (A \o B)[j] = IF j <= Len(A) THEN A[j] ELSE B[j - Len(A)]
      BY <1>3, <1>4, ConcatProperties
    <3>. QED
      BY <3>1, <3>2
  <2>3. CASE i <= N
    <3>1. i \in 1 .. b * z
      BY <1>6, <2>3
    <3>. QED
      BY <1>3, <2>1, <2>2, <2>3, <3>1
  <2>4. CASE ~(i <= N)
    <3>1. PICK x \in Nat : x = i - N - 1 /\ x + 1 = i - N /\ b * z + x = i - 1 /\ i - N \in 1 .. M
      BY <1>6, <2>4
    <3>2. B[i - N] = OutputWord(n + 1 + x \div z, (x % z) + 1, depth)
      <4>1. (i - N) - 1 = x
        BY <3>1
      <4>. QED
        BY <1>4, <1>6, <3>1, <4>1
    <3>3. (b * z + x) \div z = b + (x \div z) /\ (b * z + x) % z = x % z
      <4>1. \A y \in Nat : (b * z + y) \div z = b + (y \div z) /\ (b * z + y) % z = y % z
        BY DivShift
      <4>. QED BY <4>1, Zenon
    <3>4. x \div z \in Nat
      BY DivModFacts
    <3>5. m + 1 + (i - 1) \div z = n + 1 + x \div z /\ (i - 1) % z = x % z
      BY <1>1, <3>1, <3>3, <3>4
    <3>. QED
      BY <2>1, <2>2, <2>4, <3>2, <3>5
  <2>. QED
    BY <2>3, <2>4
<1>9. A \o B \in Seq(OutWord) /\ Len(A \o B) = N + M /\ Len(C) = N + M
  <2>1. A \in Seq(OutWord) /\ B \in Seq(OutWord) /\ Len(A) = N /\ Len(B) = M
    BY <1>3, <1>4, <1>6, Zenon
  <2>2. A \o B \in Seq(OutWord) /\ Len(A \o B) = Len(A) + Len(B)
    BY <2>1, ConcatProperties
  <2>3. Len(C) = N + M
    BY <1>5, <1>7, Zenon
  <2>. QED BY <2>1, <2>2, <2>3, Zenon
<1>10. A \o B = C
  BY <1>5, <1>8, <1>9, SeqEqual
<1>. QED
  BY <1>2, <1>10

\* Where word j of a raster row by row is found block by block.
RasterIndex(j, s, w) ==
  LET y == (j - 1) \div (2 * w)
      x == ((j - 1) \div w) % 2
  IN  (x + 2 * (y \div s)) * s * w + (y % s) * w + ((j - 1) % w) + 1

\* Word i block by block is at the place where word j belongs.
SamePlace(i, j, s, w) ==
  /\ i \in 1 .. 4 * s * w
  /\ (i - 1) \div (s * w) = IF (j - 1) \div (2 * w) < s THEN ((j - 1) \div w) % 2 ELSE (((j - 1) \div w) % 2) + 2
  /\ ((i - 1) \div w) % s = ((j - 1) \div (2 * w)) % s
  /\ (i - 1) % w = (j - 1) % w

\* Gathering by that index puts every word in its place.
LEMMA RasterIndexFacts ==
  ASSUME NEW s \in Nat, s > 0, NEW w \in Nat, w > 0, NEW j \in 1 .. 4 * s * w, NEW i, i = RasterIndex(j, s, w)
  PROVE  SamePlace(i, j, s, w)
<1>1. PICK v \in Nat : v = j - 1 /\ v < 4 * s * w
  OBVIOUS
<1>2. PICK u \in Nat : u = 2 * w /\ u > 0
  OBVIOUS
<1>3. v < (2 * s) * u /\ 2 * s \in Nat
  <2>1. (2 * s) * (2 * w) = 4 * s * w
    OBVIOUS
  <2>. QED
    BY <1>1, <1>2, <2>1
<1>4. PICK y \in Nat : y = v \div u /\ y < 2 * s
  BY <1>2, <1>3, DivModFacts, Below
<1>5. PICK x \in 0 .. 1 : x = (v \div w) % 2
  <2>1. v \div w \in Nat
    BY DivModFacts
  <2>2. (v \div w) % 2 \in 0 .. 2 - 1
    BY <2>1, DivModFacts
  <2>. QED
    BY <2>2
<1>6. PICK h \in 0 .. 1 : h = y \div s /\ (h = 0 <=> y < s)
  <2>1. y \div s \in Nat /\ y \div s < 2
    BY <1>4, DivModFacts, Below
  <2>2. y < s => y \div s = 0
    BY <1>4, Small
  <2>3. y \div s = 0 => y < s
    <3>1. y % s \in 0 .. s - 1 /\ y = (y \div s) * s + (y % s)
      BY DivModFacts
    <3>. QED
      BY <3>1
  <2>. QED
    BY <2>1, <2>2, <2>3
<1>7. PICK r \in 0 .. s - 1 : r = y % s
  BY DivModFacts
<1>8. PICK c \in 0 .. w - 1 : c = v % w
  BY DivModFacts
<1>9. PICK b \in 0 .. 3 : b = x + 2 * h
  OBVIOUS
<1>10. i = b * s * w + r * w + c + 1
  BY <1>1, <1>2, <1>4, <1>5, <1>6, <1>7, <1>8, <1>9, Zenon DEF RasterIndex
<1>11. PICK z \in Nat : z = s * w /\ z >= w
  BY Bigger
<1>12. r * w + c \in 0 .. z - 1
  <2>1. r * w + w <= z
    <3>1. (s - (r + 1)) * w >= 0
      OBVIOUS
    <3>2. z = (s - (r + 1)) * w + (r + 1) * w
      BY <1>11
    <3>3. (r + 1) * w = r * w + w
      OBVIOUS
    <3>4. (s - (r + 1)) * w \in Int /\ r * w \in Int
      OBVIOUS
    <3>. QED
      BY <3>1, <3>2, <3>3, <3>4
  <2>2. r * w \in Nat
    OBVIOUS
  <2>. QED
    BY <2>1, <2>2, <1>11
<1>13. b * s * w = b * z
  BY <1>11
<1>14. PICK e \in 0 .. z - 1 : e = r * w + c /\ i - 1 = b * z + e
  BY <1>10, <1>12, <1>13
<1>15. i \in 1 .. 4 * s * w
  <2>1. 4 * s * w = 4 * z
    BY <1>11
  <2>2. b * z + e < 4 * z /\ b * z \in Nat
    <3>1. b * z \in Nat /\ b * z <= 3 * z
      BY <1>11
    <3>. QED
      BY <1>11, <1>14, <3>1
  <2>3. i \in Int
    BY <1>10, <1>13, <2>2
  <2>. QED
    BY <1>14, <2>1, <2>2, <2>3
<1>16. (i - 1) \div (s * w) = b
  <2>1. (b * z + e) \div z = b
    BY <1>11, DivModOfSum
  <2>. QED
    BY <1>11, <1>14, <2>1
<1>17. i - 1 = (b * s + r) * w + c /\ b * s + r \in Nat
  <2>1. (b * s + r) * w = b * s * w + r * w
    OBVIOUS
  <2>2. b * s * w \in Int /\ r * w \in Int
    OBVIOUS
  <2>. QED
    BY <1>10, <2>1, <2>2
<1>18. (i - 1) \div w = b * s + r /\ (i - 1) % w = c
  <2>1. PICK a \in Nat : a = b * s + r
    BY <1>17
  <2>2. (a * w + c) \div w = a /\ (a * w + c) % w = c
    BY DivModOfSum
  <2>. QED
    BY <1>17, <2>1, <2>2
<1>19. ((i - 1) \div w) % s = r
  <2>1. (b * s + r) % s = r
    BY DivModOfSum
  <2>. QED
    BY <1>18, <2>1
<1>20. b = IF y < s THEN x ELSE x + 2
  BY <1>6, <1>9
<1>21. (j - 1) \div (2 * w) = y /\ ((j - 1) \div w) % 2 = x /\ (j - 1) % w = c /\ y % s = r
  BY <1>1, <1>2, <1>4, <1>5, <1>7, <1>8
<1>. QED
  BY <1>15, <1>16, <1>18, <1>19, <1>20, <1>21 DEF SamePlace

\* The sequence s is macroblock k + 1 in raster order.
RastersOf(s, k, z, depth) ==
  s \in Seq(OutWord) /\ Len(s) = z /\ \A j \in 1 .. z : s[j] = RasterWord(k + 1, j, depth)

\* Staging a macroblock puts its words in raster order (stage_dma_macroblock).
LEMMA RasterStages ==
  ASSUME NEW depth \in {2, 3}, NEW k \in Nat, NEW z, z = MacroblockWords(depth),
         NEW staged, staged = Raster(OutputWords(k, k + 1, depth), depth)
  PROVE  RastersOf(staged, k, z, depth)
<1>0. depth \in 0 .. 3 /\ Colour(depth)
  BY DEF Colour
<1>1. z \in Nat /\ z > 0
  BY <1>0, SizeFacts
<1>2. PICK w \in Nat : w = ROW_WORDS[depth] /\ w > 0
  BY <1>0, MdecFacts
<1>3. PICK s \in Nat : s = SIDE /\ s > 0
  BY MdecFacts
<1>4. z = 4 * s * w
  BY <1>0, <1>2, <1>3, Zenon DEF MacroblockWords
<1>5. PICK A : A = OutputWords(k, k + 1, depth)
  OBVIOUS
<1>6. \A i \in 1 .. z : A[i] = OutputWord(k + 1, i, depth)
  <2>1. WordsAfter(A, k, 1 * z, depth, z)
    BY <1>0, <1>5, OutputWordsTyped
  <2>2. 1 * z = z
    BY <1>1
  <2>. SUFFICES ASSUME NEW i \in 1 .. z PROVE A[i] = OutputWord(k + 1, i, depth)
    OBVIOUS
  <2>3. A[i] = OutputWord(k + 1 + (i - 1) \div z, ((i - 1) % z) + 1, depth)
    BY <2>1, <2>2 DEF WordsAfter
  <2>4. (i - 1) \div z = 0 /\ (i - 1) % z = i - 1
    BY <1>1, Small
  <2>5. k + 1 + (i - 1) \div z = k + 1 /\ ((i - 1) % z) + 1 = i
    BY <2>4
  <2>. QED
    BY <2>3, <2>5
<1>7. staged = [j \in 1 .. z |-> A[RasterIndex(j, s, w)]]
  BY <1>2, <1>3, <1>5, Zenon DEF Raster, RasterIndex
<1>8. ASSUME NEW j \in 1 .. z PROVE staged[j] = RasterWord(k + 1, j, depth)
  <2>1. PICK i : i = RasterIndex(j, s, w)
    OBVIOUS
  <2>2. /\ i \in 1 .. 4 * s * w
        /\ (i - 1) \div (s * w) = IF (j - 1) \div (2 * w) < s THEN ((j - 1) \div w) % 2 ELSE (((j - 1) \div w) % 2) + 2
        /\ ((i - 1) \div w) % s = ((j - 1) \div (2 * w)) % s
        /\ (i - 1) % w = (j - 1) % w
    <3>1. j \in 1 .. 4 * s * w
      BY <1>4
    <3>2. SamePlace(i, j, s, w)
      BY <1>2, <1>3, <2>1, <3>1, RasterIndexFacts
    <3>. QED
      BY <3>2 DEF SamePlace
  <2>3. staged[j] = OutputWord(k + 1, i, depth)
    BY <1>4, <1>6, <1>7, <2>1, <2>2
  <2>4. OutputWord(k + 1, i, depth) = [mb |-> k + 1, block |-> (i - 1) \div (s * w),
                                       row |-> ((i - 1) \div w) % s, col |-> (i - 1) % w]
    BY <1>0, <1>2, <1>3, Zenon DEF OutputWord
  <2>5. RasterWord(k + 1, j, depth) =
          [mb |-> k + 1, block |-> IF (j - 1) \div (2 * w) < s THEN ((j - 1) \div w) % 2
                                   ELSE (((j - 1) \div w) % 2) + 2,
           row |-> ((j - 1) \div (2 * w)) % s, col |-> (j - 1) % w]
    BY <1>2, <1>3, Zenon DEF RasterWord
  <2>. QED
    BY <2>2, <2>3, <2>4, <2>5, Zenon
<1>9. staged \in [1 .. z -> OutWord]
  <2>1. ASSUME NEW j \in 1 .. z PROVE staged[j] \in OutWord
    BY <1>0, <1>8, WordTyped
  <2>. QED
    BY <1>7, <2>1
<1>10. staged \in Seq(OutWord) /\ Len(staged) = z
  BY <1>1, <1>9, FunctionIsSeq
<1>. QED
  BY <1>8, <1>10 DEF RastersOf

\* A macroblock more is staged.
LEMMA RasterGrows ==
  ASSUME NEW depth \in {2, 3}, NEW k \in Nat
  PROVE  RasterWords(k, depth) \o Raster(OutputWords(k, k + 1, depth), depth) = RasterWords(k + 1, depth)
<1>0. depth \in 0 .. 3
  OBVIOUS
<1>. PICK z \in Nat : z = MacroblockWords(depth) /\ z > 0
  BY <1>0, SizeFacts
<1>1. PICK A, B, C : /\ A = RasterWords(k, depth)
                     /\ B = Raster(OutputWords(k, k + 1, depth), depth)
                     /\ C = RasterWords(k + 1, depth)
  OBVIOUS
<1>2. /\ B \in Seq(OutWord) /\ Len(B) = z
      /\ \A j \in 1 .. z : B[j] = RasterWord(k + 1, j, depth)
  <2>1. RastersOf(B, k, z, depth)
    BY <1>1, RasterStages
  <2>. QED
    BY <2>1 DEF RastersOf
<1>3. PICK N \in Nat : N = k * z
  OBVIOUS
<1>4. /\ A \in Seq(OutWord) /\ Len(A) = N
      /\ \A i \in 1 .. N : A[i] = RasterWord(1 + (i - 1) \div z, ((i - 1) % z) + 1, depth)
  <2>1. RasterFirst(A, N, depth, z)
    BY <1>0, <1>1, <1>3, RasterWordsTyped
  <2>. QED
    BY <2>1 DEF RasterFirst
<1>5. (k + 1) * z = N + z /\ k + 1 \in Nat
  BY <1>3
<1>6. /\ C \in Seq(OutWord) /\ Len(C) = N + z
      /\ \A i \in 1 .. N + z : C[i] = RasterWord(1 + (i - 1) \div z, ((i - 1) % z) + 1, depth)
  <2>1. PICK l \in Nat, M \in Nat : l = k + 1 /\ M = N + z /\ l * z = M
    BY <1>5
  <2>2. C = RasterWords(l, depth)
    BY <1>1, <2>1
  <2>3. RasterFirst(C, M, depth, z)
    BY <1>0, <2>1, <2>2, RasterWordsTyped
  <2>. QED
    BY <2>1, <2>3 DEF RasterFirst
<1>7. ASSUME NEW i \in 1 .. N + z PROVE (A \o B)[i] = C[i]
  <2>1. C[i] = RasterWord(1 + (i - 1) \div z, ((i - 1) % z) + 1, depth)
    BY <1>6
  <2>2. (A \o B)[i] = IF i <= N THEN A[i] ELSE B[i - N]
    <3>1. \A j \in 1 .. Len(A) + Len(B) : (A \o B)[j] = IF j <= Len(A) THEN A[j] ELSE B[j - Len(A)]
      BY <1>2, <1>4, ConcatProperties
    <3>. QED
      BY <1>2, <1>4, <3>1
  <2>3. CASE i <= N
    <3>1. i \in 1 .. N
      BY <2>3
    <3>. QED
      BY <1>4, <2>1, <2>2, <2>3, <3>1
  <2>4. CASE ~(i <= N)
    <3>1. PICK x \in 0 .. z - 1 : x = i - N - 1 /\ x + 1 = i - N /\ k * z + x = i - 1 /\ i - N \in 1 .. z
      BY <1>3, <2>4
    <3>2. B[i - N] = RasterWord(k + 1, i - N, depth)
      BY <1>2, <3>1
    <3>3. (k * z + x) \div z = k /\ (k * z + x) % z = x
      BY DivModOfSum
    <3>4. 1 + (i - 1) \div z = k + 1 /\ ((i - 1) % z) + 1 = i - N
      <4>1. (i - 1) \div z = k /\ (i - 1) % z = x
        BY <3>1, <3>3
      <4>2. 1 + k = k + 1 /\ x + 1 = i - N
        BY <3>1
      <4>. QED
        BY <4>1, <4>2, Zenon
    <3>. QED
      BY <2>1, <2>2, <2>4, <3>2, <3>4
  <2>. QED
    BY <2>3, <2>4
<1>8. A \o B \in Seq(OutWord) /\ Len(A \o B) = N + z
  BY <1>2, <1>4, ConcatProperties
<1>9. A \o B = C
  BY <1>6, <1>7, <1>8, SeqEqual
<1>. QED
  BY <1>1, <1>9

\* The first macroblock of the ring, and the rest of it.
FirstAndRest(out, k, D, depth, z) ==
  /\ SubSeq(out, 1, z) = OutputWords(k, k + 1, depth)
  /\ SubSeq(out, z + 1, Len(out)) = OutputWords(k + 1, D, depth)

\* The first macroblock of the ring, and the rest of it.
LEMMA FirstMacroblock ==
  ASSUME NEW depth \in 0 .. 3, NEW k \in Nat, NEW D \in Nat, k < D, NEW z, z = MacroblockWords(depth),
         NEW out, out = OutputWords(k, D, depth)
  PROVE  FirstAndRest(out, k, D, depth, z)
<1>1. z \in Nat /\ z > 0
  BY SizeFacts
<1>2. PICK A, B : A = OutputWords(k, k + 1, depth) /\ B = OutputWords(k + 1, D, depth)
  OBVIOUS
<1>3. A \in Seq(OutWord) /\ Len(A) = z
  <2>1. WordsAfter(A, k, 1 * z, depth, z)
    BY <1>2, OutputWordsTyped
  <2>2. 1 * z = z
    BY <1>1
  <2>. QED
    BY <2>1, <2>2 DEF WordsAfter
<1>4. B \in Seq(OutWord)
  <2>1. PICK b \in Nat : b = D - (k + 1) /\ D = (k + 1) + b
    OBVIOUS
  <2>2. k + 1 \in Nat
    OBVIOUS
  <2>3. WordsAfter(B, k + 1, b * z, depth, z)
    BY <1>2, <2>1, <2>2, OutputWordsTyped
  <2>. QED
    BY <2>3 DEF WordsAfter
<1>5. out = A \o B
  <2>1. k <= k + 1 /\ k + 1 <= D /\ k + 1 \in Nat
    OBVIOUS
  <2>2. OutputWords(k, k + 1, depth) \o OutputWords(k + 1, D, depth) = OutputWords(k, D, depth)
    BY <2>1, OutputWordsConcat
  <2>. QED
    BY <1>2, <2>2
<1>6. SubSeq(A \o B, 1, z) = A
  BY <1>1, <1>3, <1>4
<1>7. SubSeq(A \o B, z + 1, Len(A \o B)) = B
  BY <1>1, <1>3, <1>4
<1>. QED
  BY <1>2, <1>5, <1>6, <1>7 DEF FirstAndRest

(* How far a picture of D macroblocks is delivered: the words del are      *)
(* read, dma are staged and out wait.                                      *)
RasterPart(del, dma, out, k, D, depth) ==
  del \o dma = RasterWords(k, depth) /\ out = OutputWords(k, D, depth)

\* A picture of D macroblocks is delivered so far: in raster order up to some
\* macroblock, or word by word.
Picture(del, dma, out, D, depth, raster) ==
  /\ del \in Seq(OutWord) /\ dma \in Seq(OutWord) /\ out \in Seq(OutWord)
  /\ raster => \E k \in 0 .. D : RasterPart(del, dma, out, k, D, depth)
  /\ ~raster => dma = <<>> /\ del \o out = OutputWords(0, D, depth)

\* Words of a picture, and how many.
LEMMA WordsTyped ==
  ASSUME NEW depth \in 0 .. 3, NEW k \in Nat, NEW D \in Nat, k <= D
  PROVE  /\ OutputWords(k, D, depth) \in Seq(OutWord)
         /\ Len(OutputWords(k, D, depth)) = (D - k) * MacroblockWords(depth)
<1>1a. PICK b \in Nat : b = D - k /\ D = k + b
  OBVIOUS
<1>1. PICK z : z = MacroblockWords(depth)
  OBVIOUS
<1>2. WordsAfter(OutputWords(k, D, depth), k, b * z, depth, z)
  BY <1>1a, <1>1, OutputWordsTyped
<1>. QED
  BY <1>1a, <1>1, <1>2 DEF WordsAfter

\* No macroblocks have no words.
LEMMA NoWords ==
  ASSUME NEW depth \in 0 .. 3, NEW n \in Nat
  PROVE  OutputWords(n, n, depth) = <<>> /\ RasterWords(0, depth) = <<>>
<1>1. PICK z \in Nat : z = MacroblockWords(depth)
  BY SizeFacts
<1>2. 0 * z = 0 /\ n = n + 0
  OBVIOUS
<1>3. OutputWords(n, n, depth) \in Seq(OutWord) /\ Len(OutputWords(n, n, depth)) = 0
  <2>1. WordsAfter(OutputWords(n, n, depth), n, 0 * z, depth, z)
    BY <1>1, <1>2, OutputWordsTyped
  <2>. QED
    BY <1>2, <2>1 DEF WordsAfter
<1>4. RasterWords(0, depth) \in Seq(OutWord) /\ Len(RasterWords(0, depth)) = 0
  <2>1. RasterFirst(RasterWords(0, depth), 0 * z, depth, z)
    BY <1>1, RasterWordsTyped
  <2>. QED
    BY <1>2, <2>1 DEF RasterFirst
<1>. QED
  BY <1>3, <1>4, EmptySeq

\* A picture begins with nothing.
LEMMA PictureStarts ==
  ASSUME NEW depth \in 0 .. 3, NEW raster \in BOOLEAN
  PROVE  Picture(<<>>, <<>>, <<>>, 0, depth, raster)
<1>1. <<>> \in Seq(OutWord) /\ <<>> \o <<>> = <<>>
  BY EmptySeq, ConcatEmptySeq
<1>2. OutputWords(0, 0, depth) = <<>> /\ RasterWords(0, depth) = <<>>
  BY NoWords
<1>3. RasterPart(<<>>, <<>>, <<>>, 0, 0, depth) /\ 0 \in 0 .. 0
  BY <1>1, <1>2 DEF RasterPart
<1>. QED
  BY <1>1, <1>2, <1>3, Zenon DEF Picture

\* More macroblocks are decoded.
LEMMA PictureGrows ==
  ASSUME NEW depth \in 0 .. 3, NEW raster \in BOOLEAN, NEW D \in Nat, NEW E \in Nat, D <= E,
         NEW del, NEW dma, NEW out, Picture(del, dma, out, D, depth, raster)
  PROVE  Picture(del, dma, out \o OutputWords(D, E, depth), E, depth, raster)
<1>0. del \in Seq(OutWord) /\ dma \in Seq(OutWord) /\ out \in Seq(OutWord)
  BY DEF Picture
<1>1. PICK more \in Seq(OutWord) : more = OutputWords(D, E, depth)
  BY WordsTyped
<1>2. out \o more \in Seq(OutWord)
  BY <1>0, ConcatProperties
<1>3. ASSUME raster PROVE \E k \in 0 .. E : RasterPart(del, dma, out \o more, k, E, depth)
  <2>1. PICK k \in 0 .. D : RasterPart(del, dma, out, k, D, depth)
    BY <1>3 DEF Picture
  <2>2. k \in Nat /\ k <= D /\ k \in 0 .. E
    OBVIOUS
  <2>3. OutputWords(k, D, depth) \o OutputWords(D, E, depth) = OutputWords(k, E, depth)
    BY <2>2, OutputWordsConcat
  <2>4. RasterPart(del, dma, out \o more, k, E, depth)
    BY <1>1, <2>1, <2>3, Zenon DEF RasterPart
  <2>. QED
    BY <2>2, <2>4
<1>4. ASSUME ~raster PROVE dma = <<>> /\ del \o (out \o more) = OutputWords(0, E, depth)
  <2>1. dma = <<>> /\ del \o out = OutputWords(0, D, depth)
    BY <1>4 DEF Picture
  <2>2. 0 \in Nat /\ 0 <= D
    OBVIOUS
  <2>3. OutputWords(0, D, depth) \o OutputWords(D, E, depth) = OutputWords(0, E, depth)
    BY <2>2, OutputWordsConcat
  <2>4. (del \o out) \o more = del \o (out \o more)
    <3>1. PICK S : S = OutWord
      OBVIOUS
    <3>2. del \in Seq(S) /\ out \in Seq(S) /\ more \in Seq(S)
      BY <1>0, <1>1, <3>1, Zenon
    <3>. QED BY ONLY <3>2, ConcatAssociative
  <2>. QED
    BY <1>1, <2>1, <2>3, <2>4, Zenon
<1>. QED
  BY <1>0, <1>1, <1>2, <1>3, <1>4, Zenon DEF Picture

\* A word is read from the ring.
LEMMA PictureRead ==
  ASSUME NEW depth, NEW raster \in BOOLEAN, NEW D \in Nat,
         NEW del, NEW dma, NEW out, Picture(del, dma, out, D, depth, raster), ~raster, out # <<>>
  PROVE  Picture(Append(del, Head(out)), dma, Tail(out), D, depth, raster)
<1>0. del \in Seq(OutWord) /\ dma \in Seq(OutWord) /\ out \in Seq(OutWord)
      /\ dma = <<>> /\ del \o out = OutputWords(0, D, depth)
  BY DEF Picture
<1>1. /\ Append(del, Head(out)) \o Tail(out) = del \o out
      /\ Append(del, Head(out)) \in Seq(OutWord) /\ Tail(out) \in Seq(OutWord)
  BY <1>0, HeadMoves
<1>. QED
  BY <1>0, <1>1, Zenon DEF Picture

\* A staged word is read.
LEMMA PictureStaged ==
  ASSUME NEW depth, NEW raster \in BOOLEAN, NEW D \in Nat,
         NEW del, NEW dma, NEW out, Picture(del, dma, out, D, depth, raster), raster, dma # <<>>
  PROVE  Picture(Append(del, Head(dma)), Tail(dma), out, D, depth, raster)
<1>0. del \in Seq(OutWord) /\ dma \in Seq(OutWord) /\ out \in Seq(OutWord)
  BY DEF Picture
<1>1. /\ Append(del, Head(dma)) \o Tail(dma) = del \o dma
      /\ Append(del, Head(dma)) \in Seq(OutWord) /\ Tail(dma) \in Seq(OutWord)
  BY <1>0, HeadMoves
<1>2. PICK k \in 0 .. D : RasterPart(del, dma, out, k, D, depth)
  BY DEF Picture
<1>3. RasterPart(Append(del, Head(dma)), Tail(dma), out, k, D, depth)
  BY <1>1, <1>2, Zenon DEF RasterPart
<1>. QED
  BY <1>0, <1>1, <1>3, Zenon DEF Picture

\* The last macroblock staged is read; the next one is staged.
LEMMA PictureStages ==
  ASSUME NEW depth \in {2, 3}, NEW raster \in BOOLEAN, NEW D \in Nat,
         NEW del, NEW dma, NEW out, Picture(del, dma, out, D, depth, raster), raster, dma = <<>>,
         NEW z, z = MacroblockWords(depth), Len(out) >= z
  PROVE  Picture(del, Raster(SubSeq(out, 1, z), depth), SubSeq(out, z + 1, Len(out)), D, depth, raster)
         /\ Raster(SubSeq(out, 1, z), depth) # <<>>
<1>0. depth \in 0 .. 3 /\ del \in Seq(OutWord)
  BY DEF Picture
<1>1. PICK k \in 0 .. D : RasterPart(del, dma, out, k, D, depth)
  BY DEF Picture
<1>2. del = RasterWords(k, depth) /\ out = OutputWords(k, D, depth)
  <2>1. del \o <<>> = del
    BY <1>0, ConcatEmptySeq
  <2>. QED
    BY <1>1, <2>1, Zenon DEF RasterPart
<1>3. z \in Nat /\ z > 0
  BY <1>0, SizeFacts
<1>4. k < D
  <2>1. CASE k = D
    <3>1. (D - k) * z = 0
      BY <1>3, <2>1
    <3>2. Len(out) = (D - k) * z
      <4>1. k \in Nat /\ k <= D
        OBVIOUS
      <4>2. Len(OutputWords(k, D, depth)) = (D - k) * MacroblockWords(depth)
        BY <1>0, <4>1, WordsTyped
      <4>. QED
        BY <1>2, <4>2, Zenon
    <3>. QED
      BY <1>3, <3>1, <3>2
  <2>. QED
    BY <2>1
<1>5. /\ SubSeq(out, 1, z) = OutputWords(k, k + 1, depth)
      /\ SubSeq(out, z + 1, Len(out)) = OutputWords(k + 1, D, depth)
  <2>1. k \in Nat
    OBVIOUS
  <2>2. FirstAndRest(out, k, D, depth, z)
    BY <1>0, <1>2, <1>4, <2>1, FirstMacroblock
  <2>. QED
    BY <2>2, Zenon DEF FirstAndRest
<1>6. PICK staged : staged = Raster(SubSeq(out, 1, z), depth)
  OBVIOUS
<1>7. staged = Raster(OutputWords(k, k + 1, depth), depth)
  BY <1>5, <1>6, Zenon
<1>8. staged \in Seq(OutWord) /\ Len(staged) = z
  <2>1. RastersOf(staged, k, z, depth)
    <3>1. k \in Nat
      OBVIOUS
    <3>. QED
      BY <1>7, <3>1, RasterStages
  <2>. QED
    BY <2>1 DEF RastersOf
<1>9. del \o staged = RasterWords(k + 1, depth)
  <2>1. k \in Nat
    OBVIOUS
  <2>2. RasterWords(k, depth) \o Raster(OutputWords(k, k + 1, depth), depth) = RasterWords(k + 1, depth)
    BY <2>1, RasterGrows
  <2>. QED
    BY <1>2, <1>7, <2>2, Zenon
<1>10. k + 1 \in 0 .. D
  BY <1>4
<1>11. PICK rest : rest = SubSeq(out, z + 1, Len(out))
  OBVIOUS
<1>12. rest = OutputWords(k + 1, D, depth)
  BY <1>5, <1>11, Zenon
<1>13. rest \in Seq(OutWord)
  <2>1. PICK l \in Nat : l = k + 1 /\ l <= D
    BY <1>4
  <2>2. OutputWords(l, D, depth) \in Seq(OutWord)
    BY <1>0, <2>1, WordsTyped
  <2>. QED
    BY <1>12, <2>1, <2>2
<1>14. RasterPart(del, staged, rest, k + 1, D, depth)
  BY <1>9, <1>12, Zenon DEF RasterPart
<1>15. Picture(del, staged, rest, D, depth, raster)
  BY <1>0, <1>8, <1>10, <1>13, <1>14, Zenon DEF Picture
<1>16. staged # <<>>
  BY <1>3, <1>8
<1>. QED
  BY <1>6, <1>11, <1>15, <1>16, Zenon

\* The picture goes to memory in raster order.
Rastered == port = "dma" /\ Colour(output_depth)

(* A clean picture is delivered up to where its words are.                 *)
PictureInv ==
  clean /\ active_command = 1 =>
    Picture(delivered, dma_output, output, Len(decoded), output_depth, Rastered)

\* What is decoded are macroblocks.
LEMMA DecodedIsSeq ==
  ASSUME MdecInv, active_command = 1
  PROVE  decoded \in Seq(Seq(CodedBlocks(InForce))) /\ Len(decoded) \in Nat
<1>1. PICK W, f, c, d, t : f = fed /\ c = (~receiving) /\ d = output_depth /\ t = InForce /\ W = Macroblocks(f, d, c, t)
  OBVIOUS
<1>2. f \in Seq(Half) /\ c \in BOOLEAN
  BY <1>1, Zenon DEF MdecInv
<1>3. SoFar(decoded, Macroblocks(fed, output_depth, ~receiving, InForce), fed, params, receiving, words_remaining)
  BY DEF MdecInv
<1>4. decoded = W.mbs
  BY <1>1, <1>3, Zenon DEF SoFar
<1>5. W.mbs \in Seq(Seq(CodedBlocks(t)))
  BY <1>1, <1>2, MacroblocksTyped
<1>6. decoded \in Seq(Seq(CodedBlocks(t)))
  BY <1>4, <1>5
<1>. QED
  BY <1>1, <1>6

\* The buffer and the new word are halves.
LEMMA ReceivedTyped ==
  ASSUME MdecInv, DecodeWord PROVE Received \in Seq(Half)
<1>0. todo # <<>> /\ receiving /\ active_command = 1
  BY DEF DecodeWord, TakeWord
<1>1. PICK W, f, d, t : f = fed /\ d = output_depth /\ t = InForce /\ W = Macroblocks(f, d, FALSE, t)
  OBVIOUS
<1>2. f \in Seq(Half)
  BY <1>1, Zenon DEF MdecInv
<1>3. (~receiving) = FALSE
  BY <1>0
<1>4. SoFar(decoded, Macroblocks(fed, output_depth, ~receiving, InForce), fed, params, receiving, words_remaining)
  BY <1>0 DEF MdecInv
<1>5. params = SubSeq(f, W.next, Len(f))
  BY <1>0, <1>1, <1>3, <1>4, Zenon DEF SoFar
<1>6. PICK n \in 1 .. Len(f) + 1 : n = W.next
  <2>1. Macroblocks(f, d, FALSE, t).next \in 1 .. Len(f) + 1
    BY <1>2, MacroblocksTyped
  <2>. QED
    BY <1>1, <2>1
<1>7. SubSeq(f, n, Len(f)) \in Seq(Half)
  BY <1>2, RestOf
<1>8. params \in Seq(Half)
  BY <1>5, <1>6, <1>7, Zenon
<1>9. Head(todo).halves \in Seq(Half)
  BY <1>0, CommandsFacts DEF MdecInv
<1>10. params \o Head(todo).halves \in Seq(Half)
  BY <1>8, <1>9, ConcatProperties
<1>. QED
  BY <1>8, <1>10, Zenon DEF Received

\* Decoding keeps a picture delivered: only a ring that overflows loses words.
LEMMA DecodeWordPicture ==
  ASSUME MdecInv, PictureInv, DecodeWord PROVE PictureInv'
<1>. SUFFICES ASSUME clean', active_command' = 1
              PROVE  Picture(delivered', dma_output', output', Len(decoded'), output_depth', Rastered')
  BY DEF PictureInv
<1>1. /\ active_command = 1 /\ output_depth' = output_depth /\ dma_output' = dma_output
      /\ delivered' = delivered /\ port' = port
      /\ decode_available(Received, words_remaining = 1)
  BY DEF DecodeWord, TakeWord
<1>2. PICK r \in Seq(Half), c \in BOOLEAN, depth \in 0 .. 3 :
            r = Received /\ c = (words_remaining = 1) /\ depth = output_depth
  BY ReceivedTyped, Zenon DEF MdecInv
<1>3. PICK t : t = InForce
  OBVIOUS
<1>4. PICK M : M = Macroblocks(r, depth, c, t).mbs
  OBVIOUS
<1>5. PICK words : words = OutputWords(Len(decoded), Len(decoded \o M), depth)
  OBVIOUS
<1>6. /\ decoded' = decoded \o M /\ output' = Pushed(words)
      /\ clean' = (clean /\ Len(output) + Len(words) <= OUT_CAP)
  BY <1>1, <1>2, <1>3, <1>4, <1>5, Zenon DEF decode_available
<1>7. M \in Seq(Seq(CodedBlocks(t))) /\ decoded \in Seq(Seq(CodedBlocks(t)))
  BY <1>1, <1>3, <1>4, DecodedIsSeq, MacroblocksTyped
<1>8. PICK D \in Nat, E \in Nat : D = Len(decoded) /\ E = Len(decoded \o M) /\ D <= E
  <2>1. Len(decoded \o M) = Len(decoded) + Len(M) /\ Len(M) \in Nat /\ Len(decoded) \in Nat
    BY <1>7, ConcatProperties
  <2>. QED
    BY <2>1
<1>9. clean /\ Len(output) + Len(words) <= OUT_CAP
  BY <1>6
<1>10. PICK raster \in BOOLEAN : raster = Rastered
  BY DEF Rastered
<1>11. Rastered' = Rastered
  BY <1>1 DEF Rastered
<1>12. Picture(delivered, dma_output, output, D, depth, raster)
  BY <1>1, <1>2, <1>8, <1>9, <1>10, Zenon DEF PictureInv
<1>13. output \in Seq(OutWord)
  BY <1>12 DEF Picture
<1>14. words = OutputWords(D, E, depth)
  BY <1>5, <1>8, Zenon
<1>15. words \in Seq(OutWord)
  BY <1>8, <1>14, WordsTyped
<1>16. Len(output \o words) <= OUT_CAP
  BY <1>9, <1>13, <1>15, ConcatProperties
<1>17. output' = output \o words
  BY <1>6, <1>16, Zenon DEF Pushed
<1>18. Picture(delivered, dma_output, output \o OutputWords(D, E, depth), E, depth, raster)
  BY <1>8, <1>12, PictureGrows
<1>. QED
  BY <1>1, <1>2, <1>6, <1>8, <1>10, <1>11, <1>14, <1>17, <1>18, Zenon

\* A picture command over a drained decoder begins one.
LEMMA StartPicture ==
  ASSUME MdecInv, PictureInv, start_command PROVE PictureInv'
<1>. SUFFICES ASSUME clean', active_command' = 1
              PROVE  Picture(delivered', dma_output', output', Len(decoded'), output_depth', Rastered')
  BY DEF PictureInv
<1>0. /\ todo # <<>> /\ active_command' = Head(todo).op /\ output_depth' = Head(todo).depth
      /\ decoded' = <<>> /\ UNCHANGED outputs
      /\ delivered' = IF Head(todo).op = 1 THEN <<>> ELSE delivered
      /\ clean' = IF Head(todo).op = 1 THEN Drained ELSE clean /\ Drained
  BY DEF start_command
<1>1. output' = <<>> /\ dma_output' = <<>> /\ delivered' = <<>>
  BY <1>0 DEF Drained, outputs
<1>2. PICK depth \in 0 .. 3 : depth = output_depth'
  BY <1>0, CommandsFacts DEF MdecInv
<1>3. PICK raster \in BOOLEAN : raster = Rastered'
  BY DEF Rastered
<1>4. Len(decoded') = 0
  BY <1>0
<1>5. Picture(<<>>, <<>>, <<>>, 0, depth, raster)
  BY PictureStarts
<1>. QED
  BY <1>1, <1>2, <1>3, <1>4, <1>5, Zenon

\* Staging and reading through DMA keep it (mdec_dma_read).
LEMMA ReadColourPicture ==
  ASSUME MdecInv, PictureInv, DmaReadColour PROVE PictureInv'
<1>. SUFFICES ASSUME clean', active_command' = 1
              PROVE  Picture(delivered', dma_output', output', Len(decoded'), output_depth', Rastered')
  BY DEF PictureInv
<1>0. PICK n, staged :
        /\ n = MacroblockWords(output_depth)
        /\ staged = IF dma_output # <<>> THEN dma_output ELSE Raster(SubSeq(output, 1, n), output_depth)
        /\ port = "dma" /\ Colour(output_depth)
        /\ dma_output # <<>> \/ Len(output) >= n
        /\ output' = IF dma_output # <<>> THEN output ELSE SubSeq(output, n + 1, Len(output))
        /\ dma_output' = Tail(staged)
        /\ delivered' = Append(delivered, Head(staged))
  BY Zenon DEF DmaReadColour
<1>1. /\ active_command' = active_command /\ output_depth' = output_depth /\ decoded' = decoded
      /\ clean' = clean /\ port' = port
  BY DEF DmaReadColour, input
<1>2. Rastered' = Rastered /\ Rastered
  BY <1>0, <1>1 DEF Rastered
<1>3. PICK raster \in BOOLEAN : raster = Rastered /\ raster
  BY <1>2
<1>4. PICK depth \in {2, 3} : depth = output_depth
  BY <1>0 DEF Colour
<1>5. PICK D \in Nat : D = Len(decoded)
  BY <1>1, DecodedIsSeq
<1>6. Picture(delivered, dma_output, output, D, depth, raster)
  BY <1>1, <1>3, <1>4, <1>5, Zenon DEF PictureInv
<1>7. Picture(delivered', dma_output', output', D, depth, raster)
  <2>1. CASE dma_output # <<>>
    <3>1. output' = output /\ dma_output' = Tail(dma_output) /\ delivered' = Append(delivered, Head(dma_output))
      BY <1>0, <2>1, Zenon
    <3>2. Picture(Append(delivered, Head(dma_output)), Tail(dma_output), output, D, depth, raster)
      BY <1>3, <1>6, <2>1, PictureStaged
    <3>. QED
      BY <3>1, <3>2, Zenon
  <2>2. CASE dma_output = <<>>
    <3>1. /\ n = MacroblockWords(depth) /\ staged = Raster(SubSeq(output, 1, n), depth)
          /\ Len(output) >= n /\ output' = SubSeq(output, n + 1, Len(output))
      BY <1>0, <1>4, <2>2, Zenon
    <3>2. Picture(delivered, staged, output', D, depth, raster) /\ staged # <<>>
      BY <1>3, <1>6, <2>2, <3>1, PictureStages
    <3>3. Picture(Append(delivered, Head(staged)), Tail(staged), output', D, depth, raster)
      BY <1>3, <3>2, PictureStaged
    <3>. QED
      BY <1>0, <3>3, Zenon
  <2>. QED
    BY <2>1, <2>2
<1>. QED
  BY <1>1, <1>2, <1>3, <1>4, <1>5, <1>7, Zenon

\* The CPU's port, and DMA in the mono depths.
LEMMA ReadPicture ==
  ASSUME MdecInv, PictureInv, mdec_cpu_read \/ DmaReadMono PROVE PictureInv'
<1>. SUFFICES ASSUME clean', active_command' = 1
              PROVE  Picture(delivered', dma_output', output', Len(decoded'), output_depth', Rastered')
  BY DEF PictureInv
<1>1. /\ active_command' = active_command /\ output_depth' = output_depth /\ decoded' = decoded
      /\ clean' = clean /\ port' = port /\ dma_output' = dma_output
      /\ output # <<>> /\ output' = Tail(output) /\ delivered' = Append(delivered, Head(output))
  BY DEF mdec_cpu_read, DmaReadMono, input
<1>2. Rastered' = Rastered /\ ~Rastered
  BY <1>1 DEF Rastered, mdec_cpu_read, DmaReadMono
<1>3. PICK raster \in BOOLEAN : raster = Rastered /\ ~raster
  <2>1. Rastered \in BOOLEAN
    BY DEF Rastered
  <2>. QED
    BY <1>2, <2>1, Zenon
<1>4a. PICK depth : depth = output_depth
  OBVIOUS
<1>4. PICK D \in Nat : D = Len(decoded) /\ depth = output_depth
  BY <1>1, <1>4a, DecodedIsSeq
<1>5. Picture(delivered, dma_output, output, D, depth, raster)
  BY <1>1, <1>3, <1>4, Zenon DEF PictureInv
<1>6. Picture(Append(delivered, Head(output)), dma_output, Tail(output), D, depth, raster)
  BY <1>1, <1>3, <1>5, PictureRead
<1>. QED
  BY <1>1, <1>2, <1>3, <1>4, <1>6, Zenon

\* What touches neither words nor depth keeps it.
LEMMA SamePicture ==
  ASSUME PictureInv, UNCHANGED <<delivered, dma_output, output, decoded, output_depth, active_command, clean, port>>
  PROVE  PictureInv'
<1>1. Rastered' = Rastered
  BY DEF Rastered
<1>. QED
  BY <1>1, Zenon DEF PictureInv

\* Every step keeps it.
LEMMA PictureInvStep ==
  ASSUME MdecInv, PictureInv, [MdecNext]_mdec_vars PROVE PictureInv'
<1>1. CASE start_command
  BY <1>1, StartPicture
<1>2. CASE DecodeWord
  BY <1>2, DecodeWordPicture
<1>3. CASE TableWord \/ set_quant_table \/ set_scale_table
  <2>1. active_command' # 1
    BY <1>3 DEF TableWord, set_quant_table, set_scale_table, TakeWord
  <2>. QED
    BY <2>1 DEF PictureInv
<1>4. CASE mdec_cpu_read \/ DmaReadMono
  BY <1>4, ReadPicture
<1>5. CASE DmaReadColour
  BY <1>5, ReadColourPicture
<1>6. CASE StatusRead
  BY <1>6, SamePicture DEF StatusRead, input, history
<1>7. CASE Reset
  <2>1. active_command' # 1
    BY <1>7 DEF Reset
  <2>. QED
    BY <2>1 DEF PictureInv
<1>8. CASE UNCHANGED mdec_vars
  BY <1>8, SamePicture DEF mdec_vars, input, outputs, history
<1>. QED
  BY <1>1, <1>2, <1>3, <1>4, <1>5, <1>6, <1>7, <1>8 DEF MdecNext, mdec_dma_write, Read, mdec_dma_read

\* It gives the words taken and the words that wait.
LEMMA PictureInvImplies ==
  ASSUME MdecInv, PictureInv PROVE PictureDelivered
<1>. SUFFICES ASSUME clean, active_command = 1
              PROVE  LET raster == port = "dma" /\ Colour(output_depth)
                         taken  == delivered \o dma_output
                         k      == Len(taken) \div MacroblockWords(output_depth)
                     IN  IF raster
                         THEN /\ taken = RasterWords(k, output_depth)
                              /\ output = OutputWords(k, Len(decoded), output_depth)
                         ELSE taken \o output = OutputWords(0, Len(decoded), output_depth)
  BY Zenon DEF PictureDelivered
<1>1. PICK D \in Nat, depth \in 0 .. 3 : D = Len(decoded) /\ depth = output_depth
  BY DecodedIsSeq, Zenon DEF MdecInv
<1>2. PICK z \in Nat : z = MacroblockWords(depth) /\ z > 0
  BY SizeFacts
<1>3. Picture(delivered, dma_output, output, D, depth, Rastered)
  BY <1>1, Zenon DEF PictureInv
<1>4. PICK taken : taken = delivered \o dma_output
  OBVIOUS
<1>5. ASSUME Rastered PROVE /\ taken = RasterWords(Len(taken) \div z, depth)
                            /\ output = OutputWords(Len(taken) \div z, D, depth)
  <2>1. PICK k \in 0 .. D : RasterPart(delivered, dma_output, output, k, D, depth)
    BY <1>3, <1>5 DEF Picture
  <2>2. taken = RasterWords(k, depth) /\ output = OutputWords(k, D, depth)
    BY <1>4, <2>1, Zenon DEF RasterPart
  <2>3. Len(taken) = k * z
    <3>1. k \in Nat
      OBVIOUS
    <3>2. RasterFirst(RasterWords(k, depth), k * z, depth, z)
      BY <1>2, <3>1, RasterWordsTyped
    <3>. QED
      BY <2>2, <3>2, Zenon DEF RasterFirst
  <2>4. Len(taken) \div z = k
    <3>1. k \in Nat /\ 0 \in 0 .. z - 1
      BY <1>2
    <3>2. (k * z + 0) \div z = k
      BY <1>2, <3>1, DivModOfSum
    <3>3. k * z + 0 = k * z
      BY <1>2, <3>1
    <3>. QED
      BY <2>3, <3>2, <3>3
  <2>. QED
    BY <2>2, <2>4, Zenon
<1>6. ASSUME ~Rastered PROVE taken \o output = OutputWords(0, D, depth)
  <2>1. delivered \in Seq(OutWord) /\ dma_output = <<>> /\ delivered \o output = OutputWords(0, D, depth)
    BY <1>3, <1>6 DEF Picture
  <2>2. delivered \o <<>> = delivered
    BY <2>1, ConcatEmptySeq
  <2>. QED
    BY <1>4, <2>1, <2>2, Zenon
<1>. QED
  BY <1>1, <1>2, <1>4, <1>5, <1>6, Zenon DEF Rastered

\* A picture begun with the decoder drained is delivered word for word, in raster
\* order through DMA, however writing and reading interleave.
THEOREM DeliversPictures == MdecSpec => []PictureDelivered
<1>1. MdecInit => PictureInv
  BY DEF MdecInit, PictureInv
<1>2. MdecInv /\ PictureInv /\ [MdecNext]_mdec_vars => PictureInv'
  BY PictureInvStep
<1>3. MdecInv /\ PictureInv => PictureDelivered
  BY PictureInvImplies
<1>. QED
  BY MdecInvariant, <1>1, <1>2, <1>3, PTL DEF MdecSpec
=============================================================================
