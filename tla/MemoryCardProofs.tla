-------------------------- MODULE MemoryCardProofs --------------------------
(***************************************************************************)
(* Proofs about the memory card and its file, for any number of sectors,   *)
(* and about the serial port through which the program writes it.          *)
(*                                                                         *)
(* The file: the invariant follows the temporary file through the flush:   *)
(* from the moment it has been written, and until it is renamed or given   *)
(* up, it is the card in memory, whole; when it is renamed it is also      *)
(* synced.                                                                 *)
(*                                                                         *)
(* The port: the invariant says, for each position of the card in a write  *)
(* frame, how much of the program's frame the card's registers hold: the   *)
(* sector number, the running sum, the first bytes of the sector.          *)
(***************************************************************************)
EXTENDS MemoryCard, SioDriver, SequenceTheorems, WellFoundedInduction, TLAPS

(* What each step of the flush may rely on.                                *)
FlushOrder ==
  /\ Flushing => present
  /\ pc = "off" => ~present
  /\ pc \in {"open", "write", "sync", "rename"} => ok
  /\ pc = "sync" => tmp = data
  /\ pc = "close" /\ ok => tmp = data /\ synced
  /\ pc = "rename" => tmp = data /\ synced

(* The card in memory is valid as long as the program keeps it so, and no  *)
(* earlier card is behind a missing file.                                  *)
MemorySound ==
  /\ present /\ ~spoiled => Valid(data)
  /\ file = NoCard => after = {NoCard}

IInv == TypeOK /\ FlushOrder /\ CardFileWhole /\ AnsweredSurvives /\ OnlyProgramSpoils /\ MemorySound

LEMMA FormattedImage == Formatted \in Images /\ Valid(Formatted)
  BY CardAssumption DEF Formatted, Images, Valid

LEMMA TypeInit == Init => TypeOK
  <1> SUFFICES ASSUME Init PROVE TypeOK
    OBVIOUS
  <1>1. data \in Images /\ answered \in Images
    BY FormattedImage DEF Init
  <1>2. open \in [Sectors -> SUBSET Contents]
    BY DEF Init
  <1>3. spoiled \in BOOLEAN
    BY DEF Init
  <1>4. after \subseteq Images \cup {NoCard, Torn, Foreign}
    BY DEF Init
  <1> QED
    BY <1>1, <1>2, <1>3, <1>4 DEF Init, TypeOK

LEMMA TypeStep == ASSUME TypeOK, [Next]_vars PROVE TypeOK'
  <1> USE DEF TypeOK
  <1>1. CASE LoadMissing
    BY <1>1, FormattedImage DEF LoadMissing, disk
  <1>2. CASE LoadValid
    BY <1>2 DEF LoadValid, disk
  <1>3. CASE LoadRefused
    BY <1>3 DEF LoadRefused, disk, hist
  <1>4. CASE LoadFails
    BY <1>4 DEF LoadFails, card, disk, hist
  <1>5. ASSUME NEW s \in Sectors, NEW c \in Contents, WriteSector(s, c) PROVE TypeOK'
    <2>1. data' \in Images
      BY <1>5 DEF WriteSector, Images
    <2>2. open' \in [Sectors -> SUBSET Contents]
      BY <1>5 DEF WriteSector
    <2>3. spoiled' \in BOOLEAN
      BY <1>5 DEF WriteSector
    <2> QED
      BY <1>5, <2>1, <2>2, <2>3 DEF WriteSector, disk
  <1>6. CASE ReadSector
    BY <1>6 DEF ReadSector, disk, hist
  <1>7. CASE OpenTmp
    BY <1>7 DEF OpenTmp, card, hist
  <1>8. CASE OpenFails
    BY <1>8 DEF OpenFails, FlushFails, hist
  <1>9. CASE WriteTmp
    <2>1. tmp' \in {tmp, data} /\ pc' \in {"sync", "close"} /\ ok' \in {ok, FALSE}
      BY <1>9, Zenon DEF WriteTmp
    <2>2. tmp' \in Images \cup {NoCard, Torn} /\ ok' \in BOOLEAN
      BY <2>1
    <2> QED
      BY <1>9, <2>1, <2>2 DEF WriteTmp, card, hist
  <1>10. CASE SyncTmp
    <2>1. synced' \in BOOLEAN /\ ok' \in BOOLEAN /\ pc' = "close"
      BY <1>10, Zenon DEF SyncTmp
    <2>2. UNCHANGED <<card, creating, file, tmp, after, hist>>
      BY <1>10, Zenon DEF SyncTmp
    <2> QED
      BY <2>1, <2>2 DEF card, hist
  <1>11. CASE CloseTmp
    <2>1. ok' \in BOOLEAN /\ pc' \in {"rename", "unlink"}
      BY <1>11, Zenon DEF CloseTmp
    <2>2. UNCHANGED <<card, creating, disk, hist>>
      BY <1>11, Zenon DEF CloseTmp
    <2> QED
      BY <2>1, <2>2 DEF card, disk, hist
  <1>12. CASE RenameTmp
    BY <1>12 DEF RenameTmp, card
  <1>13. CASE RenameFails
    BY <1>13 DEF RenameFails, card, disk, hist
  <1>14. CASE UnlinkTmp
    BY <1>14 DEF UnlinkTmp, FlushFails, hist
  <1>15. CASE Exit
    BY <1>15 DEF Exit, disk, hist
  <1>16. CASE Writeback
    BY <1>16 DEF Writeback, card, hist
  <1>17. CASE PowerLoss
    BY <1>17 DEF PowerLoss
  <1>18. CASE UNCHANGED vars
    BY <1>18 DEF vars, card, disk, hist
  <1> QED
    BY <1>1, <1>2, <1>3, <1>4, <1>5, <1>6, <1>7, <1>8, <1>9, <1>10, <1>11, <1>12,
       <1>13, <1>14, <1>15, <1>16, <1>17, <1>18 DEF Next, FlushStep

LEMMA OrderStep == ASSUME TypeOK, FlushOrder, [Next]_vars PROVE FlushOrder'
  <1> USE DEF FlushOrder, Flushing
  <1>1. CASE LoadMissing \/ LoadValid \/ LoadRefused \/ LoadFails
    BY <1>1 DEF LoadMissing, LoadValid, LoadRefused, LoadFails, card
  <1>5. ASSUME NEW s \in Sectors, NEW c \in Contents, WriteSector(s, c) PROVE FlushOrder'
    BY <1>5 DEF WriteSector
  <1>6. CASE ReadSector
    BY <1>6 DEF ReadSector
  <1>7. CASE OpenTmp
    BY <1>7 DEF OpenTmp, card
  <1>8. CASE OpenFails
    BY <1>8 DEF OpenFails, FlushFails
  <1>9. CASE WriteTmp
    BY <1>9 DEF WriteTmp, card
  <1>10. CASE SyncTmp
    BY <1>10 DEF SyncTmp, card
  <1>11. CASE CloseTmp
    <2>1. ok' = ok \/ ok' = FALSE
      BY <1>11 DEF CloseTmp
    <2>2. UNCHANGED <<data, present, tmp, synced>> /\ pc = "close"
      BY <1>11 DEF CloseTmp, card, disk
    <2>3. pc' = IF ok' THEN "rename" ELSE "unlink"
      BY <1>11 DEF CloseTmp
    <2>4. CASE ok'
      BY <2>1, <2>2, <2>3, <2>4
    <2>5. CASE ~ok'
      BY <2>2, <2>3, <2>5
    <2> QED
      BY <2>4, <2>5
  <1>12. CASE RenameTmp
    BY <1>12 DEF RenameTmp, card
  <1>13. CASE RenameFails
    BY <1>13 DEF RenameFails, card
  <1>14. CASE UnlinkTmp
    BY <1>14 DEF UnlinkTmp, FlushFails
  <1>15. CASE Exit \/ PowerLoss
    BY <1>15 DEF Exit, PowerLoss
  <1>16. CASE Writeback
    BY <1>16 DEF Writeback, card
  <1>18. CASE UNCHANGED vars
    BY <1>18 DEF vars, card, disk
  <1> QED
    BY <1>1, <1>5, <1>6, <1>7, <1>8, <1>9, <1>10, <1>11, <1>12,
       <1>13, <1>14, <1>15, <1>16, <1>18 DEF Next, FlushStep

(* Steps that leave the files, the card and the history of the program's   *)
(* writes alone.                                                           *)
Quiet == UNCHANGED <<data, file, after, answered, open, spoiled>> /\ (present' => present)

LEMMA QuietSteps ==
  ASSUME TypeOK,
         \/ LoadFails \/ ReadSector \/ OpenTmp \/ OpenFails \/ WriteTmp \/ SyncTmp
         \/ CloseTmp \/ RenameFails \/ UnlinkTmp \/ Exit \/ UNCHANGED vars
  PROVE  Quiet
  <1> USE DEF Quiet, card, disk, hist
  <1>1. CASE LoadFails \/ ReadSector \/ OpenTmp
    BY <1>1 DEF LoadFails, ReadSector, OpenTmp
  <1>2. CASE OpenFails
    BY <1>2 DEF OpenFails, FlushFails
  <1>3. CASE WriteTmp \/ SyncTmp
    BY <1>3 DEF WriteTmp, SyncTmp
  <1>4. CASE CloseTmp
    <2>1. UNCHANGED <<card, disk, hist>>
      BY <1>4 DEF CloseTmp
    <2> QED
      BY <2>1
  <1>7. CASE RenameFails
    BY <1>7 DEF RenameFails
  <1>5. CASE UnlinkTmp
    BY <1>5 DEF UnlinkTmp, FlushFails
  <1>6. CASE Exit \/ UNCHANGED vars
    BY <1>6 DEF Exit, vars
  <1> QED
    BY <1>1, <1>2, <1>3, <1>4, <1>5, <1>6, <1>7

(* The part of the invariant that is about the files.                      *)
Rest == CardFileWhole /\ AnsweredSurvives /\ OnlyProgramSpoils /\ MemorySound

LEMMA RestStep == ASSUME IInv, [Next]_vars PROVE Rest'
  <1> USE DEF IInv
  <1>a. TypeOK'
    BY TypeStep
  <1>1. CASE LoadMissing
    <2>1. file' = NoCard /\ after' = {NoCard} /\ NoCard \notin Images /\ NoCard # Torn
      BY <1>1, CardAssumption DEF LoadMissing, disk, MemorySound
    <2>2. Valid(data)'
      BY <1>1, FormattedImage DEF LoadMissing, Valid
    <2> QED
      BY <2>1, <2>2 DEF Rest, CardFileWhole, AnsweredSurvives, OnlyProgramSpoils, MemorySound
  <1>2. CASE LoadValid
    <2>1. UNCHANGED <<file, after, spoiled>> /\ answered' = file /\ data' = file /\ Valid(file)
      BY <1>2 DEF LoadValid, disk
    <2>2. CardFileWhole' /\ AnsweredSurvives'
      BY <2>1 DEF CardFileWhole, AnsweredSurvives
    <2>3. OnlyProgramSpoils'
      BY <2>1 DEF OnlyProgramSpoils, Valid
    <2>4. MemorySound'
      BY <2>1 DEF MemorySound, Valid
    <2> QED
      BY <2>2, <2>3, <2>4 DEF Rest
  <1>3. CASE LoadRefused
    <2>1. UNCHANGED <<file, after, answered, open, spoiled>> /\ present' = FALSE
      BY <1>3 DEF LoadRefused, disk, hist
    <2>2. CardFileWhole' /\ AnsweredSurvives'
      BY <2>1 DEF CardFileWhole, AnsweredSurvives
    <2>3. OnlyProgramSpoils'
      BY <2>1 DEF OnlyProgramSpoils, Valid
    <2>4. MemorySound'
      BY <2>1 DEF MemorySound
    <2> QED
      BY <2>2, <2>3, <2>4 DEF Rest
  <1>4. ASSUME NEW s \in Sectors, NEW c \in Contents, WriteSector(s, c) PROVE Rest'
    <2>1. UNCHANGED <<file, after, answered>> /\ present
      BY <1>4 DEF WriteSector, disk
    <2>2. CardFileWhole'
      BY <2>1 DEF CardFileWhole
    <2>3. \A t \in Sectors : /\ open[t] \subseteq open'[t]
                             /\ data'[t] # data[t] => t = s /\ open'[t] # {}
      BY <1>4 DEF WriteSector, TypeOK, Images
    <2>4. AnsweredSurvives'
      BY <2>1, <2>3 DEF AnsweredSurvives
    <2>5. spoiled => spoiled'
      BY <1>4 DEF WriteSector
    <2>6. OnlyProgramSpoils'
      BY <2>1, <2>5 DEF OnlyProgramSpoils, Valid
    <2>7. ASSUME ~spoiled' PROVE Valid(data)'
      <3>1. s \in MetaSectors => c \in Good
        BY <1>4, <2>7 DEF WriteSector
      <3>2. Valid(data)
        BY <1>4, <2>1, <2>5, <2>7 DEF MemorySound
      <3> QED
        BY <1>4, <3>1, <3>2, CardAssumption DEF WriteSector, TypeOK, Images, Valid
    <2>8. MemorySound'
      BY <2>1, <2>7 DEF MemorySound
    <2> QED
      BY <2>2, <2>4, <2>6, <2>8 DEF Rest
  <1>5. CASE RenameTmp
    <2>1. /\ file' = data /\ after' = after \cup {data} /\ answered' = data
          /\ UNCHANGED <<data, present, spoiled>> /\ present
      BY <1>5 DEF RenameTmp, card, FlushOrder, Flushing
    <2>2. data \in Images /\ data # Torn /\ data # NoCard
      BY CardAssumption DEF TypeOK
    <2>3. CardFileWhole' /\ AnsweredSurvives'
      BY <2>1, <2>2 DEF CardFileWhole, AnsweredSurvives
    <2>4. ~spoiled => Valid(data)
      BY <2>1 DEF MemorySound
    <2>5. OnlyProgramSpoils'
      BY <2>1, <2>2, <2>4 DEF OnlyProgramSpoils, Valid
    <2>6. MemorySound'
      BY <2>1, <2>2, <2>4 DEF MemorySound, Valid
    <2> QED
      BY <2>3, <2>5, <2>6 DEF Rest
  <1>6. CASE Writeback
    <2>1. UNCHANGED <<data, present, file, answered, open, spoiled>> /\ after' = {file}
      BY <1>6 DEF Writeback, card, hist
    <2>2. CardFileWhole' /\ AnsweredSurvives'
      BY <2>1 DEF CardFileWhole, AnsweredSurvives
    <2>3. OnlyProgramSpoils'
      BY <2>1 DEF OnlyProgramSpoils, Valid
    <2>4. MemorySound'
      BY <2>1 DEF MemorySound, Valid
    <2> QED
      BY <2>2, <2>3, <2>4 DEF Rest
  <1>7. CASE PowerLoss
    <2>1. /\ file' \in after /\ after' = {file'} /\ present' = FALSE
          /\ UNCHANGED <<open, spoiled>> /\ (file' \in Images => answered' = file')
      BY <1>7 DEF PowerLoss
    <2>2. CardFileWhole' /\ AnsweredSurvives'
      BY <2>1 DEF CardFileWhole, AnsweredSurvives
    <2>3. OnlyProgramSpoils'
      BY <2>1 DEF OnlyProgramSpoils, Valid
    <2>4. MemorySound'
      BY <2>1 DEF MemorySound
    <2> QED
      BY <2>2, <2>3, <2>4 DEF Rest
  <1>8. CASE Quiet
    <2>2. CardFileWhole' /\ AnsweredSurvives'
      BY <1>8 DEF Quiet, CardFileWhole, AnsweredSurvives
    <2>3. OnlyProgramSpoils'
      BY <1>8 DEF Quiet, OnlyProgramSpoils, Valid
    <2>4. MemorySound'
      BY <1>8 DEF Quiet, MemorySound, Valid
    <2> QED
      BY <2>2, <2>3, <2>4 DEF Rest
  <1> QED
    BY <1>1, <1>2, <1>3, <1>4, <1>5, <1>6, <1>7, <1>8, QuietSteps DEF Next, FlushStep

LEMMA Inductive == Spec => []IInv
  <1>1. Init => IInv
    <2> SUFFICES ASSUME Init PROVE IInv
      OBVIOUS
    <2>1. TypeOK
      BY TypeInit
    <2>2. FlushOrder
      BY DEF Init, FlushOrder, Flushing
    <2>3. CardFileWhole
      BY CardAssumption DEF Init, CardFileWhole
    <2>4. AnsweredSurvives
      BY DEF Init, AnsweredSurvives
    <2>5. OnlyProgramSpoils
      BY DEF Init, OnlyProgramSpoils
    <2>6. MemorySound
      BY DEF Init, MemorySound
    <2> QED
      BY <2>1, <2>2, <2>3, <2>4, <2>5, <2>6 DEF IInv
  <1>2. IInv /\ [Next]_vars => IInv'
    BY TypeStep, OrderStep, RestStep DEF IInv, Rest
  <1> QED
    BY <1>1, <1>2, PTL DEF Spec

(* For every card: whatever call fails and whenever the emulator or the    *)
(* power goes, the card's file is whole.                                   *)
THEOREM FileIsWhole == Spec => []CardFileWhole
  BY Inductive, PTL DEF IInv

(* What the program was told is on the card is in the file, unless it has  *)
(* itself asked for something else since.                                  *)
THEOREM AnswersAreKept == Spec => []AnsweredSurvives
  BY Inductive, PTL DEF IInv

(* No failure makes a card unreadable: only the program's own directory    *)
(* frames can.                                                             *)
THEOREM CardStaysReadable == Spec => []OnlyProgramSpoils
  BY Inductive, PTL DEF IInv

(* The file, the temporary file and the flush implement the card that is   *)
(* saved whole or not at all.                                              *)
THEOREM StoreImplemented == Spec => ImplementsStore
  <1>1. Init => Store!Init
    BY DEF Init, Store!Init, Store!Images, Images
  <1>2. ASSUME IInv, [Next]_vars PROVE [Store!Next]_(Store!svars)
    <2>a. data \in Images /\ NoCard \notin Images
      BY <1>2, CardAssumption DEF IInv, TypeOK
    <2>1. CASE LoadMissing
      <3>1. Store!Insert
        BY <1>2, <2>1, CardAssumption DEF LoadMissing, disk, Formatted, Store!Insert, IInv, FlushOrder
      <3> QED
        BY <3>1 DEF Store!Next
    <2>2. CASE LoadValid
      <3>1. Store!Insert
        BY <1>2, <2>2, CardAssumption DEF LoadValid, disk, Store!Insert, IInv, FlushOrder
      <3> QED
        BY <3>1 DEF Store!Next
    <2>3. CASE LoadRefused \/ LoadFails
      <3>1. UNCHANGED Store!svars
        BY <1>2, <2>3 DEF LoadRefused, LoadFails, card, disk, Store!svars, IInv, FlushOrder
      <3> QED
        BY <3>1
    <2>4. ASSUME NEW s \in Sectors, NEW c \in Contents, WriteSector(s, c)
          PROVE  Store!Next
      <3>1. Store!Write(s, c)
        BY <2>a, <2>4 DEF WriteSector, disk, Store!Write
      <3> QED
        BY <3>1 DEF Store!Next
    <2>5. CASE RenameTmp
      <3>1. Store!Save
        BY <1>2, <2>a, <2>5 DEF RenameTmp, card, Store!Save, IInv, FlushOrder, Flushing
      <3> QED
        BY <3>1 DEF Store!Next
    <2>6. CASE Writeback
      <3>1. Store!Settle
        BY <2>6 DEF Writeback, card, Store!Settle
      <3> QED
        BY <3>1 DEF Store!Next
    <2>7. CASE PowerLoss
      <3>1. Store!PowerLoss
        BY <2>7 DEF PowerLoss, Store!PowerLoss
      <3> QED
        BY <3>1 DEF Store!Next
    <2>8. CASE Quiet
      <3>1. CASE present' = present
        BY <2>8, <3>1 DEF Quiet, Store!svars
      <3>2. CASE present' # present
        <4>1. present' = FALSE
          BY <1>2, <2>8, <3>2, TypeStep DEF Quiet, IInv, TypeOK
        <4>2. Store!Remove
          BY <2>8, <4>1 DEF Quiet, Store!Remove
        <4> QED
          BY <4>2 DEF Store!Next
      <3> QED
        BY <3>1, <3>2
    <2> QED
      BY <1>2, <2>1, <2>2, <2>3, <2>4, <2>5, <2>6, <2>7, <2>8, QuietSteps DEF Next, FlushStep, IInv
  <1> QED
    BY <1>1, <1>2, Inductive, PTL DEF Spec, ImplementsStore, Store!Spec
-----------------------------------------------------------------------------
(* Induction over the natural numbers, for sets.                           *)
LEMMA SetInduction ==
  ASSUME NEW T, 0 \in T, \A n \in T \cap Nat : n + 1 \in T
  PROVE  Nat \subseteq T
<1>. SUFFICES ASSUME Nat \ T # {} PROVE FALSE
  OBVIOUS
<1>1. IsWellFoundedOn(OpToRel(<, Nat), Nat)
  BY NatLessThanWellFounded
<1>2. PICK x \in Nat \ T : \A y \in Nat \ T : ~(<<y, x>> \in OpToRel(<, Nat))
  <2>. HIDE DEF IsWellFoundedOn, OpToRel
  <2>. QED BY <1>1, WFMin
<1>3. x \in Nat /\ x # 0
  OBVIOUS
<1>4. x - 1 \in Nat
  BY <1>3
<1>5. <<x - 1, x>> \in OpToRel(<, Nat)
  BY <1>3, <1>4 DEF OpToRel
<1>6. x - 1 \in T
  BY <1>2, <1>4, <1>5
<1>7. (x - 1) + 1 = x
  BY <1>3
<1>. QED
  BY <1>4, <1>6, <1>7

(* The serial port: what the card has taken in and what the program sent.  *)

(* The running sums behind Checksum.                                       *)
RunningSum(s, f, n) ==
  /\ s \in [5 .. n -> Bytes] /\ s[5] = f[5]
  /\ \A i \in 6 .. n : s[i] = ByteXor(s[i - 1], f[i])

Summed(p) == IF p < WriteSum THEN p ELSE WriteSum

(* A write frame of which the card has taken p bytes.                      *)
WriteTaken(p) ==
  /\ Len(sent) = p
  /\ p = 5 => memcard_sector = sent[5] * BYTES
  /\ p > 5 => memcard_sector = sent[5] * BYTES + sent[6]
  /\ p >= 5 => \E s : RunningSum(s, sent, Summed(p)) /\ memcard_checksum = s[Summed(p)]
  /\ \A i \in 0 .. SECTOR_SIZE - 1 : i < p - 6 => memcard_write[i] = sent[7 + i]
  /\ p > WriteSum =>
       memcard_write_valid = (sent[WriteSum + 1] = memcard_checksum /\ memcard_sector < SECTORS)

(* The card's position counts the bytes since the address byte, as does    *)
(* tx_count; a card that is not selected is at the start.                  *)
Taken(p) ==
  /\ memcard_access /\ tx_count = p
  /\ sent # <<>> /\ sent[1] = CARD
  /\ p = 1 => Len(sent) = 1
  /\ p > 1 => Len(sent) >= 2 /\ sent[2] = memcard_command
  /\ p > 1 /\ memcard_command = WRITE => WriteTaken(p)

SioTypes ==
  /\ memcard_pos \in Nat /\ tx_count \in Nat
  /\ memcard_write \in [0 .. SECTOR_SIZE - 1 -> Bytes]
  /\ sent \in Seq(Bytes)

FrameInv ==
  /\ SioTypes
  /\ ~selected => memcard_pos = 0
  /\ selected /\ ~dropped =>
       /\ memcard_pos = 0 /\ memcard_access => tx_count = 0
       /\ memcard_pos \in 1 .. WriteEnd => Taken(memcard_pos)

LEMMA SioFacts ==
  /\ BYTES \in Nat /\ BYTES > 0 /\ SECTOR_SIZE \in Nat /\ SECTOR_SIZE >= 1
  /\ WriteSum \in Nat /\ WriteSum >= 7 /\ WriteSum = 6 + SECTOR_SIZE
  /\ WriteEnd \in Nat /\ WriteEnd = WriteSum + 3 /\ TX_COUNTS \in Nat /\ TX_COUNTS > WriteEnd + 1
  /\ 0 \in Bytes /\ Bytes \subseteq Nat /\ CARD \in Bytes /\ WRITE \in Bytes
  /\ \A a, b \in Bytes : ByteXor(a, b) \in Bytes
BY SioAssumption DEF WriteSum, WriteEnd

(* There is one running sum, and Checksum is its end.                      *)
LEMMA ChecksumIs ==
  ASSUME NEW f, NEW s, RunningSum(s, f, WriteSum)
  PROVE  Checksum(f) = s[WriteSum]
<1>. DEFINE D == 5 .. WriteSum
            Eq(g) == g = [i \in D |-> IF i = 5 THEN f[5] ELSE ByteXor(g[i - 1], f[i])]
            sum == CHOOSE g : Eq(g)
<1>0. 5 \in D /\ WriteSum \in D /\ WriteSum \in Nat
  BY SioFacts
<1>1. Eq(s)
  <2>1. \A i \in D : s[i] = IF i = 5 THEN f[5] ELSE ByteXor(s[i - 1], f[i])
    BY <1>0 DEF RunningSum
  <2>2. s = [i \in D |-> s[i]]
    BY DEF RunningSum
  <2>. QED
    BY <2>1, <2>2
<1>2. Eq(sum)
  <2>. HIDE DEF Eq
  <2>. QED BY <1>1
<1>3. \A i \in D : sum[i] = IF i = 5 THEN f[5] ELSE ByteXor(sum[i - 1], f[i])
  <2>. HIDE DEF sum, D
  <2>. QED BY <1>2
<1>. HIDE DEF sum
<1>4. Nat \subseteq {n \in Nat : n + 5 \in D => sum[n + 5] = s[n + 5]}
  <2>. DEFINE T == {n \in Nat : n + 5 \in D => sum[n + 5] = s[n + 5]}
  <2>1. 0 \in T
    BY <1>0, <1>3 DEF RunningSum
  <2>2. ASSUME NEW n \in T \cap Nat PROVE n + 1 \in T
    <3>. SUFFICES ASSUME (n + 1) + 5 \in D PROVE sum[(n + 1) + 5] = s[(n + 1) + 5]
      OBVIOUS
    <3>1. n + 5 \in D /\ n + 6 \in D /\ (n + 6) - 1 = n + 5 /\ n + 6 # 5 /\ (n + 1) + 5 = n + 6
      BY <1>0
    <3>2. sum[n + 5] = s[n + 5]
      BY <3>1
    <3>3. sum[n + 6] = ByteXor(sum[n + 5], f[n + 6])
      BY <1>3, <3>1
    <3>4. n + 6 \in 6 .. WriteSum
      BY <1>0, <3>1
    <3>5. s[n + 6] = ByteXor(s[n + 5], f[n + 6])
      BY <3>1, <3>4 DEF RunningSum
    <3>. QED
      BY <3>1, <3>2, <3>3, <3>5
  <2>. HIDE DEF T
  <2>3. Nat \subseteq T
    BY <2>1, <2>2, SetInduction
  <2>. QED
    BY <2>3 DEF T
<1>5. WriteSum - 5 \in Nat /\ (WriteSum - 5) + 5 = WriteSum
  BY SioFacts
<1>6. sum[WriteSum] = s[WriteSum]
  BY <1>0, <1>4, <1>5
<1>7. Checksum(f) = sum[WriteSum]
  BY DEF Checksum, sum
<1>. QED
  BY <1>6, <1>7

(* A byte that extends the frame extends the running sum.                  *)
LEMMA SumExtends ==
  ASSUME NEW f \in Seq(Bytes), NEW p \in Nat, 5 <= p, p < WriteSum, Len(f) = p, NEW b \in Bytes,
         NEW s, RunningSum(s, f, p)
  PROVE  \E t : RunningSum(t, Append(f, b), p + 1) /\ t[p + 1] = ByteXor(s[p], b)
<1>. DEFINE g == Append(f, b)
            t == [i \in 5 .. p + 1 |-> IF i = p + 1 THEN ByteXor(s[p], b) ELSE s[i]]
<1>1. g[p + 1] = b /\ \A i \in 1 .. p : g[i] = f[i]
  OBVIOUS
<1>2. s \in [5 .. p -> Bytes] /\ s[p] \in Bytes
  BY DEF RunningSum
<1>3. t \in [5 .. p + 1 -> Bytes]
  <2>1. ByteXor(s[p], b) \in Bytes
    BY <1>2, SioFacts
  <2>2. \A i \in 5 .. p + 1 : i # p + 1 => s[i] \in Bytes
    BY <1>2
  <2>. QED
    BY <2>1, <2>2
<1>4. t[5] = g[5]
  BY <1>1 DEF RunningSum
<1>5. ASSUME NEW i \in 6 .. p + 1 PROVE t[i] = ByteXor(t[i - 1], g[i])
  <2>1. CASE i = p + 1
    <3>1. i - 1 = p /\ p \in 5 .. p + 1 /\ p # p + 1
      BY <2>1
    <3>. QED BY <1>1, <2>1, <3>1
  <2>2. CASE i # p + 1
    <3>1. i \in 6 .. p /\ i - 1 \in 5 .. p /\ i - 1 # p + 1 /\ i \in 1 .. p /\ i - 1 \in 5 .. p + 1 /\ i \in 5 .. p + 1
      BY <2>2
    <3>. QED BY <1>1, <2>2, <3>1 DEF RunningSum
  <2>. QED BY <2>1, <2>2
<1>6. t[p + 1] = ByteXor(s[p], b)
  OBVIOUS
<1>. HIDE DEF t, g
<1>7. RunningSum(t, g, p + 1)
  BY <1>3, <1>4, <1>5 DEF RunningSum
<1>8. RunningSum(t, Append(f, b), p + 1) /\ t[p + 1] = ByteXor(s[p], b)
  BY <1>6, <1>7, Zenon DEF g
<1>. QED
  BY <1>8, Zenon

(* The bytes beyond the checksum do not change it.                         *)
LEMMA SumStays ==
  ASSUME NEW f \in Seq(Bytes), NEW b \in Bytes, NEW n \in Nat, 5 <= n, n <= Len(f), NEW s, RunningSum(s, f, n)
  PROVE  RunningSum(s, Append(f, b), n)
<1>1. \A i \in 1 .. n : Append(f, b)[i] = f[i]
  OBVIOUS
<1>2. PICK g : g = Append(f, b) /\ \A i \in 1 .. n : g[i] = f[i]
  BY <1>1
<1>3. s \in [5 .. n -> Bytes] /\ s[5] = f[5] /\ \A i \in 6 .. n : s[i] = ByteXor(s[i - 1], f[i])
  BY Zenon DEF RunningSum
<1>4. s[5] = g[5]
  BY <1>2, <1>3
<1>5. ASSUME NEW i \in 6 .. n PROVE s[i] = ByteXor(s[i - 1], g[i])
  <2>1. i \in 1 .. n
    OBVIOUS
  <2>. QED
    BY <1>2, <1>3, <2>1, Zenon
<1>6. RunningSum(s, g, n)
  BY <1>3, <1>4, <1>5, Zenon DEF RunningSum
<1>. QED
  BY <1>2, <1>6, Zenon

(* memcard_response, field by field.                                       *)
Takes(p, b, r) ==
  /\ r.command = IF p = 1 THEN b ELSE memcard_command
  /\ p = 4 => r.sector = b * BYTES /\ r.checksum = b
  /\ p = 5 => /\ r.sector = (memcard_sector \div BYTES) * BYTES + b
              /\ r.checksum = ByteXor(memcard_checksum, b)
  /\ p \notin {4, 5} => r.sector = memcard_sector
  /\ memcard_command = WRITE /\ p \in 6 .. WriteSum - 1 =>
       /\ r.buffer = [memcard_write EXCEPT ![p - 6] = b]
       /\ r.checksum = ByteXor(memcard_checksum, b)
  /\ ~(memcard_command = WRITE /\ p \in 6 .. WriteSum - 1) => r.buffer = memcard_write
  /\ p \notin 4 .. WriteSum - 1 => r.checksum = memcard_checksum
  /\ memcard_command = WRITE /\ p = WriteSum =>
       r.valid = (b = memcard_checksum /\ memcard_sector < SECTORS)
  /\ p # WriteSum => r.valid = memcard_write_valid

LEMMA CardTakesFields ==
  ASSUME NEW p \in Nat, NEW b \in Bytes
  PROVE  Takes(p, b, CardTakes(p, b))
<1>. USE DEF Takes
<1>0. WriteSum >= 7 /\ WriteSum \in Nat
  BY SioFacts
<1>1. CASE p = 1
  BY <1>0, <1>1 DEF CardTakes, Regs
<1>2. CASE p = 4
  BY <1>0, <1>2 DEF CardTakes, Regs
<1>3. CASE p = 5
  BY <1>0, <1>3 DEF CardTakes, Regs
<1>4. CASE p \in 6 .. WriteSum - 1
  BY <1>0, <1>4 DEF CardTakes, Regs
<1>5. CASE p = WriteSum
  BY <1>0, <1>5 DEF CardTakes, Regs
<1>6. CASE p \notin {1, 4, 5, WriteSum} /\ p \notin 6 .. WriteSum - 1
  BY <1>0, <1>6 DEF CardTakes, Regs
<1>. QED
  BY <1>1, <1>2, <1>3, <1>4, <1>5, <1>6

(* What a byte added to a frame leaves as it was.                          *)
LEMMA Appended ==
  ASSUME NEW s \in Seq(Bytes), NEW b \in Bytes
  PROVE  /\ Len(Append(s, b)) = Len(s) + 1
         /\ \A i \in 1 .. Len(s) : Append(s, b)[i] = s[i]
         /\ Append(s, b)[Len(s) + 1] = b
BY AppendProperties

(* The second byte of a frame that held one.                               *)
LEMMA SecondByte ==
  ASSUME NEW s \in Seq(Bytes), Len(s) = 1, NEW b \in Bytes
  PROVE  Len(Append(s, b)) = 2 /\ Append(s, b)[1] = s[1] /\ Append(s, b)[2] = b
<1>1. PICK t : t = Append(s, b)
  OBVIOUS
<1>2. Len(t) = Len(s) + 1 /\ (\A i \in 1 .. Len(s) : t[i] = s[i]) /\ t[Len(s) + 1] = b
  BY ONLY <1>1, Appended, s \in Seq(Bytes), b \in Bytes, Zenon
<1>3. Len(t) = 2 /\ t[1] = s[1] /\ t[2] = b
  BY <1>2
<1>. QED
  BY <1>1, <1>3, Zenon

(* The number of a sector, byte by byte.                                   *)
LEMMA SectorNumber ==
  ASSUME NEW x \in Nat, NEW n \in Nat, n > 0
  PROVE  ((x * n) \div n) * n = x * n
<1>1. (x * n) \div n = x
  OBVIOUS
<1>. QED
  BY <1>1

(* The program's history of the frame, while the card listens.             *)
LEMMA SentGrows ==
  ASSUME FrameInv, selected, ~dropped, memcard_pos \in 1 .. WriteEnd, NEW b \in Bytes
  PROVE  /\ memcard_pos > 1 /\ memcard_command # WRITE => SentAfter(b) = sent
         /\ memcard_pos = 1 => SentAfter(b) = Append(sent, b)
         /\ memcard_pos > 1 /\ memcard_command = WRITE =>
              SentAfter(b) =
                Append(sent, IF memcard_pos \in {2, 3, WriteSum + 1, WriteSum + 2, WriteEnd} THEN 0 ELSE b)
<1>1. Taken(memcard_pos) /\ sent \in Seq(Bytes)
  BY DEF FrameInv, SioTypes
<1>2. tx_count # 0 /\ sent # <<>> /\ WriteSum >= 7 /\ WriteSum \in Nat /\ WriteEnd \in Nat
  BY <1>1, SioFacts DEF Taken
<1>3. CASE memcard_pos = 1
  <2>1. Len(sent) = 1
    BY <1>1, <1>3 DEF Taken
  <2>2. ~(dropped \/ (tx_count = 0 /\ b # CARD)) /\ tx_count # 0
    BY <1>2
  <2>3. ~(sent = <<>> \/ Len(sent) > WriteEnd \/ (Len(sent) > 1 /\ sent[2] # WRITE))
    BY <1>2, <2>1, SioFacts
  <2>4. SentAfter(b) =
          Append(sent, IF Len(sent) \in {2, 3, WriteSum + 1, WriteSum + 2, WriteEnd} THEN 0 ELSE b)
    BY <2>2, <2>3, Zenon DEF SentAfter
  <2>5. Len(sent) \notin {2, 3, WriteSum + 1, WriteSum + 2, WriteEnd}
    BY <2>1, SioFacts
  <2>6. SentAfter(b) = Append(sent, b)
    BY <2>4, <2>5, Zenon
  <2>. QED
    BY <1>3, <2>6
<1>4. CASE memcard_pos > 1 /\ memcard_command # WRITE
  <2>1. Len(sent) > 1 /\ sent[2] # WRITE
    BY <1>1, <1>4 DEF Taken
  <2>. QED
    BY <1>2, <1>4, <2>1 DEF SentAfter
<1>5. CASE memcard_pos > 1 /\ memcard_command = WRITE
  <2>1. Len(sent) = memcard_pos /\ sent[2] = WRITE /\ memcard_pos <= WriteEnd
    BY <1>1, <1>5 DEF Taken, WriteTaken
  <2>2. ~(dropped \/ (tx_count = 0 /\ b # CARD)) /\ tx_count # 0
    BY <1>2
  <2>3. ~(sent = <<>> \/ Len(sent) > WriteEnd \/ (Len(sent) > 1 /\ sent[2] # WRITE))
    BY <1>2, <2>1
  <2>4. SentAfter(b) =
          Append(sent, IF Len(sent) \in {2, 3, WriteSum + 1, WriteSum + 2, WriteEnd} THEN 0 ELSE b)
    BY <2>2, <2>3, Zenon DEF SentAfter
  <2>5. SentAfter(b) =
          Append(sent, IF memcard_pos \in {2, 3, WriteSum + 1, WriteSum + 2, WriteEnd} THEN 0 ELSE b)
    BY <2>1, <2>4, Zenon
  <2>. QED
    BY <1>5, <2>5
<1>. QED
  BY <1>3, <1>4, <1>5


(* A byte that the card takes.                                             *)
LEMMA CardByte ==
  ASSUME FrameInv, NEW b \in Bytes, TxCard(b)
  PROVE  FrameInv'
<1>. DEFINE p == memcard_pos
            r == CardTakes(p, b)
<1>1. /\ selected' = selected /\ dropped' = dropped /\ selected
      /\ memcard_access' = TRUE /\ memcard_pos' = p + 1 /\ tx_count' = (tx_count + 1) % TX_COUNTS
      /\ memcard_command' = r.command /\ memcard_sector' = r.sector
      /\ memcard_checksum' = r.checksum /\ memcard_write' = r.buffer
      /\ memcard_write_valid' = r.valid /\ sent' = SentAfter(b) /\ CardAccess(b)
  BY DEF TxCard, port
<1>2. p \in Nat /\ tx_count \in Nat /\ sent \in Seq(Bytes) /\ memcard_write \in [0 .. SECTOR_SIZE - 1 -> Bytes]
  BY DEF FrameInv, SioTypes
<1>3. Takes(p, b, r)
  BY <1>2, CardTakesFields
<1>. HIDE DEF r
<1>4. SentAfter(b) \in Seq(Bytes)
  <2>1. 0 \in Bytes
    BY SioFacts
  <2>2. \/ SentAfter(b) \in {<<>>, <<b>>, sent}
        \/ \E x \in {0, b} : SentAfter(b) = Append(sent, x)
    BY DEF SentAfter
  <2>3. <<>> \in Seq(Bytes) /\ <<b>> \in Seq(Bytes) /\ Append(sent, b) \in Seq(Bytes) /\ Append(sent, 0) \in Seq(Bytes)
    BY <1>2, <2>1
  <2>4. sent \in Seq(Bytes)
    BY <1>2
  <2>. QED
    BY <2>2, <2>3, <2>4, Zenon
<1>5. SioTypes'
  <2>1. (tx_count + 1) % TX_COUNTS \in Nat
    BY <1>2, SioFacts
  <2>2. r.buffer \in [0 .. SECTOR_SIZE - 1 -> Bytes]
    BY <1>2, <1>3 DEF Takes
  <2>. QED
    BY <1>1, <1>2, <1>4, <2>1, <2>2 DEF SioTypes
<1>6. ASSUME ~dropped, p = 0 PROVE Taken(memcard_pos)'
  <2>1. tx_count = 0 /\ b = CARD
    BY <1>1, <1>2, <1>6 DEF FrameInv, CardAccess
  <2>2. sent' = <<b>>
    BY <1>1, <1>6, <2>1, Zenon DEF SentAfter
  <2>3. tx_count' = 1
    BY <1>1, <2>1, SioFacts
  <2>4. memcard_pos' = 1 /\ memcard_access' = TRUE
    BY <1>1, <1>6
  <2>5. sent' # <<>> /\ sent'[1] = CARD /\ Len(sent') = 1
    BY <2>1, <2>2
  <2>. QED
    BY <2>3, <2>4, <2>5 DEF Taken
<1>7. ASSUME ~dropped, p \in 1 .. WriteEnd, p + 1 <= WriteEnd PROVE Taken(memcard_pos)'
  <2>1. Taken(p)
    BY <1>1, <1>7 DEF FrameInv
  <2>2. /\ memcard_access /\ tx_count = p
        /\ sent # <<>> /\ sent[1] = CARD
        /\ p = 1 => Len(sent) = 1
        /\ p > 1 => Len(sent) >= 2 /\ sent[2] = memcard_command
        /\ p > 1 /\ memcard_command = WRITE => WriteTaken(p)
    BY <2>1 DEF Taken
  <2>3. /\ p > 1 /\ memcard_command # WRITE => sent' = sent
        /\ p = 1 => sent' = Append(sent, b)
        /\ p > 1 /\ memcard_command = WRITE =>
             sent' = Append(sent, IF p \in {2, 3, WriteSum + 1, WriteSum + 2, WriteEnd} THEN 0 ELSE b)
    BY <1>1, <1>7, SentGrows
  <2>4. tx_count' = p + 1
    <3>1. tx_count' = (tx_count + 1) % TX_COUNTS /\ tx_count = p
      BY <1>1, <2>2
    <3>2. p + 1 \in Nat /\ p + 1 <= WriteEnd
      BY <1>2, <1>7
    <3>3. (p + 1) % TX_COUNTS = p + 1
      BY <3>2, SioFacts
    <3>. QED
      BY <3>1, <3>3
  <2>5. CASE p = 1
    <3>0. sent \in Seq(Bytes) /\ Len(sent) = 1 /\ sent[1] = CARD /\ sent' = Append(sent, b)
      BY <1>2, <2>2, <2>3, <2>5, Zenon
    <3>1. Len(sent') = 2 /\ sent' # <<>> /\ sent'[1] = CARD /\ sent'[2] = b
      <4>1. PICK s, t : s = sent /\ t = sent'
        OBVIOUS
      <4>2. s \in Seq(Bytes) /\ Len(s) = 1 /\ s[1] = CARD /\ t = Append(s, b)
        BY <3>0, <4>1, Zenon
      <4>3. Len(t) = 2 /\ t[1] = CARD /\ t[2] = b
        BY <4>2, SecondByte
      <4>4. t # <<>>
        BY <4>3
      <4>. QED
        BY <4>1, <4>3, <4>4, Zenon
    <3>2. memcard_pos' = 2 /\ memcard_command' = b
      BY <1>1, <1>3, <2>5 DEF Takes
    <3>3. (WriteTaken(memcard_pos))'
      BY <3>1, <3>2, SioFacts DEF WriteTaken
    <3>. QED
      BY <1>1, <2>4, <2>5, <3>1, <3>2, <3>3 DEF Taken
  <2>6. CASE p > 1 /\ memcard_command # WRITE
    <3>1. sent' = sent /\ memcard_command' = memcard_command
      BY <1>1, <1>3, <2>3, <2>6 DEF Takes
    <3>. QED
      BY <1>1, <1>2, <2>2, <2>4, <2>6, <3>1 DEF Taken
  <2>7. CASE p > 1 /\ memcard_command = WRITE
    <3>1. WriteTaken(p) /\ Len(sent) = p
      BY <2>2, <2>7 DEF WriteTaken
    <3>2. PICK x \in Bytes : /\ sent' = Append(sent, x)
                             /\ p \notin {2, 3, WriteSum + 1, WriteSum + 2, WriteEnd} => x = b
      BY <2>3, <2>7, SioFacts
    <3>3. /\ Len(sent') = p + 1 /\ sent'[p + 1] = x
          /\ \A i \in 1 .. p : sent'[i] = sent[i]
      BY <1>2, <3>1, <3>2
    <3>4. memcard_command' = WRITE /\ memcard_pos' = p + 1
      BY <1>1, <1>3, <2>7 DEF Takes
    <3>5. (WriteTaken(memcard_pos))'
      <4>1. /\ p = 5 => memcard_sector = sent[5] * BYTES
            /\ p > 5 => memcard_sector = sent[5] * BYTES + sent[6]
            /\ \A i \in 0 .. SECTOR_SIZE - 1 : i < p - 6 => memcard_write[i] = sent[7 + i]
            /\ p > WriteSum =>
                 memcard_write_valid = (sent[WriteSum + 1] = memcard_checksum /\ memcard_sector < SECTORS)
        BY <3>1 DEF WriteTaken
      <4>2. p >= 5 => \E s : RunningSum(s, sent, Summed(p)) /\ memcard_checksum = s[Summed(p)]
        BY <3>1 DEF WriteTaken
      <4>3. p + 1 = 5 => memcard_sector' = sent'[5] * BYTES
        <5>. SUFFICES ASSUME p = 4 PROVE memcard_sector' = sent'[5] * BYTES
          BY <1>2
        <5>1. r.sector = b * BYTES /\ x = b
          BY <1>3, <3>2, SioFacts DEF Takes
        <5>. QED
          BY <1>1, <3>3, <5>1
      <4>4. p + 1 > 5 => memcard_sector' = sent'[5] * BYTES + sent'[6]
        <5>1. CASE p = 5
          <6>0. x = b
            BY <3>2, <5>1, SioFacts
          <6>1. r.sector = (memcard_sector \div BYTES) * BYTES + b
            BY <1>3, <5>1 DEF Takes
          <6>2. sent[5] \in Nat
            <7>1. sent \in Seq(Bytes) /\ Len(sent) = 5
              BY <1>2, <3>1, <5>1
            <7>2. 5 \in 1 .. Len(sent)
              BY <7>1
            <7>3. sent[5] \in Bytes
              BY <7>1, <7>2, ElementOfSeq, Zenon
            <7>. QED
              BY <7>3, SioFacts
          <6>3. (memcard_sector \div BYTES) * BYTES = sent[5] * BYTES
            BY <4>1, <5>1, <6>2, SectorNumber, SioFacts
          <6>4. sent'[5] = sent[5] /\ sent'[6] = b
            BY <3>3, <5>1, <6>0
          <6>. QED
            BY <1>1, <6>1, <6>3, <6>4
        <5>2. CASE p > 5
          <6>1. r.sector = memcard_sector
            BY <1>3, <5>2 DEF Takes
          <6>2. sent'[5] = sent[5] /\ sent'[6] = sent[6]
            BY <1>2, <3>3, <5>2
          <6>. QED
            BY <1>1, <4>1, <5>2, <6>1, <6>2
        <5>. QED
          BY <1>2, <5>1, <5>2
      <4>5. p + 1 >= 5 => \E s : RunningSum(s, sent', Summed(p + 1)) /\ memcard_checksum' = s[Summed(p + 1)]
        <5>1. CASE p = 4
          <6>1. r.checksum = b /\ x = b /\ sent'[5] = b /\ Summed(p + 1) = 5
            BY <1>3, <3>2, <3>3, <5>1, SioFacts DEF Takes, Summed
          <6>2. RunningSum([i \in 5 .. 5 |-> b], sent', 5)
            BY <6>1 DEF RunningSum
          <6>3. [i \in 5 .. 5 |-> b][5] = b
            OBVIOUS
          <6>. QED
            BY <1>1, <6>1, <6>2, <6>3
        <5>2. CASE p \in 5 .. WriteSum - 1
          <6>1. Summed(p) = p /\ Summed(p + 1) = p + 1 /\ x = b
            BY <1>2, <3>2, <5>2, SioFacts DEF Summed
          <6>2. PICK s : RunningSum(s, sent, p) /\ memcard_checksum = s[p]
            BY <4>2, <5>2, <6>1
          <6>3. r.checksum = ByteXor(s[p], b)
            BY <1>2, <1>3, <2>7, <5>2, <6>2 DEF Takes
          <6>4. PICK t : RunningSum(t, Append(sent, b), p + 1) /\ t[p + 1] = ByteXor(s[p], b)
            <7>1. p \in Nat /\ 5 <= p /\ p < WriteSum /\ Len(sent) = p
              BY <1>2, <3>1, <5>2, SioFacts
            <7>. QED
              BY <1>2, <6>2, <7>1, SumExtends
          <6>. QED
            BY <1>1, <3>2, <6>1, <6>3, <6>4
        <5>3. CASE p >= WriteSum
          <6>1. Summed(p) = WriteSum /\ Summed(p + 1) = WriteSum /\ p >= 5 /\ WriteSum \in Nat /\ 5 <= WriteSum
            BY <1>2, <5>3, SioFacts DEF Summed
          <6>2. PICK s : RunningSum(s, sent, WriteSum) /\ memcard_checksum = s[WriteSum]
            BY <4>2, <6>1
          <6>3. RunningSum(s, Append(sent, x), WriteSum)
            BY <1>2, <3>1, <5>3, <6>1, <6>2, SumStays
          <6>4. r.checksum = memcard_checksum
            BY <1>3, <5>3, <6>1 DEF Takes
          <6>. QED
            BY <1>1, <3>2, <6>1, <6>2, <6>3, <6>4
        <5>. QED
          BY <1>2, <5>1, <5>2, <5>3, SioFacts
      <4>6. ASSUME NEW i \in 0 .. SECTOR_SIZE - 1, i < (p + 1) - 6 PROVE memcard_write'[i] = sent'[7 + i]
        <5>1. CASE i < p - 6
          <6>1. r.buffer[i] = memcard_write[i]
            <7>1. r.buffer = memcard_write \/ r.buffer = [memcard_write EXCEPT ![p - 6] = b]
              BY <1>3 DEF Takes
            <7>2. i # p - 6
              BY <1>2, <5>1
            <7>. QED
              BY <1>2, <7>1, <7>2, Zenon
          <6>2. sent'[7 + i] = sent[7 + i]
            <7>1. 7 + i \in 1 .. p
              BY <1>2, <5>1
            <7>. QED
              BY <3>3, <7>1, Zenon
          <6>3. memcard_write[i] = sent[7 + i]
            BY <4>1, <5>1, Zenon
          <6>4. memcard_write' = r.buffer
            BY <1>1, Zenon
          <6>. QED
            BY <6>1, <6>2, <6>3, <6>4, Zenon
        <5>2. CASE i = p - 6
          <6>1. p \in 6 .. WriteSum - 1 /\ x = b /\ 7 + i = p + 1
            BY <1>2, <3>2, <5>2, SioFacts
          <6>2. r.buffer[i] = b
            BY <1>2, <1>3, <2>7, <5>2, <6>1 DEF Takes
          <6>. QED
            BY <1>1, <3>3, <6>1, <6>2
        <5>. QED
          BY <1>2, <4>6, <5>1, <5>2
      <4>7. p + 1 > WriteSum =>
              memcard_write_valid' = (sent'[WriteSum + 1] = memcard_checksum' /\ memcard_sector' < SECTORS)
        <5>1. CASE p = WriteSum
          <6>0. x = b
            BY <3>2, <5>1, SioFacts
          <6>1. /\ r.valid = (b = memcard_checksum /\ memcard_sector < SECTORS)
                /\ r.checksum = memcard_checksum /\ r.sector = memcard_sector
            <7>1. p \notin {4, 5} /\ p \notin 4 .. WriteSum - 1
              BY <5>1, SioFacts
            <7>2. Takes(p, b, r) /\ memcard_command = WRITE /\ p = WriteSum
              BY <1>3, <2>7, <5>1
            <7>3. r.checksum = memcard_checksum
              BY <7>1, <7>2, Zenon DEF Takes
            <7>4. r.sector = memcard_sector
              BY <7>1, <7>2, Zenon DEF Takes
            <7>5. r.valid = (b = memcard_checksum /\ memcard_sector < SECTORS)
              BY <7>2, Zenon DEF Takes
            <7>. QED
              BY <7>3, <7>4, <7>5
          <6>2. sent'[WriteSum + 1] = b
            BY <3>3, <5>1, <6>0
          <6>. QED
            BY <1>1, <6>1, <6>2
        <5>2. CASE p > WriteSum
          <6>1. r.valid = memcard_write_valid /\ r.checksum = memcard_checksum /\ r.sector = memcard_sector
            BY <1>2, <1>3, <5>2, SioFacts DEF Takes
          <6>2. sent'[WriteSum + 1] = sent[WriteSum + 1]
            BY <1>2, <3>3, <5>2, SioFacts
          <6>. QED
            BY <1>1, <4>1, <5>2, <6>1, <6>2
        <5>. QED
          BY <1>2, <5>1, <5>2, SioFacts
      <4>. QED
        <5>. DEFINE q == p + 1
        <5>1. memcard_pos' = q /\ Len(sent') = q
          BY <1>1, <3>3
        <5>2. q = 5 => memcard_sector' = sent'[5] * BYTES
          BY <4>3
        <5>3. q > 5 => memcard_sector' = sent'[5] * BYTES + sent'[6]
          BY <4>4
        <5>4. q >= 5 => \E s : RunningSum(s, sent', Summed(q)) /\ memcard_checksum' = s[Summed(q)]
          BY <4>5
        <5>5. \A i \in 0 .. SECTOR_SIZE - 1 : i < q - 6 => memcard_write'[i] = sent'[7 + i]
          BY <4>6
        <5>6. q > WriteSum =>
                memcard_write_valid' = (sent'[WriteSum + 1] = memcard_checksum' /\ memcard_sector' < SECTORS)
          BY <4>7
        <5>. HIDE DEF q
        <5>. QED
          BY <5>1, <5>2, <5>3, <5>4, <5>5, <5>6, Zenon DEF WriteTaken
    <3>. QED
      BY <1>1, <1>2, <2>2, <2>4, <2>7, <3>1, <3>3, <3>4, <3>5 DEF Taken
  <2>. QED
    BY <1>7, <2>5, <2>6, <2>7
<1>8. CASE ~dropped /\ p \notin 0 .. WriteEnd - 1
  BY <1>1, <1>2, <1>5, <1>8, SioFacts DEF FrameInv
<1>9. CASE dropped
  BY <1>1, <1>2, <1>5, <1>9 DEF FrameInv
<1>10. CASE ~dropped /\ p \in 0 .. WriteEnd - 1
  <2>1. (Taken(memcard_pos))'
    <3>1. CASE p = 0
      BY <1>6, <1>10, <3>1
    <3>2. CASE p # 0
      BY <1>2, <1>7, <1>10, <3>2, SioFacts
    <3>. QED
      BY <3>1, <3>2
  <2>. QED
    BY <1>1, <1>2, <1>5, <2>1 DEF FrameInv
<1>. QED
  BY <1>2, <1>8, <1>9, <1>10

(* A byte that the card does not take.                                     *)
LEMMA OtherByte ==
  ASSUME FrameInv, NEW b \in Bytes, TxFull(b) \/ TxPad(b) \/ TxNobody(b)
  PROVE  FrameInv'
<1>1. /\ UNCHANGED <<selected, cardreg>>
      /\ memcard_access' = CardAccess(b) \/ selected' # TRUE
      /\ tx_count' = (tx_count + 1) % TX_COUNTS
      /\ \/ dropped' = TRUE /\ sent' = <<>>
         \/ ~(selected /\ CardAccess(b)) /\ dropped' = dropped /\ sent' = SentAfter(b)
  BY DEF TxFull, TxPad, TxNobody, port
<1>2. memcard_access' = CardAccess(b)
  BY DEF TxFull, TxPad, TxNobody
<1>3. memcard_pos \in Nat /\ tx_count \in Nat /\ sent \in Seq(Bytes)
  BY DEF FrameInv, SioTypes
<1>4. sent' \in Seq(Bytes)
  <2>1. 0 \in Bytes
    BY SioFacts
  <2>2. \/ SentAfter(b) \in {<<>>, <<b>>, sent}
        \/ \E x \in {0, b} : SentAfter(b) = Append(sent, x)
    BY DEF SentAfter
  <2>3. <<>> \in Seq(Bytes) /\ <<b>> \in Seq(Bytes) /\ Append(sent, b) \in Seq(Bytes) /\ Append(sent, 0) \in Seq(Bytes)
    BY <1>3, <2>1
  <2>. QED
    BY <1>1, <1>3, <2>2, <2>3
<1>5. SioTypes'
  <2>1. (tx_count + 1) % TX_COUNTS \in Nat
    BY <1>3, SioFacts
  <2>. QED
    BY <1>1, <1>3, <1>4, <2>1 DEF FrameInv, SioTypes, cardreg
<1>6. ~selected' => memcard_pos' = 0
  BY <1>1 DEF FrameInv, cardreg
<1>7. CASE dropped'
  BY <1>5, <1>6, <1>7 DEF FrameInv
<1>8. CASE ~selected'
  BY <1>5, <1>6, <1>8 DEF FrameInv
<1>9. CASE selected' /\ ~dropped'
  <2>1. selected /\ ~dropped /\ ~CardAccess(b) /\ memcard_pos' = memcard_pos
    BY <1>1, <1>9 DEF cardreg
  <2>2. ~memcard_access'
    BY <1>2, <2>1
  <2>3. memcard_pos \notin 1 .. WriteEnd
    <3>1. SUFFICES ASSUME memcard_pos \in 1 .. WriteEnd PROVE FALSE
      OBVIOUS
    <3>2. memcard_access /\ tx_count = memcard_pos
      BY <2>1, <3>1 DEF FrameInv, Taken
    <3>. QED
      BY <2>1, <3>1, <3>2, SioFacts DEF CardAccess
  <2>. QED
    BY <1>5, <1>6, <2>1, <2>2, <2>3 DEF FrameInv
<1>. QED
  BY <1>7, <1>8, <1>9

(* The steps that exchange no byte.                                        *)
Idle ==
  \/ Receive \/ ReadStat \/ WriteReset \/ Acknowledge \/ ClearIStat
  \/ \E a \in BOOLEAN : Deselect(a) \/ \E s \in BOOLEAN : Select(a, s)
  \/ \E c \in Slices : SioStep(c)
  \/ UNCHANGED sio_vars

LEMMA IdleStep ==
  ASSUME Idle
  PROVE  /\ FrameInv => FrameInv'
         /\ commit' \in {commit, NoCommit}
<1>. DEFINE Same == UNCHANGED <<port, tx_count, frame, cardreg, sio_hist>>
            Fresh == /\ tx_count' = 0 /\ sent' = <<>> /\ memcard_write' = memcard_write /\ commit' = NoCommit
                     /\ ~memcard_access'
                     /\ \/ memcard_pos' = 0
                        \/ ~selected /\ memcard_pos' = memcard_pos
<1>1. ASSUME Same PROVE FrameInv => FrameInv'
  BY <1>1 DEF FrameInv, SioTypes, Taken, WriteTaken, port, frame, cardreg, sio_hist
<1>2. ASSUME Fresh PROVE FrameInv => FrameInv'
  <2>. SUFFICES ASSUME FrameInv PROVE FrameInv'
    OBVIOUS
  <2>1. memcard_pos' = 0
    BY <1>2 DEF FrameInv
  <2>2. <<>> \in Seq(Bytes)
    OBVIOUS
  <2>. QED
    BY <1>2, <2>1, <2>2 DEF FrameInv, SioTypes
<1>3. ASSUME Same PROVE commit' = commit
  BY <1>3 DEF sio_hist
<1>4. ASSUME Receive \/ ReadStat \/ Acknowledge \/ ClearIStat PROVE Same
  BY <1>4 DEF Receive, ReadStat, Acknowledge, ClearIStat
<1>5. ASSUME WriteReset PROVE Fresh
  BY <1>5 DEF WriteReset, ResetTransaction
<1>6. ASSUME NEW a \in BOOLEAN, Deselect(a) PROVE Same \/ Fresh
  BY <1>6 DEF Deselect, ResetTransaction
<1>7. ASSUME NEW a \in BOOLEAN, NEW s \in BOOLEAN, Select(a, s)
      PROVE  /\ FrameInv => FrameInv'
             /\ commit' \in {commit, NoCommit}
  <2>1. CASE selected
    <3>1. /\ UNCHANGED <<tx_count, frame, cardreg, sio_hist>>
          /\ selected' = TRUE
      BY <1>7, <2>1 DEF Select
    <3>2. FrameInv => FrameInv'
      BY <2>1, <3>1 DEF FrameInv, SioTypes, Taken, WriteTaken, frame, cardreg, sio_hist
    <3>. QED
      BY <3>1, <3>2 DEF sio_hist
  <2>2. CASE ~selected
    <3>1. Fresh
      BY <1>7, <2>2 DEF Select, cardreg
    <3>. QED
      BY <1>2, <3>1
  <2>. QED
    BY <2>1, <2>2
<1>8. ASSUME NEW c \in Slices, SioStep(c) PROVE Same
  BY <1>8 DEF SioStep
<1>9. ASSUME UNCHANGED sio_vars PROVE Same
  BY <1>9 DEF sio_vars
<1>10. ASSUME Same \/ Fresh PROVE (FrameInv => FrameInv') /\ commit' \in {commit, NoCommit}
  BY <1>1, <1>2, <1>3, <1>10
<1>. HIDE DEF Same, Fresh
<1>. QED
  BY <1>4, <1>5, <1>6, <1>7, <1>8, <1>9, <1>10 DEF Idle

(* The last byte of a write frame.                                         *)
LEMMA CommitStep ==
  ASSUME FrameInv, NEW b \in Bytes, TxCard(b), commit' \notin {commit, NoCommit}, ~dropped'
  PROVE  Intact(sent', commit')
<1>1. /\ Commits(memcard_pos) /\ commit' = <<memcard_sector, memcard_write>>
      /\ selected /\ ~dropped /\ sent' = SentAfter(b)
  BY DEF TxCard, port
<1>2. memcard_command = WRITE /\ memcard_pos = WriteEnd /\ memcard_write_valid
  BY <1>1 DEF Commits
<1>3. memcard_pos \in 1 .. WriteEnd /\ memcard_pos > 1 /\ sent \in Seq(Bytes) /\ 0 \in Bytes
  BY <1>2, SioFacts DEF FrameInv, SioTypes
<1>4. Taken(memcard_pos)
  BY <1>1, <1>3 DEF FrameInv
<1>5. sent[1] = CARD /\ sent[2] = WRITE /\ WriteTaken(WriteEnd)
  BY <1>2, <1>3, <1>4 DEF Taken
<1>6. sent' = Append(sent, 0)
  BY <1>1, <1>2, <1>3, SentGrows
<1>7. /\ Len(sent) = WriteEnd
      /\ memcard_sector = sent[5] * BYTES + sent[6]
      /\ \A i \in 0 .. SECTOR_SIZE - 1 : memcard_write[i] = sent[7 + i]
      /\ memcard_write_valid = (sent[WriteSum + 1] = memcard_checksum /\ memcard_sector < SECTORS)
  <2>1. WriteEnd > 5 /\ WriteEnd > WriteSum /\ SECTOR_SIZE - 1 < WriteEnd - 6
    BY SioFacts
  <2>2. /\ Len(sent) = WriteEnd
        /\ WriteEnd > 5 => memcard_sector = sent[5] * BYTES + sent[6]
        /\ \A i \in 0 .. SECTOR_SIZE - 1 : i < WriteEnd - 6 => memcard_write[i] = sent[7 + i]
        /\ WriteEnd > WriteSum =>
             memcard_write_valid = (sent[WriteSum + 1] = memcard_checksum /\ memcard_sector < SECTORS)
    BY <1>5, Zenon DEF WriteTaken
  <2>3. ASSUME NEW i \in 0 .. SECTOR_SIZE - 1 PROVE memcard_write[i] = sent[7 + i]
    <3>1. i < WriteEnd - 6
      BY <2>1, SioFacts
    <3>. QED
      BY <2>2, <3>1, Zenon
  <2>. QED
    BY <2>1, <2>2, <2>3, Zenon
<1>8. PICK s : RunningSum(s, sent, WriteSum) /\ memcard_checksum = s[WriteSum]
  <2>1. Summed(WriteEnd) = WriteSum /\ WriteEnd >= 5
    BY SioFacts DEF Summed
  <2>2. WriteEnd >= 5 =>
          \E s : RunningSum(s, sent, Summed(WriteEnd)) /\ memcard_checksum = s[Summed(WriteEnd)]
    BY <1>5, Zenon DEF WriteTaken
  <2>. QED
    BY <2>1, <2>2, Zenon
<1>9. Checksum(sent') = memcard_checksum
  <2>1. WriteSum \in Nat /\ 5 <= WriteSum /\ WriteSum <= Len(sent)
    BY <1>7, SioFacts
  <2>2. RunningSum(s, Append(sent, 0), WriteSum)
    BY <1>3, <1>8, <2>1, SumStays
  <2>3. RunningSum(s, sent', WriteSum)
    BY <1>6, <2>2, Zenon
  <2>. QED
    BY <1>8, <2>3, ChecksumIs
<1>10. Len(sent') > WriteEnd /\ \A i \in 1 .. WriteEnd : sent'[i] = sent[i]
  BY <1>3, <1>6, <1>7, SioFacts
<1>11. /\ sent'[1] = CARD /\ sent'[2] = WRITE /\ sent'[5] = sent[5] /\ sent'[6] = sent[6]
       /\ sent'[WriteSum + 1] = sent[WriteSum + 1]
  BY <1>5, <1>10, SioFacts
<1>12. ASSUME NEW i \in 0 .. SECTOR_SIZE - 1 PROVE memcard_write[i] = sent'[7 + i]
  <2>1. 7 + i \in 1 .. WriteEnd
    BY SioFacts
  <2>. QED
    BY <1>7, <1>10, <2>1
<1>13. commit'[1] = memcard_sector /\ commit'[2] = memcard_write
  BY <1>1
<1>. QED
  BY <1>2, <1>7, <1>9, <1>10, <1>11, <1>12, <1>13 DEF Intact

(* Every step of the port.                                                 *)
LEMMA PortStep ==
  ASSUME FrameInv, Idle \/ \E b \in Bytes : Transmit(b)
  PROVE  /\ FrameInv'
         /\ commit' \notin {commit, NoCommit} /\ ~dropped' => Intact(sent', commit')
<1>1. CASE Idle
  BY <1>1, IdleStep
<1>2. ASSUME NEW b \in Bytes, Transmit(b)
      PROVE  /\ FrameInv'
             /\ commit' \notin {commit, NoCommit} /\ ~dropped' => Intact(sent', commit')
  <2>1. CASE TxCard(b)
    BY <2>1, CardByte, CommitStep
  <2>2. CASE TxFull(b) \/ TxPad(b) \/ TxNobody(b)
    <3>1. commit' = commit
      BY <2>2 DEF TxFull, TxPad, TxNobody
    <3>. QED
      BY <2>2, <3>1, OtherByte
  <2>. QED
    BY <1>2, <2>1, <2>2 DEF Transmit
<1>. QED
  BY <1>1, <1>2

LEMMA FrameInit == SioInit => FrameInv
<1>. SUFFICES ASSUME SioInit PROVE FrameInv
  OBVIOUS
<1>1. 0 \in Bytes
  BY SioFacts
<1>2. memcard_write \in [0 .. SECTOR_SIZE - 1 -> Bytes]
  BY <1>1 DEF SioInit
<1>3. sent = <<>> /\ sent \in Seq(Bytes)
  BY DEF SioInit
<1>. QED
  BY <1>2, <1>3 DEF SioInit, FrameInv, SioTypes

(* What a sector write carries out is the frame that was sent, whatever    *)
(* the program does at the port.  (memcard_response, sio_store8,           *)
(* reset_transaction)                                                      *)
THEOREM FramesArriveIntact == SioSpec => WriteIntact
<1>1. SioInit => FrameInv
  BY FrameInit
<1>2. ASSUME FrameInv, [SioNext]_sio_vars
      PROVE  /\ FrameInv'
             /\ commit' \notin {commit, NoCommit} /\ ~dropped' => Intact(sent', commit')
  <2>1. Sends \subseteq Bytes
    BY SioAssumption
  <2>2. Idle \/ \E b \in Bytes : Transmit(b)
    BY <1>2, <2>1 DEF SioNext, Program, Idle
  <2>. QED
    BY <1>2, <2>2, PortStep
<1>. QED
  BY <1>1, <1>2, PTL DEF SioSpec, WriteIntact

(* The driver's place in its frame.                                        *)
DriverInv ==
  /\ job \in Jobs /\ next \in 1 .. Len(job)
  /\ dpc \in {"wait", "clear"} => next < Len(job)

LEMMA DriverInit == DInit => DriverInv
BY DriverAssumption DEF DInit, DriverInv

LEMMA DriverStep ==
  ASSUME DriverInv, [DNext]_dvars
  PROVE  DriverInv' /\ (Idle \/ \E b \in Bytes : Transmit(b))
<1>. DEFINE Port == Idle \/ \E b \in Bytes : Transmit(b)
<1>0. /\ \A j \in Jobs : j \in Seq(Bytes) /\ Len(j) \in Nat /\ 1 \in 1 .. Len(j)
      /\ Len(job) \in Nat /\ next \in Nat
  <2>1. \A j \in Jobs : j \in Seq(Bytes) /\ Len(j) \in Nat /\ 1 \in 1 .. Len(j)
    BY DriverAssumption
  <2>. QED
    BY <2>1 DEF DriverInv
<1>1. CASE DSelect
  <2>1. Port
    BY <1>1 DEF DSelect, Idle
  <2>. QED BY <1>1, <2>1 DEF DSelect, Goto, DriverInv
<1>2. CASE DSend
  <2>1. job[next] \in Bytes
    BY <1>0 DEF DriverInv
  <2>2. Port
    BY <1>2, <2>1 DEF DSend
  <2>. QED BY <1>2, <2>2 DEF DSend, Goto, DriverInv
<1>3. CASE DRead
  <2>1. Port
    BY <1>3 DEF DRead, Idle
  <2>2. dpc' \in {"wait", "clear"} => next < Len(job)
    BY <1>0, <1>3 DEF DRead, Goto, LastByte, DriverInv
  <2>. QED BY <1>3, <2>1, <2>2 DEF DRead, Goto, DriverInv
<1>4. CASE DPoll
  <2>1. Port
    BY <1>4 DEF DPoll, Idle
  <2>. QED BY <1>4, <2>1 DEF DPoll, drv, DriverInv
<1>5. CASE DAck
  <2>1. Port
    BY <1>5 DEF DAck, Idle
  <2>. QED BY <1>5, <2>1 DEF DAck, Goto, DriverInv
<1>6. CASE DClear
  <2>1. Port
    BY <1>6 DEF DClear, Idle
  <2>. QED BY <1>0, <1>6, <2>1 DEF DClear, DriverInv
<1>7. CASE DFinish
  <2>1. Port
    BY <1>7 DEF DFinish, Idle
  <2>. QED BY <1>0, <1>7, <2>1 DEF DFinish, DriverInv
<1>8. CASE DAbort
  <2>1. Port
    BY <1>8 DEF DAbort, Idle
  <2>. QED BY <1>0, <1>8, <2>1 DEF DAbort, DriverInv
<1>9. CASE DGiveUp
  <2>1. Port
    BY <1>9 DEF DGiveUp, Idle
  <2>. QED BY <1>9, <2>1 DEF DGiveUp, Goto, DriverInv
<1>10. CASE DFree
  <2>1. Port
    BY <1>10, SioAssumption DEF DFree, Program, Idle
  <2>. QED BY <1>10, <2>1 DEF DFree, drv, DriverInv
<1>11. CASE Time
  <2>1. Port
    BY <1>11 DEF Time, Idle
  <2>. QED BY <1>11, <2>1 DEF Time, drv, DriverInv
<1>12. CASE UNCHANGED dvars
  <2>1. Port
    BY <1>12 DEF dvars, Idle
  <2>. QED BY <1>12, <2>1 DEF dvars, drv, DriverInv
<1>. QED
  BY <1>1, <1>2, <1>3, <1>4, <1>5, <1>6, <1>7, <1>8, <1>9, <1>10, <1>11, <1>12 DEF DNext, Driver

(* The same for the driver that waits for each acknowledge and starts      *)
(* again, and for the program without its discipline.  (memcard_response,  *)
(* sio_store8, reset_transaction)                                          *)
THEOREM WritesArriveIntact == DSpec => WriteIntact
<1>1. DInit => DriverInv /\ FrameInv
  BY DriverInit, FrameInit DEF DInit
<1>2. ASSUME DriverInv /\ FrameInv, [DNext]_dvars
      PROVE  /\ (DriverInv /\ FrameInv)'
             /\ [commit' \notin {commit, NoCommit} /\ ~dropped' => Intact(sent', commit')]_sio_vars
  BY <1>2, DriverStep, PortStep
<1>. QED
  BY <1>1, <1>2, PTL DEF DSpec, WriteIntact
=============================================================================
