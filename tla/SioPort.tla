------------------------------ MODULE SioPort ------------------------------
(***************************************************************************)
(* The serial port of src/src/sio.c: selecting a slot, exchanging bytes    *)
(* with the memory card of slot 1 and the pads of both slots, the small    *)
(* receive buffer, and the acknowledge interrupt that a device owes for    *)
(* each byte but the last of a frame.                                      *)
(*                                                                         *)
(* A response is kept as what the program can tell apart: nobody answered, *)
(* a device answered, the card reports a good or a bad write.  The sector  *)
(* contents and the file are in MemoryCard; here a committed write either  *)
(* can be flushed or not.                                                  *)
(***************************************************************************)
EXTENDS Integers, Sequences

CONSTANTS
  Bytes,         \* the values of a byte
  BYTES,         \* their number (256)
  ByteXor(_, _), \* of two bytes
  CARD, PAD,     \* addresses of the devices (0x81, 0x01)
  READ, WRITE,   \* commands of the card (0x52, 0x57)
  POLL, CONFIG, MODE, QUERY, \* commands of a pad (0x42, 0x43, 0x44, the others)
  ON, LOCK,      \* parameters of CONFIG and MODE (0x01, 0x03)
  SECTORS,       \* sectors of the card (1024)
  SECTOR_SIZE,   \* bytes of a sector (128)
  RX_SIZE,       \* size of rx_buf (16)
  TX_COUNTS,     \* values of tx_count (256)
  ByteCycles,    \* cycles of a byte on the wire, from mode and baud
  Slices,        \* cycles of a slice of system time
  Sends,         \* the bytes the program sends
  MAX_POS        \* bound of memcard_pos

ASSUME SioAssumption ==
  /\ BYTES \in Nat \ {0} /\ Bytes = 0 .. BYTES - 1
  /\ \A a, b \in Bytes : ByteXor(a, b) \in Bytes
  /\ {CARD, PAD, READ, WRITE, POLL, CONFIG, MODE, QUERY, ON, LOCK} \subseteq Bytes
  /\ CARD # PAD /\ READ # WRITE
  /\ POLL \notin {CONFIG, MODE, QUERY} /\ CONFIG \notin {MODE, QUERY} /\ MODE # QUERY
  /\ SECTORS \in 1 .. BYTES * BYTES /\ SECTOR_SIZE \in Nat \ {0}
  /\ RX_SIZE \in Nat \ {0} /\ TX_COUNTS \in Nat /\ TX_COUNTS > 11 + SECTOR_SIZE
  /\ ByteCycles \subseteq Nat \ {0} /\ Slices \subseteq Nat \ {0}
  /\ Sends \subseteq Bytes /\ MAX_POS \in Nat

VARIABLES
  memcard_present,
  selected, slot2,
  tx_count, rx, rx_pos,       \* rx is rx_buf[0 .. rx_len - 1]
  memcard_access, pad_access, pad_command,
  memcard_pos, memcard_command, memcard_sector, memcard_checksum,
  memcard_write, memcard_write_valid,
  pads,                       \* the two PadStates
  ack_active, irq_pending, irq_cycles_remaining,
  istat,                      \* IRQ_SIO of I_STAT
  sent,                       \* history: the write frame sent since the address byte
  dropped,                    \* history: a byte was refused since the selection
  commit                      \* history: the sector written since the selection

port     == <<selected, slot2>>
frame    == <<memcard_access, pad_access, pad_command>>
cardreg  == <<memcard_pos, memcard_command, memcard_sector, memcard_checksum,
             memcard_write, memcard_write_valid>>
ack      == <<ack_active, irq_pending, irq_cycles_remaining, istat>>
sio_hist == <<sent, dropped, commit>>
sio_vars == <<memcard_present, port, tx_count, rx, rx_pos, frame, cardreg, pads, ack, sio_hist>>

NoCommit == <<>>

(* Positions of the bytes in a write and in a read frame: six of header,   *)
(* the sector, its checksum, and the answer.                               *)
WriteSum == 6 + SECTOR_SIZE
WriteEnd == 9 + SECTOR_SIZE
ReadEnd  == 11 + SECTOR_SIZE

Responses == {"none", "byte", "good", "bad"}

thePad == pads[IF slot2 THEN 2 ELSE 1]
-----------------------------------------------------------------------------
(* memcard_response at position p to the byte b: its effect on the card's  *)
(* registers <<command, sector, checksum, buffer, valid>>.  The checksum   *)
(* of a sector that is read is data for the program and is not kept.       *)
CardRegs == [command : Bytes, sector : 0 .. BYTES * BYTES - 1, checksum : Bytes,
             buffer : [0 .. SECTOR_SIZE - 1 -> Bytes], valid : BOOLEAN]

Regs == [command |-> memcard_command, sector |-> memcard_sector,
         checksum |-> memcard_checksum, buffer |-> memcard_write,
         valid |-> memcard_write_valid]

CardTakes(p, b) ==
  CASE p = 1 -> [Regs EXCEPT !.command = b]
    [] p = 4 -> [Regs EXCEPT !.sector = b * BYTES, !.checksum = b]
    [] p = 5 -> [Regs EXCEPT !.sector = (@ \div BYTES) * BYTES + b, !.checksum = ByteXor(@, b)]
    [] memcard_command = WRITE /\ p \in 6 .. WriteSum - 1 ->
         [Regs EXCEPT !.buffer[p - 6] = b, !.checksum = ByteXor(@, b)]
    [] memcard_command = WRITE /\ p = WriteSum ->
         [Regs EXCEPT !.valid = (b = memcard_checksum /\ memcard_sector < SECTORS)]
    [] OTHER -> Regs

(* The write is carried out at the last byte of its frame; the answer says *)
(* whether it was valid and the card could be flushed.                     *)
Commits(p) == memcard_command = WRITE /\ p = WriteEnd /\ memcard_write_valid

CardAnswer(p, flushed) ==
  IF memcard_command = WRITE /\ p = WriteEnd
    THEN IF memcard_write_valid /\ flushed THEN "good" ELSE "bad"
    ELSE "byte"

(* Mutant: the write frame is one byte shorter.                            *)
CardAcksShort(q, command) == \/ command = READ /\ q <= ReadEnd
                             \/ command = WRITE /\ q < WriteEnd
                             \/ q <= 5

(* Does the card acknowledge, its position being q after the byte?         *)
CardAcks(q, command) == \/ command = READ /\ q <= ReadEnd
                        \/ command = WRITE /\ q <= WriteEnd
                        \/ q <= 5

(* pad_response_byte: the configuration mode of the pad after byte i.      *)
PadTakes(pad, i, b) ==
  CASE i = 3 /\ pad_command = CONFIG -> [pad EXCEPT !.config_mode = (b = ON)]
    [] i = 3 /\ pad_command = MODE /\ pad.config_mode /\ ~pad.mode_locked ->
         [pad EXCEPT !.analog_enabled = (b = ON)]
    [] i = 4 /\ pad_command = MODE /\ pad.config_mode -> [pad EXCEPT !.mode_locked = (b = LOCK)]
    [] OTHER -> pad

(* pad_response_length *)
PadLength(pad, command) == IF command = POLL /\ ~pad.analog_enabled THEN 5 ELSE 9

(* The pad goes on listening after its command byte.                       *)
PadKnows(pad, b) == b \in {POLL, CONFIG} \/ (pad.config_mode /\ b \in {MODE, QUERY})
-----------------------------------------------------------------------------
(* sio_store8, TX_DATA.                                                    *)

(* The address byte and the command byte choose the device.                *)
CardAccess(b) == IF tx_count = 0 THEN b = CARD /\ memcard_present /\ ~slot2 ELSE memcard_access
PadAccess(b)  == CASE tx_count = 0 -> b = PAD
                   [] tx_count = 1 /\ pad_access -> PadKnows(thePad, b)
                   [] OTHER -> pad_access
PadCommand(b) == IF tx_count = 1 /\ pad_access THEN b ELSE pad_command

(* Responses that are all read make room.                                  *)
Unread == IF rx_pos >= Len(rx) THEN <<>> ELSE rx

(* The write frame as the program sends it, from the address byte on; the  *)
(* bytes the card ignores count as zero.                                   *)
SentAfter(b) ==
  LET i == Len(sent)
      ignored == {2, 3, WriteSum + 1, WriteSum + 2, WriteEnd}
  IN
  IF dropped \/ (tx_count = 0 /\ b # CARD) THEN <<>>
  ELSE IF tx_count = 0 THEN <<b>>
  ELSE IF sent = <<>> \/ i > WriteEnd \/ (i > 1 /\ sent[2] # WRITE) THEN sent
  ELSE Append(sent, IF i \in ignored THEN 0 ELSE b)

(* The buffer is full: nobody gets the byte.                               *)
TxFull(b) ==
  /\ Len(Unread) >= RX_SIZE
  /\ memcard_access' = CardAccess(b) /\ pad_access' = PadAccess(b)
  /\ pad_command' = PadCommand(b)
  /\ tx_count' = (tx_count + 1) % TX_COUNTS
  /\ dropped' = TRUE /\ sent' = <<>>
  /\ UNCHANGED <<memcard_present, port, rx, rx_pos, cardreg, pads, ack, commit>>

Respond(r) ==
  /\ rx' = Append(Unread, r)
  /\ rx_pos' = IF Unread = <<>> THEN 0 ELSE rx_pos

(* schedule_ack_irq *)
ScheduleAck ==
  /\ irq_cycles_remaining' \in ByteCycles
  /\ UNCHANGED <<ack_active, irq_pending, istat>>

TxCard(b) ==
  LET p == memcard_pos
      r == CardTakes(p, b)
  IN
  /\ Len(Unread) < RX_SIZE
  /\ selected /\ CardAccess(b)
  /\ p < MAX_POS
  /\ memcard_access' = TRUE /\ pad_access' = PadAccess(b) /\ pad_command' = PadCommand(b)
  /\ memcard_pos' = p + 1
  /\ memcard_command' = r.command /\ memcard_sector' = r.sector
  /\ memcard_checksum' = r.checksum /\ memcard_write' = r.buffer
  /\ memcard_write_valid' = r.valid
  /\ \E flushed \in BOOLEAN : Respond(CardAnswer(p, flushed))
  /\ commit' = IF Commits(p) THEN <<memcard_sector, memcard_write>> ELSE commit
  /\ IF CardAcks(p + 1, r.command) THEN ScheduleAck ELSE UNCHANGED ack
  /\ tx_count' = (tx_count + 1) % TX_COUNTS
  /\ sent' = SentAfter(b)
  /\ UNCHANGED <<memcard_present, port, pads, dropped>>

TxPad(b) ==
  LET pad == PadTakes(thePad, tx_count, b)
  IN
  /\ Len(Unread) < RX_SIZE
  /\ ~(selected /\ CardAccess(b))
  /\ selected /\ PadAccess(b)
  /\ memcard_access' = CardAccess(b) /\ pad_access' = TRUE /\ pad_command' = PadCommand(b)
  /\ pads' = [pads EXCEPT ![IF slot2 THEN 2 ELSE 1] = pad]
  /\ Respond("byte")
  /\ IF tx_count + 1 < PadLength(pad, PadCommand(b)) THEN ScheduleAck ELSE UNCHANGED ack
  /\ tx_count' = (tx_count + 1) % TX_COUNTS
  /\ sent' = SentAfter(b)
  /\ UNCHANGED <<memcard_present, port, cardreg, dropped, commit>>

TxNobody(b) ==
  /\ Len(Unread) < RX_SIZE
  /\ ~(selected /\ CardAccess(b)) /\ ~(selected /\ PadAccess(b))
  /\ memcard_access' = CardAccess(b) /\ pad_access' = PadAccess(b)
  /\ pad_command' = PadCommand(b)
  /\ Respond("none")
  /\ tx_count' = (tx_count + 1) % TX_COUNTS
  /\ sent' = SentAfter(b)
  /\ UNCHANGED <<memcard_present, port, cardreg, pads, ack, dropped, commit>>

Transmit(b) == TxFull(b) \/ TxCard(b) \/ TxPad(b) \/ TxNobody(b)
-----------------------------------------------------------------------------
(* sio_load8, RX_DATA.                                                     *)
Receive ==
  LET n == IF rx_pos < Len(rx) THEN rx_pos + 1 ELSE rx_pos IN
  /\ rx_pos' = IF n >= Len(rx) THEN 0 ELSE n
  /\ rx' = IF n >= Len(rx) THEN <<>> ELSE rx
  /\ UNCHANGED <<memcard_present, port, tx_count, frame, cardreg, pads, ack, sio_hist>>

(* sio_load16, STAT: the ACK line reads once.                              *)
ReadStat ==
  /\ ack_active' = FALSE
  /\ UNCHANGED <<memcard_present, port, tx_count, rx, rx_pos, frame, cardreg, pads,
                 irq_pending, irq_cycles_remaining, istat, sio_hist>>

(* Mutant: the position in the frame survives.                             *)
ResetTransactionKeepsPos ==
  /\ selected' = FALSE /\ slot2' = FALSE
  /\ tx_count' = 0 /\ rx' = <<>> /\ rx_pos' = 0
  /\ memcard_access' = FALSE /\ pad_access' = FALSE /\ pad_command' = 0
  /\ ack_active' = FALSE
  /\ UNCHANGED cardreg

(* reset_transaction; the countdown to the acknowledge goes on.            *)
ResetTransaction ==
  /\ selected' = FALSE /\ slot2' = FALSE
  /\ tx_count' = 0 /\ rx' = <<>> /\ rx_pos' = 0
  /\ memcard_access' = FALSE /\ pad_access' = FALSE /\ pad_command' = 0
  /\ ack_active' = FALSE
  /\ memcard_pos' = 0 /\ memcard_command' = 0 /\ memcard_checksum' = 0
  /\ memcard_write_valid' = FALSE
  /\ UNCHANGED <<memcard_sector, memcard_write>>

(* sio_store16, CTRL: reset.                                               *)
WriteReset ==
  /\ ResetTransaction
  /\ irq_pending' = FALSE /\ irq_cycles_remaining' = 0
  /\ sent' = <<>> /\ dropped' = FALSE /\ commit' = NoCommit
  /\ UNCHANGED <<memcard_present, pads, istat>>

(* CTRL: acknowledge (a), select slot 1 or 2 (s).  A write of the          *)
(* acknowledge bit alone keeps the selection: Acknowledge.                 *)
Select(a, s) ==
  /\ selected' = TRUE /\ slot2' = s
  /\ irq_pending' = (irq_pending /\ ~a)
  /\ IF selected
       THEN UNCHANGED <<tx_count, rx, rx_pos, frame, sio_hist>>
       ELSE /\ tx_count' = 0 /\ rx' = <<>> /\ rx_pos' = 0
            /\ memcard_access' = FALSE /\ pad_access' = FALSE /\ pad_command' = 0
            /\ sent' = <<>> /\ dropped' = FALSE /\ commit' = NoCommit
  /\ UNCHANGED <<memcard_present, cardreg, pads, ack_active, irq_cycles_remaining, istat>>

Deselect(a) ==
  /\ irq_pending' = (irq_pending /\ ~a)
  /\ IF selected
       THEN /\ ResetTransaction
            /\ sent' = <<>> /\ dropped' = FALSE /\ commit' = NoCommit
       ELSE UNCHANGED <<port, tx_count, rx, rx_pos, frame, cardreg, ack_active, sio_hist>>
  /\ UNCHANGED <<memcard_present, pads, irq_cycles_remaining, istat>>

Acknowledge ==
  /\ irq_pending' = FALSE
  /\ UNCHANGED <<memcard_present, port, tx_count, rx, rx_pos, frame, cardreg, pads,
                 ack_active, irq_cycles_remaining, istat, sio_hist>>

(* irq_store32: the program clears IRQ_SIO.                                *)
ClearIStat ==
  /\ istat' = FALSE
  /\ UNCHANGED <<memcard_present, port, tx_count, rx, rx_pos, frame, cardreg, pads,
                 ack_active, irq_pending, irq_cycles_remaining, sio_hist>>

(* sio_step.                                                               *)
SioStep(c) ==
  LET fires == irq_cycles_remaining > 0 /\ c >= irq_cycles_remaining IN
  /\ irq_cycles_remaining' = IF c >= irq_cycles_remaining THEN 0 ELSE irq_cycles_remaining - c
  /\ irq_pending' = (irq_pending \/ fires)
  /\ ack_active' = (ack_active \/ fires)
  /\ istat' = (istat \/ irq_pending')
  /\ UNCHANGED <<memcard_present, port, tx_count, rx, rx_pos, frame, cardreg, pads, sio_hist>>
-----------------------------------------------------------------------------
(* sio_init, and sio_memory_card_load with or without a card.              *)
SioInit ==
  /\ memcard_present \in BOOLEAN
  /\ selected = FALSE /\ slot2 = FALSE
  /\ tx_count = 0 /\ rx = <<>> /\ rx_pos = 0
  /\ memcard_access = FALSE /\ pad_access = FALSE /\ pad_command = 0
  /\ memcard_pos = 0 /\ memcard_command = 0 /\ memcard_sector = 0
  /\ memcard_checksum = 0 /\ memcard_write_valid = FALSE
  /\ memcard_write = [i \in 0 .. SECTOR_SIZE - 1 |-> 0]
  /\ pads = [n \in 1 .. 2 |-> [config_mode |-> FALSE, analog_enabled |-> FALSE,
                               mode_locked |-> FALSE]]
  /\ ack_active = FALSE /\ irq_pending = FALSE /\ irq_cycles_remaining = 0
  /\ istat = FALSE
  /\ sent = <<>> /\ dropped = FALSE /\ commit = NoCommit

Program ==
  \/ \E b \in Sends : Transmit(b)
  \/ Receive \/ ReadStat \/ WriteReset \/ Acknowledge \/ ClearIStat
  \/ \E a \in BOOLEAN : Deselect(a) \/ \E s \in BOOLEAN : Select(a, s)

SioNext == Program \/ \E c \in Slices : SioStep(c)

SioSpec == SioInit /\ [][SioNext]_sio_vars
-----------------------------------------------------------------------------

(* The checksum of a write frame: its bytes from the sector number on,     *)
(* combined one by one.                                                    *)
Checksum(f) ==
  LET sum[i \in 5 .. WriteSum] == IF i = 5 THEN f[5] ELSE ByteXor(sum[i - 1], f[i])
  IN  sum[WriteSum]

(* The sector c is what the write frame f asks for.                        *)
Intact(f, c) ==
  /\ Len(f) > WriteEnd /\ f[1] = CARD /\ f[2] = WRITE
  /\ c[1] = f[5] * BYTES + f[6] /\ c[1] < SECTORS
  /\ \A i \in 0 .. SECTOR_SIZE - 1 : c[2][i] = f[7 + i]
  /\ f[WriteSum + 1] = Checksum(f)

(* A sector write carries out exactly the frame the program sent since it  *)
(* addressed the card: that sector, those bytes, a matching checksum;       *)
(* nothing of an earlier frame that was given up half way, or of bytes     *)
(* sent to a pad.  Except when the program let the receive buffer run full *)
(* and bytes were dropped.  (memcard_response, sio_store8,                 *)
(* reset_transaction)                                                      *)
WriteIntact ==
  [][commit' \notin {commit, NoCommit} /\ ~dropped' => Intact(sent', commit')]_sio_vars
=============================================================================
