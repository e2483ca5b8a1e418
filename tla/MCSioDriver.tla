----------------------------- MODULE MCSioDriver -----------------------------
(* Bytes of two bits and sectors of two bytes.  The frames: a sector write,*)
(* one with a wrong checksum, a sector read, a poll and a configuration of *)
(* the pad.                                                                *)
EXTENDS SioDriver, Bitwise
MCXor(a, b) == a ^^ b
MCJobs == {<<CARD, WRITE, 0, 0, 0, 1, 2, 1, 2, 0, 0, 0>>,
           <<CARD, WRITE, 0, 0, 0, 1, 2, 1, 3, 0, 0, 0>>,
           <<CARD, READ, 0, 0, 0, 1, 0, 0, 0, 0, 0, 0, 0, 0>>,
           <<PAD, POLL, 0, 0, 0>>,
           <<PAD, CONFIG, 0, ON, 0, 0, 0, 0, 0>>}
=============================================================================
