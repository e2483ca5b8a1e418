----------------------------- MODULE MCDmaList -----------------------------
(* Every content of a RAM of three words.                                  *)
EXTENDS DmaList
=============================================================================
