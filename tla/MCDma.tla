------------------------------- MODULE MCDma -------------------------------
(* Two channels; every combination of start bits and sync mode.            *)
EXTENDS Dma
MCControls == Channel
=============================================================================
