---------------------------- MODULE MCMemoryCard ----------------------------
(* A card with one directory frame and one data sector.                    *)
EXTENDS MemoryCard
CONSTANTS dir, sector, blank, broken
=============================================================================
