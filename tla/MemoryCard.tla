----------------------------- MODULE MemoryCard -----------------------------
(***************************************************************************)
(* The memory card of src/src/sio.c and its file: loading and formatting,  *)
(* committing a sector written by the program, the flush through a         *)
(* temporary file that is renamed over the card, and what a failing call,  *)
(* a killed emulator or a loss of power leaves behind.                     *)
(*                                                                         *)
(* The byte protocol that leads to a sector write is in SioPort.  A flush  *)
(* is one call in the code; its system calls are steps here, because the   *)
(* emulator can die between any two of them.                               *)
(***************************************************************************)
EXTENDS FiniteSets

CONSTANTS
  Sectors,     \* sectors of the card (1024)
  MetaSectors, \* the directory frames, whose checksum is verified (36)
  Contents,    \* contents of a sector
  Good,        \* contents with a valid frame checksum
  Blank,       \* the contents of a formatted sector
  NoCard,      \* no file, no card
  Torn,        \* a file that holds part of an image
  Foreign      \* a file of the wrong size

Images == [Sectors -> Contents]

ASSUME CardAssumption ==
  /\ MetaSectors \subseteq Sectors
  /\ Good \subseteq Contents /\ Blank \in Good
  /\ {NoCard, Torn, Foreign} \cap Images = {}
  /\ NoCard # Torn /\ NoCard # Foreign /\ Torn # Foreign

VARIABLES
  data, present, isnew, corrupt,  \* memcard_data, memcard_present/new/corrupt
  pc,        \* where the emulator is: not running, running, or in a flush
  creating,  \* the flush is the one that creates the card
  ok,        \* ok of sio_memory_card_flush
  file, tmp, \* the card's file and the temporary file, as processes see them
  synced,    \* the temporary file has been synced
  after,     \* what the card's name can hold after a loss of power
  answered,  \* history: per sector, what the program knows to be on the card
  open,      \* history: contents of writes refused or not answered since
  spoiled    \* history: a directory frame with a wrong checksum was written

card == <<data, present, isnew, corrupt>>
disk == <<file, tmp, synced, after>>
hist == <<answered, open, spoiled>>
vars == <<card, pc, creating, ok, disk, hist>>

(* sio_memory_card_flush is under way.                                     *)
Flushing == pc \in {"open", "write", "sync", "close", "rename", "unlink"}

(* memory_card_metadata_valid *)
Valid(d) == \A s \in MetaSectors : d[s] \in Good

(* Mutant: the checksums of the frames are left out.                       *)
FormattedUnchecked == [s \in Sectors |-> CHOOSE c \in Contents : c \notin Good]

(* format_memory_card *)
Formatted == [s \in Sectors |-> Blank]
-----------------------------------------------------------------------------
(* sio_memory_card_load, once, when the emulator starts.                   *)

(* There is no file: a formatted card is created by the flush that follows.*)
LoadMissing ==
  /\ pc = "off"
  /\ file = NoCard
  /\ data' = Formatted
  /\ present' = TRUE /\ isnew' = TRUE /\ corrupt' = FALSE
  /\ pc' = "open" /\ creating' = TRUE /\ ok' = TRUE
  /\ answered' = Formatted
  /\ open' = [s \in Sectors |-> {}] /\ spoiled' = FALSE
  /\ UNCHANGED disk

LoadValid ==
  /\ pc = "off"
  /\ file \in Images /\ Valid(file)
  /\ data' = file
  /\ present' = TRUE /\ isnew' = FALSE /\ corrupt' = FALSE
  /\ pc' = "run"
  /\ answered' = file
  /\ open' = [s \in Sectors |-> {}]
  /\ UNCHANGED <<creating, ok, disk, spoiled>>

(* A read error, a wrong size or a wrong checksum.  What was read stays in *)
(* the buffer, unused.                                                     *)
LoadRefused ==
  /\ pc = "off"
  /\ file # NoCard
  /\ \E d \in Images : data' = IF file \in Images THEN file ELSE d
  /\ present' = FALSE /\ corrupt' = TRUE
  /\ pc' = "run"
  /\ UNCHANGED <<isnew, creating, ok, disk, hist>>

(* The file exists and cannot be opened, or no card was asked for.         *)
LoadFails ==
  /\ pc = "off"
  /\ pc' = "run"
  /\ UNCHANGED <<card, creating, ok, disk, hist>>
-----------------------------------------------------------------------------
(* Mutant: 0x47 is answered before the flush.                              *)
WriteSectorEarly(s, c) ==
  /\ pc = "run" /\ present
  /\ data' = [data EXCEPT ![s] = c]
  /\ isnew' = FALSE
  /\ pc' = "open" /\ creating' = FALSE /\ ok' = TRUE
  /\ answered' = data'
  /\ open' = [open EXCEPT ![s] = {}]
  /\ spoiled' = (spoiled \/ (s \in MetaSectors /\ c \notin Good))
  /\ UNCHANGED <<present, corrupt, disk>>

(* memcard_response at the last byte of a sector write: the sector changes *)
(* in memory, then the flush starts.                                       *)
WriteSector(s, c) ==
  /\ pc = "run" /\ present
  /\ data' = [data EXCEPT ![s] = c]
  /\ isnew' = FALSE
  /\ pc' = "open" /\ creating' = FALSE /\ ok' = TRUE
  /\ open' = [open EXCEPT ![s] = @ \cup {c}]
  /\ spoiled' = (spoiled \/ (s \in MetaSectors /\ c \notin Good))
  /\ UNCHANGED <<present, corrupt, disk, answered>>

(* memcard_response at the last byte of a sector read.                     *)
ReadSector ==
  /\ pc = "run" /\ present
  /\ isnew' = FALSE
  /\ UNCHANGED <<data, present, corrupt, pc, creating, ok, disk, hist>>
-----------------------------------------------------------------------------
(* sio_memory_card_flush, system call by system call.                      *)

(* fopen "wb" creates or empties the temporary file.                       *)
OpenTmp ==
  /\ pc = "open"
  /\ tmp' = Torn /\ synced' = FALSE
  /\ pc' = "write"
  /\ UNCHANGED <<card, creating, ok, file, after, hist>>

(* fwrite and fflush: everything is written, or a part.                    *)
WriteTmp ==
  /\ pc = "write"
  /\ \/ tmp' = data /\ pc' = "sync" /\ UNCHANGED ok
     \/ ok' = FALSE /\ pc' = "close" /\ UNCHANGED tmp
  /\ UNCHANGED <<card, creating, file, synced, after, hist>>

SyncTmp ==
  /\ pc = "sync"
  /\ \/ synced' = TRUE /\ UNCHANGED ok
     \/ ok' = FALSE /\ UNCHANGED synced
  /\ pc' = "close"
  /\ UNCHANGED <<card, creating, file, tmp, after, hist>>

(* Mutant: an error of fwrite is forgotten by a successful fclose.         *)
CloseTmpForgets ==
  /\ pc = "close"
  /\ ok' \in BOOLEAN
  /\ pc' = IF ok' THEN "rename" ELSE "unlink"
  /\ UNCHANGED <<card, creating, disk, hist>>

CloseTmp ==
  /\ pc = "close"
  /\ ok' \in {ok, FALSE}
  /\ pc' = IF ok' THEN "rename" ELSE "unlink"
  /\ UNCHANGED <<card, creating, disk, hist>>

(* rename succeeds: the card's name is the new file, for a process at once,*)
(* for a disk that loses power perhaps (the directory is not synced).  The *)
(* load returns, or the program reads the answer 0x47.                     *)
RenameTmp ==
  /\ pc = "rename"
  /\ file' = tmp /\ tmp' = NoCard /\ synced' = FALSE
  /\ after' = after \cup (IF synced THEN {tmp} ELSE {tmp, Torn})
  /\ pc' = "run"
  /\ answered' = data
  /\ open' = [s \in Sectors |-> {}]
  /\ UNCHANGED <<card, creating, ok, spoiled>>

RenameFails ==
  /\ pc = "rename"
  /\ pc' = "unlink"
  /\ UNCHANGED <<card, creating, ok, disk, hist>>

(* The flush has failed: the program reads 0x4E and the sector stays as it *)
(* was written in memory; a card that could not be created is ejected      *)
(* (sio_memory_card_eject).                                                *)
FlushFails ==
  /\ pc' = "run"
  /\ present' = (present /\ ~creating)
  /\ isnew' = (isnew /\ ~creating)
  /\ UNCHANGED <<data, corrupt, creating, ok, file, after, hist>>

(* Mutant: the result of fopen is not checked.                             *)
OpenFailsUnseen == pc = "open" /\ pc' = "rename" /\ UNCHANGED <<card, creating, ok, disk, hist>>

OpenFails == pc = "open" /\ FlushFails /\ UNCHANGED <<tmp, synced>>

(* unlink, whose result is ignored.                                        *)
UnlinkTmp ==
  /\ pc = "unlink"
  /\ FlushFails
  /\ \/ tmp' = NoCard /\ synced' = FALSE
     \/ UNCHANGED <<tmp, synced>>

FlushStep ==
  \/ OpenTmp \/ OpenFails \/ WriteTmp \/ SyncTmp \/ CloseTmp
  \/ RenameTmp \/ RenameFails \/ UnlinkTmp
-----------------------------------------------------------------------------
(* The world around.                                                       *)

(* The emulator ends, or is killed: nothing is flushed on the way out.     *)
Exit ==
  /\ pc # "off"
  /\ pc' = "off"
  /\ present' = FALSE /\ isnew' = FALSE /\ corrupt' = FALSE
  /\ UNCHANGED <<data, creating, ok, disk, hist>>

(* The directory reaches the disk.                                         *)
Writeback == after' = {file} /\ UNCHANGED <<card, pc, creating, ok, file, tmp, synced, hist>>

PowerLoss ==
  /\ pc' = "off"
  /\ present' = FALSE /\ isnew' = FALSE /\ corrupt' = FALSE
  /\ file' \in after
  /\ after' = {file'}
  /\ tmp' \in {NoCard, Torn, tmp} /\ synced' = FALSE
  /\ answered' = IF file' \in Images THEN file' ELSE answered
  /\ UNCHANGED <<data, creating, ok, open, spoiled>>

Init ==
  /\ file \in Images \cup {NoCard, Foreign}
  /\ tmp = NoCard /\ synced = FALSE /\ after = {file}
  /\ data = Formatted
  /\ present = FALSE /\ isnew = FALSE /\ corrupt = FALSE
  /\ pc = "off" /\ creating = FALSE /\ ok = TRUE
  /\ answered = IF file \in Images THEN file ELSE Formatted
  /\ open = [s \in Sectors |-> {}]
  /\ spoiled = ~(file = NoCard \/ (file \in Images /\ Valid(file)))

Next ==
  \/ LoadMissing \/ LoadValid \/ LoadRefused \/ LoadFails
  \/ \E s \in Sectors, c \in Contents : WriteSector(s, c)
  \/ ReadSector
  \/ FlushStep
  \/ Exit \/ Writeback \/ PowerLoss

Spec == Init /\ [][Next]_vars
-----------------------------------------------------------------------------
TypeOK ==
  /\ data \in Images
  /\ present \in BOOLEAN /\ isnew \in BOOLEAN /\ corrupt \in BOOLEAN
  /\ pc \in {"off", "run", "open", "write", "sync", "close", "rename", "unlink"}
  /\ creating \in BOOLEAN /\ ok \in BOOLEAN /\ synced \in BOOLEAN
  /\ file \in Images \cup {NoCard, Torn, Foreign}
  /\ tmp \in Images \cup {NoCard, Torn}
  /\ after \subseteq Images \cup {NoCard, Torn, Foreign}
  /\ answered \in Images
  /\ open \in [Sectors -> SUBSET Contents]
  /\ spoiled \in BOOLEAN

(* Whatever fails, and whenever the emulator or the power goes, the card's *)
(* name holds a whole image: the temporary file is complete and synced     *)
(* before it is renamed over the card.  (sio_memory_card_flush)            *)
CardFileWhole == Torn \notin after \cup {file}

(* A sector of the file, which is what the next start loads, holds what    *)
(* the program was last told is there, or what it wrote since without an   *)
(* answer 0x47; and the running program reads something else than the file *)
(* only in sectors with such a write.  A refused write stays in memory and *)
(* reaches the file with the next flush.  (memcard_response,               *)
(* sio_memory_card_flush, sio_memory_card_load)                            *)
AnsweredSurvives ==
  file \in Images =>
    \A s \in Sectors : /\ file[s] \in {answered[s]} \cup open[s]
                       /\ present /\ data[s] # file[s] => open[s] # {}

(* A card that was loaded or created once is refused by a later load only  *)
(* if the program itself wrote a directory frame with a wrong checksum: no *)
(* failure or crash makes it unreadable.  (memory_card_metadata_valid,     *)
(* format_memory_card, sio_memory_card_load)                               *)
OnlyProgramSpoils ==
  ~spoiled => \A f \in after \cup {file} : f = NoCard \/ (f \in Images /\ Valid(f))

(* The file behaves like the card of CardStore: a write is saved whole or  *)
(* not at all, a temporary file left by a crash never becomes the card.    *)
Store == INSTANCE CardStore WITH mem <- IF present THEN data ELSE NoCard,
                                 store <- file, past <- after
ImplementsStore == Store!Spec
=============================================================================
