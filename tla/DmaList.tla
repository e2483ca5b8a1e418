------------------------------ MODULE DmaList ------------------------------
(***************************************************************************)
(* The two DMA transfers that work on ordering tables in RAM               *)
(* (src/src/interconnect.c): do_dma_block on the OTC channel, which links  *)
(* an empty table, and do_dma_linked_list on the GPU channel, which walks  *)
(* a table and sends its packets to GP0.  The program builds tables, so    *)
(* RAM is arbitrary: a table may have no end or run into itself.           *)
(*                                                                         *)
(* A word of RAM is read as a header: the number of packet words that      *)
(* follow it, the end marker (bit 23) and the address of the next header.  *)
(* Addresses are word addresses.  A walk is modelled one header or packet  *)
(* word per step; the channel is busy all along (see module Dma).          *)
(***************************************************************************)
EXTENDS Integers, Sequences, FiniteSets

CONSTANTS
  WORDS,      \* words of RAM (RAM_SIZE / 4)
  MAX_COUNT   \* packet words a header can announce (255)

ASSUME SizesAssumption == WORDS \in Nat \ {0} /\ MAX_COUNT \in Nat

Addr   == 0 .. WORDS - 1
Header == [count : 0 .. MAX_COUNT, next : Addr, end : BOOLEAN]

VARIABLES
  pc, ram,
  base,      \* channel_base
  addr,      \* the walk's address
  visited,   \* headers seen in this walk
  header, left,
  sent,      \* addresses of the words sent to GP0
  table      \* history: the entries the OTC channel linked, or {}

list_vars == <<pc, ram, base, addr, visited, header, left, sent, table>>
-----------------------------------------------------------------------------
(* The channel is not walking a list.                                      *)
Between == {"idle", "ended", "looped"}

(* The table of n entries that the OTC channel writes downwards from b     *)
(* (the program sets the step bit to decrement, b and n in MADR and BCR):  *)
(* every entry is an empty packet that points at the one below it, the     *)
(* last is the end marker 0xFFFFFF.                                        *)
Entries(b, n) == {(b - i) % WORDS : i \in 0 .. n - 1}
Last(b, n)    == (b - (n - 1)) % WORDS
End           == [count |-> 0, next |-> WORDS - 1, end |-> TRUE]
Link(a)       == [count |-> 0, next |-> (a - 1) % WORDS, end |-> FALSE]

ClearTable(b, n) ==
  /\ pc \in Between /\ pc' = "idle"
  /\ ram' = [a \in Addr |-> IF a = Last(b, n) THEN End
                            ELSE IF a \in Entries(b, n) THEN Link(a) ELSE ram[a]]
  /\ base' = b
  /\ table' = Entries(b, n)
  /\ UNCHANGED <<addr, visited, header, left, sent>>

(* The program starts the GPU channel on the table, or anywhere.           *)
StartList(b) ==
  /\ pc \in Between
  /\ table # {} => b = base
  /\ base' = b
  /\ addr' = b
  /\ visited' = {} /\ sent' = <<>>
  /\ pc' = "header"
  /\ UNCHANGED <<ram, header, left, table>>

(* Mutant: only headers with a packet are remembered.                      *)
ReadHeaderEmptyForgotten ==
  /\ pc = "header"
  /\ addr \notin visited
  /\ visited' = IF ram[addr].count > 0 THEN visited \cup {addr} ELSE visited
  /\ header' = ram[addr]
  /\ left' = ram[addr].count
  /\ pc' = "packet"
  /\ UNCHANGED <<ram, base, addr, sent, table>>

(* A header seen before ends the walk: the list is a loop.                 *)
ReadHeader ==
  /\ pc = "header"
  /\ addr \notin visited
  /\ visited' = visited \cup {addr}
  /\ header' = ram[addr]
  /\ left' = ram[addr].count
  /\ pc' = "packet"
  /\ UNCHANGED <<ram, base, addr, sent, table>>

LoopDetected ==
  /\ pc = "header"
  /\ addr \in visited
  /\ pc' = "looped"
  /\ UNCHANGED <<ram, base, addr, visited, header, left, sent, table>>

(* Mutant: the packet is read from its header on.                          *)
SendWordEarly ==
  /\ pc = "packet" /\ left > 0
  /\ addr' = (addr + 1) % WORDS
  /\ sent' = Append(sent, addr)
  /\ left' = left - 1
  /\ UNCHANGED <<pc, ram, base, visited, header, table>>

SendWord ==
  /\ pc = "packet" /\ left > 0
  /\ addr' = (addr + 1) % WORDS
  /\ sent' = Append(sent, addr')
  /\ left' = left - 1
  /\ UNCHANGED <<pc, ram, base, visited, header, table>>

NextHeader ==
  /\ pc = "packet" /\ left = 0
  /\ \/ header.end /\ pc' = "ended" /\ UNCHANGED addr
     \/ ~header.end /\ pc' = "header" /\ addr' = header.next
  /\ UNCHANGED <<ram, base, visited, header, left, sent, table>>

ListInit ==
  /\ pc = "idle"
  /\ ram \in [Addr -> Header]
  /\ base = 0 /\ addr = 0 /\ visited = {} /\ left = 0 /\ sent = <<>> /\ table = {}
  /\ header = End

Walk == ReadHeader \/ LoopDetected \/ SendWord \/ NextHeader

ListNext ==
  \/ \E b \in Addr : StartList(b) \/ (\E n \in 1 .. WORDS : ClearTable(b, n))
  \/ Walk

(* do_dma does not return before the walk has ended.                       *)
ListSpec == ListInit /\ [][ListNext]_list_vars /\ WF_list_vars(Walk)
-----------------------------------------------------------------------------
Walked == pc \in {"ended", "looped"}

(* The k-th header of the list at base, by definition of the list: the     *)
(* header that the previous one points at.                                 *)
Nodes[k \in 0 .. WORDS] == IF k = 0 THEN base ELSE ram[Nodes[k - 1]].next

(* The walk covers the nodes up to the first end marker, or up to the      *)
(* first one that comes again.                                             *)
Stops(k)  == ram[Nodes[k]].end \/ \E j \in 0 .. k : Nodes[j] = Nodes[k + 1]
NodeCount == LET stop == {k \in 0 .. WORDS - 1 : Stops(k)}
             IN  1 + CHOOSE k \in stop : \A j \in stop : k <= j

(* The words of a packet, and of the packets of the first n nodes, in      *)
(* order.                                                                  *)
Packet(a) == [i \in 1 .. ram[a].count |-> (a + i) % WORDS]
PacketWords[n \in 0 .. WORDS] ==
  IF n = 0 THEN <<>> ELSE PacketWords[n - 1] \o Packet(Nodes[n - 1])

(* What GP0 receives is the list's packets, each once and in order, even   *)
(* if packets overlap headers or the list loops; and a table linked by the *)
(* OTC channel is complete: a walk from its start visits every entry,      *)
(* finds the end marker, and sends nothing.  (do_dma_linked_list,          *)
(* do_dma_block)                                                           *)
SendsTheList ==
  Walked => /\ sent = PacketWords[NodeCount]
            /\ table # {} => pc = "ended" /\ visited = table /\ sent = <<>>

(* The walk ends, whatever is in RAM.                                      *)
WalkEnds == pc = "header" ~> Walked
=============================================================================
