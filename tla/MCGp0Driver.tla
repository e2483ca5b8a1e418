---------------------------- MODULE MCGp0Driver ----------------------------
(***************************************************************************)
(* Packets of every kind: one word, four, twelve; loads and stores whose   *)
(* rectangle wraps around VRAM, is odd, wider than VRAM or empty; a mono   *)
(* and a shaded polyline, the second with a vertex that looks like a       *)
(* terminator; an opcode the decoder does not know.                        *)
(***************************************************************************)
EXTENDS Gp0Driver

Load(corner, size) == << << 40960, 0 >>, corner, size >>
Store(corner, size) == << << 49152, 0 >>, corner, size >>
\* Only this word starts with the digit 5 in both halves.
End == << 21845, 21845 >>
Vertex == << 1, 1 >>

MCPackets ==
    { << << 0, 0 >> >>,                                          \* nop
      << << 8192, 0 >>, Vertex, Vertex, Vertex >>,               \* triangle
      << << 15360, 0 >> >> \o [i \in 1 .. 11 |-> Vertex],        \* quad, 12 words
      << << 768, 0 >> >>,                                        \* unknown
      Load(<< 1, 1 >>, << 2, 2 >>) \o << << 1, 2 >>, << 3, 4 >> >>,
      Load(<< 0, 1 >>, << 1, 3 >>) \o << << 1, 2 >>, << 3, 4 >> >>,
      Load(<< 0, 0 >>, << 2, 0 >>),
      Store(<< 1, 1 >>, << 2, 2 >>),
      Store(<< 0, 1 >>, << 1, 3 >>),
      Store(<< 1, 0 >>, << 3, 1 >>),
      Store(<< 0, 0 >>, << 0, 1 >>),
      << << 18432, 0 >>, Vertex, Vertex, Vertex, End >>,
      << << 22528, 0 >>, Vertex, << 0, 7 >>, End, << 0, 7 >>, Vertex, End >> }

MCWords == UNION { ToSet(p) : p \in MCPackets }
==============================================================================
