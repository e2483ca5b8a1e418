------------------------------- MODULE MCMdec -------------------------------
(* Streams for Mdec: every short mono picture, colour macroblocks in every   *)
(* encoding of one of their blocks and cut off at every word, tables, stray  *)
(* padding, and pictures begun before the last one was read.                 *)
EXTENDS Mdec, SequencesExt

ROW_WORDS_MC == [d \in 0 .. 3 |-> IF d \in {0, 3} THEN 1 ELSE 2]

Halves == {EOB, 0, 1, 2}

Pairs(h) == [k \in 1 .. Len(h) \div 2 |-> Data(h[2 * k - 1], h[2 * k])]

Padded(h) == IF Len(h) % 2 = 0 THEN h ELSE Append(h, EOB)

\* A decode command with the words that carry the halves h.
Picture(depth, h) == <<Command(1, depth, Len(Padded(h)) \div 2)>> \o Pairs(Padded(h))

Mono == { Picture(1, h) : h \in [1 .. 6 -> Halves] } \cup { Picture(0, h) : h \in [1 .. 4 -> Halves] }

\* Ways to code a block: DC and end, full, overrun, padded in front.
Codes == { <<0, EOB>>, <<0, 0, 1>>, <<0, 2>>, <<EOB, 0, 0, EOB>> }

\* A macroblock in which block b is coded as c and the others are short.
Coded(b, c) == FlattenSeq([k \in 1 .. 6 |-> IF k = b THEN c ELSE <<0, EOB>>])

Short(n) == [k \in 1 .. 12 - n |-> IF k % 2 = 1 THEN 0 ELSE EOB]

ColourPictures ==
    { Picture(d, Coded(b, c)) : d \in {2, 3}, b \in 1 .. 6, c \in Codes }
    \cup { Picture(3, Coded(b, c) \o Coded(1, <<0, EOB>>)) : b \in {1, 6}, c \in Codes }
    \cup { Picture(2, Coded(1, <<0, 0, 1>>) \o Short(n)) : n \in 0 .. 11 }

Tables(both) == <<Command(2, 0, both)>> \o [k \in 1 .. TABLE_WORDS * (both + 1) |-> Data(k, both)]

Scale == <<Command(3, 0, 0)>> \o [k \in 1 .. 2 * TABLE_WORDS |-> Data(0, k)]

One == Picture(3, Short(0))

Padding == Data(EOB, EOB)

Mixed ==
    { Tables(1) \o Scale \o One,
      Tables(0) \o One \o Tables(1) \o Picture(1, <<0, EOB>>),   \* tables sent over a waiting picture
      One \o Picture(1, <<0, EOB, 0>>),                          \* another depth over a waiting picture
      One \o <<Padding>> \o Picture(2, Short(0)),                \* padding past the end
      Picture(2, Short(5)) \o Picture(2, Short(0) \o Short(0)),  \* a picture cut off, then a full one
      Picture(1, <<0, 2, 0, EOB>>) \o <<Data(0, 2)>> \o One,       \* a stray word that is no padding
      Picture(2, [k \in 1 .. 24 |-> EOB] \o Short(0)),           \* the longest command, all of it buffered
      Picture(2, Short(0) \o Short(0) \o Short(0)) }             \* more than the output ring holds

Streams_MC == Mono \cup ColourPictures \cup Mixed

Restarts_MC == {One}
=============================================================================
