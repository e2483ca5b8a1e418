----------------------------- MODULE Gp0Proofs -----------------------------
(***************************************************************************)
(* GP0 for every stream of words and every size of image: the command      *)
(* buffer is never overrun, and an image transfer's word count and its     *)
(* cursor agree at every step.  And for every program that writes whole    *)
(* packets: the decoder stays in step with it, an image load arrives pixel *)
(* by pixel, and an image store delivers the rectangle it was asked for.   *)
(***************************************************************************)
EXTENDS Gp0Driver, WellFoundedInduction, TLAPS

\* In POLYLINE mode no packet is being counted: the terminator hands COMMAND
\* mode a stream at a packet boundary.
PolylineUncounted == gp0_mode = "POLYLINE" => gp0_words_remaining = 0

IInv == TypeOK /\ BufferFits /\ TransfersCounted /\ PolylineUncounted

------------------------------------------------------------------------------
(* Words and lengths *)

\* The opcode of a word is a byte.
LEMMA OpIsByte == \A val \in Words : Op(val) \in 0 .. 255
  BY WordsAssumption DEF Op, Halves

\* No packet is longer than twelve words.
LEMMA LengthBound == \A op \in 0 .. 255 : CommandLength(op) \in 0 .. 12
  BY DEF CommandLength

\* The words of an image hold its pixels with at most half a word to spare.
LEMMA WordsForBound ==
  \A n \in Nat \ {0} : /\ WordsFor(n) \in Nat \ {0}
                       /\ 2 * WordsFor(n) - n \in {0, 1}
  BY DEF WordsFor

------------------------------------------------------------------------------
(* Cursors *)

\* A cursor always addresses a cell of VRAM.
LEMMA CursorInVram == \A t \in Transfer : CursorCell(t) \in Cells
  BY VramAssumption DEF CursorCell, Cells, Transfer

\* A new transfer's rectangle is a transfer with all of its pixels to go.
LEMMA RectangleFresh ==
  ASSUME NEW corner \in Words, NEW size \in Words
  PROVE  LET t == Rectangle(corner, size)
         IN  /\ t \in Transfer
             /\ t.w \in Nat /\ t.h \in Nat /\ t.cur_x = 0
             /\ PixelsLeft(t) = t.w * t.h
  <1>1. corner[1] \in Nat /\ corner[2] \in Nat /\ size[1] \in Halves /\ size[2] \in Halves
    BY WordsAssumption DEF Halves
  <1>2. Rectangle(corner, size) \in Transfer
    BY <1>1, VramAssumption DEF Rectangle, Transfer, Halves
  <1>3. 0 * size[2] + 0 = 0 /\ size[2] * size[1] \in Nat
    BY <1>1 DEF Halves
  <1> QED
    BY <1>1, <1>2, <1>3 DEF Rectangle, PixelsLeft, Halves

\* One step of a cursor inside its row uses up one pixel.
LEMMA AdvanceOne ==
  ASSUME NEW t \in Transfer, t.cur_x < t.w
  PROVE  /\ Advance(t) \in Transfer
         /\ Advance(t).cur_x < Advance(t).w
         /\ PixelsLeft(Advance(t)) = PixelsLeft(t) - 1
  <1>1. t.cur_x \in Nat /\ t.cur_y \in Nat /\ t.w \in Nat /\ t.h \in Nat
    BY DEF Transfer, Halves
  <1>2. CASE t.cur_x + 1 >= t.w
    <2>1. Advance(t) = [t EXCEPT !.cur_x = 0, !.cur_y = @ + 1]
      BY <1>2 DEF Advance
    <2>2. (t.cur_y + 1) * t.w = t.cur_y * t.w + t.w
      BY <1>1
    <2>3. t.w = t.cur_x + 1
      BY <1>1, <1>2
    <2>a. t = [x |-> t.x, y |-> t.y, w |-> t.w, h |-> t.h,
               cur_x |-> t.cur_x, cur_y |-> t.cur_y]
          /\ t.x \in 0 .. VRAM_W - 1 /\ t.y \in 0 .. VRAM_H - 1
          /\ t.w \in Halves /\ t.h \in Halves
      BY DEF Transfer
    <2>b. Advance(t) = [x |-> t.x, y |-> t.y, w |-> t.w, h |-> t.h,
                        cur_x |-> 0, cur_y |-> t.cur_y + 1]
      BY <2>1, <2>a
    <2>c. t.cur_y + 1 \in Nat /\ 0 \in Nat
      BY <1>1
    <2>d. Advance(t) \in Transfer
      BY <2>a, <2>b, <2>c DEF Transfer
    <2>4. /\ Advance(t).cur_x = 0 /\ Advance(t).cur_y = t.cur_y + 1
          /\ Advance(t).w = t.w /\ Advance(t).h = t.h
      BY <2>b
    <2>5. /\ PixelsLeft(Advance(t)) = t.w * t.h - ((t.cur_y + 1) * t.w + 0)
          /\ PixelsLeft(t) = t.w * t.h - (t.cur_y * t.w + t.cur_x)
      BY <2>4 DEF PixelsLeft
    <2>6. t.cur_y * t.w \in Nat /\ t.w * t.h \in Nat
      BY <1>1
    <2> QED
      BY <1>1, <2>2, <2>3, <2>4, <2>5, <2>6, <2>d
  <1>3. CASE ~(t.cur_x + 1 >= t.w)
    <2>1. Advance(t) = [t EXCEPT !.cur_x = @ + 1]
      BY <1>3 DEF Advance
    <2>2. t.cur_y * t.w \in Nat /\ t.w * t.h \in Nat
      BY <1>1
    <2> QED
      BY <1>1, <1>3, <2>1, <2>2 DEF Transfer, PixelsLeft
  <1> QED
    BY <1>2, <1>3

\* A cursor has pixels to go exactly while it is above the bottom edge.
LEMMA LeftIffInside ==
  ASSUME NEW t \in Transfer, t.cur_x < t.w
  PROVE  /\ PixelsLeft(t) \in Int
         /\ PixelsLeft(t) > 0 <=> ~(t.cur_y >= t.h)
  <1>1. t.cur_x \in Nat /\ t.cur_y \in Nat /\ t.w \in Nat /\ t.h \in Nat
    BY DEF Transfer, Halves
  <1>2. \A a, b, w \in Nat : a >= b => a * w >= w * b
    OBVIOUS
  <1>3. \A a, b, w \in Nat : a + 1 <= b => a * w + w <= w * b
    OBVIOUS
  <1>4. t.cur_y >= t.h => t.cur_y * t.w >= t.w * t.h
    BY <1>1, <1>2
  <1>5. t.cur_y + 1 <= t.h => t.cur_y * t.w + t.w <= t.w * t.h
    BY <1>1, <1>3
  <1>6. t.cur_y * t.w \in Nat /\ t.w * t.h \in Nat
    BY <1>1
  <1> QED
    BY <1>1, <1>4, <1>5, <1>6 DEF PixelsLeft

------------------------------------------------------------------------------
(* One word of an image load *)

\* A pixel either advances the cursor by one or, past the last row, is dropped.
LEMMA PutPixelStep ==
  ASSUME NEW mem \in [Cells -> Halves], NEW t \in Transfer, NEW p \in Halves,
         t.cur_x < t.w
  PROVE  LET r == PutPixel([mem |-> mem, at |-> t], p)
         IN  /\ r = [mem |-> r.mem, at |-> r.at]
             /\ r.mem \in [Cells -> Halves]
             /\ r.at \in Transfer
             /\ r.at.cur_x < r.at.w
             /\ PixelsLeft(t) > 0 => PixelsLeft(r.at) = PixelsLeft(t) - 1
             /\ PixelsLeft(t) <= 0 => r.at = t
  <1>1. PixelsLeft(t) \in Int /\ (PixelsLeft(t) > 0 <=> ~(t.cur_y >= t.h))
    BY LeftIffInside
  <1>2. CASE t.cur_y >= t.h
    <2>1. PutPixel([mem |-> mem, at |-> t], p) = [mem |-> mem, at |-> t]
      BY <1>2 DEF PutPixel
    <2> QED
      BY <1>1, <1>2, <2>1
  <1>3. CASE ~(t.cur_y >= t.h)
    <2>1. PutPixel([mem |-> mem, at |-> t], p)
            = [mem |-> [mem EXCEPT ![CursorCell(t)] = p], at |-> Advance(t)]
      BY <1>3 DEF PutPixel
    <2>2. [mem EXCEPT ![CursorCell(t)] = p] \in [Cells -> Halves]
      OBVIOUS
    <2> QED
      BY <1>1, <1>3, <2>1, <2>2, AdvanceOne
  <1> QED
    BY <1>2, <1>3

------------------------------------------------------------------------------
(* The invariant *)

\* The type invariant, the buffer bound and the transfer counts hold in every
\* state gpu_gp0, gpu_read, the resets and the passing of time can reach.
LEMMA InitInv == Init => IInv
  <1> SUFFICES ASSUME Init PROVE IInv
    OBVIOUS
  <1>1. NoRectangle \in Transfer
    BY VramAssumption DEF NoRectangle, Transfer, Halves
  <1>a. 0 \in Halves
    BY DEF Halves
  <1>2. vram \in [Cells -> Halves]
    BY <1>a DEF Init
  <1>b. busy \in BOOLEAN /\ polyline \in [shaded : BOOLEAN, expect_color : BOOLEAN]
    BY DEF Init
  <1>c. gp0_mode \in Modes
    BY DEF Init, Modes
  <1>d. gp0_words_remaining \in Nat /\ gp0_command_method \in 0 .. 255
        /\ gp0_command \in Seq(Words) /\ image_store_words_remaining \in Nat
    BY DEF Init
  <1>3. TypeOK
    BY <1>1, <1>2, <1>b, <1>c, <1>d DEF Init, TypeOK
  <1> QED
    BY <1>3 DEF Init, IInv, BufferFits, TransfersCounted, PolylineUncounted, BUFFER_WORDS

\* What is left of a packet after one more of its words.
LEMMA PacketStep ==
  ASSUME IInv, NEW val \in Words, Accepts(val), gp0_mode # "POLYLINE"
  PROVE  /\ Method(val) \in 0 .. 255
         /\ Remaining(val) \in Nat
         /\ Buffered \in Seq(Words)
         /\ Len(Buffered) < BUFFER_WORDS
         /\ gp0_mode # "IMAGE_LOAD" =>
                Len(Buffered) + Remaining(val) + 1 < BUFFER_WORDS
  <1>1. Op(val) \in 0 .. 255 /\ CommandLength(Op(val)) \in 0 .. 12
    BY OpIsByte, LengthBound
  <1>2. CASE AtBoundary
    <2>1. Buffered = << >> /\ Method(val) = Op(val)
          /\ Remaining(val) = CommandLength(Op(val)) - 1
      BY <1>2 DEF Buffered, Method, Remaining
    <2>2. CommandLength(Op(val)) # 0
      BY <1>2 DEF Accepts
    <2>3. << >> \in Seq(Words) /\ Len(<< >>) = 0
      OBVIOUS
    <2> QED
      BY <1>1, <2>1, <2>2, <2>3 DEF BUFFER_WORDS
  <1>3. CASE ~AtBoundary
    <2>1. Buffered = gp0_command /\ Method(val) = gp0_command_method
          /\ Remaining(val) = gp0_words_remaining - 1
      BY <1>3 DEF Buffered, Method, Remaining
    <2>2. gp0_words_remaining \in Nat \ {0} /\ gp0_command \in Seq(Words)
          /\ gp0_command_method \in 0 .. 255
      BY <1>3 DEF IInv, TypeOK, AtBoundary
    <2>3. /\ Len(gp0_command) < BUFFER_WORDS
          /\ gp0_mode # "IMAGE_LOAD" =>
                Len(gp0_command) + gp0_words_remaining < BUFFER_WORDS
      BY DEF IInv, TypeOK, BufferFits, Modes
    <2> QED
      BY <2>1, <2>2, <2>3 DEF BUFFER_WORDS
  <1> QED
    BY <1>2, <1>3

LEMMA PolylineWordInv ==
  ASSUME IInv, NEW val \in Words, PolylineWord(val) PROVE IInv'
  <1>1. vram' \in [Cells -> Halves]
    BY ColoursAssumption DEF IInv, TypeOK, PolylineWord
  <1>2. gp0_mode' \in {"COMMAND", "POLYLINE"}
    BY DEF PolylineWord
  <1>3. polyline' \in [shaded : BOOLEAN, expect_color : BOOLEAN]
    BY DEF IInv, TypeOK, PolylineWord
  <1>4. busy' \in BOOLEAN
    BY DEF IInv, TypeOK, PolylineWord
  <1>5. gp0_words_remaining = 0
    BY DEF IInv, PolylineUncounted, PolylineWord
  <1>6. UNCHANGED << gp0_words_remaining, gp0_command_method, gp0_command,
                     image_load, image_store, image_store_words_remaining >>
    BY DEF PolylineWord
  <1>7. TypeOK'
    BY <1>1, <1>2, <1>3, <1>4, <1>6 DEF IInv, TypeOK, Modes
  <1>8. BufferFits'
    BY <1>5, <1>6 DEF IInv, TypeOK, BufferFits, BUFFER_WORDS
  <1> QED
    BY <1>2, <1>5, <1>6, <1>7, <1>8 DEF IInv, TransfersCounted, PolylineUncounted

\* A size starts a transfer whose words are counted right.
LEMMA TransferStart ==
  ASSUME NEW corner \in Words, NEW size \in Words,
         Rectangle(corner, size).w # 0, Rectangle(corner, size).h # 0
  PROVE  LET t == Rectangle(corner, size)
         IN  /\ WordsFor(t.w * t.h) \in Nat
             /\ Counted(t, WordsFor(t.w * t.h))
  <1> DEFINE t == Rectangle(corner, size)
  <1>1. /\ t.w \in Nat \ {0} /\ t.h \in Nat \ {0} /\ t.cur_x = 0
        /\ PixelsLeft(t) = t.w * t.h
    BY RectangleFresh
  <1>2. t.w * t.h \in Nat \ {0}
    BY <1>1
  <1>3. WordsFor(t.w * t.h) \in Nat \ {0} /\ 2 * WordsFor(t.w * t.h) - t.w * t.h \in {0, 1}
    BY <1>2, WordsForBound
  <1> QED
    BY <1>1, <1>3 DEF Counted

\* The method of a complete packet.
LEMMA ExecuteInv ==
  ASSUME IInv, NEW val \in Words, CommandWord(val), Remaining(val) = 0 PROVE IInv'
  <1> DEFINE op == Method(val)
             command == Append(Buffered, val)
  <1>1. /\ op \in 0 .. 255 /\ Buffered \in Seq(Words)
        /\ Len(Buffered) + 1 < BUFFER_WORDS
    BY PacketStep DEF CommandWord, BUFFER_WORDS
  <1>2. /\ gp0_command_method' = op
        /\ gp0_command' = command
        /\ command \in Seq(Words) /\ Len(command) = Len(Buffered) + 1
    BY <1>1 DEF CommandWord
  <1>3. Execute(op, command)
    BY DEF CommandWord
  <1>4. busy' \in BOOLEAN
    <2>1. busy' = (busy \/ Paints(Op(command[1])))
      BY <1>3 DEF Execute
    <2> QED
      BY <2>1
  <1> DEFINE Rest == /\ gp0_mode' \in Modes
                     /\ gp0_words_remaining' \in Nat
                     /\ image_load' \in Transfer
                     /\ image_store' \in Transfer
                     /\ image_store_words_remaining' \in Nat
                     /\ polyline' \in [shaded : BOOLEAN, expect_color : BOOLEAN]
                     /\ vram' \in [Cells -> Halves]
                     /\ gp0_mode' # "IMAGE_LOAD" => gp0_words_remaining' = 0
                     /\ TransfersCounted'
  <1>5. SUFFICES Rest
    <2>1. TypeOK'
      BY <1>1, <1>2, <1>4 DEF TypeOK
    <2>2. BufferFits'
      BY <1>1, <1>2 DEF BufferFits, Modes, BUFFER_WORDS
    <2> QED
      BY <2>1, <2>2 DEF IInv, PolylineUncounted
  <1>6. /\ gp0_mode = "COMMAND" /\ gp0_mode \in Modes
        /\ image_load \in Transfer /\ image_store \in Transfer
        /\ image_store_words_remaining \in Nat
        /\ polyline \in [shaded : BOOLEAN, expect_color : BOOLEAN]
        /\ vram \in [Cells -> Halves]
    BY DEF IInv, TypeOK, CommandWord
  <1>7. ASSUME NEW corner \in Words, NEW size \in Words, ImageLoad(corner, size)
        PROVE  Rest
    <2> DEFINE t == Rectangle(corner, size)
    <2>1. CASE t.w = 0 \/ t.h = 0
      BY <1>6, <1>7, <2>1 DEF ImageLoad, TransfersCounted, Modes
    <2>2. CASE ~(t.w = 0 \/ t.h = 0)
      <3>1. t \in Transfer
        BY RectangleFresh
      <3>2. WordsFor(t.w * t.h) \in Nat /\ Counted(t, WordsFor(t.w * t.h))
        BY <2>2, TransferStart
      <3>3. /\ image_load' = t /\ gp0_words_remaining' = WordsFor(t.w * t.h)
            /\ gp0_mode' = "IMAGE_LOAD"
            /\ UNCHANGED << image_store, image_store_words_remaining, polyline, vram >>
        BY <1>7, <2>2 DEF ImageLoad
      <3>4. TransfersCounted'
        BY <3>2, <3>3 DEF TransfersCounted
      <3> QED
        BY <1>6, <3>1, <3>2, <3>3, <3>4 DEF Modes
    <2> QED
      BY <2>1, <2>2
  <1>8. ASSUME NEW corner \in Words, NEW size \in Words, ImageStore(corner, size)
        PROVE  Rest
    <2> DEFINE t == Rectangle(corner, size)
    <2>1. CASE t.w = 0 \/ t.h = 0
      BY <1>6, <1>8, <2>1 DEF ImageStore, TransfersCounted, Modes
    <2>2. CASE ~(t.w = 0 \/ t.h = 0)
      <3>1. t \in Transfer
        BY RectangleFresh
      <3>2. WordsFor(t.w * t.h) \in Nat /\ Counted(t, WordsFor(t.w * t.h))
        BY <2>2, TransferStart
      <3>3. /\ image_store' = t /\ image_store_words_remaining' = WordsFor(t.w * t.h)
            /\ gp0_mode' = "IMAGE_STORE" /\ gp0_words_remaining' = 0
            /\ UNCHANGED << image_load, polyline, vram >>
        BY <1>8, <2>2 DEF ImageStore
      <3>4. TransfersCounted'
        BY <3>2, <3>3 DEF TransfersCounted
      <3> QED
        BY <1>6, <3>1, <3>2, <3>3, <3>4 DEF Modes
    <2> QED
      BY <2>1, <2>2
  <1>9. ASSUME PolylineStart(op) PROVE Rest
    <2>1. polyline' \in [shaded : BOOLEAN, expect_color : BOOLEAN]
      BY <1>9 DEF PolylineStart
    <2> QED
      BY <1>6, <1>9, <2>1 DEF PolylineStart, TransfersCounted, Modes
  <1>10. ASSUME NEW cells \in SUBSET Cells, NEW image \in [Cells -> Colours],
                Paint(cells, image)
         PROVE  Rest
    <2>1. vram' \in [Cells -> Halves]
      BY <1>6, <1>10, ColoursAssumption DEF Paint
    <2> QED
      BY <1>6, <1>10, <2>1 DEF Paint, TransfersCounted, Modes
  <1>11. ASSUME SetEnvironment PROVE Rest
    BY <1>6, <1>11 DEF SetEnvironment, TransfersCounted, Modes
  <1>12. \/ \E corner, size \in Words : ImageLoad(corner, size) \/ ImageStore(corner, size)
         \/ PolylineStart(op)
         \/ \E cells \in SUBSET Cells, image \in [Cells -> Colours] : Paint(cells, image)
         \/ SetEnvironment
    BY <1>3 DEF Execute
  <1> QED
    BY <1>7, <1>8, <1>9, <1>10, <1>11, <1>12

LEMMA CommandWordInv ==
  ASSUME IInv, NEW val \in Words, CommandWord(val) PROVE IInv'
  <1>1. CASE Remaining(val) = 0
    BY <1>1, ExecuteInv
  <1>2. CASE Remaining(val) # 0
    <2>1. /\ Method(val) \in 0 .. 255 /\ Remaining(val) \in Nat
          /\ Buffered \in Seq(Words)
          /\ Len(Buffered) + Remaining(val) + 1 < BUFFER_WORDS
      BY PacketStep DEF CommandWord
    <2>2. /\ gp0_command_method' = Method(val)
          /\ gp0_command' = Append(Buffered, val)
          /\ gp0_words_remaining' = Remaining(val)
          /\ gp0_mode = "COMMAND"
          /\ UNCHANGED << gp0_mode, image_load, image_store,
                          image_store_words_remaining, polyline, busy, vram >>
      BY <1>2 DEF CommandWord
    <2>3. Append(Buffered, val) \in Seq(Words)
          /\ Len(Append(Buffered, val)) = Len(Buffered) + 1
          /\ Len(Buffered) \in Nat
      BY <2>1
    <2>4. TypeOK'
      BY <2>1, <2>2, <2>3 DEF IInv, TypeOK
    <2>5. BufferFits'
      BY <2>1, <2>2, <2>3 DEF BufferFits, BUFFER_WORDS
    <2> QED
      BY <2>2, <2>4, <2>5 DEF IInv, TransfersCounted, PolylineUncounted
  <1> QED
    BY <1>1, <1>2

LEMMA LoadWordInv ==
  ASSUME IInv, NEW val \in Words, LoadWord(val) PROVE IInv'
  <1> DEFINE one == PutPixel([mem |-> vram, at |-> image_load], val[2])
             two == PutPixel(one, val[1])
  <1>1. /\ val[1] \in Halves /\ val[2] \in Halves
        /\ image_load \in Transfer /\ vram \in [Cells -> Halves]
        /\ gp0_words_remaining \in Nat
    BY WordsAssumption DEF IInv, TypeOK
  <1>2. /\ gp0_words_remaining > 0 /\ image_load.cur_x < image_load.w
        /\ 2 * gp0_words_remaining - PixelsLeft(image_load) \in {0, 1}
    BY DEF IInv, TransfersCounted, Counted, LoadWord
  <1>3. PixelsLeft(image_load) \in Int
    BY <1>1, <1>2, LeftIffInside
  <1>4. PixelsLeft(image_load) > 0
    BY <1>1, <1>2, <1>3
  <1>5. /\ one = [mem |-> one.mem, at |-> one.at]
        /\ one.mem \in [Cells -> Halves] /\ one.at \in Transfer
        /\ one.at.cur_x < one.at.w
        /\ PixelsLeft(one.at) = PixelsLeft(image_load) - 1
    BY <1>1, <1>2, <1>4, PutPixelStep
  <1>6. /\ two.mem \in [Cells -> Halves] /\ two.at \in Transfer
        /\ two.at.cur_x < two.at.w
        /\ PixelsLeft(one.at) > 0 => PixelsLeft(two.at) = PixelsLeft(one.at) - 1
    <2> HIDE DEF one
    <2>1. two = PutPixel([mem |-> one.mem, at |-> one.at], val[1])
      BY <1>5
    <2> DEFINE mem == one.mem
               at == one.at
    <2>2. mem \in [Cells -> Halves] /\ at \in Transfer /\ at.cur_x < at.w
      BY <1>5
    <2> HIDE DEF mem, at, two
    <2>3. PICK v \in Halves : v = val[1]
      BY <1>1
    <2>4. two = PutPixel([mem |-> mem, at |-> at], v) /\ at = one.at
      BY <2>1, <2>3, Zenon DEF mem, at
    <2>5. LET r == PutPixel([mem |-> mem, at |-> at], v)
          IN  /\ r.mem \in [Cells -> Halves] /\ r.at \in Transfer
              /\ r.at.cur_x < r.at.w
              /\ PixelsLeft(at) > 0 => PixelsLeft(r.at) = PixelsLeft(at) - 1
      BY ONLY <2>2, v \in Halves, PutPixelStep, Zenon
    <2> QED
      BY <2>4, <2>5, Zenon
  <1>7. vram' = two.mem /\ image_load' = two.at
    BY DEF LoadWord
  <1>8. ~AtBoundary
    BY <1>2 DEF AtBoundary
  <1>9. /\ gp0_words_remaining' = gp0_words_remaining - 1
        /\ gp0_command' = gp0_command
        /\ gp0_command_method' = gp0_command_method
        /\ gp0_mode' = IF gp0_words_remaining - 1 = 0 THEN "COMMAND" ELSE "IMAGE_LOAD"
        /\ UNCHANGED << image_store, image_store_words_remaining, polyline, busy >>
    BY <1>8 DEF LoadWord, Remaining, Buffered, Method
  <1> HIDE DEF one, two
  <1>10. TypeOK'
    <2>1. gp0_mode' \in Modes /\ gp0_words_remaining' \in Nat
      BY <1>1, <1>2, <1>9 DEF Modes
    <2> QED
      BY <1>6, <1>7, <1>9, <2>1 DEF IInv, TypeOK
  <1>11. BufferFits'
    BY <1>1, <1>2, <1>9 DEF IInv, TypeOK, BufferFits, BUFFER_WORDS
  <1>12. gp0_words_remaining - 1 # 0 => Counted(image_load', gp0_words_remaining')
    <2> SUFFICES ASSUME gp0_words_remaining - 1 # 0
                 PROVE  Counted(two.at, gp0_words_remaining - 1)
      BY <1>7, <1>9
    <2>0. gp0_words_remaining >= 2
      BY <1>1, <1>2
    <2>1. PixelsLeft(one.at) > 0
      BY <1>1, <1>2, <1>3, <1>5, <2>0
    <2>2. PixelsLeft(two.at) = PixelsLeft(image_load) - 2
      BY <1>3, <1>5, <1>6, <2>1
    <2> QED
      BY <1>1, <1>2, <1>3, <1>6, <2>0, <2>2 DEF Counted
  <1>13. TransfersCounted'
    BY <1>9, <1>12 DEF TransfersCounted
  <1> QED
    BY <1>9, <1>10, <1>11, <1>13 DEF IInv, PolylineUncounted

LEMMA StoreWordInv ==
  ASSUME IInv, NEW val \in Words, StoreWord(val) PROVE IInv'
  <1>1. /\ Method(val) \in 0 .. 255 /\ Remaining(val) \in Nat
        /\ Buffered \in Seq(Words)
        /\ Len(Buffered) + Remaining(val) + 1 < BUFFER_WORDS
        /\ Len(Buffered) \in Nat
    <2>1. Accepts(val) /\ gp0_mode # "POLYLINE" /\ gp0_mode # "IMAGE_LOAD"
      BY DEF StoreWord
    <2>2. /\ Method(val) \in 0 .. 255 /\ Remaining(val) \in Nat
          /\ Buffered \in Seq(Words)
          /\ Len(Buffered) + Remaining(val) + 1 < BUFFER_WORDS
      BY <2>1, PacketStep, Zenon
    <2> QED
      BY <2>2
  <1>2. TypeOK'
    BY <1>1 DEF IInv, TypeOK, StoreWord
  <1>3. BufferFits'
    BY <1>1 DEF BufferFits, BUFFER_WORDS, StoreWord
  <1> QED
    BY <1>2, <1>3 DEF IInv, TransfersCounted, PolylineUncounted, StoreWord

LEMMA ReadInv == ASSUME IInv, gpu_read PROVE IInv'
  <1> DEFINE t == image_store
             n == image_store_words_remaining
  <1>1. t \in Transfer /\ n \in Nat
    BY DEF IInv, TypeOK
  <1>2. n > 0 /\ t.cur_x < t.w /\ 2 * n - PixelsLeft(t) \in {0, 1}
    BY DEF IInv, TransfersCounted, Counted, gpu_read
  <1>3. PixelsLeft(t) \in Int
    BY <1>1, <1>2, LeftIffInside
  <1>4. /\ Advance(t) \in Transfer /\ Advance(t).cur_x < Advance(t).w
        /\ PixelsLeft(Advance(t)) = PixelsLeft(t) - 1
    BY <1>1, <1>2, AdvanceOne
  <1>5. /\ Advance(Advance(t)) \in Transfer
        /\ Advance(Advance(t)).cur_x < Advance(Advance(t)).w
        /\ PixelsLeft(Advance(Advance(t))) = PixelsLeft(t) - 1 - 1
    BY <1>4, AdvanceOne
  <1>6. /\ image_store' = Advance(Advance(t)) /\ image_store_words_remaining' = n - 1
        /\ gp0_mode = "IMAGE_STORE"
        /\ gp0_mode' = IF n = 1 THEN "COMMAND" ELSE "IMAGE_STORE"
        /\ UNCHANGED << gp0_words_remaining, gp0_command_method, gp0_command,
                        image_load, polyline, busy, vram >>
    BY DEF gpu_read
  <1>7. TypeOK'
    <2>1. gp0_mode' \in Modes /\ image_store_words_remaining' \in Nat
      BY <1>1, <1>2, <1>6 DEF Modes
    <2> QED
      BY <1>5, <1>6, <2>1 DEF IInv, TypeOK
  <1>8. n # 1 => Counted(Advance(Advance(t)), n - 1)
    BY <1>1, <1>2, <1>3, <1>5 DEF Counted
  <1>9. TransfersCounted'
    BY <1>6, <1>8 DEF TransfersCounted
  <1>10. BufferFits'
    BY <1>6 DEF IInv, BufferFits
  <1> QED
    BY <1>6, <1>7, <1>9, <1>10 DEF IInv, PolylineUncounted

LEMMA ResetInv == ASSUME IInv, gp1_reset_command_buffer PROVE IInv'
  <1>1. polyline' \in [shaded : BOOLEAN, expect_color : BOOLEAN] /\ busy' \in BOOLEAN
    BY DEF gp1_reset_command_buffer
  <1>2. << >> \in Seq(Words) /\ Len(<< >>) = 0
    OBVIOUS
  <1>3. TypeOK'
    BY <1>1, <1>2 DEF IInv, TypeOK, Modes, gp1_reset_command_buffer
  <1>4. BufferFits'
    BY <1>2 DEF BufferFits, BUFFER_WORDS, gp1_reset_command_buffer
  <1> QED
    BY <1>3, <1>4 DEF IInv, TransfersCounted, PolylineUncounted,
                      gp1_reset_command_buffer

\* Time only changes the busy flag.
LEMMA BusyInv == ASSUME IInv, DrainBusy \/ DmaBusy PROVE IInv'
  <1>1. busy' \in BOOLEAN
    BY DEF DrainBusy, DmaBusy
  <1>2. UNCHANGED << gp0_mode, gp0_words_remaining, gp0_command_method, gp0_command,
                     image_load, image_store, image_store_words_remaining,
                     polyline, vram >>
    BY DEF DrainBusy, DmaBusy
  <1> QED
    BY <1>1, <1>2 DEF IInv, TypeOK, BufferFits, TransfersCounted, PolylineUncounted

LEMMA StepInv == IInv /\ [Next]_vars => IInv'
  <1> SUFFICES ASSUME IInv, [Next]_vars PROVE IInv'
    OBVIOUS
  <1>1. CASE UNCHANGED vars
    BY <1>1 DEF vars, IInv, TypeOK, BufferFits, TransfersCounted, PolylineUncounted
  <1>2. ASSUME NEW val \in Words, gpu_gp0(val) PROVE IInv'
    <2>1. CASE PolylineWord(val)
      BY <2>1, PolylineWordInv
    <2>2. CASE UnhandledWord(val)
      BY <1>1, <2>2 DEF UnhandledWord
    <2>3. CASE CommandWord(val)
      BY <2>3, CommandWordInv
    <2>4. CASE LoadWord(val)
      BY <2>4, LoadWordInv
    <2>5. CASE StoreWord(val)
      BY <2>5, StoreWordInv
    <2> QED
      BY <1>2, <2>1, <2>2, <2>3, <2>4, <2>5 DEF gpu_gp0
  <1>3. CASE gpu_read
    BY <1>3, ReadInv
  <1>4. CASE gp1_reset_command_buffer
    BY <1>4, ResetInv
  <1>5. CASE DrainBusy \/ DmaBusy
    BY <1>5, BusyInv
  <1> QED
    BY <1>1, <1>2, <1>3, <1>4, <1>5 DEF Next

------------------------------------------------------------------------------
(* Theorems *)

\* gpu_gp0 and the transfers keep their types under every stream of words.
THEOREM TypeCorrect == Spec => []TypeOK
  <1>1. IInv => TypeOK
    BY DEF IInv
  <1> QED
    BY InitInv, StepInv, <1>1, PTL DEF Spec

\* cb_push never writes past the end of the command buffer, whatever is written
\* to GP0 and whenever it is read or reset.
THEOREM BufferNeverOverrun == Spec => []BufferFits
  <1>1. IInv => BufferFits
    BY DEF IInv
  <1> QED
    BY InitInv, StepInv, <1>1, PTL DEF Spec

\* For images of every size the cursor that gpu_gp0 or gpu_read walks over the
\* rectangle and the count of words to go agree after every word.
THEOREM TransfersStayCounted == Spec => []TransfersCounted
  <1>1. IInv => TransfersCounted
    BY DEF IInv
  <1> QED
    BY InitInv, StepInv, <1>1, PTL DEF Spec
------------------------------------------------------------------------------
(* A whole packet on its way                                                 *)

Sent == Len(packet) - Len(todo)

Opcode == Op(packet[1])

\* What is still to be written is the rest of the packet.
Track ==
    /\ packet \in Seq(Words) /\ todo \in Seq(Words)
    /\ Len(todo) <= Len(packet)
    /\ \A i \in 1 .. Len(todo) : todo[i] = packet[Sent + i]
    /\ packet # << >> => WholePacket(packet)
    /\ todo # << >> => got = << >>

\* Before the first and after the last word no packet is being counted.
AtRest ==
    /\ todo = << >> \/ Sent = 0 => gp0_words_remaining = 0
    /\ todo = << >> => gp0_mode \in {"COMMAND", "IMAGE_STORE"}
    /\ todo # << >> /\ Sent = 0 => gp0_mode = "COMMAND"

\* The words up to the length the opcode gives are buffered and counted.
Collecting ==
    todo # << >> /\ Sent > 0 /\ Sent < CommandLength(Opcode) =>
        /\ gp0_mode = "COMMAND"
        /\ gp0_words_remaining = CommandLength(Opcode) - Sent
        /\ gp0_command_method = Opcode
        /\ Len(gp0_command) = Sent
        /\ \A i \in 1 .. Sent : gp0_command[i] = packet[i]

\* Only image loads and polylines go on after that.
Drawing ==
    todo # << >> /\ Sent > 0 /\ Sent >= CommandLength(Opcode) /\ Opcode # 160 =>
        /\ Opcode \in Polylines
        /\ gp0_mode = "POLYLINE" /\ gp0_words_remaining = 0
        /\ polyline.shaded = (Opcode \in 88 .. 95)
        /\ polyline.shaded => polyline.expect_color = (Sent % 2 = 0)

\* The cell and the value of the i-th pixel of a transfer packet.
Width(p) == p[3][2]
Height(p) == p[3][1]
AreaCell(p, i) == << (p[2][2] + ((i - 1) % Width(p))) % VRAM_W,
                     (p[2][1] + ((i - 1) \div Width(p))) % VRAM_H >>
Pixel(p, i) == p[4 + ((i - 1) \div 2)][IF i % 2 = 1 THEN 2 ELSE 1]

\* From VRAM `old' to VRAM `new' the first k pixels of a load packet have been
\* put in place, a later one covering an earlier one in the same cell.
Placed(p, k, old, new) ==
    /\ \A c \in Cells : (\A i \in 1 .. k : AreaCell(p, i) # c) => new[c] = old[c]
    /\ \A i \in 1 .. k : (\A j \in i + 1 .. k : AreaCell(p, j) # AreaCell(p, i))
                             => new[AreaCell(p, i)] = Pixel(p, i)

\* A transfer of packet p that has k pixels behind it.
Walks(t, p, k) ==
    /\ t.x = p[2][2] % VRAM_W /\ t.y = p[2][1] % VRAM_H
    /\ t.w = Width(p) /\ t.h = Height(p)
    /\ t.w * t.h - PixelsLeft(t) = k

Loading ==
    Sends(160) =>
        /\ todo # << >> /\ Sent < 3 => vram = before
        /\ todo # << >> /\ Sent >= 3 =>
               /\ gp0_mode = "IMAGE_LOAD"
               /\ gp0_words_remaining = Len(todo)
               /\ Walks(image_load, packet, 2 * (Sent - 3))
               /\ Placed(packet, 2 * (Sent - 3), before, vram)
        /\ todo = << >> => Placed(packet, Width(packet) * Height(packet), before, vram)

Storing ==
    Sends(192) /\ todo = << >> =>
        /\ \A j \in 1 .. Len(got) :
               j <= Width(packet) * Height(packet) => got[j] = AreaCell(packet, j)
        /\ gp0_mode = "IMAGE_STORE" => Walks(image_store, packet, Len(got))
        /\ gp0_mode # "IMAGE_STORE" => Len(got) >= Width(packet) * Height(packet)

DriverTypes ==
    /\ got \in Seq(Cells)
    /\ before \in [Cells -> Halves]

DInv == /\ IInv /\ Track /\ AtRest /\ Collecting /\ Drawing
        /\ DriverTypes /\ Loading /\ Storing

------------------------------------------------------------------------------
(* The length of a whole packet *)

LEMMA PacketLength ==
  ASSUME NEW p \in Seq(Words), p # << >>, WholePacket(p)
  PROVE  /\ Op(p[1]) \in 0 .. 255
         /\ CommandLength(Op(p[1])) \in 0 .. 12
         /\ Op(p[1]) = 160 => /\ CommandLength(160) = 3
                              /\ Len(p) >= 3
                              /\ Len(p) = 3 + DataWords(p)
         /\ Op(p[1]) = 192 => CommandLength(192) = 3
         /\ Op(p[1]) \in Polylines => CommandLength(Op(p[1])) = 2 /\ Len(p) > 2
         /\ Op(p[1]) \notin {160} \cup Polylines =>
                Len(p) = IF CommandLength(Op(p[1])) = 0 THEN 1 ELSE CommandLength(Op(p[1]))
  <1>1. p[1] \in Words
    OBVIOUS
  <1>2. Op(p[1]) \in 0 .. 255 /\ CommandLength(Op(p[1])) \in 0 .. 12
    BY <1>1, OpIsByte, LengthBound
  <1>3. CommandLength(160) = 3 /\ CommandLength(192) = 3
    BY DEF CommandLength
  <1>4. ASSUME NEW op \in Polylines PROVE CommandLength(op) = 2
    <2>1. op \in Int /\ ((72 <= op /\ op <= 79) \/ (88 <= op /\ op <= 95))
      BY DEF Polylines
    <2>2. op \in (72 .. 79) \cup (88 .. 95) \cup (104 .. 107) \cup (112 .. 115) \cup (120 .. 123)
      BY <2>1
    <2>3. /\ op \notin {0, 1} \cup (225 .. 230)
          /\ op \notin {2, 160, 192} \cup (64 .. 71) \cup (96 .. 99) \cup (108 .. 111)
                       \cup (116 .. 119) \cup (124 .. 127)
          /\ op \notin (32 .. 35) \cup (80 .. 87) \cup (100 .. 103) \cup {128}
      BY <2>1
    <2>4. /\ op \notin 40 .. 43 /\ op \notin 48 .. 51 /\ op \notin 36 .. 39
          /\ op \notin 56 .. 59 /\ op \notin (44 .. 47) \cup (52 .. 55) /\ op \notin 60 .. 63
      BY <2>1
    <2> QED
      BY <2>2, <2>3, <2>4 DEF CommandLength
  <1> QED
    BY <1>2, <1>3, <1>4 DEF WholePacket

\* The first word and the rest of a packet being written.
LEMMA TailWord ==
  ASSUME NEW s \in Seq(Words), s # << >>
  PROVE  /\ Len(s) \in Nat \ {0}
         /\ Tail(s) \in Seq(Words) /\ Len(Tail(s)) = Len(s) - 1
         /\ Head(s) = s[1] /\ Head(s) \in Words
         /\ \A i \in 1 .. Len(s) - 1 : Tail(s)[i] = s[i + 1]
         /\ (Tail(s) = << >> <=> Len(s) = 1)
  <1>1. Len(s) \in Nat \ {0} /\ Tail(s) \in Seq(Words) /\ Len(Tail(s)) = Len(s) - 1
    OBVIOUS
  <1>2. Head(s) = s[1] /\ Head(s) \in Words
    OBVIOUS
  <1>3. \A i \in 1 .. Len(s) - 1 : Tail(s)[i] = s[i + 1]
    OBVIOUS
  <1>4. Tail(s) = << >> <=> Len(s) = 1
    <2>1. PICK t \in Seq(Words) : t = Tail(s)
      BY <1>1, Zenon
    <2>2. t = << >> <=> Len(t) = 0
      OBVIOUS
    <2>3. Len(t) = Len(s) - 1
      BY <1>1, <2>1, Zenon
    <2>4. Len(t) = 0 <=> Len(s) = 1
      BY <1>1, <2>3
    <2> QED
      BY <2>1, <2>2, <2>4, Zenon
  <1> QED
    BY <1>1, <1>2, <1>3, <1>4

\* The word that Send writes, and what is left of the packet after it.
LEMMA SendTrack ==
  ASSUME Track, Send
  PROVE  /\ packet # << >> /\ WholePacket(packet)
         /\ Sent \in Nat /\ Sent < Len(packet)
         /\ Head(todo) = packet[Sent + 1] /\ Head(todo) \in Words
         /\ gpu_gp0(Head(todo))
         /\ Sent' = Sent + 1 /\ Opcode' = Opcode
         /\ (todo' = << >> <=> Sent + 1 = Len(packet))
         /\ Len(todo) = Len(packet) - Sent /\ Len(todo') = Len(packet) - Sent - 1
         /\ UNCHANGED << packet, before, got >> /\ got = << >>
         /\ Track'
  <1>1. /\ packet \in Seq(Words) /\ todo \in Seq(Words) /\ todo # << >>
        /\ Len(todo) <= Len(packet)
        /\ \A i \in 1 .. Len(todo) : todo[i] = packet[Sent + i]
        /\ todo' = Tail(todo) /\ UNCHANGED << packet, before, got >>
        /\ gpu_gp0(Head(todo)) /\ got = << >>
    BY DEF Track, Send
  <1>2. /\ Len(todo) \in Nat \ {0} /\ Len(packet) \in Nat
        /\ Tail(todo) \in Seq(Words) /\ Len(Tail(todo)) = Len(todo) - 1
        /\ Head(todo) = todo[1] /\ Head(todo) \in Words
        /\ \A i \in 1 .. Len(todo) - 1 : Tail(todo)[i] = todo[i + 1]
        /\ (Tail(todo) = << >> <=> Len(todo) = 1)
    BY <1>1, TailWord
  <1>3. Sent = Len(packet) - Len(todo) /\ Sent' = Len(packet) - (Len(todo) - 1)
    BY <1>1, <1>2 DEF Sent
  <1>4. packet # << >> /\ WholePacket(packet)
    BY <1>1, <1>2 DEF Track
  <1>5. Head(todo) = packet[Sent + 1]
    BY <1>1, <1>2
  <1>6. ASSUME NEW i \in 1 .. Len(todo') PROVE todo'[i] = packet'[Sent' + i]
    <2>1. i \in 1 .. Len(todo) - 1 /\ i + 1 \in 1 .. Len(todo)
      BY <1>1, <1>2
    <2>2. todo'[i] = packet[Sent + (i + 1)]
      BY <1>1, <1>2, <2>1
    <2>3. Sent + (i + 1) = Sent' + i
      BY <1>2, <1>3, <2>1
    <2> QED
      BY <1>1, <2>2, <2>3
  <1>7. Track'
    BY <1>1, <1>2, <1>4, <1>6 DEF Track, WholePacket, DataWords, PolylineEnds
  <1> QED
    BY <1>1, <1>2, <1>3, <1>4, <1>5, <1>7 DEF Opcode

\* What the rest of the invariant says of a packet and of VRAM.
Course == AtRest /\ Collecting /\ Drawing /\ Loading /\ Storing

\* A word of the packet's head is buffered; the counters say how many are to
\* come.
LEMMA HeadWord ==
  ASSUME DInv, Send, Sent < CommandLength(Opcode)
  PROVE  /\ gp0_mode = "COMMAND"
         /\ CommandWord(Head(todo))
         /\ Method(Head(todo)) = Opcode
         /\ Remaining(Head(todo)) = CommandLength(Opcode) - Sent - 1
         /\ Buffered \in Seq(Words) /\ Len(Buffered) = Sent
         /\ \A i \in 1 .. Sent : Buffered[i] = packet[i]
  <1>1. /\ packet # << >> /\ WholePacket(packet) /\ packet \in Seq(Words)
        /\ Sent \in Nat /\ Sent < Len(packet) /\ todo # << >>
        /\ Head(todo) = packet[Sent + 1] /\ gpu_gp0(Head(todo))
    BY SendTrack DEF DInv, Track, Send
  <1>2. CommandLength(Opcode) \in 1 .. 12
    BY <1>1, PacketLength DEF Opcode
  <1>3. gp0_mode = "COMMAND"
    BY <1>1 DEF DInv, AtRest, Collecting
  <1>4. CASE Sent = 0
    <2>1. AtBoundary /\ Op(Head(todo)) = Opcode
      BY <1>1, <1>4 DEF DInv, AtRest, AtBoundary, Opcode
    <2>2. CommandWord(Head(todo))
      BY <1>1, <1>2, <1>3, <2>1 DEF gpu_gp0, PolylineWord, UnhandledWord, LoadWord, StoreWord
    <2>3. /\ Method(Head(todo)) = Opcode /\ Buffered = << >>
          /\ Remaining(Head(todo)) = CommandLength(Opcode) - 1
      BY <2>1 DEF Method, Remaining, Buffered
    <2> QED
      BY <1>2, <1>3, <1>4, <2>2, <2>3
  <1>5. CASE Sent # 0
    <2>1. /\ gp0_words_remaining = CommandLength(Opcode) - Sent
          /\ gp0_command_method = Opcode
          /\ Len(gp0_command) = Sent /\ gp0_command \in Seq(Words)
          /\ \A i \in 1 .. Sent : gp0_command[i] = packet[i]
      BY <1>1, <1>5 DEF DInv, Collecting, IInv, TypeOK
    <2>2. gp0_words_remaining # 0
      <3>1. PICK c \in 1 .. 12, n \in Nat : c = CommandLength(Opcode) /\ n = Sent
        BY <1>1, <1>2, Zenon
      <3>2. n < c
        BY <3>1, Zenon
      <3>3. c - n # 0
        BY <3>1, <3>2
      <3> QED
        BY <2>1, <3>1, <3>3, Zenon
    <2>3. ~AtBoundary
      BY <2>2 DEF AtBoundary
    <2>5. CommandWord(Head(todo))
      BY <1>1, <1>3, <2>3 DEF gpu_gp0, PolylineWord, UnhandledWord, LoadWord, StoreWord
    <2>4. /\ Method(Head(todo)) = Opcode /\ Buffered = gp0_command
          /\ Remaining(Head(todo)) = CommandLength(Opcode) - Sent - 1
      BY <2>1, <2>3 DEF Method, Remaining, Buffered
    <2> QED
      BY <1>3, <2>1, <2>4, <2>5
  <1> QED
    BY <1>4, <1>5

\* A word of the packet added to those that are buffered.
LEMMA BufferGrows ==
  ASSUME NEW f \in Seq(Words), NEW w \in Words, NEW p, NEW n, n = Len(f),
         \A i \in 1 .. n : f[i] = p[i], w = p[n + 1]
  PROVE  Len(Append(f, w)) = n + 1 /\ \A i \in 1 .. n + 1 : Append(f, w)[i] = p[i]
  <1>1. n \in Nat /\ Len(Append(f, w)) = n + 1
    OBVIOUS
  <1>2. \A i \in 1 .. n : Append(f, w)[i] = f[i]
    OBVIOUS
  <1>3. Append(f, w)[n + 1] = w
    OBVIOUS
  <1>4. \A i \in 1 .. n + 1 : i \in 1 .. n \/ i = n + 1
    BY <1>1
  <1> QED
    BY <1>1, <1>2, <1>3, <1>4, Zenon

\* A word that does not complete the head.
LEMMA CollectKeeps ==
  ASSUME DInv, Send, Sent + 1 < CommandLength(Opcode)
  PROVE  Course'
  <1>1. /\ packet # << >> /\ WholePacket(packet) /\ packet \in Seq(Words)
        /\ Sent \in Nat /\ Sent < Len(packet) /\ todo # << >>
        /\ Head(todo) = packet[Sent + 1] /\ Head(todo) \in Words
        /\ Sent' = Sent + 1 /\ Opcode' = Opcode
        /\ (todo' = << >> <=> Sent + 1 = Len(packet))
        /\ UNCHANGED << packet, before, got >>
    BY SendTrack DEF DInv, Track, Send
  <1>2. PICK n \in Nat, c \in 0 .. 12, w \in Words :
          n = Sent /\ c = CommandLength(Opcode) /\ w = Head(todo)
    BY <1>1, PacketLength DEF Opcode
  <1>a. n + 1 < c /\ n + 1 <= Len(packet) /\ c <= Len(packet)
    <2>1. PICK op \in 0 .. 255 : op = Opcode
      BY <1>1, PacketLength DEF Opcode
    <2>a. /\ Opcode = 160 => CommandLength(160) = 3 /\ Len(packet) >= 3
          /\ Opcode \in Polylines => CommandLength(Opcode) = 2 /\ Len(packet) > 2
          /\ Opcode \notin {160} \cup Polylines =>
                 Len(packet) = IF CommandLength(Opcode) = 0 THEN 1 ELSE CommandLength(Opcode)
      BY <1>1, PacketLength DEF Opcode
    <2>2. /\ op = 160 => c = 3 /\ Len(packet) >= 3
          /\ op \in Polylines => c = 2 /\ Len(packet) > 2
          /\ op \notin {160} \cup Polylines => Len(packet) = IF c = 0 THEN 1 ELSE c
      BY <1>2, <2>1, <2>a, Zenon
    <2>3. n + 1 < c /\ n < Len(packet)
      BY <1>1, <1>2, Zenon
    <2> QED
      BY <1>2, <2>2, <2>3
  <1>b. /\ Sent' = n + 1 /\ Opcode' = Opcode /\ CommandLength(Opcode)' = c
        /\ packet' = packet
    BY <1>1, <1>2, Zenon
  <1>3. /\ gp0_mode = "COMMAND" /\ CommandWord(w) /\ Method(w) = Opcode
        /\ Remaining(w) = c - n - 1
        /\ Buffered \in Seq(Words) /\ Len(Buffered) = n
        /\ \A i \in 1 .. n : Buffered[i] = packet[i]
    <2>1. Sent < CommandLength(Opcode)
      BY <1>2, <1>a
    <2>2. /\ gp0_mode = "COMMAND" /\ CommandWord(Head(todo)) /\ Method(Head(todo)) = Opcode
          /\ Remaining(Head(todo)) = CommandLength(Opcode) - Sent - 1
          /\ Buffered \in Seq(Words) /\ Len(Buffered) = Sent
          /\ \A i \in 1 .. Sent : Buffered[i] = packet[i]
      BY <2>1, HeadWord
    <2> QED
      BY ONLY <1>2, <2>2, Zenon
  <1>4. /\ gp0_mode' = "COMMAND" /\ gp0_words_remaining' = c - n - 1
        /\ gp0_command_method' = Opcode /\ gp0_command' = Append(Buffered, w)
        /\ vram' = vram
    <2>1. Remaining(w) # 0
      BY <1>2, <1>a, <1>3
    <2> QED
      BY <1>3, <2>1, Zenon DEF CommandWord
  <1>5. todo' # << >>
    BY <1>1, <1>2, <1>a
  <1>6. AtRest'
    BY <1>2, <1>5, <1>b DEF AtRest
  <1>7. Collecting'
    <2>1. PICK f \in Seq(Words) : f = Buffered
      BY <1>3
    <2>2. Len(f) = n /\ (\A i \in 1 .. n : f[i] = packet[i]) /\ w = packet[n + 1]
      BY <1>1, <1>2, <1>3, <2>1, Zenon
    <2>3. Len(Append(f, w)) = n + 1 /\ \A i \in 1 .. n + 1 : Append(f, w)[i] = packet[i]
      BY <2>2, BufferGrows
    <2>4. Len(gp0_command)' = Sent' /\ \A i \in 1 .. Sent' : gp0_command'[i] = packet'[i]
      BY <1>4, <1>b, <2>1, <2>3, Zenon
    <2>5. gp0_words_remaining' = CommandLength(Opcode)' - Sent'
      BY <1>2, <1>4, <1>b
    <2>6. gp0_mode' = "COMMAND" /\ gp0_command_method' = Opcode'
      BY <1>4, <1>b, Zenon
    <2> QED
      BY <2>4, <2>5, <2>6, Zenon DEF Collecting
  <1>8. Drawing'
    <2>1. ~(Sent' >= CommandLength(Opcode)')
      BY <1>2, <1>a, <1>b
    <2> QED
      BY <2>1, Zenon DEF Drawing
  <1>9. Loading'
    <2> SUFFICES ASSUME Sends(160) PROVE Sent + 1 < 3 /\ vram = before
      BY <1>1, <1>4, <1>5 DEF Loading, Sends
    <2>1. Opcode = 160
      BY DEF Sends, Opcode
    <2>2. CommandLength(160) = 3
      BY <1>1, <2>1, PacketLength DEF Opcode
    <2>3. Sent + 1 < 3 /\ Sent < 3
      BY <1>1, <2>1, <2>2
    <2> QED
      BY <1>1, <2>3 DEF DInv, Loading
  <1>10. Storing'
    BY <1>5 DEF Storing
  <1> QED
    BY <1>6, <1>7, <1>8, <1>9, <1>10 DEF Course

\* No transfer and no polyline is counted among the painting commands.
LEMMA PaintsElse == \A op \in {160, 192} \cup Polylines : ~Paints(op)
  BY DEF Paints, Polylines

LEMMA TransfersElse == \A op \in Polylines : op # 160 /\ op # 192
  BY DEF Polylines

\* The rectangle of a packet, before its first pixel.
LEMMA RectangleWalks ==
  ASSUME NEW p, p[2] \in Words, p[3] \in Words
  PROVE  /\ Walks(Rectangle(p[2], p[3]), p, 0)
         /\ Width(p) \in Nat /\ Height(p) \in Nat
         /\ Rectangle(p[2], p[3]).w = Width(p) /\ Rectangle(p[2], p[3]).h = Height(p)
  <1> DEFINE t == Rectangle(p[2], p[3])
  <1>1. t.w \in Nat /\ t.h \in Nat /\ PixelsLeft(t) = t.w * t.h
    BY RectangleFresh
  <1>2. t.x = p[2][2] % VRAM_W /\ t.y = p[2][1] % VRAM_H /\ t.w = p[3][2] /\ t.h = p[3][1]
    BY DEF Rectangle
  <1>3. t.w * t.h - PixelsLeft(t) = 0
    <2> HIDE DEF t
    <2>1. t.w * t.h \in Nat
      BY <1>1
    <2> QED
      BY <1>1, <2>1
  <1> QED
    BY <1>1, <1>2, <1>3 DEF Walks, Width, Height

\* Nothing has been placed yet.
LEMMA PlacedNone ==
  ASSUME NEW p, NEW v PROVE Placed(p, 0, v, v)
  BY DEF Placed

\* The word that completes the head calls the packet's method.
LEMMA ExecuteKeeps ==
  ASSUME DInv, Send, Sent + 1 = CommandLength(Opcode)
  PROVE  Course'
  <1>1. /\ packet # << >> /\ WholePacket(packet) /\ packet \in Seq(Words)
        /\ Sent \in Nat /\ Sent < Len(packet) /\ todo # << >>
        /\ Head(todo) = packet[Sent + 1] /\ Head(todo) \in Words
        /\ Sent' = Sent + 1 /\ Opcode' = Opcode
        /\ (todo' = << >> <=> Sent + 1 = Len(packet))
        /\ Len(todo') = Len(packet) - Sent - 1
        /\ UNCHANGED << packet, before, got >> /\ got = << >>
    BY SendTrack DEF DInv, Track, Send
  <1>2. PICK op \in 0 .. 255 : op = Opcode
    BY <1>1, PacketLength DEF Opcode
  <1>3. /\ CommandLength(op) \in 1 .. 12
        /\ op = 160 => CommandLength(op) = 3 /\ Len(packet) >= 3
                       /\ Len(packet) = 3 + DataWords(packet)
        /\ op = 192 => CommandLength(op) = 3
        /\ op \in Polylines => CommandLength(op) = 2 /\ Len(packet) > 2
        /\ op \notin {160} \cup Polylines => Len(packet) = CommandLength(op)
    BY <1>1, <1>2, PacketLength DEF Opcode
  <1>4. /\ gp0_mode = "COMMAND" /\ CommandWord(Head(todo)) /\ Method(Head(todo)) = op
        /\ Remaining(Head(todo)) = 0
        /\ Buffered \in Seq(Words) /\ Len(Buffered) = Sent
        /\ \A i \in 1 .. Sent : Buffered[i] = packet[i]
    BY <1>1, <1>2, <1>3, HeadWord
  <1>5. PICK command \in Seq(Words) : command = Append(Buffered, Head(todo))
    <2>1. \A s \in Seq(Words), w \in Words : Append(s, w) \in Seq(Words)
      OBVIOUS
    <2> QED
      BY <1>1, <1>4, <2>1
  <1>6. /\ Len(command) = CommandLength(op)
        /\ \A i \in 1 .. CommandLength(op) : command[i] = packet[i]
    BY <1>1, <1>2, <1>3, <1>4, <1>5
  <1>7. Execute(op, command)
    BY <1>4, <1>5 DEF CommandWord
  <1>8. \A q : Sends(q)' <=> op = q
    BY <1>1, <1>2 DEF Sends, Opcode
  <1>9. CASE op \notin {160, 192} \cup Polylines
    <2>1. gp0_mode' = "COMMAND" /\ gp0_words_remaining' = 0
      BY <1>4, <1>7, <1>9 DEF Execute, Paint, SetEnvironment
    <2>2. todo' = << >>
      BY <1>1, <1>2, <1>3, <1>9
    <2>3. ~Sends(160)' /\ ~Sends(192)'
      BY <1>8, <1>9
    <2> QED
      BY <2>1, <2>2, <2>3 DEF Course, AtRest, Collecting, Drawing, Loading, Storing
  <1>10. CASE op \in Polylines
    <2>a. op # 160 /\ op # 192
      BY <1>10, TransfersElse
    <2>b. ~Paints(op)
      BY <1>10, PaintsElse, Zenon
    <2>1. PolylineStart(op)
      BY <1>7, <1>10, <2>a, <2>b DEF Execute
    <2>2. /\ gp0_mode' = "POLYLINE" /\ gp0_words_remaining' = 0
          /\ polyline'.shaded = (op \in 88 .. 95)
          /\ polyline'.expect_color = (op \in 88 .. 95)
      BY <2>1 DEF PolylineStart
    <2>3. todo' # << >> /\ Sent' = 2 /\ Sent' % 2 = 0 /\ CommandLength(op) = 2
      BY <1>1, <1>2, <1>3, <1>10
    <2>4. op # 160 /\ op # 192
      BY <1>10, TransfersElse
    <2>5. ~Sends(160)' /\ ~Sends(192)'
      BY <1>8, <2>4
    <2>6. AtRest'
      BY <2>3 DEF AtRest
    <2>7. Opcode' = op /\ CommandLength(Opcode)' = 2
      BY <1>1, <1>2, <2>3
    <2>8. Collecting'
      BY <2>3, <2>7 DEF Collecting
    <2>9. Drawing'
      <3>1. ASSUME polyline'.shaded PROVE polyline'.expect_color = (Sent' % 2 = 0)
        <4>1. op \in 88 .. 95
          BY <2>2, <3>1, Zenon
        <4>2. polyline'.expect_color = TRUE
          BY <2>2, <4>1, Zenon
        <4> QED
          BY <2>3, <4>2, Zenon
      <3> QED
        BY <1>10, <2>2, <2>7, <3>1, Zenon DEF Drawing
    <2> QED
      BY <2>5, <2>6, <2>8, <2>9 DEF Course, Loading, Storing
  <1>11. CASE op \in {160, 192}
    <2>1. CommandLength(op) = 3 /\ Sent = 2 /\ Sent' = 3
      BY <1>1, <1>2, <1>3, <1>11
    <2>2. PICK corner \in Words, size \in Words :
            /\ corner = packet[2] /\ size = packet[3]
            /\ \/ op = 160 /\ ImageLoad(corner, size)
               \/ op = 192 /\ ImageStore(corner, size)
      <3>1. ~Paints(op) /\ op \notin Polylines
        <4>1. ~Paints(op)
          BY <1>11, PaintsElse
        <4>2. op \notin Polylines
          BY <1>11, TransfersElse
        <4> QED
          BY <4>1, <4>2
      <3>2. \E corner, size \in Words :
               /\ Len(command) >= 2 => corner = command[2]
               /\ Len(command) >= 3 => size = command[3]
               /\ \/ op = 160 /\ ImageLoad(corner, size)
                  \/ op = 192 /\ ImageStore(corner, size)
        BY <1>7, <1>11, <3>1 DEF Execute
      <3>3. Len(command) = 3 /\ command[2] = packet[2] /\ command[3] = packet[3]
        BY <1>6, <2>1
      <3> QED
        BY <3>2, <3>3
    <2>3. PICK t : t = Rectangle(corner, size)
      OBVIOUS
    <2>4. /\ Walks(t, packet, 0) /\ Width(packet) \in Nat /\ Height(packet) \in Nat
          /\ t.w = Width(packet) /\ t.h = Height(packet)
      BY <2>2, <2>3, RectangleWalks
    <2>5. CommandLength(Opcode)' = 3 /\ Opcode' = op
      BY <1>1, <1>2, <2>1
    <2>6. Collecting'
      BY <2>1, <2>5 DEF Collecting
    <2>7. CASE op = 192
      <3>1. todo' = << >>
        <4>1. op \notin Polylines /\ op # 160
          BY <2>7, TransfersElse
        <4>2. Len(packet) = 3
          BY <1>3, <2>1, <4>1
        <4> QED
          BY <1>1, <2>1, <4>2
      <3>2. ImageStore(corner, size) /\ ~Sends(160)'
        BY <1>8, <2>2, <2>7
      <3>3. gp0_words_remaining' = 0 /\ gp0_mode' \in {"COMMAND", "IMAGE_STORE"}
        BY <3>2 DEF ImageStore
      <3>4. Storing'
        <4>1. Len(got') = 0
          BY <1>1
        <4>2. gp0_mode' = "IMAGE_STORE" => image_store' = t
          BY <2>3, <3>2 DEF ImageStore
        <4>3. gp0_mode' # "IMAGE_STORE" => Width(packet) * Height(packet) = 0
          BY <2>3, <2>4, <3>2 DEF ImageStore
        <4> QED
          BY <1>1, <2>4, <4>1, <4>2, <4>3 DEF Storing, Walks
      <3> QED
        BY <2>6, <3>1, <3>2, <3>3, <3>4 DEF Course, AtRest, Drawing, Loading
    <2>8. CASE op = 160
      <3>1. ImageLoad(corner, size) /\ ~Sends(192)' /\ vram' = vram
        BY <1>8, <2>2, <2>8 DEF ImageLoad
      <3>2. vram = before
        BY <1>1, <1>2, <2>1, <2>8 DEF DInv, Loading, Sends, Opcode
      <3>3. Placed(packet, 0, before', vram')
        BY <1>1, <3>1, <3>2, PlacedNone
      <3>4. Drawing'
        BY <2>5, <2>8 DEF Drawing
      <3>5. CASE t.w = 0 \/ t.h = 0
        <4>1. DataWords(packet) = 0 /\ Width(packet) * Height(packet) = 0
          BY <2>4, <3>5 DEF DataWords, Width, Height
        <4>2. todo' = << >>
          <5>1. Len(packet) = 3
            BY <1>3, <2>8, <4>1
          <5> QED
            BY <1>1, <2>1, <5>1
        <4>3. gp0_words_remaining' = 0 /\ gp0_mode' = "COMMAND"
          BY <2>3, <3>1, <3>5 DEF ImageLoad
        <4>4. AtRest'
          BY <4>2, <4>3 DEF AtRest
        <4>5. Loading'
          BY <1>1, <3>3, <4>1, <4>2 DEF Loading
        <4> QED
          BY <2>6, <3>1, <3>4, <4>4, <4>5 DEF Course, Storing
      <3>6. CASE ~(t.w = 0 \/ t.h = 0)
        <4>1. t.w * t.h \in Nat \ {0}
          BY <2>4, <3>6
        <4>2. DataWords(packet) = WordsFor(t.w * t.h) /\ WordsFor(t.w * t.h) \in Nat \ {0}
          BY <2>4, <3>6, <4>1, WordsForBound DEF DataWords, Width, Height
        <4>3. todo' # << >> /\ Len(todo') = WordsFor(t.w * t.h)
          BY <1>1, <1>3, <2>1, <2>8, <4>2
        <4>4. /\ gp0_words_remaining' = WordsFor(t.w * t.h)
              /\ gp0_mode' = "IMAGE_LOAD" /\ image_load' = t
          BY <2>3, <3>1, <3>6 DEF ImageLoad
        <4>5. AtRest'
          BY <2>1, <4>3 DEF AtRest
        <4>6. 2 * (Sent' - 3) = 0
          BY <2>1
        <4>7. Loading'
          <5>0. packet' = packet
            BY <1>1, Zenon
          <5>1. Walks(image_load', packet', 2 * (Sent' - 3))
            BY <2>4, <4>4, <4>6, <5>0
          <5>2. ~(Sent' < 3)
            BY <2>1
          <5>3. Placed(packet', 2 * (Sent' - 3), before', vram')
            BY <3>3, <4>6, <5>0
          <5>4. gp0_words_remaining' = Len(todo')
            BY <4>3, <4>4, Zenon
          <5>5. (Walks(image_load, packet, 2 * (Sent - 3)))'
            BY <5>1, Zenon DEF Walks
          <5> QED
            BY <4>3, <4>4, <5>2, <5>3, <5>4, <5>5 DEF Loading
        <4> QED
          BY <2>6, <3>1, <3>4, <4>5, <4>7 DEF Course, Storing
      <3> QED
        BY <3>5, <3>6
    <2> QED
      BY <1>11, <2>7, <2>8
  <1> QED
    BY <1>9, <1>10, <1>11

\* A single word the decoder does not know is dropped.
LEMMA DropKeeps ==
  ASSUME DInv, Send, CommandLength(Opcode) = 0
  PROVE  Course'
  <1>1. /\ packet # << >> /\ WholePacket(packet) /\ packet \in Seq(Words)
        /\ Sent \in Nat /\ Sent < Len(packet) /\ todo # << >>
        /\ Head(todo) = packet[Sent + 1] /\ gpu_gp0(Head(todo))
        /\ Sent' = Sent + 1 /\ Opcode' = Opcode
        /\ (todo' = << >> <=> Sent + 1 = Len(packet))
        /\ UNCHANGED << packet, before, got >>
    BY SendTrack DEF DInv, Track, Send
  <1>2. PICK op \in 0 .. 255 : op = Opcode
    BY <1>1, PacketLength DEF Opcode
  <1>3. op # 160 /\ op # 192 /\ op \notin Polylines /\ Len(packet) = 1
    <2>1. op # 160 /\ op # 192 /\ op \notin Polylines
      BY <1>1, <1>2, PacketLength DEF Opcode
    <2> QED
      BY <1>1, <1>2, <2>1, PacketLength DEF Opcode
  <1>4. Sent = 0 /\ todo' = << >>
    BY <1>1, <1>3
  <1>5. gp0_words_remaining = 0 /\ gp0_mode = "COMMAND"
    BY <1>1, <1>4 DEF DInv, AtRest
  <1>6. AtBoundary /\ CommandLength(Op(Head(todo))) = 0
    BY <1>1, <1>4, <1>5 DEF AtBoundary, Opcode
  <1>7. UNCHANGED vars
    BY <1>1, <1>5, <1>6
       DEF gpu_gp0, PolylineWord, UnhandledWord, CommandWord, LoadWord, StoreWord, Accepts
  <1>8. \A q : Sends(q)' <=> op = q
    BY <1>1, <1>2 DEF Sends, Opcode
  <1>9. ~Sends(160)' /\ ~Sends(192)'
    BY <1>3, <1>8
  <1> QED
    BY <1>4, <1>5, <1>7, <1>9
       DEF Course, AtRest, Collecting, Drawing, Loading, Storing, vars

\* A word of a polyline after its first two.
LEMMA LineKeeps ==
  ASSUME DInv, Send, CommandLength(Opcode) # 0, Sent >= CommandLength(Opcode),
         Opcode # 160
  PROVE  Course'
  <1>1. /\ packet # << >> /\ WholePacket(packet) /\ packet \in Seq(Words)
        /\ Sent \in Nat /\ Sent < Len(packet) /\ todo # << >>
        /\ Head(todo) = packet[Sent + 1] /\ gpu_gp0(Head(todo))
        /\ Sent' = Sent + 1 /\ Opcode' = Opcode
        /\ (todo' = << >> <=> Sent + 1 = Len(packet))
        /\ UNCHANGED << packet, before, got >>
    BY SendTrack DEF DInv, Track, Send
  <1>2. PICK op \in 0 .. 255 : op = Opcode
    BY <1>1, PacketLength DEF Opcode
  <1>3. CommandLength(op) \in 1 .. 12
    BY <1>1, <1>2, PacketLength DEF Opcode
  <1>4. /\ op \in Polylines /\ gp0_mode = "POLYLINE" /\ gp0_words_remaining = 0
        /\ polyline.shaded = (op \in 88 .. 95)
        /\ polyline.shaded => polyline.expect_color = (Sent % 2 = 0)
    <2>1. Sent > 0
      BY <1>1, <1>2, <1>3
    <2>2. Drawing
      BY DEF DInv
    <2> QED
      BY <1>1, <1>2, <2>1, <2>2, Zenon DEF Drawing
  <1>5. CommandLength(op) = 2 /\ Sent >= 2
    BY <1>1, <1>2, <1>3, <1>4, PacketLength DEF Opcode
  <1>6. PolylineEnds(packet, Sent + 1) <=> Sent + 1 = Len(packet)
    BY <1>1, <1>2, <1>4, <1>5 DEF WholePacket, Opcode
  <1>7. PolylineWord(Head(todo))
    BY <1>1, <1>4 DEF gpu_gp0, UnhandledWord, CommandWord, LoadWord, StoreWord
  <1>8. (Sent + 1) % 2 = 1 <=> Sent % 2 = 0
    BY <1>1
  <1>9. PICK ends \in BOOLEAN :
          /\ ends = ((polyline.shaded => polyline.expect_color) /\ Terminator(Head(todo)))
          /\ gp0_mode' = IF ends THEN "COMMAND" ELSE "POLYLINE"
          /\ polyline' = IF ends \/ ~polyline.shaded THEN polyline
                         ELSE [polyline EXCEPT !.expect_color = ~@]
          /\ gp0_words_remaining' = gp0_words_remaining
    BY <1>7 DEF PolylineWord
  <1>10. ends <=> todo' = << >>
    BY <1>1, <1>2, <1>4, <1>6, <1>8, <1>9 DEF PolylineEnds, Opcode
  <1>11. AtRest'
    BY <1>1, <1>4, <1>9, <1>10 DEF AtRest
  <1>12. CommandLength(Opcode)' = 2 /\ Opcode' = op
    BY <1>1, <1>2, <1>5
  <1>13. Collecting'
    BY <1>1, <1>5, <1>12 DEF Collecting
  <1>14. op # 160 /\ op # 192
    BY <1>4, TransfersElse
  <1>15. \A q : Sends(q)' <=> op = q
    BY <1>1, <1>2 DEF Sends, Opcode
  <1>16. ~Sends(160)' /\ ~Sends(192)'
    BY <1>14, <1>15
  <1>17. Drawing'
    <2>1. CASE todo' = << >>
      BY <2>1 DEF Drawing
    <2>2. CASE todo' # << >>
      <3>1. gp0_mode' = "POLYLINE" /\ gp0_words_remaining' = 0
        BY <1>4, <1>9, <1>10, <2>2
      <3>2. polyline \in [shaded : BOOLEAN, expect_color : BOOLEAN]
        BY DEF DInv, IInv, TypeOK
      <3>3. /\ polyline'.shaded = polyline.shaded
            /\ polyline.shaded => polyline'.expect_color = ~polyline.expect_color
        BY <1>9, <1>10, <2>2, <3>2
      <3>4. (Sent + 1) % 2 = 0 <=> ~(Sent % 2 = 0)
        BY <1>1
      <3>5. polyline'.shaded => polyline'.expect_color = ((Sent + 1) % 2 = 0)
        BY <1>4, <3>2, <3>3, <3>4
      <3> QED
        BY <1>1, <1>4, <1>12, <3>1, <3>3, <3>5 DEF Drawing
    <2> QED
      BY <2>1, <2>2
  <1> QED
    BY <1>11, <1>13, <1>16, <1>17 DEF Course, Loading, Storing

------------------------------------------------------------------------------
(* Cursors and cells *)

LEMMA DivMod ==
  ASSUME NEW a \in Int, NEW b \in Nat \ {0}
  PROVE  /\ a % b \in 0 .. b - 1 /\ a \div b \in Int
         /\ a = b * (a \div b) + (a % b)
  OBVIOUS

LEMMA MulGap ==
  ASSUME NEW b \in Nat \ {0}, NEW d \in Int, d >= 1
  PROVE  b * d >= b
  OBVIOUS

\* Quotient and remainder are unique.
LEMMA DivUnique ==
  ASSUME NEW b \in Nat \ {0}, NEW q \in Int, NEW r \in 0 .. b - 1,
         NEW p \in Int, NEW s \in 0 .. b - 1, b * q + r = b * p + s
  PROVE  q = p /\ r = s
  <1>1. b * (q - p) = s - r
    OBVIOUS
  <1>2. q - p >= 1 => FALSE
    BY <1>1, MulGap
  <1>3. b * (p - q) = r - s
    OBVIOUS
  <1>4. p - q >= 1 => FALSE
    BY <1>3, MulGap
  <1>5. q = p
    BY <1>2, <1>4
  <1> QED
    BY <1>5

\* Wrapping a coordinate before or after adding the cursor is the same.
LEMMA ModAdd ==
  ASSUME NEW a \in Int, NEW c \in Int, NEW b \in Nat \ {0}
  PROVE  ((a % b) + c) % b = (a + c) % b
  <1>1. PICK q \in Int, m \in Int : q = a \div b /\ m = a % b
    <2>1. a \div b \in Int /\ a % b \in 0 .. b - 1
      BY DivMod, Zenon
    <2> QED
      BY <2>1
  <1>2. a = b * q + m
    BY <1>1, DivMod
  <1>3. ASSUME NEW x \in Int
        PROVE  \E e \in Int, r \in 0 .. b - 1 : r = x % b /\ x = b * e + r
    <2>1. /\ x % b \in 0 .. b - 1 /\ x \div b \in Int
          /\ x = b * (x \div b) + (x % b)
      BY DivMod
    <2> QED
      BY <2>1
  <1>4. PICK e \in Int, r \in 0 .. b - 1 : r = (m + c) % b /\ m + c = b * e + r
    <2>1. m + c \in Int
      OBVIOUS
    <2> QED
      BY <1>3, <2>1
  <1>5. PICK f \in Int, s \in 0 .. b - 1 : s = (a + c) % b /\ a + c = b * f + s
    <2>1. a + c \in Int
      OBVIOUS
    <2> QED
      BY <1>3, <2>1, Zenon
  <1>6. b * (q + e) = b * q + b * e
    OBVIOUS
  <1>7. b * (q + e) + r = b * f + s
    <2>1. PICK u \in Int, v \in Int, w \in Int : u = b * q /\ v = b * e /\ w = b * f
      OBVIOUS
    <2>2. a = u + m /\ m + c = v + r /\ a + c = w + s /\ b * (q + e) = u + v
      BY <1>2, <1>4, <1>5, <1>6, <2>1, Zenon
    <2>3. (u + v) + r = w + s
      BY <2>2
    <2> QED
      BY <2>1, <2>2, <2>3, Zenon
  <1>8. r = s
    BY <1>7, DivUnique
  <1> QED
    BY <1>1, <1>4, <1>5, <1>8, Zenon

\* The fields of a transfer that has k pixels behind it.
LEMMA WalkCount ==
  ASSUME NEW t \in Transfer, NEW p, NEW k \in Int, Walks(t, p, k)
  PROVE  /\ t.cur_x \in Nat /\ t.cur_y \in Nat /\ t.w \in Nat /\ t.h \in Nat
         /\ k = t.w * t.cur_y + t.cur_x
         /\ PixelsLeft(t) = t.w * t.h - k
         /\ Width(p) = t.w /\ Height(p) = t.h
         /\ t.w * t.h \in Nat /\ k \in Nat
  <1>1. t.cur_x \in Nat /\ t.cur_y \in Nat /\ t.w \in Nat /\ t.h \in Nat
    BY DEF Transfer, Halves
  <1>2. t.w * t.h \in Nat /\ t.cur_y * t.w \in Nat /\ t.cur_y * t.w = t.w * t.cur_y
    BY <1>1
  <1>3. PixelsLeft(t) = t.w * t.h - (t.cur_y * t.w + t.cur_x)
    BY DEF PixelsLeft
  <1>4. t.w * t.h - PixelsLeft(t) = k /\ Width(p) = t.w /\ Height(p) = t.h
    BY DEF Walks
  <1> QED
    BY <1>1, <1>2, <1>3, <1>4

\* The cursor of a transfer with k pixels behind it stands on the next one.
LEMMA CursorWalks ==
  ASSUME NEW t \in Transfer, NEW p, p[2] \in Words, p[3] \in Words,
         NEW k \in Int, Walks(t, p, k), t.cur_x < t.w
  PROVE  CursorCell(t) = AreaCell(p, k + 1) /\ AreaCell(p, k + 1) \in Cells
  <1>1. /\ t.cur_x \in Nat /\ t.cur_y \in Nat /\ t.w \in Nat
        /\ k = t.w * t.cur_y + t.cur_x /\ Width(p) = t.w
    BY WalkCount
  <1>2. t.w \in Nat \ {0} /\ t.cur_x \in 0 .. t.w - 1
    BY <1>1
  <1>3. k % t.w = t.cur_x /\ k \div t.w = t.cur_y
    <2>1. PICK w \in Nat \ {0}, a \in Int, b \in Nat :
             w = t.w /\ a = t.cur_y /\ b = t.cur_x /\ b \in 0 .. w - 1
      BY <1>1, <1>2
    <2>2. k = w * a + b
      BY <1>1, <2>1
    <2>3. k % w \in 0 .. w - 1 /\ k \div w \in Int /\ k = w * (k \div w) + (k % w)
      BY DivMod
    <2>4. PICK q \in Int, r \in 0 .. w - 1 : q = k \div w /\ r = k % w
      BY <2>3
    <2>5. w * q + r = w * a + b
      BY <2>2, <2>3, <2>4
    <2>6. q = a /\ r = b
      <3>1. b \in 0 .. w - 1
        BY <2>1
      <3> QED
        BY <2>5, <3>1, DivUnique
    <2> QED
      BY <2>1, <2>4, <2>6
  <1>4. p[2][1] \in Int /\ p[2][2] \in Int
    BY WordsAssumption DEF Halves
  <1>5. t.x = p[2][2] % VRAM_W /\ t.y = p[2][1] % VRAM_H
    BY DEF Walks
  <1>6. /\ (t.x + t.cur_x) % VRAM_W = (p[2][2] + t.cur_x) % VRAM_W
        /\ (t.y + t.cur_y) % VRAM_H = (p[2][1] + t.cur_y) % VRAM_H
    <2>1. PICK a \in Int, b \in Int, c \in Int, d \in Int :
             a = p[2][2] /\ b = p[2][1] /\ c = t.cur_x /\ d = t.cur_y
      BY <1>1, <1>4
    <2>2. /\ ((a % VRAM_W) + c) % VRAM_W = (a + c) % VRAM_W
          /\ ((b % VRAM_H) + d) % VRAM_H = (b + d) % VRAM_H
      BY VramAssumption, ModAdd
    <2> QED
      BY <1>5, <2>1, <2>2
  <1>7. (k + 1) - 1 = k
    OBVIOUS
  <1>8. CursorCell(t) = AreaCell(p, k + 1)
    BY <1>1, <1>3, <1>6, <1>7 DEF CursorCell, AreaCell
  <1> QED
    BY <1>8, CursorInVram

\* Advancing leaves one more pixel behind.
LEMMA AdvanceWalks ==
  ASSUME NEW t \in Transfer, NEW p, NEW k \in Int, Walks(t, p, k), t.cur_x < t.w
  PROVE  Walks(Advance(t), p, k + 1)
  <1>1. PixelsLeft(Advance(t)) = PixelsLeft(t) - 1
    BY AdvanceOne
  <1>2. /\ Advance(t).x = t.x /\ Advance(t).y = t.y
        /\ Advance(t).w = t.w /\ Advance(t).h = t.h
    BY DEF Advance, Transfer
  <1>3. PixelsLeft(t) = t.w * t.h - k /\ t.w * t.h \in Nat
    BY WalkCount
  <1>4. t.w * t.h - (PixelsLeft(t) - 1) = k + 1
    BY <1>3
  <1> QED
    BY <1>1, <1>2, <1>4 DEF Walks

\* Every cell of a rectangle is a cell of VRAM.
LEMMA AreaInVram ==
  ASSUME NEW p, p[2] \in Words, Width(p) \in Nat \ {0}, NEW i \in Nat \ {0}
  PROVE  AreaCell(p, i) \in Cells
  <1>1. p[2][1] \in Int /\ p[2][2] \in Int
    BY WordsAssumption DEF Halves
  <1>2. (i - 1) % Width(p) \in Int /\ (i - 1) \div Width(p) \in Int
    <2>1. i - 1 \in Int
      OBVIOUS
    <2>2. (i - 1) % Width(p) \in 0 .. Width(p) - 1 /\ (i - 1) \div Width(p) \in Int
      BY <2>1, DivMod, Zenon
    <2>3. \A x \in 0 .. Width(p) - 1 : x \in Int
      OBVIOUS
    <2> QED
      BY <2>2, <2>3, Zenon
  <1>3. \A a \in Int, b \in Nat \ {0} : a % b \in 0 .. b - 1
    BY DivMod
  <1>4. /\ p[2][2] + ((i - 1) % Width(p)) \in Int
        /\ p[2][1] + ((i - 1) \div Width(p)) \in Int
    BY <1>1, <1>2
  <1> QED
    BY <1>3, <1>4, VramAssumption DEF AreaCell, Cells

\* One more pixel put in place.
LEMMA PlaceOne ==
  ASSUME NEW p, NEW k \in Nat, NEW old, NEW mem \in [Cells -> Halves],
         Placed(p, k, old, mem), p[2] \in Words, Width(p) \in Nat \ {0}
  PROVE  Placed(p, k + 1, old, [mem EXCEPT ![AreaCell(p, k + 1)] = Pixel(p, k + 1)])
  <1> DEFINE new == [mem EXCEPT ![AreaCell(p, k + 1)] = Pixel(p, k + 1)]
  <1>1. /\ new[AreaCell(p, k + 1)] = Pixel(p, k + 1)
        /\ \A c \in Cells : c # AreaCell(p, k + 1) => new[c] = mem[c]
    <2>1. AreaCell(p, k + 1) \in Cells
      BY AreaInVram
    <2> QED
      BY <2>1
  <1> HIDE DEF new
  <1>2. ASSUME NEW c \in Cells, \A i \in 1 .. k + 1 : AreaCell(p, i) # c
        PROVE  new[c] = old[c]
    <2>1. \A i \in 1 .. k : AreaCell(p, i) # c
      BY <1>2
    <2>2. c # AreaCell(p, k + 1)
      BY <1>2
    <2> QED
      BY <1>1, <2>1, <2>2 DEF Placed
  <1>3. ASSUME NEW i \in 1 .. k + 1,
               \A j \in i + 1 .. k + 1 : AreaCell(p, j) # AreaCell(p, i)
        PROVE  new[AreaCell(p, i)] = Pixel(p, i)
    <2>1. CASE i = k + 1
      BY <1>1, <2>1
    <2>2. CASE i # k + 1
      <3>1. i \in 1 .. k /\ k + 1 \in i + 1 .. k + 1
        BY <2>2
      <3>2. AreaCell(p, k + 1) # AreaCell(p, i)
        BY <1>3, <3>1
      <3>3. \A j \in i + 1 .. k : AreaCell(p, j) # AreaCell(p, i)
        BY <1>3
      <3>4. mem[AreaCell(p, i)] = Pixel(p, i)
        BY <3>1, <3>3 DEF Placed
      <3>5. AreaCell(p, i) \in Cells
        BY <3>1, AreaInVram
      <3> QED
        BY <1>1, <3>2, <3>4, <3>5
    <2> QED
      BY <2>1, <2>2
  <1> QED
    BY <1>2, <1>3 DEF Placed, new

\* One pixel of a load: the next one is put in place, the spare half of an odd
\* image is not.
LEMMA PutPixelWalks ==
  ASSUME NEW mem \in [Cells -> Halves], NEW t \in Transfer,
         NEW p, p[2] \in Words, p[3] \in Words, NEW k \in Nat, NEW old,
         NEW v \in Halves, Walks(t, p, k), t.cur_x < t.w, Placed(p, k, old, mem)
  PROVE  LET r == PutPixel([mem |-> mem, at |-> t], v)
         IN  /\ k < Width(p) * Height(p) /\ v = Pixel(p, k + 1) =>
                    Walks(r.at, p, k + 1) /\ Placed(p, k + 1, old, r.mem)
             /\ k >= Width(p) * Height(p) => r.at = t /\ r.mem = mem
  <1>1. /\ PixelsLeft(t) = t.w * t.h - k /\ Width(p) = t.w /\ Height(p) = t.h
        /\ t.w * t.h \in Nat /\ t.w \in Nat /\ t.cur_x \in Nat
    BY WalkCount
  <1>2. PixelsLeft(t) > 0 <=> ~(t.cur_y >= t.h)
    BY LeftIffInside
  <1>3. CASE k < Width(p) * Height(p)
    <2>1. ~(t.cur_y >= t.h)
      BY <1>1, <1>2, <1>3
    <2>2. PutPixel([mem |-> mem, at |-> t], v)
            = [mem |-> [mem EXCEPT ![CursorCell(t)] = v], at |-> Advance(t)]
      BY <2>1 DEF PutPixel
    <2>3. CursorCell(t) = AreaCell(p, k + 1) /\ Walks(Advance(t), p, k + 1)
      BY CursorWalks, AdvanceWalks
    <2>4. Width(p) \in Nat \ {0}
      BY <1>1
    <2>5. Placed(p, k + 1, old, [mem EXCEPT ![AreaCell(p, k + 1)] = Pixel(p, k + 1)])
      BY <2>4, PlaceOne
    <2>6. ~(k >= Width(p) * Height(p))
      BY <1>1, <1>3
    <2>7. PutPixel([mem |-> mem, at |-> t], v).mem = [mem EXCEPT ![CursorCell(t)] = v]
      <3>1. \A x, y : [mem |-> x, at |-> y].mem = x
        OBVIOUS
      <3> QED
        BY <2>2, <3>1, Zenon
    <2>8. ASSUME v = Pixel(p, k + 1)
          PROVE  Placed(p, k + 1, old, PutPixel([mem |-> mem, at |-> t], v).mem)
      <3>1. PutPixel([mem |-> mem, at |-> t], v).mem
              = [mem EXCEPT ![AreaCell(p, k + 1)] = Pixel(p, k + 1)]
        BY <2>3, <2>7, <2>8, Zenon
      <3> QED
        BY <2>5, <3>1, Zenon
    <2>9. PutPixel([mem |-> mem, at |-> t], v).at = Advance(t)
      BY <2>2
    <2> QED
      BY <2>3, <2>6, <2>8, <2>9
  <1>4. CASE ~(k < Width(p) * Height(p))
    <2>1. t.cur_y >= t.h
      BY <1>1, <1>2, <1>4
    <2>2. PutPixel([mem |-> mem, at |-> t], v) = [mem |-> mem, at |-> t]
      BY <2>1 DEF PutPixel
    <2> QED
      BY <1>4, <2>2
  <1> QED
    BY <1>3, <1>4

\* Both pixels of a data word.
LEMMA DataWordPixels ==
  ASSUME NEW p, NEW n \in Nat, n >= 3
  PROVE  /\ Pixel(p, 2 * (n - 3) + 1) = p[n + 1][2]
         /\ Pixel(p, 2 * (n - 3) + 2) = p[n + 1][1]
  <1>1. /\ (2 * (n - 3) + 1) % 2 = 1 /\ (2 * (n - 3) + 2) % 2 = 0
        /\ 4 + ((2 * (n - 3) + 1 - 1) \div 2) = n + 1
        /\ 4 + ((2 * (n - 3) + 2 - 1) \div 2) = n + 1
    OBVIOUS
  <1> QED
    BY <1>1 DEF Pixel

\* A data word of an image load.
LEMMA LoadKeeps ==
  ASSUME DInv, Send, Opcode = 160, Sent >= 3
  PROVE  Course'
  <1>1. /\ packet # << >> /\ WholePacket(packet) /\ packet \in Seq(Words)
        /\ Sent \in Nat /\ Sent < Len(packet) /\ todo # << >>
        /\ Head(todo) = packet[Sent + 1] /\ Head(todo) \in Words
        /\ gpu_gp0(Head(todo)) /\ Sent' = Sent + 1 /\ Opcode' = Opcode
        /\ (todo' = << >> <=> Sent + 1 = Len(packet))
        /\ Len(todo) = Len(packet) - Sent /\ Len(todo') = Len(packet) - Sent - 1
        /\ UNCHANGED << packet, before, got >>
    BY SendTrack DEF DInv, Track, Send
  <1>2. PICK k \in Nat : k = 2 * (Sent - 3)
    BY <1>1
  <1>3. /\ gp0_mode = "IMAGE_LOAD" /\ gp0_words_remaining = Len(todo)
        /\ Walks(image_load, packet, k) /\ Placed(packet, k, before, vram)
    BY <1>1, <1>2 DEF DInv, Loading, Sends, Opcode
  <1>4. /\ image_load \in Transfer /\ vram \in [Cells -> Halves]
        /\ image_load.cur_x < image_load.w
        /\ gp0_words_remaining > 0 /\ gp0_words_remaining \in Nat
        /\ 2 * gp0_words_remaining - PixelsLeft(image_load) \in {0, 1}
    BY <1>3 DEF DInv, IInv, TypeOK, TransfersCounted, Counted
  <1>5. PICK n \in Nat : /\ n = Width(packet) * Height(packet)
                         /\ PixelsLeft(image_load) = n - k
    <2>1. k \in Int /\ image_load \in Transfer /\ Walks(image_load, packet, k)
      BY <1>3, <1>4
    <2>2. /\ PixelsLeft(image_load) = image_load.w * image_load.h - k
          /\ Width(packet) = image_load.w /\ Height(packet) = image_load.h
          /\ image_load.w * image_load.h \in Nat
      BY ONLY <2>1, WalkCount, Zenon
    <2> QED
      BY <2>2, Zenon
  <1>6. k < n /\ 2 * gp0_words_remaining - (n - k) \in {0, 1}
    BY <1>4, <1>5
  <1>7. LoadWord(Head(todo))
    BY <1>1, <1>3, <1>4
       DEF gpu_gp0, PolylineWord, UnhandledWord, CommandWord, StoreWord, AtBoundary
  <1>8. Len(packet) >= 4 /\ packet[2] \in Words /\ packet[3] \in Words
    BY <1>1
  <1>9. PICK lo \in Halves, hi \in Halves : lo = Head(todo)[2] /\ hi = Head(todo)[1]
    BY <1>1, WordsAssumption
  <1>10. lo = Pixel(packet, k + 1) /\ hi = Pixel(packet, (k + 1) + 1)
    <2>1. k + 1 = 2 * (Sent - 3) + 1 /\ (k + 1) + 1 = 2 * (Sent - 3) + 2
      BY <1>1, <1>2
    <2> QED
      BY <1>1, <1>9, <2>1, DataWordPixels
  <1>11. PICK one : one = PutPixel([mem |-> vram, at |-> image_load], lo)
    OBVIOUS
  <1>12. /\ one = [mem |-> one.mem, at |-> one.at]
         /\ one.mem \in [Cells -> Halves] /\ one.at \in Transfer
         /\ one.at.cur_x < one.at.w
    BY <1>4, <1>11, PutPixelStep
  <1>13. Walks(one.at, packet, k + 1) /\ Placed(packet, k + 1, before, one.mem)
    BY <1>3, <1>4, <1>5, <1>6, <1>8, <1>10, <1>11, PutPixelWalks
  <1>14. PICK two : two = PutPixel([mem |-> one.mem, at |-> one.at], hi)
    OBVIOUS
  <1>15. /\ k + 1 < n => /\ Walks(two.at, packet, (k + 1) + 1)
                         /\ Placed(packet, (k + 1) + 1, before, two.mem)
         /\ k + 1 >= n => two.at = one.at /\ two.mem = one.mem
    <2>1. k + 1 \in Nat
      OBVIOUS
    <2>2. LET r == PutPixel([mem |-> one.mem, at |-> one.at], hi)
          IN  /\ k + 1 < Width(packet) * Height(packet) /\ hi = Pixel(packet, (k + 1) + 1) =>
                     Walks(r.at, packet, (k + 1) + 1) /\ Placed(packet, (k + 1) + 1, before, r.mem)
              /\ k + 1 >= Width(packet) * Height(packet) => r.at = one.at /\ r.mem = one.mem
      BY <1>8, <1>12, <1>13, <2>1, PutPixelWalks
    <2> QED
      BY <1>5, <1>10, <1>14, <2>2, Zenon
  <1>16. /\ vram' = two.mem /\ image_load' = two.at
         /\ gp0_words_remaining' = gp0_words_remaining - 1
         /\ gp0_mode' = IF gp0_words_remaining = 1 THEN "COMMAND" ELSE "IMAGE_LOAD"
    <2>1. Remaining(Head(todo)) = gp0_words_remaining - 1
      BY <1>4 DEF Remaining, AtBoundary
    <2>2. two = PutPixel(PutPixel([mem |-> vram, at |-> image_load], Head(todo)[2]),
                         Head(todo)[1])
      BY <1>9, <1>11, <1>12, <1>14
    <2>3. Remaining(Head(todo)) = 0 <=> gp0_words_remaining = 1
      BY <1>4, <2>1
    <2> QED
      BY <1>7, <2>1, <2>2, <2>3 DEF LoadWord
  <1>17. gp0_words_remaining' = Len(todo') /\ (gp0_words_remaining = 1 <=> todo' = << >>)
    BY <1>1, <1>3, <1>16
  <1>18. AtRest'
    BY <1>1, <1>16, <1>17 DEF AtRest
  <1>19. CommandLength(Opcode)' = 3 /\ Opcode' = 160
    BY <1>1, PacketLength DEF Opcode
  <1>20. Collecting' /\ Drawing'
    BY <1>1, <1>19 DEF Collecting, Drawing
  <1>21. ~Sends(192)'
    BY <1>1 DEF Sends, Opcode
  <1>22. CASE todo' = << >>
    <2>1. gp0_words_remaining = 1
      BY <1>17, <1>22
    <2>2. n = k + 1 \/ n = (k + 1) + 1
      BY <1>6, <2>1
    <2>3. Placed(packet, n, before, vram')
      BY <1>13, <1>15, <1>16, <2>2
    <2>4. Loading'
      BY <1>1, <1>5, <1>22, <2>3 DEF Loading
    <2> QED
      BY <1>18, <1>20, <1>21, <2>4 DEF Course, Storing
  <1>23. CASE todo' # << >>
    <2>1. gp0_words_remaining > 1
      BY <1>4, <1>17, <1>23
    <2>2. k + 1 < n
      BY <1>4, <1>6, <2>1
    <2>3. /\ Walks(image_load', packet, (k + 1) + 1)
          /\ Placed(packet, (k + 1) + 1, before, vram')
      BY <1>15, <1>16, <2>2
    <2>4. (k + 1) + 1 = 2 * (Sent' - 3) /\ Sent' >= 3
      BY <1>1, <1>2
    <2>5. Loading'
      <3>1. gp0_mode' = "IMAGE_LOAD"
        BY <1>16, <2>1
      <3>3. Walks(image_load, packet, 2 * (Sent - 3))'
        BY <1>1, <2>3, <2>4 DEF Walks
      <3>4. Placed(packet, 2 * (Sent - 3), before, vram)'
        BY <1>1, <2>3, <2>4
      <3> QED
        BY <1>1, <1>17, <1>23, <2>4, <3>1, <3>3, <3>4 DEF Loading
    <2> QED
      BY <1>18, <1>20, <1>21, <2>5 DEF Course, Storing
  <1> QED
    BY <1>22, <1>23

\* A store packet has the three words of its opcode.
LEMMA StoreLength ==
  ASSUME NEW p \in Seq(Words), p # << >>, WholePacket(p), Op(p[1]) = 192
  PROVE  Len(p) = 3 /\ p[2] \in Words /\ p[3] \in Words
  <1>1. PICK op \in 0 .. 255 : op = Op(p[1])
    BY PacketLength
  <1>2. op # 160 /\ op \notin Polylines
    BY <1>1, TransfersElse
  <1>3. Op(p[1]) \notin {160} \cup Polylines
    BY <1>1, <1>2
  <1>4. CommandLength(192) = 3
    BY PacketLength
  <1>5. Len(p) = IF CommandLength(192) = 0 THEN 1 ELSE CommandLength(192)
    BY <1>3, PacketLength
  <1>6. Len(p) = 3
    BY <1>4, <1>5
  <1>7. \A i \in 1 .. Len(p) : p[i] \in Words
    OBVIOUS
  <1>8. 2 \in 1 .. Len(p) /\ 3 \in 1 .. Len(p)
    BY <1>6
  <1> QED
    BY <1>6, <1>7, <1>8

------------------------------------------------------------------------------
(* The steps of the program *)

\* Every word of every packet leaves the decoder where the packet wants it.
LEMMA SendKeeps == ASSUME DInv, Send PROVE Course'
  <1>1. /\ packet # << >> /\ WholePacket(packet) /\ packet \in Seq(Words)
        /\ Sent \in Nat
    BY SendTrack DEF DInv, Track
  <1>2. PICK length \in 0 .. 12 : length = CommandLength(Opcode)
    BY <1>1, PacketLength DEF Opcode
  <1>3. Opcode = 160 => length = 3
    BY <1>1, <1>2, PacketLength DEF Opcode
  <1>4. \/ length = 0
        \/ Sent + 1 < length
        \/ Sent + 1 = length
        \/ length # 0 /\ Sent >= length
    BY <1>1
  <1> QED
    BY <1>2, <1>3, <1>4, DropKeeps, CollectKeeps, ExecuteKeeps, LineKeeps, LoadKeeps

LEMMA SendInv == ASSUME DInv, Send PROVE DInv'
  <1>1. Course' /\ Track'
    BY SendKeeps, SendTrack DEF DInv
  <1>2. /\ gpu_gp0(Head(todo)) /\ Head(todo) \in Words
        /\ UNCHANGED << before, got >>
    BY SendTrack DEF DInv
  <1>3. IInv'
    BY <1>2, StepInv DEF DInv, Next
  <1>4. DriverTypes'
    BY <1>2 DEF DInv, DriverTypes
  <1> QED
    BY <1>1, <1>3, <1>4 DEF DInv, Course

LEMMA BeginInv == ASSUME DInv, NEW p \in Packets, Begin(p) PROVE DInv'
  <1>1. p \in Seq(Words) /\ WholePacket(p) /\ p # << >>
    BY PacketsAssumption DEF WholePacket
  <1>2. /\ todo = << >> /\ packet' = p /\ todo' = p /\ before' = vram /\ got' = << >>
        /\ UNCHANGED vars /\ gp0_mode # "IMAGE_STORE"
    BY DEF Begin, Idle
  <1>3. gp0_mode = "COMMAND" /\ gp0_words_remaining = 0
    BY <1>2 DEF DInv, AtRest
  <1>4. IInv'
    BY <1>2, StepInv DEF DInv
  <1>5. Sent' = 0
    <2>1. Len(p) - Len(p) = 0
      BY <1>1
    <2> QED
      BY <1>2, <2>1 DEF Sent
  <1>6. Track'
    <2>1. WholePacket(packet)'
      BY <1>1, <1>2 DEF WholePacket, DataWords, PolylineEnds
    <2>2. \A i \in 1 .. Len(p) : p[i] = p[0 + i]
      OBVIOUS
    <2> QED
      BY <1>1, <1>2, <1>5, <2>1, <2>2 DEF Track
  <1>7. UNCHANGED << vram, gp0_mode, gp0_words_remaining >>
    BY <1>2 DEF vars
  <1>8. AtRest' /\ Collecting' /\ Drawing'
    BY <1>1, <1>2, <1>3, <1>5, <1>7 DEF AtRest, Collecting, Drawing
  <1>9. Loading' /\ Storing'
    BY <1>1, <1>2, <1>5, <1>7 DEF Loading, Storing
  <1>10. DriverTypes'
    BY <1>2 DEF DInv, IInv, TypeOK, DriverTypes
  <1> QED
    BY <1>4, <1>6, <1>8, <1>9, <1>10 DEF DInv

\* Reading returns the next two cells of the rectangle.
LEMMA DriverReadInv == ASSUME DInv, Read PROVE DInv'
  <1>1. /\ gp0_mode = "IMAGE_STORE" /\ gpu_read /\ got' = got \o ReadCells
        /\ UNCHANGED << packet, todo, before >>
    BY DEF Read, ReadyVramToCpu
  <1>2. /\ image_store' = Advance(Advance(image_store))
        /\ gp0_mode' = IF image_store_words_remaining = 1 THEN "COMMAND" ELSE gp0_mode
        /\ UNCHANGED << gp0_words_remaining, gp0_command_method, gp0_command,
                        image_load, polyline, busy, vram >>
    BY <1>1 DEF gpu_read
  <1>3. IInv'
    BY <1>1, StepInv DEF DInv, Next
  <1>4. packet # << >> => WholePacket(packet) /\ packet \in Seq(Words)
    BY DEF DInv, Track
  <1>5. todo = << >>
    <2> SUFFICES ASSUME todo # << >> PROVE FALSE
      OBVIOUS
    <2>1. packet \in Seq(Words) /\ todo \in Seq(Words) /\ Len(todo) <= Len(packet)
      BY DEF DInv, Track
    <2>2. packet # << >> /\ Sent \in Nat
      BY <2>1 DEF Sent
    <2>3. PICK length \in 0 .. 12 : length = CommandLength(Opcode)
      BY <1>4, <2>2, PacketLength DEF Opcode
    <2>4. Sent # 0
      BY <1>1 DEF DInv, AtRest
    <2>5. Sent >= length
      BY <1>1, <2>2, <2>3, <2>4 DEF DInv, Collecting
    <2>6. Opcode = 160
      BY <1>1, <2>2, <2>3, <2>4, <2>5 DEF DInv, Drawing
    <2>7. length = 3
      BY <1>4, <2>2, <2>3, <2>6, PacketLength DEF Opcode
    <2> QED
      BY <1>1, <2>2, <2>5, <2>6, <2>7 DEF DInv, Loading, Sends, Opcode
  <1>6. AtRest' /\ Collecting' /\ Drawing'
    BY <1>1, <1>2, <1>5 DEF DInv, AtRest, Collecting, Drawing
  <1>7. Loading'
    BY <1>1, <1>2, <1>5 DEF DInv, Loading, Sends
  <1>8. /\ image_store \in Transfer /\ image_store.cur_x < image_store.w
        /\ image_store_words_remaining \in Nat
        /\ 2 * image_store_words_remaining - PixelsLeft(image_store) \in {0, 1}
    BY <1>1 DEF DInv, IInv, TypeOK, TransfersCounted, Counted
  <1>9. PICK t : t = Advance(image_store)
    OBVIOUS
  <1>10. t \in Transfer /\ t.cur_x < t.w
    BY <1>8, <1>9, AdvanceOne
  <1>11. PICK a \in Cells, b \in Cells :
            a = CursorCell(image_store) /\ b = CursorCell(t)
    BY <1>8, <1>10, CursorInVram
  <1>12. got' = got \o << a, b >>
    BY <1>1, <1>9, <1>11 DEF ReadCells
  <1>13. got \in Seq(Cells)
    BY DEF DInv, DriverTypes
  <1>14. /\ got' \in Seq(Cells) /\ Len(got') = Len(got) + 2
         /\ \A j \in 1 .. Len(got) : got'[j] = got[j]
         /\ got'[Len(got) + 1] = a /\ got'[Len(got) + 2] = b
    BY <1>12, <1>13
  <1>15. DriverTypes'
    BY <1>1, <1>14 DEF DInv, DriverTypes
  <1>16. Track'
    BY <1>1, <1>4, <1>5 DEF DInv, Track, WholePacket, DataWords, PolylineEnds
  <1>17. Storing'
    <2> SUFFICES ASSUME Sends(192) PROVE Storing'
      BY <1>1 DEF Storing, Sends
    <2>1. packet # << >> /\ Op(packet[1]) = 192
      BY DEF Sends
    <2>2. packet[2] \in Words /\ packet[3] \in Words
      BY <1>4, <2>1, StoreLength
    <2>4. PICK k \in Nat : k = Len(got)
      BY <1>13
    <2>5. /\ Walks(image_store, packet, k)
          /\ \A j \in 1 .. k : j <= Width(packet) * Height(packet) =>
                                   got[j] = AreaCell(packet, j)
      BY <1>1, <1>5, <2>4 DEF DInv, Storing
    <2>6. Walks(t, packet, k + 1) /\ Walks(Advance(t), packet, (k + 1) + 1)
      BY <1>8, <1>9, <1>10, <2>5, AdvanceWalks
    <2>7. a = AreaCell(packet, k + 1) /\ b = AreaCell(packet, (k + 1) + 1)
      BY <1>8, <1>10, <1>11, <2>2, <2>5, <2>6, CursorWalks
    <2>8. PICK n \in Nat : /\ n = Width(packet) * Height(packet)
                           /\ PixelsLeft(image_store) = n - k
      BY <1>8, <2>5, WalkCount
    <2>9. image_store_words_remaining = 1 => k + 2 >= n
      BY <1>8, <2>8
    <2>10. ASSUME NEW j \in 1 .. k + 2, j <= n PROVE got'[j] = AreaCell(packet, j)
      <3>1. j \in 1 .. k \/ j = k + 1 \/ j = (k + 1) + 1
        OBVIOUS
      <3> QED
        BY <1>14, <2>4, <2>5, <2>7, <2>8, <2>10, <3>1
    <2>11. Len(got') = (k + 1) + 1 /\ (k + 1) + 1 = k + 2
      BY <1>14, <2>4
    <2>12. Walks(image_store, packet, Len(got))'
      BY <1>1, <1>2, <1>9, <2>6, <2>11
    <2> QED
      BY <1>1, <1>2, <2>8, <2>9, <2>10, <2>11, <2>12 DEF Storing
  <1> QED
    BY <1>3, <1>6, <1>7, <1>15, <1>16, <1>17 DEF DInv

LEMMA DriverResetInv == ASSUME DInv, Reset PROVE DInv'
  <1>1. /\ packet' = << >> /\ todo' = << >> /\ got' = << >> /\ before' = before
        /\ gp0_mode' = "COMMAND" /\ gp0_words_remaining' = 0
    BY DEF Reset, gp1_reset_command_buffer
  <1>2. IInv'
    BY StepInv DEF DInv, Next, Reset
  <1>3. Track'
    BY <1>1 DEF Track
  <1> QED
    BY <1>1, <1>2, <1>3
       DEF DInv, AtRest, Collecting, Drawing, DriverTypes, Loading, Storing, Sends

LEMMA DriverDrainInv == ASSUME DInv, Drain PROVE DInv'
  <1>1. /\ UNCHANGED << packet, todo, before, got >>
        /\ UNCHANGED << gp0_mode, gp0_words_remaining, gp0_command_method, gp0_command,
                        image_load, image_store, polyline, vram >>
    BY DEF Drain, DrainBusy, driver
  <1>2. IInv'
    BY StepInv DEF DInv, Next, Drain
  <1>3. Sent' = Sent /\ Opcode' = Opcode
    BY <1>1 DEF Sent, Opcode
  <1>4. Track'
    BY <1>1, <1>3 DEF DInv, Track, WholePacket, DataWords, PolylineEnds
  <1>5. AtRest' /\ Collecting' /\ Drawing' /\ DriverTypes'
    BY <1>1, <1>3 DEF DInv, AtRest, Collecting, Drawing, DriverTypes
  <1>6. Loading' /\ Storing'
    BY <1>1, <1>3 DEF DInv, Loading, Storing, Sends
  <1> QED
    BY <1>2, <1>4, <1>5, <1>6 DEF DInv

LEMMA DriverStutter == ASSUME DInv, UNCHANGED << vars, driver >> PROVE DInv'
  <1>1. /\ UNCHANGED << packet, todo, before, got >>
        /\ UNCHANGED << gp0_mode, gp0_words_remaining, gp0_command_method, gp0_command,
                        image_load, image_store, polyline, vram >>
    BY DEF vars, driver
  <1>2. IInv'
    BY StepInv DEF DInv
  <1>3. Sent' = Sent /\ Opcode' = Opcode
    BY <1>1 DEF Sent, Opcode
  <1>4. Track'
    BY <1>1, <1>3 DEF DInv, Track, WholePacket, DataWords, PolylineEnds
  <1>5. AtRest' /\ Collecting' /\ Drawing' /\ DriverTypes'
    BY <1>1, <1>3 DEF DInv, AtRest, Collecting, Drawing, DriverTypes
  <1>6. Loading' /\ Storing'
    BY <1>1, <1>3 DEF DInv, Loading, Storing, Sends
  <1> QED
    BY <1>2, <1>4, <1>5, <1>6 DEF DInv

LEMMA DriverInitInv == ASSUME DriverInit PROVE DInv
  <1>1. /\ packet = << >> /\ todo = << >> /\ got = << >> /\ before = vram
        /\ gp0_mode = "COMMAND" /\ gp0_words_remaining = 0 /\ Init
    BY DEF DriverInit, Init
  <1>2. IInv
    BY <1>1, InitInv
  <1>3. Track
    BY <1>1 DEF Track
  <1>4. DriverTypes
    BY <1>1, <1>2 DEF DriverTypes, IInv, TypeOK
  <1> QED
    BY <1>1, <1>2, <1>3, <1>4
       DEF DInv, AtRest, Collecting, Drawing, Loading, Storing, Sends

LEMMA DriverStepInv == DInv /\ [DriverNext]_<< vars, driver >> => DInv'
  <1> SUFFICES ASSUME DInv, [DriverNext]_<< vars, driver >> PROVE DInv'
    OBVIOUS
  <1>1. ASSUME NEW p \in Packets, Begin(p) PROVE DInv'
    BY <1>1, BeginInv
  <1>2. CASE Send
    BY <1>2, SendInv
  <1>3. CASE Read
    BY <1>3, DriverReadInv
  <1>4. CASE Reset
    BY <1>4, DriverResetInv
  <1>5. CASE Drain
    BY <1>5, DriverDrainInv
  <1>6. CASE UNCHANGED << vars, driver >>
    BY <1>6, DriverStutter
  <1> QED
    BY <1>1, <1>2, <1>3, <1>4, <1>5, <1>6 DEF DriverNext

LEMMA DriverInvariance == DriverSpec => []DInv
  <1>1. DriverInit => DInv
    BY DriverInitInv
  <1> QED
    BY <1>1, DriverStepInv, PTL DEF DriverSpec

------------------------------------------------------------------------------
(* The program's theorems *)

\* A nonempty set of numbers up to n has a greatest one.
LEMMA MaxExists ==
  ASSUME NEW n \in Nat, NEW S \in SUBSET (1 .. n), S # {}
  PROVE  \E m \in S : \A j \in S : j <= m
  <1> DEFINE T == { i \in Nat : i <= n /\ n - i \in S }
  <1>1. T \subseteq Nat /\ T # {}
    <2>1. PICK m \in S : TRUE
      OBVIOUS
    <2>2. n - m \in Nat /\ n - m <= n /\ n - (n - m) = m
      OBVIOUS
    <2> QED
      BY <2>1, <2>2
  <1>2. IsWellFoundedOn(OpToRel(<, Nat), Nat)
    BY NatLessThanWellFounded
  <1>3. PICK x \in T : \A y \in T : ~(<< y, x >> \in OpToRel(<, Nat))
    <2> HIDE DEF T, IsWellFoundedOn, OpToRel
    <2> QED
      BY <1>1, <1>2, WFMin
  <1>4. \A y \in T : ~(y < x)
    BY <1>1, <1>3 DEF OpToRel
  <1>5. ASSUME NEW j \in S PROVE j <= n - x
    <2>1. n - j \in Nat /\ n - j <= n /\ n - (n - j) = j
      OBVIOUS
    <2>2. n - j \in T
      BY <2>1
    <2>3. ~(n - j < x)
      BY <1>4, <2>2
    <2>4. x \in Nat
      OBVIOUS
    <2> QED
      BY <2>1, <2>3, <2>4
  <1> QED
    BY <1>3, <1>5

\* The rectangle of a packet, cell by cell.
LEMMA AreaCells ==
  ASSUME NEW p, p[3] \in Words
  PROVE  /\ Width(p) * Height(p) \in Nat
         /\ DOMAIN Area(p) = 1 .. Width(p) * Height(p)
         /\ Len(Area(p)) = Width(p) * Height(p)
         /\ Area(p) \in Seq({ AreaCell(p, i) : i \in 1 .. Width(p) * Height(p) })
         /\ \A i \in 1 .. Width(p) * Height(p) : Area(p)[i] = AreaCell(p, i)
         /\ ToSet(Area(p)) = { AreaCell(p, i) : i \in 1 .. Width(p) * Height(p) }
  <1>1. Width(p) \in Nat /\ Height(p) \in Nat
    BY WordsAssumption DEF Width, Height, Halves
  <1>2. PICK n \in Nat : n = Width(p) * Height(p)
    BY <1>1
  <1>3. Area(p) = [i \in 1 .. n |-> AreaCell(p, i)]
    BY <1>2 DEF Area, AreaCell, Width, Height
  <1>4. DOMAIN Area(p) = 1 .. n /\ \A i \in 1 .. n : Area(p)[i] = AreaCell(p, i)
    BY <1>3
  <1>5. Area(p) \in Seq({ AreaCell(p, i) : i \in 1 .. n })
    BY <1>3
  <1>6. Len(Area(p)) = n
    BY <1>4, <1>5
  <1>7. ToSet(Area(p)) = { AreaCell(p, i) : i \in 1 .. n }
    BY <1>4 DEF ToSet
  <1> QED
    BY <1>2, <1>4, <1>5, <1>6, <1>7

\* A cell of a loaded rectangle holds the last pixel sent to it.
LEMMA PlacedLoaded ==
  ASSUME NEW p, p[2] \in Words, p[3] \in Words, vram \in [Cells -> Halves],
         Placed(p, Width(p) * Height(p), before, vram)
  PROVE  vram = Loaded(p)
  <1>1. PICK n \in Nat : n = Width(p) * Height(p)
    BY AreaCells
  <1>2. /\ DOMAIN Area(p) = 1 .. n
        /\ \A i \in 1 .. n : Area(p)[i] = AreaCell(p, i)
        /\ ToSet(Area(p)) = { AreaCell(p, i) : i \in 1 .. n }
    BY <1>1, AreaCells
  <1> DEFINE LastAt(c, i) == Area(p)[i] = c /\ \A j \in DOMAIN Area(p) : Area(p)[j] = c => j <= i
             last(c) == CHOOSE i \in DOMAIN Area(p) : LastAt(c, i)
  <1>3. ASSUME NEW c \in ToSet(Area(p))
        PROVE  last(c) \in DOMAIN Area(p) /\ LastAt(c, last(c))
    <2> DEFINE S == { i \in 1 .. n : AreaCell(p, i) = c }
    <2>1. S \in SUBSET (1 .. n) /\ S # {}
      BY <1>2
    <2>2. PICK m \in S : \A j \in S : j <= m
      <3> HIDE DEF S
      <3> QED
        BY <2>1, MaxExists
    <2>3. m \in DOMAIN Area(p) /\ LastAt(c, m)
      BY <1>2, <2>2
    <2>4. \E i \in DOMAIN Area(p) : LastAt(c, i)
      BY <2>3
    <2> HIDE DEF LastAt
    <2> QED
      BY <2>4
  <1>4. ASSUME NEW c \in Cells
        PROVE  vram[c] = IF c \in ToSet(Area(p)) THEN Pixel(p, last(c)) ELSE before[c]
    <2>1. CASE c \in ToSet(Area(p))
      <3>a. PICK i : i = last(c)
        OBVIOUS
      <3>b. i \in DOMAIN Area(p) /\ LastAt(c, i)
        <4> HIDE DEF last, LastAt
        <4> QED
          BY <1>3, <2>1, <3>a
      <3> HIDE DEF last
      <3>1. /\ i \in 1 .. n /\ AreaCell(p, i) = c
            /\ \A j \in 1 .. n : AreaCell(p, j) = c => j <= i
        BY <1>2, <3>b
      <3>2. \A j \in i + 1 .. n : AreaCell(p, j) # AreaCell(p, i)
        BY <3>1
      <3>3. vram[AreaCell(p, i)] = Pixel(p, i)
        BY <1>1, <3>1, <3>2 DEF Placed
      <3> QED
        BY <2>1, <3>a, <3>1, <3>3
    <2>2. CASE c \notin ToSet(Area(p))
      <3>1. \A i \in 1 .. n : AreaCell(p, i) # c
        BY <1>2, <2>2
      <3> QED
        BY <1>1, <2>2, <3>1 DEF Placed
    <2> QED
      BY <2>1, <2>2
  <1>5. Loaded(p) = [c \in Cells |-> IF c \in ToSet(Area(p)) THEN Pixel(p, last(c))
                                                             ELSE before[c]]
    BY DEF Loaded, Pixel
  <1> HIDE DEF last
  <1> QED
    BY <1>4, <1>5

\* Whatever whole packets a program sends, of every kind and size, and wherever
\* its resets fall, gpu_gp0 and the program agree on where a packet ends.
THEOREM StaysInStep == DriverSpec => []InStep
  <1>1. DInv => InStep
    BY DEF DInv, AtRest, InStep
  <1> QED
    BY <1>1, DriverInvariance, PTL

\* Images of every size and position arrive in VRAM pixel by pixel, nothing
\* beside them changed: odd sizes, zero sides and rectangles that wrap around
\* VRAM and cover themselves included.
THEOREM LoadsArrive == DriverSpec => []LoadArrives
  <1>1. DInv => LoadArrives
    <2> SUFFICES ASSUME DInv, Sends(160), todo = << >> PROVE vram = Loaded(packet)
      BY DEF LoadArrives
    <2>1. packet # << >> /\ packet \in Seq(Words) /\ WholePacket(packet)
          /\ Op(packet[1]) = 160
      BY DEF Sends, DInv, Track
    <2>2. Len(packet) >= 3
      BY <2>1 DEF WholePacket
    <2>3. packet[2] \in Words /\ packet[3] \in Words
      BY <2>1, <2>2
    <2>4. Placed(packet, Width(packet) * Height(packet), before, vram)
      BY DEF DInv, Loading
    <2>5. vram \in [Cells -> Halves]
      BY DEF DInv, IInv, TypeOK
    <2> QED
      BY <2>3, <2>4, <2>5, PlacedLoaded
  <1> QED
    BY <1>1, DriverInvariance, PTL

\* A store of every size returns its rectangle in order, no cell twice and none
\* left out, and bit 27 clears when the last one has been read.
THEOREM StoresDeliver == DriverSpec => []StoreDelivers
  <1>1. DInv => StoreDelivers
    <2> SUFFICES ASSUME DInv, Sends(192), todo = << >> PROVE StoreDelivers
      BY DEF StoreDelivers
    <2>1. packet # << >> /\ packet \in Seq(Words) /\ WholePacket(packet)
          /\ Op(packet[1]) = 192
      BY DEF Sends, DInv, Track
    <2>2. packet[3] \in Words
      BY <2>1, StoreLength
    <2>3. PICK m \in Nat : m = Width(packet) * Height(packet)
      BY <2>2, AreaCells
    <2>4. PICK area : area = Area(packet)
      OBVIOUS
    <2>5. Len(area) = m /\ \A i \in 1 .. m : area[i] = AreaCell(packet, i)
      BY <2>2, <2>3, <2>4, AreaCells
    <2>6. got \in Seq(Cells) /\ Len(got) \in Nat
      BY DEF DInv, DriverTypes
    <2>7. PICK n \in Nat : n = IF Len(got) <= m THEN Len(got) ELSE m
      BY <2>6
    <2>8. \A j \in 1 .. n : got[j] = area[j]
      BY <2>3, <2>5, <2>6, <2>7 DEF DInv, Storing
    <2>9. SubSeq(got, 1, n) = SubSeq(area, 1, n)
      <3>1. area \in Seq({ AreaCell(packet, i) : i \in 1 .. m })
        BY <2>2, <2>3, <2>4, AreaCells
      <3> QED
        BY <2>5, <2>6, <2>7, <2>8, <3>1
    <2>10. gp0_mode = "IMAGE_STORE" => ReadyVramToCpu
      BY DEF DInv, IInv, TypeOK, TransfersCounted, Counted, ReadyVramToCpu
    <2>11. ~ReadyVramToCpu => n = m
      BY <2>3, <2>6, <2>7, <2>10 DEF DInv, Storing
    <2> QED
      BY <2>4, <2>5, <2>7, <2>9, <2>11 DEF StoreDelivers
  <1> QED
    BY <1>1, DriverInvariance, PTL
==============================================================================
