------------------------------ MODULE SpuProofs ------------------------------
(* The ring of CD audio, the uploads and the reverb's addressing, for every  *)
(* size of the ring and of sound RAM, every disc and every program.          *)
EXTENDS Spu, SequenceTheorems, TLAPS

\* What the ring needs to be a queue: the two ends and the count agree.
RingInv ==
    /\ disc \subseteq Frame
    /\ cd_audio \in [0 .. FRAMES - 1 -> Frame]
    /\ cd_audio_head \in 0 .. FRAMES - 1
    /\ cd_audio_count \in 0 .. FRAMES
    /\ cd_audio_tail = (cd_audio_head + cd_audio_count) % FRAMES
    /\ queue \in Seq(Frame)
    /\ Len(queue) = cd_audio_count
    /\ \A i \in 1 .. cd_audio_count : queue[i] = cd_audio[(cd_audio_head + i - 1) % FRAMES]

\* What uploads need: the reverb writes in the work area or where a register
\* points, and the words that are owed lie outside of both.
MemoryInv ==
    /\ todo \in Seq(Ops)
    /\ sound_ram \in [Address -> Word]
    /\ sound_ram_start_address \in 0 .. RAM
    /\ mine \in [Address -> Word \cup {None}]
    /\ m \in [MRegs -> Address]
    /\ reverb_start_address \in Address
    /\ reverb_write_address \in reverb_start_address .. RAM - 1
    /\ reverb_left \in BOOLEAN
    /\ \A a \in Address : mine[a] # None =>
           /\ sound_ram[a] = mine[a]
           /\ a < reverb_start_address
           /\ \A r \in MRegs : m[r] # a

-----------------------------------------------------------------------------
(* Arithmetic.                                                               *)

\* A position and a distance in a ring of n wrap at most once.
LEMMA Wrap ==
  ASSUME NEW n \in Nat \ {0}, NEW a \in 0 .. n - 1, NEW b \in 0 .. n
  PROVE  (a + b) % n = IF a + b < n THEN a + b ELSE a + b - n
<1>1. CASE a + b < n  BY <1>1
<1>2. CASE a + b >= n  BY <1>2
<1> QED  BY <1>1, <1>2

\* The same, counting from 1.
LEMMA WrapFromOne ==
  ASSUME NEW n \in Nat \ {0}, NEW a \in 0 .. n - 1, NEW i \in 1 .. n + 1
  PROVE  (a + i - 1) % n = IF a + i - 1 < n THEN a + i - 1 ELSE a + i - 1 - n
<1>1. CASE a + i - 1 < n  BY <1>1
<1>2. CASE a + i - 1 >= n  BY <1>2
<1> QED  BY <1>1, <1>2

-----------------------------------------------------------------------------
(* The ring.                                                                 *)

ringvars == <<disc, cd_audio, cd_audio_head, cd_audio_tail, cd_audio_count, queue>>

LEMMA RingInit == ASSUME Init PROVE RingInv
<1>1. disc \subseteq Frame  BY DEF Init, Frame
<1>2. cd_audio \in [0 .. FRAMES - 1 -> Frame]  BY DEF Init, Frame
<1>3. (0 + 0) % FRAMES = 0 /\ 0 \in 0 .. FRAMES - 1 /\ 0 \in 0 .. FRAMES  BY SpuAssumption
<1>4. cd_audio_head = 0 /\ cd_audio_count = 0 /\ cd_audio_tail = 0 /\ queue = <<>>  BY DEF Init
<1>5. queue \in Seq(Frame) /\ Len(queue) = 0  BY <1>4
<1> QED  BY <1>1, <1>2, <1>3, <1>4, <1>5 DEF RingInv

\* A frame goes behind the others; at the limit the oldest makes room.
LEMMA RingPush ==
  ASSUME RingInv, NEW f \in disc, PushCdAudioFrame(f)
  PROVE  RingInv'
<1> DEFINE N == FRAMES
           h == cd_audio_head
           c == cd_audio_count
<1>1. N \in Nat \ {0} /\ h \in 0 .. N - 1 /\ c \in 0 .. N /\ f \in Frame
  BY SpuAssumption DEF RingInv
<1>2. cd_audio_tail = IF h + c < N THEN h + c ELSE h + c - N
  <2>1. cd_audio_tail = (h + c) % N  BY DEF RingInv
  <2> HIDE DEF N, h, c
  <2>2. (h + c) % N = IF h + c < N THEN h + c ELSE h + c - N  BY <1>1, Wrap, Zenon
  <2> QED  BY <2>1, <2>2
<1>3. cd_audio_tail \in 0 .. N - 1  BY <1>1, <1>2
<1>4. /\ (h + 1) % N = IF h + 1 = N THEN 0 ELSE h + 1
      /\ (cd_audio_tail + 1) % N = IF cd_audio_tail + 1 = N THEN 0 ELSE cd_audio_tail + 1
  <2> HIDE DEF N, h
  <2>1. 1 \in 0 .. N  BY <1>1
  <2>2. /\ (h + 1) % N = IF h + 1 < N THEN h + 1 ELSE h + 1 - N
        /\ (cd_audio_tail + 1) % N
               = IF cd_audio_tail + 1 < N THEN cd_audio_tail + 1 ELSE cd_audio_tail + 1 - N
    BY <1>1, <1>3, <2>1, Wrap, Zenon
  <2> QED  BY <1>1, <1>3, <2>2
<1>5. \A i \in 1 .. N + 1 : (h + i - 1) % N = IF h + i - 1 < N THEN h + i - 1 ELSE h + i - 1 - N
  <2> HIDE DEF N, h
  <2> QED  BY <1>1, WrapFromOne, Zenon
<1>6. /\ cd_audio_head' \in 0 .. N - 1 /\ cd_audio_count' \in 0 .. N
      /\ cd_audio_tail' \in 0 .. N - 1
  BY <1>1, <1>3, <1>4 DEF PushCdAudioFrame
<1>7. cd_audio' \in [0 .. N - 1 -> Frame] /\ disc' \subseteq Frame
  BY <1>1 DEF PushCdAudioFrame, RingInv
<1> HIDE DEF N, h, c
<1>8. CASE c >= N
  <2>1. /\ c = N /\ queue # <<>> /\ Len(queue) = N
        /\ cd_audio_head' = (h + 1) % N /\ cd_audio_count' = c
        /\ queue' = Append(Tail(queue), f)
    BY <1>1, <1>8 DEF PushCdAudioFrame, RingInv, N, h, c
  <2>2. /\ Tail(queue) \in Seq(Frame) /\ Len(Tail(queue)) = N - 1
        /\ \A i \in 1 .. N - 1 : Tail(queue)[i] = queue[i + 1]
    BY <1>1, <2>1 DEF RingInv
  <2>3. /\ queue' \in Seq(Frame) /\ Len(queue') = N
        /\ \A i \in 1 .. N - 1 : queue'[i] = queue[i + 1]
        /\ queue'[N] = f
    BY <1>1, <2>1, <2>2
  <2>4. cd_audio_tail = h
    BY <1>1, <1>2, <2>1
  <2>5. cd_audio_tail' = (cd_audio_head' + cd_audio_count') % N
    <3>1. cd_audio_tail' = (h + 1) % N
      BY <2>4 DEF PushCdAudioFrame, N
    <3>2. \A x \in 0 .. N - 1 : (x + N) % N = x
      <4>1. N \in 0 .. N  BY <1>1
      <4>2. \A x \in 0 .. N - 1 : (x + N) % N = IF x + N < N THEN x + N ELSE x + N - N
        BY <1>1, <4>1, Wrap, Zenon
      <4> QED  BY <1>1, <4>2
    <3> QED  BY <1>6, <2>1, <3>1, <3>2
  <2>6. \A i \in 1 .. N : queue'[i] = cd_audio'[(cd_audio_head' + i - 1) % N]
    <3> SUFFICES ASSUME NEW i \in 1 .. N
                 PROVE  queue'[i] = cd_audio'[(cd_audio_head' + i - 1) % N]
      OBVIOUS
    <3>1. (cd_audio_head' + i - 1) % N = (h + i) % N
      <4>1. cd_audio_head' = IF h + 1 = N THEN 0 ELSE h + 1  BY <1>4, <2>1
      <4>2. i \in 1 .. N + 1 /\ i \in 0 .. N  BY <1>1
      <4>3. (cd_audio_head' + i - 1) % N = IF cd_audio_head' + i - 1 < N
                THEN cd_audio_head' + i - 1 ELSE cd_audio_head' + i - 1 - N
        BY <1>1, <1>6, <4>2, WrapFromOne, Zenon
      <4>4. (h + i) % N = IF h + i < N THEN h + i ELSE h + i - N
        BY <1>1, <4>2, Wrap, Zenon
      <4> QED  BY <1>1, <4>1, <4>3, <4>4
    <3>2. cd_audio' = [cd_audio EXCEPT ![h] = f]
      BY <2>4 DEF PushCdAudioFrame
    <3>3. cd_audio \in [0 .. N - 1 -> Frame]
      BY DEF RingInv, N
    <3>4. CASE i = N
      <4>1. N \in 0 .. N  BY <1>1
      <4>2. (h + N) % N = IF h + N < N THEN h + N ELSE h + N - N
        BY <1>1, <4>1, Wrap, Zenon
      <4>3. (h + N) % N = h  BY <1>1, <4>2
      <4> QED  BY <1>1, <2>3, <3>1, <3>2, <3>3, <3>4, <4>3
    <3>5. CASE i < N
      <4>1. (h + i) % N # h /\ (h + i) % N \in 0 .. N - 1
        <5>1. i \in 0 .. N  BY <1>1
        <5>2. (h + i) % N = IF h + i < N THEN h + i ELSE h + i - N
          BY <1>1, <5>1, Wrap, Zenon
        <5> QED  BY <1>1, <3>5, <5>2
      <4>2. queue'[i] = cd_audio[(h + i) % N]
        <5>1. i + 1 \in 1 .. c /\ h + (i + 1) - 1 = h + i  BY <1>1, <2>1, <3>5
        <5>2. queue[i + 1] = cd_audio[(h + (i + 1) - 1) % N]
          BY <5>1 DEF RingInv, N, h, c
        <5> QED  BY <2>3, <3>5, <5>1, <5>2, <1>1
      <4> QED  BY <3>1, <3>2, <3>3, <4>1, <4>2
    <3> QED  BY <1>1, <3>4, <3>5
  <2> QED  BY <1>6, <1>7, <2>1, <2>3, <2>5, <2>6 DEF RingInv, N, c
<1>9. CASE c < N
  <2>1. /\ cd_audio_head' = h /\ cd_audio_count' = c + 1 /\ Len(queue) = c
        /\ queue' = Append(queue, f)
    BY <1>1, <1>9 DEF PushCdAudioFrame, RingInv, N, h, c
  <2>2. /\ queue' \in Seq(Frame) /\ Len(queue') = c + 1
        /\ \A i \in 1 .. c : queue'[i] = queue[i]
        /\ queue'[c + 1] = f
    BY <1>1, <2>1 DEF RingInv
  <2>3. cd_audio_tail = (h + c) % N
    BY DEF RingInv, N, h, c
  <2>4. cd_audio_tail' = (cd_audio_head' + cd_audio_count') % N
    <3>1. cd_audio_tail' = (cd_audio_tail + 1) % N  BY DEF PushCdAudioFrame, N
    <3>2. c + 1 \in 0 .. N  BY <1>1, <1>9
    <3>3. (h + (c + 1)) % N = IF h + (c + 1) < N THEN h + (c + 1) ELSE h + (c + 1) - N
      BY <1>1, <3>2, Wrap, Zenon
    <3> QED  BY <1>1, <1>2, <1>3, <1>4, <1>9, <2>1, <3>1, <3>3
  <2>5. cd_audio' = [cd_audio EXCEPT ![(h + c) % N] = f] /\ cd_audio \in [0 .. N - 1 -> Frame]
    BY <2>3 DEF PushCdAudioFrame, RingInv, N
  <2>6. \A i \in 1 .. c + 1 : queue'[i] = cd_audio'[(h + i - 1) % N]
    <3> SUFFICES ASSUME NEW i \in 1 .. c + 1
                 PROVE  queue'[i] = cd_audio'[(h + i - 1) % N]
      OBVIOUS
    <3>1. (h + c) % N = IF h + c < N THEN h + c ELSE h + c - N
      BY <1>1, Wrap, Zenon
    <3>2. (h + i - 1) % N = IF h + i - 1 < N THEN h + i - 1 ELSE h + i - 1 - N
      BY <1>1, <1>5, <1>9
    <3>3. CASE i = c + 1
      <4>1. h + i - 1 = h + c  BY <1>1, <3>3
      <4>2. (h + c) % N \in 0 .. N - 1  BY <1>1, <1>9, <3>1
      <4> QED  BY <2>2, <2>5, <3>3, <4>1, <4>2
    <3>4. CASE i \in 1 .. c
      <4>1. (h + i - 1) % N # (h + c) % N /\ (h + i - 1) % N \in 0 .. N - 1
        BY <1>1, <1>9, <3>1, <3>2, <3>4
      <4>2. queue[i] = cd_audio[(h + i - 1) % N]
        BY <3>4 DEF RingInv, N, h, c
      <4> QED  BY <2>2, <2>5, <3>4, <4>1, <4>2
    <3> QED  BY <1>1, <3>3, <3>4
  <2> QED  BY <1>6, <1>7, <2>1, <2>2, <2>4, <2>6 DEF RingInv, N, h, c
<1> QED  BY <1>1, <1>8, <1>9

\* A sample takes the oldest frame.
LEMMA RingPop ==
  ASSUME RingInv, PopCdAudioFrame, UNCHANGED disc
  PROVE  RingInv'
<1> DEFINE N == FRAMES
           h == cd_audio_head
           c == cd_audio_count
<1>1. N \in Nat \ {0} /\ h \in 0 .. N - 1 /\ c \in 0 .. N
  BY SpuAssumption DEF RingInv
<1>2. CASE c = 0
  <2>1. queue = <<>>  BY <1>2 DEF RingInv
  <2> QED  BY <1>2, <2>1 DEF RingInv, PopCdAudioFrame
<1>3. CASE c > 0
  <2> HIDE DEF N, h, c
  <2>1. /\ cd_audio_head' = (h + 1) % N /\ cd_audio_count' = c - 1
        /\ cd_audio_tail' = (h + c) % N /\ cd_audio' = cd_audio
        /\ queue # <<>> /\ queue' = Tail(queue)
    BY <1>1, <1>3 DEF PopCdAudioFrame, RingInv, N, h, c
  <2>2. cd_audio_head' = IF h + 1 = N THEN 0 ELSE h + 1
    <3>1. 1 \in 0 .. N  BY <1>1
    <3>2. (h + 1) % N = IF h + 1 < N THEN h + 1 ELSE h + 1 - N
      BY <1>1, <3>1, Wrap, Zenon
    <3> QED  BY <1>1, <2>1, <3>2
  <2>3. /\ queue' \in Seq(Frame) /\ Len(queue') = c - 1
        /\ \A i \in 1 .. c - 1 : queue'[i] = queue[i + 1]
    BY <1>1, <2>1 DEF RingInv, c
  <2>4. \A i \in 1 .. c : (cd_audio_head' + i - 1) % N = (h + i) % N
    <3> SUFFICES ASSUME NEW i \in 1 .. c
                 PROVE  (cd_audio_head' + i - 1) % N = (h + i) % N
      OBVIOUS
    <3>1. cd_audio_head' \in 0 .. N - 1 /\ i \in 1 .. N + 1 /\ i \in 0 .. N
      BY <1>1, <2>2
    <3>2. (cd_audio_head' + i - 1) % N = IF cd_audio_head' + i - 1 < N
              THEN cd_audio_head' + i - 1 ELSE cd_audio_head' + i - 1 - N
      BY <1>1, <3>1, WrapFromOne, Zenon
    <3>3. (h + i) % N = IF h + i < N THEN h + i ELSE h + i - N
      BY <1>1, <3>1, Wrap, Zenon
    <3> QED  BY <1>1, <2>2, <3>2, <3>3
  <2>5. cd_audio_tail' = (cd_audio_head' + cd_audio_count') % N
    <3>1. c \in 1 .. c /\ cd_audio_head' + c - 1 = cd_audio_head' + (c - 1)
      BY <1>1, <1>3, <2>2
    <3> QED  BY <2>1, <2>4, <3>1
  <2>6. \A i \in 1 .. c - 1 : queue'[i] = cd_audio'[(cd_audio_head' + i - 1) % N]
    <3> SUFFICES ASSUME NEW i \in 1 .. c - 1
                 PROVE  queue'[i] = cd_audio'[(cd_audio_head' + i - 1) % N]
      OBVIOUS
    <3>1. i \in 1 .. c /\ i + 1 \in 1 .. c /\ h + (i + 1) - 1 = h + i  BY <1>1
    <3>2. queue[i + 1] = cd_audio[(h + (i + 1) - 1) % N]
      BY <3>1 DEF RingInv, N, h, c
    <3> QED  BY <2>1, <2>3, <2>4, <3>1, <3>2
  <2>7. cd_audio_head' \in 0 .. N - 1 /\ cd_audio_count' \in 0 .. N
    BY <1>1, <1>3, <2>1, <2>2
  <2> QED  BY <2>1, <2>3, <2>5, <2>6, <2>7 DEF RingInv, N
<1> QED  BY <1>1, <1>2, <1>3

\* The program's stores and slices without a sample leave the ring alone.
LEMMA RingNext == ASSUME RingInv, [Next]_vars PROVE RingInv'
<1>1. CASE UNCHANGED ringvars
  BY <1>1 DEF ringvars, RingInv
<1>2. CASE \E f \in disc : PushCdAudioFrame(f)
  BY <1>2, RingPush
<1>3. CASE ClearCdAudio
  <2>1. (0 + 0) % FRAMES = 0  BY SpuAssumption
  <2> QED  BY <1>3, <2>1, SpuAssumption DEF ClearCdAudio, RingInv
<1>4. CASE Clock
  BY <1>4, RingPop DEF Clock
<1>5. ASSUME NEW o, Program(o) PROVE UNCHANGED ringvars
  BY <1>5 DEF Program, StoreTransferAddress, StoreData, DmaWrite, DmaRead, StoreReverbBase,
              StoreReverbAddress, VoiceStore, KeyOn, KeyOff, ring, ringvars
<1>6. ASSUME NEW cycles \in Slices, Step(cycles) PROVE Clock \/ UNCHANGED ringvars
  BY <1>6 DEF Step, ring, ringvars
<1>7. UNCHANGED vars => UNCHANGED ringvars
  BY DEF vars, ring, ringvars
<1> QED  BY <1>1, <1>2, <1>3, <1>4, <1>5, <1>6, <1>7 DEF Next, Drive

\* For every disc, every length of the ring and every order of pushes, clears and
\* samples (spu_push_cd_audio_frame, spu_clear_cd_audio, spu_pop_cd_audio_frame),
\* the next sample plays the oldest frame still owed.
THEOREM CdAudioInOrder == Spec => []RingIsFifo
<1>1. Init => RingInv  BY RingInit
<1>2. RingInv /\ [Next]_vars => RingInv'  BY RingNext
<1>3. RingInv => RingIsFifo
  <2> SUFFICES ASSUME RingInv PROVE RingIsFifo  OBVIOUS
  <2>1. FRAMES \in Nat \ {0} /\ cd_audio_head \in 0 .. FRAMES - 1  BY SpuAssumption DEF RingInv
  <2>2. CASE queue = <<>>  BY <2>2 DEF RingInv, RingIsFifo, NextFrame
  <2>3. CASE queue # <<>>
    <3>1. cd_audio_count # 0 /\ 1 \in 1 .. cd_audio_count /\ Head(queue) = queue[1]
      BY <2>3 DEF RingInv
    <3>2. cd_audio_head + 1 - 1 = cd_audio_head /\ cd_audio_head % FRAMES = cd_audio_head
      BY <2>1
    <3> QED  BY <2>3, <3>1, <3>2 DEF RingInv, RingIsFifo, NextFrame
  <2> QED  BY <2>2, <2>3
<1> QED  BY <1>1, <1>2, <1>3, PTL DEF Spec

-----------------------------------------------------------------------------
(* Sound RAM and the work area.                                              *)

LEMMA MemoryInit == ASSUME Init PROVE MemoryInv
<1>1. todo \in Seq(Ops)  BY SpuAssumption DEF Init
<1>2. 0 \in Address  BY SpuAssumption DEF Address
<1>3. sound_ram \in [Address -> Word]  BY DEF Init, Word
<1>4. mine \in [Address -> Word \cup {None}] /\ \A a \in Address : mine[a] = None  BY DEF Init
<1>5. m \in [MRegs -> Address] /\ reverb_start_address \in Address /\ reverb_left \in BOOLEAN
  BY <1>2 DEF Init
<1>6. /\ sound_ram_start_address \in 0 .. RAM
      /\ reverb_write_address \in reverb_start_address .. RAM - 1
  BY SpuAssumption DEF Init
<1> QED  BY <1>1, <1>3, <1>4, <1>5, <1>6 DEF MemoryInv

\* What Clear keeps is outside the work area and no register points at it.
LEMMA ClearFacts ==
  ASSUME NEW words \in [Address -> Word \cup {None}], NEW start, NEW targets
  PROVE  /\ Clear(words, start, targets) \in [Address -> Word \cup {None}]
         /\ \A a \in Address : Clear(words, start, targets)[a] # None =>
                /\ Clear(words, start, targets)[a] = words[a]
                /\ ~(a >= start)
                /\ \A r \in MRegs : targets[r] # a
BY DEF Clear

\* The operation that is due is one of the program's.
LEMMA NextOp == ASSUME MemoryInv, todo # <<>> PROVE OpOK(Head(todo)) /\ Tail(todo) \in Seq(Ops)
BY SpuAssumption DEF MemoryInv

LEMMA MemoryStoreData ==
  ASSUME MemoryInv, NEW o, OpOK(o), StoreData(o), todo' \in Seq(Ops)
  PROVE  MemoryInv'
<1> DEFINE a == sound_ram_start_address
           words == [mine EXCEPT ![a] = o.w]
<1>1. a \in Address /\ RAM \in Nat
  BY SpuAssumption DEF MemoryInv, StoreData, Address
<1>2. o.w \in Word
  BY DEF OpOK, StoreData, Word
<1>3. words \in [Address -> Word \cup {None}]
  BY <1>2 DEF MemoryInv
<1>4. /\ sound_ram' = [sound_ram EXCEPT ![a] = o.w] /\ mine' = Clear(words, reverb_start_address, m)
      /\ sound_ram_start_address' = a + 1 /\ UNCHANGED reverb
  BY DEF StoreData
<1>5. sound_ram' \in [Address -> Word] /\ sound_ram_start_address' \in 0 .. RAM
  BY <1>1, <1>2, <1>4 DEF MemoryInv, StoreData, Address
<1> HIDE DEF words
<1>6. /\ mine' \in [Address -> Word \cup {None}]
      /\ \A b \in Address : mine'[b] # None =>
             mine'[b] = words[b] /\ ~(b >= reverb_start_address) /\ \A r \in MRegs : m[r] # b
  BY <1>3, <1>4, ClearFacts
<1>7. ASSUME NEW b \in Address, mine'[b] # None
      PROVE  sound_ram'[b] = mine'[b] /\ b < reverb_start_address /\ \A r \in MRegs : m[r] # b
  <2>1. b < reverb_start_address  BY <1>6, <1>7 DEF MemoryInv, Address
  <2>2. CASE b = a  BY <1>1, <1>4, <1>6, <1>7, <2>1, <2>2 DEF MemoryInv, words
  <2>3. CASE b # a  BY <1>1, <1>4, <1>6, <1>7, <2>1, <2>3 DEF MemoryInv, words
  <2> QED  BY <2>2, <2>3
<1> QED  BY <1>4, <1>5, <1>6, <1>7 DEF MemoryInv, reverb

LEMMA MemoryDmaWrite ==
  ASSUME MemoryInv, NEW o, OpOK(o), DmaWrite(o), todo' \in Seq(Ops)
  PROVE  MemoryInv'
<1> DEFINE a == sound_ram_start_address % RAM
           c == (a + 1) % RAM
           words == [mine EXCEPT ![a] = o.lo, ![c] = o.hi]
<1>1. a \in Address /\ c \in Address /\ (a + 2) % RAM \in Address /\ RAM \in Nat
  BY SpuAssumption DEF MemoryInv, Address
<1>2. o.lo \in Word /\ o.hi \in Word
  BY DEF OpOK, DmaWrite, Word
<1>4. /\ sound_ram' = [sound_ram EXCEPT ![a] = o.lo, ![c] = o.hi]
      /\ mine' = Clear(words, reverb_start_address, m)
      /\ sound_ram_start_address' = (a + 2) % RAM /\ UNCHANGED reverb
  BY DEF DmaWrite
<1> HIDE DEF a, c
<1>3. words \in [Address -> Word \cup {None}]
  BY <1>2 DEF MemoryInv
<1>5. sound_ram' \in [Address -> Word] /\ sound_ram_start_address' \in 0 .. RAM
  <2>1. sound_ram' \in [Address -> Word]  BY <1>2, <1>4 DEF MemoryInv
  <2>2. \A x \in Address : x \in 0 .. RAM  BY <1>1 DEF Address
  <2> QED  BY <1>1, <1>4, <2>1, <2>2
<1> HIDE DEF words
<1>6. /\ mine' \in [Address -> Word \cup {None}]
      /\ \A b \in Address : mine'[b] # None =>
             mine'[b] = words[b] /\ ~(b >= reverb_start_address) /\ \A r \in MRegs : m[r] # b
  BY <1>3, <1>4, ClearFacts
<1>7. ASSUME NEW b \in Address, mine'[b] # None
      PROVE  sound_ram'[b] = mine'[b] /\ b < reverb_start_address /\ \A r \in MRegs : m[r] # b
  <2>1. b < reverb_start_address  BY <1>6, <1>7 DEF MemoryInv, Address
  <2>2. words[b] = IF b = c THEN o.hi ELSE IF b = a THEN o.lo ELSE mine[b]
    BY <1>1, <1>7 DEF MemoryInv, words
  <2>3. sound_ram'[b] = IF b = c THEN o.hi ELSE IF b = a THEN o.lo ELSE sound_ram[b]
    BY <1>1, <1>4, <1>7 DEF MemoryInv
  <2> QED  BY <1>6, <1>7, <2>1, <2>2, <2>3 DEF MemoryInv
<1> QED  BY <1>4, <1>5, <1>6, <1>7 DEF MemoryInv, reverb

LEMMA MemoryReverbBase ==
  ASSUME MemoryInv, NEW o, OpOK(o), StoreReverbBase(o), todo' \in Seq(Ops)
  PROVE  MemoryInv'
<1>1. o.a \in Address /\ RAM \in Nat  BY SpuAssumption DEF OpOK, StoreReverbBase
<1>2. /\ reverb_start_address' = o.a /\ reverb_write_address' = o.a /\ mine' = Clear(mine, o.a, m)
      /\ UNCHANGED <<sound_ram, sound_ram_start_address, reverb_left, m>>
  BY DEF StoreReverbBase
<1>3. mine \in [Address -> Word \cup {None}]  BY DEF MemoryInv
<1>4. /\ mine' \in [Address -> Word \cup {None}]
      /\ \A b \in Address : mine'[b] # None =>
             mine'[b] = mine[b] /\ ~(b >= o.a) /\ \A r \in MRegs : m[r] # b
  BY <1>2, <1>3, ClearFacts
<1>5. reverb_write_address' \in reverb_start_address' .. RAM - 1  BY <1>1, <1>2 DEF Address
<1>6. \A b \in Address : ~(b >= o.a) => b < o.a  BY <1>1 DEF Address
<1> QED  BY <1>1, <1>2, <1>4, <1>5, <1>6 DEF MemoryInv

LEMMA MemoryReverbAddress ==
  ASSUME MemoryInv, NEW o, OpOK(o), StoreReverbAddress(o), todo' \in Seq(Ops)
  PROVE  MemoryInv'
<1>1. o.a \in Address /\ o.r \in MRegs  BY DEF OpOK, StoreReverbAddress
<1>2. /\ m' = [m EXCEPT ![o.r] = o.a] /\ mine' = Clear(mine, reverb_start_address, m')
      /\ UNCHANGED <<sound_ram, sound_ram_start_address, reverb_start_address,
                     reverb_write_address, reverb_left>>
  BY DEF StoreReverbAddress
<1>3. mine \in [Address -> Word \cup {None}]  BY DEF MemoryInv
<1>4. /\ mine' \in [Address -> Word \cup {None}]
      /\ \A b \in Address : mine'[b] # None =>
             mine'[b] = mine[b] /\ \A r \in MRegs : m'[r] # b
  BY <1>2, <1>3 DEF Clear
<1>5. m' \in [MRegs -> Address]  BY <1>1, <1>2 DEF MemoryInv
<1> QED  BY <1>2, <1>4, <1>5 DEF MemoryInv

\* A sample writes at reverb addresses only, and stays in the work area.
LEMMA MemoryClock ==
  ASSUME MemoryInv, Clock
  PROVE  MemoryInv'
<1>1. RAM \in Nat /\ reverb_start_address \in Int /\ reverb_write_address \in Int
  BY SpuAssumption DEF MemoryInv, Address
<1>2. reverb_write_address' \in reverb_start_address .. RAM - 1
  BY <1>1 DEF MemoryInv, Clock, NextReverbWrite, Address
<1>3. PICK w \in Reverb : sound_ram' = [a \in Address |-> IF a \in Targets THEN w ELSE sound_ram[a]]
  BY DEF Clock
<1>4. sound_ram' \in [Address -> Word]
  <2>1. w \in Word  BY DEF Word
  <2>2. sound_ram \in [Address -> Word]  BY DEF MemoryInv
  <2> QED  BY <1>3, <2>1, <2>2
<1>5. ASSUME NEW a \in Address, mine[a] # None PROVE a \notin Targets
  <2>1. a < reverb_start_address /\ \A r \in MRegs : m[r] # a  BY <1>5 DEF MemoryInv
  <2>2. a # reverb_write_address  BY <1>1, <2>1 DEF MemoryInv, Address
  <2> QED  BY <2>1, <2>2 DEF Targets, MRegs
<1>6. \A a \in Address : mine[a] # None => sound_ram'[a] = mine[a]
  BY <1>3, <1>5 DEF MemoryInv
<1>7. UNCHANGED <<todo, sound_ram_start_address, mine, reverb_start_address, m>>
      /\ reverb_left' \in BOOLEAN
  BY DEF Clock, MemoryInv
<1> QED  BY <1>2, <1>4, <1>6, <1>7 DEF MemoryInv

LEMMA MemoryNext == ASSUME MemoryInv, [Next]_vars PROVE MemoryInv'
<1> DEFINE memvars == <<todo, memory, reverb>>
<1>1. CASE UNCHANGED memvars
  BY <1>1 DEF MemoryInv, memory, reverb
<1>2. ASSUME todo # <<>>, Program(Head(todo)) PROVE MemoryInv'
  <2> DEFINE o == Head(todo)
  <2>1. OpOK(o) /\ Tail(todo) \in Seq(Ops)  BY <1>2, NextOp
  <2>2. todo' \in Seq(Ops)
    BY <1>2, <2>1 DEF Program, StoreTransferAddress, StoreData, DmaWrite, DmaRead, StoreReverbBase,
                      StoreReverbAddress, VoiceStore, KeyOn, KeyOff, Does
  <2> HIDE DEF o
  <2>3. CASE StoreTransferAddress(o)
    <3>1. o.a \in 0 .. RAM  BY <2>1, <2>3, SpuAssumption DEF OpOK, StoreTransferAddress, Address
    <3> QED  BY <2>2, <2>3, <3>1 DEF StoreTransferAddress, MemoryInv, reverb
  <2>4. CASE StoreData(o)  BY <2>1, <2>2, <2>4, MemoryStoreData
  <2>5. CASE DmaWrite(o)  BY <2>1, <2>2, <2>5, MemoryDmaWrite
  <2>6. CASE DmaRead(o)
    <3>1. (sound_ram_start_address + 2) % RAM \in 0 .. RAM  BY SpuAssumption DEF MemoryInv
    <3> QED  BY <2>2, <2>6, <3>1 DEF DmaRead, MemoryInv, reverb
  <2>7. CASE StoreReverbBase(o)  BY <2>1, <2>2, <2>7, MemoryReverbBase
  <2>8. CASE StoreReverbAddress(o)  BY <2>1, <2>2, <2>8, MemoryReverbAddress
  <2>9. CASE VoiceStore(o) \/ KeyOn(o) \/ KeyOff(o)
    BY <2>2, <2>9 DEF VoiceStore, KeyOn, KeyOff, MemoryInv, memory, reverb
  <2> QED  BY <1>2, <2>3, <2>4, <2>5, <2>6, <2>7, <2>8, <2>9 DEF Program, o
<1>3. Drive => UNCHANGED memvars
  BY DEF Drive, PushCdAudioFrame, ClearCdAudio
<1>4. ASSUME NEW cycles \in Slices, Step(cycles) PROVE Clock \/ UNCHANGED memvars
  BY <1>4 DEF Step
<1>5. UNCHANGED vars => UNCHANGED memvars
  BY DEF vars
<1>6. Clock => MemoryInv'  BY MemoryClock
<1> HIDE DEF memvars
<1> QED  BY <1>1, <1>2, <1>3, <1>4, <1>5, <1>6 DEF Next

\* For every program and every size of sound RAM, no sample (spu_clock) writes over
\* an uploaded word outside the work area at which no reverb address points.
THEOREM UploadsSurvive == Spec => []UploadsKept
<1>1. Init => MemoryInv  BY MemoryInit
<1>2. MemoryInv /\ [Next]_vars => MemoryInv'  BY MemoryNext
<1>3. MemoryInv => UploadsKept  BY DEF MemoryInv, UploadsKept
<1> QED  BY <1>1, <1>2, <1>3, PTL DEF Spec

\* For every work area of at most half of sound RAM, reverb_relative_addr is the
\* ring it is meant to be, and the write address never leaves the area.
THEOREM ReverbIsARing == Spec => []ReverbRing
<1>1. Init => MemoryInv  BY MemoryInit
<1>2. MemoryInv /\ [Next]_vars => MemoryInv'  BY MemoryNext
<1>3. MemoryInv => ReverbRing
  <2> SUFFICES ASSUME MemoryInv PROVE ReverbRing  OBVIOUS
  <2> DEFINE start == reverb_start_address
             area  == RAM - start
             begin == reverb_write_address - start
  <2>1. /\ RAM \in Nat \ {0} /\ start \in 0 .. RAM - 1 /\ reverb_write_address = start + begin
        /\ area \in Nat \ {0} /\ begin \in 0 .. area - 1 /\ area = RAM - start
    BY SpuAssumption DEF MemoryInv, Address
  <2>2. ASSUME 2 * start >= RAM, NEW offset \in 0 .. area - 1
        PROVE  RelativeAddr(offset) = start + ((begin + offset) % area)
    <3>1. RelativeAddr(offset) = IF (offset + reverb_write_address) % RAM < start
              THEN start + ((offset + reverb_write_address) % RAM)
              ELSE (offset + reverb_write_address) % RAM
      BY DEF RelativeAddr
    <3> HIDE DEF start, area, begin
    <3>2. offset \in 0 .. RAM - 1 /\ reverb_write_address \in 0 .. RAM /\ offset \in 0 .. area
      BY <2>1
    <3>3. (offset + reverb_write_address) % RAM = IF offset + reverb_write_address < RAM
              THEN offset + reverb_write_address ELSE offset + reverb_write_address - RAM
      BY <2>1, <3>2, Wrap, Zenon
    <3>4. (begin + offset) % area = IF begin + offset < area THEN begin + offset ELSE begin + offset - area
      BY <2>1, <3>2, Wrap, Zenon
    <3> QED  BY <2>1, <2>2, <3>1, <3>3, <3>4
  <2> QED  BY <2>1, <2>2 DEF ReverbRing
<1> QED  BY <1>1, <1>2, <1>3, PTL DEF Spec
=============================================================================
