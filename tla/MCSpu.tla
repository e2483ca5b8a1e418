-------------------------------- MODULE MCSpu --------------------------------
(* Sessions for Spu: every short way to upload around a work area that is    *)
(* moved, notes with every kind of envelope over samples that stop, repeat   *)
(* or are changed while they are played, and a drive that plays freely.      *)
EXTENDS Spu

Addr(a) == [op |-> "address", a |-> a]
Base(a) == [op |-> "base", a |-> a]
Target(r, a) == [op |-> "target", r |-> r, a |-> a]
Data(w) == [op |-> "data", w |-> w]
Dma(lo, hi) == [op |-> "dma", lo |-> lo, hi |-> hi]
Voice(f, x) == [op |-> "voice", v |-> 1, regs |-> [g \in {f} |-> x]]
On == [op |-> "on", mask |-> {1}]
Off == [op |-> "off", mask |-> {1}]

Linear(shift, step, down) == [shift |-> shift, step |-> step, expo |-> FALSE, down |-> down]
Expo(shift, step, down) == [Linear(shift, step, down) EXCEPT !.expo = TRUE]

\* Reverb in the upper words, the sample in the lower ones.
Setup == <<Base(4), Target("mlsame", 5), Target("mlapf1", 4), Target("mrapf1", 7)>>

Uploads == { Base(2), Base(4), Addr(0), Addr(3), Data({}), Dma({}, {"start"}),
             [op |-> "read"], Target("mlsame", 5), Target("mlsame", 1) }

Uploaders == { Setup \o s : s \in [1 .. 3 -> Uploads] } \cup [1 .. 3 -> Uploads]

\* Two blocks: the sample stops, repeats from its second block, or has no end.
Loop == <<Addr(0), Dma({}, {}), Dma({"start", "repeat", "end"}, {})>>

Samples == { <<Addr(0), Dma({"start"}, {}), Dma({"end"}, {})>>, Loop,
             <<Addr(0), Data({}), Data({"end", "repeat"}), Data({}), Data({})>> }

Adsr(attack, decay, level, sustain) ==
    <<[op |-> "voice", v |-> 1, regs |-> [attack |-> attack, decay |-> decay, level |-> level]],
      [op |-> "voice", v |-> 1, regs |-> [sustain |-> sustain, release |-> Expo(1, 0, TRUE)]]>>

Attacks == { Expo(0, 0, FALSE), Linear(1, 3, FALSE), Expo(31, 1, FALSE) }
Decays == { Expo(0, 0, TRUE), Expo(15, 0, TRUE) }
Sustains == { Linear(2, 0, TRUE), Expo(0, 3, FALSE) }

Envelopes == { Adsr(a, d, l, s) : a \in Attacks, d \in Decays, l \in {0, 15}, s \in Sustains }

One == Adsr(Linear(1, 0, FALSE), Expo(1, 0, TRUE), 7, Linear(2, 0, TRUE))

Rate(r) == <<Voice("rate", r)>>

\* What happens to a note: nothing, another one, its end, a change under it.
Fates == { <<>>, <<On>>, <<Off>>, <<Off, On>>, <<Voice("start", 2), On, Voice("repeat", 1)>>,
           Rate(0), <<Addr(0), Data({"end"})>>, <<Base(2)>>, <<Target("mlsame", 2)>> }

Players ==
    { Setup \o Loop \o e \o Rate(2) \o <<On, On>> : e \in Envelopes }
    \cup { Setup \o u \o One \o Rate(r) \o <<On>> \o f : u \in Samples, r \in {1, 9}, f \in Fates }

Sessions_MC ==
    { [script |-> s, frames |-> {}] : s \in Uploaders \cup Players }
    \cup { [script |-> <<>>, frames |-> {1, 2, 3}] }

Slices_MC == {1}

Reverb_MC == {{"reverb"}}
=============================================================================
