----------------------------- MODULE TestTones ------------------------------
(***************************************************************************)
(* The test signals of the facade: sine, noise, chirp and silence, frame   *)
(* by frame, and the click track, beat by beat.  What a sample's value is  *)
(* is left out but for the click track, where it is a fraction <<n, d>> of *)
(* full scale; times are whole milliseconds and tempos whole numbers.  A   *)
(* tempo of more than one beat a frame, or a negative one, makes the       *)
(* interval 0, and the loop over the beats goes on for ever.               *)
(***************************************************************************)
EXTENDS Integers, SequencesExt

CONSTANTS
    ToneConfigs,   \* [rate, channels]
    Durations,     \* milliseconds
    Tempos,        \* beats per minute; none is negative
    Endless        \* usize::MAX, beyond the last frame of any track

VARIABLES
    tone,      \* which signal
    spec,      \* its configuration
    bpm,
    total,     \* frames it has
    buf,       \* its samples so far; of a click track, all of them
    beat       \* the frame of the next beat

vars == <<tone, spec, bpm, total, buf, beat>>

ToneAssumption ==
    /\ ToneConfigs \subseteq [rate : Nat, channels : Nat \ {0}]
    /\ Durations \subseteq Nat /\ Tempos \subseteq Nat /\ Endless \in Nat

Tones == {"sine", "noise", "chirp", "silence"}

\* A frame's sample: sine and chirp are functions of the frame, noise is the next number
\* of its generator, which is asked once a frame.
Sample(kind, frame) == IF kind = "silence" THEN <<0, 1>> ELSE <<kind, frame>>

Frames(config, ms) == (config.rate * ms) \div 1000

\* Casts of floats truncate, and saturate: no tempo at all puts the next beat at the end of time.
BeatInterval == IF bpm = 0 THEN Endless ELSE (spec.rate * 60) \div bpm
AttackFrames == spec.rate \div 1000
DecayFrames  == (spec.rate * 5) \div 1000

Init ==
    /\ tone \in Tones \cup {"clicks"} /\ spec \in ToneConfigs
    /\ bpm \in (IF tone = "clicks" THEN Tempos ELSE {0})
    /\ \E ms \in Durations : total = Frames(spec, ms)
    /\ buf = (IF tone = "clicks" THEN [i \in 1 .. total * spec.channels |-> <<0, 1>>] ELSE <<>>)
    /\ beat = 0

\* sine_test_tone(), white_noise_test(), chirp_test_tone(), silence(): a frame, the same in
\* every channel.
ToneFrame ==
    /\ tone # "clicks" /\ Len(buf) < total * spec.channels
    /\ buf' = buf \o [c \in 1 .. spec.channels |-> Sample(tone, Len(buf) \div spec.channels)]
    /\ UNCHANGED <<tone, spec, bpm, total, beat>>

\* The envelope of a click, `age` frames after its beat.
Click(age) ==
    IF age < AttackFrames THEN <<age, AttackFrames>>
    ELSE <<DecayFrames - (age - AttackFrames), DecayFrames>>

\* Mutant: the next beat is counted from the end of the click.
BeatFromEnd ==
    /\ tone = "clicks" /\ beat < total
    /\ buf' = [i \in DOMAIN buf |->
                  LET age == ((i - 1) \div spec.channels) - beat
                  IN  IF age \in 0 .. AttackFrames + DecayFrames - 1 THEN Click(age) ELSE buf[i]]
    /\ beat' = beat + AttackFrames + DecayFrames + BeatInterval
    /\ UNCHANGED <<tone, spec, bpm, total>>

\* click_track(): a beat is written over what is left of the clicks before it, and cut off
\* at the end of the buffer.
Beat ==
    /\ tone = "clicks" /\ beat < total
    /\ buf' = [i \in DOMAIN buf |->
                  LET age == ((i - 1) \div spec.channels) - beat
                  IN  IF age \in 0 .. AttackFrames + DecayFrames - 1 THEN Click(age) ELSE buf[i]]
    /\ beat' = beat + BeatInterval
    /\ UNCHANGED <<tone, spec, bpm, total>>

Next == ToneFrame \/ Beat

Spec == Init /\ [][Next]_vars

-----------------------------------------------------------------------------
(* Properties. *)

\* The frame a sample is of.
FrameOf(i) == (i - 1) \div spec.channels

\* Up to the next beat, a frame of a click track has the envelope of the latest beat before
\* it and nothing of earlier ones, in every channel; and beat k comes before k beats of the
\* tempo have passed by less than k frames, and never after, for the interval is truncated.
\* The envelope is the code's: its decay takes the same step off each sample, where the
\* comment of click_track() says "5ms exponential decay".
ClicksKeepTime ==
    tone = "clicks" =>
        LET interval == BeatInterval IN
        /\ \A i \in DOMAIN buf : FrameOf(i) < beat =>
              LET age == FrameOf(i) % interval
              IN  buf[i] = IF age < AttackFrames + DecayFrames THEN Click(age) ELSE <<0, 1>>
        /\ (bpm > 0 /\ interval > 0) =>
              LET k == beat \div interval
              IN  /\ beat * bpm <= k * spec.rate * 60
                  /\ k > 0 => k * spec.rate * 60 - beat * bpm < k * bpm

\* A tone has the whole frames of its duration and no part of one more, each with one sample
\* in every channel.  The comment of sine_test_tone() says "length = `(sample_rate * channels
\* * duration_secs) as usize`", which is more where the part left out, times the channels,
\* makes a sample: 25 ms at 3100 Hz in stereo have 154 samples, and not 155.
TonesAreWhole ==
    tone # "clicks" =>
        /\ Len(buf) % spec.channels = 0 /\ Len(buf) <= total * spec.channels
        /\ \A i \in DOMAIN buf : buf[i] = Sample(tone, FrameOf(i))

\* A test signal has each frame in its place.
TonesKeepTime == ClicksKeepTime /\ TonesAreWhole
=============================================================================
