------------------------------ MODULE MCStreams ------------------------------
(***************************************************************************)
(* The instance of StreamParts TLC checks.                                 *)
(*                                                                         *)
(* Duplex: rings of a few frames, positions in quarters or halves of one,  *)
(* and every drift between the clamps that is a whole number of them.      *)
(* Output and capture: two channels, rings of two frames, and for capture  *)
(* one and a half, calls of one and two frames; no routing, a swap of the  *)
(* channels, and one with mappings to and from channels there are not; a   *)
(* sizer at, within and beyond its limits.                                 *)
(* Pulse: two channels of two bytes and a ring of two frames; chunks of a  *)
(* byte, a frame and a frame and a half, reads of one sample and of one or *)
(* two frames, so that a chunk can be cut inside a sample, between the     *)
(* samples of a frame and between frames.                                  *)
(* Stats: a ring of two frames and callbacks of one or two, two of them,   *)
(* so that each can run before, beside or after any load of a stats().     *)
(* Conversions: pairs of samples at the ends, the halves and the zero of   *)
(* the scale and beyond it, as fine as 8, 16 and 24 bits, over three hops; *)
(* layouts with gaps, doubles and other orders than their indices'.        *)
(* Test tones: tempos slower and faster than a click, than the track and   *)
(* than one beat a frame.                                                  *)
(***************************************************************************)
EXTENDS StreamParts

MCSteps    == {s \in 1..2 * Q : Q <= 2 * s}
MCRoutings == {<<>>, <<<<0, 1>>, <<1, 0>>>>, <<<<2, 0>>, <<1, 0>>, <<1, 3>>>>}

\* Floats as fine as a format of b bits, at the edges of its scale, in order of loudness.
Edges(b) ==
    LET half == 2 ^ (b - 2)
    IN  {0, 1, 3, half - 1, half, half + 1, half + half \div 2 + 1, 2 * half - 1, 2 * half, 2 * half + 5}
Floats(b) == {[num |-> s * n, scale |-> 2 ^ (b - 1)] : s \in {1, -1}, n \in Edges(b)}
Fine(s) == s.num * (2 ^ 23 \div s.scale)
Pairs(a, b) ==
    {IF Fine(p) <= Fine(q) THEN <<p, q>> ELSE <<q, p>> : p \in Floats(a), q \in Floats(b)}
Nothing == <<NaN, [num |-> 1, scale |-> 2]>>
MCPlayed == Pairs(16, 24) \cup Pairs(8, 8) \cup {Nothing}

MCLayouts ==
    {<< <<"Center", 5>>, <<"Lfe", 0>>, <<"BackLeft", 3>> >>,
     << <<"FrontRight", 1>>, <<"FrontLeft", 0>> >>,
     << <<"Center", 0>>, <<"Lfe", 1>>, <<"Center", 1>> >>}

MCToneConfigs == {[rate |-> r, channels |-> c] : r \in {2000, 3100}, c \in {1, 2}}

-----------------------------------------------------------------------------
\* PartsInit, but that a part that stands still has one initial state.
StreamsInit ==
    /\ part \in Parts
    /\ Init
    /\ Output!Init
    /\ part = "output" \/ (routing = <<>> /\ sizer = Output!NewSizer(1, MinSize, MaxSize))
    /\ Capturing!Init
    /\ part = "capture" \/ (kind = "ring" /\ capacity = Capacity)
    /\ Pulse!Init
    /\ Stats!Init
    /\ part = "stats" \/ backend = "cpal_output"
    /\ Handing!Init
    /\ part # "formats" => sound = Nothing
    /\ sound = Nothing \/ layout = Handing!Preset(2)
    /\ part = "formats" \/ layout = Handing!Preset(2)
    /\ Signals!Init
    /\ part = "tones" \/ (tone = "silence" /\ spec.rate = 2000 /\ spec.channels = 1 /\ total = 6)

\* PartsSpec from these states, with the fairness of an application that pumps.
StreamsSpec ==
    /\ StreamsInit /\ [][PartsNext]_partsVars
    /\ SF_vars(part = "duplex" /\ \E step \in Steps : PumpLook(step))
    /\ WF_vars(part = "duplex" /\ PumpPop) /\ WF_vars(part = "duplex" /\ PumpPush)
    /\ WF_vars(part = "duplex" /\ Render)
==============================================================================
