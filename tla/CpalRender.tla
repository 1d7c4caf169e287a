----------------------------- MODULE CpalRender ------------------------------
(***************************************************************************)
(* A buffered output stream of oxisound-cpal, sample by sample: write()    *)
(* pushes interleaved samples, the audio callback pops one after the other *)
(* and plays silence for each it does not find, a channel routing permutes *)
(* the frames, and tick_adaptive() turns the underruns into a buffer size. *)
(*                                                                         *)
(* A sample is the number of samples written before it, so that its        *)
(* channel is its remainder.  The disconnection of the device and the      *)
(* replacement of the stream are CpalRecovery's.                           *)
(***************************************************************************)
EXTENDS Integers, FiniteSetsExt, SequencesExt

CONSTANTS
    Silence,         \* the sample an empty ring plays
    Channels,
    Capacity,        \* samples the ring holds
    WriteFrames,     \* frames a write() may have
    CallbackFrames,  \* frames a callback may ask for
    Routings,        \* the channel routings a stream may be opened with
    Requests,        \* the buffer_size a stream may be opened with
    MinSize, MaxSize,  \* of the adaptive sizer
    Threshold,       \* quiet ticks before it shrinks
    MaxSamples,      \* bound: samples written
    MaxUnderruns,    \* bound: underruns counted
    MaxTicks         \* bound: quiet ticks counted

\* Streams have a channel at least; write() takes interleaved frames, and a routing maps
\* channels to channels.  The count of quiet ticks goes as far as a shrink.
RenderAssumption ==
    /\ Channels \in Nat \ {0} /\ Silence \notin Nat
    /\ Capacity \in Nat
    /\ WriteFrames \subseteq Nat /\ CallbackFrames \subseteq Nat
    /\ Routings \subseteq Seq(Nat \X Nat)
    /\ Requests \subseteq Nat /\ MinSize \in Nat /\ MaxSize \in Nat /\ Threshold \in Nat
    /\ MaxTicks \in Nat /\ Threshold <= MaxTicks + 1

VARIABLES
    routing,      \* the mappings <<logical, physical>> of the stream, <<>> for none
    ring,
    written,      \* samples written so far
    want,         \* samples the callback is to fill, 0 between callbacks
    buffer,       \* those it has filled
    played,       \* the buffer of the last callback
    underruns,    \* underrun_count
    frames,       \* frames_processed
    sizer,        \* AdaptiveBufferSizer
    ticked,       \* last_tick_underruns
    torn,         \* history: a write landed between two samples of a frame, the earlier missing
    quiet         \* history: ticks without an underrun since the last with one, or the last shrink

dataVars  == <<routing, ring, written, want, buffer, played, underruns, frames, torn>>
sizerVars == <<sizer, ticked, quiet>>
vars == <<dataVars, sizerVars>>

Clamp(n, low, high) == Max({low, Min({n, high})})

\* AdaptiveBufferSizer::new
NewSizer(initial, low, high) ==
    LET min   == Max({low, 1})
        max   == Max({high, min})
        first == Clamp(initial, min, max)
    IN  [initial |-> first, min |-> min, max |-> max, size |-> first, stable |-> 0]

Init ==
    /\ routing \in Routings
    /\ ring = <<>> /\ written = 0 /\ want = 0 /\ buffer = <<>> /\ played = <<>>
    /\ underruns = 0 /\ frames = 0
    /\ \E size \in Requests : sizer = NewSizer(size, MinSize, MaxSize)
    /\ ticked = 0 /\ torn = FALSE /\ quiet = 0

-----------------------------------------------------------------------------
(* The application. *)

Vacant == Capacity - Len(ring)

\* The samples of the frame the callback is in the middle of.
OpenFrame == SubSeq(buffer, Len(buffer) + 1 - (Len(buffer) % Channels), Len(buffer))

\* Mutant: what fits is queued, and the rest of the samples dropped.
WriteSome(n) ==
    LET pushed == Min({n, Vacant}) IN
    /\ written + n <= MaxSamples
    /\ ring' = ring \o [i \in 1 .. pushed |-> written + i - 1]
    /\ written' = written + n
    /\ torn' = (torn \/ Silence \in ToSet(OpenFrame))
    /\ UNCHANGED <<routing, want, buffer, played, underruns, frames, sizerVars>>

\* write(): all the samples or, with Overrun, none.
Write(n) ==
    /\ n <= Vacant /\ written + n <= MaxSamples
    /\ ring' = ring \o [i \in 1 .. n |-> written + i - 1]
    /\ written' = written + n
    /\ torn' = (torn \/ Silence \in ToSet(OpenFrame))
    /\ UNCHANGED <<routing, want, buffer, played, underruns, frames, sizerVars>>

-----------------------------------------------------------------------------
(* The audio thread. *)

StartCallback(n) ==
    /\ want = 0 /\ want' = n * Channels /\ buffer' = <<>>
    /\ UNCHANGED <<routing, ring, written, played, underruns, frames, torn, sizerVars>>

\* try_pop()
FillSample ==
    /\ Len(buffer) < want
    /\ IF ring = <<>>
       THEN /\ underruns < MaxUnderruns
            /\ buffer' = Append(buffer, Silence) /\ underruns' = underruns + 1
            /\ UNCHANGED ring
       ELSE buffer' = Append(buffer, Head(ring)) /\ ring' = Tail(ring) /\ UNCHANGED underruns
    /\ UNCHANGED <<routing, written, want, played, frames, torn, sizerVars>>

\* The last mapping to a slot whose logical channel the frame has.
SourceOf(slot, map) ==
    LET to == {i \in DOMAIN map : map[i][2] = slot /\ map[i][1] < Channels}
    IN  IF to = {} THEN slot ELSE map[Max(to)][1]

\* Mutant: each mapping reads the frame the mappings before it have changed.
ApplyInPlace(samples, map) ==
    LET Move(m, s) ==
          IF m[1] < Channels /\ m[2] < Channels
          THEN [i \in DOMAIN s |-> IF (i - 1) % Channels = m[2] THEN s[i - m[2] + m[1]] ELSE s[i]]
          ELSE s
    IN  FoldRight(Move, Reverse(map), samples)

\* ChannelRouting::apply_interleaved; a slot no mapping names keeps its sample.
ApplyInterleaved(samples, map) ==
    [i \in DOMAIN samples |->
        LET slot == (i - 1) % Channels IN samples[i - slot + SourceOf(slot, map)]]

EndCallback ==
    /\ want > 0 /\ Len(buffer) = want
    /\ played' = ApplyInterleaved(buffer, routing)
    /\ frames' = frames + want \div Channels
    /\ want' = 0 /\ buffer' = <<>>
    /\ UNCHANGED <<routing, ring, written, underruns, torn, sizerVars>>

-----------------------------------------------------------------------------
(* tick_adaptive() *)

\* record_underrun()
Grown(s) == [s EXCEPT !.stable = 0, !.size = Min({2 * @, s.max})]

\* Mutant: a shrink leaves the count of quiet periods as it is.
SettledAtOnce(s) ==
    IF s.size <= s.initial THEN [s EXCEPT !.stable = 0]
    ELSE IF s.stable + 1 < Threshold THEN [s EXCEPT !.stable = @ + 1]
    ELSE [s EXCEPT !.size = Max({@ \div 2, s.min, s.initial})]

\* record_stable_period()
Settled(s) ==
    IF s.size <= s.initial THEN [s EXCEPT !.stable = 0]
    ELSE IF s.stable + 1 < Threshold THEN [s EXCEPT !.stable = @ + 1]
    ELSE [s EXCEPT !.stable = 0, !.size = Max({@ \div 2, s.min, s.initial})]

TickAdaptive ==
    /\ ticked' = underruns
    /\ sizer' = IF underruns > ticked THEN Grown(sizer) ELSE Settled(sizer)
    /\ quiet' = IF underruns > ticked \/ sizer'.size < sizer.size THEN 0
                ELSE Min({quiet + 1, MaxTicks})
    /\ UNCHANGED dataVars

-----------------------------------------------------------------------------
Next ==
    \/ \E n \in WriteFrames : Write(n * Channels)
    \/ \E n \in CallbackFrames : StartCallback(n)
    \/ FillSample \/ EndCallback \/ TickAdaptive

Spec == Init /\ [][Next]_vars

-----------------------------------------------------------------------------
(* Properties. *)

Bounds(s) == s.min <= s.size /\ s.initial <= s.size /\ s.size <= s.max

\* A sample is played in the channel it was written for, as the routing maps it, as
\* long as no write() lands between two samples of a frame the callback has begun to
\* fill with silence: whole frames are written, and whole frames are padded.
RenderedInPlace ==
    ~torn => \A i \in DOMAIN played :
        played[i] # Silence => played[i] % Channels = SourceOf((i - 1) % Channels, routing)

\* The buffer size is halved only after Threshold ticks in a row that saw no new
\* underrun, counted from the last underrun or the last shrink, and stays within bounds.
ShrinksWhenQuiet ==
    [][ /\ Bounds(sizer')
        /\ sizer'.size < sizer.size => quiet + 1 >= Threshold ]_sizerVars

\* write() queues "interleaved samples": a sample is played in its own channel.
ChannelsStayInPlace ==
    \A i \in DOMAIN played :
        played[i] # Silence => played[i] % Channels = SourceOf((i - 1) % Channels, routing)
=============================================================================
