---------------------------- MODULE StreamParts -----------------------------
(***************************************************************************)
(* CpalDuplex, CpalRender, CpalCapture, PulseCapture, StreamStats,         *)
(* Conversions and TestTones in one specification: what a stream carries   *)
(* and tells.  They share nothing: a behaviour is one of them, and the     *)
(* others stand still.                                                     *)
(***************************************************************************)
EXTENDS CpalDuplex

CONSTANTS
    Parts,                                                             \* those a behaviour may be of
    Channels, CallbackFrames,
    Silence, Capacity, WriteFrames, Routings, Requests, MinSize, MaxSize, Threshold,
    MaxSamples, MaxUnderruns, MaxTicks,                                \* of CpalRender
    Capacities, ReadSizes, MaxCaptured, MaxQueued,                     \* of CpalCapture
    SampleSize, CapacityFrames, ChunkSizes, SampleCounts, MaxOverruns,
    MaxPending,                                                        \* of PulseCapture
    Kinds, Blocks, MaxBlocks, MaxMoved,                                \* of StreamStats
    None, NaN, Relayed, Played, Layouts, MaxHops,                      \* of Conversions
    ToneConfigs, Durations, Tempos, Endless                            \* of TestTones

VARIABLES
    part,
    routing, outRing, written, want, buffer, played, underruns, outFrames, sizer, ticked, torn, quiet,
    kind, capacity, inRing, queue, taken, left, inFrames, disconnected, delivered, raced,
    ring, next, overruns, gone, pc, op, take, corked, pending, reply, channel, ragged, misplaced, paused,
    backend, held, moved, blocks, block, toMove, took, owed, counters, starved, loads, report, last, had,
    beside,
    sound, format, wire, slack, hops, layout, channelMap, returned,
    tone, spec, bpm, total, buf, beat

renderVars  == <<routing, outRing, written, want, buffer, played, underruns, outFrames, sizer,
                 ticked, torn, quiet>>
captureVars == <<kind, capacity, inRing, queue, taken, left, inFrames, disconnected, delivered, raced>>
pulseVars   == <<ring, next, overruns, gone, pc, op, take, corked, pending, reply, channel, ragged,
                 misplaced, paused>>
statVars    == <<backend, held, moved, blocks, block, toMove, took, owed, counters, starved, loads,
                 report, last, had, beside>>
formatVars  == <<sound, format, wire, slack, hops, layout, channelMap, returned>>
toneVars    == <<tone, spec, bpm, total, buf, beat>>
streamVars  == <<vars, renderVars, captureVars, pulseVars>>
restVars    == <<statVars, formatVars, toneVars>>

Output    == INSTANCE CpalRender WITH ring <- outRing, frames <- outFrames
Capturing == INSTANCE CpalCapture WITH ring <- inRing, frames <- inFrames, captured <- taken,
                                       MaxSamples <- MaxCaptured
Pulse     == INSTANCE PulseCapture WITH disconnected <- gone, ReadSizes <- SampleCounts
Stats     == INSTANCE StreamStats WITH kind <- backend, ring <- held, left <- toMove,
                                       Capacity <- CapacityFrames
Handing   == INSTANCE Conversions WITH routing <- layout, Routings <- Layouts
Signals   == INSTANCE TestTones

ASSUME OutputAssumption == Output!RenderAssumption
ASSUME CapturingAssumption == Capturing!CaptureAssumption
ASSUME PulseAssumption == Pulse!PulseAssumption
ASSUME StatsAssumption == Stats!StatsAssumption
ASSUME HandingAssumption == Handing!ConversionAssumption
ASSUME TonesAssumption == Signals!ToneAssumption

-----------------------------------------------------------------------------
PartsInit ==
    /\ part \in Parts
    /\ Init /\ Output!Init /\ Capturing!Init /\ Pulse!Init /\ Stats!Init /\ Handing!Init /\ Signals!Init

PartsNext ==
    \/ part = "duplex"  /\ Next           /\ UNCHANGED <<part, renderVars, captureVars, pulseVars, restVars>>
    \/ part = "output"  /\ Output!Next    /\ UNCHANGED <<part, vars, captureVars, pulseVars, restVars>>
    \/ part = "capture" /\ Capturing!Next /\ UNCHANGED <<part, vars, renderVars, pulseVars, restVars>>
    \/ part = "pulse"   /\ Pulse!Next     /\ UNCHANGED <<part, vars, renderVars, captureVars, restVars>>
    \/ part = "stats"   /\ Stats!Next     /\ UNCHANGED <<part, streamVars, formatVars, toneVars>>
    \/ part = "formats" /\ Handing!Next   /\ UNCHANGED <<part, streamVars, statVars, toneVars>>
    \/ part = "tones"   /\ Signals!Next   /\ UNCHANGED <<part, streamVars, statVars, formatVars>>

partsVars == <<part, streamVars, restVars>>

PartsSpec == PartsInit /\ [][PartsNext]_partsVars

-----------------------------------------------------------------------------
\* CpalRender's: a sample is played in the channel it was written for.
RenderedInPlace == Output!RenderedInPlace
\* CpalRender's: a buffer shrinks only after enough quiet ticks.
ShrinksWhenQuiet == Output!ShrinksWhenQuiet
\* CpalRender's: every frame written is played whole, in its channels.
ChannelsStayInPlace == Output!ChannelsStayInPlace
\* CpalCapture's and PulseCapture's: a sample captured is delivered whole, in its order and,
\* but where a drop or a cut chunk has been counted, in the channel it was captured in.
CapturedInPlace == Capturing!CapturedInPlace /\ Pulse!SamplesStayInPlace
\* PulseCapture's: nothing is captured between a pause and a resume.
PausedStaysQuiet == Pulse!PausedStaysQuiet
\* StreamStats': what stats() tells adds up to what was written or read.
StatsAddUp == Stats!StatsAddUp
\* Conversions' and TestTones': samples and layouts that change hands stay what they were, and
\* a test signal has each frame in its place.
SignalsStayExact == Handing!ConversionsAgree /\ Signals!TonesKeepTime
==============================================================================
