----------------------------- MODULE StreamStats -----------------------------
(***************************************************************************)
(* stats() of a stream: counters a callback moves while the application's  *)
(* thread reads them one by one.  Every backend keeps StreamStats, each in *)
(* its own way: what counts as a frame processed, and as an underrun or an *)
(* overrun, when it is counted, and what is told of the ring.              *)
(*                                                                         *)
(* The ring is counted in frames, which are moved whole.  Counters are     *)
(* relaxed atomics: a callback's additions are seen, and a stats()'s loads *)
(* done, in any order; but what one callback did is seen before the next   *)
(* begins.  discard_buffered() is PulsePlayback's.                         *)
(***************************************************************************)
EXTENDS Integers, FiniteSetsExt

CONSTANTS
    Kinds,        \* of stream: backend and direction
    Channels,     \* of a cpal stream
    Capacity,     \* frames the ring holds
    Blocks,       \* frames a callback may handle
    MaxBlocks,    \* bound: callbacks
    MaxMoved      \* bound: frames written or read

\* Callbacks handle a frame at least.
StatsAssumption ==
    /\ Kinds \subseteq {"cpal_output", "cpal_input", "jack_output", "jack_input", "pulse_output", "pulse_input"}
    /\ Channels \in Nat \ {0} /\ Capacity \in Nat /\ Blocks \subseteq Nat \ {0}

VARIABLES
    kind,
    ring,         \* frames queued
    moved,        \* frames the application has written, or has read
    blocks,       \* callbacks begun
    block, left,  \* frames of the callback under way, and those it has still to move
    took,         \* frames it has moved through the ring
    owed,         \* what it has not added to the counters yet, or what is not seen yet
    counters,     \* frames_processed, and the underruns or overruns
    starved,      \* Pulse: the ring is known to be empty
    loads,        \* what the stats() under way has not loaded yet
    report,       \* what it has
    last, had,    \* history: the report before it, and what was moved when it was asked for
    beside        \* history: frames of the callbacks that ran beside it

ringVars     == <<ring, moved>>
callbackVars == <<blocks, block, left, took, owed, starved>>
statsVars    == <<loads, report, last, had>>
vars == <<kind, ringVars, callbackVars, counters, statsVars, beside>>

Nothing == [processed |-> 0, missed |-> 0]
Empty   == [processed |-> 0, missed |-> 0, latency |-> 0]   \* StreamStats::default()

Outputs == {"cpal_output", "jack_output", "pulse_output"}
Pulse   == {"pulse_output", "pulse_input"}
Jack    == {"jack_output", "jack_input"}
Cpal    == {"cpal_output", "cpal_input"}

Init ==
    /\ kind \in Kinds
    /\ ring = 0 /\ moved = 0 /\ blocks = 0 /\ block = 0 /\ left = 0 /\ took = 0
    /\ owed = Nothing /\ counters = Nothing /\ starved = TRUE
    /\ loads = {} /\ report = Empty /\ last = Empty /\ had = 0 /\ beside = 0

-----------------------------------------------------------------------------
(* The application, between two stats(). *)

\* All or nothing, but for JACK's, which queues what fits.
Write(n) ==
    /\ kind \in Outputs /\ loads = {} /\ moved + n <= MaxMoved
    /\ kind \in Jack \/ n <= Capacity - ring
    /\ LET pushed == Min({n, Capacity - ring})
       IN  ring' = ring + pushed /\ moved' = moved + pushed
    /\ UNCHANGED <<kind, callbackVars, counters, statsVars, beside>>

Read(n) ==
    /\ kind \notin Outputs /\ loads = {} /\ moved + n <= MaxMoved
    /\ LET popped == Min({n, ring})
       IN  ring' = ring - popped /\ moved' = moved + popped
    /\ UNCHANGED <<kind, callbackVars, counters, statsVars, beside>>

-----------------------------------------------------------------------------
(* The callback. *)

Idle == block = 0

\* A callback that runs at any time beside a stats() runs beside it with all its frames.
Begin(n) ==
    /\ Idle /\ blocks < MaxBlocks
    /\ blocks' = blocks + 1 /\ block' = n /\ left' = n /\ took' = 0
    /\ beside' = IF loads = {} THEN beside ELSE beside + n
    /\ UNCHANGED <<kind, ringVars, owed, starved, counters, statsVars>>

\* Mutant: only the frames that went through the ring.
CountedMoved == took'
\* Mutant: all the callback was given.
CountedGiven == block

\* The frames a callback counts: PulseAudio's those it moved, cpal's and JACK's all of them.
Counted == IF kind \in Pulse THEN took' ELSE block

\* n frames are out of the ring, or in it, and a number missing is to be counted.
Moving(n, missing) ==
    /\ ring' = (IF kind \in Outputs THEN ring - n ELSE ring + n) /\ took' = took + n
    /\ owed' = [processed |-> IF left' = 0 THEN Counted ELSE 0, missed |-> owed.missed + missing]

\* An output of cpal or JACK, a frame: where it finds none it plays silence, whose samples
\* it counts.
PlayFrame ==
    /\ kind \in Outputs \ Pulse /\ left > 0 /\ left' = left - 1
    /\ IF ring > 0 THEN Moving(1, 0) ELSE Moving(0, IF kind \in Cpal THEN Channels ELSE 1)
    /\ UNCHANGED <<kind, moved, blocks, block, starved, counters, statsVars, beside>>

\* An input of cpal or JACK, a frame: what finds no room is dropped, which only JACK's counts.
CaptureFrame ==
    /\ kind \notin Outputs \cup Pulse /\ left > 0 /\ left' = left - 1
    /\ IF ring < Capacity THEN Moving(1, 0) ELSE Moving(0, IF kind \in Cpal THEN 0 ELSE 1)
    /\ UNCHANGED <<kind, moved, blocks, block, starved, counters, statsVars, beside>>

\* PulseAudio's poll_read() pops what there is; the first that finds nothing is an underrun.
Serve ==
    /\ kind = "pulse_output" /\ left > 0 /\ left' = 0
    /\ Moving(Min({block, ring}), IF ring = 0 /\ ~starved THEN 1 ELSE 0)
    /\ starved' = (ring = 0)
    /\ UNCHANGED <<kind, moved, blocks, block, counters, statsVars, beside>>

\* PulseAudio's sink pushes what fits; a chunk that does not is an overrun.
Accept ==
    /\ kind = "pulse_input" /\ left > 0 /\ left' = 0
    /\ Moving(Min({block, Capacity - ring}), IF block > Capacity - ring THEN 1 ELSE 0)
    /\ UNCHANGED <<kind, moved, blocks, block, starved, counters, statsVars, beside>>

\* An addition is made and seen.
Add(field) ==
    /\ owed[field] > 0
    /\ counters' = [counters EXCEPT ![field] = @ + owed[field]]
    /\ owed' = [owed EXCEPT ![field] = 0]
    /\ UNCHANGED <<kind, ringVars, blocks, block, left, took, starved, statsVars, beside>>

End ==
    /\ block > 0 /\ left = 0 /\ owed = Nothing
    /\ block' = 0
    /\ UNCHANGED <<kind, ringVars, blocks, left, took, owed, starved, counters, statsVars, beside>>

-----------------------------------------------------------------------------
(* stats() *)

\* A callback that is still going on runs beside the call.
StartStats ==
    /\ loads = {} /\ loads' = DOMAIN Empty
    /\ last' = report /\ had' = moved /\ beside' = block
    /\ UNCHANGED <<kind, ringVars, callbackVars, counters, report>>

Told(missed, latency) == [processed |-> counters.processed, missed |-> missed, latency |-> latency]

OccupiedSamples == ring * Channels
LatencyFrames   == ring

\* cpal tells the samples in the ring, PulseAudio the frames, and JACK the server's latency,
\* which is left out.
CpalOutputStats  == Told(counters.missed, OccupiedSamples)
CpalInputStats   == Told(0, OccupiedSamples)
JackOutputStats  == Told(counters.missed, 0)
JackInputStats   == Told(counters.missed, 0)
PulseOutputStats == Told(counters.missed, LatencyFrames)
PulseInputStats  == Told(counters.missed, LatencyFrames)

Stats ==
    [cpal_output  |-> CpalOutputStats,  cpal_input  |-> CpalInputStats,
     jack_output  |-> JackOutputStats,  jack_input  |-> JackInputStats,
     pulse_output |-> PulseOutputStats, pulse_input |-> PulseInputStats]

Load(field) ==
    /\ field \in loads /\ loads' = loads \ {field}
    /\ report' = [report EXCEPT ![field] = Stats[kind][field]]
    /\ UNCHANGED <<kind, ringVars, callbackVars, counters, last, had, beside>>

Next ==
    \/ \E n \in Blocks : Write(n) \/ Read(n) \/ Begin(n)
    \/ PlayFrame \/ CaptureFrame \/ Serve \/ Accept \/ End \/ StartStats
    \/ \E field \in DOMAIN Nothing : Add(field)
    \/ \E field \in DOMAIN Empty : Load(field)

Spec == Init /\ [][Next]_vars

-----------------------------------------------------------------------------
(* Properties. *)

Within(a, b) == a - b <= beside * Channels /\ b - a <= beside * Channels

\* Whatever callbacks run beside a stats(), its numbers add up to what the application wrote
\* or read, give or take the frames of those callbacks, and no counter goes back from one
\* report to the next: an output has played what was written, but for what is queued, and
\* silence for its underruns; an input has captured what was read, what is queued, and what
\* its overruns or, where cpal's drops are not counted, nothing tells.
StatsAddUp ==
    loads = {} =>
        LET r == report IN
        /\ last.processed <= r.processed /\ last.missed <= r.missed
        /\ CASE kind = "pulse_output" -> Within(r.processed + r.latency, had)
             [] kind = "pulse_input"  -> Within(r.processed, had + r.latency)
             [] kind = "cpal_output"  -> Within(r.processed * Channels + r.latency, had * Channels + r.missed)
             [] kind = "cpal_input"   -> had * Channels + r.latency <= (r.processed + beside) * Channels
             [] kind = "jack_output"  -> /\ r.processed <= had + r.missed + beside
                                         /\ had + r.missed <= r.processed + Capacity + beside
             [] kind = "jack_input"   -> /\ had + r.missed <= r.processed + beside
                                         /\ r.processed <= had + Capacity + r.missed + beside
=============================================================================
