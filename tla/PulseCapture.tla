---------------------------- MODULE PulseCapture ----------------------------
(***************************************************************************)
(* A PulseAudio capture stream of oxisound-pulse: PulseInputStream (the    *)
(* caller's handle) and RingRecordSink (what the reactor thread of the     *)
(* pulseaudio crate writes captured audio to), with the byte ring between  *)
(* them.                                                                   *)
(*                                                                         *)
(* A byte is its place in its frame, 0 .. FrameSize - 1: which channel it  *)
(* belongs to and which of the sample's bytes it is.  Every access to the  *)
(* ring is a step; the sink's two counters are only read by stats() and    *)
(* move with its push.                                                     *)
(***************************************************************************)
EXTENDS Naturals, Sequences

CONSTANTS
    SampleSize,      \* bytes_per_sample() of the wire format
    Channels,
    CapacityFrames,  \* ring_capacity_bytes(), in frames
    ChunkSizes,      \* bytes the server delivers at once
    ReadSizes,       \* samples the caller asks for
    MaxOverruns,     \* bound: chunks cut
    MaxPending       \* bound: commands queued to the reactor

\* A sample has a byte and a frame a sample at least.
PulseAssumption ==
    /\ SampleSize \in Nat \ {0} /\ Channels \in Nat \ {0}
    /\ CapacityFrames \in Nat /\ ChunkSizes \subseteq Nat /\ ReadSizes \subseteq Nat

VARIABLES
    ring,           \* the queued bytes
    next,           \* the place in its frame of the next byte captured
    overruns, disconnected,
    pc,             \* where the caller's thread is
    op,             \* the method it is executing
    take,           \* read()'s local: bytes it will pop
    corked,         \* the server sends nothing
    pending,        \* commands queued to the reactor, oldest first
    reply,          \* the answer to the command awaited
    channel,        \* history: the channel the caller's next sample belongs to
    ragged,         \* history: a chunk or a read was not of whole frames
    misplaced,      \* history: a sample was torn or of another channel
    paused          \* history: pause() returned Ok, and resume() was not called

dataVars == <<ring, next, overruns, channel, ragged, misplaced>>
callVars == <<pc, op, take>>
tripVars == <<corked, pending, reply, paused>>
vars == <<dataVars, disconnected, callVars, tripVars>>

FrameSize == SampleSize * Channels
CapacityBytes == CapacityFrames * FrameSize
Commands  == {"pause", "resume", "discard"}
Least(a, b) == IF a < b THEN a ELSE b

\* PulseInputStream::open, after the server created the stream.
Init ==
    /\ ring = <<>> /\ next = 0 /\ overruns = 0 /\ disconnected = FALSE
    /\ pc = "idle" /\ op = "none" /\ take = 0
    /\ corked = FALSE /\ pending = <<>> /\ reply = "none"
    /\ channel = 0 /\ ragged = FALSE /\ misplaced = FALSE /\ paused = FALSE

-----------------------------------------------------------------------------
(* The reactor's thread. *)

\* n bytes of the stream, the first of them at place p in its frame.
Bytes(p, n) == [i \in 1 .. n |-> (p + i - 1) % FrameSize]

\* RingRecordSink::write: push_slice() takes what fits, the tail is dropped and
\* the overrun counted.
SinkWrite(size) ==
    LET n == Least(size, CapacityBytes - Len(ring)) IN
    /\ ~disconnected /\ ~corked
    /\ n < size => overruns < MaxOverruns
    /\ ring' = ring \o Bytes(next, n)
    /\ next' = (next + size) % FrameSize
    /\ overruns' = IF n < size THEN overruns + 1 ELSE overruns
    /\ ragged' = (ragged \/ size % FrameSize # 0)
    /\ UNCHANGED <<channel, misplaced, disconnected, callVars, tripVars>>

\* The reactor executes a command and the server answers it, in order; the last
\* one queued is the one a caller may be waiting for.  (pulseaudio crate)
RunCommand ==
    /\ ~disconnected /\ pending # <<>>
    /\ pending' = Tail(pending)
    /\ \E ok \in BOOLEAN :
        /\ corked' = IF ok /\ Head(pending) # "discard" THEN Head(pending) = "pause" ELSE corked
        /\ reply' = IF pc = "await" /\ Len(pending) = 1 THEN IF ok THEN "ok" ELSE "error"
                    ELSE reply
    /\ UNCHANGED <<dataVars, disconnected, callVars, paused>>

\* RingRecordSink::drop, when the reactor ends.
SinkDropped ==
    /\ ~disconnected
    /\ disconnected' = TRUE /\ pending' = <<>>
    /\ UNCHANGED <<dataVars, callVars, corked, reply, paused>>

-----------------------------------------------------------------------------
(* The caller's thread. *)

\* Mutant: what is taken is not rounded to whole samples.
WholeSamplesAnyByte(bytes) == bytes

\* whole_samples
WholeSamples(bytes) == bytes - (bytes % SampleSize)

\* read: the flag first, then what occupied_len() reports, which can only grow
\* until it is popped.
Read(samples) ==
    LET n == WholeSamples(Least(Len(ring), samples * SampleSize)) IN
    /\ pc = "idle"
    /\ IF disconnected \/ n = 0
       THEN UNCHANGED callVars
       ELSE pc' = "pop" /\ op' = "read" /\ take' = n
    /\ UNCHANGED <<dataVars, disconnected, tripVars>>

\* decode_to_f32: sample i of the popped bytes, of the channel it is given out as.
InPlace(i) ==
    \A j \in 1 .. SampleSize :
        ring[(i - 1) * SampleSize + j] = ((channel + i - 1) % Channels) * SampleSize + j - 1

Pop ==
    LET count == take \div SampleSize IN
    /\ pc = "pop"
    /\ ring' = SubSeq(ring, take + 1, Len(ring))
    /\ misplaced' = (misplaced \/ \E i \in 1 .. count : ~InPlace(i))
    /\ channel' = (channel + count) % Channels
    /\ ragged' = (ragged \/ take % FrameSize # 0)
    /\ pc' = "idle" /\ op' = "none" /\ take' = 0
    /\ UNCHANGED <<next, overruns, disconnected, tripVars>>

\* pause, resume, discard_buffered: one round trip each.  Discarding empties the
\* server's buffer, not the ring.
Send(o) ==
    /\ pc = "idle" /\ Len(pending) < MaxPending
    /\ pc' = "await" /\ op' = o
    /\ pending' = IF disconnected THEN pending ELSE Append(pending, o)
    /\ reply' = "none"
    /\ paused' = (paused /\ o # "resume")
    /\ UNCHANGED <<dataVars, disconnected, take, corked>>

\* block_on_timeout looks at the reply first and at the clock second.
EndCommand(outcome) ==
    /\ pc = "await"
    /\ pc' = "idle" /\ op' = "none" /\ reply' = "none"
    /\ paused' = (paused \/ (op = "pause" /\ outcome = "ok"))
    /\ UNCHANGED <<dataVars, disconnected, take, corked, pending>>

AwaitReply   == reply # "none" /\ EndCommand(reply)

\* Mutant: a command that was not answered in time counts as done.
AwaitTimeoutOk == reply = "none" /\ EndCommand("ok")

AwaitTimeout == reply = "none" /\ EndCommand("timeout")

Next ==
    \/ \E size \in ChunkSizes : SinkWrite(size)
    \/ RunCommand \/ SinkDropped
    \/ \E samples \in ReadSizes : Read(samples)
    \/ Pop
    \/ \E o \in Commands : Send(o)
    \/ AwaitReply \/ AwaitTimeout

Spec == Init /\ [][Next]_vars

-----------------------------------------------------------------------------
(* Properties. *)

\* A sample is delivered whole and in its channel for as long as no chunk was
\* cut; chunks may be cut too as long as the server delivers and the caller
\* reads whole frames, because the free space is then whole frames as well.
SamplesStayInPlace == misplaced => overruns > 0 /\ ragged

\* Once pause() has returned Ok nothing more is captured until resume() is
\* called, whatever timed-out commands were still queued before it.
PausedStaysQuiet == [][paused => Len(ring') <= Len(ring)]_vars
=============================================================================
