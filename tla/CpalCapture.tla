----------------------------- MODULE CpalCapture -----------------------------
(***************************************************************************)
(* A capture stream of oxisound-cpal, sample by sample.  A buffered stream *)
(* (CpalInputStream, and the capture half of a duplex stream): the audio   *)
(* callback pushes one captured sample after the other into a ring and     *)
(* drops those it is full for; read() pops what there is.  An asynchronous *)
(* stream (CpalAsyncInputStream): the callback sends its whole buffer over *)
(* a channel without a bound.                                              *)
(*                                                                         *)
(* A sample is the number of samples captured before it, so that its       *)
(* channel is its remainder.                                               *)
(***************************************************************************)
EXTENDS Integers, FiniteSetsExt, SequencesExt

CONSTANTS
    Channels,
    Capacities,      \* samples the ring of a stream may hold
    CallbackFrames,  \* frames a callback may bring
    ReadSizes,       \* samples a read() may ask for
    MaxSamples,      \* bound: samples captured
    MaxQueued        \* bound: buffers in the channel

\* Callbacks bring whole frames, and reads ask for them.
CaptureAssumption ==
    /\ Channels \in Nat \ {0}
    /\ Capacities \subseteq Nat /\ CallbackFrames \subseteq Nat
    /\ ReadSizes \subseteq {n \in Nat : n % Channels = 0}

VARIABLES
    kind,           \* "ring" or "channel"
    capacity,
    ring,
    queue,          \* the buffers in the channel
    captured,       \* samples the device has captured
    left,           \* samples the callback has still to push
    frames,         \* frames_processed, of the ring's callbacks
    disconnected,
    delivered,      \* history: what the application was given, in order
    raced           \* history: a read took samples while the callback was inside a frame

vars == <<kind, capacity, ring, queue, captured, left, frames, disconnected, delivered, raced>>

Init ==
    /\ kind \in {"ring", "channel"} /\ capacity \in Capacities
    /\ ring = <<>> /\ queue = <<>> /\ captured = 0 /\ left = 0 /\ frames = 0
    /\ disconnected = FALSE /\ delivered = <<>> /\ raced = FALSE

-----------------------------------------------------------------------------
(* The audio thread. *)

Captured(n) == [i \in 1 .. n |-> captured + i - 1]

StartCallback(n) ==
    /\ kind = "ring" /\ left = 0 /\ captured + n <= MaxSamples
    /\ left' = n
    /\ UNCHANGED <<kind, capacity, ring, queue, captured, frames, disconnected, delivered, raced>>

\* Mutant: a ring that keeps one slot free to tell full from empty.
PushSampleShort ==
    /\ left > 0 /\ left' = left - 1 /\ captured' = captured + 1
    /\ ring' = IF Len(ring) < capacity - 1 THEN Append(ring, captured) ELSE ring
    /\ frames' = IF left = 1 THEN captured' \div Channels ELSE frames
    /\ UNCHANGED <<kind, capacity, queue, disconnected, delivered, raced>>

\* try_push(); frames_processed counts dropped frames with the others.
PushSample ==
    /\ left > 0 /\ left' = left - 1 /\ captured' = captured + 1
    /\ ring' = IF Len(ring) < capacity THEN Append(ring, captured) ELSE ring
    /\ frames' = IF left = 1 THEN captured' \div Channels ELSE frames
    /\ UNCHANGED <<kind, capacity, queue, disconnected, delivered, raced>>

\* The callback of an asynchronous stream; a send nobody receives any more is ignored.
SendBuffer(n) ==
    /\ kind = "channel" /\ captured + n <= MaxSamples /\ Len(queue) < MaxQueued
    /\ queue' = Append(queue, Captured(n)) /\ captured' = captured + n
    /\ UNCHANGED <<kind, capacity, ring, left, frames, disconnected, delivered, raced>>

\* The error callback: the device is gone, its stream invalid or its backend failed.
ReportLost ==
    /\ ~disconnected /\ left = 0 /\ disconnected' = TRUE
    /\ UNCHANGED <<kind, capacity, ring, queue, captured, left, frames, delivered, raced>>

-----------------------------------------------------------------------------
(* The application. *)

\* read(): Disconnected, or what there is.
Read(n) ==
    /\ kind = "ring" /\ ~disconnected
    /\ LET taken == Min({n, Len(ring)}) IN
          /\ delivered' = delivered \o SubSeq(ring, 1, taken)
          /\ ring' = SubSeq(ring, taken + 1, Len(ring))
          /\ raced' = (raced \/ (taken > 0 /\ left % Channels # 0))
    /\ UNCHANGED <<kind, capacity, queue, captured, left, frames, disconnected>>

\* Mutant: a poll gives the newest buffer.
PollNextNewest ==
    /\ kind = "channel" /\ queue # <<>>
    /\ delivered' = delivered \o Last(queue) /\ queue' = Front(queue)
    /\ UNCHANGED <<kind, capacity, ring, captured, left, frames, disconnected, raced>>

\* poll_recv(): the oldest buffer, or nothing yet; the flag is not looked at.
PollNext ==
    /\ kind = "channel" /\ queue # <<>>
    /\ delivered' = delivered \o Head(queue) /\ queue' = Tail(queue)
    /\ UNCHANGED <<kind, capacity, ring, captured, left, frames, disconnected, raced>>

-----------------------------------------------------------------------------
Next ==
    \/ \E n \in CallbackFrames : StartCallback(n * Channels) \/ SendBuffer(n * Channels)
    \/ PushSample \/ ReportLost \/ PollNext
    \/ \E n \in ReadSizes : Read(n)

Spec == Init /\ [][Next]_vars

-----------------------------------------------------------------------------
(* Properties. *)

InPlace == \A i \in DOMAIN delivered : delivered[i] % Channels = (i - 1) % Channels

\* Each sample is delivered in its own channel however many the ring was full for, if
\* the ring holds whole frames, every read takes whole frames, and no read makes room
\* between two samples of a frame the callback is pushing: frames are dropped whole.
\* A channel of buffers drops nothing at all.
CapturedInPlace ==
    /\ (~raced /\ capacity % Channels = 0) => InPlace
    /\ kind = "channel" => delivered = [i \in 1 .. Len(delivered) |-> i - 1]
=============================================================================
