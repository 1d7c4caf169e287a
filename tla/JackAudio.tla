------------------------------ MODULE JackAudio ------------------------------
(***************************************************************************)
(* The audio streams of oxisound-jack: an output stream and an input       *)
(* stream, each a JACK client of its own.  A ring lies between the handle  *)
(* of a JackOutputStream or JackInputStream and its process callback; a    *)
(* JackCallbackOutputStream calls the user's function instead.  The server *)
(* runs the clients one after the other in every cycle; the output's port  *)
(* may be wired to the input's, and to the system's ports.                 *)
(*                                                                         *)
(* A sample is a number: the application writes 1, 2, 3 ..., silence is 0, *)
(* what a user's callback plays is -1.  Every push and every pop is a      *)
(* step, for the callbacks run beside the caller.  Latencies are left out. *)
(***************************************************************************)
EXTENDS Integers, FiniteSets, SequencesExt

CONSTANTS
    Backends,     \* whether the "jack-backend" feature is built in
    SampleRate,   \* of the server when the streams are opened
    BlockSizes,   \* frames a cycle may have
    WriteSizes, ReadSizes,
    SystemPorts,  \* the system's playback ports, in the server's order
    MaxSamples,   \* bound: samples written
    MaxFrames,    \* bound: frames processed
    MaxXruns      \* bound: xruns notified

\* The input's port is none of the system's.
AudioAssumption ==
    /\ Backends \subseteq BOOLEAN /\ SampleRate \in Nat
    /\ BlockSizes \subseteq Nat /\ WriteSizes \subseteq Nat /\ ReadSizes \subseteq Nat
    /\ SystemPorts \in Seq(STRING \ {"in"})

VARIABLES
    backend,
    output,      \* "closed", "refused", or the kind of stream: "ring", "callback"
    input,       \* "closed", "refused" or "ring"
    outRing, inRing,
    todo,        \* samples of the write() under way not looked at yet
    want,        \* samples the read() under way may still take
    phase,       \* the client the server is running, or "idle"
    left,        \* samples that client's callback has still to handle
    port,        \* the buffer of that client's port
    frames,      \* frames_processed of the two streams
    underruns, overruns,
    metrics,     \* the sample rate, xruns and buffer size the callbacks recorded
    wires,       \* the ports the output's port is connected to
    next,        \* history: the next sample the application writes
    roomy,       \* history: two seconds had room for the write() under way
    missed,      \* history: samples this write(), and every write(), dropped
    heard,       \* history: what read() returned
    unheard      \* history: cycles of the output the input did not hear

callerVars == <<todo, want, next, roomy, missed, heard>>
cycleVars  == <<phase, left, port, frames, underruns, overruns, unheard>>
setupVars  == <<backend, output, input, metrics, wires>>
vars == <<setupVars, outRing, inRing, callerVars, cycleVars>>

\* JackMetrics; the latency is left out.
NewMetrics == [rate |-> 0, xruns |-> 0, buffer |-> 0]
RecordXrun(m) == [m EXCEPT !.xruns = @ + 1]
RecordSampleRate(m, n) == [m EXCEPT !.rate = n]
RecordBufferSize(m, n) == [m EXCEPT !.buffer = n]

Init ==
    /\ backend \in Backends /\ output = "closed" /\ input = "closed"
    /\ outRing = <<>> /\ inRing = <<>> /\ todo = <<>> /\ want = 0
    /\ phase = "idle" /\ left = 0 /\ port = <<>>
    /\ frames = [out |-> 0, in |-> 0] /\ underruns = 0 /\ overruns = 0
    /\ metrics = NewMetrics /\ wires = {}
    /\ next = 1 /\ roomy = TRUE /\ missed = [call |-> 0, ever |-> 0]
    /\ heard = <<>> /\ unheard = 0

\* Mutant: one second of samples.
RingCapacityOneSecond == SampleRate

\* Two seconds of mono samples.
RingCapacity == SampleRate * 2

Silence(n) == [i \in 1 .. n |-> 0]

-----------------------------------------------------------------------------
(* Opening and wiring. *)

\* Without the feature every constructor is Unsupported.
Stub ==
    /\ ~backend /\ output = "closed"
    /\ output' = "refused" /\ input' = "refused"
    /\ UNCHANGED <<backend, metrics, wires, outRing, inRing, callerVars, cycleVars>>

\* The port may not register and the client not activate: the device is gone.
\* An active client is run from the next cycle on.
OpenOutput ==
    /\ backend /\ output = "closed" /\ phase = "idle"
    /\ output' \in {"ring", "callback", "refused"}
    /\ UNCHANGED <<backend, input, metrics, wires, outRing, inRing, callerVars, cycleVars>>

OpenInput ==
    /\ backend /\ input = "closed" /\ phase = "idle"
    /\ input' \in {"ring", "refused"}
    /\ UNCHANGED <<backend, output, metrics, wires, outRing, inRing, callerVars, cycleVars>>

Active(stream) == stream \in {"ring", "callback"}

\* A port the server does not know is an error; PortAlreadyConnected is Ok.
ConnectPorts(dst) ==
    /\ Active(output)
    /\ dst \in ToSet(SystemPorts) \cup (IF Active(input) THEN {"in"} ELSE {})
    /\ wires' = wires \cup {dst}
    /\ UNCHANGED <<backend, output, input, metrics, outRing, inRing, callerVars, cycleVars>>

\* The first two of the system's ports; those that fail are only logged.
AutoConnect ==
    /\ Active(output)
    /\ \E failed \in SUBSET {1, 2} :
        wires' = wires \cup {SystemPorts[i] : i \in (DOMAIN SystemPorts \cap {1, 2}) \ failed}
    /\ UNCHANGED <<backend, output, input, metrics, outRing, inRing, callerVars, cycleVars>>

\* JackNotifier: the server's thread stores what it is told.
NotifySampleRate ==
    /\ Active(output) /\ metrics' = RecordSampleRate(metrics, SampleRate)
    /\ UNCHANGED <<backend, output, input, wires, outRing, inRing, callerVars, cycleVars>>

NotifyXrun ==
    /\ Active(output) /\ metrics.xruns < MaxXruns
    /\ metrics' = RecordXrun(metrics)
    /\ UNCHANGED <<backend, output, input, wires, outRing, inRing, callerVars, cycleVars>>

-----------------------------------------------------------------------------
(* The caller. *)

Write(n) ==
    /\ output = "ring" /\ todo = <<>> /\ next + n <= MaxSamples + 1
    /\ todo' = [i \in 1 .. n |-> next + i - 1] /\ next' = next + n
    /\ roomy' = (n + Len(outRing) <= 2 * SampleRate)
    /\ missed' = [missed EXCEPT !.call = 0]
    /\ UNCHANGED <<setupVars, outRing, inRing, want, heard, cycleVars>>

\* try_push(): a full ring drops the sample, and the next one is tried.
WriteSample ==
    /\ todo # <<>> /\ todo' = Tail(todo)
    /\ IF Len(outRing) < RingCapacity
       THEN outRing' = Append(outRing, Head(todo)) /\ UNCHANGED missed
       ELSE missed' = [call |-> missed.call + 1, ever |-> missed.ever + 1] /\ UNCHANGED outRing
    /\ UNCHANGED <<setupVars, inRing, want, next, roomy, heard, cycleVars>>

Read(n) ==
    /\ input = "ring" /\ want = 0 /\ want' = n
    /\ UNCHANGED <<setupVars, outRing, inRing, todo, next, roomy, missed, heard, cycleVars>>

\* Mutant: a sample is popped before the loop looks whether it has a slot for it.
ReadSamplePastEnd ==
    /\ want > 0
    /\ IF inRing = <<>>
       THEN want' = 0 /\ UNCHANGED <<inRing, heard>>
       ELSE /\ heard' = Append(heard, Head(inRing)) /\ want' = want - 1
            /\ inRing' = IF want = 1 /\ Len(inRing) > 1 THEN Tail(Tail(inRing)) ELSE Tail(inRing)
    /\ UNCHANGED <<setupVars, outRing, todo, next, roomy, missed, cycleVars>>

\* An empty ring ends the call with what it has.
ReadSample ==
    /\ want > 0
    /\ IF inRing = <<>>
       THEN want' = 0 /\ UNCHANGED <<inRing, heard>>
       ELSE heard' = Append(heard, Head(inRing)) /\ inRing' = Tail(inRing) /\ want' = want - 1
    /\ UNCHANGED <<setupVars, outRing, todo, next, roomy, missed, cycleVars>>

-----------------------------------------------------------------------------
(* The server's thread: the cycle is JACK's, the callbacks are the crate's. *)

\* A cycle of another size than the last is announced to buffer_size() first.
BeginCycle(n) ==
    /\ phase = "idle" /\ (Active(output) \/ Active(input))
    /\ frames.out + n <= MaxFrames /\ frames.in + n <= MaxFrames
    /\ phase' = "output" /\ left' = n /\ port' = <<>>
    /\ metrics' = IF Active(output) THEN RecordBufferSize(metrics, n) ELSE metrics
    /\ UNCHANGED <<backend, output, input, wires, outRing, inRing, callerVars, frames, underruns, overruns, unheard>>

\* JackOutputHandler::process, a sample: an empty ring plays silence and counts.
FillSample ==
    /\ phase = "output" /\ output = "ring" /\ left > 0 /\ left' = left - 1
    /\ IF outRing = <<>>
       THEN port' = Append(port, 0) /\ underruns' = underruns + 1 /\ UNCHANGED outRing
       ELSE port' = Append(port, Head(outRing)) /\ outRing' = Tail(outRing) /\ UNCHANGED underruns
    /\ UNCHANGED <<setupVars, inRing, callerVars, phase, frames, overruns, unheard>>

\* JackCallbackOutputHandler::process hands the whole buffer to the user.
FillByCallback ==
    /\ phase = "output" /\ output = "callback" /\ left > 0
    /\ left' = 0 /\ port' = [i \in 1 .. left |-> -1]
    /\ UNCHANGED <<setupVars, outRing, inRing, callerVars, phase, frames, underruns, overruns, unheard>>

\* The end of the output's callback: the input's port holds what is wired to it.
OutputDone ==
    /\ phase = "output" /\ Active(output) /\ left = 0
    /\ frames' = [frames EXCEPT !.out = @ + Len(port)]
    /\ phase' = "input" /\ left' = Len(port)
    /\ port' = IF "in" \in wires THEN port ELSE Silence(Len(port))
    /\ unheard' = IF "in" \in wires THEN unheard ELSE unheard + 1
    /\ UNCHANGED <<setupVars, outRing, inRing, callerVars, underruns, overruns>>

NoOutput ==
    /\ phase = "output" /\ ~Active(output)
    /\ phase' = "input" /\ port' = Silence(left)
    /\ UNCHANGED <<setupVars, outRing, inRing, callerVars, left, frames, underruns, overruns, unheard>>

\* Mutant: a full ring makes room by losing its oldest sample, uncounted.
PushSampleOverwriting ==
    /\ phase = "input" /\ Active(input) /\ left > 0 /\ left' = left - 1
    /\ inRing' = Append(IF Len(inRing) < RingCapacity THEN inRing ELSE Tail(inRing),
                        port[Len(port) - left + 1])
    /\ UNCHANGED <<setupVars, outRing, callerVars, phase, port, frames, underruns, overruns, unheard>>

\* JackInputHandler::process, a sample: what does not fit is dropped and counted.
PushSample ==
    /\ phase = "input" /\ Active(input) /\ left > 0 /\ left' = left - 1
    /\ IF Len(inRing) < RingCapacity
       THEN inRing' = Append(inRing, port[Len(port) - left + 1]) /\ UNCHANGED overruns
       ELSE overruns' = overruns + 1 /\ UNCHANGED inRing
    /\ UNCHANGED <<setupVars, outRing, callerVars, phase, port, frames, underruns, unheard>>

InputDone ==
    /\ phase = "input" /\ (Active(input) => left = 0)
    /\ frames' = IF Active(input) THEN [frames EXCEPT !.in = @ + Len(port)] ELSE frames
    /\ phase' = "idle" /\ left' = 0 /\ port' = <<>>
    /\ UNCHANGED <<setupVars, outRing, inRing, callerVars, underruns, overruns, unheard>>

-----------------------------------------------------------------------------
Next ==
    \/ Stub \/ OpenOutput \/ OpenInput \/ AutoConnect \/ NotifySampleRate \/ NotifyXrun
    \/ \E dst \in {"in"} \cup ToSet(SystemPorts) : ConnectPorts(dst)
    \/ \E n \in WriteSizes : Write(n)
    \/ \E n \in ReadSizes : Read(n)
    \/ WriteSample \/ ReadSample
    \/ \E n \in BlockSizes : BeginCycle(n)
    \/ FillSample \/ FillByCallback \/ OutputDone \/ NoOutput \/ PushSample \/ InputDone

Spec == Init /\ [][Next]_vars

-----------------------------------------------------------------------------
(* Properties. *)

\* What the application wrote and the output played, still in the port.
InPort ==
    CASE phase = "output" -> port
      [] phase = "input"  -> SubSeq(port, Len(port) - left + 1, Len(port))
      [] OTHER -> <<>>

\* A write() that found room for all its samples in two seconds of audio drops
\* none of them, whatever the callback does meanwhile: write() always answers Ok,
\* so that nothing else would tell the caller.
FittingWriteIsWhole == roomy => missed.call = 0

\* What the input's callback has pushed or dropped in the cycle under way.
Handled == IF phase = "input" /\ Active(input) THEN Len(port) - left ELSE 0

\* Every captured frame was read, is queued or was counted as an overrun, in the
\* middle of a cycle too.
CaptureAccounted ==
    frames.in + Handled = Len(heard) + Len(inRing) + overruns

\* What was written and is on its way, or was heard: the sounds, and the silences between.
Stretch == heard \o inRing \o InPort \o outRing \o todo
Sounds  == {i \in DOMAIN Stretch : Stretch[i] # 0}
Lost    == (1 .. next - 1) \ {Stretch[i] : i \in Sounds}

\* With the output's port wired to the input's in every cycle, what read() returned,
\* what is queued and what is in the ports is what the application wrote, in order
\* and without a hole, but for as many samples as write() says it dropped.  An input
\* that overran is counted and may have lost any.
LoopbackIsFaithful ==
    output = "ring" /\ Active(input) /\ unheard = 0 /\ overruns = 0 =>
        /\ \A i \in Sounds : Stretch[i] \in 1 .. next - 1
        /\ \A i, j \in Sounds : i < j => Stretch[i] < Stretch[j]
        /\ Cardinality(Lost) = missed.ever

\* Every sample is accounted for, those written, those played and those captured.
AudioIsAccounted == FittingWriteIsWhole /\ LoopbackIsFaithful /\ CaptureAccounted
=============================================================================
