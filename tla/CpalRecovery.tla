---------------------------- MODULE CpalRecovery ----------------------------
(***************************************************************************)
(* CpalOutputStream with enable_auto_reconnect(): the handle its owner     *)
(* writes to, the RecoveryHandle that owner drops to stop monitoring, and  *)
(* the recovery thread.  Unlike the facade's guard, all the streams opened *)
(* over the life of the handle share ONE disconnect flag, and the first    *)
(* stream stays in the handle: the thread swaps only the ring producer the *)
(* handle writes to and the stream that replaced the first one, each       *)
(* behind a mutex.                                                         *)
(*                                                                         *)
(* A ring is named after the stream whose callback reads it.  The counters *)
(* (underruns, frames, callback times) and the sleeps are left out; the    *)
(* back-off only lengthens the time between two steps of the thread.       *)
(***************************************************************************)
EXTENDS BoundedOpen, Naturals

CONSTANTS
    Capacity    \* samples a ring holds

ASSUME CapacityAssumption == Capacity \in Nat \ {0}

VARIABLES
    disconnected,  \* the flag every error callback sets
    ring,          \* per stream: samples queued in its ring
    slot,          \* ReconnectInner.producer: the ring the handle writes to
    installed,     \* ReconnectInner.stream: the replacement, if any
    fresh,         \* the stream the thread has opened and not installed yet
    mpc,           \* where the recovery thread is in its loop
    stop,          \* RecoveryHandle.stop
    pc,            \* what the owner's thread is doing
    hasStream,     \* the owner still has the CpalOutputStream
    hasHandle,     \* ... and the RecoveryHandle
    paused,        \* streams told to pause
    wantPaused     \* history: the last pause() or resume() to return Ok was a pause()

monitorVars == <<fresh, mpc>>
innerVars   == <<slot, installed>>
ownerVars   == <<pc, hasStream, hasHandle, stop, paused, wantPaused>>
vars == <<openVars, disconnected, ring, innerVars, monitorVars, ownerVars>>

Current == IF installed = NoStream THEN Initial ELSE installed

\* The thread holds both mutexes from the swap of the producer to the end of
\* the turn, past the clearing of the flag.
Locked == mpc \in {"install", "clear"}

Init ==
    /\ OpenInit
    /\ disconnected = FALSE
    /\ ring = [s \in Streams |-> 0]
    /\ slot = Initial /\ installed = NoStream
    /\ fresh = NoStream /\ mpc = "top" /\ stop = FALSE
    /\ pc = "idle" /\ hasStream = TRUE /\ hasHandle = TRUE
    /\ paused = {} /\ wantPaused = FALSE

-----------------------------------------------------------------------------
(* The owner's thread. *)

Goto(at) ==
    /\ pc' = at
    /\ UNCHANGED <<openVars, disconnected, innerVars, monitorVars,
                   hasStream, hasHandle, stop, paused, wantPaused>>

\* write: the flag first, without the lock ...
CallWrite ==
    /\ pc = "idle" /\ hasStream /\ ~disconnected
    /\ Goto("write_push") /\ UNCHANGED ring

\* Mutant: write() reaches the producer without its mutex.
WritePushUnlocked(n) ==
    /\ pc = "write_push"
    /\ ring[slot] + n <= Capacity
    /\ ring' = [ring EXCEPT ![slot] = @ + n]
    /\ Goto("idle")

\* ... then the push, whole or not at all, under it.
WritePush(n) ==
    /\ pc = "write_push" /\ ~Locked
    /\ ring[slot] + n <= Capacity
    /\ ring' = [ring EXCEPT ![slot] = @ + n]
    /\ Goto("idle")

WriteOverrun(n) ==
    /\ pc = "write_push" /\ ~Locked
    /\ ring[slot] + n > Capacity
    /\ Goto("idle") /\ UNCHANGED ring

\* flush: in a loop, the flag, the ring under the lock, the clock.
CallFlush == pc = "idle" /\ hasStream /\ Goto("flush_flag") /\ UNCHANGED ring

FlushFlag ==
    /\ pc = "flush_flag"
    /\ Goto(IF disconnected THEN "idle" ELSE "flush_ring") /\ UNCHANGED ring

FlushRing ==
    /\ pc = "flush_ring" /\ ~Locked
    /\ Goto(IF ring[slot] = 0 THEN "idle" ELSE "flush_clock") /\ UNCHANGED ring

FlushAgain   == pc = "flush_clock" /\ Goto("flush_flag") /\ UNCHANGED ring
FlushTimeout == pc = "flush_clock" /\ Goto("idle") /\ UNCHANGED ring

\* pause() and resume() go to the stream in the handle, the first one.  On a
\* dead stream the backend may answer either way; an Err changes nothing.
SetPaused(on) ==
    /\ pc = "idle" /\ hasStream
    /\ paused' = IF on THEN paused \cup {Initial} ELSE paused \ {Initial}
    /\ wantPaused' = on
    /\ UNCHANGED <<openVars, disconnected, ring, innerVars, monitorVars,
                   pc, hasStream, hasHandle, stop>>
Pause  == SetPaused(TRUE)
Resume == SetPaused(FALSE)

\* RecoveryHandle::drop: raise the flag, join the thread.
DropHandle ==
    /\ pc = "idle" /\ hasHandle
    /\ stop' = TRUE
    /\ pc' = "joining"
    /\ UNCHANGED <<openVars, disconnected, ring, innerVars, monitorVars,
                   hasStream, hasHandle, paused, wantPaused>>

Join ==
    /\ pc = "joining" /\ mpc = "exited"
    /\ hasHandle' = FALSE
    /\ pc' = "idle"
    /\ UNCHANGED <<openVars, disconnected, ring, innerVars, monitorVars,
                   hasStream, stop, paused, wantPaused>>

\* The CpalOutputStream is dropped: its first stream goes; the replacement goes
\* with the last of the two Arcs, the other being the thread's.
DropStream ==
    /\ pc = "idle" /\ hasStream
    /\ hasStream' = FALSE
    /\ phase' = Drop({Initial} \cup IF mpc = "exited" THEN {installed} ELSE {})
    /\ paused' = {} /\ wantPaused' = FALSE
    /\ UNCHANGED <<worker, attempt, channel, disconnected, ring, innerVars, monitorVars,
                   pc, hasHandle, stop>>

-----------------------------------------------------------------------------
(* The recovery thread. *)

MonitorTop ==
    /\ mpc = "top"
    /\ mpc' = IF stop THEN "exited" ELSE "look"
    /\ phase' = IF stop /\ ~hasStream THEN Drop({installed}) ELSE phase
    /\ UNCHANGED <<worker, attempt, channel, disconnected, ring, innerVars, fresh, ownerVars>>

MonitorLook ==
    /\ mpc = "look"
    /\ mpc' = IF disconnected THEN "open" ELSE "top"
    /\ UNCHANGED <<openVars, disconnected, ring, innerVars, fresh, ownerVars>>

\* No default device, or no thread to open it on.
MonitorRefused ==
    /\ mpc = "open"
    /\ mpc' = "top"
    /\ UNCHANGED <<openVars, disconnected, ring, innerVars, fresh, ownerVars>>

\* open_output_inner_with_shared_arcs: a fresh ring, the shared flag.
MonitorOpen ==
    /\ mpc = "open" /\ StartOpen /\ attempt' # slot
    /\ mpc' = "wait"
    /\ ring' = [ring EXCEPT ![attempt'] = 0]
    /\ UNCHANGED <<disconnected, innerVars, fresh, ownerVars>>

MonitorOk ==
    /\ mpc = "wait" /\ Received("built")
    /\ fresh' = attempt
    /\ mpc' = "lock"
    /\ UNCHANGED <<disconnected, ring, innerVars, ownerVars>>

MonitorErr ==
    /\ mpc = "wait" /\ Received("failed")
    /\ mpc' = "top"
    /\ UNCHANGED <<disconnected, ring, innerVars, fresh, ownerVars>>

\* Mutant: the thread waits for the backend without a bound.
MonitorTimeoutNever ==
    /\ mpc = "wait" /\ channel # {} /\ TimedOut
    /\ mpc' = "give_up"
    /\ UNCHANGED <<disconnected, ring, innerVars, fresh, ownerVars>>

MonitorTimeout ==
    /\ mpc = "wait" /\ TimedOut
    /\ mpc' = "give_up"
    /\ UNCHANGED <<disconnected, ring, innerVars, fresh, ownerVars>>

MonitorGiveUp ==
    /\ mpc = "give_up" /\ GiveUp
    /\ mpc' = "top"
    /\ UNCHANGED <<disconnected, ring, innerVars, fresh, ownerVars>>

\* Mutant: the flag is cleared before the replacement is in place.
MonitorSwapClearing ==
    /\ mpc = "lock"
    /\ slot' = fresh
    /\ disconnected' = FALSE
    /\ mpc' = "install"
    /\ UNCHANGED <<openVars, ring, installed, fresh, ownerVars>>

\* Under both locks: the new ring's producer in, the old one dropped ...
MonitorSwap ==
    /\ mpc = "lock"
    /\ slot' = fresh
    /\ mpc' = "install"
    /\ UNCHANGED <<openVars, disconnected, ring, installed, fresh, ownerVars>>

\* Mutant: the previous replacement is not dropped.
MonitorInstallLeaking ==
    /\ mpc = "install"
    /\ installed' = fresh /\ fresh' = NoStream
    /\ mpc' = "clear"
    /\ UNCHANGED <<openVars, disconnected, ring, slot, ownerVars>>

\* ... the new stream in, the previous replacement dropped ...
MonitorInstall ==
    /\ mpc = "install"
    /\ installed' = fresh /\ fresh' = NoStream
    /\ phase' = Drop({installed})
    /\ mpc' = "clear"
    /\ UNCHANGED <<worker, attempt, channel, disconnected, ring, slot, ownerVars>>

\* ... and the shared flag cleared.
MonitorClear ==
    /\ mpc = "clear"
    /\ disconnected' = FALSE
    /\ mpc' = "top"
    /\ UNCHANGED <<openVars, ring, innerVars, fresh, ownerVars>>

-----------------------------------------------------------------------------
(* The open workers and the callbacks. *)

WorkerStep(s) ==
    /\ Worker(s) /\ attempt' = attempt
    /\ UNCHANGED <<disconnected, ring, innerVars, monitorVars, ownerVars>>

DeviceFails(s) ==
    /\ StreamDies(s)
    /\ UNCHANGED <<disconnected, ring, innerVars, monitorVars, ownerVars>>

\* The error callback of any stream that shares the flag raises it.
ReportError(s) ==
    /\ ErrorCallback(s)
    /\ disconnected' = TRUE
    /\ UNCHANGED <<ring, innerVars, monitorVars, ownerVars>>

\* A dead stream that is still held may report again.
ReportAgain(s) ==
    /\ phase[s] = "down" /\ ~disconnected
    /\ disconnected' = TRUE
    /\ UNCHANGED <<openVars, ring, innerVars, monitorVars, ownerVars>>

\* The audio callback plays a queued sample.
AudioCallback(s) ==
    /\ phase[s] = "up" /\ s \notin paused
    /\ ring[s] > 0
    /\ ring' = [ring EXCEPT ![s] = @ - 1]
    /\ UNCHANGED <<openVars, disconnected, innerVars, monitorVars, ownerVars>>

-----------------------------------------------------------------------------
Monitor == MonitorTop \/ MonitorLook \/ MonitorRefused \/ MonitorOpen \/ MonitorOk
           \/ MonitorErr \/ MonitorTimeout \/ MonitorGiveUp
           \/ MonitorSwap \/ MonitorInstall \/ MonitorClear

Write == \E n \in 1 .. Capacity + 1 : WritePush(n) \/ WriteOverrun(n)

Owner == CallWrite \/ Write \/ CallFlush \/ FlushFlag \/ FlushRing \/ FlushAgain
         \/ FlushTimeout \/ Pause \/ Resume \/ DropHandle \/ Join \/ DropStream

Backend(s) == WorkerStep(s) \/ DeviceFails(s) \/ ReportError(s) \/ ReportAgain(s)
              \/ AudioCallback(s)

Next == Owner \/ Monitor \/ \E s \in Streams : Backend(s)

\* The scheduler runs every thread, and a worker once the backend has let it go;
\* the thread holds the mutexes for an instant and then sleeps, so whoever waits
\* for one gets it; clocks advance; cpal reports a dead stream, once.  The
\* backend may hang, and the audio callback need not run.
Fairness ==
    /\ WF_vars(Monitor)
    /\ SF_vars(Write) /\ WF_vars(FlushFlag) /\ SF_vars(FlushRing)
    /\ WF_vars(FlushAgain \/ FlushTimeout) /\ SF_vars(FlushTimeout) /\ WF_vars(Join)
    /\ \A s \in Streams :
        WF_vars(WorkerStep(s) /\ worker[s] # "opening") /\ WF_vars(ReportError(s))

Safety == Init /\ [][Next]_vars
Spec == Safety /\ Fairness

-----------------------------------------------------------------------------
(* Properties. *)

MonitorPcs == {"top", "look", "open", "wait", "give_up", "lock", "install", "clear", "exited"}
OwnerPcs == {"idle", "write_push", "flush_flag", "flush_ring", "flush_clock", "joining"}

\* Every variable has its type, and no ring holds more than its capacity.
TypeOK ==
    /\ OpenTypeOK
    /\ disconnected \in BOOLEAN /\ stop \in BOOLEAN
    /\ ring \in [Streams -> 0 .. Capacity]
    /\ slot \in Streams /\ installed \in Streams \cup {NoStream}
    /\ fresh \in Streams \cup {NoStream}
    /\ mpc \in MonitorPcs /\ pc \in OwnerPcs
    /\ hasStream \in BOOLEAN /\ hasHandle \in BOOLEAN
    /\ paused \subseteq Streams /\ wantPaused \in BOOLEAN

\* A write() that was let past the flag queues its samples for the stream that
\* is current when they are queued, even if the thread swaps streams between
\* the two: never for one that has been replaced, nor for one not in place yet.
QueuedForCurrentStream ==
    [][\A s \in Streams : ring'[s] > ring[s] => s = Current]_vars

\* Once the first stream's failure has been reported, is_disconnected() says so
\* until a replacement is installed: a failed, refused or timed-out attempt to
\* reopen hides nothing.
LossStaysVisible ==
    installed = NoStream /\ hasStream /\ phase[Initial] = "down" => disconnected

\* Every call returns, the drop of a RecoveryHandle included: the join waits for
\* a reopen under way, which is bounded even when the backend never answers.
CallsReturn == pc # "idle" ~> pc = "idle"

\* When handle and stream are gone, so is every stream opened on their behalf,
\* whichever of the two was dropped first and whatever open had timed out.
StreamsReleased ==
    ~hasStream /\ ~hasHandle
        ~> \A s \in Streams : phase[s] = "free" \/ worker[s] = "opening"

\* spawn_recovery_thread's doc: sharing the flag keeps disconnect detection
\* continuous across reconnects.  A reported failure of the current stream is
\* shown, or the stream replaced.
DetectionIsContinuous ==
    hasStream /\ ~stop /\ phase[Current] = "down"
        ~> disconnected \/ phase[Current] # "down" \/ stop \/ ~hasStream

\* pause()'s doc: no audio rendered, ring buffer preserved.
PausedRendersNothing ==
    [][wantPaused => \A s \in Streams : ~AudioCallback(s)]_vars
=============================================================================
