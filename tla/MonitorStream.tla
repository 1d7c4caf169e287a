---------------------------- MODULE MonitorStream ----------------------------
(***************************************************************************)
(* monitor_stream() of the facade: a thread that calls back with the       *)
(* statistics of a stream at an interval until its guard is dropped.  The  *)
(* guard does not wait for the thread.  The statistics are two counters    *)
(* the stream only adds to.                                                *)
(***************************************************************************)
EXTENDS Naturals, Sequences

CONSTANT MaxFrames   \* bound: what the stream counts

VARIABLES
    stop,      \* the flag of the guard
    thread,    \* "look", "sample", "call", "sleep" or "ended"
    frames,    \* the counter of the stream
    sampled,   \* what stats_fn() returned
    told,      \* history: the last statistics the callback had
    late       \* history: callbacks since the guard was dropped

vars == <<stop, thread, frames, sampled, told, late>>

Init == stop = FALSE /\ thread = "look" /\ frames = 0 /\ sampled = 0 /\ told = 0 /\ late = 0

StreamRuns == frames < MaxFrames /\ frames' = frames + 1 /\ UNCHANGED <<stop, thread, sampled, told, late>>

DropGuard == ~stop /\ stop' = TRUE /\ UNCHANGED <<thread, frames, sampled, told, late>>

\* Mutant: the flag is looked at once.
LookOnce ==
    /\ thread = "look" /\ thread' = (IF stop /\ told = 0 THEN "ended" ELSE "sample")
    /\ UNCHANGED <<stop, frames, sampled, told, late>>

Look ==
    /\ thread = "look" /\ thread' = (IF stop THEN "ended" ELSE "sample")
    /\ UNCHANGED <<stop, frames, sampled, told, late>>

Sample ==
    /\ thread = "sample" /\ sampled' = frames /\ thread' = "call"
    /\ UNCHANGED <<stop, frames, told, late>>

Call ==
    /\ thread = "call" /\ told' = sampled /\ thread' = "sleep"
    /\ late' = (IF stop THEN late + 1 ELSE late)
    /\ UNCHANGED <<stop, frames, sampled>>

Wake == thread = "sleep" /\ thread' = "look" /\ UNCHANGED <<stop, frames, sampled, told, late>>

Next == StreamRuns \/ DropGuard \/ Look \/ Sample \/ Call \/ Wake

Spec == Init /\ [][Next]_vars

-----------------------------------------------------------------------------
(* Properties. *)

\* After its guard is dropped a monitor calls back once more at the most, from a thread
\* that was past its look at the flag.
AtMostOnceMore == late <= 1
=============================================================================
