----------------------------- MODULE BoundedOpen ----------------------------
(***************************************************************************)
(* open_bounded() of oxisound-cpal and the cpal streams it opens.  Every   *)
(* open runs on a worker thread of its own; the caller waits for the       *)
(* result on a one-slot channel, for a bounded time.  A caller that gives  *)
(* up drops its end of the channel and the worker, whenever the backend    *)
(* lets it go, drops the stream it built.                                  *)
(*                                                                         *)
(* The variables and steps both reconnecting outputs are built from: the   *)
(* recovery thread of CpalOutputStream (CpalRecovery) and the monitor      *)
(* thread of auto_reconnect_output (AutoReconnect).                        *)
(***************************************************************************)

CONSTANTS
    Streams,     \* cpal streams that may exist at once; an identity is used again once freed
    NoStream,
    Initial      \* the stream that is open before anything fails

ASSUME StreamsAssumption == NoStream \notin Streams /\ Initial \in Streams

VARIABLES
    phase,      \* per stream: "free", "up" (its callback runs), "dead" (its device failed),
                \* "down" (and its error callback has said so)
    worker,     \* per stream: "none", "opening" (inside the backend), or its result:
                \* "built", "failed"
    attempt,    \* the open whose receiver is alive
    channel     \* what the worker of that open has sent: {} or {its result}

openVars == <<phase, worker, attempt, channel>>

OpenInit ==
    /\ phase = [s \in Streams |-> IF s = Initial THEN "up" ELSE "free"]
    /\ worker = [s \in Streams |-> "none"]
    /\ attempt = NoStream
    /\ channel = {}

Drop(set) == [s \in Streams |-> IF s \in set THEN "free" ELSE phase[s]]

\* open_bounded: spawn the worker, wait on the channel.
StartOpen ==
    /\ attempt = NoStream
    /\ \E s \in Streams :
        /\ phase[s] = "free" /\ worker[s] = "none"
        /\ worker' = [worker EXCEPT ![s] = "opening"]
        /\ attempt' = s
    /\ channel' = {}
    /\ UNCHANGED phase

\* The backend returns, now or never: the stream plays from play() on, or the
\* open failed (or panicked, which closes the channel: an error too).
BackendBuilds(s) ==
    /\ worker[s] = "opening"
    /\ worker' = [worker EXCEPT ![s] = "built"]
    /\ phase' = [phase EXCEPT ![s] = "up"]
    /\ UNCHANGED <<attempt, channel>>

BackendFails(s) ==
    /\ worker[s] = "opening"
    /\ worker' = [worker EXCEPT ![s] = "failed"]
    /\ UNCHANGED <<phase, attempt, channel>>

\* Mutant: the worker lets go of the stream of an abandoned open without
\* dropping it.
WorkerSendsLeaking(s) ==
    /\ worker[s] \in {"built", "failed"}
    /\ worker' = [worker EXCEPT ![s] = "none"]
    /\ channel' = IF attempt = s THEN {worker[s]} ELSE channel
    /\ UNCHANGED <<phase, attempt>>

\* The worker sends its result; with the receiver gone it drops what it built.
WorkerSends(s) ==
    /\ worker[s] \in {"built", "failed"}
    /\ worker' = [worker EXCEPT ![s] = "none"]
    /\ IF attempt = s
       THEN channel' = {worker[s]} /\ UNCHANGED phase
       ELSE phase' = Drop({s}) /\ UNCHANGED channel
    /\ UNCHANGED attempt

Worker(s) == BackendBuilds(s) \/ BackendFails(s) \/ WorkerSends(s)

\* recv_timeout returns the result: the stream is the caller's from here on.
Received(result) ==
    /\ attempt # NoStream /\ channel = {result}
    /\ attempt' = NoStream
    /\ channel' = {}
    /\ UNCHANGED <<phase, worker>>

\* recv_timeout finds nothing by its deadline ...
TimedOut ==
    /\ attempt # NoStream /\ channel = {}
    /\ UNCHANGED openVars

\* ... and dropping the receiver drops what was sent in the meantime.
GiveUp ==
    /\ attempt # NoStream
    /\ phase' = IF channel = {"built"} THEN Drop({attempt}) ELSE phase
    /\ attempt' = NoStream
    /\ channel' = {}
    /\ UNCHANGED worker

\* A device fails under a stream.  (cpal)
StreamDies(s) ==
    /\ phase[s] = "up"
    /\ phase' = [phase EXCEPT ![s] = "dead"]
    /\ UNCHANGED <<worker, attempt, channel>>

\* cpal calls the stream's error callback.
ErrorCallback(s) ==
    /\ phase[s] = "dead"
    /\ phase' = [phase EXCEPT ![s] = "down"]
    /\ UNCHANGED <<worker, attempt, channel>>

OpenTypeOK ==
    /\ phase \in [Streams -> {"free", "up", "dead", "down"}]
    /\ worker \in [Streams -> {"none", "opening", "built", "failed"}]
    /\ attempt \in Streams \cup {NoStream}
    /\ channel \in {{}, {"built"}, {"failed"}}
=============================================================================
