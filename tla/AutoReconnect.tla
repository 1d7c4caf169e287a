---------------------------- MODULE AutoReconnect ---------------------------
(***************************************************************************)
(* auto_reconnect_output() of the oxisound facade: AutoReconnectGuard, the *)
(* owner's handle, and the monitor thread that replaces its stream.  Guard *)
(* and monitor share a mutex around the stream; each holds it for a single *)
(* look, write or replacement, so those are steps here.  Every stream has  *)
(* a disconnect flag of its own, set by its own error callback: it reads   *)
(* TRUE exactly in phase "down".  The monitor's sleeps are the time        *)
(* between its steps, and the back-off only lengthens them.                *)
(***************************************************************************)
EXTENDS BoundedOpen

VARIABLES
    inner,   \* the stream in the mutex
    mpc,     \* where the monitor is in its loop
    fresh,   \* the stream it has opened and not installed yet
    stop     \* the guard has been dropped

vars == <<openVars, inner, mpc, fresh, stop>>

Init ==
    /\ OpenInit
    /\ inner = Initial
    /\ mpc = "top" /\ fresh = NoStream
    /\ stop = FALSE

\* The guard's Drop tells the monitor to stop and does not wait for it.
DropGuard ==
    /\ ~stop
    /\ stop' = TRUE
    /\ UNCHANGED <<openVars, inner, mpc, fresh>>

\* Only here, once per turn, is the stop flag read.  The monitor's Arc is the
\* last one: its exit drops the stream.
MonitorTop ==
    /\ mpc = "top"
    /\ IF stop
       THEN /\ mpc' = "exited"
            /\ inner' = NoStream /\ phase' = Drop({inner})
       ELSE mpc' = "look" /\ UNCHANGED <<inner, phase>>
    /\ UNCHANGED <<worker, attempt, channel, fresh, stop>>

\* Mutant: the monitor reopens on every turn.
MonitorLookAlways ==
    /\ mpc = "look"
    /\ mpc' = "open"
    /\ UNCHANGED <<openVars, inner, fresh, stop>>

MonitorLook ==
    /\ mpc = "look"
    /\ mpc' = IF phase[inner] = "down" THEN "open" ELSE "top"
    /\ UNCHANGED <<openVars, inner, fresh, stop>>

\* No default device, or no thread to open it on.
MonitorRefused ==
    /\ mpc = "open"
    /\ mpc' = "top"
    /\ UNCHANGED <<openVars, inner, fresh, stop>>

MonitorOpen ==
    /\ mpc = "open" /\ StartOpen
    /\ mpc' = "wait"
    /\ UNCHANGED <<inner, fresh, stop>>

MonitorOk ==
    /\ mpc = "wait" /\ Received("built")
    /\ fresh' = attempt
    /\ mpc' = "install"
    /\ UNCHANGED <<inner, stop>>

\* Mutant: a failed reopen ends the monitor.
MonitorErrEnds ==
    /\ mpc = "wait" /\ Received("failed")
    /\ mpc' = "exited"
    /\ UNCHANGED <<inner, fresh, stop>>

MonitorErr ==
    /\ mpc = "wait" /\ Received("failed")
    /\ mpc' = "top"
    /\ UNCHANGED <<inner, fresh, stop>>

MonitorTimeout ==
    /\ mpc = "wait" /\ TimedOut
    /\ mpc' = "give_up"
    /\ UNCHANGED <<inner, fresh, stop>>

MonitorGiveUp ==
    /\ mpc = "give_up" /\ GiveUp
    /\ mpc' = "top"
    /\ UNCHANGED <<inner, fresh, stop>>

\* The old stream is dropped by the assignment, whether or not anybody is
\* left to hear the new one.
MonitorInstall ==
    /\ mpc = "install"
    /\ inner' = fresh /\ phase' = Drop({inner})
    /\ fresh' = NoStream
    /\ mpc' = "top"
    /\ UNCHANGED <<worker, attempt, channel, stop>>

Backend(s) ==
    /\ Worker(s) \/ StreamDies(s) \/ ErrorCallback(s)
    /\ UNCHANGED <<inner, mpc, fresh, stop>>

Monitor == MonitorTop \/ MonitorLook \/ MonitorRefused \/ MonitorOpen \/ MonitorOk
           \/ MonitorErr \/ MonitorTimeout \/ MonitorGiveUp \/ MonitorInstall

Next == DropGuard \/ Monitor \/ \E s \in Streams : Backend(s)

\* The scheduler runs the monitor, and a worker once the backend has let it go;
\* cpal reports a dead stream.  The backend itself may hang for ever.
Fairness ==
    /\ WF_vars(Monitor)
    /\ \A s \in Streams :
        /\ WF_vars(WorkerSends(s) /\ UNCHANGED <<inner, mpc, fresh, stop>>)
        /\ WF_vars(ErrorCallback(s) /\ UNCHANGED <<inner, mpc, fresh, stop>>)

Safety == Init /\ [][Next]_vars
Spec == Safety /\ Fairness

-----------------------------------------------------------------------------
(* Properties. *)

MonitorPcs == {"top", "look", "open", "wait", "give_up", "install", "exited"}

\* Every variable has its type.
TypeOK ==
    /\ OpenTypeOK
    /\ inner \in Streams \cup {NoStream} /\ fresh \in Streams \cup {NoStream}
    /\ mpc \in MonitorPcs /\ stop \in BOOLEAN

\* A stream is replaced only after its error callback reported it: what the
\* monitor saw before its sleeps and the open still holds when it installs the
\* replacement, so no working stream is ever taken from the owner.
ReplacedOnlyWhenDown == [][inner' # inner => phase[inner] = "down" \/ stop]_vars

\* As long as a reported break is not repaired the monitor tries to reopen again
\* and again, however often that failed or hung before.
KeepsTrying ==
    inner # NoStream /\ phase[inner] = "down"
        ~> mpc = "open" \/ stop \/ phase[inner] # "down"

\* The guard is a reconnecting output: a break is always shown, and only a
\* fresh stream hides it again.
Link ==
    IF inner = NoStream THEN "closed"
    ELSE IF phase[inner] = "up" THEN "up" ELSE "broken"
Output == INSTANCE ReconnectingOutput WITH
    link <- Link,
    visible <- (inner # NoStream /\ phase[inner] = "down")
OutputSpec == Output!Spec
=============================================================================
