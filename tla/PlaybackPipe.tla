---------------------------- MODULE PlaybackPipe ----------------------------
(***************************************************************************)
(* What a PulseAudio playback stream of oxisound promises its caller, with *)
(* the reactor thread, the wakers and the round trips hidden: a bounded    *)
(* byte pipe from the caller to the server.  Accepted bytes leave in the   *)
(* order they came, each exactly once, either delivered to the server      *)
(* because the server asked for them or dropped because the caller asked   *)
(* for that; while the server has demand outstanding and bytes are queued, *)
(* a delivery eventually happens.                                          *)
(***************************************************************************)
EXTENDS Naturals

CONSTANTS Capacity   \* bytes the client-side ring holds

VARIABLES accepted,    \* bytes write() has accepted since the stream opened
          delivered,   \* bytes handed to the server
          dropped,     \* bytes thrown away by discard_buffered()
          demand,      \* bytes the server asked for and has not been given
          discarding,  \* a discard_buffered() has still to take effect
          open         \* the server side of the stream exists

pipeVars == <<accepted, delivered, dropped, demand, discarding, open>>

Queued == accepted - (delivered + dropped)

Init ==
    /\ accepted = 0 /\ delivered = 0 /\ dropped = 0
    /\ demand = 0
    /\ discarding = FALSE
    /\ open = TRUE

\* write(): all of the samples are queued or none of them is.
Accept == \E n \in 1 .. Capacity :
    /\ Queued + n <= Capacity
    /\ accepted' = accepted + n
    /\ UNCHANGED <<delivered, dropped, demand, discarding, open>>

\* The server's REQUEST.
Ask ==
    /\ open
    /\ demand' > demand
    /\ UNCHANGED <<accepted, delivered, dropped, discarding, open>>

\* The oldest n queued bytes go to the server, against its demand.
Deliver == \E n \in 1 .. Capacity :
    /\ open
    /\ n <= Queued /\ n <= demand
    /\ delivered' = delivered + n
    /\ demand' = demand - n
    /\ UNCHANGED <<accepted, dropped, discarding, open>>

\* A discard is requested, or the last pending one is found to have nothing to drop.
SetDiscarding ==
    /\ discarding' \in BOOLEAN
    /\ UNCHANGED <<accepted, delivered, dropped, demand, open>>

\* The oldest n queued bytes are dropped: only while a discard is pending.
Drop == \E n \in 1 .. Capacity :
    /\ open /\ discarding
    /\ n <= Queued
    /\ dropped' = dropped + n
    /\ discarding' \in BOOLEAN
    /\ UNCHANGED <<accepted, delivered, demand, open>>

\* The stream is deleted or the connection lost; nothing leaves the pipe any more.
Close ==
    /\ open
    /\ open' = FALSE
    /\ UNCHANGED <<accepted, delivered, dropped, demand, discarding>>

Next == Accept \/ Ask \/ Deliver \/ SetDiscarding \/ Drop \/ Close

Spec == Init /\ [][Next]_pipeVars /\ WF_pipeVars(Deliver)
=============================================================================
