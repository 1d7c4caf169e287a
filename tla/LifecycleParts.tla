--------------------------- MODULE LifecycleParts ---------------------------
(***************************************************************************)
(* CpalRecovery, AutoReconnect and PulseConnection in one specification:   *)
(* what opens, breaks, is replaced and is released.  They share nothing: a *)
(* behaviour is one of them, and the others stand still.                   *)
(***************************************************************************)
EXTENDS CpalRecovery

CONSTANTS
    Parts,                                                    \* those a behaviour may be of
    None, MaxConns, MaxLate, Environments, Endpoints, Defaults, Configs   \* of PulseConnection

VARIABLES
    part,
    guarded, opener, opening, result, inner, monitor, replacement, dropped,
    env, made, connector, chan, arcs, shut, reactor, server, deletes, late, call, device, handles, listed

recoveryVars == <<phase, worker, attempt, channel, disconnected, ring, slot, installed, fresh, mpc,
                  pc, hasStream, hasHandle, stop, paused, wantPaused>>
guardVars == <<guarded, opener, opening, result, inner, monitor, replacement, dropped>>
pulseVars == <<env, made, connector, chan, arcs, shut, reactor, server, deletes, late, call,
               device, handles, listed>>

Guard == INSTANCE AutoReconnect WITH
    phase <- guarded, worker <- opener, attempt <- opening, channel <- result,
    mpc <- monitor, fresh <- replacement, stop <- dropped

Connecting == INSTANCE PulseConnection WITH worker <- connector

ASSUME ConnectingAssumption == Connecting!ConnectionAssumption

-----------------------------------------------------------------------------
PartsInit == part \in Parts /\ Init /\ Guard!Init /\ Connecting!Init

PartsNext ==
    \/ part = "recovery"   /\ Next            /\ UNCHANGED <<part, guardVars, pulseVars>>
    \/ part = "guard"      /\ Guard!Next      /\ UNCHANGED <<part, recoveryVars, pulseVars>>
    \/ part = "connection" /\ Connecting!Next /\ UNCHANGED <<part, recoveryVars, guardVars>>

partsVars == <<part, recoveryVars, guardVars, pulseVars>>

PartsSpec == PartsInit /\ [][PartsNext]_partsVars

-----------------------------------------------------------------------------
\* AutoReconnect's: a reported break is worked on until it is repaired.
KeepsTrying == Guard!KeepsTrying
\* AutoReconnect's: the guard implements the output that reconnects.
OutputSpec == Guard!OutputSpec
\* PulseConnection's: servers, devices and streams are what was named, listed and predicted.
OpensAsAnnounced == Connecting!OpensAsAnnounced
\* PulseConnection's: a connection nobody reaches is shut down.
NoConnectionLeaks == Connecting!NoConnectionLeaks
\* PulseConnection's: the server keeps no stream without a handle.
NoStrayStream == Connecting!NoStrayStream
==============================================================================
