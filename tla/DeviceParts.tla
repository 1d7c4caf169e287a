----------------------------- MODULE DeviceParts -----------------------------
(***************************************************************************)
(* DeviceWatcher, CpalDevices, CpalOpen, Session and MonitorStream in one  *)
(* specification: what an application does around the devices of a         *)
(* machine.  They share nothing: a behaviour is one of them, and the       *)
(* others stand still.                                                     *)
(***************************************************************************)
EXTENDS DeviceWatcher

CONSTANTS
    None,
    Models, Configs, MaxUnplugs,                             \* of CpalOpen
    Catalogue, Containing, Monitor, Platforms, MaxComings,   \* of CpalDevices
    Callers, Categories, Builds, MaxRequests,                \* of Session
    MaxFrames                                                \* of MonitorStream

VARIABLES
    part,
    device, attached, kind, config, step, side, format, streams, attempt, result, replaced,
    unplugs, away, failed,
    platform, host, default, mode, scan, marked, listing, wanted, index, opened, tag, api,
    comings, steady,
    build, permission, category, lock, at, asked, requests, answer,
    stopped, monitor, frames, sampled, shown, late

openVars    == <<device, attached, kind, config, step, side, format, streams, attempt, result,
                 replaced, unplugs, away, failed>>
listVars    == <<platform, host, default, mode, scan, marked, listing, wanted, index, opened, tag,
                 api, comings, steady>>
sessionVars == <<build, permission, category, lock, at, asked, requests, answer>>
monitorVars == <<stopped, monitor, frames, sampled, shown, late>>

Opening    == INSTANCE CpalOpen WITH Devices <- Models
Choosing   == INSTANCE CpalDevices WITH MaxChanges <- MaxComings, changes <- comings, asked <- api
Access     == INSTANCE Session
Monitoring == INSTANCE MonitorStream WITH stop <- stopped, thread <- monitor, told <- shown

ASSUME OpeningAssumption == Opening!OpenAssumption
ASSUME ChoosingAssumption == Choosing!DevicesAssumption

-----------------------------------------------------------------------------
PartsInit ==
    /\ part \in {"watch", "open", "choose", "session", "monitor"}
    /\ Init /\ Opening!Init /\ Choosing!Init /\ Access!Init /\ Monitoring!Init

PartsNext ==
    \/ part = "watch"   /\ Next            /\ UNCHANGED <<part, openVars, listVars, sessionVars, monitorVars>>
    \/ part = "open"    /\ Opening!Next    /\ UNCHANGED <<part, vars, listVars, sessionVars, monitorVars>>
    \/ part = "choose"  /\ Choosing!Next   /\ UNCHANGED <<part, vars, openVars, sessionVars, monitorVars>>
    \/ part = "session" /\ Access!Next     /\ UNCHANGED <<part, vars, openVars, listVars, monitorVars>>
    \/ part = "monitor" /\ Monitoring!Next /\ UNCHANGED <<part, vars, openVars, listVars, sessionVars>>

partsVars == <<part, vars, openVars, listVars, sessionVars, monitorVars>>

PartsSpec == PartsInit /\ [][PartsNext]_partsVars

-----------------------------------------------------------------------------
\* CpalOpen's: an error leaves no stream and says why, a success leaves every half of one.
AllOrNothing == Opening!AllOrNothing
\* CpalOpen's: what is opened is what was asked for and the device offers, with a ring to match.
OpensAsAsked == Opening!OpensAsAsked
\* CpalDevices': an index, a name or a tag opens what it was the index, name or tag of.
OpensNamed == Choosing!OpensNamed
\* Session's: the permission told is the user's decision.
AnswerIsTheUsers == Access!AnswerIsTheUsers
\* MonitorStream's: at most one callback after the guard is dropped.
AtMostOnceMore == Monitoring!AtMostOnceMore
==============================================================================
