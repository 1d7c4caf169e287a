---------------------------- MODULE ProtocolParts ----------------------------
(***************************************************************************)
(* MidiPorts, JackMidi, JackAudio and JackWiring in one specification:     *)
(* messages and samples from one port to another.  They share nothing but  *)
(* the feature the JACK crate is built with: a behaviour is one of them,   *)
(* and the others stand still.                                             *)
(***************************************************************************)
EXTENDS MidiPorts, JackWiring

CONSTANTS
    Parts,                                                              \* those a behaviour may be of
    CableMessages, Foreign, EntryMax, RingSize, MaxSends, MaxForeign,   \* of JackMidi
    SampleRate, BlockSizes, WriteSizes, ReadSizes, SystemPorts,         \* of JackAudio
    MaxSamples, MaxFrames, MaxXruns

VARIABLES
    part,
    unsent, sendRing, wire, receiveRing, buffer, regular, complete, sending, accepted, lost, mixed,
    calls, foreigners,
    outlet, inlet, playRing, recordRing, samples, want, phase, toMove, port, frames,
    underruns, overruns, metrics, leads, next, roomy, missed, heard, unheard

cableVars == <<unsent, sendRing, wire, receiveRing, buffer, regular, complete, sending, accepted,
               lost, mixed, calls, foreigners>>
audioVars == <<outlet, inlet, playRing, recordRing, samples, want, phase, toMove, port, frames,
               underruns, overruns, metrics, leads, next, roomy, missed, heard, unheard>>
plugVars  == <<stage, name, wires, wired>>

Cable == INSTANCE JackMidi WITH
    todo <- unsent, outRing <- sendRing, inRing <- receiveRing, sends <- calls,
    Messages <- CableMessages

Audio == INSTANCE JackAudio WITH
    output <- outlet, input <- inlet, outRing <- playRing, inRing <- recordRing, todo <- samples,
    left <- toMove, wires <- leads

ASSUME PortsAssumption == Audio!AudioAssumption
ASSUME CablesAssumption == Cable!CableAssumption

-----------------------------------------------------------------------------
PartsInit == part \in Parts /\ MidiInit /\ WiringInit /\ Cable!Init /\ Audio!Init

PartsNext ==
    \/ part = "midi"   /\ MidiNext   /\ UNCHANGED <<part, backend, cableVars, audioVars, plugVars>>
    \/ part = "cable"  /\ Cable!Next /\ UNCHANGED <<part, backend, midiVars, audioVars, plugVars>>
    \/ part = "audio"  /\ Audio!Next /\ UNCHANGED <<part, midiVars, cableVars, plugVars>>
    \/ part = "wiring" /\ WiringNext /\ UNCHANGED <<part, midiVars, cableVars, audioVars>>

partsVars == <<part, backend, midiVars, cableVars, audioVars, plugVars>>

PartsSpec == PartsInit /\ [][PartsNext]_partsVars

-----------------------------------------------------------------------------
\* JackMidi's: with nothing dropped on the way and no other client's event within a message, what
\* comes out was accepted by send_raw(), whole and in order.
NothingInvented == Cable!NothingInvented
\* JackMidi's: a SysEx message whose entries all arrived comes out, whatever was lost before it.
WholeSysExIsReturned == Cable!WholeSysExIsReturned
\* JackAudio's: what is heard is what was written, what was captured was read, is queued or counted.
AudioIsAccounted == Audio!AudioIsAccounted
==============================================================================
