---------------------------- MODULE MCLifecycles -----------------------------
(***************************************************************************)
(* The instance of LifecycleParts TLC checks: opens that hang, fail or     *)
(* answer too late, and what is released after them.                       *)
(*                                                                         *)
(* Recovery and guard: the first stream, a replacement and one more, so    *)
(* that an open can hang or fail while another stream is current; a        *)
(* one-sample ring, so that a write can find it full.  Connection: two     *)
(* calls that connect, six environments, a server with a usable sink and   *)
(* source, a source with a format there is no conversion for, a            *)
(* placeholder sink and a card that is off; configurations at the edges of *)
(* what validation, format negotiation and the ring's size tell apart.     *)
(***************************************************************************)
EXTENDS LifecycleParts

Entry(brace, scheme) == [brace |-> brace, scheme |-> scheme, path |-> "/tmp/named"]
Local == "$XDG_RUNTIME_DIR/pulse/native"

Env(named, existing) ==
    [linux |-> TRUE, server |-> named, existing |-> existing, uid |-> TRUE,
     auth |-> named # None,
     vars |-> {"PULSE_RUNTIME_PATH", "XDG_RUNTIME_DIR", "HOME"}]

MCEnvironments ==
    {Env(None, {Local}), [Env(None, {Local}) EXCEPT !.linux = FALSE], Env(None, {}),
     Env(<<>>, {Local}),
     Env(<<Entry("none", "tcp")>>, {Local}),
     Env(<<Entry("open", "unix"), Entry("closed", "unix")>>, {"$HOME/.pulse-cookie"})}

Endpoint(name, role, channels, rate, wire) ==
    [name |-> name, role |-> role, channels |-> channels, mapped |-> channels,
     rate |-> rate, wire |-> wire, monitor |-> FALSE]

MCEndpoints ==
    {Endpoint("speakers", "sink", 2, 44100, "s24le"),
     Endpoint("auto_null", "sink", 0, 48000, "s16le"),
     Endpoint("card_off", "source", 2, 0, "s16be"),
     Endpoint("microphone", "source", 1, 48000, "alaw")}

PulseConfig(rate, channels, hint, preferred, period, ms) ==
    [sample_rate |-> rate, channels |-> channels, sample_format |-> hint,
     preferred_formats |-> preferred, buffer_size |-> period, capacity_ms |-> ms]

MCConfigs ==
    {PulseConfig(44100, 2, None, <<>>, None, 0),
     PulseConfig(768000, 32, None, <<"f64", "i16">>, 65537, 1),
     PulseConfig(8000, 9, "u8", <<"f64">>, 1, 2000),
     PulseConfig(48000, 33, None, <<>>, None, 0),
     PulseConfig(48000, 2, "f64", <<"i16">>, 256, 0)}

MCDefaults == [sink |-> "speakers", source |-> "microphone"]

-----------------------------------------------------------------------------
\* A part that stands still has one initial state.
LifecyclesInit == PartsInit /\ (part = "connection" \/ env = Env(None, {}))

\* The fairness each component states, of its part.
LifecyclesFairness ==
    /\ WF_vars(part = "recovery" /\ Monitor)
    /\ SF_vars(part = "recovery" /\ Write) /\ WF_vars(part = "recovery" /\ FlushFlag)
    /\ SF_vars(part = "recovery" /\ FlushRing)
    /\ WF_vars(part = "recovery" /\ (FlushAgain \/ FlushTimeout))
    /\ SF_vars(part = "recovery" /\ FlushTimeout) /\ WF_vars(part = "recovery" /\ Join)
    /\ \A s \in Streams :
        /\ WF_vars(part = "recovery" /\ WorkerStep(s) /\ worker[s] # "opening")
        /\ WF_vars(part = "recovery" /\ ReportError(s))
    /\ WF_guardVars(part = "guard" /\ Guard!Monitor)
    /\ \A s \in Streams :
        /\ WF_guardVars(part = "guard" /\ Guard!WorkerSends(s)
                        /\ UNCHANGED <<inner, monitor, replacement, dropped>>)
        /\ WF_guardVars(part = "guard" /\ Guard!ErrorCallback(s)
                        /\ UNCHANGED <<inner, monitor, replacement, dropped>>)
    /\ \A c \in 1 .. MaxConns :
        /\ WF_pulseVars(part = "connection" /\ Connecting!SendResult(c))
        /\ WF_pulseVars(part = "connection" /\ Connecting!Shutdown(c))

LifecyclesSpec ==
    /\ LifecyclesInit /\ [][PartsNext]_partsVars /\ LifecyclesFairness
==============================================================================
