------------------------------ MODULE CpalOpen -------------------------------
(***************************************************************************)
(* Opening a stream of a CpalDevice: what a call asks the device, in which *)
(* order, what it makes of the answers, and what it leaves behind when it  *)
(* fails half way.  The device may go away and come back between any two   *)
(* of the questions, and any question may fail while it is there.  The     *)
(* worker thread such a call runs on, and its timeout, are BoundedOpen's.  *)
(*                                                                         *)
(* A range is one entry of supported_output_configs() or                   *)
(* supported_input_configs(); seconds are counted in tenths.               *)
(***************************************************************************)
EXTENDS Integers, FiniteSetsExt, SequencesExt

CONSTANTS
    None,
    Devices,     \* [outs, ins: Seq(range), out, in: the default format of a side]
    Configs,     \* StreamConfig, with the capacity_secs of open_output_with_capacity()
    MaxUnplugs   \* bound: times the device goes away

VARIABLES
    device,
    attached,
    kind,        \* the call
    config,
    step,        \* what the call does next
    side,        \* the half of the stream it is at: "out" or "in"
    format,      \* the cpal format it is going to open this half with
    streams,     \* the cpal streams of the call that are alive
    attempt,     \* of open_output_with_retry()
    result,
    replaced,    \* history: the stream a reconnect is to replace, and how it was opened
    unplugs,
    away,        \* history: the device was away since the attempt began
    failed       \* history: <<step, error>> of a device that was there, since then

callVars == <<step, side, format, streams, attempt, result, away, failed>>
vars == <<device, attached, kind, config, callVars, replaced, unplugs>>

OutKinds == {"output", "capacity", "retry", "output_callback", "duplex", "duplex_callback"}
InKinds  == {"input", "async_input", "input_callback"}
Kinds    == OutKinds \cup InKinds
Callback == {"output_callback", "input_callback", "duplex_callback"}
\* The calls that open an output, then an input.
TwoSided == {"duplex", "duplex_callback"}
\* The calls that open a buffered output and nothing else.
Buffered == {"output", "capacity", "retry", "reconnect"}

\* The formats of the core.
CoreFormats == {"F32", "F64", "I16", "I32", "U8", "I24"}

\* What a device offers has channels; formats and configurations are what the core can hold.
OpenAssumption ==
    /\ None \notin Nat \cup CoreFormats \cup {"ok", "Disconnected", "UnsupportedConfig"}
    /\ \A d \in Devices :
          /\ d.outs \in Seq([channels : Nat \ {0}, low : Nat, high : Nat, format : STRING])
          /\ d.ins \in Seq([channels : Nat \ {0}, low : Nat, high : Nat, format : STRING])
    /\ \A c \in Configs :
          /\ c.rate \in Nat /\ c.channels \in Nat /\ c.secs \in Nat
          /\ c.preferred \in Seq(CoreFormats) /\ c.sample_format \in CoreFormats \cup {None}
          /\ c.capacity \in Nat \cup {None}

OrElse(v, other) == IF v = None THEN other ELSE v
Clamp(n, low, high) == Max({low, Min({n, high})})

-----------------------------------------------------------------------------
(* What the device says. *)

\* The ranges of a side; a device that is away has none to tell.
Ranges(s) == ToSet(IF s = "out" THEN device.outs ELSE device.ins)
Probed(s) == IF attached THEN Ranges(s) ELSE {}

Covers(r, c) == r.channels = c.channels /\ r.low <= c.rate /\ c.rate <= r.high

\* Mutant: a device that tells nothing supports nothing.
ValidNothing(c, ranges) ==
    /\ c.channels \in {r.channels : r \in ranges}
    /\ Min({r.low : r \in ranges}) <= c.rate
    /\ c.rate <= Max({r.high : r \in ranges})

\* StreamConfig::validate: the lists are flat, and an empty one passes.
Valid(c, ranges) ==
    ranges # {} => /\ c.channels \in {r.channels : r \in ranges}
                   /\ Min({r.low : r \in ranges}) <= c.rate
                   /\ c.rate <= Max({r.high : r \in ranges})

\* Mutant: a channel count and a rate of two different ranges.
SupportedApart(c, ranges) ==
    /\ \E r \in ranges : r.channels = c.channels
    /\ \E r \in ranges : r.low <= c.rate /\ c.rate <= r.high

\* is_config_supported_for_output, is_config_supported_for_input
Supported(c, ranges) == \E r \in ranges : Covers(r, c)

\* What each format of cpal becomes in the core.
ToCore(f) ==
    CASE f \in CoreFormats         -> f
      [] f \in {"I8", "U16"}       -> "I16"
      [] f \in {"U24", "U32"}      -> "I32"
      [] f \in {"I64", "U64"}      -> "F64"
      [] OTHER                     -> "F32"

\* Mutant: the first format the device lists.
PickFirst(preferred, fitting) ==
    IF fitting = {} THEN None ELSE ToCore(device.outs[Min(fitting)].format)

\* pick_preferred_format: the first preference that a fitting range offers, or else what the
\* first of the ranges offers; `fitting` are their places in the device's listing.
PickPreferred(preferred, fitting) ==
    LET offered == {ToCore(device.outs[i].format) : i \in fitting}
        wanted  == {j \in DOMAIN preferred : preferred[j] \in offered}
    IN  IF wanted # {} THEN preferred[Min(wanted)]
        ELSE IF fitting = {} THEN None ELSE ToCore(device.outs[Min(fitting)].format)

\* The way back, for a negotiated format: each has a format of its own in cpal.
ToCpal == [f \in CoreFormats |-> f]

\* negotiate_output: the format, ranked by preferred_formats and then by sample_format.
Negotiated(c) ==
    LET fitting == {i \in DOMAIN device.outs : Covers(device.outs[i], c)}
        hint    == IF c.sample_format = None THEN <<>> ELSE <<c.sample_format>>
    IN  IF attached THEN PickPreferred(c.preferred \o hint, fitting) ELSE None

\* The sample formats a call has a stream for; a 24-bit one is built with 32-bit samples.
Typed ==
    CASE kind \in Buffered \cup {"input"} -> {"F32", "I16", "U16", "I8", "I32", "I24", "F64", "U8"}
      [] kind = "duplex"                  -> {"F32", "I16", "I32", "I24", "F64"}
      [] kind = "async_input"             -> {"F32", "I16", "I32", "I24"}
      [] kind \in Callback                -> {"F32"}
BuiltAs(f) == IF f = "I24" THEN "I32" ELSE f

-----------------------------------------------------------------------------
(* The ring of a stream. *)

\* Mutant: a stream reopened with the default capacity.
TenthsDefault == IF kind = "capacity" THEN Clamp(config.secs, 1, 300)
                 ELSE IF kind = "reconnect" THEN 20 ELSE OrElse(config.capacity, 20)

\* Only a capacity given to open_output_with_capacity(), and that of a reconnect, is clamped.
Tenths ==
    CASE kind = "capacity"  -> Clamp(config.secs, 1, 300)
      [] kind = "reconnect" -> Clamp(OrElse(config.capacity, 20), 1, 300)
      [] OTHER              -> OrElse(config.capacity, 20)

\* Mutant: the samples of an output ring are worked out like those of an input ring.
CapacityInSamples == (Tenths * config.rate * config.channels) \div 10

\* Whole frames for a buffered output; a number of samples for the others.
RingSamples ==
    IF kind \in Callback \cup {"async_input"} THEN 0
    ELSE IF kind \in Buffered THEN ((Tenths * config.rate) \div 10) * config.channels
    ELSE (Tenths * config.rate * config.channels) \div 10

-----------------------------------------------------------------------------
(* Errors. *)

\* What a question or a stream fails with, the kinds without a case of their own as
\* one; a device that is away is not available.
Errors == {"DeviceNotAvailable", "StreamInvalidated", "PermissionDenied", "InvalidInput",
           "UnsupportedConfig", "UnsupportedOperation", "Xrun", "BackendError"}
Failures == IF attached THEN Errors ELSE {"DeviceNotAvailable"}

\* map_cpal_err, with the fallback of the operation that failed.
MapCpalErr(e, fallback) ==
    CASE e \in {"DeviceNotAvailable", "StreamInvalidated"} -> "Disconnected"
      [] e = "PermissionDenied"                            -> "PermissionDenied"
      [] e \in {"InvalidInput", "UnsupportedConfig"}       -> "UnsupportedConfig"
      [] e = "UnsupportedOperation"                        -> "Unsupported"
      [] e = "Xrun"                                        -> "Underrun"
      [] OTHER                                             -> fallback

-----------------------------------------------------------------------------
FirstStep(k) == IF k \in Callback THEN "default" ELSE "validate"

Init ==
    /\ device \in Devices /\ attached \in BOOLEAN /\ config \in Configs /\ kind \in Kinds
    /\ step = FirstStep(kind) /\ side = (IF kind \in InKinds THEN "in" ELSE "out")
    /\ format = None /\ streams = {} /\ attempt = 1 /\ result = None
    /\ replaced = None /\ unplugs = 0 /\ away = ~attached /\ failed = {}

Rest == <<device, attached, kind, config, replaced, unplugs>>

\* Mutant: what the call has opened goes on playing.
FailLeaking(error, why) ==
    /\ IF kind = "retry" /\ attempt < 5
       THEN /\ attempt' = attempt + 1 /\ step' = "validate" /\ result' = result
            /\ away' = ~attached /\ failed' = {}
       ELSE step' = "done" /\ result' = error /\ failed' = why /\ UNCHANGED <<attempt, away>>
    /\ format' = None
    /\ UNCHANGED <<side, streams, Rest>>

\* An error returns from the call and drops what it has opened; open_output_with_retry()
\* begins anew after a delay, four times.
Fail(error, why) ==
    /\ IF kind = "retry" /\ attempt < 5
       THEN /\ attempt' = attempt + 1 /\ step' = "validate" /\ result' = result
            /\ away' = ~attached /\ failed' = {}
       ELSE step' = "done" /\ result' = error /\ failed' = why /\ UNCHANGED <<attempt, away>>
    /\ format' = None /\ streams' = {}
    /\ UNCHANGED <<side, Rest>>

\* What has failed once the step under way fails with e.
Also(e) == failed \cup {x \in {<<step, e>>} : attached}

\* The backend fails the question or the stream at hand.
BackendFails(fallback) == \E e \in Failures : Fail(MapCpalErr(e, fallback), Also(e))

Continue(next) ==
    /\ step' = next
    /\ UNCHANGED <<side, streams, attempt, result, away, Rest>>

\* collect_config_ranges() and validate(); ranges the device cannot tell are none.
Validate ==
    /\ step = "validate"
    /\ \E ranges \in {Probed(side), {}} :
          IF Valid(config, ranges) THEN Continue("default") /\ UNCHANGED <<format, failed>>
          ELSE Fail("UnsupportedConfig", failed)

\* default_output_config() or default_input_config(), for its format; to_cpal_stream_config()
\* takes the rate and the channels of the caller.
AskDefault ==
    /\ step = "default" /\ attached
    /\ format' = IF kind \in Callback THEN "F32"
                 ELSE IF side = "out" THEN device.out ELSE device.in
    /\ Continue("support") /\ UNCHANGED failed
AskDefaultFails == step = "default" /\ BackendFails("UnsupportedConfig")

\* is_config_supported_for_output() or is_config_supported_for_input().
CheckSupport ==
    /\ step = "support" /\ attached
    /\ IF Supported(config, Ranges(side))
       THEN /\ Continue(IF kind \in Buffered /\ config.preferred # <<>> THEN "negotiate" ELSE "build")
            /\ UNCHANGED <<format, failed>>
       ELSE Fail("UnsupportedConfig", failed)
CheckSupportFails == step = "support" /\ BackendFails("Device")

\* negotiate_output() failed, for whatever reason.
Unheard == <<"negotiate", "BackendError">>

\* negotiate_output(); the default format where it fails.
Negotiate ==
    /\ step = "negotiate" /\ attached
    /\ format' = IF Negotiated(config) = None THEN format ELSE ToCpal[Negotiated(config)]
    /\ Continue("build") /\ UNCHANGED failed
NegotiateFails ==
    /\ step = "negotiate" /\ failed' = Also("BackendError")
    /\ Continue("build") /\ UNCHANGED format

\* build_output_stream() or build_input_stream(), with the type of the samples.
Build ==
    /\ step = "build" /\ attached /\ format \in Typed
    /\ streams' = streams \cup
          {[side |-> side, format |-> BuiltAs(format), state |-> "built", capacity |-> RingSamples]}
    /\ step' = "play"
    /\ UNCHANGED <<side, format, attempt, result, away, failed, Rest>>

\* There is no type for the format, or the backend refuses.
BuildFails ==
    /\ step = "build"
    /\ IF format \notin Typed THEN Fail("UnsupportedConfig", failed) ELSE BackendFails("Stream")

\* play(); the input half of a duplex stream comes after the output half plays, and that
\* of duplex_callback() is a call of its own.
Play ==
    /\ step = "play" /\ attached
    /\ streams' = {IF s.side = side THEN [s EXCEPT !.state = "playing"] ELSE s : s \in streams}
    /\ IF kind \in TwoSided /\ side = "out"
       THEN side' = "in" /\ step' = "default" /\ UNCHANGED result
       ELSE step' = "done" /\ result' = "ok" /\ UNCHANGED side
    /\ format' = None
    /\ UNCHANGED <<attempt, away, failed, Rest>>

PlayFails == step = "play" /\ BackendFails("Stream")

\* The recovery thread opens a stream of the same configuration for the one that was lost.
Reconnect ==
    /\ step = "done" /\ result = "ok" /\ kind \in Buffered \ {"reconnect"}
    /\ replaced' = [kind |-> kind, capacity |-> (CHOOSE s \in streams : TRUE).capacity]
    /\ kind' = "reconnect" /\ step' = "validate" /\ result' = None /\ streams' = {}
    /\ away' = ~attached /\ failed' = {}
    /\ UNCHANGED <<device, attached, config, side, format, attempt, unplugs>>

\* The device goes away, and comes back.
Unplug ==
    /\ attached /\ unplugs < MaxUnplugs
    /\ attached' = FALSE /\ unplugs' = unplugs + 1 /\ away' = TRUE
    /\ UNCHANGED <<device, kind, config, step, side, format, streams, attempt, result, replaced,
                   failed>>
Plug ==
    /\ ~attached /\ attached' = TRUE
    /\ UNCHANGED <<device, kind, config, callVars, replaced, unplugs>>

Next ==
    \/ Validate \/ AskDefault \/ AskDefaultFails \/ CheckSupport \/ CheckSupportFails
    \/ Negotiate \/ NegotiateFails
    \/ Build \/ BuildFails \/ Play \/ PlayFails
    \/ Reconnect \/ Unplug \/ Plug

Spec == Init /\ [][Next]_vars

-----------------------------------------------------------------------------
(* Properties. *)

\* A call that returns an error leaves no stream behind, not the half of a duplex stream
\* that was playing while the other was looked into, nor one of an earlier attempt; one
\* that returns a stream returns every half of it, playing.
EveryHalfOrNone ==
    step = "done" =>
        IF result # "ok" THEN streams = {}
        ELSE /\ {s.side : s \in streams} = (IF kind \in TwoSided THEN {"out", "in"} ELSE {side})
             /\ \A s \in streams : s.state = "playing"
             /\ \A s, t \in streams : s.side = t.side => s = t

\* The device, there, failed a question or a stream with an error of one of these kinds.
Failed(errors) == \E x \in failed : x[2] \in errors

\* The error says what went wrong, whenever the device went or came back meanwhile.  A call
\* says "disconnected" only of a device that was away since it began, or that says so
\* itself; and that the configuration is unsupported only where the device, not its
\* absence, stands against it: no range of a side fits, there is no stream for one of its
\* formats, or it refused a question or a stream for that reason -- or it failed to tell
\* its default format for a reason that has no error of its own.
ErrorsTellCause ==
    /\ result = "Disconnected" =>
          away \/ Failed({"DeviceNotAvailable", "StreamInvalidated"})
    /\ result = "UnsupportedConfig" =>
          \/ \E s \in IF kind \in TwoSided THEN {"out", "in"} ELSE {side} :
                \/ ~Supported(config, Ranges(s))
                \/ \E f \in {r.format : r \in Ranges(s)} \cup {device.out, device.in} : f \notin Typed
          \/ Failed({"InvalidInput", "UnsupportedConfig"})
          \/ <<"default", "BackendError">> \in failed

\* A call ends with the whole stream, or with none and the reason.
AllOrNothing == EveryHalfOrNone /\ ErrorsTellCause

\* The formats that have a name of their own in the core, and samples of their own.
Exact == CoreFormats \ {"I24"}

\* Whatever the questions asked and the device did in between, each half is opened with
\* the channels and the rate of one range of its own side; and an output with preferences,
\* on a device that was there, told its formats and has only those the core can name, in
\* the first format of the preferences the device offers there, and in one it offers in
\* any case.
StreamsAreOffered ==
    \A s \in streams :
        LET there    == {r \in Ranges(s.side) : Covers(r, config)}
            formats  == {r.format : r \in there}
            liked    == {i \in DOMAIN config.preferred : config.preferred[i] \in formats}
        IN  /\ there # {}
            /\ (kind \in Buffered /\ config.preferred # <<>> /\ ~away /\ Unheard \notin failed
                /\ formats \subseteq Exact) =>
                  /\ s.format \in formats
                  /\ liked # {} => s.format = config.preferred[Min(liked)]

\* The ring of a buffered output holds whole frames, so that a full one drops none in the
\* middle; that of another stream does when its seconds are a whole number of frames.
RingsHoldWholeFrames ==
    \A s \in streams :
        (kind \in Buffered \/ (Tenths * config.rate) % 10 = 0) => s.capacity % config.channels = 0

\* A stream opened again has the ring of the one it replaces, if that was opened with the
\* capacity of its configuration, and that within the clamps of a reconnect.
ReopenedRingMatches ==
    (kind = "reconnect" /\ replaced.kind # "capacity" /\ OrElse(config.capacity, 20) \in 1 .. 300)
        => \A s \in streams : s.capacity = replaced.capacity

\* What is opened is what was asked for and the device offers, with a ring to match.
OpensAsAsked == StreamsAreOffered /\ RingsHoldWholeFrames /\ ReopenedRingMatches
=============================================================================
