-------------------------- MODULE PulseNegotiation --------------------------
(***************************************************************************)
(* What oxisound-pulse computes before it talks to a server: which socket  *)
(* to connect to, which wire format, period, buffer attributes and ring a  *)
(* stream gets, and how the server's endpoints read as devices.            *)
(*                                                                         *)
(* A StreamConfig is a record [sample_rate, channels, sample_format,       *)
(* preferred_formats, buffer_size, capacity_ms].  The capacity is in       *)
(* thousandths of a second; one that is absent or not finite is 0, which   *)
(* the code treats alike.                                                  *)
(***************************************************************************)
EXTENDS Integers, Sequences

CONSTANT None    \* Rust's None, and the error of what returns a Result

Greatest(a, b) == IF a >= b THEN a ELSE b
Smallest(a, b) == IF a <= b THEN a ELSE b
CeilDiv(a, b)  == (a + b - 1) \div b

-----------------------------------------------------------------------------
(* Wire formats. *)

CoreFormats == {"u8", "i16", "i24", "i32", "f32", "f64"}
WireFormats == {"u8", "s16le", "s24le", "s32le", "float32le"}

BytesPerSample(f) ==
    CASE f = "u8" -> 1
      [] f = "s16le" -> 2
      [] f = "s24le" -> 3
      [] f \in {"s32le", "float32le"} -> 4

ToCore == [u8 |-> "u8", s16le |-> "i16", s24le |-> "i24", s32le |-> "i32",
           float32le |-> "f32"]

\* f64 has no wire encoding.
FromCore == [u8 |-> "u8", i16 |-> "s16le", i24 |-> "s24le", i32 |-> "s32le",
             f32 |-> "float32le", f64 |-> None]

FrameSize(f, channels) == BytesPerSample(f) * Greatest(channels, 1)

\* A preferred format the protocol can carry, the first one.
FirstRepresentable(preferred) ==
    LET ok == {i \in DOMAIN preferred : FromCore[preferred[i]] # None} IN
    IF ok = {} THEN None
    ELSE FromCore[preferred[CHOOSE i \in ok : \A j \in ok : i <= j]]

\* None is the error FormatMismatch: an explicit format is never substituted.
NegotiateFormat(requested, preferred, native) ==
    IF requested # None THEN FromCore[requested]
    ELSE IF FirstRepresentable(preferred) # None THEN FirstRepresentable(preferred)
    ELSE IF native # None THEN native ELSE "float32le"

-----------------------------------------------------------------------------
(* Periods, buffer attributes and the ring. *)

DefaultPeriodFrames   == 1024
MinPeriodFrames       == 32
MaxPeriodFrames       == 65536
PlaybackTargetPeriods == 4
PlaybackMaxPeriods    == 8
DefaultCapacityMs     == 2000
MaxChannels           == 32
MaxSampleRate         == 768000

PeriodFrames(config) ==
    LET asked == IF config.buffer_size = None THEN DefaultPeriodFrames
                 ELSE config.buffer_size
    IN  Greatest(MinPeriodFrames, Smallest(asked, MaxPeriodFrames))

\* The code's u32 products saturate; with the period and the channels clamped
\* they stay below 2^27, so the plain product is the same.
PeriodBytes(period, channels, f) ==
    Greatest(period * FrameSize(f, channels), FrameSize(f, channels))

\* A field set to None is u32::MAX on the wire: the server picks it.

PlaybackBufferAttrs(period, channels, f) ==
    LET bytes == PeriodBytes(period, channels, f) IN
    [max_length |-> bytes * PlaybackMaxPeriods,
     target_length |-> bytes * PlaybackTargetPeriods,
     pre_buffering |-> bytes, minimum_request_length |-> bytes,
     fragment_size |-> None]

RecordBufferAttrs(period, channels, f) ==
    LET bytes == PeriodBytes(period, channels, f) IN
    [max_length |-> bytes * PlaybackMaxPeriods,
     target_length |-> None, pre_buffering |-> None,
     minimum_request_length |-> None, fragment_size |-> bytes]

\* Mutant: the floor of the ring is one period.
RingCapacityOnePeriod(config, f) ==
    LET ms == IF config.capacity_ms > 0 THEN config.capacity_ms ELSE DefaultCapacityMs
        frames == CeilDiv(config.sample_rate * ms, 1000)
    IN  Greatest(frames, PeriodFrames(config)) * FrameSize(f, config.channels)

\* At least the largest buffer the server may hold, in whole frames.
RingCapacityBytes(config, f) ==
    LET ms == IF config.capacity_ms > 0 THEN config.capacity_ms ELSE DefaultCapacityMs
        frames == CeilDiv(config.sample_rate * ms, 1000)
        floor == PeriodFrames(config) * PlaybackMaxPeriods
    IN  Greatest(frames, floor) * FrameSize(f, config.channels)

ValidateStreamConfig(config) ==
    /\ config.channels \in 1 .. MaxChannels
    /\ config.sample_rate \in 1 .. MaxSampleRate

\* None is FormatMismatch.
PredictNegotiated(config, native) ==
    LET f == NegotiateFormat(config.sample_format, config.preferred_formats, native) IN
    IF f = None THEN None
    ELSE [sample_rate |-> config.sample_rate, channels |-> config.channels,
          buffer_size |-> PeriodFrames(config), sample_format |-> ToCore[f]]

\* negotiate_output() of a device.
NegotiateOutput(config, native) ==
    IF ValidateStreamConfig(config) THEN PredictNegotiated(config, native) ELSE None

\* The speaker positions of a stream: mono, or the surround order (it starts
\* with left and right, so stereo is its first two) and auxiliary positions.
SurroundPositions == 8
ChannelMapFor(channels) ==
    IF channels <= 1 THEN <<<<"mono", 1>>>>
    ELSE [i \in 1 .. Smallest(channels, MaxChannels) |->
             IF i <= SurroundPositions THEN <<"surround", i>>
             ELSE <<"aux", Smallest(i - SurroundPositions, 24)>>]

-----------------------------------------------------------------------------
(* Endpoints and devices.  An endpoint is what the server reports: a record *)
(* [name, role, rate, channels, mapped, wire, monitor]; channels = 0 means  *)
(* the sample spec has none, mapped is the size of its channel map.         *)

\* A-law, mu-law, big-endian and packed formats have no conversion here.
MapWireFormat(wire) == IF wire \in WireFormats THEN wire ELSE None

ChannelsOf(endpoint) == IF endpoint.channels > 0 THEN endpoint.channels ELSE endpoint.mapped

\* sink_descriptor and source_descriptor.
Descriptor(endpoint, default) ==
    [name |-> endpoint.name, role |-> endpoint.role,
     is_monitor |-> endpoint.role = "source" /\ endpoint.monitor,
     sample_rate |-> endpoint.rate, channels |-> ChannelsOf(endpoint),
     format |-> MapWireFormat(endpoint.wire), is_default |-> endpoint.name = default]

Degenerate(descriptor) == descriptor.channels = 0 \/ descriptor.sample_rate = 0

\* Mutant: only an endpoint without channels is left out.
ToDeviceInfoAnyRate(descriptor) ==
    IF descriptor.channels = 0 THEN None
    ELSE [name |-> descriptor.name,
          sample_rates |-> {descriptor.sample_rate},
          channel_counts |-> {descriptor.channels},
          formats |-> {ToCore[f] : f \in {descriptor.format} \ {None}},
          is_output |-> descriptor.role = "sink", is_input |-> descriptor.role = "source",
          is_default |-> descriptor.is_default]

\* None for an endpoint nothing can be opened on.
ToDeviceInfo(descriptor) ==
    IF Degenerate(descriptor) THEN None
    ELSE [name |-> descriptor.name,
          sample_rates |-> {descriptor.sample_rate},
          channel_counts |-> {descriptor.channels},
          formats |-> {ToCore[f] : f \in {descriptor.format} \ {None}},
          is_output |-> descriptor.role = "sink", is_input |-> descriptor.role = "source",
          is_default |-> descriptor.is_default]

MapDescriptors(descriptors) == {ToDeviceInfo(d) : d \in descriptors} \ {None}

-----------------------------------------------------------------------------
(* The server's socket.  An environment is a record [linux, server,         *)
(* existing, vars, uid, auth]: the system, $PULSE_SERVER as a sequence of   *)
(* entries or None, the paths that exist, the other variables that are set  *)
(* and not empty, whether /proc tells the user id, whether the server asks  *)
(* for a cookie.  An entry is a record [brace, scheme, path].               *)

\* The path of an entry that names a unix socket, with its {machine-id} closed.
UnixPathFromServerEntry(entry) ==
    IF entry.brace # "open" /\ entry.scheme = "unix" THEN entry.path ELSE None

FirstExisting(candidates, existing) ==
    LET found == {i \in DOMAIN candidates : candidates[i] \in existing} IN
    IF found = {} THEN None ELSE candidates[CHOOSE i \in found : \A j \in found : i <= j]

SocketCandidates(env) ==
    (IF "PULSE_RUNTIME_PATH" \in env.vars
     THEN <<"$PULSE_RUNTIME_PATH/native", "$PULSE_RUNTIME_PATH/pulse/native">> ELSE <<>>)
    \o (IF "XDG_RUNTIME_DIR" \in env.vars THEN <<"$XDG_RUNTIME_DIR/pulse/native">> ELSE <<>>)
    \o (IF env.uid THEN <<"/run/user/uid/pulse/native">> ELSE <<>>)

\* Mutant: a PULSE_SERVER without a unix socket is passed over.
ResolveServerSocketLenient(env) ==
    LET entries == IF env.server = None THEN <<>> ELSE env.server
        unix == {i \in DOMAIN entries : UnixPathFromServerEntry(entries[i]) # None}
        first == FirstExisting(SocketCandidates(env), env.existing)
    IN  IF unix # {}
        THEN UnixPathFromServerEntry(entries[CHOOSE i \in unix : \A j \in unix : i <= j])
        ELSE IF first # None THEN first ELSE "no socket"

\* A path, or the error "unsupported" (only remote servers named) or "no socket".
\* A PULSE_SERVER of blanks names no entry and is passed over.
ResolveServerSocket(env) ==
    LET entries == IF env.server = None THEN <<>> ELSE env.server
        unix == {i \in DOMAIN entries : UnixPathFromServerEntry(entries[i]) # None}
        first == FirstExisting(SocketCandidates(env), env.existing)
    IN  IF unix # {}
        THEN UnixPathFromServerEntry(entries[CHOOSE i \in unix : \A j \in unix : i <= j])
        ELSE IF entries # <<>> THEN "unsupported"
        ELSE IF first # None THEN first ELSE "no socket"

\* The cookie to authenticate with; a server on a socket of the same user may
\* accept none.
CookieCandidates(env) ==
    (IF "PULSE_COOKIE" \in env.vars THEN <<"$PULSE_COOKIE">> ELSE <<>>)
    \o (IF "XDG_CONFIG_HOME" \in env.vars THEN <<"$XDG_CONFIG_HOME/pulse/cookie">> ELSE <<>>)
    \o (IF "HOME" \in env.vars THEN <<"$HOME/.config/pulse/cookie", "$HOME/.pulse-cookie">>
        ELSE <<>>)
ResolveCookiePath(env) == FirstExisting(CookieCandidates(env), env.existing)
=============================================================================
