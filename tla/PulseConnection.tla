-------------------------- MODULE PulseConnection ---------------------------
(***************************************************************************)
(* The life of an oxisound-pulse connection: connect_client() and its      *)
(* worker thread, the Arc<PulseConnection> the device and the streams      *)
(* share, enumeration, stream creation (single and duplex) and teardown.   *)
(*                                                                         *)
(* One application thread makes the calls.  Each call that connects gets a *)
(* worker thread and a channel of its own, both numbered like the          *)
(* connection it may make; a worker whose caller gave up goes on alone.    *)
(* Each connection has the reactor thread of the pulseaudio crate.         *)
(***************************************************************************)
EXTENDS PulseNegotiation, FiniteSets

CONSTANTS
    MaxConns,       \* bound: calls that connect
    MaxLate,        \* bound: CREATEs that timed out and may still make a stream
    Environments,   \* environments the process may run in
    Endpoints,      \* what the server reports
    Defaults,       \* [sink |-> a name, source |-> a name]: its default endpoints
    Configs         \* configurations the application asks for

\* What servers, environments and applications may say.
ServerEntries == [brace : {"none", "open", "closed"}, scheme : STRING, path : STRING]
ConfigSet ==
    [sample_rate : Nat, channels : Nat, sample_format : CoreFormats \cup {None},
     preferred_formats : Seq(CoreFormats), buffer_size : Nat \cup {None}, capacity_ms : Int]

\* What a stream handle holds.
Attributes ==
    [max_length : Nat, target_length : Nat \cup {None}, pre_buffering : Nat \cup {None},
     minimum_request_length : Nat \cup {None}, fragment_size : Nat \cup {None}]
Negotiated == [sample_rate : Nat, channels : Nat, buffer_size : Nat, sample_format : CoreFormats]
Handles ==
    [conn : Nat, config : ConfigSet, native : WireFormats \cup {None}, attrs : Attributes,
     frame : Nat, positions : Seq({"mono", "surround", "aux"} \X Nat), capacity : Nat,
     negotiated : Negotiated]

\* The server has one sink, and one source, of a name.
ConnectionAssumption ==
    /\ MaxConns \in Nat /\ MaxLate \in Nat
    /\ None \notin Handles
    /\ \A e \in Environments : e.server # None => e.server \in Seq(ServerEntries)
    /\ \A e \in Endpoints : e.role \in {"sink", "source"}
    /\ \A e, f \in Endpoints : e.name = f.name /\ e.role = f.role => e = f
    /\ Configs \subseteq ConfigSet

VARIABLES
    env,         \* the process environment
    made,        \* calls that have connected so far
    worker,      \* worker[c]: where the worker thread is
    chan,        \* chan[c]: what the caller's channel holds
    arcs,        \* arcs[c]: strong count of the Arc<PulseConnection>
    shut,        \* shut[c]: shutdown(Both) was called on the socket
    reactor,     \* reactor[c]: the reactor thread
    server,      \* server[c]: the streams the server keeps for it, and how made
    deletes,     \* deletes[c]: DELETE commands queued to the reactor
    late,        \* late[c]: CREATE commands whose caller timed out
    call,        \* the call under way: [op, at, conn, kind, config, source]
    device,      \* the PulseDevice held, or None
    handles,     \* handles[kind]: the stream handle held, or None
    listed       \* what the last enumeration returned

connVars   == <<worker, chan, reactor, server>>
appVars    == <<env, made, device, listed>>
queueVars  == <<deletes, late>>
vars == <<connVars, arcs, shut, queueVars, call, handles, appVars>>

Conns == 1 .. MaxConns
Kinds == {"output", "input"}
\* The stream of a CREATE that was awaited, or of one nobody waited for any more.
Opening(k) == <<k, "opened">>
Stray(k)   == <<k, "late">>
RoleOf == [output |-> "sink", input |-> "source"]
Await == [output |-> "await_output", input |-> "await_input"]
NoCall == [op |-> None, at |-> "idle", conn |-> 0, config |-> None, native |-> None]

Init ==
    /\ env \in Environments
    /\ made = 0
    /\ worker = [c \in Conns |-> "none"] /\ chan = [c \in Conns |-> "open"]
    /\ arcs = [c \in Conns |-> 0] /\ shut = [c \in Conns |-> FALSE]
    /\ reactor = [c \in Conns |-> "none"]
    /\ server = [c \in Conns |-> {}] /\ deletes = [c \in Conns |-> {}]
    /\ late = [c \in Conns |-> {}]
    /\ call = NoCall /\ device = None
    /\ handles = [k \in Kinds |-> None] /\ listed = {}

-----------------------------------------------------------------------------
(* References and steps of a call. *)

Clone(c) == arcs' = [arcs EXCEPT ![c] = @ + 1]

\* n references go; PulseConnection::drop runs when no other is left.
Release(c, n) ==
    /\ arcs' = [arcs EXCEPT ![c] = @ - n]
    /\ shut' = [shut EXCEPT ![c] = @ \/ arcs[c] = n]

Goto(at) == call' = [call EXCEPT !.at = at]
Return   == call' = NoCall

-----------------------------------------------------------------------------
(* connect_client *)

\* On other systems than Linux every constructor answers Unsupported.
Supported == env.linux

\* The environment decides where to connect before a thread is started.
StartConnect(op) ==
    /\ call.at = "idle" /\ made < MaxConns
    /\ op = "open" => device = None
    /\ IF ~Supported \/ ResolveServerSocket(env) \in {"unsupported", "no socket"}
       THEN UNCHANGED <<made, worker, call>>
       ELSE LET c == made + 1 IN
            /\ made' = c
            /\ worker' = [worker EXCEPT ![c] = "connecting"]
            /\ call' = [NoCall EXCEPT !.op = op, !.at = "wait", !.conn = c]
    /\ UNCHANGED <<env, chan, arcs, shut, reactor, server, queueVars, device, handles, listed>>

\* The worker: connect_blocking() makes the connection, which a server that asks
\* for a cookie allows only to a client that found one, or an error ...
Connected(c) ==
    /\ worker[c] = "connecting"
    /\ env.auth => ResolveCookiePath(env) # None
    /\ worker' = [worker EXCEPT ![c] = "connected"]
    /\ arcs' = [arcs EXCEPT ![c] = 1]
    /\ reactor' = [reactor EXCEPT ![c] = "running"]
    /\ UNCHANGED <<chan, server, shut, queueVars, call, handles, appVars>>

ConnectRefused(c) ==
    /\ worker[c] = "connecting"
    /\ worker' = [worker EXCEPT ![c] = "refused"]
    /\ UNCHANGED <<chan, reactor, server, arcs, shut, queueVars, call, handles, appVars>>

\* ... and sends it.  Nobody receives any more once the caller timed out: the
\* send fails and the connection is dropped with the message.
SendResult(c) ==
    /\ worker[c] \in {"connected", "refused"}
    /\ worker' = [worker EXCEPT ![c] = "done"]
    /\ IF chan[c] = "closed"
       THEN /\ IF worker[c] = "connected" THEN Release(c, 1) ELSE UNCHANGED <<arcs, shut>>
            /\ UNCHANGED chan
       ELSE /\ chan' = [chan EXCEPT ![c] = worker[c]]
            /\ UNCHANGED <<arcs, shut>>
    /\ UNCHANGED <<reactor, server, queueVars, call, handles, appVars>>

\* recv_timeout takes what was sent, or finds the channel empty at its deadline;
\* the receiver is dropped in a later step, with what was sent in between.
ReceiveResult ==
    LET c == call.conn IN
    /\ call.at = "wait" /\ chan[c] # "open"
    /\ chan' = [chan EXCEPT ![c] = "closed"]
    /\ IF chan[c] = "connected" THEN Goto("server_info") ELSE Return
    /\ UNCHANGED <<worker, reactor, server, arcs, shut, queueVars, handles, appVars>>

ReceiveTimeout ==
    /\ call.at = "wait" /\ chan[call.conn] = "open"
    /\ Goto("give_up")
    /\ UNCHANGED <<connVars, arcs, shut, queueVars, handles, appVars>>

\* Mutant: what was sent in between stays in the channel.
GiveUpKeeping ==
    /\ call.at = "give_up"
    /\ chan' = [chan EXCEPT ![call.conn] = IF @ = "open" THEN "closed" ELSE @]
    /\ Return
    /\ UNCHANGED <<worker, reactor, server, arcs, shut, queueVars, handles, appVars>>

GiveUp ==
    LET c == call.conn IN
    /\ call.at = "give_up"
    /\ chan' = [chan EXCEPT ![c] = "closed"]
    /\ IF chan[c] = "connected" THEN Release(c, 1) ELSE UNCHANGED <<arcs, shut>>
    /\ Return
    /\ UNCHANGED <<worker, reactor, server, queueVars, handles, appVars>>

-----------------------------------------------------------------------------
(* The round trips of open_default(), open_named() and enumerate_details().  *)

Reached == reactor[call.conn] = "running"

\* A reply that is an error, that does not come within PULSE_OP_TIMEOUT or that
\* cannot come: the call returns and drops the connection it made.
LookupFails ==
    /\ call.at \in {"server_info", "endpoint", "sinks", "sources"}
    /\ Release(call.conn, 1)
    /\ Return
    /\ UNCHANGED <<connVars, queueVars, handles, appVars>>

ServerInfo ==
    /\ call.at = "server_info" /\ Reached
    /\ Goto(IF call.op = "open" THEN "endpoint" ELSE "sinks")
    /\ UNCHANGED <<connVars, arcs, shut, queueVars, handles, appVars>>

\* open_default, open_named: the endpoint asked for, unless it is degenerate.
OpenDevice(e) ==
    LET d == Descriptor(e, Defaults[e.role]) IN
    /\ call.at = "endpoint" /\ Reached
    /\ IF Degenerate(d)
       THEN Release(call.conn, 1) /\ UNCHANGED device
       ELSE device' = [conn |-> call.conn, descriptor |-> d] /\ UNCHANGED <<arcs, shut>>
    /\ Return
    /\ UNCHANGED <<connVars, queueVars, handles, env, made, listed>>

\* enumerate_details asks for the sinks, then for the sources.
ListSinks ==
    /\ call.at = "sinks" /\ Reached
    /\ Goto("sources")
    /\ UNCHANGED <<connVars, arcs, shut, queueVars, handles, appVars>>

\* enumerate_all_as: the connection goes before the devices are returned.
ListSources ==
    /\ call.at = "sources" /\ Reached
    /\ listed' = MapDescriptors({Descriptor(e, Defaults[e.role]) : e \in Endpoints})
    /\ Release(call.conn, 1)
    /\ Return
    /\ UNCHANGED <<connVars, queueVars, handles, env, made, device>>

-----------------------------------------------------------------------------
(* Streams. *)

\* open_output, open_input: the device must have the role.
OpenStream(kind, config) ==
    /\ call.at = "idle" /\ device # None /\ handles[kind] = None
    /\ device.descriptor.role = RoleOf[kind]
    /\ call' = [op |-> kind, at |-> kind, conn |-> device.conn, config |-> config,
                native |-> [k \in {kind} |-> device.descriptor.format]]
    /\ UNCHANGED <<connVars, arcs, shut, queueVars, handles, appVars>>

\* open_duplex: the other half is the server's default endpoint.
OpenDuplex(config) ==
    /\ call.at = "idle" /\ device # None /\ \A k \in Kinds : handles[k] = None
    /\ call' = [op |-> "duplex", at |-> "other", conn |-> device.conn,
                config |-> config, native |-> None]
    /\ UNCHANGED <<connVars, arcs, shut, queueVars, handles, appVars>>

OtherHalf(e) ==
    LET own == device.descriptor IN
    /\ call.at = "other" /\ Reached
    /\ e.role # own.role /\ e.name = Defaults[e.role]
    /\ call' = [call EXCEPT !.at = "output", !.native =
                   [k \in Kinds |-> IF RoleOf[k] = own.role THEN own.format
                                    ELSE Descriptor(e, None).format]]
    /\ UNCHANGED <<connVars, arcs, shut, queueVars, handles, appVars>>

OtherHalfFails ==
    /\ call.at = "other"
    /\ Return
    /\ UNCHANGED <<connVars, arcs, shut, queueVars, handles, appVars>>

\* What PulseOutputStream::open and PulseInputStream::open put in the handle.
Stream(kind) ==
    LET config == call.config
        format == NegotiateFormat(config.sample_format, config.preferred_formats, call.native[kind])
        period == PeriodFrames(config)
    IN  [conn |-> call.conn, config |-> config, native |-> call.native[kind], format |-> format,
         attrs |-> IF kind = "output" THEN PlaybackBufferAttrs(period, config.channels, format)
                   ELSE RecordBufferAttrs(period, config.channels, format),
         positions |-> ChannelMapFor(config.channels),
         capacity |-> RingCapacityBytes(config, format), buffer_size |-> period]

\* validate_stream_config and negotiate_format refuse before a command is sent.
Refused ==
    \/ ~ValidateStreamConfig(call.config)
    \/ \E k \in {call.at} :
           NegotiateFormat(call.config.sample_format, call.config.preferred_formats,
                           call.native[k]) = None

\* The CREATE command is sent with a reference to the connection in hand.
Create ==
    /\ call.at \in Kinds /\ ~Refused
    /\ Clone(call.conn)
    /\ Goto(Await[call.at])
    /\ UNCHANGED <<connVars, shut, queueVars, handles, appVars>>

\* open() returns an error with `held` references in hand: they go, and if it was
\* the second half of a duplex stream the first half, already open, goes too.
Abandon(held) ==
    LET c == call.conn
        half == call.op = "duplex" /\ handles["output"] # None
    IN  /\ Release(c, held + IF half THEN 1 ELSE 0)
        /\ handles' = IF half THEN [handles EXCEPT !["output"] = None] ELSE handles
        /\ Return

Orphans == IF call.op = "duplex" /\ handles["output"] # None THEN {"output"} ELSE {}

CreateRefused ==
    /\ call.at \in Kinds /\ Refused
    /\ Abandon(0)
    /\ deletes' = [deletes EXCEPT ![call.conn] = @ \cup Orphans]
    /\ UNCHANGED <<connVars, late, appVars>>

\* The server's error reply, or a reactor that is gone.
CreateError(kind) ==
    /\ call.at = Await[kind]
    /\ Abandon(1)
    /\ deletes' = [deletes EXCEPT ![call.conn] = @ \cup Orphans]
    /\ UNCHANGED <<connVars, late, appVars>>

\* The CREATEs that timed out, and the streams the server made for one.
Lates == {x \in Conns \X Kinds : x[2] \in late[x[1]] \/ Stray(x[2]) \in server[x[1]]}

\* PULSE_OP_TIMEOUT passes: only the wait is given up, the command goes on.
CreateTimesOut(kind) ==
    /\ call.at = Await[kind] /\ Reached /\ Cardinality(Lates) < MaxLate
    /\ Abandon(1)
    /\ deletes' = [deletes EXCEPT ![call.conn] = @ \cup Orphans]
    /\ late' = [late EXCEPT ![call.conn] = @ \cup {kind}]
    /\ UNCHANGED <<connVars, appVars>>

\* The server makes the stream after all, or refuses it; nothing in this crate
\* learns of it, and no DELETE follows.
CreatedLate(c, kind) ==
    /\ reactor[c] = "running" /\ kind \in late[c]
    /\ late' = [late EXCEPT ![c] = @ \ {kind}]
    /\ \E made_it \in SUBSET {Stray(kind)} : server' = [server EXCEPT ![c] = @ \cup made_it]
    /\ UNCHANGED <<worker, chan, reactor, arcs, shut, deletes, call, handles, appVars>>

Requested(s) == [rate |-> s.config.sample_rate, channels |-> s.config.channels, format |-> s.format]

\* Mutant: the server's specification is not looked at.
VerifyNothing(actual, s) == TRUE

\* verify_negotiated_spec
VerifyNegotiatedSpec(actual, s) == actual = Requested(s)

\* The handle open() returns reports what the server said.
Opened(s, actual) ==
    [conn |-> s.conn, config |-> s.config, native |-> s.native, attrs |-> s.attrs,
     frame |-> FrameSize(s.format, s.config.channels),
     positions |-> s.positions, capacity |-> s.capacity,
     negotiated |-> [sample_rate |-> actual.rate, channels |-> actual.channels,
                     buffer_size |-> s.buffer_size, sample_format |-> ToCore[s.format]]]

\* Commands run in order, so the DELETEs and CREATEs queued before have run.  The
\* server may answer with another specification than the one asked for.
Created(kind, actual) ==
    LET s == Stream(kind) IN
    /\ call.at = Await[kind] /\ Reached /\ deletes[call.conn] = {} /\ late[call.conn] = {}
    /\ server' = [server EXCEPT ![call.conn] = @ \cup {Opening(kind)}]
    /\ IF VerifyNegotiatedSpec(actual, s)
       THEN /\ handles' = [handles EXCEPT ![kind] = Opened(s, actual)]
            /\ IF call.op = "duplex" /\ kind = "output" THEN Goto("input") ELSE Return
            /\ UNCHANGED <<arcs, shut, deletes>>
       ELSE /\ Abandon(1)
            /\ deletes' = [deletes EXCEPT ![call.conn] = @ \cup Orphans \cup {kind}]
    /\ UNCHANGED <<worker, chan, reactor, late, appVars>>

CreatedAny(kind) ==
    /\ call.at = Await[kind]
    /\ \E rate \in {call.config.sample_rate, 48000} :
           Created(kind, [Requested(Stream(kind)) EXCEPT !.rate = rate])

-----------------------------------------------------------------------------
(* Teardown. *)

\* Mutant: the connection is dropped but the stream is not.
DropStreamSilently(kind) ==
    /\ call.at = "idle" /\ handles[kind] # None
    /\ Release(handles[kind].conn, 1)
    /\ handles' = [handles EXCEPT ![kind] = None]
    /\ UNCHANGED <<connVars, queueVars, call, appVars>>

\* A stream handle queues its DELETE before it drops its reference; a duplex
\* stream drops its output, then its input.
DropStream(kind) ==
    /\ call.at = "idle" /\ handles[kind] # None
    /\ LET c == handles[kind].conn IN
       /\ deletes' = [deletes EXCEPT ![c] = @ \cup {kind}]
       /\ Release(c, 1)
    /\ handles' = [handles EXCEPT ![kind] = None]
    /\ UNCHANGED <<connVars, late, call, appVars>>

DropDevice ==
    /\ call.at = "idle" /\ device # None
    /\ Release(device.conn, 1)
    /\ device' = None
    /\ UNCHANGED <<connVars, queueVars, call, handles, env, made, listed>>

\* The reactor writes a queued DELETE.  (pulseaudio crate)
RunDelete(c) ==
    /\ reactor[c] = "running" /\ deletes[c] # {}
    /\ \E k \in deletes[c] :
        /\ deletes' = [deletes EXCEPT ![c] = @ \ {k}]
        /\ server' = [server EXCEPT ![c] = @ \ {Opening(k)}]
    /\ UNCHANGED <<worker, chan, reactor, late, arcs, shut, call, handles, appVars>>

\* The reactor's thread ends: its read returned 0 because the socket was shut
\* down, or because the server is gone; the server reclaims every stream.
ReactorExits(c) ==
    /\ reactor[c] = "running"
    /\ reactor' = [reactor EXCEPT ![c] = "exited"]
    /\ server' = [server EXCEPT ![c] = {}]
    /\ deletes' = [deletes EXCEPT ![c] = {}] /\ late' = [late EXCEPT ![c] = {}]
    /\ UNCHANGED <<worker, chan, arcs, shut, call, handles, appVars>>

Shutdown(c)       == shut[c] /\ ReactorExits(c)
ConnectionLost(c) == ~shut[c] /\ ReactorExits(c)

-----------------------------------------------------------------------------
Answered == ServerInfo \/ ListSinks \/ ListSources
            \/ \E e \in Endpoints : OpenDevice(e) \/ OtherHalf(e)

Calls ==
    \/ \E op \in {"open", "enumerate"} : StartConnect(op)
    \/ \E config \in Configs : OpenDuplex(config) \/ \E k \in Kinds : OpenStream(k, config)
    \/ DropDevice \/ \E k \in Kinds : DropStream(k)

\* A step of a call under way; the clock ends one that is not answered.
CallProceeds ==
    \/ ReceiveResult \/ ReceiveTimeout \/ GiveUp \/ LookupFails \/ Answered
    \/ OtherHalfFails \/ Create \/ CreateRefused
    \/ \E k \in Kinds : CreateError(k) \/ CreateTimesOut(k) \/ CreatedAny(k)

Worker(c) == Connected(c) \/ ConnectRefused(c) \/ SendResult(c)

Next == Calls \/ CallProceeds
        \/ \E c \in Conns :
               \/ Worker(c) \/ RunDelete(c) \/ Shutdown(c) \/ ConnectionLost(c)
               \/ \E k \in Kinds : CreatedLate(c, k)

\* A worker that has its result sends it, and a reactor sees a closed socket.
\* connect(2) may hang, the server may stay silent, a round trip whose timer
\* thread cannot be spawned may last, the application may stop.
Fairness == \A c \in Conns : WF_vars(SendResult(c)) /\ WF_vars(Shutdown(c))

Safety == Init /\ [][Next]_vars
Spec   == Safety /\ Fairness

-----------------------------------------------------------------------------
(* Properties. *)

\* The application reaches connection c through a call, a device or a stream.
Held(c) ==
    \/ call.conn = c
    \/ device # None /\ device.conn = c
    \/ \E k \in Kinds : handles[k] # None /\ handles[k].conn = c

\* No call leaks a connection, its thread and its socket: one that nobody can
\* reach is shut down, also when it was made after its caller had given up, and
\* every stream the server keeps for it ends with it.
NoConnectionLeaks ==
    \A c \in Conns : (reactor[c] = "running" /\ ~Held(c)) ~>
                         reactor[c] = "exited" /\ server[c] = {} /\ late[c] = {}

\* The server keeps no stream without a handle for longer than it takes the
\* reactor to write a DELETE: neither one that was dropped, nor one whose
\* specification was refused, nor the first half of a duplex stream whose second
\* half could not be opened.  Conceded are those it makes for a CREATE that timed
\* out: no DELETE is ever sent for them.
NoStrayStream ==
    \A c \in Conns, k \in Kinds :
        Opening(k) \in server[c] /\ (handles[k] = None \/ handles[k].conn # c) =>
            k \in deletes[c]

\* A stream is what negotiate_output() predicted without asking the server; its
\* ring holds whole frames and the most the server may hold, and each of its
\* channels has a position no other has.
StreamIsAsPredicted ==
    \A k \in Kinds : handles[k] # None =>
        LET h == handles[k] IN
        /\ h.negotiated = NegotiateOutput(h.config, h.native)
        /\ h.capacity % h.frame = 0 /\ h.capacity >= h.attrs.max_length
        /\ Len(h.positions) = h.config.channels
        /\ \A i, j \in DOMAIN h.positions : h.positions[i] = h.positions[j] => i = j

\* A user who names servers in $PULSE_SERVER never gets another one: a local
\* socket that exists is no substitute for a remote server.
NeverTheWrongServer ==
    made > 0 /\ env.server # None /\ env.server # <<>> =>
        ResolveServerSocket(env) \in {e.path : e \in {env.server[i] : i \in DOMAIN env.server}}

\* What an enumeration lists plays one role and opens under its name.
ListedDevicesOpen ==
    \A d \in listed : d.is_output # d.is_input /\
        \A e \in Endpoints :
            e.name = d.name /\ (e.role = "sink" <=> d.is_output) => ~Degenerate(Descriptor(e, None))

\* The server is the one named, a listed device one that opens, and a stream the one
\* that was predicted.
OpensAsAnnounced == NeverTheWrongServer /\ ListedDevicesOpen /\ StreamIsAsPredicted
=============================================================================
