----------------------------- MODULE JackWiring -----------------------------
(***************************************************************************)
(* The connections of oxisound-jack's clients, beside each other on one    *)
(* server.  A JackDevice is a client without ports; it becomes an output,  *)
(* input or callback stream with one port, and its client is active from   *)
(* then on.  The samples are JackAudio's.                                  *)
(*                                                                         *)
(* A port is <<client, port>>; a wire is <<from, to>>.  A name that is     *)
(* taken gets a number from the server, for JackDevice::new does not ask   *)
(* for the exact name.                                                     *)
(***************************************************************************)
EXTENDS Integers, FiniteSets, SequencesExt

CONSTANTS
    Clients,       \* the JackDevices the applications make
    Requested,     \* the name each asks for
    Numbered,      \* the name the server gives a client when that one is taken
    Backends,      \* whether the "jack-backend" feature is built in
    Playback, Capture  \* the system's ports, in the server's order

VARIABLES
    backend,
    stage,     \* of each client: "new", "refused", "device", "output", "input", "callback", "gone"
    name,      \* its name on the server
    wires,
    wired      \* history: the wires each client's auto_connect() made

wiringVars == <<backend, stage, name, wires, wired>>

Kinds  == {"output", "input", "callback"}
Stream(c) == stage[c] \in Kinds
Present(c) == stage[c] \in Kinds \cup {"device"}

\* register_port("out"), register_port("in").
PortName(kind) == IF kind = "input" THEN "in" ELSE "out"
OwnPort(c) == <<name[c], PortName(stage[c])>>

WiringInit ==
    /\ backend \in Backends
    /\ stage = [c \in Clients |-> "new"] /\ name = [c \in Clients |-> ""]
    /\ wires = {} /\ wired = [c \in Clients |-> {}]

-----------------------------------------------------------------------------
(* The ports the server lists. *)

\* list_output_ports(), list_input_ports(): "system:" ports first, as the server has them.
OutputPorts ==
    ToSet(Capture) \cup {OwnPort(c) : c \in {d \in Clients : stage[d] \in {"output", "callback"}}}
InputPorts ==
    ToSet(Playback) \cup {OwnPort(c) : c \in {d \in Clients : stage[d] = "input"}}

\* list_ports()
AllPorts == OutputPorts \cup InputPorts

\* The server connects an output to an input, both of them there.
Connectable(src, dst) == src \in OutputPorts /\ dst \in InputPorts

-----------------------------------------------------------------------------
(* A client's life. *)

\* JackDevice::new, without the feature: Unsupported.
NewRefused(c) ==
    /\ ~backend /\ stage[c] = "new"
    /\ stage' = [stage EXCEPT ![c] = "refused"]
    /\ UNCHANGED <<backend, name, wires, wired>>

New(c) ==
    /\ backend /\ stage[c] = "new"
    /\ stage' = [stage EXCEPT ![c] = "device"]
    /\ name' = [name EXCEPT ![c] =
                  IF \E d \in Clients : Present(d) /\ name[d] = Requested THEN Numbered ELSE Requested]
    /\ UNCHANGED <<backend, wires, wired>>

\* open_output(), open_input(), open_output_callback(): the device is moved into the stream,
\* or dropped by an error.
Open(c, kind) ==
    /\ stage[c] = "device"
    /\ stage' \in {[stage EXCEPT ![c] = kind], [stage EXCEPT ![c] = "gone"]}
    /\ UNCHANGED <<backend, name, wires, wired>>

\* Dropping a stream closes its client, and the server removes its port and its wires.
DropStream(c) ==
    /\ Stream(c)
    /\ stage' = [stage EXCEPT ![c] = "gone"]
    /\ wires' = {w \in wires : OwnPort(c) \notin {w[1], w[2]}}
    /\ UNCHANGED <<backend, name, wired>>

-----------------------------------------------------------------------------
(* Connections. *)

\* connect_ports() of a device or of a stream, which checks no name; one that is there
\* already is Ok.
ConnectPorts(c, src, dst) ==
    /\ Present(c) /\ Connectable(src, dst)
    /\ wires' = wires \cup {<<src, dst>>}
    /\ UNCHANGED <<backend, stage, name, wired>>

FirstTwo(ports) == {ports[i] : i \in DOMAIN ports \cap {1, 2}}

\* The connections an auto_connect() tries from or to a port of the kind.
Tried(port, kind) ==
    IF kind = "input" THEN {<<p, port>> : p \in FirstTwo(Capture)}
    ELSE {<<port, p>> : p \in FirstTwo(Playback)}

\* Mutant: by the name the client asked for.
AutoConnectRequested(c) ==
    /\ Stream(c)
    /\ \E made \in SUBSET {w \in Tried(<<Requested, PortName(stage[c])>>, stage[c]) : Connectable(w[1], w[2])} :
          wires' = wires \cup made /\ wired' = [wired EXCEPT ![c] = @ \cup made]
    /\ UNCHANGED <<backend, stage, name>>

\* auto_connect() of a stream, by the name the server gave its client; a connection that
\* fails is logged.
AutoConnect(c) ==
    /\ Stream(c)
    /\ \E made \in SUBSET {w \in Tried(OwnPort(c), stage[c]) : Connectable(w[1], w[2])} :
          wires' = wires \cup made /\ wired' = [wired EXCEPT ![c] = @ \cup made]
    /\ UNCHANGED <<backend, stage, name>>

\* auto_connect_output() of a device, by the name it asked for: its own client has no port
\* yet, and another's port of that name is connected.
AutoConnectOutput(c) ==
    /\ stage[c] = "device"
    /\ \E made \in SUBSET {w \in Tried(<<Requested, "out">>, "output") : Connectable(w[1], w[2])} :
          wires' = wires \cup made
    /\ UNCHANGED <<backend, stage, name, wired>>

WiringNext ==
    \/ \E c \in Clients :
          \/ NewRefused(c) \/ New(c) \/ DropStream(c) \/ AutoConnect(c) \/ AutoConnectOutput(c)
          \/ \E kind \in Kinds : Open(c, kind)
          \/ \E src, dst \in AllPorts : ConnectPorts(c, src, dst)

WiringSpec == WiringInit /\ [][WiringNext]_wiringVars

-----------------------------------------------------------------------------
(* Properties. *)

\* What a stream's auto_connect() wires is its own port and one of the first two of the
\* system's, however many clients asked for the same name.
WiresOwnPort ==
    \A c \in Clients : \A w \in wired[c] :
        \/ w[1] = <<name[c], "out">> /\ w[2] \in FirstTwo(Playback)
        \/ w[2] = <<name[c], "in">> /\ w[1] \in FirstTwo(Capture)

\* No wire outlives either of its ports, and none leads to an output or from an input.
WiresAreSound == \A w \in wires : Connectable(w[1], w[2])

\* A stream is wired as it was told.
AutoWiresOwn == WiresOwnPort /\ WiresAreSound
=============================================================================
