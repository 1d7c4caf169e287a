----------------------------- MODULE MCProtocols -----------------------------
(***************************************************************************)
(* The instances of SmfPlayback, OscCodec and ProtocolParts TLC checks: a  *)
(* behaviour is one of a file, of OSC or of a part, and the others stand   *)
(* still.                                                                  *)
(*                                                                         *)
(* Files: every kind of event, deltas at the edges of the variable-length  *)
(* encoding, tracks with and without an end, statuses that repeat, tempo   *)
(* changes on several tracks and at the same tick; damage to every byte of *)
(* the track chunks, turned into the values that mean most to the parser,  *)
(* and every truncation.                                                   *)
(* OSC: every kind of argument, strings and blobs that fill a word and     *)
(* that do not, arrays and bundles up to and beyond the depth allowed.     *)
(* MIDI ports: inputs and outputs in other orders, with equal names, only  *)
(* outputs, no MIDI at all.                                                *)
(* JACK's MIDI: a SysEx message of three entries fills a ring, so that one *)
(* fails half way unless the callback drains it in time; an event of       *)
(* another client's may come at any point: a clock byte, a note, a SysEx   *)
(* message, one longer than an entry, the end of one.  JACK's audio: a     *)
(* ring of two samples, writes and cycles that fill it, overrun it and     *)
(* starve it.  Its wiring: two clients that ask for the same name, and     *)
(* three outputs of the system's, one more than a stream connects to.      *)
(***************************************************************************)
EXTENDS SmfPlayback, ProtocolParts

CONSTANTS DamagedTo, MaxNestingDepth

VARIABLES packet, datagram, damage, hop, step, bundles, slice, message, received

-----------------------------------------------------------------------------
Event(delta, kind, payload) == [delta |-> delta, kind |-> kind, data |-> payload]
Ticks(n) == <<"ticks", n>>

PlainFiles ==
    {[division |-> Ticks(480), tracks |->
        <<  <<Event(0, "tempo", <<500000>>), Event(0, "name", <<65, 66>>), Event(0, "eot", <<>>)>>,
            <<Event(0, "midi", <<144, 60, 64>>), Event(480, "midi", <<144, 60, 0>>),
              Event(127, "midi", <<192, 5>>), Event(128, "midi", <<192, 6>>)>> >>],
     [division |-> Ticks(2), tracks |->
        <<  <<Event(1, "tempo", <<3>>), Event(2, "midi", <<144, 60, 64>>), Event(2, "tempo", <<1>>)>>,
            <<Event(1, "tempo", <<5>>), Event(1, "midi", <<144, 61, 64>>),
              Event(1, "midi", <<144, 61, 0>>), Event(4, "midi", <<144, 62, 0>>)>> >>],
     [division |-> Ticks(96), tracks |->
        <<  <<Event(16383, "timesig", <<4, 2, 24, 8>>), Event(16384, "keysig", <<255, 1>>),
              Event(268435455, "meta", <<32, 5>>), Event(0, "midi", <<224, 0, 64>>)>>,
            <<>> >>],
     [division |-> Ticks(1), tracks |-> <<>>]}

\* The commonest shape of a file with a SysEx message: one, at the start.
SysExFiles ==
    {[division |-> Ticks(480), tracks |->
        << <<Event(0, "sysex", <<65, 16>>), Event(0, "midi", <<144, 60, 64>>),
             Event(0, "eot", <<>>)>> >>]}

-----------------------------------------------------------------------------
Arg(tag, bytes) == [tag |-> tag, data |-> bytes]
Array(items) == [tag |-> "array", items |-> items]
OscMessage(address, args) == [kind |-> "message", address |-> address, args |-> args]
Bundle(elements) ==
    [kind |-> "bundle", time |-> <<0, 0, 0, 0, 0, 0, 0, 1>>, elements |-> elements]
Ping == OscMessage(<<47, 97>>, <<>>)

OscPackets ==
    {Ping,
     OscMessage(<<47, 97, 98>>, <<Arg("i", <<0, 0, 0, 5>>), Arg("s", <<65, 66, 67, 68>>), Arg("T", <<>>)>>),
     OscMessage(<<47>>, <<Arg("b", <<1, 2, 0, 3, 4>>), Array(<<Arg("c", <<0, 0, 0, 65>>), Arg("N", <<>>)>>),
                          Arg("h", <<0, 0, 0, 0, 0, 0, 0, 91>>)>>),
     OscMessage(<<47>>, <<Array(<<Array(<<>>)>>)>>),
     Bundle(<<Ping, Bundle(<<OscMessage(<<47>>, <<Arg("s", <<>>)>>)>>)>>),
     Bundle(<<Bundle(<<Bundle(<<>>)>>)>>),
     Bundle(<<Bundle(<<Bundle(<<Ping>>)>>)>>)}

Osc == INSTANCE OscCodec WITH Packets <- OscPackets

oscVars == <<packet, datagram, damage, hop, step, bundles, slice, message, received>>

-----------------------------------------------------------------------------
System(clients, ins, outs, virtual) ==
    [clients |-> clients, ins |-> ins, outs |-> outs, virtual |-> virtual]

MCSystems ==
    {System({"in", "out"}, <<"a", "b">>, <<"b", "a">>, TRUE),
     System({"in", "out"}, <<"a", "a">>, <<"b", "a", "a">>, FALSE),
     System({"out"}, <<"a">>, <<"a", "a">>, FALSE),
     System({}, <<>>, <<>>, FALSE)}

\* Clock tick, Start, Continue, Stop, a SysEx message and a note.
MCMidiMessages ==
    {<<248, <<>> >>, <<250, <<>> >>, <<251, <<>> >>, <<252, <<>> >>, <<240, <<65>> >>, <<144, <<60, 64>> >>}

-----------------------------------------------------------------------------
SmallMessages == {<<"note", "a">>, <<"F0", "a", "F7">>, <<"F0", "a", "b", "b", "F7">>}
\* A clock byte, a note, a SysEx message, one that is longer than an entry, and the end of one
\* that came in pieces.
AnyEvents ==
    {<<"clock">>, <<"note", "c">>, <<"F0", "F7">>, <<"F0", "c", "c", "F7">>, <<"c", "F7">>}

SystemPort(short) == <<"system", short>>
ThreePlayback == <<SystemPort("playback_1"), SystemPort("playback_2"), SystemPort("playback_3")>>
OneCapture    == <<SystemPort("capture_1")>>
OnePort       == <<"system:playback_1">>

-----------------------------------------------------------------------------
\* A part that stands still has one initial state.
ProtocolsInit ==
    /\ PartsInit /\ PlaybackInit /\ Osc!OscInit
    /\ part # "smf"  => file = CHOOSE f \in Files : TRUE
    /\ part # "osc"  => packet = Ping
    /\ part # "midi" => system = System({}, <<>>, <<>>, FALSE)
    /\ part \in {"audio", "wiring"} \/ backend

ProtocolsNext ==
    \/ part = "smf" /\ PlaybackNext /\ UNCHANGED <<oscVars, partsVars>>
    \/ part = "osc" /\ Osc!OscNext  /\ UNCHANGED <<playerVars, partsVars>>
    \/ PartsNext /\ UNCHANGED <<playerVars, oscVars>>

ProtocolsSpec == ProtocolsInit /\ [][ProtocolsNext]_<<playerVars, oscVars, partsVars>>

\* OscCodec's: packets arrive whole, or what is left of them, and can be sent on.
PacketsStayWhole == Osc!PacketsStayWhole
=============================================================================
