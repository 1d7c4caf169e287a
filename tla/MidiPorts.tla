------------------------------ MODULE MidiPorts ------------------------------
(***************************************************************************)
(* oxisound-midi and the MidiClock of oxisound-core: the listing of MIDI   *)
(* ports, ports opened by index or created, a cable from the output to the *)
(* input, the channel from the input's callback to receive(), and a clock  *)
(* fed with what was received.                                             *)
(*                                                                         *)
(* A message is [status, data, stamp]; bytes are numbers.  Ports are       *)
(* listed in the order the system has them, which stays as it is.          *)
(***************************************************************************)
EXTENDS Integers, SequencesExt

CONSTANTS
    None,
    Systems,       \* the systems explored: [clients, ins, outs, virtual]
    MidiMessages,  \* <<status, data>> of the messages sent
    Intervals,     \* the microseconds before a tick
    Window,        \* ticks the clock looks back on; 24 in the code
    MaxMessages    \* bound: how many are sent

\* What systems and messages may be.
MidiSystems ==
    [clients : SUBSET {"in", "out"}, ins : Seq(STRING), outs : Seq(STRING), virtual : BOOLEAN]

ASSUME MidiAssumption ==
    /\ Systems \subseteq MidiSystems
    /\ MidiMessages \subseteq Nat \X Seq(Nat)
    /\ Intervals \subseteq Nat /\ Window \in Nat \ {0} /\ MaxMessages \in Nat
    /\ None \notin [span : Int, intervals : Nat]

VARIABLES
    system,    \* clients: the midir clients that can be made, of "in" and "out";
               \* ins, outs: names of the ports; virtual: whether ports can be created
    listing,   \* enumerate_midi()'s result, None before
    host,      \* what a MidiHost lists: [inputs, outputs], None before there is one
    input,     \* the open input port: [index, name], or None
    output,    \* the same
    called,    \* messages a virtual input's own callback was given
    queue,     \* messages between the callback and receive()
    inFlight,  \* what was sent and not yet received
    now, sends,
    clock,     \* MidiClock: [ticks, running]
    started,   \* history: stamps of all ticks since the clock's last Start
    playing    \* history: it was given a Start or Continue, and no Stop since

midiVars == <<system, listing, host, input, output, called, queue, inFlight, now, sends, clock,
              started, playing>>
portVars == <<system, listing, host, input, output>>
clockVars == <<clock, started, playing>>

SysEx == 240
SysExEnd == 247
ClockTick == 248
Start == 250
Continue == 251
Stop == 252

MidiInit ==
    /\ system \in Systems
    /\ listing = None /\ host = None /\ input = None /\ output = None
    /\ called = <<>> /\ queue = <<>> /\ inFlight = <<>> /\ now = 0 /\ sends = 0
    /\ clock = [ticks |-> <<>>, running |-> FALSE] /\ started = <<>> /\ playing = FALSE

-----------------------------------------------------------------------------
(* Listing and opening ports. *)

Has(client) == client \in system.clients
InNames == IF Has("in") THEN system.ins ELSE <<>>
OutNames == IF Has("out") THEN system.outs ELSE <<>>

Entry(name, in, out) == [name |-> name, is_input |-> in, is_output |-> out]

\* An output is merged into the first input of its name; a client that cannot be
\* made has no ports.
MergeOutput(devices, name) ==
    LET same == {k \in DOMAIN devices : devices[k].name = name /\ devices[k].is_input}
    IN  IF same = {} THEN Append(devices, Entry(name, FALSE, TRUE))
        ELSE [devices EXCEPT ![Min(same)].is_output = TRUE]

\* Mutant: the outputs are listed first.
ListingOutputsFirst ==
    [k \in DOMAIN OutNames |-> Entry(OutNames[k], FALSE, TRUE)]
        \o [k \in DOMAIN InNames |-> Entry(InNames[k], TRUE, FALSE)]

Listing ==
    FoldLeft(MergeOutput, [k \in DOMAIN InNames |-> Entry(InNames[k], TRUE, FALSE)], OutNames)

EnumerateMidi ==
    /\ listing = None /\ listing' = Listing
    /\ UNCHANGED <<system, host, input, output, called, queue, inFlight, now, sends, clockVars>>

InputPortNames == InNames
OutputPortNames == OutNames

\* MidiHost::new(): its two clients last; with neither there is no host.
NewHost ==
    /\ host = None /\ system.clients # {}
    /\ host' = [inputs |-> InputPortNames, outputs |-> OutputPortNames]
    /\ UNCHANGED <<system, listing, input, output, called, queue, inFlight, now, sends, clockVars>>

\* Not on Windows.
Virtual == host # None /\ system.virtual

\* An open port's callback, channel and receiver are new, and its stamps may count from
\* its own start; an index is refused that no
\* port has, and any while the client cannot be made.
OpenMidiInput ==
    /\ input = None /\ Has("in")
    /\ \E k \in DOMAIN system.ins : input' = [index |-> k, name |-> system.ins[k]]
    /\ queue' = <<>> /\ inFlight' = <<>> /\ now' \in {0, now}
    /\ UNCHANGED <<system, listing, host, output, called, sends, clockVars>>

OpenMidiOutput ==
    /\ output = None /\ Has("out")
    /\ \E k \in DOMAIN system.outs : output' = [index |-> k, name |-> system.outs[k]]
    /\ UNCHANGED <<system, listing, host, input, called, queue, inFlight, now, sends, clockVars>>

\* A virtual port is created by a host, with a client of its own.  It has no index: another
\* program finds it by its name.
CreateVirtualInput ==
    /\ input = None /\ Has("in") /\ Virtual
    /\ input' = [index |-> 0, name |-> "virtual"]
    /\ queue' = <<>> /\ inFlight' = <<>> /\ now' \in {0, now}
    /\ UNCHANGED <<system, listing, host, output, called, sends, clockVars>>

CreateVirtualOutput ==
    /\ output = None /\ Has("out") /\ Virtual
    /\ output' = [index |-> 0, name |-> "virtual"]
    /\ UNCHANGED <<system, listing, host, input, called, queue, inFlight, now, sends, clockVars>>

\* The input handle is dropped: connection and channel with it.  The program may go on
\* feeding its clock from another one.
CloseInput ==
    /\ input # None
    /\ input' = None /\ queue' = <<>> /\ inFlight' = <<>>
    /\ UNCHANGED <<system, listing, host, output, called, now, sends, clockVars>>

-----------------------------------------------------------------------------
(* Messages. *)

IsSysEx(m) == m.status = SysEx

ToBytes(m) ==
    IF IsSysEx(m) THEN <<SysEx>> \o m.data \o <<SysExEnd>> ELSE <<m.status>> \o m.data

\* Mutant: the framing at the end of a SysEx message stays in its payload.
ParseMidiBytesUnframed(stamp, bytes) == [status |-> bytes[1], data |-> Tail(bytes), stamp |-> stamp]

\* The bytes of one callback, never none; the framing of a SysEx message is taken off.
ParseMidiBytes(stamp, bytes) ==
    [status |-> bytes[1],
     data   |-> IF bytes[1] = SysEx /\ Last(bytes) = SysExEnd
                THEN SubSeq(bytes, 2, Len(bytes) - 1) ELSE Tail(bytes),
     stamp  |-> stamp]

Cabled == output # None /\ input # None /\ output.name = input.name

\* send(), the cable, and the input's callback with the time of arrival.
SendMessage ==
    /\ output # None /\ sends < MaxMessages
    /\ \E m \in MidiMessages : \E gap \in IF m[1] = ClockTick THEN Intervals ELSE {0} :
        LET msg == [status |-> m[1], data |-> m[2], stamp |-> now + gap]
            got == ParseMidiBytes(now + gap, ToBytes(msg))
        IN  /\ now' = now + gap /\ sends' = sends + 1
            /\ IF Cabled
               THEN /\ queue' = Append(queue, got) /\ inFlight' = Append(inFlight, msg)
                    /\ called' = IF input.name = "virtual" THEN <<got>> ELSE called
               ELSE UNCHANGED <<queue, inFlight, called>>
    /\ UNCHANGED <<portVars, clockVars>>

\* tick(): the window moves on, and the clock runs whether it was started or not.
Tick(stamp) ==
    [ticks   |-> IF Len(clock.ticks) = Window THEN Append(Tail(clock.ticks), stamp)
                 ELSE Append(clock.ticks, stamp),
     running |-> TRUE]

\* Mutant: Start keeps the ticks of what was played before.
HandleMessageKeeping(m) ==
    CASE m.status = ClockTick -> Tick(m.stamp)
      [] m.status \in {Start, Continue} -> [clock EXCEPT !.running = TRUE]
      [] m.status = Stop     -> [clock EXCEPT !.running = FALSE]
      [] OTHER               -> clock

\* MidiClock::handle_message
HandleMessage(m) ==
    CASE m.status = ClockTick -> Tick(m.stamp)
      [] m.status = Start    -> [ticks |-> <<>>, running |-> TRUE]
      [] m.status = Continue -> [clock EXCEPT !.running = TRUE]
      [] m.status = Stop     -> [clock EXCEPT !.running = FALSE]
      [] OTHER               -> clock

\* receive(), and the clock is given what it returns.
Receive ==
    /\ input # None /\ queue # <<>>
    /\ LET m == Head(queue)
       IN  /\ clock' = HandleMessage(m)
           /\ started' = CASE m.status = ClockTick -> Append(started, m.stamp)
                           [] m.status = Start     -> <<>>
                           [] OTHER                -> started
           /\ playing' = CASE m.status \in {Start, Continue} -> TRUE
                           [] m.status = Stop              -> FALSE
                           [] OTHER                        -> playing
    /\ queue' = Tail(queue) /\ inFlight' = Tail(inFlight)
    /\ UNCHANGED <<portVars, called, now, sends>>

\* bpm(), as the microseconds and the number of intervals it is worked out from.
Bpm ==
    LET ticks == clock.ticks IN
    IF Len(ticks) < 2 \/ Last(ticks) <= Head(ticks) THEN None
    ELSE [span |-> Last(ticks) - Head(ticks), intervals |-> Len(ticks) - 1]

-----------------------------------------------------------------------------
MidiNext ==
    \/ EnumerateMidi \/ NewHost \/ OpenMidiInput \/ OpenMidiOutput
    \/ CreateVirtualInput \/ CreateVirtualOutput \/ CloseInput
    \/ SendMessage \/ Receive

MidiSpec == MidiInit /\ [][MidiNext]_midiVars

-----------------------------------------------------------------------------
(* Properties. *)

\* However the tempo changed and whatever was played before the last Start, the clock
\* shows the tempo of the ticks since then as soon as a window of them is even.
TempoIsOfLatestTicks ==
    LET n      == IF Len(started) < Window THEN Len(started) ELSE Window
        latest == SubSeq(started, Len(started) - n + 1, Len(started))
        gap    == latest[2] - latest[1]
    IN  n >= 2 /\ gap > 0 /\ (\A k \in 2 .. n : latest[k] - latest[k - 1] = gap) =>
            /\ Bpm # None
            /\ Bpm.span = gap * Bpm.intervals

\* is_running() tells whether a Start or Continue was received and no Stop since, as its
\* documentation has it, also while a device goes on ticking between two songs.
RunsFromStartToStop == clock.running = playing

\* The facade's doc says the listing gives the indices open_midi_input() takes: the
\* port an input is opened by is the one listed there, whatever was merged into it.  A
\* MidiHost lists inputs and outputs as they open, though its clients are older.
ListedOpens ==
    /\ input # None /\ input.index > 0 =>
        /\ listing # None => /\ input.index <= Len(listing)
                             /\ listing[input.index].is_input /\ listing[input.index].name = input.name
        /\ host # None => host.inputs[input.index] = input.name
    /\ output # None /\ output.index > 0 /\ host # None => host.outputs[output.index] = output.name

\* What is received is what was sent, in the order it was sent, SysEx messages too, and
\* the callback of a virtual port is given the same message as receive().
ArrivesAsSent ==
    /\ queue = inFlight
    /\ called # <<>> /\ queue # <<>> /\ input # None /\ input.name = "virtual"
           => called[1] = Last(queue)

\* The port opened at an input's place in the listing receives what was sent to it.
ArrivesWhereListed == ListedOpens /\ ArrivesAsSent
=============================================================================
