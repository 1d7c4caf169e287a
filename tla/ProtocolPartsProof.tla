-------------------------- MODULE ProtocolPartsProof -------------------------
(***************************************************************************)
(* What MIDI and JACK carry from one port to another, for every system,    *)
(* every list of messages, every size of ring, cycle, write and read, and  *)
(* every number of clients.                                                *)
(*                                                                         *)
(* MIDI: what is queued is what was sent, and the clock's window is the    *)
(* end of the ticks since the last Start.  The listing is a fold over the  *)
(* outputs, which leaves the inputs where they are.                        *)
(* Audio: while the input hears every cycle of the output, what read()     *)
(* returned, the rings, the ports and the write() under way hold, one      *)
(* after the other, all that was written but for what write() dropped:     *)
(* every callback moves a sample over one of the borders between them.     *)
(* Cable: feed() and recv_with_sysex() are folds, which are functions on   *)
(* how far they are.  Fed all that is on its way, the receiver becomes one *)
(* that was given accepted messages only and holds what was pushed of the  *)
(* message being sent; that receiver changes only when a chunk goes in.    *)
(* Wiring: nothing is wired before the server has named the client, and    *)
(* no name changes then.                                                   *)
(***************************************************************************)
EXTENDS ProtocolParts, NumberLemmas, SequenceTheorems, FiniteSetTheorems, TLAPS

-----------------------------------------------------------------------------
(* MidiPorts: messages and the clock. *)

Received == [status : Nat, data : Seq(Nat), stamp : Nat]

\* A message that went through a port is the message that was sent: the framing the port
\* puts around a SysEx message is taken off again.
LEMMA ParsedIsSent ==
    ASSUME NEW m \in Received
    PROVE  ParseMidiBytes(m.stamp, ToBytes(m)) = m
<1> DEFINE d == m.data
           got == ParseMidiBytes(m.stamp, ToBytes(m))
<1>1. m.status \in Nat /\ d \in Seq(Nat) /\ m.stamp \in Nat /\ Len(d) \in Nat
  BY LenProperties DEF Received
<1>2. m = [status |-> m.status, data |-> d, stamp |-> m.stamp]  BY DEF Received
<1> HIDE DEF d
<1>3. CASE m.status = SysEx
  <2> DEFINE open == <<SysEx>> \o d
             bytes == open \o <<SysExEnd>>
  <2>1. /\ open \in Seq(Nat) /\ Len(open) = Len(d) + 1
        /\ open[1] = SysEx /\ \A i \in 1 .. Len(d) : open[i + 1] = d[i]
    BY <1>1 DEF SysEx
  <2> HIDE DEF open
  <2>2. /\ bytes \in Seq(Nat) /\ Len(bytes) = Len(d) + 2
        /\ bytes[Len(d) + 2] = SysExEnd /\ \A i \in 1 .. Len(d) + 1 : bytes[i] = open[i]
    BY <1>1, <2>1 DEF SysExEnd
  <2>3. ToBytes(m) = bytes  BY <1>3 DEF ToBytes, IsSysEx, d, open
  <2> HIDE DEF bytes
  <2>4. bytes[1] = SysEx /\ Last(bytes) = SysExEnd  BY <1>1, <2>1, <2>2 DEF Last
  <2>5. SubSeq(bytes, 2, Len(bytes) - 1) = d
    <3> DEFINE s == SubSeq(bytes, 2, Len(d) + 1)
    <3>1. s \in Seq(Nat) /\ Len(s) = Len(d) /\ \A i \in 1 .. Len(d) : s[i] = bytes[i + 1]
      BY <1>1, <2>2, SMTT(30)
    <3> HIDE DEF s
    <3>2. ASSUME NEW i \in 1 .. Len(d) PROVE s[i] = d[i]
      <4>1. i + 1 \in 1 .. Len(d) + 1  BY <1>1
      <4> QED  BY <2>1, <2>2, <3>1, <4>1
    <3>3. s = d  BY <1>1, <3>1, <3>2, SeqEqual
    <3>4. Len(bytes) - 1 = Len(d) + 1  BY <1>1, <2>2
    <3> QED  BY <3>3, <3>4 DEF s
  <2>6. got = [status |-> bytes[1], data |-> d, stamp |-> m.stamp]
    BY <2>3, <2>4, <2>5 DEF ParseMidiBytes
  <2> QED  BY <1>2, <1>3, <2>4, <2>6
<1>4. CASE m.status # SysEx
  <2> DEFINE bytes == <<m.status>> \o d
  <2>1. /\ bytes \in Seq(Nat) /\ Len(bytes) = Len(d) + 1
        /\ bytes[1] = m.status /\ \A i \in 1 .. Len(d) : bytes[i + 1] = d[i]
    BY <1>1
  <2>2. ToBytes(m) = bytes  BY <1>4 DEF ToBytes, IsSysEx, d
  <2> HIDE DEF bytes
  <2>3. Tail(bytes) = d
    <3> DEFINE s == Tail(bytes)
    <3>1. s \in Seq(Nat) /\ Len(s) = Len(d) /\ \A i \in 1 .. Len(d) : s[i] = bytes[i + 1]
      BY <1>1, <2>1
    <3> HIDE DEF s
    <3>2. s = d  BY <1>1, <2>1, <3>1, SeqEqual
    <3> QED  BY <3>2 DEF s
  <2>4. got = [status |-> m.status, data |-> d, stamp |-> m.stamp]
    BY <1>4, <2>1, <2>2, <2>3 DEF ParseMidiBytes
  <2> QED  BY <1>2, <2>4
<1> QED  BY <1>3, <1>4

\* `t` is the end of `s`, at most `w` of it.
Ends(t, s, w) ==
    /\ Len(t) = IF Len(s) < w THEN Len(s) ELSE w
    /\ \A k \in 1 .. Len(t) : t[k] = s[Len(s) - Len(t) + k]

\* What is under way is what was sent; the clock's window is the end of the ticks since
\* the last Start.
ChannelInv ==
    /\ now \in Nat /\ queue \in Seq(Received) /\ inFlight = queue
    /\ called # <<>> /\ queue # <<>> /\ input # None /\ input.name = "virtual" =>
           called[1] = Last(queue)

ClockInv ==
    /\ started \in Seq(Nat) /\ clock.ticks \in Seq(Nat) /\ DOMAIN clock = {"ticks", "running"}
    /\ Ends(clock.ticks, started, Window)

LEMMA Appended ==
    ASSUME NEW S, NEW q \in Seq(S), NEW x \in S
    PROVE  /\ Append(q, x) \in Seq(S) /\ Len(Append(q, x)) = Len(q) + 1
           /\ Append(q, x)[Len(q) + 1] = x /\ \A i \in 1 .. Len(q) : Append(q, x)[i] = q[i]
  OBVIOUS

\* A tick moves the window on by one.
LEMMA WindowMoves ==
    ASSUME NEW t \in Seq(Nat), NEW s \in Seq(Nat), NEW w \in Nat \ {0}, NEW x \in Nat,
           Ends(t, s, w),
           NEW u, u = IF Len(t) = w THEN Append(Tail(t), x) ELSE Append(t, x)
    PROVE  u \in Seq(Nat) /\ Ends(u, Append(s, x), w)
<1> DEFINE z == Append(s, x)
<1>0. /\ Len(t) = IF Len(s) < w THEN Len(s) ELSE w
      /\ \A k \in 1 .. Len(t) : t[k] = s[Len(s) - Len(t) + k]
  BY DEF Ends
<1>1. z \in Seq(Nat) /\ Len(z) = Len(s) + 1 /\ z[Len(s) + 1] = x /\ \A i \in 1 .. Len(s) : z[i] = s[i]
  OBVIOUS
<1> HIDE DEF z
<1>2. Len(s) \in Nat /\ Len(t) \in Nat  OBVIOUS
<1>3. CASE Len(t) = w
  <2> DEFINE r == Tail(t)
  <2>1. r \in Seq(Nat) /\ Len(r) = w - 1 /\ \A i \in 1 .. w - 1 : r[i] = t[i + 1]
    BY <1>3
  <2> HIDE DEF r
  <2>2. u = Append(r, x)  BY <1>3 DEF r
  <2>3. u \in Seq(Nat) /\ Len(u) = w /\ u[w] = x /\ \A i \in 1 .. w - 1 : u[i] = r[i]
    <3>1. /\ u \in Seq(Nat) /\ Len(u) = Len(r) + 1 /\ u[Len(r) + 1] = x
          /\ \A i \in 1 .. Len(r) : u[i] = r[i]
      <4>1. /\ Append(r, x) \in Seq(Nat) /\ Len(Append(r, x)) = Len(r) + 1
            /\ Append(r, x)[Len(r) + 1] = x /\ \A i \in 1 .. Len(r) : Append(r, x)[i] = r[i]
        BY <2>1, Appended
      <4> QED  BY <2>2, <4>1, Zenon
    <3>2. Len(r) + 1 = w  BY <2>1
    <3> QED  BY <2>1, <3>1, <3>2
  <2>4. w <= Len(s)  BY <1>0, <1>2, <1>3
  <2>5. Len(u) = IF Len(z) < w THEN Len(z) ELSE w  BY <1>1, <1>2, <2>3, <2>4
  <2>6. ASSUME NEW k \in 1 .. w PROVE u[k] = z[Len(z) - w + k]
    <3>1. CASE k = w  BY <1>1, <1>2, <2>3, <3>1
    <3>2. CASE k # w
      <4>1. k \in 1 .. w - 1 /\ k + 1 \in 1 .. w  BY <3>2
      <4>2. u[k] = s[Len(s) - w + (k + 1)]  BY <1>0, <1>3, <2>1, <2>3, <4>1
      <4>3. Len(s) - w + (k + 1) \in 1 .. Len(s) /\ Len(z) - w + k = Len(s) - w + (k + 1)
        BY <1>1, <1>2, <2>4, <4>1
      <4> QED  BY <1>1, <4>2, <4>3
    <3> QED  BY <3>1, <3>2
  <2> QED  BY <2>3, <2>5, <2>6 DEF z, Ends
<1>4. CASE Len(t) # w
  <2>1. Len(s) < w /\ Len(t) = Len(s)  BY <1>0, <1>2, <1>4
  <2>2. u = Append(t, x)  BY <1>4
  <2>3. u \in Seq(Nat) /\ Len(u) = Len(t) + 1 /\ u[Len(t) + 1] = x /\ \A i \in 1 .. Len(t) : u[i] = t[i]
    BY <2>2
  <2>4. Len(u) = IF Len(z) < w THEN Len(z) ELSE w  BY <1>1, <1>2, <2>1, <2>3
  <2>5. ASSUME NEW k \in 1 .. Len(u) PROVE u[k] = z[Len(z) - Len(u) + k]
    <3>1. Len(z) - Len(u) + k = k
      <4>1. Len(z) = Len(u) /\ Len(u) \in Nat /\ k \in Nat  BY <1>1, <1>2, <2>1, <2>3
      <4> QED  BY <4>1
    <3>2. CASE k = Len(t) + 1  BY <1>1, <2>1, <2>3, <3>1, <3>2
    <3>3. CASE k # Len(t) + 1
      <4>1. k \in 1 .. Len(t) /\ Len(s) - Len(t) + k = k  BY <1>2, <2>1, <2>3, <3>3
      <4> QED  BY <1>0, <1>1, <2>1, <2>3, <3>1, <4>1, ZenonT(60)
    <3> QED  BY <3>2, <3>3
  <2> QED  BY <2>3, <2>4, <2>5 DEF z, Ends
<1> QED  BY <1>3, <1>4

LEMMA MidiInitHolds == MidiInit => ChannelInv /\ ClockInv
<1> SUFFICES ASSUME MidiInit PROVE ChannelInv /\ ClockInv  OBVIOUS
<1>1. queue = <<>> /\ inFlight = <<>> /\ now = 0 /\ called = <<>>  BY DEF MidiInit
<1>2. clock = [ticks |-> <<>>, running |-> FALSE] /\ started = <<>>  BY DEF MidiInit
<1>3. ChannelInv  BY <1>1 DEF ChannelInv
<1>4. ClockInv  BY <1>2, MidiAssumption DEF ClockInv, Ends
<1> QED  BY <1>3, <1>4

\* Listing and opening: a port that is opened has a channel of its own.
LEMMA PortsKeep ==
    ASSUME ChannelInv, ClockInv,
           \/ EnumerateMidi \/ NewHost \/ OpenMidiInput \/ OpenMidiOutput
           \/ CreateVirtualInput \/ CreateVirtualOutput \/ CloseInput
    PROVE  ChannelInv' /\ ClockInv'
<1>1. UNCHANGED <<clock, started>>
  BY DEF EnumerateMidi, NewHost, OpenMidiInput, OpenMidiOutput, CreateVirtualInput,
     CreateVirtualOutput, CloseInput, clockVars
<1>2. /\ now' \in {0, now}
      /\ UNCHANGED <<queue, inFlight, called, input>> \/ (queue' = <<>> /\ inFlight' = <<>>)
  BY DEF EnumerateMidi, NewHost, OpenMidiInput, OpenMidiOutput, CreateVirtualInput,
     CreateVirtualOutput, CloseInput, clockVars
<1>3. ChannelInv'
  <2>1. CASE UNCHANGED <<queue, inFlight, called, input>>  BY <1>2, <2>1 DEF ChannelInv
  <2>2. CASE queue' = <<>> /\ inFlight' = <<>>  BY <1>2, <2>2 DEF ChannelInv
  <2> QED  BY <1>2, <2>1, <2>2
<1>4. ClockInv'  BY <1>1 DEF ClockInv
<1> QED  BY <1>3, <1>4

LEMMA SendKeeps ==
    ASSUME ChannelInv, ClockInv, SendMessage
    PROVE  ChannelInv' /\ ClockInv'
<1>1. UNCHANGED <<clock, started, input>>  BY DEF SendMessage, portVars, clockVars
<1>2. ClockInv'  BY <1>1 DEF ClockInv
<1>3. PICK m \in MidiMessages, gap \in Intervals \cup {0} :
         LET msg == [status |-> m[1], data |-> m[2], stamp |-> now + gap]
             got == ParseMidiBytes(now + gap, ToBytes(msg))
         IN  /\ now' = now + gap
             /\ IF Cabled
                THEN /\ queue' = Append(queue, got) /\ inFlight' = Append(inFlight, msg)
                     /\ called' = IF input.name = "virtual" THEN <<got>> ELSE called
                ELSE UNCHANGED <<queue, inFlight, called>>
  BY DEF SendMessage
<1>4. m[1] \in Nat /\ m[2] \in Seq(Nat) /\ gap \in Nat /\ now \in Nat
  BY MidiAssumption DEF ChannelInv
<1>5. now' = now + gap /\ now' \in Nat  BY <1>3, <1>4
<1> DEFINE msg == [status |-> m[1], data |-> m[2], stamp |-> now + gap]
<1>6. msg \in Received /\ msg.stamp = now + gap  BY <1>4, <1>5 DEF Received
<1>7. ParseMidiBytes(now + gap, ToBytes(msg)) = msg  BY <1>6, ParsedIsSent
<1>8. \/ UNCHANGED <<queue, inFlight, called>>
      \/ /\ queue' = Append(queue, msg) /\ inFlight' = Append(inFlight, msg)
         /\ input.name = "virtual" => called' = <<msg>>
  BY <1>3, <1>7
<1> HIDE DEF msg
<1>9. ChannelInv'
  <2>1. CASE UNCHANGED <<queue, inFlight, called>>  BY <1>1, <1>5, <2>1 DEF ChannelInv
  <2>2. CASE /\ queue' = Append(queue, msg) /\ inFlight' = Append(inFlight, msg)
             /\ input.name = "virtual" => called' = <<msg>>
    <3>1. queue \in Seq(Received) /\ inFlight = queue  BY DEF ChannelInv
    <3>2. /\ queue' \in Seq(Received) /\ Len(queue') = Len(queue) + 1
          /\ queue'[Len(queue) + 1] = msg /\ inFlight' = queue'
      BY <1>6, <2>2, <3>1
    <3>3. Last(queue)' = msg  BY <3>2 DEF Last
    <3> QED  BY <1>1, <1>5, <2>2, <3>2, <3>3 DEF ChannelInv
  <2> QED  BY <1>8, <2>1, <2>2
<1> QED  BY <1>2, <1>9

LEMMA ReceiveKeeps ==
    ASSUME ChannelInv, ClockInv, Receive
    PROVE  ChannelInv' /\ ClockInv'
<1> DEFINE m == Head(queue)
<1>1. /\ queue # <<>> /\ clock' = HandleMessage(m)
      /\ started' = CASE m.status = ClockTick -> Append(started, m.stamp)
                      [] m.status = Start     -> <<>>
                      [] OTHER                -> started
      /\ queue' = Tail(queue) /\ inFlight' = Tail(inFlight) /\ UNCHANGED <<input, called, now>>
  BY DEF Receive, portVars
<1>2. queue \in Seq(Received) /\ inFlight = queue  BY DEF ChannelInv
<1>3. m \in Received /\ queue' \in Seq(Received) /\ Len(queue') = Len(queue) - 1 /\ Len(queue) \in Nat \ {0}
      /\ \A i \in 1 .. Len(queue) - 1 : queue'[i] = queue[i + 1]
  BY <1>1, <1>2
<1>4. queue' # <<>> => Last(queue)' = Last(queue)
  <2> SUFFICES ASSUME queue' # <<>> PROVE Last(queue)' = Last(queue)  OBVIOUS
  <2>1. Len(queue) - 1 \in 1 .. Len(queue) - 1  BY <1>3
  <2> QED  BY <1>3, <2>1 DEF Last
<1>5. ChannelInv'  BY <1>1, <1>2, <1>3, <1>4 DEF ChannelInv
<1> HIDE DEF m
<1>6. m.stamp \in Nat  BY <1>3 DEF Received
<1>7. ClockInv'
  <2>1. CASE m.status = ClockTick
    <3> DEFINE u == IF Len(clock.ticks) = Window THEN Append(Tail(clock.ticks), m.stamp)
                    ELSE Append(clock.ticks, m.stamp)
    <3>1. clock' = [ticks |-> u, running |-> TRUE] /\ started' = Append(started, m.stamp)
      BY <1>1, <2>1 DEF HandleMessage, Tick, ClockTick, Start, Continue, Stop
    <3>5. /\ clock.ticks \in Seq(Nat) /\ started \in Seq(Nat) /\ Window \in Nat \ {0}
          /\ Ends(clock.ticks, started, Window)
      BY MidiAssumption DEF ClockInv
    <3>2. u \in Seq(Nat) /\ Ends(u, Append(started, m.stamp), Window)
      <4>1. PICK v, t, s, x, w : v = u /\ t = clock.ticks /\ s = started /\ x = m.stamp /\ w = Window
        OBVIOUS
      <4>2. v = IF Len(t) = w THEN Append(Tail(t), x) ELSE Append(t, x)  BY <4>1
      <4> HIDE DEF u
      <4>4. t \in Seq(Nat)  BY <3>5, <4>1
      <4>5. s \in Seq(Nat)  BY <3>5, <4>1
      <4>6. w \in Nat \ {0}  BY <3>5, <4>1
      <4>7. x \in Nat  BY <1>6, <4>1
      <4>8. Ends(t, s, w)  BY <3>5, <4>1
      <4>3. v \in Seq(Nat) /\ Ends(v, Append(s, x), w)
        BY <4>2, <4>4, <4>5, <4>6, <4>7, <4>8, WindowMoves
      <4> QED  BY <4>1, <4>3
    <3> HIDE DEF u
    <3>3. started' \in Seq(Nat)  BY <1>6, <3>1 DEF ClockInv
    <3>4. clock'.ticks = u /\ DOMAIN clock' = {"ticks", "running"}  BY <3>1
    <3> QED  BY <3>1, <3>2, <3>3, <3>4 DEF ClockInv
  <2>2. CASE m.status = Start
    <3>1. clock' = [ticks |-> <<>>, running |-> TRUE] /\ started' = <<>>
      BY <1>1, <2>2 DEF HandleMessage, ClockTick, Start, Continue, Stop
    <3> QED  BY <3>1, MidiAssumption DEF ClockInv, Ends
  <2>3. CASE m.status # ClockTick /\ m.status # Start
    <3>1. /\ started' = started /\ clock'.ticks = clock.ticks
          /\ DOMAIN clock' = {"ticks", "running"}
      BY <1>1, <2>3 DEF HandleMessage, ClockTick, Start, Continue, Stop, ClockInv
    <3> QED  BY <3>1 DEF ClockInv
  <2> QED  BY <2>1, <2>2, <2>3
<1> QED  BY <1>5, <1>7

LEMMA MidiNextHolds ==
    ASSUME ChannelInv, ClockInv, [MidiNext]_midiVars
    PROVE  ChannelInv' /\ ClockInv'
<1>1. CASE UNCHANGED midiVars
  BY <1>1 DEF midiVars, ChannelInv, ClockInv
<1> QED  BY <1>1, PortsKeep, SendKeeps, ReceiveKeeps DEF MidiNext

\* Ticks that are even span as many gaps as there are between the first and the last.
LEMMA EvenTicks ==
    ASSUME NEW t \in Seq(Nat), NEW g \in Int, Len(t) >= 1,
           \A k \in 2 .. Len(t) : t[k] - t[k - 1] = g
    PROVE  t[Len(t)] - t[1] = g * (Len(t) - 1)
<1> DEFINE Good == {k \in Nat : k + 1 \in 1 .. Len(t) => t[k + 1] - t[1] = g * k}
<1>1. \A i \in 1 .. Len(t) : t[i] \in Nat  OBVIOUS
<1>2. 0 \in Good  BY <1>1
<1>3. ASSUME NEW k \in Good PROVE k + 1 \in Good
  <2> SUFFICES ASSUME (k + 1) + 1 \in 1 .. Len(t) PROVE t[(k + 1) + 1] - t[1] = g * (k + 1)
    OBVIOUS
  <2>1. k + 1 \in 1 .. Len(t) /\ k + 2 \in 2 .. Len(t) /\ (k + 1) + 1 = k + 2 /\ (k + 2) - 1 = k + 1
    OBVIOUS
  <2>2. t[k + 1] - t[1] = g * k /\ t[k + 2] - t[k + 1] = g  BY <2>1
  <2>3. t[k + 1] \in Nat /\ t[1] \in Nat /\ t[k + 2] \in Nat  BY <1>1, <2>1
  <2>4. g * (k + 1) = g * k + g /\ g * k \in Int  OBVIOUS
  <2>5. t[k + 2] - t[1] = g * k + g  BY <2>2, <2>3, <2>4, SMTT(30)
  <2> QED  BY <2>1, <2>4, <2>5
<1>4. Good \in SUBSET Nat  OBVIOUS
<1> HIDE DEF Good
<1>5. Nat \subseteq Good  BY <1>2, <1>3, <1>4, SetInduction
<1>6. Len(t) - 1 \in Good  BY <1>5
<1> QED  BY <1>6 DEF Good

LEMMA ClockShowsTempo == ClockInv => TempoIsOfLatestTicks
<1> SUFFICES ASSUME ClockInv PROVE TempoIsOfLatestTicks  OBVIOUS
<1> DEFINE n == IF Len(started) < Window THEN Len(started) ELSE Window
           latest == SubSeq(started, Len(started) - n + 1, Len(started))
           t == clock.ticks
<1>1. started \in Seq(Nat) /\ t \in Seq(Nat) /\ Len(t) = n /\ n \in Nat /\ n <= Len(started)
      /\ \A k \in 1 .. n : t[k] = started[Len(started) - n + k]
  <2>1. /\ started \in Seq(Nat) /\ t \in Seq(Nat) /\ Len(t) = n
        /\ \A k \in 1 .. Len(t) : t[k] = started[Len(started) - Len(t) + k]
    BY Zenon DEF ClockInv, Ends
  <2>2. Len(started) \in Nat  BY <2>1, LenProperties
  <2>3. n \in Nat /\ n <= Len(started)  BY <2>2, MidiAssumption
  <2> HIDE DEF n, t
  <2> QED  BY <2>1, <2>3, Zenon
<1> HIDE DEF n, t
<1>2. latest = t
  <2>1. latest \in Seq(Nat) /\ Len(latest) = n /\ \A k \in 1 .. n : latest[k] = started[Len(started) - n + k]
    <3> HIDE DEF latest
    <3>0. PICK e \in Nat : e = Len(started)  BY <1>1, LenProperties
    <3>a. n \in Nat /\ n <= e  BY <1>1, <3>0, Zenon
    <3>b. e - n + 1 \in Nat  BY <3>a
    <3>1. PICK m \in Nat : m = e - n + 1  BY <3>b, Zenon
    <3>2. /\ m \in Int /\ e \in Int /\ e - m + 1 = n /\ (IF m <= e THEN e - m + 1 ELSE 0) = n
          /\ \A k \in m .. e : k \in 1 .. e
          /\ \A k \in 1 .. n : m + k - 1 = e - n + k
      BY <3>a, <3>1
    <3>3. \A k \in m .. e : started[k] \in Nat  BY <1>1, <3>0, <3>2, ElementOfSeq
    <3>4. /\ SubSeq(started, m, e) \in Seq(Nat)
          /\ Len(SubSeq(started, m, e)) = IF m <= e THEN e - m + 1 ELSE 0
          /\ \A k \in 1 .. e - m + 1 : SubSeq(started, m, e)[k] = started[m + k - 1]
      BY <3>2, <3>3, SubSeqProperties
    <3>5. latest = SubSeq(started, m, e)  BY <3>0, <3>1, Zenon DEF latest
    <3> QED  BY <3>0, <3>2, <3>4, <3>5, Zenon
  <2> HIDE DEF latest
  <2> QED  BY <1>1, <2>1, SeqEqual
<1> SUFFICES ASSUME n >= 2, latest[2] - latest[1] > 0,
                    \A k \in 2 .. n : latest[k] - latest[k - 1] = latest[2] - latest[1]
             PROVE  Bpm # None /\ Bpm.span = (latest[2] - latest[1]) * Bpm.intervals
  BY Zenon DEF TempoIsOfLatestTicks, n, latest
<1> HIDE DEF latest
<1> SUFFICES ASSUME n >= 2, t[2] - t[1] > 0,
                    \A k \in 2 .. n : t[k] - t[k - 1] = t[2] - t[1]
             PROVE  Bpm # None /\ Bpm.span = (t[2] - t[1]) * Bpm.intervals
  BY <1>2, Zenon
<1>3. PICK g \in Nat \ {0} : g = t[2] - t[1]  BY <1>1, SMTT(30)
<1>4. t[n] - t[1] = g * (n - 1)
  <2>1. Len(t) >= 1 /\ \A k \in 2 .. Len(t) : t[k] - t[k - 1] = g  BY <1>1, <1>3
  <2>2. t[Len(t)] - t[1] = g * (Len(t) - 1)
    <3>1. PICK q \in Seq(Nat), h \in Int : q = t /\ h = g  BY <1>1
    <3>2. Len(q) >= 1 /\ \A k \in 2 .. Len(q) : q[k] - q[k - 1] = h  BY <2>1, <3>1, Zenon
    <3>3. q[Len(q)] - q[1] = h * (Len(q) - 1)  BY <3>2, EvenTicks, Zenon
    <3> QED  BY <3>1, <3>3, Zenon
  <2> QED  BY <1>1, <2>2
<1>5. PICK p \in Nat \ {0} : p = g * (n - 1)
  <2>1. n - 1 \in Nat \ {0}  BY <1>1
  <2>2. g * (n - 1) \in Nat \ {0}
    <3>1. PICK b \in Nat \ {0} : b = n - 1  BY <2>1
    <3>2. g * b >= b /\ g * b \in Nat  BY <1>3
    <3>3. g * (n - 1) = g * b  BY <3>1, Zenon
    <3>4. g * b \in Nat \ {0}  BY <3>2
    <3> QED  BY <3>3, <3>4, Zenon
  <2> QED  BY <2>2
<1>6. t[n] \in Nat /\ t[1] \in Nat /\ t[n] > t[1]
  <2>1. t[n] \in Nat /\ t[1] \in Nat
    <3>1. n \in 1 .. Len(t) /\ 1 \in 1 .. Len(t)  BY <1>1
    <3> QED  BY <1>1, <3>1, ElementOfSeq
  <2>2. t[n] - t[1] = p  BY <1>4, <1>5
  <2> QED  BY <2>1, <2>2
<1>7. Last(t) = t[n] /\ Head(t) = t[1]  BY <1>1 DEF Last
<1>8. Bpm = [span |-> t[n] - t[1], intervals |-> n - 1]
  <2>1. ~(Len(t) < 2) /\ ~(Last(t) <= Head(t))  BY <1>1, <1>6, <1>7, SMTT(30)
  <2> QED  BY <1>1, <1>7, <2>1 DEF Bpm, t
<1>9. Bpm # None
  <2>1. t[n] - t[1] \in Int /\ n - 1 \in Nat  BY <1>1, <1>6, SMTT(30)
  <2>2. Bpm \in [span : Int, intervals : Nat]  BY <1>8, <2>1
  <2> QED  BY <2>2, MidiAssumption
<1> QED  BY <1>3, <1>4, <1>8, <1>9

-----------------------------------------------------------------------------
(* MidiPorts: the listing. *)

LEMMA MaxIsGreatest == ASSUME NEW T PROVE Max(T) = Greatest(T)
  BY Zenon DEF Max, Greatest

Devices == Seq([name : STRING, is_input : BOOLEAN, is_output : BOOLEAN])

\* Merging an output in leaves the ports listed so far where and what they are.
LEMMA MergeKeeps ==
    ASSUME NEW d \in Devices, NEW x \in STRING
    PROVE  /\ MergeOutput(d, x) \in Devices /\ Len(d) <= Len(MergeOutput(d, x))
           /\ \A k \in 1 .. Len(d) : /\ MergeOutput(d, x)[k].name = d[k].name
                                     /\ MergeOutput(d, x)[k].is_input = d[k].is_input
<1> DEFINE same == {k \in DOMAIN d : d[k].name = x /\ d[k].is_input}
           e == Entry(x, FALSE, TRUE)
<1>1. e \in [name : STRING, is_input : BOOLEAN, is_output : BOOLEAN]  BY DEF Entry
<1> HIDE DEF e
<1>2. CASE same = {}
  <2>1. MergeOutput(d, x) = Append(d, e)  BY <1>2 DEF MergeOutput, e
  <2>2. /\ Append(d, e) \in Devices /\ Len(Append(d, e)) = Len(d) + 1 /\ Len(d) \in Nat
        /\ \A k \in 1 .. Len(d) : Append(d, e)[k] = d[k]
    BY <1>1 DEF Devices
  <2> QED  BY <2>1, <2>2
<1>3. CASE same # {}
  <2>1. PICK k \in DOMAIN d : k = Min(same)
    <3>1. same \in SUBSET Nat  BY DEF Devices
    <3> HIDE DEF same
    <3>2. \E y \in same : \A z \in same : y <= z  BY <1>3, <3>1, LeastNumber
    <3>3. Min(same) \in same  BY <3>2, Zenon DEF Min
    <3> QED  BY <3>3 DEF same
  <2>2. MergeOutput(d, x) = [d EXCEPT ![k].is_output = TRUE]  BY <1>3, <2>1 DEF MergeOutput
  <2>3. d[k] \in [name : STRING, is_input : BOOLEAN, is_output : BOOLEAN]
    <3>1. k \in 1 .. Len(d)  BY <2>1 DEF Devices
    <3> QED  BY <3>1, ElementOfSeq DEF Devices
  <2> DEFINE r == [d[k] EXCEPT !.is_output = TRUE]
  <2>4. /\ r \in [name : STRING, is_input : BOOLEAN, is_output : BOOLEAN]
        /\ r.name = d[k].name /\ r.is_input = d[k].is_input
    BY <2>3
  <2>5. MergeOutput(d, x) = [d EXCEPT ![k] = r]  BY <2>2
  <2> HIDE DEF r
  <2>6. [d EXCEPT ![k] = r] \in Devices /\ Len([d EXCEPT ![k] = r]) = Len(d) /\ Len(d) \in Nat
    BY <2>1, <2>4 DEF Devices
  <2>7. \A j \in 1 .. Len(d) : [d EXCEPT ![k] = r][j] = IF j = k THEN r ELSE d[j]
    BY <2>1 DEF Devices
  <2> QED  BY <2>4, <2>5, <2>6, <2>7
<1> QED  BY <1>2, <1>3

\* The inputs are listed first, in their order, whatever was merged into them.
LEMMA ListingStartsWithInputs ==
    ASSUME NEW ins \in Seq(STRING), NEW outs \in Seq(STRING)
    PROVE  LET base == [k \in DOMAIN ins |-> Entry(ins[k], TRUE, FALSE)]
               all  == FoldLeft(MergeOutput, base, outs)
           IN  /\ all \in Devices /\ Len(ins) <= Len(all)
               /\ \A k \in 1 .. Len(ins) : all[k].name = ins[k] /\ all[k].is_input
<1> DEFINE base == [k \in DOMAIN ins |-> Entry(ins[k], TRUE, FALSE)]
           n == Len(outs)
           Is(g) == g = [t \in SUBSET DOMAIN outs |->
                           IF t = {} THEN base
                           ELSE MergeOutput(g[t \ {Max(t)}], outs[Max(t)])]
           iter == CHOOSE g : Is(g)
<1>1. FoldLeft(MergeOutput, base, outs) = iter[DOMAIN outs]
  BY DEF FoldLeft, MapThenFoldSet
<1>2. n \in Nat /\ DOMAIN outs = 1 .. n /\ \A k \in 1 .. n : outs[k] \in STRING
  OBVIOUS
<1>3. base \in Devices /\ Len(base) = Len(ins)
      /\ \A k \in 1 .. Len(ins) : base[k].name = ins[k] /\ base[k].is_input = TRUE
  <2>1. \A k \in DOMAIN ins : Entry(ins[k], TRUE, FALSE) \in [name : STRING, is_input : BOOLEAN, is_output : BOOLEAN]
    BY DEF Entry
  <2>2. DOMAIN ins = 1 .. Len(ins) /\ Len(ins) \in Nat  OBVIOUS
  <2>3. base \in Devices /\ Len(base) = Len(ins)
    <3> DEFINE S == [name : STRING, is_input : BOOLEAN, is_output : BOOLEAN]
    <3>1. base \in [1 .. Len(ins) -> S] /\ DOMAIN base = 1 .. Len(ins)  BY <2>1, <2>2
    <3> HIDE DEF base, S
    <3>2. base \in Seq(S) /\ Len(base) = Len(ins)
      <4>1. base \in Seq(S)  BY <2>2, <3>1, SeqDef
      <4> QED  BY <2>2, <3>1, <4>1
    <3> QED  BY <3>2 DEF Devices, S
  <2>4. \A k \in 1 .. Len(ins) : base[k] = Entry(ins[k], TRUE, FALSE)  BY <2>2
  <2> HIDE DEF base
  <2>5. \A k \in 1 .. Len(ins) : base[k].name = ins[k] /\ base[k].is_input = TRUE
    <3> SUFFICES ASSUME NEW k \in 1 .. Len(ins) PROVE base[k].name = ins[k] /\ base[k].is_input = TRUE
      OBVIOUS
    <3>1. base[k] = [name |-> ins[k], is_input |-> TRUE, is_output |-> FALSE]  BY <2>4 DEF Entry
    <3> QED  BY <3>1
  <2> QED  BY <2>3, <2>5
<1> HIDE DEF n, base
<1> DEFINE G == [p \in Devices \X (1 .. n) |-> MergeOutput(p[1], outs[p[2]])]
<1>4. G \in [Devices \X (1 .. n) -> Devices]  BY <1>2, MergeKeeps
<1>5. \A d \in Devices, k \in 1 .. n : G[<<d, k>>] = MergeOutput(d, outs[k])  OBVIOUS
<1> HIDE DEF G
<1>6. Is(iter)
  <2>1. PICK g : FoldsTo(g, n, Devices, base, G)
    <3>1. PICK D, b, m : D = Devices /\ b = base /\ m = n  OBVIOUS
    <3>2. b \in D /\ m \in Nat /\ G \in [D \X (1 .. m) -> D]  BY <1>2, <1>3, <1>4, <3>1, Zenon
    <3>3. \E g : FoldsTo(g, m, D, b, G)  BY <3>2, FoldExists, Zenon
    <3> QED  BY <3>1, <3>3, Zenon
  <2>2. /\ g \in [SUBSET (1 .. n) -> Devices]
        /\ \A T \in SUBSET (1 .. n) :
               g[T] = IF T = {} THEN base ELSE G[<<g[T \ {Greatest(T)}], Greatest(T)>>]
    BY <2>1 DEF FoldsTo
  <2>3. ASSUME NEW T \in SUBSET (1 .. n)
        PROVE  g[T] = IF T = {} THEN base ELSE MergeOutput(g[T \ {Max(T)}], outs[Max(T)])
    <3>1. CASE T = {}  BY <2>2, <3>1
    <3>2. CASE T # {}
      <4>1. Greatest(T) \in 1 .. n /\ T \ {Greatest(T)} \in SUBSET (1 .. n)
        BY <1>2, <3>2, GreatestOfPlaces
      <4>2. g[T \ {Greatest(T)}] \in Devices  BY <2>2, <4>1
      <4> QED  BY <1>5, <2>2, <3>2, <4>1, <4>2, MaxIsGreatest
    <3> QED  BY <3>1, <3>2
  <2>4. g = [T \in SUBSET (1 .. n) |-> g[T]]  BY <2>2
  <2>5. g = [t \in SUBSET (1 .. n) |-> IF t = {} THEN base
                                     ELSE MergeOutput(g[t \ {Max(t)}], outs[Max(t)])]
    BY <2>3, <2>4, Zenon
  <2> QED  BY <1>2, <2>5, Zenon
<1>7. ASSUME NEW T \in SUBSET (1 .. n)
      PROVE  IF T = {} THEN iter[T] = base
             ELSE iter[T \ {Greatest(T)}] \in Devices =>
                      iter[T] = G[<<iter[T \ {Greatest(T)}], Greatest(T)>>]
  <2>1. iter[T] = IF T = {} THEN base ELSE MergeOutput(iter[T \ {Max(T)}], outs[Max(T)])
    BY <1>2, <1>6
  <2>2. T # {} => Greatest(T) \in 1 .. n  BY <1>2, GreatestOfPlaces
  <2> HIDE DEF iter
  <2> QED  BY <1>5, <2>1, <2>2, MaxIsGreatest
<1> HIDE DEF iter, Is
<1>8. /\ iter[1 .. 0] = base /\ \A k \in 0 .. n : iter[1 .. k] \in Devices
      /\ \A k \in 1 .. n : iter[1 .. k] = MergeOutput(iter[1 .. k - 1], outs[k])
  <2>1. PICK D, b, m, c, H : D = Devices /\ b = base /\ m = n /\ c = iter /\ H = G  OBVIOUS
  <2>2. b \in D /\ m \in Nat /\ H \in [D \X (1 .. m) -> D]  BY <1>2, <1>3, <1>4, <2>1, Zenon
  <2>3. Unfolds(c, m, D, b, H)  BY <1>7, <2>1, Zenon DEF Unfolds
  <2>4. Runs(c, m, D, b, H)  BY <2>2, <2>3, FoldRuns, Zenon
  <2>5. \A k \in 1 .. n : k - 1 \in 0 .. n  BY <1>2
  <2> QED  BY <1>5, <2>1, <2>4, <2>5 DEF Runs
<1> DEFINE Keeps(r) == /\ Len(ins) <= Len(r)
                       /\ \A j \in 1 .. Len(ins) : r[j].name = ins[j] /\ r[j].is_input = TRUE
           Good == {k \in Nat : k <= n => Keeps(iter[1 .. k])}
<1>9. 0 \in Good
  <2>1. Len(ins) \in Nat  OBVIOUS
  <2> QED  BY <1>3, <1>8, <2>1
<1>10. ASSUME NEW k \in Nat, k \in Good PROVE k + 1 \in Good
  <2> SUFFICES ASSUME k + 1 <= n PROVE Keeps(iter[1 .. k + 1])
    <3> HIDE DEF Keeps
    <3> QED  OBVIOUS
  <2> DEFINE d == iter[1 .. k]
             e == iter[1 .. k + 1]
  <2>1. Keeps(d) /\ d \in Devices /\ k + 1 \in 1 .. n  BY <1>2, <1>8, <1>10
  <2>2. e = MergeOutput(d, outs[k + 1]) /\ outs[k + 1] \in STRING
    <3>1. (k + 1) - 1 = k  OBVIOUS
    <3> QED  BY <1>2, <1>8, <2>1, <3>1
  <2> HIDE DEF d, e
  <2>3. /\ e \in Devices /\ Len(d) <= Len(e)
        /\ \A j \in 1 .. Len(d) : e[j].name = d[j].name /\ e[j].is_input = d[j].is_input
    BY <2>1, <2>2, MergeKeeps
  <2>4. Len(ins) \in Nat /\ Len(d) \in Nat /\ Len(e) \in Nat  BY <2>1, <2>3 DEF Devices
  <2>5. Len(ins) <= Len(e) /\ \A j \in 1 .. Len(ins) : j \in 1 .. Len(d)  BY <2>1, <2>3, <2>4
  <2>6. \A j \in 1 .. Len(ins) : e[j].name = ins[j] /\ e[j].is_input = TRUE  BY <2>1, <2>3, <2>5
  <2> QED  BY <2>5, <2>6 DEF e
<1>11. Nat \subseteq Good
  <2> HIDE DEF Good
  <2> QED  BY <1>9, <1>10, SetInduction
<1>12. Keeps(iter[1 .. n]) /\ iter[1 .. n] \in Devices
  <2> HIDE DEF Keeps
  <2>1. n \in Good /\ n <= n /\ n \in 0 .. n  BY <1>2, <1>11
  <2> QED  BY <1>8, <2>1
<1>13. FoldLeft(MergeOutput, base, outs) = iter[1 .. n]  BY <1>1, <1>2
<1> QED  BY <1>12, <1>13 DEF base

\* The system's ports stay as they are, and so does what every client lists; a port that
\* is open was opened at its place in the system.
ListedInv ==
    /\ system \in MidiSystems
    /\ listing # None => listing = Listing
    /\ host # None => host = [inputs |-> InNames, outputs |-> OutNames]

OpenedInv ==
    /\ input # None /\ input.index > 0 =>
           Has("in") /\ input.index \in DOMAIN system.ins /\ input.name = system.ins[input.index]
    /\ output # None /\ output.index > 0 =>
           Has("out") /\ output.name = system.outs[output.index]

LEMMA PortsInit == MidiInit => ListedInv /\ OpenedInv
  BY MidiAssumption DEF MidiInit, ListedInv, OpenedInv

LEMMA SystemStays == ASSUME system' = system
    PROVE  Listing' = Listing /\ InNames' = InNames /\ OutNames' = OutNames
  BY DEF Listing, InNames, OutNames, Has

LEMMA PortsNext ==
    ASSUME ListedInv, OpenedInv, [MidiNext]_midiVars
    PROVE  ListedInv' /\ OpenedInv'
<1>1. system' = system
  BY DEF MidiNext, midiVars, EnumerateMidi, NewHost, OpenMidiInput, OpenMidiOutput,
     CreateVirtualInput, CreateVirtualOutput, CloseInput, SendMessage, Receive, portVars
<1>2. ListedInv'
  <2>1. listing' \in {listing, Listing}
    BY DEF MidiNext, midiVars, EnumerateMidi, NewHost, OpenMidiInput, OpenMidiOutput,
       CreateVirtualInput, CreateVirtualOutput, CloseInput, SendMessage, Receive, portVars
  <2>2. host' \in {host, [inputs |-> InNames, outputs |-> OutNames]}
    BY DEF MidiNext, midiVars, EnumerateMidi, NewHost, OpenMidiInput, OpenMidiOutput,
       CreateVirtualInput, CreateVirtualOutput, CloseInput, SendMessage, Receive, portVars,
       InputPortNames, OutputPortNames
  <2> QED  BY <1>1, <2>1, <2>2, SystemStays DEF ListedInv
<1>3. OpenedInv'
  <2>1. CASE OpenMidiInput
    <3>1. PICK k \in DOMAIN system.ins : input' = [index |-> k, name |-> system.ins[k]]
      BY <2>1 DEF OpenMidiInput
    <3>2. Has("in") /\ output' = output  BY <2>1 DEF OpenMidiInput
    <3>3. input'.index = k /\ input'.name = system.ins[k]  BY <3>1
    <3> QED  BY <1>1, <3>2, <3>3 DEF OpenedInv, Has
  <2>2. CASE OpenMidiOutput
    <3>1. PICK k \in DOMAIN system.outs : output' = [index |-> k, name |-> system.outs[k]]
      BY <2>2 DEF OpenMidiOutput
    <3>2. Has("out") /\ input' = input  BY <2>2 DEF OpenMidiOutput
    <3>3. output'.index = k /\ output'.name = system.outs[k]  BY <3>1
    <3> QED  BY <1>1, <3>2, <3>3 DEF OpenedInv, Has
  <2>3. CASE CreateVirtualInput
    <3>1. input'.index = 0 /\ output' = output  BY <2>3 DEF CreateVirtualInput
    <3> QED  BY <1>1, <3>1 DEF OpenedInv, Has
  <2>4. CASE CreateVirtualOutput
    <3>1. output'.index = 0 /\ input' = input  BY <2>4 DEF CreateVirtualOutput
    <3> QED  BY <1>1, <3>1 DEF OpenedInv, Has
  <2>5. CASE input' \in {input, None} /\ output' = output
    BY <1>1, <2>5 DEF OpenedInv, Has
  <2> QED
    BY <2>1, <2>2, <2>3, <2>4, <2>5
    DEF MidiNext, midiVars, EnumerateMidi, NewHost, CloseInput, SendMessage, Receive, portVars
<1> QED  BY <1>2, <1>3

LEMMA OpensWhereListed == ListedInv /\ OpenedInv => ListedOpens
<1> SUFFICES ASSUME ListedInv, OpenedInv PROVE ListedOpens  OBVIOUS
<1>1. system.ins \in Seq(STRING) /\ system.outs \in Seq(STRING)  BY DEF ListedInv, MidiSystems
<1>2. ASSUME input # None, input.index > 0
      PROVE  /\ listing # None => /\ input.index <= Len(listing)
                                  /\ listing[input.index].is_input
                                  /\ listing[input.index].name = input.name
             /\ host # None => host.inputs[input.index] = input.name
  <2>1. /\ InNames = system.ins /\ input.index \in 1 .. Len(system.ins)
        /\ input.name = system.ins[input.index]
    BY <1>1, <1>2 DEF OpenedInv, InNames
  <2>2. InNames \in Seq(STRING) /\ OutNames \in Seq(STRING)
    <3>1. <<>> \in Seq(STRING)  BY EmptySeq
    <3> QED  BY <1>1, <3>1, Zenon DEF InNames, OutNames
  <2>3. /\ Listing \in Devices /\ Len(InNames) <= Len(Listing)
        /\ \A k \in 1 .. Len(InNames) : Listing[k].name = InNames[k] /\ Listing[k].is_input
    <3>1. PICK ins, outs : ins = InNames /\ outs = OutNames  OBVIOUS
    <3>2. Listing = FoldLeft(MergeOutput, [k \in DOMAIN ins |-> Entry(ins[k], TRUE, FALSE)], outs)
      BY <3>1 DEF Listing
    <3>3. ins \in Seq(STRING) /\ outs \in Seq(STRING)  BY <2>2, <3>1
    <3>4. /\ Listing \in Devices /\ Len(ins) <= Len(Listing)
          /\ \A k \in 1 .. Len(ins) : Listing[k].name = ins[k] /\ Listing[k].is_input
      BY <3>2, <3>3, ListingStartsWithInputs
    <3> QED  BY <3>1, <3>4, Zenon
  <2>4. ASSUME listing # None
        PROVE  /\ input.index <= Len(listing)
               /\ listing[input.index].is_input /\ listing[input.index].name = input.name
    <3>1. listing = Listing  BY <2>4 DEF ListedInv
    <3>2. Len(Listing) \in Nat /\ Len(system.ins) \in Nat  BY <1>1, <2>3 DEF Devices
    <3> QED  BY <2>1, <2>3, <3>1, <3>2
  <2>5. host # None => host.inputs[input.index] = input.name  BY <2>1 DEF ListedInv
  <2> QED  BY <2>4, <2>5
<1>3. output # None /\ output.index > 0 /\ host # None => host.outputs[output.index] = output.name
  BY DEF ListedInv, OpenedInv, OutNames
<1> QED  BY <1>2, <1>3 DEF ListedOpens

-----------------------------------------------------------------------------
(* JackAudio: sounds and silences. *)

\* The sounds of a stretch rise, and its values.
SoundsOf(s) == {i \in DOMAIN s : s[i] # 0}
Heard(s) == {s[i] : i \in SoundsOf(s)}
Rising(s) == \A i, j \in SoundsOf(s) : i < j => s[i] < s[j]

\* A stretch tells all that was written before `n` but for `k` samples.
Tells(s, n, k) ==
    Rising(s) /\ Heard(s) \subseteq 1 .. n - 1 /\ Cardinality((1 .. n - 1) \ Heard(s)) = k

LEMMA HeardOfBoth ==
    ASSUME NEW a \in Seq(Int), NEW b \in Seq(Int)
    PROVE  Heard(a \o b) = Heard(a) \cup Heard(b)
<1> DEFINE c == a \o b
<1>1. /\ c \in Seq(Int) /\ Len(c) = Len(a) + Len(b) /\ Len(a) \in Nat /\ Len(b) \in Nat
      /\ \A i \in 1 .. Len(a) : c[i] = a[i]
      /\ \A i \in 1 .. Len(b) : c[Len(a) + i] = b[i]
  OBVIOUS
<1>2. DOMAIN a = 1 .. Len(a) /\ DOMAIN b = 1 .. Len(b) /\ DOMAIN c = 1 .. Len(c)
  BY <1>1
<1> HIDE DEF c
<1>3. ASSUME NEW i \in SoundsOf(c) PROVE c[i] \in Heard(a) \cup Heard(b)
  <2>1. i \in 1 .. Len(c) /\ c[i] # 0  BY <1>2 DEF SoundsOf
  <2>2. CASE i <= Len(a)
    <3>1. i \in 1 .. Len(a) /\ c[i] = a[i]  BY <1>1, <2>1, <2>2
    <3> QED  BY <1>2, <2>1, <3>1 DEF Heard, SoundsOf
  <2>3. CASE ~(i <= Len(a))
    <3>1. i - Len(a) \in 1 .. Len(b) /\ i = Len(a) + (i - Len(a))  BY <1>1, <2>1, <2>3
    <3>2. c[i] = b[i - Len(a)]  BY <1>1, <3>1
    <3> QED  BY <1>2, <2>1, <3>1, <3>2 DEF Heard, SoundsOf
  <2> QED  BY <2>2, <2>3
<1>4. ASSUME NEW i \in SoundsOf(a) PROVE a[i] \in Heard(c)
  <2>1. i \in 1 .. Len(a) /\ a[i] # 0  BY <1>2 DEF SoundsOf
  <2>2. i \in 1 .. Len(c) /\ c[i] = a[i]  BY <1>1, <2>1
  <2> QED  BY <1>2, <2>1, <2>2 DEF Heard, SoundsOf
<1>5. ASSUME NEW i \in SoundsOf(b) PROVE b[i] \in Heard(c)
  <2>1. i \in 1 .. Len(b) /\ b[i] # 0  BY <1>2 DEF SoundsOf
  <2>2. Len(a) + i \in 1 .. Len(c) /\ c[Len(a) + i] = b[i]  BY <1>1, <2>1
  <2> QED  BY <1>2, <2>1, <2>2 DEF Heard, SoundsOf
<1>6. Heard(c) \subseteq Heard(a) \cup Heard(b)  BY <1>3 DEF Heard
<1>7. Heard(a) \subseteq Heard(c)  BY <1>4 DEF Heard
<1>8. Heard(b) \subseteq Heard(c)  BY <1>5 DEF Heard
<1> QED  BY <1>6, <1>7, <1>8 DEF c

LEMMA RisingOfBoth ==
    ASSUME NEW a \in Seq(Int), NEW b \in Seq(Int)
    PROVE  Rising(a \o b) <=> /\ Rising(a) /\ Rising(b)
                              /\ \A x \in Heard(a), y \in Heard(b) : x < y
<1> DEFINE c == a \o b
<1>1. /\ c \in Seq(Int) /\ Len(c) = Len(a) + Len(b) /\ Len(a) \in Nat /\ Len(b) \in Nat
      /\ \A i \in 1 .. Len(a) : c[i] = a[i]
      /\ \A i \in 1 .. Len(b) : c[Len(a) + i] = b[i]
  OBVIOUS
<1>2. DOMAIN a = 1 .. Len(a) /\ DOMAIN b = 1 .. Len(b) /\ DOMAIN c = 1 .. Len(c)
  BY <1>1
<1> HIDE DEF c
<1>3. \A i \in SoundsOf(a) : i \in 1 .. Len(a) /\ i \in SoundsOf(c) /\ c[i] = a[i]
  BY <1>1, <1>2 DEF SoundsOf
<1>4. \A i \in SoundsOf(b) : i \in 1 .. Len(b) /\ Len(a) + i \in SoundsOf(c) /\ c[Len(a) + i] = b[i]
  BY <1>1, <1>2 DEF SoundsOf
<1>5. ASSUME NEW i \in SoundsOf(c)
      PROVE  \/ i \in SoundsOf(a) /\ c[i] = a[i]
             \/ i - Len(a) \in SoundsOf(b) /\ c[i] = b[i - Len(a)] /\ i > Len(a) /\ i \in Nat
  <2>1. i \in 1 .. Len(c) /\ c[i] # 0  BY <1>2 DEF SoundsOf
  <2>2. CASE i <= Len(a)
    <3>1. i \in 1 .. Len(a) /\ c[i] = a[i]  BY <1>1, <2>1, <2>2
    <3> QED  BY <1>2, <2>1, <3>1 DEF SoundsOf
  <2>3. CASE ~(i <= Len(a))
    <3>1. i - Len(a) \in 1 .. Len(b) /\ i = Len(a) + (i - Len(a))  BY <1>1, <2>1, <2>3
    <3>2. c[i] = b[i - Len(a)]  BY <1>1, <3>1
    <3>3. i > Len(a) /\ i \in Nat  BY <1>1, <2>1, <2>3
    <3> QED  BY <1>2, <2>1, <3>1, <3>2, <3>3 DEF SoundsOf
  <2> QED  BY <2>2, <2>3
<1>6. ASSUME Rising(c)
      PROVE  Rising(a) /\ Rising(b) /\ \A x \in Heard(a), y \in Heard(b) : x < y
  <2>1. Rising(a)  BY <1>3, <1>6 DEF Rising
  <2>2. ASSUME NEW i \in SoundsOf(b), NEW j \in SoundsOf(b), i < j PROVE b[i] < b[j]
    <3>1. Len(a) + i < Len(a) + j  BY <1>1, <1>4, <2>2
    <3> QED  BY <1>4, <1>6, <3>1 DEF Rising
  <2>3. ASSUME NEW i \in SoundsOf(a), NEW j \in SoundsOf(b) PROVE a[i] < b[j]
    <3>1. i < Len(a) + j
      <4>1. i \in 1 .. Len(a) /\ j \in 1 .. Len(b)  BY <1>3, <1>4
      <4> QED  BY <1>1, <4>1
    <3>2. c[i] < c[Len(a) + j]  BY <1>3, <1>4, <1>6, <3>1 DEF Rising
    <3> QED  BY <1>3, <1>4, <3>2
  <2> QED  BY <2>1, <2>2, <2>3 DEF Rising, Heard
<1>7. ASSUME Rising(a), Rising(b), \A x \in Heard(a), y \in Heard(b) : x < y
      PROVE  Rising(c)
  <2> SUFFICES ASSUME NEW i \in SoundsOf(c), NEW j \in SoundsOf(c), i < j PROVE c[i] < c[j]
    BY DEF Rising
  <2>1. CASE i \in SoundsOf(a) /\ c[i] = a[i] /\ j \in SoundsOf(a) /\ c[j] = a[j]
    BY <1>7, <2>1 DEF Rising
  <2>2. CASE i \in SoundsOf(a) /\ c[i] = a[i] /\ j - Len(a) \in SoundsOf(b) /\ c[j] = b[j - Len(a)]
    <3>1. c[i] \in Heard(a) /\ c[j] \in Heard(b)  BY <2>2 DEF Heard
    <3> QED  BY <1>7, <3>1
  <2>3. CASE i - Len(a) \in SoundsOf(b) /\ c[i] = b[i - Len(a)] /\ i > Len(a) /\ i \in Nat
    <3>1. ~(j \in SoundsOf(a))
      <4>1. j \in SoundsOf(a) => j \in 1 .. Len(a)  BY <1>3
      <4>2. ~(j \in 1 .. Len(a))  BY <1>1, <2>3
      <4> QED  BY <4>1, <4>2
    <3>2. j - Len(a) \in SoundsOf(b) /\ c[j] = b[j - Len(a)] /\ j \in Nat  BY <1>5, <3>1
    <3>3. i - Len(a) < j - Len(a)  BY <1>1, <2>3, <3>2
    <3> QED  BY <1>7, <2>3, <3>2, <3>3 DEF Rising
  <2> QED  BY <1>5, <2>1, <2>2, <2>3
<1> QED  BY <1>6, <1>7 DEF c

LEMMA HeardOfOne == ASSUME NEW x \in Int PROVE Heard(<<x>>) = IF x = 0 THEN {} ELSE {x}
<1>1. DOMAIN <<x>> = {1} /\ <<x>>[1] = x  OBVIOUS
<1> QED  BY <1>1 DEF Heard, SoundsOf

LEMMA RisingOne == ASSUME NEW x \in Int PROVE Rising(<<x>>)
<1>1. DOMAIN <<x>> = {1}  OBVIOUS
<1> QED  BY <1>1 DEF Rising, SoundsOf

\* A silence between changes nothing of it.
LEMMA TellsPadded ==
    ASSUME NEW a \in Seq(Int), NEW b \in Seq(Int), NEW n, NEW k, Tells(a \o b, n, k)
    PROVE  Tells(Append(a, 0) \o b, n, k)
<1>1. PICK z \in Seq(Int), c \in Seq(Int) : z = <<0>> /\ c = Append(a, 0) /\ c = a \o z
  <2>1. <<0>> \in Seq(Int) /\ Append(a, 0) \in Seq(Int) /\ Append(a, 0) = a \o <<0>>  OBVIOUS
  <2> QED  BY <2>1
<1>2. Heard(z) = {} /\ Rising(z)
  <2>1. PICK x \in Int : x = 0  OBVIOUS
  <2>2. Heard(<<x>>) = IF x = 0 THEN {} ELSE {x}  BY HeardOfOne
  <2>3. Rising(<<x>>)  BY RisingOne
  <2> QED  BY <1>1, <2>1, <2>2, <2>3
<1>3. Heard(c) = Heard(a)
  <2>1. Heard(a \o z) = Heard(a) \cup Heard(z)  BY HeardOfBoth, Zenon
  <2> QED  BY <1>1, <1>2, <2>1
<1>4. Heard(c \o b) = Heard(a \o b)
  <2>1. Heard(c \o b) = Heard(c) \cup Heard(b)  BY HeardOfBoth, Zenon
  <2>2. Heard(a \o b) = Heard(a) \cup Heard(b)  BY HeardOfBoth, Zenon
  <2> QED  BY <1>3, <2>1, <2>2
<1>5. Rising(a) /\ Rising(b) /\ \A x \in Heard(a), y \in Heard(b) : x < y
  BY RisingOfBoth DEF Tells
<1>6. Rising(c)
  <2>1. Rising(a \o z)  BY <1>2, <1>5, RisingOfBoth
  <2> QED  BY <1>1, <2>1
<1>7. Rising(c \o b)  BY <1>3, <1>5, <1>6, RisingOfBoth
<1> QED  BY <1>1, <1>4, <1>7 DEF Tells

\* A sample that is dropped is one more that it does not tell.
LEMMA TellsDropped ==
    ASSUME NEW a \in Seq(Int), NEW x \in Int \ {0}, NEW b \in Seq(Int), NEW n \in Nat, NEW k,
           Tells(a \o (<<x>> \o b), n, k)
    PROVE  Tells(a \o b, n, k + 1)
<1> DEFINE c == <<x>> \o b
           all == 1 .. n - 1
<1>1. <<x>> \in Seq(Int) /\ c \in Seq(Int)  OBVIOUS
<1>2. Heard(c) = {x} \cup Heard(b)
  <2>1. Heard(<<x>>) = {x}  BY HeardOfOne
  <2>2. Heard(<<x>> \o b) = Heard(<<x>>) \cup Heard(b)  BY <1>1, HeardOfBoth, Zenon
  <2> QED  BY <2>1, <2>2
<1>3. Rising(b) /\ \A y \in Heard(b) : x < y
  <2>1. Rising(a) /\ Rising(c)  BY <1>1, RisingOfBoth DEF Tells
  <2>2. Rising(b) /\ \A z \in Heard(<<x>>), y \in Heard(b) : z < y  BY <1>1, <2>1, RisingOfBoth
  <2> QED  BY <2>2, HeardOfOne
<1> HIDE DEF c
<1>4. /\ Rising(a) /\ \A z \in Heard(a), y \in Heard(c) : z < y
      /\ Heard(a) \cup Heard(c) \subseteq all
      /\ Cardinality(all \ (Heard(a) \cup Heard(c))) = k
  BY <1>1, RisingOfBoth, HeardOfBoth DEF Tells, c
<1>5. Rising(a \o b)  BY <1>2, <1>3, <1>4, RisingOfBoth
<1>6. Heard(a \o b) = Heard(a) \cup Heard(b)  BY HeardOfBoth
<1>7. x \notin Heard(a) \cup Heard(b)
  <2>1. ~(x < x)  OBVIOUS
  <2> QED  BY <1>2, <1>3, <1>4, <2>1
<1> DEFINE old == all \ (Heard(a) \cup Heard(c))
<1>8. all \ (Heard(a) \cup Heard(b)) = old \cup {x} /\ x \notin old
  BY <1>2, <1>4, <1>7
<1>9. IsFiniteSet(old)
  <2>1. IsFiniteSet(all)  BY FS_Interval
  <2> QED  BY <2>1, FS_Subset
<1>10. Cardinality(old) = k  BY <1>4
<1> HIDE DEF old
<1>11. Cardinality(old \cup {x}) = k + 1  BY <1>8, <1>9, <1>10, FS_AddElement
<1> QED  BY <1>2, <1>4, <1>5, <1>6, <1>8, <1>11 DEF Tells

\* What is written next is told.
LEMMA TellsWritten ==
    ASSUME NEW a \in Seq(Int), NEW n \in Nat \ {0}, NEW m \in Nat, NEW k, Tells(a, n, k),
           NEW w \in Seq(Int), Len(w) = m, \A i \in 1 .. m : w[i] = n + i - 1
    PROVE  Tells(a \o w, n + m, k)
<1>1. DOMAIN w = 1 .. m  OBVIOUS
<1>2. SoundsOf(w) = 1 .. m
  <2>1. \A i \in 1 .. m : w[i] # 0  OBVIOUS
  <2> QED  BY <1>1, <2>1 DEF SoundsOf
<1>3. Heard(w) = n .. n + m - 1
  <2>1. \A i \in 1 .. m : w[i] \in n .. n + m - 1  OBVIOUS
  <2>2. ASSUME NEW y \in n .. n + m - 1 PROVE y \in Heard(w)
    <3>1. y - n + 1 \in 1 .. m /\ n + (y - n + 1) - 1 = y  OBVIOUS
    <3>2. w[y - n + 1] = y  BY <3>1
    <3> QED  BY <1>2, <3>1, <3>2 DEF Heard
  <2>3. Heard(w) \subseteq n .. n + m - 1  BY <1>2, <2>1 DEF Heard
  <2> QED  BY <2>2, <2>3
<1>4. Rising(w)  BY <1>2 DEF Rising
<1>5. Heard(a) \subseteq 1 .. n - 1 /\ Rising(a) /\ Cardinality((1 .. n - 1) \ Heard(a)) = k
  BY DEF Tells
<1>6. \A x \in Heard(a), y \in Heard(w) : x < y
  <2>1. \A x \in 1 .. n - 1, y \in n .. n + m - 1 : x < y  OBVIOUS
  <2> QED  BY <1>3, <1>5, <2>1
<1>7. Rising(a \o w)  BY <1>4, <1>5, <1>6, RisingOfBoth
<1>8. Heard(a \o w) = Heard(a) \cup (n .. n + m - 1)  BY <1>3, HeardOfBoth
<1>9. (1 .. n + m - 1) \ (Heard(a) \cup (n .. n + m - 1)) = (1 .. n - 1) \ Heard(a)
  <2>1. \A x : x \in 1 .. n + m - 1 /\ x \notin n .. n + m - 1 <=> x \in 1 .. n - 1  OBVIOUS
  <2> QED  BY <2>1
<1>10. Heard(a) \cup (n .. n + m - 1) \subseteq 1 .. n + m - 1
  <2>1. 1 .. n - 1 \subseteq 1 .. n + m - 1 /\ n .. n + m - 1 \subseteq 1 .. n + m - 1  OBVIOUS
  <2> QED  BY <1>5, <2>1
<1>11. PICK v : v = n + m - 1 /\ v = (n + m) - 1  OBVIOUS
<1>12. Heard(a \o w) \subseteq 1 .. v /\ (1 .. v) \ Heard(a \o w) = (1 .. n - 1) \ Heard(a)
  BY <1>8, <1>9, <1>10, <1>11, Zenon
<1> QED  BY <1>5, <1>7, <1>11, <1>12, Zenon DEF Tells

\* Silence tells that nothing was written.
LEMMA TellsNothing == ASSUME NEW a, Heard(a) = {} PROVE Tells(a, 1, 0)
<1>1. SoundsOf(a) = {}  BY DEF Heard
<1>2. (1 .. 1 - 1) = {}  OBVIOUS
<1>3. (1 .. 1 - 1) \ Heard(a) = {}  BY <1>2
<1>4. Cardinality((1 .. 1 - 1) \ Heard(a)) = 0  BY <1>3, FS_EmptySet
<1> QED  BY <1>1, <1>4 DEF Tells, Rising

\* The head of what follows moves to the end of what comes before.
LEMMA EntriesMove ==
    ASSUME NEW S, NEW a \in Seq(S), NEW b \in Seq(S), b # <<>>
    PROVE  Append(a, Head(b)) \o Tail(b) = a \o b
<1>1. /\ Head(b) \in S /\ Tail(b) \in Seq(S) /\ Len(Tail(b)) = Len(b) - 1 /\ Head(b) = b[1]
      /\ \A i \in 1 .. Len(b) - 1 : Tail(b)[i] = b[i + 1]
      /\ Len(b) \in Nat \ {0} /\ Len(a) \in Nat
  OBVIOUS
<1> DEFINE l == Append(a, Head(b)) \o Tail(b)
           r == a \o b
<1>2. /\ Append(a, Head(b)) \in Seq(S) /\ Len(Append(a, Head(b))) = Len(a) + 1
      /\ \A i \in 1 .. Len(a) : Append(a, Head(b))[i] = a[i]
      /\ Append(a, Head(b))[Len(a) + 1] = b[1]
  BY <1>1
<1>3. /\ l \in Seq(S) /\ Len(l) = Len(a) + Len(b)
      /\ \A i \in 1 .. Len(a) + Len(b) :
             l[i] = IF i <= Len(a) + 1 THEN Append(a, Head(b))[i] ELSE Tail(b)[i - (Len(a) + 1)]
  BY <1>1, <1>2, ConcatProperties
<1>4. /\ r \in Seq(S) /\ Len(r) = Len(a) + Len(b)
      /\ \A i \in 1 .. Len(a) + Len(b) : r[i] = IF i <= Len(a) THEN a[i] ELSE b[i - Len(a)]
  BY ConcatProperties
<1> HIDE DEF l, r
<1>5. ASSUME NEW i \in 1 .. Len(a) + Len(b) PROVE l[i] = r[i]
  <2>1. CASE i <= Len(a)
    <3>1. i \in 1 .. Len(a) /\ i <= Len(a) + 1  BY <1>1, <2>1
    <3> QED  BY <1>2, <1>3, <1>4, <2>1, <3>1
  <2>2. CASE i = Len(a) + 1
    <3>1. ~(i <= Len(a)) /\ i - Len(a) = 1 /\ i <= Len(a) + 1  BY <1>1, <2>2
    <3> QED  BY <1>2, <1>3, <1>4, <2>2, <3>1
  <2>3. CASE i > Len(a) + 1
    <3>1. /\ ~(i <= Len(a)) /\ ~(i <= Len(a) + 1) /\ i - (Len(a) + 1) \in 1 .. Len(b) - 1
          /\ (i - (Len(a) + 1)) + 1 = i - Len(a)
      BY <1>1, <2>3
    <3> QED  BY <1>1, <1>3, <1>4, <3>1
  <2> QED  BY <1>1, <2>1, <2>2, <2>3
<1>6. l = r  BY <1>3, <1>4, <1>5, SeqEqual
<1> QED  BY <1>6 DEF l, r

LEMMA HeadMoves ==
    ASSUME NEW a \in Seq(Int), NEW b \in Seq(Int), b # <<>>
    PROVE  Append(a, Head(b)) \o Tail(b) = a \o b
  BY EntriesMove

LEMMA JoinsAssociate ==
    ASSUME NEW S, NEW a \in Seq(S), NEW b \in Seq(S), NEW c \in Seq(S)
    PROVE  (a \o b) \o c = a \o (b \o c)
  BY ConcatAssociative

LEMMA JoinsAssociateInt ==
    ASSUME NEW a \in Seq(Int), NEW b \in Seq(Int), NEW c \in Seq(Int)
    PROVE  (a \o b) \o c = a \o (b \o c)
<1>1. PICK S : S = Int  OBVIOUS
<1>2. a \in Seq(S) /\ b \in Seq(S) /\ c \in Seq(S)  BY <1>1
<1> QED  BY <1>2, JoinsAssociate, SMTT(30)

LEMMA HeadMovesUnder ==
    ASSUME NEW c \in Seq(Int), NEW a \in Seq(Int), NEW b \in Seq(Int), b # <<>>
    PROVE  (c \o Append(a, Head(b))) \o Tail(b) = (c \o a) \o b
<1>1. PICK u \in Seq(Int), v \in Seq(Int) : u = Append(a, Head(b)) /\ v = Tail(b)
  <2>1. Append(a, Head(b)) \in Seq(Int) /\ Tail(b) \in Seq(Int)  OBVIOUS
  <2> QED  BY <2>1
<1>2. (c \o u) \o v = c \o (u \o v)  BY JoinsAssociateInt, ZenonT(60)
<1>3. (c \o a) \o b = c \o (a \o b)  BY JoinsAssociateInt, ZenonT(60)
<1> QED  BY <1>1, <1>2, <1>3, HeadMoves, Zenon

LEMMA AppendUnder ==
    ASSUME NEW c \in Seq(Int), NEW a \in Seq(Int), NEW x \in Int
    PROVE  c \o Append(a, x) = Append(c \o a, x)
<1>1. \A s \in Seq(Int) : Append(s, x) = s \o <<x>>  BY AppendIsConcat
<1>2. PICK z \in Seq(Int) : z = <<x>>
  <2>1. <<x>> \in Seq(Int)  OBVIOUS
  <2> QED  BY <2>1
<1>3. c \o a \in Seq(Int)  BY ConcatProperties
<1>4. (c \o a) \o z = c \o (a \o z)  BY ConcatAssociative, SMTT(30)
<1> QED  BY <1>1, <1>2, <1>3, <1>4, Zenon

Zeros(s) == \A i \in 1 .. Len(s) : s[i] = 0

LEMMA ZerosAreNotHeard == ASSUME NEW s \in Seq(Int), Zeros(s) PROVE Heard(s) = {}
  BY DEF Zeros, Heard, SoundsOf

-----------------------------------------------------------------------------
(* JackAudio: the invariant. *)

AudioTypes ==
    /\ outlet \in {"closed", "refused", "ring", "callback"} /\ inlet \in {"closed", "refused", "ring"}
    /\ playRing \in Seq(Int) /\ recordRing \in Seq(Int) /\ samples \in Seq(Int)
    /\ heard \in Seq(Int) /\ port \in Seq(Int)
    /\ phase \in {"idle", "output", "input"} /\ toMove \in Nat /\ frames \in [out : Nat, in : Nat]
    /\ overruns \in Nat /\ unheard \in Nat /\ missed \in [call : Nat, ever : Nat] /\ next \in Nat \ {0}

\* Between two cycles no port holds anything; an input's callback has no more to do than its
\* port holds; only an input that is open is wired.
PhaseInv ==
    /\ phase = "idle" => toMove = 0 /\ port = <<>>
    /\ phase = "input" => toMove <= Len(port)
    /\ inlet = "ring" => backend
    /\ "in" \in leads => inlet = "ring"

\* What a write() that found room has still to push fits in beside what is queued.
RoomInv == roomy => missed.call = 0 /\ Len(samples) + Len(playRing) <= 2 * SampleRate

\* Before there is an output everything is silent.
QuietInv ==
    outlet = "closed" =>
        /\ next = 1 /\ missed.ever = 0 /\ samples = <<>> /\ playRing = <<>>
        /\ Zeros(heard) /\ Zeros(recordRing) /\ Zeros(port)

\* While the input hears every cycle, all that is on its way tells what was written.
LoopInv ==
    /\ \A i \in 1 .. Len(samples) : samples[i] # 0
    /\ outlet = "ring" /\ unheard = 0 /\ overruns = 0 =>
           Tells(Audio!Stretch, next, missed.ever) /\ (phase = "input" => inlet = "ring")

AudioInv ==
    AudioTypes /\ PhaseInv /\ RoomInv /\ Audio!CaptureAccounted /\ QuietInv /\ LoopInv

LEMMA AudioInitHolds == Audio!Init => AudioInv
<1> SUFFICES ASSUME Audio!Init PROVE AudioInv  OBVIOUS
<1>1. /\ outlet = "closed" /\ inlet = "closed" /\ playRing = <<>> /\ recordRing = <<>>
      /\ samples = <<>> /\ phase = "idle" /\ toMove = 0 /\ port = <<>>
      /\ frames = [out |-> 0, in |-> 0] /\ overruns = 0 /\ leads = {}
      /\ next = 1 /\ missed = [call |-> 0, ever |-> 0] /\ heard = <<>> /\ unheard = 0
  BY DEF Audio!Init
<1>2. AudioTypes  BY <1>1 DEF AudioTypes
<1>3. PhaseInv  BY <1>1 DEF PhaseInv
<1>4. RoomInv  BY <1>1, PortsAssumption DEF RoomInv, Audio!AudioAssumption
<1>5. Audio!CaptureAccounted  BY <1>1 DEF Audio!CaptureAccounted, Audio!Handled
<1>6. QuietInv  BY <1>1 DEF QuietInv, Zeros
<1>7. LoopInv  BY <1>1 DEF LoopInv
<1> QED  BY <1>2, <1>3, <1>4, <1>5, <1>6, <1>7 DEF AudioInv

LEMMA InPortIsSeq == AudioTypes /\ PhaseInv => Audio!InPort \in Seq(Int)
<1> SUFFICES ASSUME AudioTypes, PhaseInv PROVE Audio!InPort \in Seq(Int)  OBVIOUS
<1>1. port \in Seq(Int) /\ toMove \in Nat /\ Len(port) \in Nat  BY DEF AudioTypes
<1>2. SubSeq(port, Len(port) - toMove + 1, Len(port)) \in Seq(Int) \/ ~(toMove <= Len(port))
  BY <1>1, SubSeqProperties
<1>3. phase = "input" => toMove <= Len(port)  BY DEF PhaseInv
<1>4. <<>> \in Seq(Int)  OBVIOUS
<1> QED  BY <1>1, <1>2, <1>3, <1>4 DEF Audio!InPort

-----------------------------------------------------------------------------
(* JackAudio: opening and wiring. *)

stretchVars == <<playRing, recordRing, samples, heard, phase, port, toMove>>

LEMMA StretchStays == UNCHANGED stretchVars => Audio!Stretch' = Audio!Stretch
  BY DEF stretchVars, Audio!Stretch, Audio!InPort

LEMMA InPortIdle == phase = "idle" => Audio!InPort = <<>>
  BY DEF Audio!InPort

LEMMA OpeningKeeps ==
    ASSUME AudioInv, Audio!Stub \/ Audio!OpenOutput \/ Audio!OpenInput
    PROVE  AudioInv'
<1>1. /\ UNCHANGED <<leads, stretchVars, roomy, missed, next, frames, overruns, unheard, backend>>
      /\ outlet' \in {"closed", "refused", "ring", "callback"} /\ inlet' \in {"closed", "refused", "ring"}
  BY DEF Audio!Stub, Audio!OpenOutput, Audio!OpenInput, Audio!callerVars, Audio!cycleVars, stretchVars,
     AudioInv, AudioTypes
<1>2. \/ Audio!Stub /\ ~backend /\ outlet' = "refused"
      \/ outlet = "closed" /\ phase = "idle" /\ inlet' = inlet
      \/ inlet = "closed" /\ phase = "idle" /\ outlet' = outlet /\ (inlet' = "ring" => backend)
  BY DEF Audio!Stub, Audio!OpenOutput, Audio!OpenInput
<1>3. "in" \in leads => inlet = "ring" /\ backend  BY DEF AudioInv, PhaseInv
<1>4. AudioTypes'  BY <1>1 DEF AudioInv, AudioTypes, stretchVars
<1>5. PhaseInv'
  <2>1. CASE Audio!Stub
    <3>1. ~backend /\ "in" \notin leads /\ inlet' = "refused"  BY <1>3, <2>1 DEF Audio!Stub
    <3> QED  BY <1>1, <3>1 DEF AudioInv, PhaseInv, stretchVars
  <2>2. CASE inlet' = inlet  BY <1>1, <2>2 DEF AudioInv, PhaseInv, stretchVars
  <2>3. CASE inlet = "closed" /\ (inlet' = "ring" => backend)
    BY <1>1, <1>3, <2>3 DEF AudioInv, PhaseInv, stretchVars
  <2> QED  BY <1>2, <2>1, <2>2, <2>3
<1>6. RoomInv'  BY <1>1 DEF AudioInv, RoomInv, stretchVars
<1>7. Audio!CaptureAccounted'
  <2>1. Audio!CaptureAccounted  BY DEF AudioInv
  <2>2. Audio!Handled' = Audio!Handled
    <3>1. CASE phase = "idle"  BY <1>1, <3>1 DEF Audio!Handled, stretchVars
    <3>2. CASE Audio!Stub
      <4>1. inlet \in {"closed", "refused"} /\ inlet' = "refused"
        BY <3>2 DEF Audio!Stub, AudioInv, PhaseInv, AudioTypes
      <4> QED  BY <4>1 DEF Audio!Handled, Audio!Active
    <3> QED  BY <1>2, <3>1, <3>2
  <2> QED  BY <1>1, <2>1, <2>2 DEF Audio!CaptureAccounted, stretchVars
<1>8. QuietInv'
  <2>1. outlet' = "closed" => outlet = "closed"  BY <1>2
  <2> QED  BY <1>1, <2>1 DEF AudioInv, QuietInv, Zeros, stretchVars
<1>9. LoopInv'
  <2>1. \A i \in 1 .. Len(samples') : samples'[i] # 0  BY <1>1 DEF AudioInv, LoopInv, stretchVars
  <2>2. ASSUME outlet' = "ring", unheard' = 0, overruns' = 0
        PROVE  Tells(Audio!Stretch, next, missed.ever)' /\ (phase' = "input" => inlet' = "ring")
    <3>1. CASE outlet = "closed" /\ phase = "idle"
      <4>1. /\ next = 1 /\ missed.ever = 0 /\ samples = <<>> /\ playRing = <<>>
            /\ Zeros(heard) /\ Zeros(recordRing) /\ heard \in Seq(Int) /\ recordRing \in Seq(Int)
        BY <3>1 DEF AudioInv, QuietInv, AudioTypes
      <4>2. Audio!Stretch = heard \o recordRing
        <5>1. Audio!Stretch = ((heard \o recordRing) \o <<>>) \o <<>> \o <<>>
          BY <3>1, <4>1, InPortIdle DEF Audio!Stretch
        <5>2. heard \o recordRing \in Seq(Int)  BY <4>1, ConcatProperties
        <5> QED  BY <5>1, <5>2, ConcatEmptySeq
      <4>3. Heard(Audio!Stretch) = {}  BY <4>1, <4>2, HeardOfBoth, ZerosAreNotHeard
      <4>4. Tells(Audio!Stretch, next, missed.ever)  BY <4>1, <4>3, TellsNothing
      <4>5. Audio!Stretch' = Audio!Stretch  BY <1>1, StretchStays
      <4> QED  BY <1>1, <3>1, <4>4, <4>5 DEF stretchVars
    <3>2. CASE inlet = "closed" /\ phase = "idle" /\ outlet' = outlet
      <4>1. Tells(Audio!Stretch, next, missed.ever)  BY <1>1, <2>2, <3>2 DEF AudioInv, LoopInv
      <4>2. Audio!Stretch' = Audio!Stretch  BY <1>1, StretchStays
      <4> QED  BY <1>1, <3>2, <4>1, <4>2 DEF stretchVars
    <3> QED  BY <1>2, <2>2, <3>1, <3>2
  <2> QED  BY <2>1, <2>2 DEF LoopInv
<1> QED  BY <1>4, <1>5, <1>6, <1>7, <1>8, <1>9 DEF AudioInv

LEMMA WiringKeeps ==
    ASSUME AudioInv,
           \/ Audio!AutoConnect \/ Audio!NotifySampleRate \/ Audio!NotifyXrun \/ \E dst : Audio!ConnectPorts(dst)
    PROVE  AudioInv'
<1>1. UNCHANGED <<outlet, inlet, stretchVars, roomy, missed, next, frames, overruns, unheard, backend>>
  BY DEF Audio!AutoConnect, Audio!NotifySampleRate, Audio!NotifyXrun, Audio!ConnectPorts,
     Audio!callerVars, Audio!cycleVars, stretchVars
<1>2. \A i \in DOMAIN SystemPorts : SystemPorts[i] # "in"
  BY PortsAssumption DEF Audio!AudioAssumption
<1>3. "in" \in leads' => "in" \in leads \/ inlet = "ring"
  <2>1. CASE Audio!AutoConnect
    <3>1. PICK failed : leads' = leads \cup {SystemPorts[i] : i \in (DOMAIN SystemPorts \cap {1, 2}) \ failed}
      BY <2>1 DEF Audio!AutoConnect
    <3> QED  BY <1>2, <3>1
  <2>2. CASE Audio!NotifySampleRate \/ Audio!NotifyXrun
    BY <2>2 DEF Audio!NotifySampleRate, Audio!NotifyXrun
  <2>3. ASSUME NEW dst, Audio!ConnectPorts(dst) PROVE "in" \in leads' => "in" \in leads \/ inlet = "ring"
    <3>1. leads' = leads \cup {dst} /\ dst \in Audio!ToSet(SystemPorts) \cup (IF Audio!Active(inlet) THEN {"in"} ELSE {})
      BY <2>3 DEF Audio!ConnectPorts
    <3>2. "in" \notin Audio!ToSet(SystemPorts)  BY <1>2 DEF Audio!ToSet
    <3>3. Audio!Active(inlet) => inlet = "ring"  BY DEF Audio!Active, AudioInv, AudioTypes
    <3> QED  BY <3>1, <3>2, <3>3
  <2> QED  BY <2>1, <2>2, <2>3
<1>4. AudioTypes'  BY <1>1 DEF AudioInv, AudioTypes, stretchVars
<1>5. PhaseInv'  BY <1>1, <1>3 DEF AudioInv, PhaseInv, stretchVars
<1>6. RoomInv'  BY <1>1 DEF AudioInv, RoomInv, stretchVars
<1>7. Audio!CaptureAccounted'
  BY <1>1 DEF AudioInv, Audio!CaptureAccounted, Audio!Handled, Audio!Active, stretchVars
<1>8. QuietInv'  BY <1>1 DEF AudioInv, QuietInv, Zeros, stretchVars
<1>9. LoopInv'  BY <1>1, StretchStays DEF AudioInv, LoopInv, stretchVars
<1> QED  BY <1>4, <1>5, <1>6, <1>7, <1>8, <1>9 DEF AudioInv

-----------------------------------------------------------------------------
(* JackAudio: the caller. *)

\* What comes before the samples of the write() under way, and before what is queued.
Played == heard \o recordRing \o Audio!InPort
Queued == Played \o playRing

LEMMA StretchParts ==
    ASSUME AudioTypes, PhaseInv
    PROVE  /\ heard \o recordRing \in Seq(Int) /\ Audio!InPort \in Seq(Int)
           /\ Played \in Seq(Int) /\ Played = (heard \o recordRing) \o Audio!InPort
           /\ Queued \in Seq(Int) /\ Queued = Played \o playRing
           /\ Audio!Stretch \in Seq(Int) /\ Audio!Stretch = Queued \o samples
<1>1. heard \o recordRing \in Seq(Int)  BY ConcatProperties DEF AudioTypes
<1>2. Audio!InPort \in Seq(Int)  BY InPortIsSeq
<1>3. Played \in Seq(Int)  BY <1>1, <1>2, ConcatProperties DEF Played
<1>4. Queued \in Seq(Int)  BY <1>3, ConcatProperties DEF Queued, AudioTypes
<1>5. Audio!Stretch = Queued \o samples  BY DEF Audio!Stretch, Queued, Played
<1>6. Queued \o samples \in Seq(Int)  BY <1>4, ConcatProperties DEF AudioTypes
<1> QED  BY <1>1, <1>2, <1>3, <1>4, <1>5, <1>6 DEF Played, Queued

LEMMA WriteKeeps == ASSUME AudioInv, NEW n \in Nat, Audio!Write(n) PROVE AudioInv'
<1>1. /\ outlet = "ring" /\ samples = <<>> /\ samples' = [i \in 1 .. n |-> next + i - 1] /\ next' = next + n
      /\ roomy' = (n + Len(playRing) <= 2 * SampleRate) /\ missed' = [missed EXCEPT !.call = 0]
      /\ UNCHANGED <<backend, outlet, inlet, leads, playRing, recordRing, heard, phase, toMove, port,
                     frames, overruns, unheard>>
  BY DEF Audio!Write, Audio!setupVars, Audio!cycleVars
<1>2. AudioTypes /\ PhaseInv /\ SampleRate \in Nat
  BY PortsAssumption DEF AudioInv, Audio!AudioAssumption
<1>3. /\ samples' \in Seq(Int) /\ Len(samples') = n /\ \A i \in 1 .. n : samples'[i] = next + i - 1
      /\ \A i \in 1 .. n : samples'[i] # 0
  <2>1. PICK m \in Nat \ {0} : m = next  BY <1>2 DEF AudioTypes
  <2>2. PICK w : w = [i \in 1 .. n |-> m + i - 1]  OBVIOUS
  <2>3. w \in Seq(Int) /\ Len(w) = n /\ \A i \in 1 .. n : w[i] = m + i - 1  BY <2>2
  <2>4. \A i \in 1 .. n : m + i - 1 # 0  OBVIOUS
  <2>5. samples' = w  BY <1>1, <2>1, <2>2
  <2> QED  BY <2>1, <2>3, <2>4, <2>5
<1>4. missed' \in [call : Nat, ever : Nat] /\ missed'.call = 0 /\ missed'.ever = missed.ever
      /\ next' \in Nat \ {0}
  <2>1. missed \in [call : Nat, ever : Nat] /\ next \in Nat \ {0}  BY <1>2 DEF AudioTypes
  <2>2. next' \in Nat \ {0}  BY <1>1, <2>1
  <2> QED  BY <1>1, <2>1, <2>2
<1>5. AudioTypes'  BY <1>1, <1>2, <1>3, <1>4 DEF AudioTypes
<1>6. PhaseInv'  BY <1>1, <1>2 DEF PhaseInv
<1>7. RoomInv'
  <2>1. roomy' => n + Len(playRing) <= 2 * SampleRate  BY <1>1
  <2> QED  BY <1>1, <1>3, <1>4, <2>1 DEF RoomInv
<1>8. Audio!CaptureAccounted'
  BY <1>1 DEF AudioInv, Audio!CaptureAccounted, Audio!Handled, Audio!Active
<1>9. QuietInv'  BY <1>1 DEF QuietInv
<1>10. LoopInv'
  <2>1. ASSUME outlet' = "ring", unheard' = 0, overruns' = 0
        PROVE  Tells(Audio!Stretch, next, missed.ever)' /\ (phase' = "input" => inlet' = "ring")
    <3>1. Tells(Audio!Stretch, next, missed.ever) /\ (phase = "input" => inlet = "ring")
      BY <1>1, <2>1 DEF AudioInv, LoopInv
    <3>2. Queued \in Seq(Int) /\ Audio!Stretch = Queued
      BY <1>1, <1>2, StretchParts, ConcatEmptySeq
    <3>3. Tells(Queued \o samples', next + n, missed.ever)
      <4>1. PICK a, k, w, m : a = Queued /\ k = missed.ever /\ w = samples' /\ m = next  OBVIOUS
      <4>2. /\ a \in Seq(Int) /\ m \in Nat \ {0} /\ Tells(a, m, k) /\ w \in Seq(Int) /\ Len(w) = n
            /\ \A i \in 1 .. n : w[i] = m + i - 1
        BY <1>2, <1>3, <3>1, <3>2, <4>1 DEF AudioTypes
      <4>3. Tells(a \o w, m + n, k)  BY <4>2, TellsWritten
      <4> QED  BY <4>1, <4>3
    <3>4. Audio!Stretch' = Queued \o samples'
      <4>1. Queued' = Queued  BY <1>1 DEF Queued, Played, Audio!InPort
      <4> QED  BY <1>5, <1>6, <4>1 DEF Audio!Stretch, Queued, Played
    <3> QED  BY <1>1, <1>4, <3>1, <3>3, <3>4
  <2> QED  BY <1>3, <2>1 DEF LoopInv
<1> QED  BY <1>5, <1>6, <1>7, <1>8, <1>9, <1>10 DEF AudioInv

LEMMA WriteSampleKeeps == ASSUME AudioInv, Audio!WriteSample PROVE AudioInv'
<1> DEFINE x == Head(samples)
           rest == Tail(samples)
<1>1. /\ samples # <<>> /\ samples' = rest
      /\ UNCHANGED <<backend, outlet, inlet, leads, recordRing, heard, phase, toMove, port,
                     frames, overruns, unheard, next, roomy>>
      /\ \/ /\ Len(playRing) < SampleRate * 2 /\ playRing' = Append(playRing, x) /\ missed' = missed
         \/ /\ ~(Len(playRing) < SampleRate * 2) /\ playRing' = playRing
            /\ missed' = [call |-> missed.call + 1, ever |-> missed.ever + 1]
  BY DEF Audio!WriteSample, Audio!setupVars, Audio!cycleVars, Audio!RingCapacity
<1>2. AudioTypes /\ PhaseInv /\ SampleRate \in Nat
  BY PortsAssumption DEF AudioInv, Audio!AudioAssumption
<1>3. /\ x \in Int \ {0} /\ rest \in Seq(Int) /\ Len(rest) = Len(samples) - 1 /\ Len(samples) \in Nat \ {0}
      /\ \A i \in 1 .. Len(rest) : rest[i] # 0
      /\ samples = <<x>> \o rest
  <2>1. samples \in Seq(Int) /\ \A i \in 1 .. Len(samples) : samples[i] # 0
    BY <1>2 DEF AudioTypes, AudioInv, LoopInv
  <2>2. PICK s \in Seq(Int) : s = samples  BY <2>1
  <2>3. s # <<>> /\ \A i \in 1 .. Len(s) : s[i] # 0  BY <1>1, <2>1, <2>2
  <2>4. /\ Len(s) \in Nat \ {0} /\ Head(s) = s[1] /\ s[1] \in Int /\ Tail(s) \in Seq(Int)
        /\ Len(Tail(s)) = Len(s) - 1 /\ \A i \in 1 .. Len(s) - 1 : Tail(s)[i] = s[i + 1]
    BY <2>3
  <2>5. s[1] # 0 /\ \A i \in 1 .. Len(s) - 1 : s[i + 1] # 0  BY <2>3, <2>4
  <2>6. s = <<Head(s)>> \o Tail(s)  BY <2>3
  <2> QED  BY <2>2, <2>4, <2>5, <2>6
<1> HIDE DEF x, rest
<1>4. /\ playRing \in Seq(Int) /\ missed \in [call : Nat, ever : Nat] /\ Len(playRing) \in Nat
  BY <1>2 DEF AudioTypes
<1>5. /\ Append(playRing, x) \in Seq(Int) /\ Len(Append(playRing, x)) = Len(playRing) + 1
  BY <1>3, <1>4
<1>6. AudioTypes'
  <2>1. playRing' \in Seq(Int) /\ missed' \in [call : Nat, ever : Nat]
    <3>1. playRing' \in Seq(Int)  BY <1>1, <1>4, <1>5
    <3>2. missed.call + 1 \in Nat /\ missed.ever + 1 \in Nat  BY <1>4
    <3>3. missed' \in [call : Nat, ever : Nat]  BY <1>1, <1>4, <3>2
    <3> QED  BY <3>1, <3>3
  <2> QED  BY <1>1, <1>2, <1>3, <2>1 DEF AudioTypes
<1>7. PhaseInv'  BY <1>1, <1>2 DEF PhaseInv
<1>8. RoomInv'
  <2> SUFFICES ASSUME roomy PROVE missed'.call = 0 /\ Len(samples') + Len(playRing') <= 2 * SampleRate
    BY <1>1 DEF RoomInv
  <2>1. missed.call = 0 /\ Len(samples) + Len(playRing) <= 2 * SampleRate  BY DEF AudioInv, RoomInv
  <2>2. Len(playRing) < SampleRate * 2  BY <1>2, <1>3, <1>4, <2>1
  <2>3. playRing' = Append(playRing, x) /\ missed' = missed  BY <1>1, <2>2
  <2> QED  BY <1>1, <1>2, <1>3, <1>4, <1>5, <2>1, <2>3
<1>9. Audio!CaptureAccounted'
  BY <1>1 DEF AudioInv, Audio!CaptureAccounted, Audio!Handled, Audio!Active
<1>10. QuietInv'  BY <1>1 DEF AudioInv, QuietInv
<1>11. LoopInv'
  <2>1. ASSUME outlet' = "ring", unheard' = 0, overruns' = 0
        PROVE  Tells(Audio!Stretch, next, missed.ever)' /\ (phase' = "input" => inlet' = "ring")
    <3>1. Tells(Audio!Stretch, next, missed.ever) /\ (phase = "input" => inlet = "ring")
      BY <1>1, <2>1 DEF AudioInv, LoopInv
    <3>2. /\ Played \in Seq(Int) /\ Queued \in Seq(Int) /\ Queued = Played \o playRing
          /\ Audio!Stretch = Queued \o samples
      BY <1>2, StretchParts
    <3>3. Audio!Stretch' = (Played \o playRing') \o samples'
      <4>1. Played' = Played  BY <1>1 DEF Played, Audio!InPort
      <4>2. Audio!Stretch' = (Played' \o playRing') \o samples'  BY DEF Audio!Stretch, Played
      <4> QED  BY <4>1, <4>2
    <3>4. CASE playRing' = Append(playRing, x) /\ missed' = missed
      <4>1. (Played \o Append(playRing, x)) \o rest = (Played \o playRing) \o samples
        <5>1. PICK c \in Seq(Int), a \in Seq(Int), b \in Seq(Int) :
                  c = Played /\ a = playRing /\ b = samples
          BY <1>2, <3>2 DEF AudioTypes
        <5>2. (c \o Append(a, Head(b))) \o Tail(b) = (c \o a) \o b  BY <1>1, <5>1, HeadMovesUnder, ZenonT(60)
        <5> QED  BY <5>1, <5>2 DEF x, rest
      <4>2. Audio!Stretch' = Audio!Stretch  BY <1>1, <3>2, <3>3, <3>4, <4>1
      <4> QED  BY <1>1, <3>1, <3>4, <4>2
    <3>5. CASE playRing' = playRing /\ missed' = [call |-> missed.call + 1, ever |-> missed.ever + 1]
      <4>1. Tells(Queued \o rest, next, missed.ever + 1)
        <5>1. PICK a, b, n, k : a = Queued /\ b = rest /\ n = next /\ k = missed.ever  OBVIOUS
        <5>2. a \in Seq(Int) /\ b \in Seq(Int) /\ n \in Nat /\ Tells(a \o (<<x>> \o b), n, k)
          BY <1>2, <1>3, <3>1, <3>2, <5>1 DEF AudioTypes
        <5>3. Tells(a \o b, n, k + 1)  BY <1>3, <5>2, TellsDropped
        <5> QED  BY <5>1, <5>3
      <4>2. Audio!Stretch' = Queued \o rest  BY <1>1, <3>2, <3>3, <3>5
      <4>3. missed'.ever = missed.ever + 1  BY <3>5
      <4> QED  BY <1>1, <3>1, <4>1, <4>2, <4>3
    <3> QED  BY <1>1, <3>4, <3>5
  <2> QED  BY <1>1, <1>3, <2>1 DEF LoopInv
<1> QED  BY <1>6, <1>7, <1>8, <1>9, <1>10, <1>11 DEF AudioInv

LEMMA ReadKeeps == ASSUME AudioInv, NEW n, Audio!Read(n) PROVE AudioInv'
<1>1. UNCHANGED <<outlet, inlet, leads, stretchVars, roomy, missed, next, frames, overruns, unheard, backend>>
  BY DEF Audio!Read, Audio!setupVars, Audio!cycleVars, stretchVars
<1>2. AudioTypes'  BY <1>1 DEF AudioInv, AudioTypes, stretchVars
<1>3. PhaseInv'  BY <1>1 DEF AudioInv, PhaseInv, stretchVars
<1>4. RoomInv'  BY <1>1 DEF AudioInv, RoomInv, stretchVars
<1>5. Audio!CaptureAccounted'
  BY <1>1 DEF AudioInv, Audio!CaptureAccounted, Audio!Handled, Audio!Active, stretchVars
<1>6. QuietInv'  BY <1>1 DEF AudioInv, QuietInv, Zeros, stretchVars
<1>7. LoopInv'  BY <1>1, StretchStays DEF AudioInv, LoopInv, stretchVars
<1> QED  BY <1>2, <1>3, <1>4, <1>5, <1>6, <1>7 DEF AudioInv

\* A sample that moves on from the head of one queue to the end of another.
LEMMA MovedOn ==
    ASSUME NEW a \in Seq(Int), NEW b \in Seq(Int), b # <<>>
    PROVE  /\ Append(a, Head(b)) \in Seq(Int) /\ Tail(b) \in Seq(Int)
           /\ Len(Append(a, Head(b))) = Len(a) + 1 /\ Len(Tail(b)) = Len(b) - 1
           /\ Len(a) \in Nat /\ Len(b) \in Nat \ {0}
           /\ Zeros(a) /\ Zeros(b) => Zeros(Append(a, Head(b))) /\ Zeros(Tail(b))
<1>1. /\ Head(b) \in Int /\ Tail(b) \in Seq(Int) /\ Len(Tail(b)) = Len(b) - 1 /\ Head(b) = b[1]
      /\ \A i \in 1 .. Len(b) - 1 : Tail(b)[i] = b[i + 1]
      /\ Len(b) \in Nat \ {0} /\ Len(a) \in Nat
  OBVIOUS
<1>2. /\ Append(a, Head(b)) \in Seq(Int) /\ Len(Append(a, Head(b))) = Len(a) + 1
      /\ \A i \in 1 .. Len(a) : Append(a, Head(b))[i] = a[i]
      /\ Append(a, Head(b))[Len(a) + 1] = b[1]
  BY <1>1
<1>3. ASSUME Zeros(a), Zeros(b) PROVE Zeros(Append(a, Head(b))) /\ Zeros(Tail(b))
  BY <1>1, <1>2, <1>3 DEF Zeros
<1> QED  BY <1>1, <1>2, <1>3

LEMMA ReadSampleKeeps == ASSUME AudioInv, Audio!ReadSample PROVE AudioInv'
<1>1. /\ UNCHANGED <<backend, outlet, inlet, leads, playRing, samples, phase, toMove, port,
                     frames, overruns, unheard, next, roomy, missed>>
      /\ \/ UNCHANGED <<recordRing, heard>>
         \/ /\ recordRing # <<>> /\ heard' = Append(heard, Head(recordRing))
            /\ recordRing' = Tail(recordRing)
  BY DEF Audio!ReadSample, Audio!setupVars, Audio!cycleVars
<1>2. AudioTypes /\ PhaseInv  BY DEF AudioInv
<1>3. heard \in Seq(Int) /\ recordRing \in Seq(Int)  BY <1>2 DEF AudioTypes
<1>4. /\ heard' \in Seq(Int) /\ recordRing' \in Seq(Int)
      /\ Len(heard') + Len(recordRing') = Len(heard) + Len(recordRing)
      /\ heard' \o recordRing' = heard \o recordRing
      /\ Zeros(heard) /\ Zeros(recordRing) => Zeros(heard') /\ Zeros(recordRing')
  <2>1. CASE UNCHANGED <<recordRing, heard>>  BY <1>3, <2>1
  <2>2. CASE /\ recordRing # <<>> /\ heard' = Append(heard, Head(recordRing))
             /\ recordRing' = Tail(recordRing)
    BY <1>3, <2>2, MovedOn, HeadMoves, SMTT(30)
  <2> QED  BY <1>1, <2>1, <2>2
<1>5. AudioTypes'  BY <1>1, <1>2, <1>4 DEF AudioTypes
<1>6. PhaseInv'  BY <1>1, <1>2 DEF PhaseInv
<1>7. RoomInv'  BY <1>1 DEF AudioInv, RoomInv
<1>8. Audio!CaptureAccounted'
  <2>1. Audio!CaptureAccounted  BY DEF AudioInv
  <2>2. Audio!Handled' = Audio!Handled  BY <1>1 DEF Audio!Handled, Audio!Active
  <2> QED  BY <1>1, <1>4, <2>1, <2>2 DEF Audio!CaptureAccounted
<1>9. QuietInv'
  <2>1. Zeros(port') <=> Zeros(port)  BY <1>1
  <2> QED  BY <1>1, <1>4, <2>1 DEF AudioInv, QuietInv
<1>10. LoopInv'
  <2>1. Audio!Stretch' = Audio!Stretch
    <3>1. Audio!InPort' = Audio!InPort  BY <1>1 DEF Audio!InPort
    <3> QED  BY <1>1, <1>4, <3>1 DEF Audio!Stretch
  <2> QED  BY <1>1, <2>1 DEF AudioInv, LoopInv
<1> QED  BY <1>5, <1>6, <1>7, <1>8, <1>9, <1>10 DEF AudioInv

-----------------------------------------------------------------------------
(* JackAudio: the server's cycle. *)

LEMMA BeginCycleKeeps == ASSUME AudioInv, NEW n \in Nat, Audio!BeginCycle(n) PROVE AudioInv'
<1>1. /\ phase = "idle" /\ phase' = "output" /\ toMove' = n /\ port' = <<>>
      /\ UNCHANGED <<backend, outlet, inlet, leads, playRing, recordRing, samples, heard,
                     frames, overruns, unheard, next, roomy, missed>>
  BY DEF Audio!BeginCycle, Audio!callerVars
<1>2. AudioTypes'
  <2>1. <<>> \in Seq(Int)  OBVIOUS
  <2> QED  BY <1>1, <2>1 DEF AudioInv, AudioTypes
<1>3. PhaseInv'  BY <1>1 DEF AudioInv, PhaseInv
<1>4. RoomInv'  BY <1>1 DEF AudioInv, RoomInv
<1>5. Audio!CaptureAccounted'  BY <1>1 DEF AudioInv, Audio!CaptureAccounted, Audio!Handled
<1>6. QuietInv'
  <2>1. Zeros(port')  BY <1>1 DEF Zeros
  <2> QED  BY <1>1, <2>1 DEF AudioInv, QuietInv, Zeros
<1>7. LoopInv'
  <2>1. Audio!InPort = <<>> /\ Audio!InPort' = <<>>  BY <1>1 DEF Audio!InPort
  <2>2. Audio!Stretch' = Audio!Stretch  BY <1>1, <2>1 DEF Audio!Stretch
  <2> QED  BY <1>1, <2>2 DEF AudioInv, LoopInv
<1> QED  BY <1>2, <1>3, <1>4, <1>5, <1>6, <1>7 DEF AudioInv

LEMMA FillSampleKeeps == ASSUME AudioInv, Audio!FillSample PROVE AudioInv'
<1>1. /\ phase = "output" /\ outlet = "ring" /\ toMove > 0 /\ toMove' = toMove - 1
      /\ UNCHANGED <<backend, outlet, inlet, leads, recordRing, samples, heard, phase,
                     frames, overruns, unheard, next, roomy, missed>>
      /\ \/ playRing = <<>> /\ playRing' = playRing /\ port' = Append(port, 0)
         \/ /\ playRing # <<>> /\ port' = Append(port, Head(playRing)) /\ playRing' = Tail(playRing)
  BY DEF Audio!FillSample, Audio!setupVars, Audio!callerVars
<1>2. AudioTypes /\ PhaseInv /\ SampleRate \in Nat
  BY PortsAssumption DEF AudioInv, Audio!AudioAssumption
<1>3. playRing \in Seq(Int) /\ port \in Seq(Int) /\ toMove \in Nat /\ samples \in Seq(Int)
  BY <1>2 DEF AudioTypes
<1>4. /\ playRing' \in Seq(Int) /\ port' \in Seq(Int) /\ Len(playRing') <= Len(playRing)
      /\ Len(playRing') \in Nat /\ Len(playRing) \in Nat /\ Len(samples) \in Nat
  <2>1. CASE playRing = <<>> /\ playRing' = playRing /\ port' = Append(port, 0)
    BY <1>3, <2>1
  <2>2. CASE playRing # <<>> /\ port' = Append(port, Head(playRing)) /\ playRing' = Tail(playRing)
    BY <1>3, <2>2, MovedOn
  <2> QED  BY <1>1, <2>1, <2>2
<1>5. AudioTypes'
  <2>1. toMove' \in Nat  BY <1>1, <1>3
  <2> QED  BY <1>1, <1>2, <1>4, <2>1 DEF AudioTypes
<1>6. PhaseInv'  BY <1>1, <1>2 DEF PhaseInv
<1>7. RoomInv'
  <2> SUFFICES ASSUME roomy PROVE missed.call = 0 /\ Len(samples) + Len(playRing') <= 2 * SampleRate
    BY <1>1 DEF RoomInv
  <2>1. missed.call = 0 /\ Len(samples) + Len(playRing) <= 2 * SampleRate  BY DEF AudioInv, RoomInv
  <2> QED  BY <1>2, <1>4, <2>1
<1>8. Audio!CaptureAccounted'  BY <1>1 DEF AudioInv, Audio!CaptureAccounted, Audio!Handled
<1>9. QuietInv'  BY <1>1 DEF QuietInv
<1>10. LoopInv'
  <2>1. ASSUME outlet' = "ring", unheard' = 0, overruns' = 0
        PROVE  Tells(Audio!Stretch, next, missed.ever)'
    <3>1. Tells(Audio!Stretch, next, missed.ever)  BY <1>1, <2>1 DEF AudioInv, LoopInv
    <3> DEFINE c == heard \o recordRing
    <3>2. /\ Audio!Stretch = ((c \o port) \o playRing) \o samples
          /\ Audio!Stretch' = ((c \o port') \o playRing') \o samples
      <4>1. Audio!InPort = port /\ Audio!InPort' = port'  BY <1>1 DEF Audio!InPort
      <4> QED  BY <1>1, <4>1 DEF Audio!Stretch
    <3>3. c \in Seq(Int)  BY <1>2, ConcatProperties DEF AudioTypes
    <3> HIDE DEF c
    <3>4. CASE playRing = <<>> /\ playRing' = playRing /\ port' = Append(port, 0)
      <4>1. PICK d \in Seq(Int) : d = c \o port  BY <1>3, <3>3, ConcatProperties
      <4>2. d \o <<>> = d /\ Append(d, 0) \in Seq(Int) /\ Append(d, 0) \o <<>> = Append(d, 0)
        <5>1. Append(d, 0) \in Seq(Int)  OBVIOUS
        <5> QED  BY <5>1, ConcatEmptySeq
      <4>3. Audio!Stretch = d \o samples  BY <3>2, <3>4, <4>1, <4>2
      <4>4. c \o Append(port, 0) = Append(d, 0)
        <5>1. PICK z \in Int : z = 0  OBVIOUS
        <5>2. c \o Append(port, z) = Append(c \o port, z)  BY <1>3, <3>3, AppendUnder
        <5> QED  BY <4>1, <5>1, <5>2
      <4>5. Audio!Stretch' = Append(d, 0) \o samples  BY <3>2, <3>4, <4>2, <4>4
      <4>6. Tells(Append(d, 0) \o samples, next, missed.ever)  BY <1>3, <3>1, <4>3, TellsPadded
      <4> QED  BY <1>1, <4>5, <4>6
    <3>5. CASE playRing # <<>> /\ port' = Append(port, Head(playRing)) /\ playRing' = Tail(playRing)
      <4>1. (c \o Append(port, Head(playRing))) \o Tail(playRing) = (c \o port) \o playRing
        <5>1. PICK a \in Seq(Int), b \in Seq(Int) : a = port /\ b = playRing  BY <1>3
        <5>2. (c \o Append(a, Head(b))) \o Tail(b) = (c \o a) \o b  BY <3>3, <3>5, <5>1, HeadMovesUnder
        <5> QED  BY <5>1, <5>2
      <4> QED  BY <1>1, <3>1, <3>2, <3>5, <4>1
    <3> QED  BY <1>1, <3>4, <3>5
  <2>2. \A i \in 1 .. Len(samples) : samples[i] # 0  BY DEF AudioInv, LoopInv
  <2> QED  BY <1>1, <2>1, <2>2 DEF LoopInv
<1> QED  BY <1>5, <1>6, <1>7, <1>8, <1>9, <1>10 DEF AudioInv

LEMMA FillByCallbackKeeps == ASSUME AudioInv, Audio!FillByCallback PROVE AudioInv'
<1>1. /\ phase = "output" /\ outlet = "callback" /\ toMove' = 0
      /\ port' = [i \in 1 .. toMove |-> -1]
      /\ UNCHANGED <<backend, outlet, inlet, leads, playRing, recordRing, samples, heard, phase,
                     frames, overruns, unheard, next, roomy, missed>>
  BY DEF Audio!FillByCallback, Audio!setupVars, Audio!callerVars
<1>2. AudioTypes'
  <2>1. toMove \in Nat  BY DEF AudioInv, AudioTypes
  <2>2. port' \in Seq(Int)  BY <1>1, <2>1
  <2> QED  BY <1>1, <2>2 DEF AudioInv, AudioTypes
<1>3. PhaseInv'  BY <1>1 DEF AudioInv, PhaseInv
<1>4. RoomInv'  BY <1>1 DEF AudioInv, RoomInv
<1>5. Audio!CaptureAccounted'  BY <1>1 DEF AudioInv, Audio!CaptureAccounted, Audio!Handled
<1>6. QuietInv'  BY <1>1 DEF QuietInv
<1>7. LoopInv'  BY <1>1 DEF AudioInv, LoopInv
<1> QED  BY <1>2, <1>3, <1>4, <1>5, <1>6, <1>7 DEF AudioInv

LEMMA SilenceIs == ASSUME NEW n \in Nat
    PROVE Audio!Silence(n) \in Seq(Int) /\ Len(Audio!Silence(n)) = n /\ Zeros(Audio!Silence(n))
<1>1. Audio!Silence(n) = [i \in 1 .. n |-> 0]  BY DEF Audio!Silence
<1>2. [i \in 1 .. n |-> 0] \in Seq(Int) /\ Len([i \in 1 .. n |-> 0]) = n
  OBVIOUS
<1> QED  BY <1>1, <1>2 DEF Zeros

LEMMA OutputDoneKeeps == ASSUME AudioInv, Audio!OutputDone PROVE AudioInv'
<1>1. /\ phase = "output" /\ Audio!Active(outlet) /\ phase' = "input" /\ toMove' = Len(port)
      /\ frames' = [frames EXCEPT !.out = @ + Len(port)]
      /\ port' = IF "in" \in leads THEN port ELSE Audio!Silence(Len(port))
      /\ unheard' = IF "in" \in leads THEN unheard ELSE unheard + 1
      /\ UNCHANGED <<backend, outlet, inlet, leads, playRing, recordRing, samples, heard,
                     overruns, next, roomy, missed>>
  BY DEF Audio!OutputDone, Audio!setupVars, Audio!callerVars
<1>2. AudioTypes /\ PhaseInv  BY DEF AudioInv
<1>3. port \in Seq(Int) /\ Len(port) \in Nat /\ unheard \in Nat  BY <1>2 DEF AudioTypes
<1>4. port' \in Seq(Int) /\ Len(port') = Len(port)  BY <1>1, <1>3, SilenceIs
<1>5. frames' \in [out : Nat, in : Nat] /\ frames'.in = frames.in
  <2>1. frames \in [out : Nat, in : Nat]  BY <1>2 DEF AudioTypes
  <2>2. frames.out + Len(port) \in Nat  BY <1>3, <2>1
  <2> QED  BY <1>1, <2>1, <2>2
<1>6. AudioTypes'
  <2>1. unheard' \in Nat  BY <1>1, <1>3
  <2> QED  BY <1>1, <1>2, <1>3, <1>4, <1>5, <2>1 DEF AudioTypes
<1>7. PhaseInv'
  <2>1. toMove' <= Len(port')  BY <1>1, <1>3, <1>4
  <2> QED  BY <1>1, <1>2, <2>1 DEF PhaseInv
<1>8. RoomInv'  BY <1>1 DEF AudioInv, RoomInv
<1>9. Audio!CaptureAccounted'
  <2>1. Audio!Handled = 0  BY <1>1 DEF Audio!Handled
  <2>2. Audio!Handled' = 0  BY <1>1, <1>3, <1>4 DEF Audio!Handled
  <2> QED  BY <1>1, <1>5, <2>1, <2>2 DEF AudioInv, Audio!CaptureAccounted
<1>10. QuietInv'  BY <1>1 DEF QuietInv, Audio!Active
<1>11. LoopInv'
  <2>1. ASSUME outlet' = "ring", unheard' = 0, overruns' = 0
        PROVE  Tells(Audio!Stretch, next, missed.ever)' /\ inlet' = "ring"
    <3>1. "in" \in leads /\ unheard = 0
      <4>1. unheard + 1 # 0  BY <1>3
      <4> QED  BY <1>1, <2>1, <4>1
    <3>2. Tells(Audio!Stretch, next, missed.ever)  BY <1>1, <2>1, <3>1 DEF AudioInv, LoopInv
    <3>3. Audio!InPort = port  BY <1>1 DEF Audio!InPort
    <3>4. Audio!InPort' = port
      <4>1. Audio!InPort' = SubSeq(port, Len(port) - Len(port) + 1, Len(port))
        BY <1>1, <3>1 DEF Audio!InPort
      <4>2. Len(port) - Len(port) + 1 = 1  BY <1>3
      <4> QED  BY <1>3, <4>1, <4>2, SubSeqFull
    <3>5. Audio!Stretch' = Audio!Stretch  BY <1>1, <3>3, <3>4 DEF Audio!Stretch
    <3>6. inlet = "ring"  BY <1>2, <3>1 DEF PhaseInv
    <3> QED  BY <1>1, <3>2, <3>5, <3>6
  <2>2. \A i \in 1 .. Len(samples) : samples[i] # 0  BY DEF AudioInv, LoopInv
  <2> QED  BY <1>1, <2>1, <2>2 DEF LoopInv
<1> QED  BY <1>6, <1>7, <1>8, <1>9, <1>10, <1>11 DEF AudioInv

LEMMA NoOutputKeeps == ASSUME AudioInv, Audio!NoOutput PROVE AudioInv'
<1>1. /\ phase = "output" /\ ~Audio!Active(outlet) /\ phase' = "input" /\ port' = Audio!Silence(toMove)
      /\ UNCHANGED <<backend, outlet, inlet, leads, playRing, recordRing, samples, heard, toMove,
                     frames, overruns, unheard, next, roomy, missed>>
  BY DEF Audio!NoOutput, Audio!setupVars, Audio!callerVars
<1>2. AudioTypes /\ PhaseInv  BY DEF AudioInv
<1>3. toMove \in Nat  BY <1>2 DEF AudioTypes
<1>4. port' \in Seq(Int) /\ Len(port') = toMove /\ Zeros(port')  BY <1>1, <1>3, SilenceIs
<1>5. AudioTypes'  BY <1>1, <1>2, <1>4 DEF AudioTypes
<1>6. PhaseInv'
  <2>1. toMove' <= Len(port')  BY <1>1, <1>3, <1>4
  <2> QED  BY <1>1, <1>2, <2>1 DEF PhaseInv
<1>7. RoomInv'  BY <1>1 DEF AudioInv, RoomInv
<1>8. Audio!CaptureAccounted'
  <2>1. Audio!Handled = 0  BY <1>1 DEF Audio!Handled
  <2>2. Audio!Handled' = 0  BY <1>1, <1>3, <1>4 DEF Audio!Handled
  <2> QED  BY <1>1, <2>1, <2>2 DEF AudioInv, Audio!CaptureAccounted
<1>9. QuietInv'
  <2>1. (Zeros(heard') <=> Zeros(heard)) /\ (Zeros(recordRing') <=> Zeros(recordRing))  BY <1>1
  <2> QED  BY <1>1, <1>4, <2>1 DEF AudioInv, QuietInv
<1>10. LoopInv'  BY <1>1 DEF AudioInv, LoopInv, Audio!Active
<1> QED  BY <1>5, <1>6, <1>7, <1>8, <1>9, <1>10 DEF AudioInv

LEMMA PushSampleKeeps == ASSUME AudioInv, Audio!PushSample PROVE AudioInv'
<1> DEFINE m == Len(port) - toMove + 1
           x == port[m]
<1>1. /\ phase = "input" /\ Audio!Active(inlet) /\ toMove > 0 /\ toMove' = toMove - 1
      /\ UNCHANGED <<backend, outlet, inlet, leads, playRing, samples, heard, phase, port,
                     frames, unheard, next, roomy, missed>>
      /\ \/ recordRing' = Append(recordRing, x) /\ overruns' = overruns
         \/ recordRing' = recordRing /\ overruns' = overruns + 1
  BY DEF Audio!PushSample, Audio!setupVars, Audio!callerVars
<1>2. AudioTypes /\ PhaseInv  BY DEF AudioInv
<1>3. /\ port \in Seq(Int) /\ recordRing \in Seq(Int) /\ heard \in Seq(Int) /\ toMove \in Nat
      /\ overruns \in Nat /\ Len(recordRing) \in Nat /\ Len(heard) \in Nat /\ Len(port) \in Nat
      /\ toMove <= Len(port) /\ frames.in \in Nat
  BY <1>1, <1>2 DEF AudioTypes, PhaseInv
<1>4. /\ m \in 1 .. Len(port) /\ Len(port) \in m .. Len(port)
      /\ Len(port) - toMove' + 1 = m + 1 /\ toMove' \in Nat /\ toMove' <= Len(port)
  BY <1>1, <1>3
<1>5. x \in Int  BY <1>3, <1>4, ElementOfSeq
<1> HIDE DEF m, x
<1>6. /\ recordRing' \in Seq(Int) /\ overruns' \in Nat
      /\ Len(recordRing') + overruns' = (Len(recordRing) + overruns) + 1
  <2>1. Append(recordRing, x) \in Seq(Int) /\ Len(Append(recordRing, x)) = Len(recordRing) + 1
    BY <1>3, <1>5
  <2>2. CASE recordRing' = Append(recordRing, x) /\ overruns' = overruns
    <3>1. Len(recordRing') = Len(recordRing) + 1  BY <2>1, <2>2, Zenon
    <3>2. (Len(recordRing) + 1) + overruns = (Len(recordRing) + overruns) + 1  BY <1>3
    <3> QED  BY <1>3, <2>1, <2>2, <3>1, <3>2, Zenon
  <2>3. CASE recordRing' = recordRing /\ overruns' = overruns + 1
    <3>1. overruns + 1 \in Nat /\ Len(recordRing) + (overruns + 1) = (Len(recordRing) + overruns) + 1
      BY <1>3
    <3> QED  BY <1>3, <2>3, <3>1, Zenon
  <2> QED  BY <1>1, <2>2, <2>3
<1>7. AudioTypes'  BY <1>1, <1>2, <1>4, <1>6 DEF AudioTypes
<1>8. PhaseInv'  BY <1>1, <1>2, <1>4 DEF PhaseInv
<1>9. RoomInv'  BY <1>1 DEF AudioInv, RoomInv
<1>10. Audio!CaptureAccounted'
  <2>1. Audio!Handled = Len(port) - toMove /\ Audio!Handled' = Len(port) - toMove'
    BY <1>1 DEF Audio!Handled, Audio!Active
  <2>2. frames.in + (Len(port) - toMove) = Len(heard) + Len(recordRing) + overruns
    BY <2>1 DEF AudioInv, Audio!CaptureAccounted
  <2>3. Len(recordRing') \in Nat  BY <1>6
  <2>4. frames.in + (Len(port) - toMove') = Len(heard) + Len(recordRing') + overruns'
    <3>1. PICK f \in Nat, l \in Nat, h \in Nat, r \in Nat, o \in Nat, t \in Nat :
              f = frames.in /\ l = Len(port) /\ h = Len(heard) /\ r = Len(recordRing)
                /\ o = overruns /\ t = toMove
      BY <1>3
    <3>2. PICK q \in Nat, u \in Nat : q = Len(recordRing') /\ u = overruns'  BY <1>6, <2>3
    <3>3. f + (l - t) = h + r + o  BY <2>2, <3>1, Zenon
    <3>4. q + u = (r + o) + 1  BY <1>6, <3>1, <3>2, Zenon
    <3>5. f + (l - (t - 1)) = h + q + u  BY <3>3, <3>4
    <3> QED  BY <1>1, <3>1, <3>2, <3>5, Zenon
  <2> QED  BY <1>1, <2>1, <2>4 DEF Audio!CaptureAccounted
<1>11. QuietInv'
  <2> SUFFICES ASSUME outlet = "closed" PROVE Zeros(recordRing')
    BY <1>1 DEF AudioInv, QuietInv, Zeros
  <2>1. Zeros(recordRing) /\ Zeros(port)  BY DEF AudioInv, QuietInv
  <2>2. x = 0  BY <1>4, <2>1 DEF Zeros, x
  <2>3. Zeros(Append(recordRing, x))
    <3>1. /\ Len(Append(recordRing, x)) = Len(recordRing) + 1
          /\ Append(recordRing, x)[Len(recordRing) + 1] = x
          /\ \A i \in 1 .. Len(recordRing) : Append(recordRing, x)[i] = recordRing[i]
      BY <1>3, <1>5
    <3>2. ASSUME NEW i \in 1 .. Len(recordRing) + 1 PROVE Append(recordRing, x)[i] = 0
      <4>1. CASE i = Len(recordRing) + 1  BY <2>2, <3>1, <4>1
      <4>2. CASE i # Len(recordRing) + 1
        <5>1. i \in 1 .. Len(recordRing)  BY <1>3, <4>2
        <5> QED  BY <2>1, <3>1, <5>1 DEF Zeros
      <4> QED  BY <4>1, <4>2
    <3> QED  BY <3>1, <3>2 DEF Zeros
  <2> QED  BY <1>1, <2>1, <2>3
<1>12. LoopInv'
  <2>1. ASSUME outlet' = "ring", unheard' = 0, overruns' = 0
        PROVE  Tells(Audio!Stretch, next, missed.ever)' /\ inlet' = "ring"
    <3>1. overruns = 0 /\ recordRing' = Append(recordRing, x)
      <4>1. overruns + 1 # 0  BY <1>3
      <4> QED  BY <1>1, <2>1, <4>1
    <3>2. Tells(Audio!Stretch, next, missed.ever) /\ inlet = "ring"
      BY <1>1, <2>1, <3>1 DEF AudioInv, LoopInv
    <3> DEFINE p == SubSeq(port, m, Len(port))
    <3>3. Audio!InPort = p  BY <1>1 DEF Audio!InPort, m
    <3>4. Audio!InPort' = SubSeq(port, m + 1, Len(port))  BY <1>1, <1>4 DEF Audio!InPort
    <3>5. p \in Seq(Int) /\ p # <<>>
      <4>1. p \in Seq(Int)  BY <1>2, <3>3, InPortIsSeq
      <4>2. m \in Int /\ Len(port) \in Int /\ m <= Len(port) /\ \A i \in m .. Len(port) : port[i] \in Int
        BY <1>3, <1>4, ElementOfSeq
      <4>3. Len(p) = Len(port) - m + 1  BY <4>2, SubSeqProperties
      <4>4. Len(p) # 0  BY <4>2, <4>3
      <4> HIDE DEF p
      <4>5. p # <<>>  BY <4>4
      <4> QED  BY <4>1, <4>5
    <3>6. Head(p) = x /\ Tail(p) = SubSeq(port, m + 1, Len(port))
      BY <1>3, <1>4, HeadTailOfSubSeq DEF x
    <3> HIDE DEF p
    <3>7. (heard \o Append(recordRing, Head(p))) \o Tail(p) = (heard \o recordRing) \o p
      BY <1>3, <3>5, HeadMovesUnder, ZenonT(60)
    <3>8. Audio!Stretch' = Audio!Stretch
      BY <1>1, <3>1, <3>3, <3>4, <3>6, <3>7 DEF Audio!Stretch
    <3> QED  BY <1>1, <3>2, <3>8
  <2>2. \A i \in 1 .. Len(samples) : samples[i] # 0  BY DEF AudioInv, LoopInv
  <2> QED  BY <1>1, <2>1, <2>2 DEF LoopInv
<1> QED  BY <1>7, <1>8, <1>9, <1>10, <1>11, <1>12 DEF AudioInv

LEMMA InputDoneKeeps == ASSUME AudioInv, Audio!InputDone PROVE AudioInv'
<1>1. /\ phase = "input" /\ (Audio!Active(inlet) => toMove = 0)
      /\ frames' = IF Audio!Active(inlet) THEN [frames EXCEPT !.in = @ + Len(port)] ELSE frames
      /\ phase' = "idle" /\ toMove' = 0 /\ port' = <<>>
      /\ UNCHANGED <<backend, outlet, inlet, leads, playRing, recordRing, samples, heard,
                     overruns, unheard, next, roomy, missed>>
  BY DEF Audio!InputDone, Audio!setupVars, Audio!callerVars
<1>2. AudioTypes /\ PhaseInv  BY DEF AudioInv
<1>3. port \in Seq(Int) /\ Len(port) \in Nat /\ frames \in [out : Nat, in : Nat]
  BY <1>2 DEF AudioTypes
<1>4. /\ frames' \in [out : Nat, in : Nat]
      /\ frames'.in = IF Audio!Active(inlet) THEN frames.in + Len(port) ELSE frames.in
  <2>1. frames.in + Len(port) \in Nat  BY <1>3
  <2> QED  BY <1>1, <1>3, <2>1
<1>5. AudioTypes'
  <2>1. <<>> \in Seq(Int)  OBVIOUS
  <2> QED  BY <1>1, <1>2, <1>4, <2>1 DEF AudioTypes
<1>6. PhaseInv'  BY <1>1, <1>2 DEF PhaseInv
<1>7. RoomInv'  BY <1>1 DEF AudioInv, RoomInv
<1>8. Audio!CaptureAccounted'
  <2>1. Audio!Handled = IF Audio!Active(inlet) THEN Len(port) ELSE 0
    <3>1. Audio!Active(inlet) => Len(port) - toMove = Len(port)  BY <1>1, <1>3
    <3> QED  BY <1>1, <3>1 DEF Audio!Handled
  <2>2. Audio!Handled' = 0  BY <1>1 DEF Audio!Handled
  <2>3. frames'.in + 0 = frames.in + Audio!Handled  BY <1>3, <1>4, <2>1
  <2> QED  BY <1>1, <2>2, <2>3 DEF AudioInv, Audio!CaptureAccounted
<1>9. QuietInv'
  <2>1. Zeros(port')  BY <1>1 DEF Zeros
  <2>2. (Zeros(heard') <=> Zeros(heard)) /\ (Zeros(recordRing') <=> Zeros(recordRing))  BY <1>1
  <2> QED  BY <1>1, <2>1, <2>2 DEF AudioInv, QuietInv
<1>10. LoopInv'
  <2>1. ASSUME outlet' = "ring", unheard' = 0, overruns' = 0
        PROVE  Tells(Audio!Stretch, next, missed.ever)'
    <3>1. Tells(Audio!Stretch, next, missed.ever) /\ inlet = "ring"
      BY <1>1, <2>1 DEF AudioInv, LoopInv
    <3>2. Audio!InPort = <<>>
      <4>1. toMove = 0  BY <1>1, <3>1 DEF Audio!Active
      <4>2. Audio!InPort = SubSeq(port, Len(port) - 0 + 1, Len(port))  BY <1>1, <4>1 DEF Audio!InPort
      <4>3. Len(port) - 0 + 1 \in Int /\ Len(port) \in Int /\ Len(port) < Len(port) - 0 + 1  BY <1>3
      <4> QED  BY <4>2, <4>3, SubSeqEmpty
    <3>3. Audio!InPort' = <<>>  BY <1>1 DEF Audio!InPort
    <3>4. Audio!Stretch' = Audio!Stretch  BY <1>1, <3>2, <3>3 DEF Audio!Stretch
    <3> QED  BY <1>1, <3>1, <3>4
  <2>2. \A i \in 1 .. Len(samples) : samples[i] # 0  BY DEF AudioInv, LoopInv
  <2> QED  BY <1>1, <2>1, <2>2 DEF LoopInv
<1> QED  BY <1>5, <1>6, <1>7, <1>8, <1>9, <1>10 DEF AudioInv

LEMMA AudioStays == ASSUME AudioInv, UNCHANGED <<backend, audioVars>> PROVE AudioInv'
<1>1. /\ UNCHANGED <<outlet, inlet, leads, roomy, missed, next, frames, overruns, unheard, backend>>
      /\ UNCHANGED stretchVars
  BY DEF audioVars, stretchVars
<1>2. AudioTypes'  BY <1>1 DEF AudioInv, AudioTypes, stretchVars
<1>3. PhaseInv'  BY <1>1 DEF AudioInv, PhaseInv, stretchVars
<1>4. RoomInv'  BY <1>1 DEF AudioInv, RoomInv, stretchVars
<1>5. Audio!CaptureAccounted'
  BY <1>1 DEF AudioInv, Audio!CaptureAccounted, Audio!Handled, Audio!Active, stretchVars
<1>6. QuietInv'  BY <1>1 DEF AudioInv, QuietInv, Zeros, stretchVars
<1>7. LoopInv'  BY <1>1, StretchStays DEF AudioInv, LoopInv, stretchVars
<1> QED  BY <1>2, <1>3, <1>4, <1>5, <1>6, <1>7 DEF AudioInv

LEMMA AudioNextHolds == ASSUME AudioInv, [Audio!Next]_(Audio!vars) PROVE AudioInv'
<1>1. CASE Audio!Stub \/ Audio!OpenOutput \/ Audio!OpenInput  BY <1>1, OpeningKeeps
<1>2. CASE \/ Audio!AutoConnect \/ Audio!NotifySampleRate \/ Audio!NotifyXrun
           \/ \E dst : Audio!ConnectPorts(dst)
  BY <1>2, WiringKeeps
<1>3. ASSUME NEW n \in WriteSizes, Audio!Write(n) PROVE AudioInv'
  <2>1. n \in Nat  BY PortsAssumption DEF Audio!AudioAssumption
  <2> QED  BY <1>3, <2>1, WriteKeeps
<1>4. CASE \E n \in ReadSizes : Audio!Read(n)  BY <1>4, ReadKeeps
<1>5. CASE Audio!WriteSample  BY <1>5, WriteSampleKeeps
<1>6. CASE Audio!ReadSample  BY <1>6, ReadSampleKeeps
<1>7. ASSUME NEW n \in BlockSizes, Audio!BeginCycle(n) PROVE AudioInv'
  <2>1. n \in Nat  BY PortsAssumption DEF Audio!AudioAssumption
  <2> QED  BY <1>7, <2>1, BeginCycleKeeps
<1>8. CASE Audio!FillSample \/ Audio!FillByCallback  BY <1>8, FillSampleKeeps, FillByCallbackKeeps
<1>9. CASE Audio!OutputDone \/ Audio!NoOutput  BY <1>9, OutputDoneKeeps, NoOutputKeeps
<1>10. CASE Audio!PushSample \/ Audio!InputDone  BY <1>10, PushSampleKeeps, InputDoneKeeps
<1>11. CASE UNCHANGED (Audio!vars)
  <2>1. UNCHANGED <<backend, audioVars>>
    BY <1>11 DEF Audio!vars, Audio!setupVars, Audio!callerVars, Audio!cycleVars, audioVars
  <2> QED  BY <2>1, AudioStays
<1> QED
  BY <1>1, <1>2, <1>3, <1>4, <1>5, <1>6, <1>7, <1>8, <1>9, <1>10, <1>11 DEF Audio!Next

LEMMA SameCardinality == ASSUME NEW S PROVE Audio!Cardinality(S) = Cardinality(S)
  BY Zenon DEF Audio!Cardinality, Cardinality

LEMMA NothingIsLost == AudioInv => AudioIsAccounted
<1> SUFFICES ASSUME AudioInv PROVE AudioIsAccounted  OBVIOUS
<1>1. Audio!FittingWriteIsWhole  BY DEF AudioInv, RoomInv, Audio!FittingWriteIsWhole
<1>2. Audio!CaptureAccounted  BY DEF AudioInv
<1>3. Audio!LoopbackIsFaithful
  <2> SUFFICES ASSUME outlet = "ring", Audio!Active(inlet), unheard = 0, overruns = 0
               PROVE  Audio!LoopbackIsFaithful
    BY DEF Audio!LoopbackIsFaithful
  <2>1. Tells(Audio!Stretch, next, missed.ever)  BY DEF AudioInv, LoopInv
  <2>2. Audio!Sounds = SoundsOf(Audio!Stretch)  BY DEF Audio!Sounds, SoundsOf
  <2>3. Audio!Lost = (1 .. next - 1) \ Heard(Audio!Stretch)  BY <2>2 DEF Audio!Lost, Heard
  <2>4. \A i \in Audio!Sounds : Audio!Stretch[i] \in 1 .. next - 1
    BY <2>1, <2>2 DEF Tells, Heard
  <2>5. \A i, j \in Audio!Sounds : i < j => Audio!Stretch[i] < Audio!Stretch[j]
    BY <2>1, <2>2 DEF Tells, Rising
  <2>6. Cardinality(Audio!Lost) = missed.ever  BY <2>1, <2>3 DEF Tells
  <2> QED  BY <2>4, <2>5, <2>6, SameCardinality DEF Audio!LoopbackIsFaithful
<1> QED  BY <1>1, <1>2, <1>3 DEF AudioIsAccounted, Audio!AudioIsAccounted

-----------------------------------------------------------------------------
(* JackWiring. *)

WiringTypes ==
    /\ stage \in [Clients -> Kinds \cup {"new", "refused", "device", "gone"}]
    /\ DOMAIN name = Clients /\ DOMAIN wired = Clients

\* A client the server has not named yet has wired nothing.
NamedBeforeWired == \A c \in Clients : stage[c] = "new" => wired[c] = {}

WiringInv == WiringTypes /\ NamedBeforeWired /\ AutoWiresOwn

-----------------------------------------------------------------------------
(* The ports. *)

\* A step that leaves every client with a port its stage and its name leaves the ports.
LEMMA PortsStay ==
    ASSUME \A d \in Clients : Stream(d) => stage'[d] = stage[d] /\ name'[d] = name[d]
    PROVE  /\ \A p : p \in OutputPorts => p \in OutputPorts'
           /\ \A p : p \in InputPorts => p \in InputPorts'
<1>1. \A d \in Clients : Stream(d) => OwnPort(d)' = OwnPort(d)  BY DEF OwnPort, PortName
<1>2. \A d \in Clients : stage[d] \in {"output", "input", "callback"} => Stream(d)  BY DEF Stream, Kinds
<1>3. ASSUME NEW p, p \in OutputPorts PROVE p \in OutputPorts'
  BY <1>1, <1>2, <1>3 DEF OutputPorts
<1>4. ASSUME NEW p, p \in InputPorts PROVE p \in InputPorts'
  BY <1>1, <1>2, <1>4 DEF InputPorts
<1> QED  BY <1>3, <1>4

\* Such a step keeps a set of wires that leads from ports to ports.
LEMMA WiresStay ==
    ASSUME \A d \in Clients : Stream(d) => stage'[d] = stage[d] /\ name'[d] = name[d],
           WiresAreSound,
           \A w \in wires' : w \in wires \/ Connectable(w[1], w[2])
    PROVE  WiresAreSound'
BY PortsStay DEF WiresAreSound, Connectable

\* The wires an auto_connect() tries are those of the port it is given and the first two of
\* the system's ports on the other side.
LEMMA TriedOwn ==
    ASSUME NEW own, NEW kind, NEW w \in Tried(own, kind)
    PROVE  \/ kind # "input" /\ w[1] = own /\ w[2] \in FirstTwo(Playback)
           \/ kind = "input" /\ w[2] = own /\ w[1] \in FirstTwo(Capture)
BY DEF Tried

-----------------------------------------------------------------------------
\* Before any client is made there are no wires.
LEMMA WiringInitHolds == WiringInit => WiringInv
<1> SUFFICES ASSUME WiringInit PROVE WiringInv  OBVIOUS
<1>1. WiringTypes  BY DEF WiringInit, WiringTypes
<1>2. NamedBeforeWired  BY DEF WiringInit, NamedBeforeWired
<1>3. AutoWiresOwn  BY DEF WiringInit, AutoWiresOwn, WiresOwnPort, WiresAreSound
<1> QED  BY <1>1, <1>2, <1>3 DEF WiringInv

\* A client that is made has no port, and none of the names of the others changes.
LEMMA NewClientHolds ==
    ASSUME NEW c \in Clients, WiringInv, NewRefused(c) \/ New(c)
    PROVE  WiringInv'
<1> USE DEF WiringInv, AutoWiresOwn
<1>1. /\ stage[c] = "new" /\ UNCHANGED <<wires, wired>>
      /\ stage' = [stage EXCEPT ![c] = "refused"] \/ stage' = [stage EXCEPT ![c] = "device"]
      /\ \A d \in Clients \ {c} : name'[d] = name[d]
      /\ DOMAIN name' = Clients
  BY DEF NewRefused, New, WiringTypes
<1>2. WiringTypes'  BY <1>1 DEF WiringTypes
<1>3. NamedBeforeWired'  BY <1>1 DEF WiringTypes, NamedBeforeWired
<1>4. WiresOwnPort'  BY <1>1 DEF WiresOwnPort, NamedBeforeWired
<1>5. \A d \in Clients : Stream(d) => stage'[d] = stage[d] /\ name'[d] = name[d]
  BY <1>1 DEF Stream, Kinds, WiringTypes
<1>6. WiresAreSound'  BY <1>1, <1>5, WiresStay
<1> QED  BY <1>2, <1>3, <1>4, <1>6

\* A device that becomes a stream gains a port, or is gone; it had none before.
LEMMA OpenHolds ==
    ASSUME NEW c \in Clients, NEW kind \in Kinds, WiringInv, Open(c, kind)
    PROVE  WiringInv'
<1> USE DEF WiringInv, AutoWiresOwn
<1>1. /\ stage[c] = "device" /\ UNCHANGED <<name, wires, wired>>
      /\ stage' = [stage EXCEPT ![c] = kind] \/ stage' = [stage EXCEPT ![c] = "gone"]
  BY DEF Open
<1>2. WiringTypes'  BY <1>1 DEF WiringTypes
<1>3. NamedBeforeWired'  BY <1>1 DEF WiringTypes, NamedBeforeWired, Kinds
<1>4. WiresOwnPort'  BY <1>1 DEF WiresOwnPort
<1>5. \A d \in Clients : Stream(d) => stage'[d] = stage[d] /\ name'[d] = name[d]
  BY <1>1 DEF Stream, Kinds, WiringTypes
<1>6. WiresAreSound'  BY <1>1, <1>5, WiresStay
<1> QED  BY <1>2, <1>3, <1>4, <1>6

\* A stream that is dropped takes the wires of its port with it; the others' ports stay.
LEMMA DropHolds ==
    ASSUME NEW c \in Clients, WiringInv, DropStream(c)
    PROVE  WiringInv'
<1> USE DEF WiringInv, AutoWiresOwn
<1>1. /\ Stream(c) /\ UNCHANGED <<name, wired>>
      /\ stage' = [stage EXCEPT ![c] = "gone"]
      /\ wires' = {w \in wires : OwnPort(c) \notin {w[1], w[2]}}
  BY DEF DropStream
<1>2. WiringTypes'  BY <1>1 DEF WiringTypes
<1>3. NamedBeforeWired'  BY <1>1 DEF WiringTypes, NamedBeforeWired
<1>4. WiresOwnPort'  BY <1>1 DEF WiresOwnPort
<1>5. \A d \in Clients \ {c} : stage'[d] = stage[d] /\ OwnPort(d)' = OwnPort(d)
  BY <1>1 DEF WiringTypes, OwnPort, PortName
<1>6. WiresAreSound'
  <2> SUFFICES ASSUME NEW w \in wires'
               PROVE  w[1] \in OutputPorts' /\ w[2] \in InputPorts'
    BY DEF WiresAreSound, Connectable
  <2>1. w \in wires /\ w[1] # OwnPort(c) /\ w[2] # OwnPort(c)  BY <1>1
  <2>2. w[1] \in OutputPorts /\ w[2] \in InputPorts  BY <2>1 DEF WiresAreSound, Connectable
  <2>3. w[1] \in OutputPorts'  BY <1>5, <2>1, <2>2 DEF OutputPorts
  <2>4. w[2] \in InputPorts'  BY <1>5, <2>1, <2>2 DEF InputPorts
  <2> QED  BY <2>3, <2>4
<1> QED  BY <1>2, <1>3, <1>4, <1>6

\* connect_ports() and a device's auto_connect_output() make wires from ports to ports, and
\* none of them is in the history of a stream.
LEMMA ConnectHolds ==
    ASSUME NEW c \in Clients, WiringInv,
           AutoConnectOutput(c) \/ \E src, dst \in AllPorts : ConnectPorts(c, src, dst)
    PROVE  WiringInv'
<1> USE DEF WiringInv, AutoWiresOwn
<1>1. UNCHANGED <<stage, name, wired>>  BY DEF AutoConnectOutput, ConnectPorts
<1>2. \A w \in wires' : w \in wires \/ Connectable(w[1], w[2])
  BY DEF AutoConnectOutput, ConnectPorts
<1>3. WiresAreSound'  BY <1>1, <1>2, WiresStay
<1>4. WiringTypes' /\ NamedBeforeWired' /\ WiresOwnPort'
  BY <1>1 DEF WiringTypes, NamedBeforeWired, WiresOwnPort
<1> QED  BY <1>3, <1>4

\* auto_connect() of a stream wires its own port.
LEMMA AutoConnectHolds ==
    ASSUME NEW c \in Clients, WiringInv, AutoConnect(c)
    PROVE  WiringInv'
<1> USE DEF WiringInv, AutoWiresOwn
<1>1. Stream(c) /\ UNCHANGED <<stage, name>>  BY DEF AutoConnect
<1>2. PICK made \in SUBSET {w \in Tried(OwnPort(c), stage[c]) : Connectable(w[1], w[2])} :
         wires' = wires \cup made /\ wired' = [wired EXCEPT ![c] = @ \cup made]
  BY DEF AutoConnect
<1>3. WiringTypes'  BY <1>1, <1>2 DEF WiringTypes
<1>4. stage[c] # "new"  BY <1>1 DEF Stream, Kinds
<1>5. wired'[c] = wired[c] \cup made /\ \A d \in Clients \ {c} : wired'[d] = wired[d]
  BY <1>2 DEF WiringTypes
<1>6. NamedBeforeWired'  BY <1>1, <1>4, <1>5 DEF NamedBeforeWired
<1>7. \A w \in wires' : w \in wires \/ Connectable(w[1], w[2])  BY <1>2
<1>8. WiresAreSound'  BY <1>1, <1>7, WiresStay
<1>9. WiresOwnPort'
  <2> SUFFICES ASSUME NEW d \in Clients, NEW w \in wired'[d]
               PROVE  \/ w[1] = <<name[d], "out">> /\ w[2] \in FirstTwo(Playback)
                      \/ w[2] = <<name[d], "in">> /\ w[1] \in FirstTwo(Capture)
    BY <1>1 DEF WiresOwnPort
  <2>1. CASE w \in wired[d]  BY <2>1 DEF WiresOwnPort
  <2>2. CASE w \notin wired[d]
    <3>1. d = c /\ w \in Tried(OwnPort(c), stage[c])  BY <1>2, <1>5, <2>2
    <3>2. OwnPort(c) = <<name[c], IF stage[c] = "input" THEN "in" ELSE "out">>
      BY DEF OwnPort, PortName
    <3> QED  BY <3>1, <3>2, TriedOwn
  <2> QED  BY <2>1, <2>2
<1> QED  BY <1>3, <1>6, <1>8, <1>9

-----------------------------------------------------------------------------
\* Every step of a client keeps the invariant.
LEMMA WiringNextHolds == WiringInv /\ [WiringNext]_wiringVars => WiringInv'
<1> SUFFICES ASSUME WiringInv, [WiringNext]_wiringVars PROVE WiringInv'  OBVIOUS
<1>1. CASE UNCHANGED wiringVars
  <2>1. UNCHANGED <<stage, name, wires, wired>>  BY <1>1 DEF wiringVars
  <2>2. WiresAreSound'  BY <2>1, WiresStay DEF WiringInv, AutoWiresOwn
  <2> QED  BY <2>1, <2>2 DEF WiringInv, AutoWiresOwn, WiringTypes, NamedBeforeWired, WiresOwnPort
<1> QED
  BY <1>1, NewClientHolds, OpenHolds, DropHolds, ConnectHolds, AutoConnectHolds DEF WiringNext

-----------------------------------------------------------------------------
(* JackMidi: what the reassembler makes of the bytes of an entry.          *)

Bytes == Seq(STRING)
Receivers == [buffer : Bytes, regular : Seq(Bytes), complete : Seq(Bytes)]

\* A message begun and not ended.
Unended(q) == q \in Bytes /\ Len(q) > 0 /\ q[1] = "F0" /\ \A i \in 2 .. Len(q) : ~Cable!IsStatus(q[i])

\* A receiver that holds `q`, and one that was given the message `m`, which the history
\* leaves out when it is another client's.
Holds(r, q) == [r EXCEPT !.buffer = q]
Given(r, m) == [r EXCEPT !.buffer = <<>>, !.complete = IF m \in Cable!Heard THEN @ ELSE Append(@, m)]

\* What one byte does: one case for each class of bytes.
LEMMA FedByte ==
    ASSUME NEW r \in Receivers, NEW b \in STRING
    PROVE  /\ b = "F0" => Cable!FeedByte(r, b) = Holds(r, <<b>>)
           /\ b # "F0" /\ r.buffer = <<>> => Cable!FeedByte(r, b) = r
           /\ b = "clock" => Cable!FeedByte(r, b) = r
           /\ r.buffer # <<>> /\ b = "F7" => Cable!FeedByte(r, b) = Given(r, Append(r.buffer, b))
           /\ r.buffer # <<>> /\ b = "note" => Cable!FeedByte(r, b) = Holds(r, <<>>)
           /\ r.buffer # <<>> /\ ~Cable!IsStatus(b) =>
                  Cable!FeedByte(r, b) = Holds(r, Append(r.buffer, b))
<1>1. b = "F0" => Cable!FeedByte(r, b) = Holds(r, <<b>>)
  BY Zenon DEF Cable!FeedByte, Holds
<1>2. "clock" # "F0" /\ "F7" # "F0" /\ "F7" # "clock" /\ "note" # "F0" /\ "note" # "F7" /\ "note" # "clock"
  OBVIOUS
<1>3. /\ b # "F0" /\ r.buffer = <<>> => Cable!FeedByte(r, b) = r
      /\ b = "clock" => Cable!FeedByte(r, b) = r
  BY <1>2, Zenon DEF Cable!FeedByte, Cable!IsRealtime
<1>4. r.buffer # <<>> /\ b = "F7" => Cable!FeedByte(r, b) = Cable!Completed(r)
  BY <1>2, Zenon DEF Cable!FeedByte, Cable!IsRealtime
<1>5. r.buffer # <<>> /\ b = "note" => Cable!FeedByte(r, b) = Holds(r, <<>>)
  BY <1>2, Zenon DEF Cable!FeedByte, Cable!IsRealtime, Holds
<1>6. ~Cable!IsStatus(b) => b # "F0" /\ b # "F7" /\ b # "note" /\ b # "clock"
  BY DEF Cable!IsStatus
<1>7. r.buffer # <<>> /\ ~Cable!IsStatus(b) => Cable!FeedByte(r, b) = Holds(r, Append(r.buffer, b))
  BY <1>6, Zenon DEF Cable!FeedByte, Cable!IsRealtime, Holds
<1>8. b = "F7" => Cable!Completed(r) = Given(r, Append(r.buffer, b))
  BY Zenon DEF Cable!Completed, Given
<1> QED  BY <1>1, <1>3, <1>4, <1>5, <1>7, <1>8, Zenon

LEMMA HoldsType == ASSUME NEW r \in Receivers, NEW q \in Bytes PROVE Holds(r, q) \in Receivers
  BY DEF Holds, Receivers

LEMMA GivenType == ASSUME NEW r \in Receivers, NEW m \in Bytes PROVE Given(r, m) \in Receivers
<1>1. Append(r.complete, m) \in Seq(Bytes) /\ <<>> \in Bytes  BY DEF Receivers, Bytes
<1> QED  BY <1>1 DEF Given, Receivers

LEMMA FeedByteType ==
    ASSUME NEW r \in Receivers, NEW b \in STRING
    PROVE  Cable!FeedByte(r, b) \in Receivers
<1>1. r.buffer \in Bytes /\ <<>> \in Bytes /\ <<b>> \in Bytes /\ Append(r.buffer, b) \in Bytes
  BY DEF Receivers, Bytes
<1>2. CASE b = "F0"  BY <1>1, <1>2, FedByte, HoldsType
<1>3. CASE b # "F0" /\ r.buffer = <<>>  BY <1>3, FedByte
<1>4. CASE b = "clock"  BY <1>4, FedByte
<1>5. CASE r.buffer # <<>> /\ b = "F7"  BY <1>1, <1>5, FedByte, GivenType
<1>6. CASE r.buffer # <<>> /\ b = "note"  BY <1>1, <1>6, FedByte, HoldsType
<1>7. CASE r.buffer # <<>> /\ ~Cable!IsStatus(b)  BY <1>1, <1>7, FedByte, HoldsType
<1> QED  BY <1>2, <1>3, <1>4, <1>5, <1>6, <1>7 DEF Cable!IsStatus

LEMMA MaxOfCable == ASSUME NEW T PROVE Cable!Max(T) = Greatest(T)
  BY Zenon DEF Cable!Max, Greatest

\* feed() takes one byte after the other.
LEMMA FeedRuns ==
    ASSUME NEW r \in Receivers, NEW s \in Bytes
    PROVE  \E F \in [0 .. Len(s) -> Receivers] :
               /\ F[0] = r /\ F[Len(s)] = Cable!Feed(r, s)
               /\ \A k \in 1 .. Len(s) : F[k] = Cable!FeedByte(F[k - 1], s[k])
<1> DEFINE n == Len(s)
           Is(g) == g = [t \in SUBSET DOMAIN s |->
                           IF t = {} THEN r
                           ELSE Cable!FeedByte(g[t \ {Cable!Max(t)}], s[Cable!Max(t)])]
           iter == CHOOSE g : Is(g)
<1>1. Cable!Feed(r, s) = iter[DOMAIN s]
  BY DEF Cable!Feed, Cable!FoldLeft, Cable!MapThenFoldSet
<1>2. n \in Nat /\ DOMAIN s = 1 .. n /\ \A k \in 1 .. n : s[k] \in STRING  BY DEF Bytes
<1> HIDE DEF n
<1> DEFINE G == [p \in Receivers \X (1 .. n) |-> Cable!FeedByte(p[1], s[p[2]])]
<1>4. G \in [Receivers \X (1 .. n) -> Receivers]  BY <1>2, FeedByteType
<1>5. \A d \in Receivers, k \in 1 .. n : G[<<d, k>>] = Cable!FeedByte(d, s[k])  OBVIOUS
<1> HIDE DEF G
<1>6. Is(iter)
  <2>1. PICK g : FoldsTo(g, n, Receivers, r, G)  BY <1>2, <1>4, FoldExists
  <2>2. /\ g \in [SUBSET (1 .. n) -> Receivers]
        /\ \A T \in SUBSET (1 .. n) :
               g[T] = IF T = {} THEN r ELSE G[<<g[T \ {Greatest(T)}], Greatest(T)>>]
    BY <2>1 DEF FoldsTo
  <2>3. ASSUME NEW T \in SUBSET (1 .. n)
        PROVE  g[T] = IF T = {} THEN r
                      ELSE Cable!FeedByte(g[T \ {Cable!Max(T)}], s[Cable!Max(T)])
    <3>1. CASE T = {}  BY <2>2, <3>1
    <3>2. CASE T # {}
      <4>1. Greatest(T) \in 1 .. n /\ T \ {Greatest(T)} \in SUBSET (1 .. n)
        BY <1>2, <3>2, GreatestOfPlaces
      <4>2. g[T \ {Greatest(T)}] \in Receivers  BY <2>2, <4>1
      <4> QED  BY <1>5, <2>2, <3>2, <4>1, <4>2, MaxOfCable
    <3> QED  BY <3>1, <3>2
  <2>4. g = [T \in SUBSET (1 .. n) |-> g[T]]  BY <2>2
  <2>5. g = [t \in SUBSET (1 .. n) |-> IF t = {} THEN r
                 ELSE Cable!FeedByte(g[t \ {Cable!Max(t)}], s[Cable!Max(t)])]
    BY <2>3, <2>4, Zenon
  <2> QED  BY <1>2, <2>5, Zenon
<1>7. ASSUME NEW T \in SUBSET (1 .. n)
      PROVE  IF T = {} THEN iter[T] = r
             ELSE iter[T \ {Greatest(T)}] \in Receivers =>
                      iter[T] = G[<<iter[T \ {Greatest(T)}], Greatest(T)>>]
  <2>1. iter[T] = IF T = {} THEN r
                  ELSE Cable!FeedByte(iter[T \ {Cable!Max(T)}], s[Cable!Max(T)])
    BY <1>2, <1>6
  <2>2. T # {} => Greatest(T) \in 1 .. n  BY <1>2, GreatestOfPlaces
  <2> HIDE DEF iter
  <2> QED  BY <1>5, <2>1, <2>2, MaxOfCable
<1> HIDE DEF iter, Is
<1>8. PICK F \in [0 .. n -> Receivers] :
          F[0] = r /\ F[n] = iter[1 .. n] /\ \A k \in 1 .. n : F[k] = G[<<F[k - 1], k>>]
  <2>1. PICK D, m, c, H : D = Receivers /\ m = n /\ c = iter /\ H = G  OBVIOUS
  <2>2. r \in D /\ m \in Nat /\ H \in [D \X (1 .. m) -> D]  BY <1>2, <1>4, <2>1, Zenon
  <2>3. Unfolds(c, m, D, r, H)  BY <1>7, <2>1, Zenon DEF Unfolds
  <2>4. InSteps(c, m, D, r, H)  BY <2>2, <2>3, FoldSteps, Zenon
  <2> QED  BY <2>1, <2>4, Zenon DEF InSteps
<1>9. ASSUME NEW k \in 1 .. n PROVE F[k] = Cable!FeedByte(F[k - 1], s[k])
  <2>1. k - 1 \in 0 .. n  BY <1>2
  <2> QED  BY <1>5, <1>8, <2>1
<1> QED  BY <1>1, <1>2, <1>8, <1>9 DEF n

\* A prefix and the next byte are the next prefix.
LEMMA PrefixGrows ==
    ASSUME NEW s \in Bytes, NEW k \in Nat, k < Len(s)
    PROVE  /\ SubSeq(s, 1, k) \in Bytes /\ Len(SubSeq(s, 1, k)) = k
           /\ SubSeq(s, 1, k + 1) = Append(SubSeq(s, 1, k), s[k + 1])
<1>1. Len(s) \in Nat /\ \A i \in 1 .. Len(s) : s[i] \in STRING  BY DEF Bytes
<1>2. /\ SubSeq(s, 1, k) \in Bytes /\ Len(SubSeq(s, 1, k)) = k
      /\ \A i \in 1 .. k : SubSeq(s, 1, k)[i] = s[i]
      /\ SubSeq(s, 1, k + 1) \in Bytes /\ Len(SubSeq(s, 1, k + 1)) = k + 1
      /\ \A i \in 1 .. k + 1 : SubSeq(s, 1, k + 1)[i] = s[i]
  BY <1>1 DEF Bytes
<1> DEFINE a == Append(SubSeq(s, 1, k), s[k + 1])
           z == SubSeq(s, 1, k + 1)
<1>3. s[k + 1] \in STRING  BY <1>1
<1>4. a \in Bytes /\ Len(a) = k + 1 /\ a[k + 1] = s[k + 1] /\ \A i \in 1 .. k : a[i] = s[i]
  BY <1>2, <1>3 DEF Bytes
<1>5. \A i \in 1 .. k + 1 : a[i] = z[i]
  <2> HIDE DEF a
  <2> SUFFICES ASSUME NEW i \in 1 .. k + 1 PROVE a[i] = z[i]  OBVIOUS
  <2>1. CASE i = k + 1  BY <1>2, <1>4, <2>1
  <2>2. CASE i \in 1 .. k  BY <1>2, <1>4, <2>2
  <2> QED  BY <2>1, <2>2
<1>6. a = z
  <2> HIDE DEF a, z
  <2>1. a \in Seq(STRING) /\ z \in Seq(STRING) /\ Len(a) = Len(z)  BY <1>2, <1>4 DEF Bytes, z
  <2>2. \A i \in 1 .. Len(a) : a[i] = z[i]  BY <1>4, <1>5
  <2> QED  BY <2>1, <2>2, SeqEqual
<1> QED  BY <1>2, <1>6

LEMMA WholePrefix == ASSUME NEW s \in Bytes PROVE SubSeq(s, 1, Len(s)) = s
  BY SubSeqFull, SMTT(30) DEF Bytes

LEMMA HoldsAgain ==
    ASSUME NEW r \in Receivers, NEW p \in Bytes
    PROVE  /\ Holds(r, p).buffer = p
           /\ \A q : Holds(Holds(r, p), q) = Holds(r, q)
           /\ \A m : Given(Holds(r, p), m) = Given(r, m)
  BY DEF Holds, Given, Receivers

\* Bytes of a message, after those the receiver holds of it: it holds them all, or is given the
\* message.  The first bytes of one need not find an empty buffer.
LEMMA FeedGoesOn ==
    ASSUME NEW r \in Receivers, NEW q \in Bytes, NEW e \in Bytes, e # <<>>,
           q = <<>> \/ r.buffer = q
    PROVE  /\ Unended(q \o e) => Cable!Feed(r, e) = Holds(r, q \o e)
           /\ Cable!IsSysEx(q \o e) => Cable!Feed(r, e) = Given(r, q \o e)
<1> DEFINE s == q \o e
           l == Len(q)
           n == Len(e)
           Begun(k) == s[1] = "F0" /\ \A i \in 2 .. l + k : ~Cable!IsStatus(s[i])
<1>1. /\ s \in Bytes /\ Len(s) = l + n /\ l \in Nat /\ n \in Nat /\ n > 0
      /\ \A i \in 1 .. l : s[i] = q[i]
      /\ \A k \in 1 .. n : s[l + k] = e[k] /\ e[k] \in STRING
      /\ l = 0 <=> q = <<>>
  BY DEF Bytes
<1>2. PICK F \in [0 .. n -> Receivers] :
          /\ F[0] = r /\ F[n] = Cable!Feed(r, e)
          /\ \A k \in 1 .. n : F[k] = Cable!FeedByte(F[k - 1], e[k])
  BY FeedRuns
<1>3. SubSeq(s, 1, l) = q
  <2>1. SubSeq(s, 1, l) \in Seq(STRING) /\ Len(SubSeq(s, 1, l)) = l
        /\ \A i \in 1 .. l : SubSeq(s, 1, l)[i] = s[i]
    BY <1>1 DEF Bytes
  <2> HIDE DEF s
  <2>2. \A i \in 1 .. Len(q) : SubSeq(s, 1, l)[i] = q[i]  BY <1>1, <2>1
  <2> QED  BY <2>1, <2>2, SeqEqual DEF Bytes
<1> HIDE DEF s, l, n
<1>4. ASSUME NEW k \in 0 .. n - 1
      PROVE  /\ SubSeq(s, 1, l + k) \in Bytes /\ Len(SubSeq(s, 1, l + k)) = l + k
             /\ SubSeq(s, 1, l + (k + 1)) = Append(SubSeq(s, 1, l + k), e[k + 1])
             /\ s[l + (k + 1)] = e[k + 1] /\ e[k + 1] \in STRING
             /\ F[k + 1] = Cable!FeedByte(F[k], e[k + 1])
  <2>1. l + k \in Nat /\ l + k < Len(s) /\ (l + k) + 1 = l + (k + 1) /\ k + 1 \in 1 .. n /\ (k + 1) - 1 = k
    BY <1>1
  <2>2. /\ SubSeq(s, 1, l + k) \in Bytes /\ Len(SubSeq(s, 1, l + k)) = l + k
        /\ SubSeq(s, 1, (l + k) + 1) = Append(SubSeq(s, 1, l + k), s[(l + k) + 1])
    BY <1>1, <2>1, PrefixGrows
  <2> QED  BY <1>1, <1>2, <2>1, <2>2, SMTT(30)
<1>5. r.buffer \in Bytes  BY DEF Receivers
<1> DEFINE Good == {k \in Nat : (k \in 1 .. n /\ Begun(k)) => F[k] = Holds(r, SubSeq(s, 1, l + k))}
<1>6. 0 \in Good  OBVIOUS
<1>7. ASSUME NEW k \in Nat, k \in Good PROVE k + 1 \in Good
  <2> SUFFICES ASSUME k + 1 \in 1 .. n, Begun(k + 1)
               PROVE  F[k + 1] = Holds(r, SubSeq(s, 1, l + (k + 1)))
    OBVIOUS
  <2>1. k \in 0 .. n - 1  BY <1>1
  <2> DEFINE p == SubSeq(s, 1, l + k)
             b == e[k + 1]
  <2>2. /\ p \in Bytes /\ Len(p) = l + k /\ SubSeq(s, 1, l + (k + 1)) = Append(p, b)
        /\ s[l + (k + 1)] = b /\ b \in STRING /\ F[k + 1] = Cable!FeedByte(F[k], b)
    BY <1>4, <2>1
  <2>3. l + (k + 1) > 1 => ~Cable!IsStatus(b)
    <3>1. l + (k + 1) > 1 => l + (k + 1) \in 2 .. l + (k + 1)  BY <1>1
    <3> QED  BY <2>2, <3>1
  <2>4. k = 0 => p = q  BY <1>1, <1>3
  <2>5. s[1] = "F0"  OBVIOUS
  <2>6. k \in 1 .. n => F[k] = Holds(r, p)
    <3>1. \A i \in 2 .. l + k : i \in 2 .. l + (k + 1)  BY <1>1
    <3>2. k \in 1 .. n => Begun(k)  BY <3>1
    <3> QED  BY <1>7, <3>2
  <2> HIDE DEF p, b, Good, Begun
  <2>7. CASE k = 0 /\ l = 0
    <3>1. F[k] = r /\ b = "F0" /\ p = <<>>  BY <1>1, <1>2, <2>2, <2>4, <2>5, <2>7
    <3>2. Append(<<>>, b) = <<b>>  OBVIOUS
    <3> QED  BY <2>2, <3>1, <3>2, FedByte
  <2>8. CASE k = 0 /\ l # 0
    <3>1. F[k] = r /\ r.buffer = p /\ p # <<>>  BY <1>1, <1>2, <2>4, <2>8
    <3>2. ~Cable!IsStatus(b)  BY <1>1, <2>3, <2>8
    <3> QED  BY <2>2, <3>1, <3>2, FedByte
  <2>9. CASE k # 0
    <3>1. k \in 1 .. n /\ l + k > 0 /\ l + (k + 1) > 1  BY <1>1, <2>1, <2>9
    <3>2. F[k] = Holds(r, p) /\ ~Cable!IsStatus(b) /\ p # <<>>
      <4>1. p = <<>> => Len(p) = 0  OBVIOUS
      <4> QED  BY <2>2, <2>3, <2>6, <3>1, <4>1
    <3>3. Holds(r, p).buffer = p /\ Holds(r, p) \in Receivers  BY <2>2, HoldsAgain, HoldsType
    <3>4. Cable!FeedByte(Holds(r, p), b) = Holds(Holds(r, p), Append(Holds(r, p).buffer, b))
      BY <2>2, <3>2, <3>3, FedByte
    <3>5. \A z : Holds(Holds(r, p), z) = Holds(r, z)  BY <2>2, HoldsAgain
    <3> QED  BY <2>2, <3>2, <3>3, <3>4, <3>5, Zenon
  <2> QED  BY <2>7, <2>8, <2>9
<1>8. Nat \subseteq Good
  <2> HIDE DEF Good
  <2> QED  BY <1>6, <1>7, SetInduction
<1>9. ASSUME NEW k \in 1 .. n, Begun(k) PROVE F[k] = Holds(r, SubSeq(s, 1, l + k))
  BY <1>8, <1>9
<1> HIDE DEF Good
<1>10. ASSUME Unended(s) PROVE Cable!Feed(r, e) = Holds(r, s)
  <2>1. Begun(n) /\ n \in 1 .. n  BY <1>1, <1>10 DEF Unended
  <2>2. SubSeq(s, 1, l + n) = s  BY <1>1, WholePrefix
  <2> QED  BY <1>2, <1>9, <2>1, <2>2
<1>11. ASSUME Cable!IsSysEx(s) PROVE Cable!Feed(r, e) = Given(r, s)
  <2>1. n - 1 \in 0 .. n - 1 /\ (n - 1) + 1 = n  BY <1>1
  <2> DEFINE p == SubSeq(s, 1, l + (n - 1))
  <2>2. /\ p \in Bytes /\ Len(p) = l + (n - 1) /\ SubSeq(s, 1, l + n) = Append(p, e[n])
        /\ s[l + n] = e[n] /\ e[n] \in STRING /\ F[n] = Cable!FeedByte(F[n - 1], e[n])
    BY <1>4, <2>1
  <2>3. SubSeq(s, 1, l + n) = s  BY <1>1, WholePrefix
  <2>4. e[n] = "F7" /\ l + n > 1  BY <1>1, <1>11, <2>2 DEF Cable!IsSysEx
  <2>5. F[n - 1] = Holds(r, p)
    <3>1. CASE n = 1
      <4>1. F[n - 1] = r /\ p = q /\ r.buffer = q  BY <1>1, <1>2, <1>3, <2>4, <3>1
      <4> QED  BY <4>1 DEF Holds, Receivers
    <3>2. CASE n # 1
      <4>1. n - 1 \in 1 .. n  BY <1>1, <3>2
      <4>2. Begun(n - 1)
        <5>1. \A i \in 2 .. l + (n - 1) : i \in 2 .. Len(s) - 1  BY <1>1
        <5> QED  BY <1>11, <5>1 DEF Cable!IsSysEx
      <4> QED  BY <1>9, <4>1, <4>2
    <3> QED  BY <3>1, <3>2
  <2> HIDE DEF p
  <2>6. p # <<>>
    <3>1. p = <<>> => Len(p) = 0  OBVIOUS
    <3> QED  BY <1>1, <2>2, <2>4, <3>1
  <2>7. Holds(r, p).buffer = p /\ Holds(r, p) \in Receivers  BY <2>2, HoldsAgain, HoldsType
  <2>8. F[n] = Given(Holds(r, p), Append(p, e[n]))  BY <2>2, <2>4, <2>5, <2>6, <2>7, FedByte
  <2>9. Given(Holds(r, p), Append(p, e[n])) = Given(r, Append(p, e[n]))  BY <2>2, HoldsAgain
  <2> QED  BY <1>2, <2>2, <2>3, <2>8, <2>9
<1> QED  BY <1>10, <1>11 DEF s

\* A realtime byte passes by; a message of another kind cancels what was begun.
LEMMA FeedClock == ASSUME NEW r \in Receivers, NEW e, Cable!IsClock(e) PROVE Cable!Feed(r, e) = r
<1>1. e \in Bytes /\ Len(e) = 1 /\ e[1] = "clock" /\ e[1] \in STRING
  BY DEF Bytes, Cable!IsClock, Cable!IsRealtime
<1>2. PICK F \in [0 .. Len(e) -> Receivers] :
          /\ F[0] = r /\ F[Len(e)] = Cable!Feed(r, e)
          /\ \A k \in 1 .. Len(e) : F[k] = Cable!FeedByte(F[k - 1], e[k])
  BY <1>1, FeedRuns
<1>3. F[1] = Cable!FeedByte(F[1 - 1], e[1]) /\ 1 - 1 = 0  BY <1>1, <1>2
<1> QED  BY <1>1, <1>2, <1>3, FedByte

LEMMA FeedNote ==
    ASSUME NEW r \in Receivers, NEW e, Cable!IsNote(e), r.buffer # <<>>
    PROVE  Cable!Feed(r, e) = Holds(r, <<>>)
<1> DEFINE n == Len(e)
<1>1. /\ e \in Bytes /\ n \in Nat /\ n > 0 /\ e[1] = "note"
      /\ \A k \in 1 .. n : e[k] \in STRING /\ (k > 1 => ~Cable!IsStatus(e[k]))
  BY DEF Cable!IsNote, Bytes
<1>2. PICK F \in [0 .. n -> Receivers] :
          /\ F[0] = r /\ F[n] = Cable!Feed(r, e)
          /\ \A k \in 1 .. n : F[k] = Cable!FeedByte(F[k - 1], e[k])
  BY <1>1, FeedRuns
<1> HIDE DEF n
<1> DEFINE Good == {k \in Nat : k \in 1 .. n => F[k] = Holds(r, <<>>)}
<1>3. 0 \in Good  OBVIOUS
<1>4. ASSUME NEW k \in Nat, k \in Good PROVE k + 1 \in Good
  <2> SUFFICES ASSUME k + 1 \in 1 .. n PROVE F[k + 1] = Holds(r, <<>>)  OBVIOUS
  <2>1. F[k + 1] = Cable!FeedByte(F[k], e[k + 1]) /\ e[k + 1] \in STRING
    <3>1. (k + 1) - 1 = k  OBVIOUS
    <3> QED  BY <1>1, <1>2, <3>1
  <2>2. CASE k = 0  BY <1>1, <1>2, <2>1, <2>2, FedByte
  <2>3. CASE k # 0
    <3>1. F[k] = Holds(r, <<>>)
      <4>1. k \in 1 .. n  BY <1>1, <2>3
      <4> QED  BY <1>4, <4>1
    <3>2. ~Cable!IsStatus(e[k + 1])  BY <1>1, <2>3
    <3>3. e[k + 1] # "F0"  BY <3>2 DEF Cable!IsStatus
    <3>4. <<>> \in Bytes  BY DEF Bytes
    <3>5. Holds(r, <<>>) \in Receivers /\ Holds(r, <<>>).buffer = <<>>
      BY <3>4, HoldsAgain, HoldsType
    <3> QED  BY <2>1, <3>1, <3>3, <3>5, FedByte
  <2> QED  BY <2>2, <2>3
<1>5. Nat \subseteq Good
  <2> HIDE DEF Good
  <2> QED  BY <1>3, <1>4, SetInduction
<1>6. n \in 1 .. n /\ n \in Nat  BY <1>1
<1> QED  BY <1>2, <1>5, <1>6

-----------------------------------------------------------------------------
(* What recv_with_sysex() makes of an entry.                                *)

Regular(r, e) == [r EXCEPT !.regular = Append(@, e)]

\* An entry is a realtime byte or has none.
Entries ==
    {e \in Bytes : /\ Len(e) \in 1 .. EntryMax
                   /\ Cable!IsClock(e) \/ \A i \in 1 .. Len(e) : ~Cable!IsRealtime(e[i])}

LEMMA FeedType == ASSUME NEW r \in Receivers, NEW e \in Bytes PROVE Cable!Feed(r, e) \in Receivers
<1>1. PICK F \in [0 .. Len(e) -> Receivers] : F[Len(e)] = Cable!Feed(r, e)  BY FeedRuns
<1>2. Len(e) \in 0 .. Len(e)  BY DEF Bytes
<1> QED  BY <1>1, <1>2

LEMMA TakeType == ASSUME NEW r \in Receivers, NEW e \in Bytes PROVE Cable!Take(r, e) \in Receivers
<1>1. Regular(r, e) \in Receivers
  <2>1. Append(r.regular, e) \in Seq(Bytes)  BY DEF Receivers
  <2> QED  BY <2>1 DEF Receivers, Regular
<1> QED  BY <1>1, FeedType, Zenon DEF Cable!Take, Regular

\* recv_with_sysex(), one entry of its loop: a realtime message passes by, or is a regular entry.
LEMMA TakeClock ==
    ASSUME NEW r \in Receivers, NEW e, Cable!IsClock(e)
    PROVE  Cable!Take(r, e) = r \/ Cable!Take(r, e) = Regular(r, e)
<1>1. Head(e) = e[1] /\ e[1] = "clock" /\ "clock" # "F0"  BY DEF Cable!IsClock, Cable!IsRealtime
<1> QED  BY <1>1, FeedClock, Zenon DEF Cable!Take, Regular

\* A message of another kind is a regular entry, or cancels what was begun.
LEMMA TakeNote ==
    ASSUME NEW r \in Receivers, NEW e, Cable!IsNote(e)
    PROVE  \/ Cable!Take(r, e) = r \/ Cable!Take(r, e) = Regular(r, e)
           \/ Cable!Take(r, e) = Holds(r, <<>>)
<1>1. Head(e) = "note"  BY DEF Cable!IsNote
<1>2. "note" # "F0"  OBVIOUS
<1> QED  BY <1>1, <1>2, FeedNote, Zenon DEF Cable!Take, Regular

\* A piece of a SysEx message goes on with it.
LEMMA TakePiece ==
    ASSUME NEW r \in Receivers, NEW q \in Bytes, NEW e \in Bytes, e # <<>>,
           q = <<>> \/ r.buffer = q
    PROVE  /\ Unended(q \o e) => Cable!Take(r, e) = Holds(r, q \o e)
           /\ Cable!IsSysEx(q \o e) => Cable!Take(r, e) = Given(r, q \o e)
<1> SUFFICES ASSUME Unended(q \o e) \/ Cable!IsSysEx(q \o e)
             PROVE  Cable!Take(r, e) = Cable!Feed(r, e)
  BY FeedGoesOn, Zenon
<1>1. CASE q = <<>>
  <2>1. q \o e = e /\ Head(e) = e[1]  BY <1>1 DEF Bytes
  <2>2. e[1] = "F0"  BY <2>1 DEF Unended, Cable!IsSysEx
  <2> QED  BY <2>1, <2>2, Zenon DEF Cable!Take
<1>2. CASE q # <<>>  BY <1>2, Zenon DEF Cable!Take
<1> QED  BY <1>1, <1>2

-----------------------------------------------------------------------------
(* A SysEx message whose entries all arrived.                               *)

LEMMA EntryIsBytes ==
    ASSUME NEW e \in Entries
    PROVE  /\ e \in Bytes /\ e # <<>> /\ Head(e) = e[1]
           /\ Cable!IsClock(e) <=> Cable!IsRealtime(e[1])
<1>1. e \in Bytes /\ Len(e) \in 1 .. EntryMax
      /\ (Cable!IsClock(e) \/ \A i \in 1 .. Len(e) : ~Cable!IsRealtime(e[i]))
  BY DEF Entries
<1>2. Len(e) \in Nat \ {0} /\ e # <<>> /\ Head(e) = e[1] /\ 1 \in 1 .. Len(e)
  BY <1>1 DEF Bytes
<1>3. Cable!IsClock(e) => Cable!IsRealtime(e[1])  BY DEF Cable!IsClock
<1> QED  BY <1>1, <1>2, <1>3

\* What Joined makes of one entry more.
Joins(q, e) == IF Cable!IsRealtime(Head(e)) THEN q ELSE q \o e

LEMMA JoinsType == ASSUME NEW q \in Bytes, NEW e \in Entries PROVE Joins(q, e) \in Bytes
<1>1. e \in Bytes  BY EntryIsBytes
<1>2. q \o e \in Bytes  BY <1>1 DEF Bytes
<1> QED  BY <1>2, Zenon DEF Joins

\* recv_with_sysex() takes one entry after the other.
LEMMA TakeRuns ==
    ASSUME NEW r \in Receivers, NEW s \in Seq(Entries)
    PROVE  \E F \in [0 .. Len(s) -> Receivers] :
               /\ F[0] = r /\ F[Len(s)] = Cable!FoldLeft(Cable!Take, r, s)
               /\ \A k \in 1 .. Len(s) : F[k] = Cable!Take(F[k - 1], s[k])
<1> DEFINE n == Len(s)
           Is(g) == g = [t \in SUBSET DOMAIN s |->
                           IF t = {} THEN r
                           ELSE Cable!Take(g[t \ {Cable!Max(t)}], s[Cable!Max(t)])]
           iter == CHOOSE g : Is(g)
<1>1. Cable!FoldLeft(Cable!Take, r, s) = iter[DOMAIN s]
  BY DEF Cable!FoldLeft, Cable!MapThenFoldSet
<1>2. n \in Nat /\ DOMAIN s = 1 .. n /\ \A k \in 1 .. n : s[k] \in Entries  OBVIOUS
<1>3. r \in Receivers  OBVIOUS
<1> HIDE DEF n
<1> DEFINE G == [p \in Receivers \X (1 .. n) |-> Cable!Take(p[1], s[p[2]])]
<1>4. G \in [Receivers \X (1 .. n) -> Receivers]  BY <1>2, EntryIsBytes, TakeType
<1>5. \A d \in Receivers, k \in 1 .. n : G[<<d, k>>] = Cable!Take(d, s[k])  OBVIOUS
<1> HIDE DEF G
<1>6. Is(iter)
  <2>1. PICK g : FoldsTo(g, n, Receivers, r, G)  BY <1>2, <1>3, <1>4, FoldExists
  <2>2. /\ g \in [SUBSET (1 .. n) -> Receivers]
        /\ \A T \in SUBSET (1 .. n) :
               g[T] = IF T = {} THEN r ELSE G[<<g[T \ {Greatest(T)}], Greatest(T)>>]
    BY <2>1 DEF FoldsTo
  <2>3. ASSUME NEW T \in SUBSET (1 .. n)
        PROVE  g[T] = IF T = {} THEN r
                      ELSE Cable!Take(g[T \ {Cable!Max(T)}], s[Cable!Max(T)])
    <3>1. CASE T = {}  BY <2>2, <3>1
    <3>2. CASE T # {}
      <4>1. Greatest(T) \in 1 .. n /\ T \ {Greatest(T)} \in SUBSET (1 .. n)
        BY <1>2, <3>2, GreatestOfPlaces
      <4>2. g[T \ {Greatest(T)}] \in Receivers  BY <2>2, <4>1
      <4> QED  BY <1>5, <2>2, <3>2, <4>1, <4>2, MaxOfCable
    <3> QED  BY <3>1, <3>2
  <2>4. g = [T \in SUBSET (1 .. n) |-> g[T]]  BY <2>2
  <2>5. g = [t \in SUBSET (1 .. n) |-> IF t = {} THEN r
                 ELSE Cable!Take(g[t \ {Cable!Max(t)}], s[Cable!Max(t)])]
    BY <2>3, <2>4, Zenon
  <2> QED  BY <1>2, <2>5, Zenon
<1>7. ASSUME NEW T \in SUBSET (1 .. n)
      PROVE  IF T = {} THEN iter[T] = r
             ELSE iter[T \ {Greatest(T)}] \in Receivers =>
                      iter[T] = G[<<iter[T \ {Greatest(T)}], Greatest(T)>>]
  <2>1. iter[T] = IF T = {} THEN r
                  ELSE Cable!Take(iter[T \ {Cable!Max(T)}], s[Cable!Max(T)])
    BY <1>2, <1>6
  <2>2. T # {} => Greatest(T) \in 1 .. n  BY <1>2, GreatestOfPlaces
  <2> HIDE DEF iter
  <2> QED  BY <1>5, <2>1, <2>2, MaxOfCable
<1> HIDE DEF iter, Is
<1>8. PICK F \in [0 .. n -> Receivers] :
          F[0] = r /\ F[n] = iter[1 .. n] /\ \A k \in 1 .. n : F[k] = G[<<F[k - 1], k>>]
  <2>1. PICK D, b, m, c, H : D = Receivers /\ b = r /\ m = n /\ c = iter /\ H = G  OBVIOUS
  <2>2. b \in D /\ m \in Nat /\ H \in [D \X (1 .. m) -> D]  BY <1>2, <1>3, <1>4, <2>1, Zenon
  <2>3. Unfolds(c, m, D, b, H)  BY <1>7, <2>1, Zenon DEF Unfolds
  <2>4. InSteps(c, m, D, b, H)  BY <2>2, <2>3, FoldSteps, Zenon
  <2> QED  BY <2>1, <2>4, Zenon DEF InSteps
<1>9. ASSUME NEW k \in 1 .. n PROVE F[k] = Cable!Take(F[k - 1], s[k])
  <2>1. k - 1 \in 0 .. n  BY <1>2
  <2> QED  BY <1>5, <1>8, <2>1
<1> QED  BY <1>1, <1>2, <1>8, <1>9 DEF n

\* Entries are joined one after the other.
LEMMA JoinRuns ==
    ASSUME NEW s \in Seq(Entries)
    PROVE  \E F \in [0 .. Len(s) -> Bytes] :
               /\ F[0] = <<>> /\ F[Len(s)] = Cable!Joined(s)
               /\ \A k \in 1 .. Len(s) : F[k] = Joins(F[k - 1], s[k])
<1> DEFINE n == Len(s)
           Is(g) == g = [t \in SUBSET DOMAIN s |->
                           IF t = {} THEN <<>>
                           ELSE Joins(g[t \ {Cable!Max(t)}], s[Cable!Max(t)])]
           iter == CHOOSE g : Is(g)
<1>1. Cable!Joined(s) = iter[DOMAIN s]
  BY DEF Cable!Joined, Cable!FoldLeft, Cable!MapThenFoldSet, Joins
<1>2. n \in Nat /\ DOMAIN s = 1 .. n /\ \A k \in 1 .. n : s[k] \in Entries  OBVIOUS
<1>3. <<>> \in Bytes  BY DEF Bytes
<1> HIDE DEF n
<1> DEFINE G == [p \in Bytes \X (1 .. n) |-> Joins(p[1], s[p[2]])]
<1>4. G \in [Bytes \X (1 .. n) -> Bytes]  BY <1>2, JoinsType
<1>5. \A d \in Bytes, k \in 1 .. n : G[<<d, k>>] = Joins(d, s[k])  OBVIOUS
<1> HIDE DEF G
<1>6. Is(iter)
  <2>1. PICK g : FoldsTo(g, n, Bytes, <<>>, G)  BY <1>2, <1>3, <1>4, FoldExists
  <2>2. /\ g \in [SUBSET (1 .. n) -> Bytes]
        /\ \A T \in SUBSET (1 .. n) :
               g[T] = IF T = {} THEN <<>> ELSE G[<<g[T \ {Greatest(T)}], Greatest(T)>>]
    BY <2>1 DEF FoldsTo
  <2>3. ASSUME NEW T \in SUBSET (1 .. n)
        PROVE  g[T] = IF T = {} THEN <<>>
                      ELSE Joins(g[T \ {Cable!Max(T)}], s[Cable!Max(T)])
    <3>1. CASE T = {}  BY <2>2, <3>1
    <3>2. CASE T # {}
      <4>1. Greatest(T) \in 1 .. n /\ T \ {Greatest(T)} \in SUBSET (1 .. n)
        BY <1>2, <3>2, GreatestOfPlaces
      <4>2. g[T \ {Greatest(T)}] \in Bytes  BY <2>2, <4>1
      <4> QED  BY <1>5, <2>2, <3>2, <4>1, <4>2, MaxOfCable
    <3> QED  BY <3>1, <3>2
  <2>4. g = [T \in SUBSET (1 .. n) |-> g[T]]  BY <2>2
  <2>5. g = [t \in SUBSET (1 .. n) |-> IF t = {} THEN <<>>
                 ELSE Joins(g[t \ {Cable!Max(t)}], s[Cable!Max(t)])]
    BY <2>3, <2>4, Zenon
  <2> QED  BY <1>2, <2>5, Zenon
<1>7. ASSUME NEW T \in SUBSET (1 .. n)
      PROVE  IF T = {} THEN iter[T] = <<>>
             ELSE iter[T \ {Greatest(T)}] \in Bytes =>
                      iter[T] = G[<<iter[T \ {Greatest(T)}], Greatest(T)>>]
  <2>1. iter[T] = IF T = {} THEN <<>>
                  ELSE Joins(iter[T \ {Cable!Max(T)}], s[Cable!Max(T)])
    BY <1>2, <1>6
  <2>2. T # {} => Greatest(T) \in 1 .. n  BY <1>2, GreatestOfPlaces
  <2> HIDE DEF iter
  <2> QED  BY <1>5, <2>1, <2>2, MaxOfCable
<1> HIDE DEF iter, Is
<1>8. PICK F \in [0 .. n -> Bytes] :
          F[0] = <<>> /\ F[n] = iter[1 .. n] /\ \A k \in 1 .. n : F[k] = G[<<F[k - 1], k>>]
  <2>1. PICK D, b, m, c, H : D = Bytes /\ b = <<>> /\ m = n /\ c = iter /\ H = G  OBVIOUS
  <2>2. b \in D /\ m \in Nat /\ H \in [D \X (1 .. m) -> D]  BY <1>2, <1>3, <1>4, <2>1, Zenon
  <2>3. Unfolds(c, m, D, b, H)  BY <1>7, <2>1, Zenon DEF Unfolds
  <2>4. InSteps(c, m, D, b, H)  BY <2>2, <2>3, FoldSteps, Zenon
  <2> QED  BY <2>1, <2>4, Zenon DEF InSteps
<1>9. ASSUME NEW k \in 1 .. n PROVE F[k] = Joins(F[k - 1], s[k])
  <2>1. k - 1 \in 0 .. n  BY <1>2
  <2> QED  BY <1>5, <1>8, <2>1
<1> QED  BY <1>1, <1>2, <1>8, <1>9 DEF n

\* What begins a message is a message begun.
LEMMA OpenPrefix ==
    ASSUME NEW q \in Bytes, NEW e \in Bytes, q # <<>>, e # <<>>,
           Unended(q \o e) \/ Cable!IsSysEx(q \o e)
    PROVE  Unended(q)
<1>1. /\ Len(q \o e) = Len(q) + Len(e) /\ Len(q) \in Nat \ {0} /\ Len(e) \in Nat \ {0}
      /\ \A i \in 1 .. Len(q) : (q \o e)[i] = q[i]
  BY DEF Bytes
<1>2. \A i \in 2 .. Len(q) : i \in 2 .. Len(q \o e) - 1 /\ i \in 2 .. Len(q \o e) /\ i \in 1 .. Len(q)
  BY <1>1
<1>3. (q \o e)[1] = "F0" /\ \A i \in 2 .. Len(q) : ~Cable!IsStatus((q \o e)[i])
  BY <1>2 DEF Unended, Cable!IsSysEx
<1>4. q[1] = "F0"  BY <1>1, <1>3
<1>5. \A i \in 2 .. Len(q) : ~Cable!IsStatus(q[i])  BY <1>1, <1>2, <1>3
<1> QED  BY <1>1, <1>4, <1>5 DEF Unended

\* A message that was begun is not whole.
LEMMA OpenIsNotWhole == ASSUME NEW q, Unended(q) PROVE ~Cable!IsSysEx(q)
<1> SUFFICES ASSUME Cable!IsSysEx(q) PROVE FALSE  OBVIOUS
<1>1. Len(q) \in 2 .. Len(q) /\ q[Len(q)] = "F7"  BY DEF Unended, Bytes, Cable!IsSysEx
<1> QED  BY <1>1 DEF Unended, Cable!IsStatus

\* The receiver holds what came of a message, and was given the message last when it is whole.
Kept(q, r) ==
    /\ q # <<>> /\ Unended(q) => r.buffer = q
    /\ Cable!IsSysEx(q) /\ q \notin Cable!Heard => r.complete # <<>> /\ Last(r.complete) = q

LEMMA GivenIsLast ==
    ASSUME NEW r \in Receivers, NEW m \in Bytes, m \notin Cable!Heard
    PROVE  Given(r, m).complete # <<>> /\ Last(Given(r, m).complete) = m
<1>1. r.complete \in Seq(Bytes) /\ Given(r, m).complete = Append(r.complete, m)
  BY DEF Receivers, Given
<1>2. Len(Append(r.complete, m)) = Len(r.complete) + 1 /\ Append(r.complete, m)[Len(r.complete) + 1] = m
  BY <1>1
<1> QED  BY <1>1, <1>2 DEF Last

\* One entry more.
LEMMA TakeKeeps ==
    ASSUME NEW r \in Receivers, NEW q \in Bytes, NEW e \in Entries, Kept(q, r)
    PROVE  Kept(Joins(q, e), Cable!Take(r, e))
<1>1. e \in Bytes /\ e # <<>> /\ Head(e) = e[1] /\ (Cable!IsClock(e) <=> Cable!IsRealtime(e[1]))
  BY EntryIsBytes
<1>2. CASE Cable!IsClock(e)
  <2>1. Joins(q, e) = q  BY <1>1, <1>2 DEF Joins
  <2>2. Cable!Take(r, e) = r \/ Cable!Take(r, e) = Regular(r, e)  BY <1>2, TakeClock
  <2>3. Regular(r, e).buffer = r.buffer /\ Regular(r, e).complete = r.complete
    BY DEF Regular, Receivers
  <2>4. Cable!Take(r, e).buffer = r.buffer /\ Cable!Take(r, e).complete = r.complete
    BY <2>2, <2>3
  <2> QED  BY <2>1, <2>4 DEF Kept
<1>3. CASE ~Cable!IsClock(e)
  <2>1. Joins(q, e) = q \o e /\ q \o e \in Bytes  BY <1>1, <1>3 DEF Joins, Bytes
  <2>2. ASSUME Unended(q \o e) \/ Cable!IsSysEx(q \o e) PROVE q = <<>> \/ r.buffer = q
    BY <1>1, <2>2, OpenPrefix DEF Kept
  <2>3. ASSUME Unended(q \o e) PROVE Cable!Take(r, e).buffer = q \o e
    <3>1. Cable!Take(r, e) = Holds(r, q \o e)  BY <1>1, <2>2, <2>3, TakePiece
    <3> QED  BY <2>1, <3>1, HoldsAgain
  <2>4. ASSUME Cable!IsSysEx(q \o e), q \o e \notin Cable!Heard
        PROVE  Cable!Take(r, e).complete # <<>> /\ Last(Cable!Take(r, e).complete) = q \o e
    <3>1. Cable!Take(r, e) = Given(r, q \o e)  BY <1>1, <2>2, <2>4, TakePiece
    <3> QED  BY <2>1, <2>4, <3>1, GivenIsLast
  <2> QED  BY <2>1, <2>3, <2>4 DEF Kept
<1> QED  BY <1>2, <1>3

\* Whatever came before it.
LEMMA WholeComesOut ==
    ASSUME NEW r \in Receivers, NEW s \in Seq(Entries), NEW i \in 1 .. Len(s),
           Cable!IsSysEx(Cable!Joined(SubSeq(s, i, Len(s)))),
           Cable!Joined(SubSeq(s, i, Len(s))) \notin Cable!Heard
    PROVE  LET got == Cable!FoldLeft(Cable!Take, r, s).complete
           IN  got # <<>> /\ Last(got) = Cable!Joined(SubSeq(s, i, Len(s)))
<1>1. PICK F \in [0 .. Len(s) -> Receivers] :
          /\ F[0] = r /\ F[Len(s)] = Cable!FoldLeft(Cable!Take, r, s)
          /\ \A k \in 1 .. Len(s) : F[k] = Cable!Take(F[k - 1], s[k])
  BY TakeRuns
<1> DEFINE t == SubSeq(s, i, Len(s))
           n == Len(s) - i + 1
<1>2. /\ t \in Seq(Entries) /\ Len(t) = n /\ n \in Nat /\ Len(s) \in Nat /\ i - 1 \in Nat
      /\ (i - 1) + n = Len(s) /\ \A k \in 1 .. n : t[k] = s[(i - 1) + k] /\ t[k] \in Entries
  <2>1. Len(s) \in Nat /\ n \in Nat /\ i - 1 \in Nat /\ (i - 1) + n = Len(s)  OBVIOUS
  <2>2. t \in Seq(Entries) /\ Len(t) = n  OBVIOUS
  <2>3. ASSUME NEW k \in 1 .. n PROVE t[k] = s[(i - 1) + k] /\ t[k] \in Entries
    <3>1. t[k] = s[(i - 1) + k] /\ (i - 1) + k \in 1 .. Len(s)  OBVIOUS
    <3> QED  BY <3>1
  <2> QED  BY <2>1, <2>2, <2>3
<1> HIDE DEF t, n
<1>3. PICK J \in [0 .. n -> Bytes] :
          /\ J[0] = <<>> /\ J[n] = Cable!Joined(t)
          /\ \A k \in 1 .. n : J[k] = Joins(J[k - 1], t[k])
  BY <1>2, JoinRuns
<1> DEFINE Good == {k \in Nat : k <= n => Kept(J[k], F[(i - 1) + k])}
<1>4. 0 \in Good
  <2>1. ~Cable!IsSysEx(<<>>)  BY DEF Cable!IsSysEx
  <2> QED  BY <1>3, <2>1 DEF Kept
<1>5. ASSUME NEW k \in Nat, k \in Good PROVE k + 1 \in Good
  <2> SUFFICES ASSUME k + 1 <= n PROVE Kept(J[k + 1], F[(i - 1) + (k + 1)])  OBVIOUS
  <2>1. /\ k \in 0 .. n /\ k <= n /\ k + 1 \in 1 .. n /\ (k + 1) - 1 = k
        /\ (i - 1) + k \in 0 .. Len(s)
        /\ (i - 1) + (k + 1) \in 1 .. Len(s) /\ ((i - 1) + (k + 1)) - 1 = (i - 1) + k
    BY <1>2, SMTT(30)
  <2>2. J[k + 1] = Joins(J[k], t[k + 1]) /\ J[k] \in Bytes /\ t[k + 1] \in Entries
    BY <1>2, <1>3, <2>1
  <2>3. F[(i - 1) + (k + 1)] = Cable!Take(F[(i - 1) + k], t[k + 1]) /\ F[(i - 1) + k] \in Receivers
    BY <1>1, <1>2, <2>1
  <2>4. Kept(J[k], F[(i - 1) + k])  BY <1>5, <2>1
  <2> QED  BY <2>2, <2>3, <2>4, TakeKeeps
<1>6. Nat \subseteq Good
  <2> HIDE DEF Good
  <2> QED  BY <1>4, <1>5, SetInduction
<1>7. n \in Good /\ n <= n  BY <1>2, <1>6
<1>8. Kept(J[n], F[(i - 1) + n])  BY <1>7
<1>9. F[(i - 1) + n] = Cable!FoldLeft(Cable!Take, r, s)  BY <1>1, <1>2
<1> QED  BY <1>3, <1>8, <1>9 DEF Kept, t

-----------------------------------------------------------------------------
(* What is on its way.                                                      *)

\* `s` is what is left of `t` after some are removed.
Within(s, t) ==
    \E f \in [DOMAIN s -> DOMAIN t] :
        \A i \in DOMAIN s : s[i] = t[f[i]] /\ \A j \in DOMAIN s : i < j => f[i] < f[j]

\* It still is when `t` grows, and when both grow by the same message.
LEMMA WithinMore ==
    ASSUME NEW s \in Seq(Bytes), NEW t \in Seq(Bytes), NEW x \in Bytes, Within(s, t)
    PROVE  Within(s, Append(t, x)) /\ Within(Append(s, x), Append(t, x))
<1>1. /\ DOMAIN s = 1 .. Len(s) /\ DOMAIN t = 1 .. Len(t) /\ Len(s) \in Nat /\ Len(t) \in Nat
      /\ DOMAIN Append(s, x) = 1 .. Len(s) + 1 /\ DOMAIN Append(t, x) = 1 .. Len(t) + 1
      /\ \A i \in 1 .. Len(s) : Append(s, x)[i] = s[i]
      /\ \A i \in 1 .. Len(t) : Append(t, x)[i] = t[i]
      /\ Append(s, x)[Len(s) + 1] = x /\ Append(t, x)[Len(t) + 1] = x
  OBVIOUS
<1>2. PICK f \in [1 .. Len(s) -> 1 .. Len(t)] :
          \A i \in 1 .. Len(s) : s[i] = t[f[i]] /\ \A j \in 1 .. Len(s) : i < j => f[i] < f[j]
  BY <1>1 DEF Within
<1>3. Within(s, Append(t, x))
  <2>1. f \in [DOMAIN s -> DOMAIN Append(t, x)]  BY <1>1, <1>2
  <2>2. \A i \in 1 .. Len(s) : s[i] = Append(t, x)[f[i]]  BY <1>1, <1>2
  <2> QED  BY <1>1, <1>2, <2>1, <2>2, ZenonT(60) DEF Within
<1>4. Within(Append(s, x), Append(t, x))
  <2> DEFINE g == [i \in 1 .. Len(s) + 1 |-> IF i = Len(s) + 1 THEN Len(t) + 1 ELSE f[i]]
  <2>1. \A i \in 1 .. Len(s) + 1 : i # Len(s) + 1 => i \in 1 .. Len(s)  BY <1>1
  <2>2. \A i \in 1 .. Len(s) : g[i] = f[i] /\ g[i] \in 1 .. Len(t)  BY <1>1, <1>2, SMTT(30)
  <2>3. g[Len(s) + 1] = Len(t) + 1  BY <1>1
  <2>4. g \in [1 .. Len(s) + 1 -> 1 .. Len(t) + 1]  BY <1>1, <1>2
  <2> HIDE DEF g
  <2>5. ASSUME NEW i \in 1 .. Len(s) + 1 PROVE Append(s, x)[i] = Append(t, x)[g[i]]
    <3>1. CASE i = Len(s) + 1  BY <1>1, <2>3, <3>1
    <3>2. CASE i # Len(s) + 1
      <4>1. i \in 1 .. Len(s)  BY <2>1, <3>2
      <4> QED  BY <1>1, <1>2, <2>2, <4>1
    <3> QED  BY <3>1, <3>2
  <2>6. ASSUME NEW i \in 1 .. Len(s) + 1, NEW j \in 1 .. Len(s) + 1, i < j PROVE g[i] < g[j]
    <3>1. i \in 1 .. Len(s)  BY <1>1, <2>6
    <3>2. CASE j = Len(s) + 1  BY <1>1, <2>2, <2>3, <3>1, <3>2
    <3>3. CASE j # Len(s) + 1
      <4>1. j \in 1 .. Len(s)  BY <2>1, <3>3
      <4> QED  BY <1>2, <2>2, <2>6, <3>1, <4>1
    <3> QED  BY <3>2, <3>3
  <2> QED  BY <1>1, <2>4, <2>5, <2>6, ZenonT(60) DEF Within
<1> QED  BY <1>3, <1>4

\* The receivers `R` as the entries of a pipe come out, each of which was given only messages
\* of `t`, in order, as SysEx messages and as regular entries.
InPlace(r, t) == Within(r.complete, t) /\ Within(r.regular, t)
Follows(R, pipe, r, t) ==
    /\ R \in [0 .. Len(pipe) -> Receivers] /\ R[0] = r
    /\ \A k \in 1 .. Len(pipe) : R[k] = Cable!Take(R[k - 1], pipe[k])
    /\ \A k \in 0 .. Len(pipe) : InPlace(R[k], t)

\* When all of the pipe has come out, a receiver `r` is the receiver `last`.
Becomes(r, pipe, last, t) == \E R : Follows(R, pipe, r, t) /\ R[Len(pipe)] = last

LEMMA BecomesType ==
    ASSUME NEW p \in Seq(Entries), NEW r, NEW t, NEW last, Becomes(r, p, last, t)
    PROVE  r \in Receivers /\ last \in Receivers /\ InPlace(r, t) /\ InPlace(last, t)
<1>1. 0 \in 0 .. Len(p) /\ Len(p) \in 0 .. Len(p)  OBVIOUS
<1> QED  BY <1>1 DEF Becomes, Follows

\* One more entry goes in, and perhaps one more message is among those.
LEMMA BecomesOneMore ==
    ASSUME NEW p \in Seq(Entries), NEW c \in Entries, NEW r, NEW last, NEW t \in Seq(Bytes), NEW u,
           Becomes(r, p, last, t), u = t \/ \E x \in Bytes : u = Append(t, x),
           InPlace(Cable!Take(last, c), u)
    PROVE  Becomes(r, Append(p, c), Cable!Take(last, c), u)
<1> DEFINE n == Len(p)
           o == Append(p, c)
           z == Cable!Take(last, c)
<1>1. PICK R : Follows(R, p, r, t) /\ R[n] = last  BY DEF Becomes
<1>2. /\ n \in Nat /\ Len(o) = n + 1 /\ o[n + 1] = c /\ \A k \in 1 .. n : o[k] = p[k]
  OBVIOUS
<1>3. z \in Receivers  BY BecomesType, EntryIsBytes, TakeType
<1>4. \A q \in Receivers : InPlace(q, t) => InPlace(q, u)
  <2>1. \A q \in Receivers : q.complete \in Seq(Bytes) /\ q.regular \in Seq(Bytes)
    BY DEF Receivers
  <2> QED  BY <2>1, WithinMore DEF InPlace
<1>5. InPlace(z, u)  OBVIOUS
<1> HIDE DEF n, o, z
<1> DEFINE Q == [k \in 0 .. n + 1 |-> IF k = n + 1 THEN z ELSE R[k]]
<1>6. R \in [0 .. n -> Receivers] /\ R[0] = r
      /\ (\A k \in 1 .. n : R[k] = Cable!Take(R[k - 1], p[k])) /\ \A k \in 0 .. n : InPlace(R[k], t)
  BY <1>1 DEF Follows, n
<1>7. \A k \in 0 .. n + 1 : k # n + 1 => k \in 0 .. n  BY <1>2
<1>8. (\A k \in 0 .. n : Q[k] = R[k]) /\ Q[n + 1] = z  BY <1>2
<1>9. Q \in [0 .. n + 1 -> Receivers]  BY <1>3, <1>6, <1>7
<1> HIDE DEF Q
<1>10. ASSUME NEW k \in 1 .. n + 1 PROVE Q[k] = Cable!Take(Q[k - 1], o[k])
  <2>1. k - 1 \in 0 .. n  BY <1>2
  <2>2. CASE k = n + 1
    <3>1. k - 1 = n  BY <1>2, <2>2
    <3> QED  BY <1>1, <1>2, <1>8, <2>1, <2>2, <3>1 DEF z
  <2>3. CASE k # n + 1
    <3>1. k \in 1 .. n /\ k \in 0 .. n  BY <1>2, <2>3
    <3> QED  BY <1>2, <1>6, <1>8, <2>1, <3>1
  <2> QED  BY <2>2, <2>3
<1>11. ASSUME NEW k \in 0 .. n + 1 PROVE InPlace(Q[k], u)
  <2>1. CASE k = n + 1  BY <1>5, <1>8, <2>1
  <2>2. CASE k # n + 1
    <3>1. k \in 0 .. n  BY <1>7, <2>2
    <3> QED  BY <1>4, <1>6, <1>8, <3>1
  <2> QED  BY <2>1, <2>2
<1>12. Q[0] = r
  <2>1. 0 \in 0 .. n  BY <1>2
  <2> QED  BY <1>6, <1>8, <2>1
<1>13. Follows(Q, o, r, u) /\ Q[Len(o)] = z  BY <1>2, <1>8, <1>9, <1>10, <1>11, <1>12 DEF Follows
<1> QED  BY <1>13 DEF Becomes, o, z

\* What the receiver is after some of the pipe has come out.
LEMMA RunIsFold ==
    ASSUME NEW r \in Receivers, NEW a \in Seq(Entries), NEW R, R[0] = r,
           \A k \in 1 .. Len(a) : R[k] = Cable!Take(R[k - 1], a[k])
    PROVE  R[Len(a)] = Cable!FoldLeft(Cable!Take, r, a)
<1>1. PICK F \in [0 .. Len(a) -> Receivers] :
          /\ F[0] = r /\ F[Len(a)] = Cable!FoldLeft(Cable!Take, r, a)
          /\ \A k \in 1 .. Len(a) : F[k] = Cable!Take(F[k - 1], a[k])
  BY TakeRuns
<1> DEFINE Good == {k \in Nat : k <= Len(a) => R[k] = F[k]}
<1>2. 0 \in Good  BY <1>1
<1>3. ASSUME NEW k \in Nat, k \in Good PROVE k + 1 \in Good
  <2> SUFFICES ASSUME k + 1 <= Len(a) PROVE R[k + 1] = F[k + 1]  OBVIOUS
  <2>1. k + 1 \in 1 .. Len(a) /\ (k + 1) - 1 = k /\ k <= Len(a)  OBVIOUS
  <2>2. R[k] = F[k]  BY <1>3, <2>1
  <2>3. F[k + 1] = Cable!Take(F[k], a[k + 1]) /\ R[k + 1] = Cable!Take(R[k], a[k + 1])
    BY <1>1, <2>1
  <2> QED  BY <2>2, <2>3
<1>4. Nat \subseteq Good
  <2> HIDE DEF Good
  <2> QED  BY <1>2, <1>3, SetInduction
<1>5. Len(a) \in Nat /\ Len(a) <= Len(a)  OBVIOUS
<1> QED  BY <1>1, <1>4, <1>5

\* An event of another client's gets in between, where it does not disturb.
LEMMA BecomesAnyhow ==
    ASSUME NEW a \in Seq(Entries), NEW b \in Seq(Entries), NEW c \in Entries,
           NEW r \in Receivers, NEW last, NEW t, Becomes(r, a \o b, last, t),
           NEW there, there = Cable!FoldLeft(Cable!Take, r, a), Cable!Take(there, c) = there
    PROVE  Becomes(r, Append(a, c) \o b, last, t)
<1> DEFINE l == Len(a)
           n == Len(a \o b)
           p == a \o b
           o == Append(a, c) \o b
<1>1. PICK R : Follows(R, p, r, t) /\ R[n] = last  BY DEF Becomes
<1>2. /\ l \in Nat /\ n \in Nat /\ l <= n /\ n = l + Len(b) /\ Len(b) \in Nat
      /\ \A k \in 1 .. l : p[k] = a[k]
      /\ \A k \in 1 .. Len(b) : p[l + k] = b[k]
      /\ Append(a, c) \in Seq(Entries) /\ Len(Append(a, c)) = l + 1
      /\ Append(a, c)[l + 1] = c /\ \A k \in 1 .. l : Append(a, c)[k] = a[k]
  OBVIOUS
<1>3. /\ Len(o) = n + 1
      /\ \A k \in 1 .. l + 1 : o[k] = Append(a, c)[k]
      /\ \A k \in 1 .. Len(b) : o[(l + 1) + k] = b[k]
  BY <1>2
<1> HIDE DEF l, n, p, o
<1>4. R \in [0 .. n -> Receivers] /\ R[0] = r
      /\ (\A k \in 1 .. n : R[k] = Cable!Take(R[k - 1], p[k])) /\ \A k \in 0 .. n : InPlace(R[k], t)
  BY <1>1 DEF Follows, n, p
<1>4a. R[l] = there
  <2>1. \A k \in 1 .. l : R[k] = Cable!Take(R[k - 1], a[k])
    <3>1. \A k \in 1 .. l : k \in 1 .. n  BY <1>2
    <3> QED  BY <1>2, <1>4, <3>1
  <2> QED  BY <1>4, <2>1, RunIsFold DEF l
<1> DEFINE Q == [k \in 0 .. n + 1 |-> IF k <= l THEN R[k] ELSE R[k - 1]]
<1>5. \A k \in 0 .. n + 1 : (k <= l => k \in 0 .. n) /\ (~(k <= l) => k - 1 \in 0 .. n)  BY <1>2
<1>6. /\ \A k \in 0 .. n + 1 : k <= l => Q[k] = R[k]
      /\ \A k \in 0 .. n + 1 : ~(k <= l) => Q[k] = R[k - 1]
  OBVIOUS
<1>7. Q \in [0 .. n + 1 -> Receivers]  BY <1>4, <1>5
<1> HIDE DEF Q
<1>8. ASSUME NEW k \in 1 .. n + 1 PROVE Q[k] = Cable!Take(Q[k - 1], o[k])
  <2>1. k \in 0 .. n + 1 /\ k - 1 \in 0 .. n + 1  BY <1>2
  <2>2. CASE k <= l
    <3>1. k - 1 <= l /\ k \in 1 .. l /\ k \in 1 .. n /\ k \in 1 .. l + 1  BY <1>2, <2>2
    <3> QED  BY <1>2, <1>3, <1>4, <1>6, <2>1, <2>2, <3>1
  <2>3. CASE k = l + 1
    <3>1. ~(k <= l) /\ k - 1 <= l /\ k - 1 \in 0 .. n /\ k \in 1 .. l + 1  BY <1>2, <2>3
    <3>2. Q[k] = R[k - 1] /\ Q[k - 1] = R[k - 1] /\ o[k] = c /\ k - 1 = l
      BY <1>2, <1>3, <1>4, <1>6, <2>1, <2>3, <3>1
    <3> QED  BY <1>4a, <3>2
  <2>4. CASE k > l + 1
    <3>1. ~(k <= l) /\ ~(k - 1 <= l) /\ k - 1 \in 1 .. n  BY <1>2, <2>4
    <3>2. o[k] = p[k - 1]
      <4>1. PICK i \in 1 .. Len(b) : k = (l + 1) + i
        <5>1. k - (l + 1) \in 1 .. Len(b)  BY <1>2, <2>4
        <5> QED  BY <1>2, <5>1
      <4>2. k - 1 = l + i  BY <1>2, <4>1
      <4> QED  BY <1>2, <1>3, <4>1, <4>2
    <3> QED  BY <1>4, <1>6, <2>1, <3>1, <3>2
  <2> QED  BY <1>2, <2>2, <2>3, <2>4
<1>9. \A k \in 0 .. n + 1 : InPlace(Q[k], t)  BY <1>4, <1>5, <1>6
<1>10. Q[0] = r /\ Q[n + 1] = last
  <2>1. 0 \in 0 .. n + 1 /\ 0 <= l /\ n + 1 \in 0 .. n + 1 /\ ~(n + 1 <= l) /\ (n + 1) - 1 = n
    BY <1>2
  <2> QED  BY <1>1, <1>4, <1>6, <2>1
<1>11. Follows(Q, o, r, t) /\ Q[Len(o)] = last  BY <1>3, <1>7, <1>8, <1>9, <1>10 DEF Follows
<1> QED  BY <1>11 DEF Becomes, o

\* The first entry has come out.
LEMMA BecomesOnwards ==
    ASSUME NEW p \in Seq(Entries), p # <<>>, NEW r, NEW last, NEW t, Becomes(r, p, last, t)
    PROVE  Becomes(Cable!Take(r, Head(p)), Tail(p), last, t)
<1> DEFINE n == Len(p)
           o == Tail(p)
           h == Head(p)
<1>1. PICK R : Follows(R, p, r, t) /\ R[n] = last  BY DEF Becomes
<1>2. /\ n \in Nat /\ n > 0 /\ Len(o) = n - 1 /\ h = p[1]
      /\ \A k \in 1 .. n - 1 : o[k] = p[k + 1]
  OBVIOUS
<1> HIDE DEF n, o, h
<1>3. R \in [0 .. n -> Receivers] /\ R[0] = r
      /\ (\A k \in 1 .. n : R[k] = Cable!Take(R[k - 1], p[k])) /\ \A k \in 0 .. n : InPlace(R[k], t)
  BY <1>1 DEF Follows, n
<1> DEFINE Q == [k \in 0 .. n - 1 |-> R[k + 1]]
<1>4. \A k \in 0 .. n - 1 : k + 1 \in 0 .. n  BY <1>2
<1>5. Q \in [0 .. n - 1 -> Receivers] /\ \A k \in 0 .. n - 1 : Q[k] = R[k + 1]  BY <1>3, <1>4
<1> HIDE DEF Q
<1>6. ASSUME NEW k \in 1 .. n - 1 PROVE Q[k] = Cable!Take(Q[k - 1], o[k])
  <2>1. /\ k \in 0 .. n - 1 /\ k - 1 \in 0 .. n - 1 /\ k + 1 \in 1 .. n
        /\ (k - 1) + 1 = k /\ (k + 1) - 1 = k
    BY <1>2
  <2> QED  BY <1>2, <1>3, <1>5, <2>1
<1>7. \A k \in 0 .. n - 1 : InPlace(Q[k], t)  BY <1>3, <1>4, <1>5
<1>8. Q[0] = Cable!Take(r, h) /\ Q[n - 1] = last
  <2>1. 0 \in 0 .. n - 1 /\ n - 1 \in 0 .. n - 1 /\ 0 + 1 = 1 /\ (n - 1) + 1 = n /\ 1 \in 1 .. n /\ 1 - 1 = 0
    BY <1>2
  <2>2. R[1] = Cable!Take(R[1 - 1], p[1])  BY <1>3, <2>1
  <2> QED  BY <1>1, <1>2, <1>3, <1>5, <2>1, <2>2
<1>9. Follows(Q, o, Cable!Take(r, h), t) /\ Q[Len(o)] = last  BY <1>2, <1>5, <1>6, <1>7, <1>8 DEF Follows
<1> QED  BY <1>9 DEF Becomes, o, h

-----------------------------------------------------------------------------
(* JackMidi: nothing is invented.                                           *)

\* All that is on its way, the first to arrive first.
Pipe == receiveRing \o (wire \o sendRing)

\* A message that waits to be sent, whole.
WholeMessage(m) == Cable!IsSysEx(m) \/ Cable!IsNote(m)

\* What is still to send of a message: all of it, or what follows the bytes the receiver will
\* hold when all that is on its way has come out.
Continues(last) ==
    \/ unsent = <<>>
    \/ WholeMessage(sending) /\ sending = unsent
    \/ \E q \in Bytes : q # <<>> /\ sending = q \o unsent /\ Cable!IsSysEx(sending) /\ last.buffer = q

\* Only a realtime message of another client's holds a realtime byte.
CableTypes ==
    /\ receiveRing \in Seq(Entries) /\ wire \in Seq(Entries) /\ sendRing \in Seq(Entries)
    /\ Cable!Receiver \in Receivers
    /\ accepted \in Seq(Bytes) /\ sending \in Bytes
    /\ unsent \in Bytes /\ \A i \in 1 .. Len(unsent) : ~Cable!IsRealtime(unsent[i])

\* As long as nothing is lost or mixed, all that is on its way makes the receiver one that was given
\* nothing but accepted messages, in order.
PipeInv ==
    ~lost /\ ~mixed => \E last : Becomes(Cable!Receiver, Pipe, last, accepted) /\ Continues(last)

\* All of it.
CableInv == CableTypes /\ PipeInv

LEMMA CableInitHolds == Cable!Init => CableInv
<1> SUFFICES ASSUME Cable!Init PROVE CableInv  OBVIOUS
<1>1. /\ unsent = <<>> /\ sendRing = <<>> /\ wire = <<>> /\ receiveRing = <<>>
      /\ buffer = <<>> /\ regular = <<>> /\ complete = <<>> /\ sending = <<>> /\ accepted = <<>>
  BY DEF Cable!Init
<1> DEFINE r == Cable!Receiver
<1>2. r = [buffer |-> <<>>, regular |-> <<>>, complete |-> <<>>]  BY <1>1 DEF Cable!Receiver
<1>3. <<>> \in Bytes /\ <<>> \in Seq(Bytes) /\ <<>> \in Seq(Entries)  BY DEF Bytes
<1>4. r \in Receivers /\ r.complete = <<>> /\ r.regular = <<>>  BY <1>2, <1>3 DEF Receivers
<1>5. CableTypes
  <2>1. Len(<<>>) = 0 /\ \A i \in 1 .. 0 : FALSE  OBVIOUS
  <2> QED  BY <1>1, <1>3, <1>4, <2>1 DEF CableTypes
<1>6. Pipe = <<>>  BY <1>1 DEF Pipe
<1>7. Within(<<>>, <<>>)
  <2>1. DOMAIN <<>> = {}  OBVIOUS
  <2>2. \E f : f \in [{} -> {}]
    <3>1. [x \in {} |-> 0] \in [{} -> {}]  OBVIOUS
    <3> QED  BY <3>1
  <2> QED  BY <2>1, <2>2 DEF Within
<1> HIDE DEF r
<1>8. Becomes(r, Pipe, r, accepted)
  <2> DEFINE R == [k \in 0 .. 0 |-> r]
  <2>1. Len(<<>>) = 0 /\ R \in [0 .. 0 -> Receivers] /\ R[0] = r  BY <1>4
  <2>2. InPlace(r, <<>>)  BY <1>4, <1>7 DEF InPlace
  <2>3. \A k \in 0 .. 0 : InPlace(R[k], <<>>)  BY <2>2
  <2>4. \A k \in 1 .. 0 : FALSE  OBVIOUS
  <2> HIDE DEF R
  <2>5. Follows(R, <<>>, r, <<>>)  BY <2>1, <2>3, <2>4 DEF Follows
  <2> QED  BY <1>1, <1>6, <2>1, <2>5 DEF Becomes
<1> QED  BY <1>1, <1>5, <1>8 DEF CableInv, PipeInv, Continues, r

\* A chunk is the first bytes of what is unsent, and not more than an entry holds.
LEMMA ChunkAndRest ==
    ASSUME NEW u \in Bytes, u # <<>>
    PROVE  LET c == Cable!Chunk(u)
               v == Cable!Rest(u)
           IN  /\ c \in Bytes /\ v \in Bytes /\ c # <<>> /\ Len(c) \in 1 .. EntryMax /\ c \o v = u
               /\ Len(u) <= EntryMax => c = u /\ v = <<>>
               /\ \A i \in 1 .. Len(c) : i \in 1 .. Len(u) /\ c[i] = u[i]
               /\ \A i \in 1 .. Len(v) : \E j \in 1 .. Len(u) : v[i] = u[j]
<1>1. EntryMax \in Nat \ {0}  BY CablesAssumption DEF Cable!CableAssumption
<1>2. Len(u) \in Nat \ {0} /\ u \in Seq(STRING)  BY DEF Bytes
<1> DEFINE c == Cable!Chunk(u)
           v == Cable!Rest(u)
<1>3. PICK n \in 1 .. EntryMax : n <= Len(u) /\ c = SubSeq(u, 1, n) /\ (Len(u) <= EntryMax => n = Len(u))
  <2>1. CASE Len(u) < EntryMax  BY <1>1, <1>2, <2>1 DEF Cable!Chunk
  <2>2. CASE ~(Len(u) < EntryMax)  BY <1>1, <1>2, <2>2 DEF Cable!Chunk
  <2> QED  BY <2>1, <2>2
<1>4. /\ c \in Seq(STRING) /\ Len(c) = n /\ \A i \in 1 .. n : c[i] = u[i]
  BY <1>2, <1>3
<1>5. v = SubSeq(u, n + 1, Len(u))  BY <1>4 DEF Cable!Rest
<1> HIDE DEF c, v
<1>6. v \in Seq(STRING) /\ Len(v) = Len(u) - n /\ \A i \in 1 .. Len(u) - n : v[i] = u[n + i]
  BY <1>2, <1>3, <1>5
<1>7. c \o v = u
  <2>1. c \o v \in Seq(STRING) /\ Len(c \o v) = Len(u)  BY <1>2, <1>3, <1>4, <1>6
  <2>2. ASSUME NEW i \in 1 .. Len(u) PROVE (c \o v)[i] = u[i]
    <3>1. CASE i <= n  BY <1>2, <1>3, <1>4, <1>6, <3>1
    <3>2. CASE ~(i <= n)
      <4>1. i - n \in 1 .. Len(v) /\ n + (i - n) = i  BY <1>2, <1>3, <1>6, <3>2
      <4>2. (c \o v)[i] = v[i - n]  BY <1>2, <1>3, <1>4, <1>6, <3>2
      <4> QED  BY <1>6, <4>1, <4>2
    <3> QED  BY <3>1, <3>2
  <2> QED  BY <1>2, <2>1, <2>2, SeqEqual
<1>8. c # <<>>
  <2>1. c = <<>> => Len(c) = 0  OBVIOUS
  <2> QED  BY <1>3, <1>4, <2>1
<1>9. Len(u) <= EntryMax => c = u /\ v = <<>>
  <2>1. n = Len(u) => SubSeq(u, 1, n) = u  BY WholePrefix
  <2>2. n = Len(u) => Len(v) = 0  BY <1>2, <1>6
  <2>3. Len(v) = 0 => v = <<>>  BY <1>6
  <2> QED  BY <1>3, <2>1, <2>2, <2>3
<1>10. ASSUME NEW i \in 1 .. Len(v) PROVE \E j \in 1 .. Len(u) : v[i] = u[j]
  <2>1. n + i \in 1 .. Len(u)  BY <1>2, <1>3, <1>6
  <2> QED  BY <1>6, <2>1
<1>11. \A i \in 1 .. Len(c) : i \in 1 .. Len(u) /\ c[i] = u[i]  BY <1>2, <1>3, <1>4
<1> QED  BY <1>3, <1>4, <1>6, <1>7, <1>8, <1>9, <1>10, <1>11 DEF c, v, Bytes

\* No whole message of the application's holds a realtime byte.
LEMMA WholeHasNoClock ==
    ASSUME NEW m, WholeMessage(m)
    PROVE  m \in Bytes /\ m # <<>> /\ \A i \in 1 .. Len(m) : ~Cable!IsRealtime(m[i])
<1>1. m \in Bytes /\ Len(m) \in Nat \ {0} /\ m # <<>>
  BY DEF WholeMessage, Cable!IsSysEx, Cable!IsNote, Bytes
<1>2. ASSUME NEW i \in 1 .. Len(m) PROVE ~Cable!IsRealtime(m[i])
  <2>1. m[i] \in {"F0", "F7", "note"} \/ ~Cable!IsStatus(m[i])
    <3>1. i = 1 \/ i = Len(m) \/ (i \in 2 .. Len(m) - 1 /\ i \in 2 .. Len(m)) \/ i \in 2 .. Len(m)
      BY <1>1
    <3> QED  BY <1>1, <3>1 DEF WholeMessage, Cable!IsSysEx, Cable!IsNote
  <2> QED  BY <2>1 DEF Cable!IsRealtime, Cable!IsStatus
<1> QED  BY <1>1, <1>2

LEMMA ChunkIsEntry ==
    ASSUME NEW u \in Bytes, u # <<>>, \A i \in 1 .. Len(u) : ~Cable!IsRealtime(u[i])
    PROVE  /\ Cable!Chunk(u) \in Entries
           /\ Cable!Rest(u) \in Bytes
           /\ \A i \in 1 .. Len(Cable!Rest(u)) : ~Cable!IsRealtime(Cable!Rest(u)[i])
  BY ChunkAndRest DEF Entries

\* Entries are not cut any more.
LEMMA EntryIsChunk == ASSUME NEW e \in Entries PROVE Cable!Chunk(e) = e
<1>1. e \in Bytes /\ e # <<>> /\ Len(e) <= EntryMax  BY EntryIsBytes DEF Entries
<1> QED  BY <1>1, ChunkAndRest

receiverVars == <<buffer, regular, complete>>

LEMMA ReceiverStays == UNCHANGED receiverVars => Cable!Receiver' = Cable!Receiver
  BY DEF receiverVars, Cable!Receiver

\* The steps, one by one.
LEMMA SendRawKeeps == ASSUME CableInv, Cable!SendRaw PROVE CableInv'
<1>1. PICK m \in CableMessages : unsent' = m /\ sending' = m  BY DEF Cable!SendRaw
<1>2. WholeMessage(m)  BY CablesAssumption DEF Cable!CableAssumption, WholeMessage
<1>3. /\ UNCHANGED <<accepted, sendRing, wire, receiveRing, lost, mixed>> /\ UNCHANGED receiverVars
  BY DEF Cable!SendRaw, Cable!othersVars, Cable!receiverVars, receiverVars
<1>4. CableTypes'
  <2>1. m \in Bytes /\ \A i \in 1 .. Len(m) : ~Cable!IsRealtime(m[i])
    BY <1>2, WholeHasNoClock
  <2>2. Cable!Receiver' \in Receivers  BY <1>3, ReceiverStays DEF CableInv, CableTypes
  <2> QED  BY <1>1, <1>3, <2>1, <2>2 DEF CableInv, CableTypes
<1>5. PipeInv'
  <2> SUFFICES ASSUME ~lost, ~mixed
               PROVE  \E last : Becomes(Cable!Receiver', Pipe', last, accepted') /\ Continues(last)'
    BY <1>3 DEF PipeInv
  <2>1. PICK last : Becomes(Cable!Receiver, Pipe, last, accepted)  BY DEF CableInv, PipeInv
  <2>2. Pipe' = Pipe /\ Cable!Receiver' = Cable!Receiver  BY <1>3, ReceiverStays DEF Pipe
  <2>3. Continues(last)'  BY <1>1, <1>2 DEF Continues, WholeMessage
  <2> QED  BY <1>3, <2>1, <2>2, <2>3
<1> QED  BY <1>4, <1>5 DEF CableInv

LEMMA PipeIs == ASSUME CableTypes PROVE Pipe \in Seq(Entries)
<1>1. receiveRing \in Seq(Entries) /\ wire \in Seq(Entries) /\ sendRing \in Seq(Entries)
  BY DEF CableTypes
<1>2. wire \o sendRing \in Seq(Entries)  BY <1>1
<1> QED  BY <1>1, <1>2 DEF Pipe

\* An entry is put at the end of all that is on its way.
AddedLast(a, b, c, x) == a \o (b \o Append(c, x)) = Append(a \o (b \o c), x)

LEMMA AppendedLast ==
    ASSUME NEW S, NEW a \in Seq(S), NEW b \in Seq(S), NEW c \in Seq(S), NEW x \in S
    PROVE  AddedLast(a, b, c, x)
<1>1. \A s \in Seq(S) : Append(s, x) = s \o <<x>>  BY AppendIsConcat
<1>2. PICK z \in Seq(S) : z = <<x>>
  <2>1. <<x>> \in Seq(S)  OBVIOUS
  <2> QED  BY <2>1
<1>3. b \o c \in Seq(S) /\ a \o (b \o c) \in Seq(S)
  <2>1. b \o c \in Seq(S)  BY ConcatProperties
  <2> QED  BY <2>1, ConcatProperties
<1>4. (b \o c) \o z = b \o (c \o z)  BY ConcatAssociative
<1>5. (a \o (b \o c)) \o z = a \o ((b \o c) \o z)  BY <1>3, ConcatAssociative, SMTT(30)
<1> QED  BY <1>1, <1>2, <1>3, <1>4, <1>5, Zenon DEF AddedLast

\* The next chunk of a message makes the receiver hold more of it, or gives it the message, which
\* is accepted then.
LEMMA ChunkIsTaken ==
    ASSUME NEW last \in Receivers, InPlace(last, accepted), CableTypes, Continues(last), unsent # <<>>,
           NEW t, t = IF Cable!Rest(unsent) = <<>> THEN Append(accepted, sending) ELSE accepted
    PROVE  LET z == Cable!Take(last, Cable!Chunk(unsent))
           IN  /\ InPlace(z, t)
               /\ Cable!Rest(unsent) # <<>> =>
                    \E q \in Bytes : /\ q # <<>> /\ sending = q \o Cable!Rest(unsent)
                                     /\ Cable!IsSysEx(sending) /\ z.buffer = q
<1> DEFINE c == Cable!Chunk(unsent)
           v == Cable!Rest(unsent)
           z == Cable!Take(last, c)
<1>1. /\ c \in Bytes /\ v \in Bytes /\ c # <<>> /\ c \o v = unsent
      /\ Len(unsent) <= EntryMax => c = unsent /\ v = <<>>
  BY ChunkAndRest DEF CableTypes
<1>2. /\ last.complete \in Seq(Bytes) /\ last.regular \in Seq(Bytes) /\ accepted \in Seq(Bytes)
      /\ Within(last.complete, accepted) /\ Within(last.regular, accepted)
  BY DEF Receivers, CableTypes, InPlace
<1> HIDE DEF c, v, z
<1>3. CASE Cable!IsNote(sending) /\ sending = unsent
  <2>1. sending \in Bytes /\ Len(unsent) <= EntryMax
    BY <1>3 DEF Cable!IsNote, Bytes
  <2>2. c = sending /\ v = <<>>  BY <1>1, <1>3, <2>1
  <2>3. t = Append(accepted, sending)  BY <2>2 DEF v
  <2>4. z = last \/ z = Regular(last, sending) \/ z = Holds(last, <<>>)
    BY <1>3, <2>2, TakeNote DEF z
  <2>5. /\ Within(last.complete, t) /\ Within(last.regular, t)
        /\ Within(Append(last.regular, sending), t)
    BY <1>2, <2>1, <2>3, WithinMore
  <2>6. /\ Regular(last, sending).complete = last.complete
        /\ Regular(last, sending).regular = Append(last.regular, sending)
        /\ Holds(last, <<>>).complete = last.complete
        /\ Holds(last, <<>>).regular = last.regular
    BY DEF Regular, Holds, Receivers
  <2>7. InPlace(z, t)  BY <2>4, <2>5, <2>6 DEF InPlace
  <2> QED  BY <2>2, <2>7 DEF c, v, z
<1>4. ASSUME NEW q \in Bytes, q = <<>> \/ last.buffer = q, sending = q \o unsent, Cable!IsSysEx(sending)
      PROVE  InPlace(z, t) /\ (v # <<>> => \E p \in Bytes : /\ p # <<>> /\ sending = p \o v
                                                            /\ Cable!IsSysEx(sending) /\ z.buffer = p)
  <2> DEFINE p == q \o c
  <2>1. p \in Bytes /\ p # <<>> /\ sending = p \o v /\ sending \in Bytes
    <3>1. q \o (c \o v) = (q \o c) \o v
      <4>1. q \in Seq(STRING) /\ c \in Seq(STRING) /\ v \in Seq(STRING)  BY <1>1 DEF Bytes
      <4> QED  BY <4>1, ConcatAssociative, SMTT(30)
    <3>2. q \o c \in Bytes /\ q \o c # <<>>
      <4>1. q \o c \in Seq(STRING) /\ Len(q \o c) = Len(q) + Len(c) /\ Len(q) \in Nat /\ Len(c) \in Nat \ {0}
        BY <1>1 DEF Bytes
      <4>2. q \o c = <<>> => Len(q \o c) = 0  OBVIOUS
      <4> QED  BY <4>1, <4>2 DEF Bytes
    <3> QED  BY <1>1, <1>4, <3>1, <3>2 DEF Cable!IsSysEx, Bytes
  <2> HIDE DEF p
  <2>2. CASE v = <<>>
    <3>1. p = sending
      <4>1. p \o <<>> = p  BY <2>1, ConcatEmptySeq DEF Bytes
      <4> QED  BY <2>1, <2>2, <4>1
    <3>2. t = Append(accepted, sending)  BY <2>2 DEF v
    <3>3. z = Given(last, sending)
      <4>1. Cable!IsSysEx(q \o c)  BY <1>4, <3>1 DEF p
      <4>2. z = Given(last, q \o c)  BY <1>1, <1>4, <4>1, TakePiece DEF z
      <4> QED  BY <3>1, <4>2 DEF p
    <3>4. /\ \/ Given(last, sending).complete = Append(last.complete, sending)
             \/ Given(last, sending).complete = last.complete
          /\ Given(last, sending).regular = last.regular
      BY DEF Given, Receivers
    <3>5. /\ Within(Append(last.complete, sending), t) /\ Within(last.complete, t)
          /\ Within(last.regular, t)
      BY <1>2, <2>1, <3>2, WithinMore
    <3>6. InPlace(z, t)  BY <3>3, <3>4, <3>5 DEF InPlace
    <3> QED  BY <2>2, <3>6
  <2>3. CASE v # <<>>
    <3>1. Unended(p)  BY <1>1, <1>4, <2>1, <2>3, OpenPrefix
    <3>2. z = Holds(last, p)  BY <1>1, <1>4, <3>1, TakePiece DEF z, p
    <3>3. z.buffer = p /\ z.complete = last.complete /\ z.regular = last.regular
      BY <3>2 DEF Holds, Receivers
    <3>4. t = accepted  BY <2>3 DEF v
    <3>5. InPlace(z, t)  BY <1>2, <3>3, <3>4 DEF InPlace
    <3> QED  BY <1>4, <2>1, <3>3, <3>5
  <2> QED  BY <2>2, <2>3
<1>5. CASE Cable!IsSysEx(sending) /\ sending = unsent
  <2>1. <<>> \in Bytes /\ sending = <<>> \o unsent
    <3>1. <<>> \o unsent = unsent  BY ConcatEmptySeq DEF CableTypes, Bytes
    <3> QED  BY <1>5, <3>1 DEF Bytes
  <2> QED  BY <1>4, <1>5, <2>1 DEF c, v, z
<1>6. CASE \E q \in Bytes : q # <<>> /\ sending = q \o unsent /\ Cable!IsSysEx(sending) /\ last.buffer = q
  <2>1. PICK q \in Bytes : q # <<>> /\ sending = q \o unsent /\ Cable!IsSysEx(sending) /\ last.buffer = q
    BY <1>6
  <2> QED  BY <1>4, <2>1 DEF c, v, z
<1> QED  BY <1>3, <1>5, <1>6 DEF Continues, WholeMessage

LEMMA PushKeeps == ASSUME CableInv, Cable!Push PROVE CableInv'
<1> DEFINE c == Cable!Chunk(unsent)
           v == Cable!Rest(unsent)
<1>1. /\ unsent # <<>> /\ sendRing' = Append(sendRing, c) /\ unsent' = v
      /\ UNCHANGED <<wire, receiveRing, lost, mixed>> /\ UNCHANGED receiverVars
      /\ accepted' = IF v = <<>> THEN Append(accepted, sending) ELSE accepted
      /\ sending' = IF v = <<>> THEN <<>> ELSE sending
  BY DEF Cable!Push, Cable!othersVars, Cable!receiverVars, receiverVars
<1>2. CableTypes  BY DEF CableInv
<1>3. c \in Entries /\ v \in Bytes /\ \A i \in 1 .. Len(v) : ~Cable!IsRealtime(v[i])
  BY <1>1, <1>2, ChunkIsEntry DEF CableTypes
<1>4. Cable!Receiver' = Cable!Receiver  BY <1>1, ReceiverStays
<1>5. CableTypes'
  <2> HIDE DEF c, v
  <2>1. sendRing' \in Seq(Entries)  BY <1>1, <1>2, <1>3 DEF CableTypes
  <2>2. accepted' \in Seq(Bytes) /\ sending' \in Bytes
    <3>1. CASE v = <<>>
      <4>1. <<>> \in Bytes  BY DEF Bytes
      <4> QED  BY <1>1, <1>2, <3>1, <4>1 DEF CableTypes
    <3>2. CASE v # <<>>  BY <1>1, <1>2, <3>2 DEF CableTypes
    <3> QED  BY <3>1, <3>2
  <2> QED  BY <1>1, <1>2, <1>3, <1>4, <2>1, <2>2 DEF CableTypes
<1>6. PipeInv'
  <2> SUFFICES ASSUME ~lost, ~mixed
               PROVE  \E last : Becomes(Cable!Receiver', Pipe', last, accepted') /\ Continues(last)'
    BY <1>1 DEF PipeInv
  <2>1. PICK last : Becomes(Cable!Receiver, Pipe, last, accepted) /\ Continues(last)
    BY DEF CableInv, PipeInv
  <2>2. Pipe \in Seq(Entries) /\ accepted \in Seq(Bytes) /\ sending \in Bytes
    BY <1>2, PipeIs DEF CableTypes
  <2>3. last \in Receivers /\ InPlace(last, accepted)  BY <2>1, <2>2, BecomesType
  <2>4. accepted' = IF v = <<>> THEN Append(accepted, sending) ELSE accepted  BY <1>1
  <2>4a. PICK z : z = Cable!Take(last, c)  OBVIOUS
  <2>5. /\ InPlace(z, accepted')
        /\ v # <<>> => \E q \in Bytes : /\ q # <<>> /\ sending = q \o v
                                        /\ Cable!IsSysEx(sending) /\ z.buffer = q
    BY <1>1, <1>2, <2>1, <2>3, <2>4, <2>4a, ChunkIsTaken
  <2> HIDE DEF c, v
  <2>6. Becomes(Cable!Receiver, Append(Pipe, c), z, accepted')
    <3>1. accepted' = accepted \/ \E x \in Bytes : accepted' = Append(accepted, x)
      BY <2>2, <2>4
    <3> QED  BY <1>3, <2>1, <2>2, <2>5, <2>4a, <3>1, BecomesOneMore
  <2>7. Pipe' = Append(Pipe, c)
    <3>1. receiveRing \in Seq(Entries) /\ wire \in Seq(Entries) /\ sendRing \in Seq(Entries)
      BY <1>2 DEF CableTypes
    <3>2. c \in Entries  BY <1>3, Zenon
    <3>3. AddedLast(receiveRing, wire, sendRing, c)  BY <3>1, <3>2, AppendedLast, Zenon
    <3>4. receiveRing \o (wire \o Append(sendRing, c)) = Append(receiveRing \o (wire \o sendRing), c)
      BY <3>3, Zenon DEF AddedLast
    <3> QED  BY <1>1, <3>4 DEF Pipe
  <2>8. Continues(z)'
    <3>1. CASE v = <<>>  BY <1>1, <3>1 DEF Continues
    <3>2. CASE v # <<>>
      <4>1. unsent' = v /\ sending' = sending  BY <1>1, <3>2
      <4>2. PICK q \in Bytes : q # <<>> /\ sending = q \o v /\ Cable!IsSysEx(sending) /\ z.buffer = q
        BY <2>5, <3>2
      <4> QED  BY <4>1, <4>2 DEF Continues
    <3> QED  BY <3>1, <3>2
  <2>9. Becomes(Cable!Receiver', Pipe', z, accepted')  BY <1>4, <2>6, <2>7, Zenon
  <2> QED  BY <2>8, <2>9, Zenon
<1> QED  BY <1>5, <1>6 DEF CableInv

\* Nothing on the way changes; or something is lost of it.
LEMMA SameOnTheWay ==
    ASSUME CableInv, UNCHANGED <<unsent, sending, accepted>>, UNCHANGED receiverVars,
           Pipe' = Pipe \/ lost' \/ mixed', lost => lost', mixed => mixed',
           receiveRing' \in Seq(Entries), wire' \in Seq(Entries), sendRing' \in Seq(Entries)
    PROVE  CableInv'
<1>1. Cable!Receiver' = Cable!Receiver  BY ReceiverStays
<1>2. CableTypes'  BY <1>1 DEF CableInv, CableTypes
<1>3. PipeInv'
  <2> SUFFICES ASSUME ~lost', ~mixed'
               PROVE  \E last : Becomes(Cable!Receiver', Pipe', last, accepted') /\ Continues(last)'
    BY DEF PipeInv
  <2>1. PICK last : Becomes(Cable!Receiver, Pipe, last, accepted) /\ Continues(last)
    BY DEF CableInv, PipeInv
  <2>2. Continues(last)'  BY <2>1 DEF Continues
  <2> QED  BY <1>1, <2>1, <2>2
<1> QED  BY <1>2, <1>3 DEF CableInv

LEMMA RingTypes ==
    CableInv => receiveRing \in Seq(Entries) /\ wire \in Seq(Entries) /\ sendRing \in Seq(Entries)
  BY DEF CableInv, CableTypes

LEMMA HeadTailTypes ==
    ASSUME NEW a \in Seq(Entries), NEW b \in Seq(Entries), b # <<>>
    PROVE  Head(b) \in Entries /\ Tail(b) \in Seq(Entries) /\ Append(a, Head(b)) \in Seq(Entries)
  OBVIOUS

LEMMA PushFullKeeps == ASSUME CableInv, Cable!PushFull PROVE CableInv'
<1>1. /\ unsent' = <<>> /\ sending' = <<>>
      /\ UNCHANGED <<accepted, sendRing, wire, receiveRing, lost, mixed>> /\ UNCHANGED receiverVars
  BY DEF Cable!PushFull, Cable!othersVars, Cable!receiverVars, receiverVars
<1>2. Cable!Receiver' = Cable!Receiver /\ Pipe' = Pipe  BY <1>1, ReceiverStays DEF Pipe
<1>3. CableTypes'
  <2>1. <<>> \in Bytes /\ Len(<<>>) = 0 /\ \A i \in 1 .. 0 : FALSE  BY DEF Bytes
  <2> QED  BY <1>1, <1>2, <2>1 DEF CableInv, CableTypes
<1>4. PipeInv'
  <2>1. \A last : Continues(last)'  BY <1>1 DEF Continues
  <2> QED  BY <1>1, <1>2, <2>1 DEF CableInv, PipeInv
<1> QED  BY <1>3, <1>4 DEF CableInv

LEMMA WriteKeepsPipe == ASSUME CableInv, Cable!WriteEvent \/ Cable!WriteDropped PROVE CableInv'
<1>1. /\ sendRing # <<>> /\ sendRing' = Tail(sendRing) /\ UNCHANGED receiveRing
      /\ UNCHANGED <<unsent, sending, accepted, mixed>> /\ UNCHANGED receiverVars
      /\ \/ wire' = Append(wire, Head(sendRing)) /\ UNCHANGED lost
         \/ UNCHANGED wire /\ lost' = TRUE
  BY DEF Cable!WriteEvent, Cable!WriteDropped, Cable!senderVars, Cable!othersVars, Cable!receiverVars,
         receiverVars
<1>2. receiveRing' \in Seq(Entries) /\ wire' \in Seq(Entries) /\ sendRing' \in Seq(Entries)
  BY <1>1, RingTypes, HeadTailTypes
<1>3. Pipe' = Pipe \/ lost'
  <2>1. Append(wire, Head(sendRing)) \o Tail(sendRing) = wire \o sendRing
    BY <1>1, RingTypes, EntriesMove
  <2> QED  BY <1>1, <2>1, Zenon DEF Pipe
<1>4. lost => lost'  BY <1>1
<1> QED  BY <1>1, <1>2, <1>3, <1>4, SameOnTheWay

LEMMA ReadEventKeeps == ASSUME CableInv, Cable!ReadEvent PROVE CableInv'
<1> DEFINE e == Head(wire)
<1>1. /\ wire # <<>> /\ wire' = Tail(wire) /\ UNCHANGED sendRing
      /\ UNCHANGED <<unsent, sending, accepted, mixed>> /\ UNCHANGED receiverVars
      /\ \/ receiveRing' = Append(receiveRing, Cable!Chunk(e)) /\ UNCHANGED lost
         \/ UNCHANGED receiveRing /\ lost' = TRUE
  BY DEF Cable!ReadEvent, Cable!Enqueue, Cable!senderVars, Cable!othersVars, Cable!receiverVars,
         receiverVars
<1>2. e \in Entries /\ Tail(wire) \in Seq(Entries) /\ Append(receiveRing, e) \in Seq(Entries)
  BY <1>1, RingTypes, HeadTailTypes
<1>3. Cable!Chunk(e) = e  BY <1>2, EntryIsChunk
<1>4. receiveRing' \in Seq(Entries) /\ wire' \in Seq(Entries) /\ sendRing' \in Seq(Entries)
  BY <1>1, <1>2, <1>3, RingTypes
<1>5. Pipe' = Pipe \/ lost'
  <2>1. Append(receiveRing, e) \o Tail(wire) = receiveRing \o wire
    BY <1>1, RingTypes, EntriesMove
  <2>2. /\ Append(receiveRing, e) \o (Tail(wire) \o sendRing) = (Append(receiveRing, e) \o Tail(wire)) \o sendRing
        /\ receiveRing \o (wire \o sendRing) = (receiveRing \o wire) \o sendRing
    <3>1. PICK a \in Seq(Entries), b \in Seq(Entries) : a = Append(receiveRing, e) /\ b = Tail(wire)
      BY <1>2
    <3>2. a \o (b \o sendRing) = (a \o b) \o sendRing  BY RingTypes, ConcatAssociative, SMTT(30)
    <3>3. receiveRing \o (wire \o sendRing) = (receiveRing \o wire) \o sendRing
      BY RingTypes, ConcatAssociative, SMTT(30)
    <3> QED  BY <3>1, <3>2, <3>3, Zenon
  <2> QED  BY <1>1, <1>3, <2>1, <2>2, Zenon DEF Pipe
<1>6. lost => lost'  BY <1>1
<1> QED  BY <1>1, <1>4, <1>5, <1>6, SameOnTheWay

LEMMA TryRecvKeeps == ASSUME CableInv, Cable!TryRecv PROVE CableInv'
<1>1. /\ receiveRing # <<>> /\ receiveRing' = Tail(receiveRing) /\ lost' = TRUE
      /\ UNCHANGED <<sendRing, wire>>
      /\ UNCHANGED <<unsent, sending, accepted, mixed>> /\ UNCHANGED receiverVars
  BY DEF Cable!TryRecv, Cable!senderVars, Cable!othersVars, Cable!receiverVars, receiverVars
<1>2. receiveRing' \in Seq(Entries) /\ wire' \in Seq(Entries) /\ sendRing' \in Seq(Entries)
  BY <1>1, RingTypes, HeadTailTypes
<1> QED  BY <1>1, <1>2, SameOnTheWay

\* An event that does not disturb changes nothing the receiver is to be given.
LEMMA ForeignPasses ==
    ASSUME NEW m \in Foreign, NEW r \in Receivers
    PROVE  /\ Cable!Chunk(m) \in Entries
           /\ Cable!IsClock(m) \/ (r.buffer = <<>> /\ Cable!Take(r, Cable!Chunk(m)).buffer = <<>>)
                 => Cable!Take(r, Cable!Chunk(m)) = r
<1> DEFINE c == Cable!Chunk(m)
<1>1. Cable!IsEvent(m) /\ EntryMax \in Nat \ {0}
  BY CablesAssumption DEF Cable!CableAssumption
<1>2. m \in Bytes /\ m # <<>> /\ Len(m) \in Nat \ {0}  BY <1>1 DEF Cable!IsEvent, Bytes
<1>3. /\ c \in Bytes /\ c # <<>> /\ Len(c) \in 1 .. EntryMax /\ Len(c) \in 1 .. Len(m)
      /\ Len(m) <= EntryMax => c = m
      /\ \A i \in 1 .. Len(c) : i \in 1 .. Len(m) /\ c[i] = m[i]
  <2>1. /\ c \in Bytes /\ c # <<>> /\ Len(c) \in 1 .. EntryMax
        /\ Len(m) <= EntryMax => c = m
        /\ \A i \in 1 .. Len(c) : i \in 1 .. Len(m) /\ c[i] = m[i]
    BY <1>2, ChunkAndRest
  <2>2. Len(c) \in 1 .. Len(c)  BY <1>1, <2>1
  <2> QED  BY <2>1, <2>2
<1>4. c \in Cable!Heard  BY DEF Cable!Heard
<1> HIDE DEF c
<1>5. Head(c) = c[1]  BY <1>3 DEF Bytes
<1>6. CASE Cable!IsClock(m)
  <2>1. Len(m) = 1 /\ m[1] = "clock"  BY <1>6 DEF Cable!IsClock, Cable!IsRealtime
  <2>2. c = m  BY <1>1, <1>3, <2>1
  <2>3. Cable!Feed(r, c) = r  BY <1>6, <2>2, FeedClock
  <2>4. "clock" # "F0"  OBVIOUS
  <2>5. Cable!Take(r, c) = r  BY <1>4, <1>5, <2>1, <2>2, <2>3, <2>4, Zenon DEF Cable!Take
  <2>6. c \in Entries  BY <1>3, <1>6, <2>2 DEF Entries
  <2> QED  BY <2>5, <2>6 DEF c
<1>7. CASE ~Cable!IsClock(m)
  <2>1. ASSUME NEW i \in 1 .. Len(c)
        PROVE  ~Cable!IsRealtime(c[i]) /\ (Cable!IsStatus(c[i]) => i = 1 \/ (i = Len(c) /\ c[i] = "F7"))
    <3>1. i \in 1 .. Len(m) /\ c[i] = m[i]  BY <1>3
    <3>2. \A j \in 1 .. Len(m) :
              ~Cable!IsRealtime(m[j]) /\ (Cable!IsStatus(m[j]) => j = 1 \/ (j = Len(m) /\ m[j] = "F7"))
      BY <1>1, <1>7, Zenon DEF Cable!IsEvent
    <3> QED  BY <1>2, <1>3, <3>1, <3>2
  <2>2. c \in Entries  BY <1>3, <2>1 DEF Entries
  <2>3. ASSUME r.buffer = <<>>, Cable!Take(r, c).buffer = <<>> PROVE Cable!Take(r, c) = r
    <3>1. CASE c[1] # "F0"  BY <1>4, <1>5, <2>3, <3>1, Zenon DEF Cable!Take
    <3>2. CASE c[1] = "F0"
      <4>1. <<>> \in Bytes /\ <<>> \o c = c
        <5>1. <<>> \o c = c  BY <1>3, ConcatEmptySeq DEF Bytes
        <5> QED  BY <5>1 DEF Bytes
      <4>2. CASE Len(c) > 1 /\ c[Len(c)] = "F7"
        <5>1. Cable!IsSysEx(c)
          <6>1. ASSUME NEW i \in 2 .. Len(c) - 1 PROVE ~Cable!IsStatus(c[i])
            <7>1. i \in 1 .. Len(c) /\ i # 1 /\ i # Len(c)  BY <1>3
            <7> QED  BY <2>1, <7>1
          <6> QED  BY <1>3, <3>2, <4>2, <6>1 DEF Cable!IsSysEx, Bytes
        <5>2. Cable!Take(r, c) = Given(r, c)  BY <1>3, <4>1, <5>1, TakePiece
        <5>3. Given(r, c) = [r EXCEPT !.buffer = <<>>]  BY <1>4 DEF Given, Receivers
        <5>4. [r EXCEPT !.buffer = <<>>] = r  BY <2>3 DEF Receivers
        <5> QED  BY <5>2, <5>3, <5>4
      <4>3. CASE ~(Len(c) > 1 /\ c[Len(c)] = "F7")
        <5>1. Unended(c)
          <6>1. ASSUME NEW i \in 2 .. Len(c) PROVE ~Cable!IsStatus(c[i])
            <7>1. i \in 1 .. Len(c) /\ i # 1 /\ Len(c) > 1  BY <1>3
            <7> QED  BY <2>1, <4>3, <7>1
          <6> QED  BY <1>3, <3>2, <6>1 DEF Unended
        <5>2. Cable!Take(r, c) = Holds(r, c)  BY <1>3, <4>1, <5>1, TakePiece
        <5>3. Holds(r, c).buffer = c  BY <1>3, HoldsAgain
        <5> QED  BY <1>3, <2>3, <5>2, <5>3
      <4> QED  BY <4>2, <4>3
    <3> QED  BY <3>1, <3>2
  <2> QED  BY <1>7, <2>2, <2>3 DEF c
<1> QED  BY <1>6, <1>7

LEMMA ReadForeignKeeps == ASSUME CableInv, Cable!ReadForeign PROVE CableInv'
<1>1. PICK m \in Foreign : Cable!Enqueue(m) /\ mixed' = (mixed \/ Cable!Disturbs(m))
  BY DEF Cable!ReadForeign
<1> DEFINE c == Cable!Chunk(m)
           there == Cable!FoldLeft(Cable!Take, Cable!Receiver, receiveRing)
<1>2. /\ UNCHANGED <<sendRing, wire>> /\ UNCHANGED <<unsent, sending, accepted>> /\ UNCHANGED receiverVars
      /\ \/ receiveRing' = Append(receiveRing, c) /\ UNCHANGED lost
         \/ UNCHANGED receiveRing /\ lost' = TRUE
  BY <1>1 DEF Cable!ReadForeign, Cable!Enqueue, Cable!senderVars, Cable!receiverVars, receiverVars
<1>3. Cable!Receiver \in Receivers  BY DEF CableInv, CableTypes
<1>4. there \in Receivers
  <2>1. receiveRing \in Seq(Entries)  BY RingTypes
  <2>2. PICK F \in [0 .. Len(receiveRing) -> Receivers] : F[Len(receiveRing)] = there
    BY <1>3, <2>1, TakeRuns
  <2>3. Len(receiveRing) \in 0 .. Len(receiveRing)  BY <2>1
  <2> QED  BY <2>2, <2>3
<1>5. c \in Entries /\ (~Cable!Disturbs(m) => Cable!Take(there, c) = there)
  <2>1. ~Cable!Disturbs(m) =>
           Cable!IsClock(m) \/ (there.buffer = <<>> /\ Cable!Take(there, c).buffer = <<>>)
    BY DEF Cable!Disturbs
  <2> HIDE DEF there
  <2> QED  BY <1>4, <2>1, ForeignPasses
<1> HIDE DEF c, there
<1>6. receiveRing' \in Seq(Entries) /\ wire' \in Seq(Entries) /\ sendRing' \in Seq(Entries)
  BY <1>2, <1>5, RingTypes, SMTT(30)
<1>7. mixed => mixed'  BY <1>1
<1>8. CASE UNCHANGED receiveRing /\ lost' = TRUE  BY <1>2, <1>6, <1>7, <1>8, SameOnTheWay
<1>9. CASE mixed'
  <2>1. lost => lost'  BY <1>2
  <2> QED  BY <1>2, <1>6, <1>7, <1>9, <2>1, SameOnTheWay
<1>10. CASE receiveRing' = Append(receiveRing, c) /\ UNCHANGED lost /\ ~mixed'
  <2>1. Cable!Receiver' = Cable!Receiver  BY <1>2, ReceiverStays
  <2>2. CableTypes'  BY <1>2, <1>6, <2>1 DEF CableInv, CableTypes
  <2>3. ~mixed /\ Cable!Take(there, c) = there  BY <1>1, <1>5, <1>10
  <2>4. PipeInv'
    <3> SUFFICES ASSUME ~lost
                 PROVE  \E last : Becomes(Cable!Receiver', Pipe', last, accepted') /\ Continues(last)'
      BY <1>10 DEF PipeInv
    <3>1. PICK last : Becomes(Cable!Receiver, Pipe, last, accepted) /\ Continues(last)
      BY <2>3 DEF CableInv, PipeInv
    <3>2. Becomes(Cable!Receiver, Pipe', last, accepted)
      <4>1. PICK b \in Seq(Entries) : b = wire \o sendRing  BY RingTypes, ConcatProperties
      <4>2. Becomes(Cable!Receiver, receiveRing \o b, last, accepted)  BY <3>1, <4>1 DEF Pipe
      <4>3. there = Cable!FoldLeft(Cable!Take, Cable!Receiver, receiveRing)  BY DEF there
      <4>4. receiveRing \in Seq(Entries)  BY RingTypes
      <4>5. Becomes(Cable!Receiver, Append(receiveRing, c) \o b, last, accepted)
        BY <1>3, <1>5, <2>3, <4>2, <4>3, <4>4, BecomesAnyhow
      <4> QED  BY <1>2, <1>10, <4>1, <4>5 DEF Pipe
    <3>3. Continues(last)'  BY <1>2, <3>1 DEF Continues
    <3> QED  BY <1>2, <2>1, <3>2, <3>3
  <2> QED  BY <2>2, <2>4 DEF CableInv
<1> QED  BY <1>2, <1>8, <1>9, <1>10

LEMMA ReceiveKeepsPipe == ASSUME CableInv, Cable!Receive PROVE CableInv'
<1> DEFINE e == Head(receiveRing)
           r == Cable!Take(Cable!Receiver, e)
<1>1. /\ receiveRing # <<>> /\ receiveRing' = Tail(receiveRing)
      /\ buffer' = r.buffer /\ regular' = r.regular /\ complete' = r.complete
      /\ UNCHANGED <<sendRing, wire, lost, mixed>> /\ UNCHANGED <<unsent, sending, accepted>>
  BY DEF Cable!Receive, Cable!senderVars, Cable!othersVars
<1>2. e \in Entries /\ Tail(receiveRing) \in Seq(Entries)  BY <1>1, RingTypes, HeadTailTypes
<1>3. r \in Receivers  BY <1>2, EntryIsBytes, TakeType DEF CableInv, CableTypes
<1> HIDE DEF r
<1>4. Cable!Receiver' = r
  <2>1. r = [buffer |-> r.buffer, regular |-> r.regular, complete |-> r.complete]
    BY <1>3 DEF Receivers
  <2> QED  BY <1>1, <2>1 DEF Cable!Receiver
<1>5. CableTypes'  BY <1>1, <1>2, <1>3, <1>4 DEF CableInv, CableTypes
<1>6. PipeInv'
  <2> SUFFICES ASSUME ~lost, ~mixed
               PROVE  \E last : Becomes(r, Pipe', last, accepted') /\ Continues(last)'
    BY <1>1, <1>4 DEF PipeInv
  <2>1. PICK last : Becomes(Cable!Receiver, Pipe, last, accepted) /\ Continues(last)
    BY DEF CableInv, PipeInv
  <2>2. Pipe \in Seq(Entries) /\ Pipe # <<>> /\ Head(Pipe) = e /\ Tail(Pipe) = Pipe'
    <3>1. PICK b \in Seq(Entries) : b = wire \o sendRing  BY RingTypes, ConcatProperties
    <3>2. /\ receiveRing \o b \in Seq(Entries) /\ receiveRing \o b # <<>>
          /\ Head(receiveRing \o b) = e /\ Tail(receiveRing \o b) = Tail(receiveRing) \o b
      BY <1>1, RingTypes, ConcatSimplifications
    <3> QED  BY <1>1, <3>1, <3>2 DEF Pipe
  <2>3. Becomes(r, Pipe', last, accepted)  BY <2>1, <2>2, BecomesOnwards DEF r
  <2>4. Continues(last)'  BY <1>1, <2>1 DEF Continues
  <2> QED  BY <1>1, <2>3, <2>4
<1> QED  BY <1>5, <1>6 DEF CableInv

LEMMA CableNextHolds == ASSUME CableInv, [Cable!Next]_(Cable!vars) PROVE CableInv'
<1>1. CASE UNCHANGED (Cable!vars)
  <2>1. /\ UNCHANGED <<unsent, sending, accepted>> /\ UNCHANGED receiverVars
        /\ UNCHANGED <<receiveRing, wire, sendRing, lost, mixed>>
    BY <1>1 DEF Cable!vars, Cable!senderVars, Cable!othersVars, Cable!receiverVars, receiverVars
  <2>2. Pipe' = Pipe  BY <2>1 DEF Pipe
  <2> QED  BY <2>1, <2>2, RingTypes, SameOnTheWay
<1> QED
  BY <1>1, SendRawKeeps, PushKeeps, PushFullKeeps, WriteKeepsPipe, ReadEventKeeps, ReadForeignKeeps,
     ReceiveKeepsPipe, TryRecvKeeps DEF Cable!Next

\* The messages that came out were accepted.
LEMMA NothingComesOfNothing == CableInv => NothingInvented
<1> SUFFICES ASSUME CableInv, ~lost, ~mixed PROVE Cable!AreAccepted(complete) /\ Cable!AreAccepted(regular)
  BY DEF NothingInvented, Cable!NothingInvented
<1>1. PICK last : Becomes(Cable!Receiver, Pipe, last, accepted)  BY DEF CableInv, PipeInv
<1>2. InPlace(Cable!Receiver, accepted)  BY <1>1, PipeIs, BecomesType DEF CableInv
<1>3. Cable!Receiver.complete = complete /\ Cable!Receiver.regular = regular  BY DEF Cable!Receiver
<1> QED  BY <1>2, <1>3, ZenonT(60) DEF InPlace, Within, Cable!AreAccepted

\* A whole SysEx message comes out of whatever entries.
LEMMA WholeMessagesComeOut == CableInv => WholeSysExIsReturned
<1> SUFFICES ASSUME CableInv, NEW j \in 1 .. Len(receiveRing), NEW i \in 1 .. j,
                    Cable!IsSysEx(Cable!Joined(SubSeq(receiveRing, i, j))),
                    Cable!Joined(SubSeq(receiveRing, i, j)) \notin Cable!Heard
             PROVE  LET got == Cable!FoldLeft(Cable!Take, [Cable!Receiver EXCEPT !.complete = <<>>],
                                              SubSeq(receiveRing, 1, j)).complete
                    IN  got # <<>> /\ Last(got) = Cable!Joined(SubSeq(receiveRing, i, j))
  BY DEF WholeSysExIsReturned, Cable!WholeSysExIsReturned, Cable!Last, Last
<1> DEFINE r == [Cable!Receiver EXCEPT !.complete = <<>>]
           s == SubSeq(receiveRing, 1, j)
<1>1. r \in Receivers
  <2>1. Cable!Receiver \in Receivers /\ <<>> \in Seq(Bytes)  BY DEF CableInv, CableTypes
  <2> QED  BY <2>1 DEF Receivers
<1>2. /\ s \in Seq(Entries) /\ Len(s) = j /\ j \in Nat /\ i \in 1 .. Len(s)
      /\ \A k \in 1 .. j : s[k] = receiveRing[k]
  BY RingTypes
<1>3. SubSeq(s, i, Len(s)) = SubSeq(receiveRing, i, j)
  <2>1. /\ receiveRing \in Seq(Entries) /\ SubSeq(s, i, j) \in Seq(Entries)
        /\ SubSeq(receiveRing, i, j) \in Seq(Entries)
        /\ Len(SubSeq(s, i, j)) = j - i + 1 /\ Len(SubSeq(receiveRing, i, j)) = j - i + 1
        /\ \A k \in 1 .. j - i + 1 : /\ SubSeq(s, i, j)[k] = s[i + k - 1]
                                     /\ SubSeq(receiveRing, i, j)[k] = receiveRing[i + k - 1]
    BY <1>2, RingTypes
  <2>2. \A k \in 1 .. j - i + 1 : i + k - 1 \in 1 .. j  BY <1>2
  <2> HIDE DEF s
  <2>3. \A k \in 1 .. Len(SubSeq(s, i, j)) : SubSeq(s, i, j)[k] = SubSeq(receiveRing, i, j)[k]
    BY <1>2, <2>1, <2>2
  <2>4. SubSeq(s, i, j) = SubSeq(receiveRing, i, j)  BY <2>1, <2>3, SeqEqual
  <2> QED  BY <1>2, <2>4
<1> HIDE DEF r, s
<1>4. LET got == Cable!FoldLeft(Cable!Take, r, s).complete
      IN  got # <<>> /\ Last(got) = Cable!Joined(SubSeq(s, i, Len(s)))
  BY <1>1, <1>2, <1>3, WholeComesOut
<1> QED  BY <1>3, <1>4 DEF r, s

-----------------------------------------------------------------------------
(* The parts. *)

LEMMA BackendStays == WiringNext \/ Audio!Next => backend' = backend
<1>1. WiringNext => backend' = backend
  BY DEF WiringNext, NewRefused, New, DropStream, AutoConnect, AutoConnectOutput, Open, ConnectPorts
<1>2. Audio!Next => backend' = backend
  BY DEF Audio!Next, Audio!Stub, Audio!OpenOutput, Audio!OpenInput, Audio!AutoConnect,
     Audio!NotifySampleRate, Audio!NotifyXrun, Audio!ConnectPorts, Audio!Write, Audio!Read,
     Audio!WriteSample, Audio!ReadSample, Audio!BeginCycle, Audio!FillSample, Audio!FillByCallback,
     Audio!OutputDone, Audio!NoOutput, Audio!PushSample, Audio!InputDone, Audio!setupVars
<1> QED  BY <1>1, <1>2

LEMMA PartsStep ==
    ASSUME [PartsNext]_partsVars
    PROVE  /\ [MidiNext]_midiVars /\ [WiringNext]_wiringVars
           /\ [Cable!Next]_(Cable!vars) /\ [Audio!Next]_(Audio!vars)
<1>1. /\ UNCHANGED cableVars => UNCHANGED (Cable!vars)
      /\ UNCHANGED <<backend, audioVars>> => UNCHANGED (Audio!vars)
      /\ UNCHANGED <<backend, plugVars>> => UNCHANGED wiringVars
  BY DEF cableVars, audioVars, plugVars, wiringVars, Cable!vars, Cable!senderVars, Cable!receiverVars,
     Cable!othersVars, Audio!vars, Audio!setupVars, Audio!callerVars, Audio!cycleVars
<1>2. CASE part = "midi" /\ MidiNext /\ UNCHANGED <<part, backend, cableVars, audioVars, plugVars>>
  BY <1>1, <1>2
<1>3. CASE part = "cable" /\ Cable!Next /\ UNCHANGED <<part, backend, midiVars, audioVars, plugVars>>
  BY <1>1, <1>3
<1>4. CASE part = "audio" /\ Audio!Next /\ UNCHANGED <<part, midiVars, cableVars, plugVars>>
  BY <1>1, <1>4, BackendStays
<1>5. CASE part = "wiring" /\ WiringNext /\ UNCHANGED <<part, midiVars, cableVars, audioVars>>
  BY <1>1, <1>5, BackendStays
<1>6. CASE UNCHANGED partsVars
  BY <1>1, <1>6 DEF partsVars
<1> QED  BY <1>2, <1>3, <1>4, <1>5, <1>6 DEF PartsNext

\* Every behaviour of the parts together is one of MidiPorts, of JackWiring, of JackMidi and of
\* JackAudio.
THEOREM PartsAreComponents == PartsSpec => MidiSpec /\ WiringSpec /\ Cable!Spec /\ Audio!Spec
<1>1. PartsInit => MidiInit /\ WiringInit /\ Cable!Init /\ Audio!Init  BY DEF PartsInit
<1> QED
  BY <1>1, PartsStep, PTL DEF PartsSpec, MidiSpec, WiringSpec, Cable!Spec, Audio!Spec

\* What receive() returns is what was sent, SysEx messages too, in order; the port an input is
\* opened by is the one enumerate_midi() lists there, whatever was merged into it.
THEOREM MessagesArrive == PartsSpec => []ArrivesWhereListed
<1> DEFINE Inv == ChannelInv /\ ClockInv /\ ListedInv /\ OpenedInv
<1>1. PartsInit => Inv  BY MidiInitHolds, PortsInit DEF PartsInit
<1>2. Inv /\ [PartsNext]_partsVars => Inv'  BY PartsStep, MidiNextHolds, PortsNext
<1>3. Inv => ArrivesWhereListed
  <2>1. ChannelInv => ArrivesAsSent  BY DEF ChannelInv, ArrivesAsSent
  <2> QED  BY <2>1, OpensWhereListed DEF ArrivesWhereListed
<1> QED  BY <1>1, <1>2, <1>3, PTL DEF PartsSpec

\* However the tempo changed and whatever was played before the last Start, bpm() is the tempo
\* of the ticks since then as soon as a window of them is even.
THEOREM ClockFollows == PartsSpec => []TempoIsOfLatestTicks
<1>1. PartsInit => ChannelInv /\ ClockInv  BY MidiInitHolds DEF PartsInit
<1>2. ChannelInv /\ ClockInv /\ [PartsNext]_partsVars => ChannelInv' /\ ClockInv'
  BY PartsStep, MidiNextHolds
<1> QED  BY <1>1, <1>2, ClockShowsTempo, PTL DEF PartsSpec

\* A write() that found two seconds of room drops nothing; every captured frame was read, is
\* queued or counts as an overrun; and what went through a loopback is what was written, in order
\* and without a hole, but for as many samples as write() dropped.
THEOREM SamplesAreAccounted == PartsSpec => []AudioIsAccounted
<1>1. PartsInit => AudioInv  BY AudioInitHolds DEF PartsInit
<1>2. AudioInv /\ [PartsNext]_partsVars => AudioInv'  BY PartsStep, AudioNextHolds
<1> QED  BY <1>1, <1>2, NothingIsLost, PTL DEF PartsSpec

\* A stream's auto_connect() wires its own port, whichever name the server gave its client
\* and whoever else asked for it; and every wire leads from an output that is there to an
\* input that is there.
THEOREM StreamsWireTheirOwn == PartsSpec => []AutoWiresOwn
<1>1. PartsInit => WiringInv  BY WiringInitHolds DEF PartsInit
<1>2. WiringInv /\ [PartsNext]_partsVars => WiringInv'  BY PartsStep, WiringNextHolds
<1>3. WiringInv => AutoWiresOwn  BY DEF WiringInv
<1> QED  BY <1>1, <1>2, <1>3, PTL DEF PartsSpec

\* As long as nothing is dropped on the way and no other client's event gets into a SysEx message,
\* the SysEx messages recv_with_sysex() returns, and the regular entries, are other clients' or
\* messages send_raw() returned Ok for, whole and in order: whatever stayed in the ring of a message
\* that failed half way, wherever realtime bytes fell and whatever came between two messages.
THEOREM NothingIsInvented == PartsSpec => []NothingInvented
<1>1. PartsInit => CableInv  BY CableInitHolds DEF PartsInit
<1>2. CableInv /\ [PartsNext]_partsVars => CableInv'  BY PartsStep, CableNextHolds
<1> QED  BY <1>1, <1>2, NothingComesOfNothing, PTL DEF PartsSpec

\* A SysEx message all of whose entries are in the input's ring is returned whole, whatever was
\* dropped before it, whatever the reassembler holds, whatever other clients sent before it and
\* wherever realtime bytes fell.
THEOREM WholeSysExComesOut == PartsSpec => []WholeSysExIsReturned
<1>1. PartsInit => CableInv  BY CableInitHolds DEF PartsInit
<1>2. CableInv /\ [PartsNext]_partsVars => CableInv'  BY PartsStep, CableNextHolds
<1> QED  BY <1>1, <1>2, WholeMessagesComeOut, PTL DEF PartsSpec
=============================================================================
