----------------------------- MODULE SmfPlayback -----------------------------
(***************************************************************************)
(* A parsed file played: TempoMap, which turns ticks into time, SmfPlayer, *)
(* which merges the tracks, and play(), which sleeps and sends, one event  *)
(* a step, to an output that may fail.                                     *)
(*                                                                         *)
(* Time is exact, in microseconds times the ticks of a beat; the code      *)
(* divides, in floating point.  A tempo of 0, in which the ticks of        *)
(* different tracks fall together, is not explored, and a damaged file is  *)
(* not played: its times may be beyond TLC's integers.                     *)
(***************************************************************************)
EXTENDS SmfCodec

CONSTANTS
    DefaultTempo,   \* 500 000 in the code
    Resolution      \* gaps up to this many microseconds are not slept; 1000 in the code

VARIABLES
    entries,    \* the tempo map
    agenda,     \* the events to play, in order
    lastTime,   \* of the event played last
    slept,      \* how long play() has slept
    sent        \* the messages sent: the event, and when

player     == <<entries, agenda, lastTime, slept, sent>>
playerVars == <<vars, player>>

PlayerInit == entries = <<>> /\ agenda = <<>> /\ lastTime = 0 /\ slept = 0 /\ sent = <<>>

-----------------------------------------------------------------------------
(* TempoMap *)

Tracks == parsed.tracks
TickOf(k, i) == FoldLeft(LAMBDA sum, e : sum + e.delta, 0, SubSeq(Tracks[k], 1, i))

\* Every event of the file: where it is, and its absolute tick.
Events ==
    UNION {{[track |-> k, index |-> i, tick |-> TickOf(k, i)] : i \in DOMAIN Tracks[k]} :
              k \in DOMAIN Tracks}
EventOf(e) == Tracks[e.track][e.index]

TicksPerBeat == IF parsed.division[1] = "ticks" THEN parsed.division[2] ELSE 0

Before(a, b) ==
    \/ a.tick < b.tick
    \/ a.tick = b.tick /\ a.track < b.track
    \/ a.tick = b.tick /\ a.track = b.track /\ a.index < b.index

\* The elements of a set in the order of a strict total order.
InOrder(S, less(_, _)) ==
    [i \in 1 .. Cardinality(S) |->
        CHOOSE x \in S : Cardinality({y \in S : less(y, x)}) = i - 1]

TempoEvents == {e \in Events : EventOf(e).kind = "tempo"}
TempoEntry(e) == [tick |-> e.tick, tempo |-> EventOf(e).data[1]]

\* Mutant: of several tempos at a tick the first one is kept.
FromFileFirst ==
    LET kept  == {e \in TempoEvents : \A x \in TempoEvents : x.tick = e.tick => ~Before(x, e)}
        start == IF \E e \in kept : e.tick = 0 THEN {}
                 ELSE {[tick |-> 0, tempo |-> DefaultTempo]}
    IN  IF TicksPerBeat = 0 THEN <<>>
        ELSE InOrder(start \cup {TempoEntry(e) : e \in kept}, LAMBDA a, b : a.tick < b.tick)

\* Of several tempos at a tick the last one is kept, track after track.
FromFile ==
    LET kept  == {e \in TempoEvents : \A x \in TempoEvents : x.tick = e.tick => ~Before(e, x)}
        start == IF \E e \in kept : e.tick = 0 THEN {}
                 ELSE {[tick |-> 0, tempo |-> DefaultTempo]}
    IN  IF TicksPerBeat = 0 THEN <<>>
        ELSE InOrder(start \cup {TempoEntry(e) : e \in kept}, LAMBDA a, b : a.tick < b.tick)

\* tick_to_secs: the segments before the tick, and the rest of the last one.
TickToTime(map, tick) ==
    LET segment(s, e) == [time  |-> s.time + (e.tick - s.tick) * s.tempo,
                          tick  |-> e.tick, tempo |-> e.tempo]
        last == FoldLeft(segment, [time |-> 0, tick |-> 0, tempo |-> DefaultTempo],
                         SelectSeq(map, LAMBDA e : e.tick < tick))
    IN  IF map = <<>> THEN 0 ELSE last.time + (tick - last.tick) * last.tempo

-----------------------------------------------------------------------------
(* SmfPlayer *)

Timed(map, e) == [track |-> e.track, index |-> e.index, time |-> TickToTime(map, e.tick)]

\* new(): by time; the sort is stable, so simultaneous events stay as they were.
Agenda(map) ==
    InOrder({Timed(map, e) : e \in Events}, LAMBDA a, b :
        \/ a.time < b.time
        \/ a.time = b.time /\ (a.track < b.track \/ (a.track = b.track /\ a.index < b.index)))

Load ==
    /\ pc = "done" /\ damaged = -1
    /\ entries' = FromFile
    /\ agenda' = Agenda(entries')
    /\ pc' = "play"
    /\ UNCHANGED <<file, data, damaged, pos, trackEnd, running, left, parsed, lastTime, slept, sent>>

Delay == LET gap == Head(agenda).time - lastTime
         IN  IF gap > Resolution * TicksPerBeat THEN gap ELSE 0

\* Mutant: the clock moves with the messages only.
PlayEventMeta ==
    /\ pc = "play" /\ agenda # <<>>
    /\ slept' = slept + Delay
    /\ IF EventOf(Head(agenda)).kind \in {"midi", "sysex"}
       THEN sent' = Append(sent, [event |-> Head(agenda), at |-> slept']) /\ lastTime' = Head(agenda).time
       ELSE UNCHANGED <<sent, lastTime>>
    /\ agenda' = Tail(agenda)
    /\ UNCHANGED <<vars, entries>>

\* play(), one event: sleep, send if it is a message, go on.
PlayEvent ==
    /\ pc = "play" /\ agenda # <<>>
    /\ slept' = slept + Delay
    /\ sent' = IF EventOf(Head(agenda)).kind \in {"midi", "sysex"}
               THEN Append(sent, [event |-> Head(agenda), at |-> slept']) ELSE sent
    /\ lastTime' = Head(agenda).time
    /\ agenda' = Tail(agenda)
    /\ UNCHANGED <<vars, entries>>

\* The output fails: play() returns, after it slept.
PlayError ==
    /\ pc = "play" /\ agenda # <<>> /\ EventOf(Head(agenda)).kind \in {"midi", "sysex"}
    /\ slept' = slept + Delay
    /\ pc' = "failed"
    /\ UNCHANGED <<file, data, damaged, pos, trackEnd, running, left, parsed,
                   entries, agenda, lastTime, sent>>

PlayEnd ==
    /\ pc = "play" /\ agenda = <<>>
    /\ pc' = "played"
    /\ UNCHANGED <<file, data, damaged, pos, trackEnd, running, left, parsed, player>>

-----------------------------------------------------------------------------
PlaybackInit == Init /\ PlayerInit

PlaybackNext ==
    \/ Next /\ UNCHANGED player
    \/ Load \/ PlayEvent \/ PlayError \/ PlayEnd

PlaybackSpec == PlaybackInit /\ [][PlaybackNext]_playerVars

-----------------------------------------------------------------------------
(* Properties. *)

\* The tempo in force at a tick, and the time of a tick as the sum of the spans
\* between tempo changes: what the map must compute, whatever tracks they are on.
TempoAt(tick) ==
    LET past == {e \in TempoEvents : e.tick <= tick}
    IN  IF past = {} THEN DefaultTempo
        ELSE EventOf(CHOOSE e \in past : \A x \in past : x = e \/ Before(x, e)).data[1]

TimeOf(tick) ==
    LET starts  == {0} \cup {t \in {e.tick : e \in TempoEvents} : t < tick}
        end(t)  == Min({tick} \cup {u \in starts : u > t})
    IN  IF TicksPerBeat = 0 THEN 0 ELSE MapThenSumSet(LAMBDA t : (end(t) - t) * TempoAt(t), starts)

Messages == {e \in Events : EventOf(e).kind \in {"midi", "sysex"}}
Sent(e)  == \E i \in DOMAIN sent : sent[i].event.track = e.track /\ sent[i].event.index = e.index

\* No message overtakes an earlier one, of its own track or of another, none is sent
\* twice, and all are sent when play() returns without an error.
InOrderOnce ==
    /\ \A e, x \in Messages : Sent(e) /\ Before(x, e) /\ TicksPerBeat # 0 => Sent(x)
    /\ \A i, j \in DOMAIN sent : sent[i].event = sent[j].event => i = j
    /\ pc = "played" => \A e \in Messages : Sent(e)

\* The gaps between the times of events that are too short to be slept, up to a time.
Unslept(due) ==
    LET times  == {0} \cup {t \in {TimeOf(x.tick) : x \in Events} : t <= due}
        gap(t) == t - Max({u \in times : u < t})
    IN  MapThenSumSet(gap, {t \in times \ {0} : gap(t) <= Resolution * TicksPerBeat})

\* Every message is played in its order, and at the time its tick has under all the tempo
\* changes before it, on whichever track they are and however many share a tick, less the
\* gaps too short to be slept.
PlaysOnTime ==
    /\ InOrderOnce
    /\ \A i \in DOMAIN sent :
        LET due == TimeOf(TickOf(sent[i].event.track, sent[i].event.index))
        IN  sent[i].at = due - Unslept(due)
=============================================================================
