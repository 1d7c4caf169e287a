------------------------------- MODULE SmfCodec ------------------------------
(***************************************************************************)
(* Standard MIDI Files: write() of oxisound-smf and parse(), one track     *)
(* event a step.  The bytes may come from write() or from another program  *)
(* that uses running status, and one of them may be damaged, or the tail   *)
(* lost, before they are parsed.                                           *)
(*                                                                         *)
(* A file is [division, tracks]; a division is <<"ticks", n>> or           *)
(* <<"smpte", fps, subframes>>; an event is [delta, kind, data] with the   *)
(* fields of its SmfEvent in data.  Positions count from 0, as in the code.*)
(* Not told apart: the SMF format, and a track's name apart from its event.*)
(***************************************************************************)
EXTENDS Integers, SequencesExt

CONSTANTS
    Files,        \* the files explored
    DamageBytes   \* what a damaged byte may turn into

VARIABLES
    file,      \* the file that was written
    data,      \* its bytes
    damaged,   \* the position of the damaged or first lost byte, or -1
    pc,        \* "write", "damage", "header", "track", "event", "done" or "error";
               \* then "play", "played" or "failed" (SmfPlayback)
    pos,       \* how far parse() has read
    trackEnd,  \* the end of the chunk it is in
    running,   \* running status, or 0
    left,      \* chunks the header announced that are not parsed yet
    parsed     \* what it returns

vars == <<file, data, damaged, pc, pos, trackEnd, running, left, parsed>>

Init ==
    /\ file \in Files
    /\ data = <<>> /\ damaged = -1
    /\ pc = "write" /\ pos = 0 /\ trackEnd = 0 /\ running = 0 /\ left = 0
    /\ parsed = [division |-> <<>>, tracks |-> <<>>]

-----------------------------------------------------------------------------
(* write() *)

BigEndian(n, width) == [i \in 1 .. width |-> (n \div 256 ^ (width - i)) % 256]

\* Mutant: the groups in the order they are computed in.
WriteVlqReversed(n) ==
    LET len == CHOOSE k \in 1 .. 4 : n < 128 ^ k /\ \A j \in 1 .. k - 1 : n >= 128 ^ j
    IN  [i \in 1 .. len |-> ((n \div 128 ^ (i - 1)) % 128) + (IF i < len THEN 128 ELSE 0)]

WriteVlq(n) ==
    LET len == CHOOSE k \in 1 .. 4 : n < 128 ^ k /\ \A j \in 1 .. k - 1 : n >= 128 ^ j
    IN  [i \in 1 .. len |-> ((n \div 128 ^ (len - i)) % 128) + (IF i < len THEN 128 ELSE 0)]

Meta(type, payload) == <<255, type>> \o WriteVlq(Len(payload)) \o payload

\* encode_track, one event.  A SysEx message keeps its framing and gets no length.
WriteEvent(e) ==
    CASE e.kind = "midi"    -> e.data
      [] e.kind = "sysex"   -> <<240>> \o e.data \o <<247>>
      [] e.kind = "tempo"   -> <<255, 81, 3>> \o BigEndian(e.data[1] % 2 ^ 24, 3)
      [] e.kind = "timesig" -> <<255, 88, 4>> \o e.data
      [] e.kind = "keysig"  -> <<255, 89, 2>> \o e.data
      [] e.kind = "name"    -> Meta(3, e.data)
      [] e.kind = "eot"     -> <<255, 47, 0>>
      [] e.kind = "meta"    -> Meta(e.data[1], Tail(e.data))

EndOfTrack == [delta |-> 0, kind |-> "eot", data |-> <<>>]

\* encode_track adds the end-of-track event a track lacks.
Completed(track) ==
    IF \E i \in 1 .. Len(track) : track[i].kind = "eot" THEN track ELSE Append(track, EndOfTrack)

\* Another program leaves out a status byte that repeats the one before it.
MayOmitStatus(track, i) ==
    /\ i > 1 /\ track[i].kind = "midi" /\ track[i - 1].kind = "midi"
    /\ track[i].data[1] = track[i - 1].data[1]

WriteTrack(track, omit) ==
    LET body == FlattenSeq([i \in 1 .. Len(track) |->
                    WriteVlq(track[i].delta)
                        \o IF omit /\ MayOmitStatus(track, i)
                           THEN Tail(WriteEvent(track[i])) ELSE WriteEvent(track[i])])
    IN  <<77, 84, 114, 107>> \o BigEndian(Len(body), 4) \o body

\* The high byte of an SMPTE division: the frame rate negated, with the top bit set.
WriteDivision(d) ==
    IF d[1] = "ticks" THEN BigEndian(d[2], 2)
    ELSE LET negated == (256 - d[2]) % 256
         IN  <<IF negated < 128 THEN negated + 128 ELSE negated, d[3]>>

WriteFile(f, omit) ==
    <<77, 84, 104, 100, 0, 0, 0, 6, 0, 1>> \o BigEndian(Len(f.tracks), 2)
        \o WriteDivision(f.division)
        \o FlattenSeq([i \in 1 .. Len(f.tracks) |-> WriteTrack(Completed(f.tracks[i]), omit)])

Write ==
    /\ pc = "write"
    /\ \E omit \in BOOLEAN : data' = WriteFile(file, omit)
    /\ pc' = "damage"
    /\ UNCHANGED <<file, damaged, pos, trackEnd, running, left, parsed>>

\* On the way from writer to reader.
Damage ==
    /\ pc = "damage"
    /\ \/ UNCHANGED <<data, damaged>>
       \/ \E i \in 14 .. Len(data) - 1, b \in DamageBytes :
            data' = [data EXCEPT ![i + 1] = b] /\ damaged' = i
       \/ \E n \in 0 .. Len(data) - 1 : data' = SubSeq(data, 1, n) /\ damaged' = n
    /\ pc' = "header"
    /\ UNCHANGED <<file, pos, trackEnd, running, left, parsed>>

-----------------------------------------------------------------------------
(* parse() *)

\* What a track name that is not UTF-8 reads as.  Of bytes that were ASCII and one
\* that was damaged, exactly those below 128 are UTF-8.
InvalidName == <<63>>

At(p) == data[p + 1]
Slice(p, n) == SubSeq(data, p + 1, p + n)
Number(p, width) == FoldLeft(LAMBDA n, byte : 256 * n + byte, 0, Slice(p, width))

\* Where the variable-length quantity at p may end: at most four bytes on, at the
\* first byte without a continuation bit.
VlqEnds(p) ==
    {q \in p + 1 .. p + 4 :
        q <= Len(data) /\ At(q - 1) < 128 /\ \A r \in p .. q - 2 : At(r) >= 128}
HasVlq(p) == VlqEnds(p) # {}
VlqEnd(p) == CHOOSE q \in VlqEnds(p) : TRUE
ReadVlq(p) == FoldLeft(LAMBDA n, byte : 128 * n + (byte % 128), 0, Slice(p, VlqEnd(p) - p))

Fail == pc' = "error" /\ UNCHANGED <<file, data, damaged, pos, trackEnd, running, left, parsed>>

ReadDivision ==
    IF At(12) < 128 THEN <<"ticks", Number(12, 2)>> ELSE <<"smpte", At(12) % 128, At(13)>>

HeaderOk ==
    /\ Len(data) >= 14
    /\ Slice(0, 4) = <<77, 84, 104, 100>> /\ Number(4, 4) = 6 /\ Number(8, 2) \in 0 .. 2

ParseHeader ==
    /\ pc = "header" /\ HeaderOk
    /\ parsed' = [parsed EXCEPT !.division = ReadDivision]
    /\ left' = Number(10, 2)
    /\ pos' = 14
    /\ pc' = "track"
    /\ UNCHANGED <<file, data, damaged, trackEnd, running>>

HeaderError == pc = "header" /\ ~HeaderOk /\ Fail

\* Mutant: the end of the data ends the file as well.
FinishEarly ==
    /\ pc = "track" /\ (left = 0 \/ pos = Len(data))
    /\ pc' = "done"
    /\ UNCHANGED <<file, data, damaged, pos, trackEnd, running, left, parsed>>

Finish ==
    /\ pc = "track" /\ left = 0
    /\ pc' = "done"
    /\ UNCHANGED <<file, data, damaged, pos, trackEnd, running, left, parsed>>

TrackOk ==
    /\ pos + 8 <= Len(data)
    /\ Slice(pos, 4) = <<77, 84, 114, 107>>
    /\ At(pos + 4) = 0 /\ pos + 8 + Number(pos + 5, 3) <= Len(data)

ParseTrack ==
    /\ pc = "track" /\ left > 0 /\ TrackOk
    /\ pos' = pos + 8 /\ trackEnd' = pos + 8 + Number(pos + 5, 3)
    /\ running' = 0 /\ left' = left - 1
    /\ parsed' = [parsed EXCEPT !.tracks = Append(@, <<>>)]
    /\ pc' = "event"
    /\ UNCHANGED <<file, data, damaged>>

TrackError == pc = "track" /\ left > 0 /\ ~TrackOk /\ Fail

\* How many data bytes follow a status byte; 0 for those parse() refuses.
Arity(status) ==
    CASE status \div 16 \in {8, 9, 10, 11, 14} -> 2
      [] status \div 16 \in {12, 13} -> 1
      [] OTHER -> 0

\* decode_meta: the events it makes of a payload, none if that is too short.
DecodeMeta(type, payload) ==
    CASE type = 3  -> {[kind |-> "name",
                        data |-> IF \A i \in 1 .. Len(payload) : payload[i] < 128
                                 THEN payload ELSE InvalidName]}
      [] type = 81 -> IF Len(payload) < 3 THEN {}
                      ELSE {[kind |-> "tempo", data |-> <<256 ^ 2 * payload[1] + 256 * payload[2]
                                                          + payload[3]>>]}
      [] type = 88 -> IF Len(payload) < 4 THEN {}
                      ELSE {[kind |-> "timesig", data |-> SubSeq(payload, 1, 4)]}
      [] type = 89 -> IF Len(payload) < 2 THEN {}
                      ELSE {[kind |-> "keysig",
                             data |-> <<payload[1], IF payload[2] = 0 THEN 0 ELSE 1>>]}
      [] type = 47 -> {[kind |-> "eot", data |-> <<>>]}
      [] OTHER     -> {[kind |-> "meta", data |-> <<type>> \o payload]}

\* A length at p and that many bytes, all inside the chunk.
PayloadFits(p) == HasVlq(p) /\ VlqEnd(p) + ReadVlq(p) <= trackEnd
Payload(p)     == Slice(VlqEnd(p), ReadVlq(p))
PayloadEnd(p)  == VlqEnd(p) + ReadVlq(p)

\* parse_event: what the bytes at p are read as, [kind, data, end, status], with
\* status 0 where running status stays; none for an error.
MetaEvents(p) ==
    IF p + 1 < Len(data) /\ PayloadFits(p + 2)
    THEN {[kind |-> m.kind, data |-> m.data, end |-> PayloadEnd(p + 2), status |-> 0] :
             m \in DecodeMeta(At(p + 1), Payload(p + 2))}
    ELSE {}

SysExEvents(p) ==
    IF PayloadFits(p + 1)
    THEN {[kind   |-> IF At(p) = 240 THEN "sysex" ELSE "midi",
           data   |-> IF At(p) = 240 THEN Payload(p + 1) ELSE <<247>> \o Payload(p + 1),
           end    |-> PayloadEnd(p + 1),
           status |-> 0]}
    ELSE {}

\* Mutant: running status is read with the first data byte lost.
ChannelEventsSkipping(p) ==
    LET status == IF At(p) >= 128 THEN At(p) ELSE running
        end    == p + 1 + Arity(status)
    IN  IF status >= 128 /\ Arity(status) > 0 /\ end <= trackEnd
        THEN {[kind |-> "midi", data |-> <<status>> \o Slice(p + 1, Arity(status)),
               end |-> end, status |-> status]}
        ELSE {}

ChannelEvents(p) ==
    LET status == IF At(p) >= 128 THEN At(p) ELSE running
        first  == IF At(p) >= 128 THEN p + 1 ELSE p
        end    == first + Arity(status)
    IN  IF status >= 128 /\ Arity(status) > 0 /\ end <= trackEnd
        THEN {[kind |-> "midi", data |-> <<status>> \o Slice(first, Arity(status)),
               end |-> end, status |-> status]}
        ELSE {}

EventsAt(p) ==
    CASE At(p) = 255         -> MetaEvents(p)
      [] At(p) \in {240, 247} -> SysExEvents(p)
      [] OTHER               -> ChannelEvents(p)

EventOk == HasVlq(pos) /\ VlqEnd(pos) < trackEnd /\ EventsAt(VlqEnd(pos)) # {}

ParseEvent ==
    /\ pc = "event" /\ pos < trackEnd /\ EventOk
    /\ \E e \in EventsAt(VlqEnd(pos)) :
        /\ parsed' = [parsed EXCEPT !.tracks[Len(parsed.tracks)] =
                        Append(@, [delta |-> ReadVlq(pos), kind |-> e.kind, data |-> e.data])]
        /\ running' = IF e.status = 0 THEN running ELSE e.status
        /\ pos' = IF e.kind = "eot" THEN trackEnd ELSE e.end
    /\ UNCHANGED <<file, data, damaged, pc, trackEnd, left>>

EventError == pc = "event" /\ pos < trackEnd /\ ~EventOk /\ Fail

EndTrack ==
    /\ pc = "event" /\ pos >= trackEnd
    /\ pos' = trackEnd
    /\ pc' = "track"
    /\ UNCHANGED <<file, data, damaged, trackEnd, running, left, parsed>>

-----------------------------------------------------------------------------
Next ==
    \/ Write \/ Damage
    \/ ParseHeader \/ HeaderError \/ Finish
    \/ ParseTrack \/ TrackError \/ ParseEvent \/ EventError \/ EndTrack

Spec == Init /\ [][Next]_vars

-----------------------------------------------------------------------------
(* Properties. *)

\* What every SMF-compliant reader makes of the file.
Expected == [division |-> file.division,
             tracks   |-> [i \in 1 .. Len(file.tracks) |-> Completed(file.tracks[i])]]

\* write()'s doc: the bytes can be handed to any SMF-compliant parser, including
\* parse(), without loss of information; running status changes nothing.
RoundTrip ==
    damaged = -1 => pc # "error" /\ (pc = "done" => parsed = Expected)

\* The parser stays inside the data and every event inside its chunk, whatever the
\* lengths in the data say: no index ever panics.  One damaged byte spoils one track
\* at most, or the parse fails; a lost tail is always noticed.
DamageIsContained ==
    /\ pos <= Len(data) /\ trackEnd <= Len(data) /\ (pc = "event" => pos <= trackEnd)
    /\ pc = "done" /\ damaged # -1 =>
        /\ Len(data) > damaged
        /\ Len(parsed.tracks) = Len(file.tracks)
        /\ \A i, j \in DOMAIN file.tracks :
            i # j => parsed.tracks[i] = Expected.tracks[i] \/ parsed.tracks[j] = Expected.tracks[j]
=============================================================================
