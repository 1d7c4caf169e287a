------------------------------- MODULE JackMidi ------------------------------
(***************************************************************************)
(* MIDI through JACK: a JackMidiOutput whose port is connected to the port *)
(* of a JackMidiInput.  send_raw() cuts a message into entries of at most  *)
(* EntryMax bytes and queues them in a ring; the output's process callback *)
(* writes every entry to its port as an event; the input's queues each     *)
(* event in another ring; recv_with_sysex() empties that one and puts the  *)
(* SysEx messages together again with a SysExReassembler.  Other clients   *)
(* may be connected to the same input port, and send what they like.       *)
(*                                                                         *)
(* A byte is its class: "F0", "F7", a realtime byte, another status byte,  *)
(* or a data byte, of which a few differ.  Time stamps are left out.       *)
(***************************************************************************)
EXTENDS Integers, SequencesExt

CONSTANTS
    EntryMax,    \* MIDI_ENTRY_MAX
    RingSize,    \* entries a ring holds
    Messages,    \* what the application sends: whole MIDI messages
    Foreign,     \* what other clients send to the input port: messages, and pieces of SysEx ones
    MaxSends,    \* how many calls of send_raw are explored
    MaxForeign   \* how many foreign events

VARIABLES
    todo,       \* the bytes of the send_raw() under way not pushed yet
    outRing, wire, inRing,   \* the output's ring, what it wrote to its port, the input's ring
    buffer,     \* SysExReassembler.buffer; in_sysex says that it is not empty
    regular,    \* history: the regular entries recv_with_sysex() returned, but for other clients'
    complete,   \* history: the SysEx messages it returned, likewise
    sending,    \* history: the message of the send_raw() under way
    accepted,   \* history: the messages send_raw() returned Ok for
    lost,       \* history: a port was too full for an event, a ring for an entry, or try_recv() took one
    mixed,      \* history: another client's event got into a message, or began one it did not end
    sends, foreigners   \* counters behind the two bounds

senderVars   == <<todo, sending, accepted, sends>>
receiverVars == <<buffer, regular, complete>>
othersVars   == <<mixed, foreigners>>
vars == <<senderVars, outRing, wire, inRing, receiverVars, lost, othersVars>>

Init ==
    /\ todo = <<>> /\ outRing = <<>> /\ wire = <<>> /\ inRing = <<>>
    /\ buffer = <<>> /\ regular = <<>> /\ complete = <<>>
    /\ sending = <<>> /\ accepted = <<>> /\ lost = FALSE /\ mixed = FALSE
    /\ sends = 0 /\ foreigners = 0

\* The bytes of one entry, the first of them, and those that are left.
Chunk(bytes) == SubSeq(bytes, 1, IF Len(bytes) < EntryMax THEN Len(bytes) ELSE EntryMax)
Rest(bytes)  == SubSeq(bytes, Len(Chunk(bytes)) + 1, Len(bytes))

IsStatus(byte)   == byte \in {"F0", "F7", "note", "clock"}
IsRealtime(byte) == byte = "clock"

\* A whole SysEx message, a whole message of another kind, which fits in one entry,
\* and a realtime message.
IsSysEx(m) ==
    /\ m \in Seq(STRING) /\ Len(m) > 1
    /\ m[1] = "F0" /\ m[Len(m)] = "F7"
    /\ \A i \in 2 .. Len(m) - 1 : ~IsStatus(m[i])
IsNote(m) ==
    /\ m \in Seq(STRING) /\ Len(m) \in 1 .. EntryMax
    /\ m[1] = "note"
    /\ \A i \in 2 .. Len(m) : ~IsStatus(m[i])
IsClock(m) == m \in Seq(STRING) /\ Len(m) = 1 /\ IsRealtime(m[1])

\* An event of another client's: a realtime message, or one of another kind, whole or,
\* where it is a SysEx message, a piece of it.
IsEvent(m) ==
    /\ m \in Seq(STRING) /\ m # <<>>
    /\ \/ IsClock(m)
       \/ \A i \in 1 .. Len(m) : /\ ~IsRealtime(m[i])
                                 /\ IsStatus(m[i]) => i = 1 \/ (i = Len(m) /\ m[i] = "F7")

CableAssumption ==
    /\ EntryMax \in Nat \ {0} /\ RingSize \in Nat
    /\ \A m \in Messages : IsSysEx(m) \/ IsNote(m)
    /\ \A m \in Foreign : IsEvent(m)

\* What arrives of other clients' events.
Heard == {Chunk(m) : m \in Foreign}

-----------------------------------------------------------------------------
(* The sender. *)

SendRaw ==
    /\ todo = <<>> /\ sends < MaxSends
    /\ \E m \in Messages : todo' = m /\ sending' = m
    /\ sends' = sends + 1
    /\ UNCHANGED <<accepted, outRing, wire, inRing, receiverVars, lost, othersVars>>

\* One entry at a time, the callback running beside it.
Push ==
    /\ todo # <<>> /\ Len(outRing) < RingSize
    /\ outRing' = Append(outRing, Chunk(todo))
    /\ todo' = Rest(todo)
    /\ IF Rest(todo) = <<>>
       THEN accepted' = Append(accepted, sending) /\ sending' = <<>>
       ELSE UNCHANGED <<accepted, sending>>
    /\ UNCHANGED <<sends, wire, inRing, receiverVars, lost, othersVars>>

\* Mutant: an entry that finds the ring full is skipped.
PushFullSkips ==
    /\ todo # <<>> /\ Len(outRing) = RingSize
    /\ todo' = Rest(todo)
    /\ IF Rest(todo) = <<>>
       THEN accepted' = Append(accepted, sending) /\ sending' = <<>>
       ELSE UNCHANGED <<accepted, sending>>
    /\ UNCHANGED <<sends, outRing, wire, inRing, receiverVars, lost, othersVars>>

\* Err(Underrun): the entries pushed before stay in the ring.
PushFull ==
    /\ todo # <<>> /\ Len(outRing) = RingSize
    /\ todo' = <<>> /\ sending' = <<>>
    /\ UNCHANGED <<accepted, sends, outRing, wire, inRing, receiverVars, lost, othersVars>>

\* The output's callback: an entry is an event.
WriteEvent ==
    /\ outRing # <<>>
    /\ wire' = Append(wire, Head(outRing))
    /\ outRing' = Tail(outRing)
    /\ UNCHANGED <<senderVars, inRing, receiverVars, lost, othersVars>>

\* The port's buffer is full: the error is ignored.
WriteDropped ==
    /\ outRing # <<>>
    /\ outRing' = Tail(outRing)
    /\ lost' = TRUE
    /\ UNCHANGED <<senderVars, wire, inRing, receiverVars, othersVars>>

-----------------------------------------------------------------------------
(* The receiver. *)

\* The input's callback cuts an event down to one entry and queues it, or
\* drops it when the ring is full.
Enqueue(event) ==
    IF Len(inRing) < RingSize
    THEN inRing' = Append(inRing, Chunk(event)) /\ UNCHANGED lost
    ELSE lost' = TRUE /\ UNCHANGED inRing

ReadEvent ==
    /\ wire # <<>>
    /\ Enqueue(Head(wire))
    /\ wire' = Tail(wire)
    /\ UNCHANGED <<senderVars, outRing, receiverVars, othersVars>>

\* A receiver is a record of the reassembler's buffer and of what was returned.
Receiver == [buffer |-> buffer, regular |-> regular, complete |-> complete]

Completed(r) ==
    LET m == Append(r.buffer, "F7")
    IN  [r EXCEPT !.buffer = <<>>, !.complete = IF m \in Heard THEN @ ELSE Append(@, m)]

\* Mutant: an F0 inside a message is one more byte of it.
FeedByteNoRestart(r, byte) ==
    CASE r.buffer = <<>> -> IF byte = "F0" THEN [r EXCEPT !.buffer = <<byte>>] ELSE r
      [] r.buffer # <<>> /\ byte = "F7" -> Completed(r)
      [] r.buffer # <<>> /\ IsRealtime(byte) -> r
      [] OTHER -> [r EXCEPT !.buffer = Append(@, byte)]

\* SysExReassembler::feed, for one byte.  Only F0 starts a message, and starts it
\* again; F7 ends it, a realtime byte passes by, any other status byte cancels it.
FeedByte(r, byte) ==
    CASE byte = "F0" -> [r EXCEPT !.buffer = <<byte>>]
      [] byte # "F0" /\ (r.buffer = <<>> \/ IsRealtime(byte)) -> r
      [] r.buffer # <<>> /\ byte = "F7" -> Completed(r)
      [] r.buffer # <<>> /\ byte = "note" -> [r EXCEPT !.buffer = <<>>]
      [] OTHER -> [r EXCEPT !.buffer = Append(@, byte)]

Feed(r, bytes) == FoldLeft(FeedByte, r, bytes)

\* Mutant: only an entry that begins a message is fed to the reassembler.
TakeOnlyStart(r, entry) ==
    IF Head(entry) = "F0" THEN Feed(r, entry)
    ELSE IF entry \in Heard THEN r
    ELSE [r EXCEPT !.regular = Append(@, entry)]

\* recv_with_sysex, one entry of its loop.
Take(r, entry) ==
    IF Head(entry) = "F0" \/ r.buffer # <<>> THEN Feed(r, entry)
    ELSE IF entry \in Heard THEN r
    ELSE [r EXCEPT !.regular = Append(@, entry)]

\* An event that finds the reassembler within a message, or leaves it within one, once all
\* that is queued before it has been taken; a realtime message disturbs none.
Disturbs(event) ==
    LET r == FoldLeft(Take, Receiver, inRing)
    IN  ~IsClock(event) /\ (r.buffer # <<>> \/ Take(r, Chunk(event)).buffer # <<>>)

\* The input's callback takes an event of any client's.
ReadForeign ==
    /\ foreigners < MaxForeign
    /\ \E m \in Foreign :
          /\ Enqueue(m)
          /\ mixed' = (mixed \/ Disturbs(m))
    /\ foreigners' = foreigners + 1
    /\ UNCHANGED <<senderVars, outRing, wire, receiverVars>>

Receive ==
    /\ inRing # <<>>
    /\ LET r == Take(Receiver, Head(inRing))
       IN  buffer' = r.buffer /\ regular' = r.regular /\ complete' = r.complete
    /\ inRing' = Tail(inRing)
    /\ UNCHANGED <<senderVars, outRing, wire, lost, othersVars>>

\* try_recv() hands an entry out as it is; recv_with_sysex() will not see it.
TryRecv ==
    /\ inRing # <<>>
    /\ inRing' = Tail(inRing)
    /\ lost' = TRUE
    /\ UNCHANGED <<senderVars, outRing, wire, receiverVars, othersVars>>

-----------------------------------------------------------------------------
Next ==
    \/ SendRaw \/ Push \/ PushFull \/ WriteEvent \/ WriteDropped
    \/ ReadEvent \/ ReadForeign \/ Receive \/ TryRecv

Spec == Init /\ [][Next]_vars

-----------------------------------------------------------------------------
(* Properties. *)

\* s is what is left of the accepted messages after some are removed.
AreAccepted(s) ==
    \E f \in [DOMAIN s -> DOMAIN accepted] :
        \A i \in DOMAIN s : s[i] = accepted[f[i]] /\ \A j \in DOMAIN s : i < j => f[i] < f[j]

\* As long as nothing was dropped on the way and no other client's event got into a SysEx
\* message, every SysEx message the receiver gets, and every regular entry, is another
\* client's event or a message send_raw() returned Ok for, whole and in order: a message
\* that failed half way is never finished by the bytes of a later one, and no piece of
\* one is taken for a message, wherever realtime bytes fell and whatever came in between
\* two messages.
NothingInvented == ~lost /\ ~mixed => AreAccepted(complete) /\ AreAccepted(regular)

\* The bytes of some entries, one after the other, but for realtime bytes.
Joined(entries) ==
    LET Join(bytes, entry) == IF IsRealtime(Head(entry)) THEN bytes ELSE bytes \o entry
    IN  FoldLeft(Join, <<>>, entries)

\* Whatever was dropped before, and whatever other clients sent, a SysEx message that
\* arrives whole is returned, clock bytes between its entries or not: the next F0 puts
\* the reassembler in step again.
WholeSysExIsReturned ==
    \A j \in 1 .. Len(inRing) : \A i \in 1 .. j :
        LET m   == Joined(SubSeq(inRing, i, j))
            got == FoldLeft(Take, [Receiver EXCEPT !.complete = <<>>], SubSeq(inRing, 1, j)).complete
        IN  IsSysEx(m) /\ m \notin Heard => got # <<>> /\ Last(got) = m
=============================================================================
