---------------------------- MODULE PulsePlayback ---------------------------
(***************************************************************************)
(* A PulseAudio playback stream of oxisound-pulse: PulseOutputStream (the  *)
(* caller's handle), RingPlaybackSource (what the pulseaudio crate's       *)
(* reactor thread polls) and the state they share, PlaybackShared.         *)
(*                                                                         *)
(* Two threads.  The caller runs one method of the handle at a time (the   *)
(* handle is Send, and its ring producer is not Sync).  The reactor owns   *)
(* the consumer end of the ring and serves the server's REQUESTs; between  *)
(* polls it executes the commands the handle's round trips queue.  Every   *)
(* access to an atomic, to the waker's mutex or to the ring is a step of   *)
(* its own, except that steps only one thread could observe are merged.    *)
(*                                                                         *)
(* The ring is its two positions: byte number b (counting from 1) is       *)
(* queued iff popped < b <= pushed.                                        *)
(***************************************************************************)
EXTENDS Naturals

CONSTANTS
    Capacity,     \* ring capacity, ring_capacity_bytes()
    WriteSizes,   \* encoded sizes of the slices the caller writes
    MaxBytes,     \* bound: bytes accepted over the life of the stream
    MaxCredit,    \* bound: bytes the server may have requested at once
    MaxPending    \* bound: commands queued to the reactor (timed-out ones linger)

ASSUME PlaybackAssumption ==
    /\ Capacity \in Nat \ {0}
    /\ WriteSizes \subseteq Nat \ {0}
    /\ MaxBytes \in Nat
    /\ MaxCredit \in Nat
    /\ MaxPending \in Nat \ {0}

VARIABLES
    pushed, popped,           \* the ring's write and read positions
    waker,                    \* PlaybackShared.waker is Some
    underruns, bytes_sent, starved, disconnected, discard_bytes,
    pc,                       \* where the caller's thread is inside op
    op,                       \* the method it is executing
    hand,                     \* it holds a waker it took and has not fired
    snapshot,                 \* discard_buffered()'s occupied_len()
    timer,                    \* a timer thread will wake the round trip
    rpc,                      \* where the reactor's thread is
    rdrop,                    \* poll_read's local `discard`
    notified,                 \* the reactor owes a pass over its streams
    credit,                   \* bytes the server requested and has not got
    pending,                  \* round-trip commands queued to the reactor
    reply,                    \* the server answered the command awaited
    discardMark,              \* history: pushed at the last discard's snapshot
    discardDone               \* history: that discard_buffered() returned Ok

ringVars   == <<pushed, popped>>
sharedVars == <<waker, underruns, bytes_sent, starved, disconnected, discard_bytes>>
appVars    == <<pc, op, hand, snapshot, timer>>
reactorVars == <<rpc, rdrop, notified, credit, pending, reply>>
histVars   == <<discardMark, discardDone>>
vars == <<ringVars, sharedVars, appVars, reactorVars, histVars>>

Ops == {"none", "write", "flush", "drain", "discard", "pause", "resume", "drop"}

Occupied == pushed - popped
Vacant   == Capacity - Occupied
Least(a, b) == IF a < b THEN a ELSE b

\* PulseOutputStream::open: an empty ring; `starved` starts TRUE so the
\* pre-roll before the first write is no underrun.
Init ==
    /\ pushed = 0 /\ popped = 0
    /\ waker = FALSE /\ underruns = 0 /\ bytes_sent = 0
    /\ starved = TRUE /\ disconnected = FALSE /\ discard_bytes = 0
    /\ pc = "idle" /\ op = "none" /\ hand = FALSE /\ snapshot = 0
    /\ timer = FALSE
    /\ rpc = "idle" /\ rdrop = 0 /\ notified = FALSE /\ credit = 0
    /\ pending = 0 /\ reply = FALSE
    /\ discardMark = 0 /\ discardDone = FALSE

-----------------------------------------------------------------------------
(* The caller's thread. *)

\* The caller enters method o of the handle at its first step.
Begin(o, at) ==
    /\ pc = "idle" /\ op' = o /\ pc' = at
    /\ UNCHANGED <<ringVars, sharedVars, hand, snapshot, timer, reactorVars, histVars>>

\* What a method returns is told by the action that ends it.
Return   == pc' = "idle" /\ op' = "none"
Goto(at) == pc' = at /\ UNCHANGED <<op>>

CallWrite   == Begin("write", "write_check")
CallFlush   == Begin("flush", "flush_ring")
CallDrain   == Begin("drain", "flush_ring")
CallDiscard == Begin("discard", "discard_snapshot")
CallPause   == Begin("pause", "send")
CallResume  == Begin("resume", "send")

\* write: the flag is read once, before the space check and the push.
WriteCheck ==
    /\ pc = "write_check"
    /\ IF disconnected THEN Return ELSE Goto("write_push")
    /\ UNCHANGED <<ringVars, sharedVars, hand, snapshot, timer, reactorVars, histVars>>

\* write: only this thread fills the ring, so the space vacant_len() reported
\* is still free at push_slice, and the samples are queued whole.
WritePush(n) ==
    /\ pc = "write_push"
    /\ n <= Vacant /\ pushed + n <= MaxBytes
    /\ pushed' = pushed + n
    /\ Goto("take_waker")
    /\ UNCHANGED <<popped, sharedVars, hand, snapshot, timer, reactorVars, histVars>>

\* write: what does not fit is refused whole (past MaxBytes too, the bound).
WriteOverrun(n) ==
    /\ pc = "write_push"
    /\ n > Vacant \/ pushed + n > MaxBytes
    /\ Return
    /\ UNCHANGED <<ringVars, sharedVars, hand, snapshot, timer, reactorVars, histVars>>

\* Where a method continues once wake_reactor() returns.
AfterWake ==
    IF op \in {"write", "resume"}
    THEN Return
    ELSE Goto(IF op = "discard" THEN "send" ELSE "flush_ring")

\* wake_reactor: the waker is taken out of its mutex before it is fired.
TakeWaker ==
    /\ pc = "take_waker"
    /\ waker' = FALSE
    /\ hand' = waker
    /\ IF waker THEN Goto("fire_waker") ELSE AfterWake
    /\ UNCHANGED <<ringVars, underruns, bytes_sent, starved, disconnected,
                   discard_bytes, snapshot, timer, reactorVars, histVars>>

FireWaker ==
    /\ pc = "fire_waker"
    /\ notified' = TRUE
    /\ hand' = FALSE
    /\ AfterWake
    /\ UNCHANGED <<ringVars, sharedVars, snapshot, timer, rpc, rdrop, credit,
                   pending, reply, histVars>>

\* flush: the ring is looked at first, the connection second, the clock last.
FlushRing ==
    /\ pc = "flush_ring"
    /\ IF Occupied > 0 THEN Goto("flush_state")
       ELSE IF op = "drain" THEN Goto("send") ELSE Return
    /\ UNCHANGED <<ringVars, sharedVars, hand, snapshot, timer, reactorVars, histVars>>

FlushState ==
    /\ pc = "flush_state"
    /\ IF disconnected THEN Return ELSE Goto("take_waker")
    /\ UNCHANGED <<ringVars, sharedVars, hand, snapshot, timer, reactorVars, histVars>>

\* Mutant: flush() looks at the clock only when nothing is queued.
FlushTimeoutWhenEmpty ==
    /\ pc = "flush_state" /\ ~disconnected /\ Occupied = 0
    /\ Return
    /\ UNCHANGED <<ringVars, sharedVars, hand, snapshot, timer, reactorVars, histVars>>

FlushTimeout ==
    /\ pc = "flush_state" /\ ~disconnected
    /\ Return
    /\ UNCHANGED <<ringVars, sharedVars, hand, snapshot, timer, reactorVars, histVars>>

\* discard_buffered: occupied_len() is read, and stored in a later step.
DiscardSnapshot ==
    /\ pc = "discard_snapshot"
    /\ snapshot' = Occupied
    /\ discardMark' = pushed /\ discardDone' = FALSE
    /\ Goto("discard_store")
    /\ UNCHANGED <<ringVars, sharedVars, hand, timer, reactorVars>>

DiscardStore ==
    /\ pc = "discard_store"
    /\ discard_bytes' = snapshot
    /\ snapshot' = 0
    /\ Goto("take_waker")
    /\ UNCHANGED <<ringVars, waker, underruns, bytes_sent, starved, disconnected,
                   hand, timer, reactorVars, histVars>>

\* The round trip of discard_buffered, pause, resume and drain: a command the
\* reactor will write to the server.  To a reactor that is gone it is lost.
\* The first poll spawns the deadline's timer thread, or fails to: the task
\* then parks with nobody to wake it but an answer.
Send ==
    /\ pc = "send"
    /\ pending < MaxPending
    /\ pending' = IF disconnected THEN pending ELSE pending + 1
    /\ reply' = FALSE
    /\ timer' \in BOOLEAN
    /\ Goto("await")
    /\ UNCHANGED <<ringVars, sharedVars, hand, snapshot, rpc, rdrop, notified,
                   credit, histVars>>

\* The round trip is over; resume() wakes the reactor after an error reply too,
\* only a timeout makes it return at once.
EndCommand(outcome) ==
    /\ pc = "await"
    /\ IF op = "resume" /\ outcome # "timeout" THEN Goto("take_waker") ELSE Return
    /\ reply' = FALSE /\ timer' = FALSE
    /\ discardDone' = ((op = "discard" /\ outcome = "ok") \/ discardDone)
    /\ UNCHANGED <<ringVars, sharedVars, hand, snapshot, rpc, rdrop, notified, credit,
                   pending, discardMark>>

\* Pending: neither the reply has come nor the reactor dropped its channel.
Unanswered == pc = "await" /\ ~reply /\ ~disconnected

\* block_on_timeout polls the reply first and the clock second; a reactor that
\* is gone drops the reply channel.  Without its timer thread the task sees the
\* clock only when a thread an earlier call on its thread left behind wakes it.
AwaitReply   == reply /\ EndCommand("ok")
AwaitError   == ~reply /\ disconnected /\ EndCommand("disconnected")
AwaitTimeout == Unanswered /\ EndCommand("timeout")

\* Woken like that before the deadline, poll() tries to spawn the timer again.
AwaitRearm ==
    /\ Unanswered /\ ~timer
    /\ timer' = TRUE
    /\ UNCHANGED <<ringVars, sharedVars, pc, op, hand, snapshot, reactorVars, histVars>>

\* The handle is dropped.  Its PlaybackStream queues the delete command behind
\* whatever is pending, and no method runs again.
DropHandle ==
    /\ pc = "idle"
    /\ pc' = "dropped" /\ op' = "drop"
    /\ UNCHANGED <<ringVars, sharedVars, hand, snapshot, timer, reactorVars, histVars>>

-----------------------------------------------------------------------------
(* The reactor's thread. *)

\* REQUEST: the server asks for n more bytes, at any time or never (it does not
\* while the stream is corked or after a drain).  (pulseaudio crate)
ServerRequest(n) ==
    /\ ~disconnected /\ credit + n <= MaxCredit
    /\ rpc = "idle"
    /\ credit' = credit + n
    /\ notified' = TRUE
    /\ UNCHANGED <<ringVars, sharedVars, appVars, rpc, rdrop, pending, reply, histVars>>

\* A woken reactor polls every source the server owes a read; with no credit
\* the pass does nothing.  (pulseaudio crate)
StartPass ==
    /\ rpc = "idle" /\ notified /\ ~disconnected
    /\ notified' = FALSE
    /\ rpc' = IF credit > 0 THEN "swap" ELSE "idle"
    /\ UNCHANGED <<ringVars, sharedVars, appVars, rdrop, credit, pending, reply, histVars>>

\* Between polls the reactor writes the next command; the server may answer it.
\* Commands run in order, so the last one queued is the one a caller awaits.
RunCommand ==
    /\ rpc = "idle" /\ ~disconnected /\ pending > 0
    /\ pending' = pending - 1
    /\ reply' \in BOOLEAN /\ (reply' => pc = "await" /\ pending = 1)
    /\ UNCHANGED <<ringVars, sharedVars, appVars, rpc, rdrop, notified, credit, histVars>>

\* RingPlaybackSource::drop: the stream is deleted, or the connection is lost.
\* It flags the handle and takes the waker; firing it wakes nobody any more.
SourceDropped ==
    /\ rpc' = "gone"
    /\ disconnected' = TRUE /\ waker' = FALSE
    /\ pending' = 0 /\ notified' = FALSE
    /\ UNCHANGED <<ringVars, underruns, bytes_sent, starved, discard_bytes, appVars,
                   rdrop, credit, reply, histVars>>

RunDelete      == rpc = "idle" /\ pc = "dropped" /\ pending = 0 /\ SourceDropped
ConnectionLost == rpc = "idle" /\ SourceDropped

\* Mutant: poll_read() serves without looking at discard_bytes.
PollSwapForgotten ==
    /\ rpc = "swap"
    /\ rpc' = "serve"
    /\ UNCHANGED <<ringVars, sharedVars, appVars, rdrop, notified, credit, pending, reply, histVars>>

\* poll_read: take the pending discard ...
PollSwap ==
    /\ rpc = "swap"
    /\ rdrop' = discard_bytes
    /\ discard_bytes' = 0
    /\ rpc' = IF discard_bytes > 0 THEN "skip" ELSE "serve"
    /\ UNCHANGED <<ringVars, waker, underruns, bytes_sent, starved, disconnected,
                   appVars, notified, credit, pending, reply, histVars>>

\* ... drop that many queued bytes ...
PollSkip ==
    /\ rpc = "skip"
    /\ popped' = popped + Least(rdrop, Occupied)
    /\ rdrop' = 0
    /\ rpc' = "serve"
    /\ UNCHANGED <<pushed, sharedVars, appVars, notified, credit, pending, reply, histVars>>

\* serve(): pop what the server asked for, as far as the ring has it.
Serve ==
    LET n == Least(credit, Occupied) IN
    /\ n > 0
    /\ popped' = popped + n
    /\ bytes_sent' = bytes_sent + n
    /\ starved' = FALSE
    /\ credit' = credit - n

\* Poll::Ready sends the bytes; the reactor polls again while it owes some.
NextPoll(owed) == rpc' = IF owed > 0 THEN "swap" ELSE "idle"

\* ... serve, or find the ring empty and park ...
PollServe ==
    /\ rpc = "serve"
    /\ Serve /\ NextPoll(credit')
    /\ UNCHANGED <<pushed, waker, underruns, disconnected, discard_bytes, appVars,
                   rdrop, notified, pending, reply, histVars>>

PollEmpty ==
    /\ rpc = "serve" /\ Occupied = 0
    /\ rpc' = "park"
    /\ UNCHANGED <<ringVars, sharedVars, appVars, rdrop, notified, credit, pending, reply, histVars>>

\* Mutant: poll_read() parks without looking at the ring again.
PollParkAtOnce ==
    /\ rpc = "park"
    /\ waker' = TRUE
    /\ rpc' = "idle"
    /\ UNCHANGED <<ringVars, underruns, bytes_sent, starved, disconnected, discard_bytes,
                   appVars, rdrop, notified, credit, pending, reply, histVars>>

PollPark ==
    /\ rpc = "park"
    /\ waker' = TRUE
    /\ rpc' = "recheck"
    /\ UNCHANGED <<ringVars, underruns, bytes_sent, starved, disconnected, discard_bytes,
                   appVars, rdrop, notified, credit, pending, reply, histVars>>

\* Mutant: the bytes popped by the second look are not handed to the reactor.
PollRecheckLost ==
    /\ rpc = "recheck" /\ Occupied > 0
    /\ popped' = popped + Least(credit, Occupied)
    /\ rpc' = "unpark"
    /\ UNCHANGED <<pushed, sharedVars, appVars, rdrop, notified, credit, pending,
                   reply, histVars>>

\* ... look once more, unparking if a writer slipped in ...
PollRecheck ==
    /\ rpc = "recheck"
    /\ Serve
    /\ rpc' = "unpark"
    /\ UNCHANGED <<pushed, waker, underruns, disconnected, discard_bytes, appVars,
                   rdrop, notified, pending, reply, histVars>>

PollUnpark ==
    /\ rpc = "unpark"
    /\ waker' = FALSE
    /\ NextPoll(credit)
    /\ UNCHANGED <<ringVars, underruns, bytes_sent, starved, disconnected, discard_bytes,
                   appVars, rdrop, notified, credit, pending, reply, histVars>>

\* ... and otherwise stay parked, counting an underrun on the rising edge.
PollPending ==
    /\ rpc = "recheck" /\ Occupied = 0
    /\ starved' = TRUE
    /\ underruns' = IF starved THEN underruns ELSE underruns + 1
    /\ rpc' = "idle"
    /\ UNCHANGED <<ringVars, waker, bytes_sent, disconnected, discard_bytes, appVars,
                   rdrop, notified, credit, pending, reply, histVars>>

-----------------------------------------------------------------------------
Write == \E n \in WriteSizes : WritePush(n) \/ WriteOverrun(n)

\* A step of a method already under way.
Continue ==
    \/ WriteCheck \/ Write \/ TakeWaker \/ FireWaker \/ FlushRing \/ FlushState
    \/ DiscardSnapshot \/ DiscardStore \/ Send
    \/ AwaitReply \/ AwaitError

Caller == CallWrite \/ CallFlush \/ CallDrain \/ CallDiscard \/ CallPause \/ CallResume
          \/ DropHandle \/ Continue \/ FlushTimeout \/ AwaitTimeout \/ AwaitRearm

Poll == PollSwap \/ PollSkip \/ PollServe \/ PollEmpty \/ PollPark
        \/ PollRecheck \/ PollUnpark \/ PollPending

Reactor == StartPass \/ RunCommand \/ RunDelete \/ Poll

Server == (\E n \in 1 .. MaxCredit : ServerRequest(n)) \/ ConnectionLost

Next == Caller \/ Reactor \/ Server

\* The scheduler runs both threads.  The reactor's loop drains its command
\* channel on every turn, so polls do not put a command off for ever; clocks
\* advance, so a flush that keeps looking at its own ends up seeing it elapsed.
\* A timer thread that was spawned wakes its task; nothing promises that one can
\* be spawned, or that another thread's wake comes.  Nothing is assumed of the
\* callers, of the server's requests or replies or of the connection.
Fairness ==
    /\ WF_vars(Continue) /\ SF_vars(FlushTimeout) /\ WF_vars(timer /\ AwaitTimeout)
    /\ WF_vars(StartPass) /\ WF_vars(Poll) /\ SF_vars(RunCommand \/ RunDelete)

Safety == Init /\ [][Next]_vars
Spec == Safety /\ Fairness

-----------------------------------------------------------------------------
(* Properties. *)

PcSet == {"idle", "dropped", "write_check", "write_push", "take_waker", "fire_waker",
          "flush_ring", "flush_state", "discard_snapshot", "discard_store", "send", "await"}
RpcSet == {"idle", "gone", "swap", "skip", "serve", "park", "recheck", "unpark"}

NumbersOK ==
    /\ pushed \in Nat /\ popped \in Nat /\ popped <= pushed /\ pushed <= popped + Capacity
    /\ underruns \in Nat /\ bytes_sent \in Nat /\ discard_bytes \in Nat
    /\ snapshot \in Nat /\ rdrop \in Nat /\ credit \in Nat /\ pending \in Nat
    /\ discardMark \in Nat
    /\ pc \in PcSet /\ op \in Ops /\ rpc \in RpcSet

FlagsOK ==
    /\ waker \in BOOLEAN /\ starved \in BOOLEAN /\ disconnected \in BOOLEAN
    /\ hand \in BOOLEAN /\ notified \in BOOLEAN /\ reply \in BOOLEAN
    /\ discardDone \in BOOLEAN /\ timer \in BOOLEAN

\* Every variable has its type, and the ring never holds more than Capacity.
TypeOK == NumbersOK /\ FlagsOK

\* The reactor never sleeps on data: when it is parked owing the server bytes
\* that are queued, the caller is on its way to wake it -- it holds the waker
\* poll_read stored, or is about to take it.  (poll_read's re-check against
\* write's push-then-wake.)
NoLostWakeup ==
    rpc = "idle" /\ ~notified /\ credit > 0 /\ Occupied > 0
        => hand \/ (waker /\ pc = "take_waker")

\* Once discard_buffered() has returned Ok, no byte queued before the call
\* reaches the server: the reactor skips them before it serves again, whatever
\* poll was under way when the count was stored.
NothingPlayedAfterDiscard ==
    [][discardDone /\ bytes_sent' > bytes_sent => popped >= discardMark]_vars

\* Every method returns, flush() and the round trips at their timeout even when
\* the server stops asking for data or never answers: the one way to block for
\* ever is a round trip no timer thread could be spawned for, to a server that
\* is connected and never answers it.
CallReturns ==
    \/ []<>(pc \in {"idle", "dropped"})
    \/ <>[](Unanswered /\ ~timer)

\* The stream implements the byte pipe it promises, its liveness included:
\* queued bytes the server asked for are delivered.
Pipe == INSTANCE PlaybackPipe WITH
    accepted <- pushed, delivered <- bytes_sent, dropped <- popped - bytes_sent,
    demand <- credit, discarding <- (discard_bytes > 0 \/ rdrop > 0),
    open <- ~disconnected
PipeSpec == Pipe!Spec

\* PlaybackShared::discard_bytes promises that audio written after
\* discard_buffered() cannot be swallowed by a discard that fires later: a skip
\* never reaches past what was queued at the latest snapshot.
DiscardStopsAtSnapshot == [][rpc = "skip" => popped' <= discardMark]_vars
=============================================================================
