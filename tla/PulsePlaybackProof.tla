-------------------------- MODULE PulsePlaybackProof ------------------------
(***************************************************************************)
(* Proofs about PulsePlayback, for every ring capacity, every set of write *)
(* sizes and every bound.                                                  *)
(***************************************************************************)
EXTENDS PulsePlayback, TLAPS

\* A step of the caller keeps the numbers and program counters in their types.
LEMMA CallerNumbers ==
    ASSUME NumbersOK, Caller
    PROVE  NumbersOK'
<1> USE PlaybackAssumption DEF PlaybackAssumption, NumbersOK, PcSet, Ops, Goto, Return,
        ringVars, sharedVars, appVars, reactorVars, histVars
<1>1. CASE CallWrite \/ CallFlush \/ CallDrain \/ CallDiscard \/ CallPause \/ CallResume
  BY <1>1 DEF CallWrite, CallFlush, CallDrain, CallDiscard, CallPause, CallResume, Begin
<1>2. CASE DropHandle \/ WriteCheck  BY <1>2 DEF DropHandle, WriteCheck
<1>3. CASE Write
  <2>1. PICK n \in WriteSizes : WritePush(n) \/ WriteOverrun(n)  BY <1>3 DEF Write
  <2>2. n \in Nat  OBVIOUS
  <2>3. CASE WritePush(n)  BY <2>2, <2>3 DEF WritePush, Vacant, Occupied
  <2>4. CASE WriteOverrun(n)  BY <2>4 DEF WriteOverrun
  <2>5. QED  BY <2>1, <2>3, <2>4
<1>4. CASE TakeWaker \/ FireWaker  BY <1>4 DEF TakeWaker, FireWaker, AfterWake
<1>5. CASE FlushRing \/ FlushState \/ FlushTimeout
  BY <1>5 DEF FlushRing, FlushState, FlushTimeout
<1>6. CASE DiscardSnapshot  BY <1>6 DEF DiscardSnapshot, Occupied
<1>7. CASE DiscardStore  BY <1>7 DEF DiscardStore
<1>8. CASE Send  BY <1>8 DEF Send
<1>9. CASE AwaitReply \/ AwaitError \/ AwaitTimeout \/ AwaitRearm
  BY <1>9 DEF AwaitReply, AwaitError, AwaitTimeout, AwaitRearm, Unanswered, EndCommand
<1>10. QED
  BY <1>1, <1>2, <1>3, <1>4, <1>5, <1>6, <1>7, <1>8, <1>9 DEF Caller, Continue

\* A ring within its capacity stays within it when its read position advances.
LEMMA ReadingFreesSpace ==
    ASSUME NEW w \in Nat, NEW r \in Nat, NEW s \in Nat, NEW c \in Nat,
           w <= r + c, r <= s
    PROVE  w <= s + c
OBVIOUS

\* So does a step of the reactor or of the server.
LEMMA ReactorNumbers ==
    ASSUME NumbersOK, Reactor \/ Server
    PROVE  NumbersOK'
<1> USE DEF ringVars, sharedVars, appVars, reactorVars, histVars
<1>0. /\ Capacity \in Nat /\ pushed \in Nat /\ popped \in Nat
      /\ pushed <= popped + Capacity
  BY PlaybackAssumption DEF PlaybackAssumption, NumbersOK
<1>1. CASE StartPass
  <2>1. rpc' \in RpcSet  BY <1>1 DEF StartPass, RpcSet
  <2>2. QED  BY <1>1, <2>1 DEF StartPass, NumbersOK
<1>2. CASE RunCommand
  <2>1. pending' \in Nat  BY <1>2 DEF RunCommand, NumbersOK
  <2>2. QED  BY <1>2, <2>1 DEF RunCommand, NumbersOK
<1>3. CASE RunDelete \/ ConnectionLost
  BY <1>3 DEF RunDelete, ConnectionLost, SourceDropped, NumbersOK, RpcSet
<1>4. CASE PollSwap
  <2>1. rpc' \in RpcSet  BY <1>4 DEF PollSwap, RpcSet
  <2>2. QED  BY <1>4, <2>1 DEF PollSwap, NumbersOK
<1>5. CASE PollSkip
  <2>1. popped' \in Nat /\ popped' <= pushed /\ popped <= popped'
    <3>1. popped' = popped + Least(rdrop, Occupied)  BY <1>5 DEF PollSkip
    <3>2. QED  BY <3>1 DEF NumbersOK, Occupied, Least
  <2>2. rpc' \in RpcSet /\ rdrop' \in Nat  BY <1>5 DEF PollSkip, RpcSet
  <2>3. pushed <= popped' + Capacity
    BY <2>1, <1>0, ReadingFreesSpace
  <2>4. QED  BY <1>5, <2>1, <2>2, <2>3 DEF PollSkip, NumbersOK
<1>6. CASE PollServe \/ PollRecheck
  <2>1. Serve  BY <1>6 DEF PollServe, PollRecheck
  <2>2. /\ popped' \in Nat /\ popped' <= pushed /\ popped <= popped'
        /\ bytes_sent' \in Nat /\ credit' \in Nat
    <3> DEFINE n == Least(credit, Occupied)
    <3>1. /\ popped' = popped + n
          /\ bytes_sent' = bytes_sent + n /\ credit' = credit - n
      BY <2>1 DEF Serve
    <3>2. n \in Nat /\ n <= credit /\ n <= pushed - popped
      BY DEF NumbersOK, Occupied, Least
    <3> HIDE DEF n
    <3>3. QED  BY <3>1, <3>2 DEF NumbersOK
  <2>3. rpc' \in RpcSet  BY <1>6 DEF PollServe, PollRecheck, NextPoll, RpcSet
  <2>4. pushed <= popped' + Capacity
    BY <2>2, <1>0, ReadingFreesSpace
  <2>5. QED  BY <1>6, <2>2, <2>3, <2>4 DEF PollServe, PollRecheck, NumbersOK
<1>7. CASE PollEmpty \/ PollPark \/ PollUnpark
  <2>1. rpc' \in RpcSet
    BY <1>7 DEF PollEmpty, PollPark, PollUnpark, NextPoll, RpcSet
  <2>2. QED  BY <1>7, <2>1 DEF PollEmpty, PollPark, PollUnpark, NumbersOK
<1>8. CASE PollPending
  <2>1. rpc' \in RpcSet /\ underruns' \in Nat
    BY <1>8 DEF PollPending, RpcSet, NumbersOK
  <2>2. QED  BY <1>8, <2>1 DEF PollPending, NumbersOK
<1>9. CASE \E n \in 1 .. MaxCredit : ServerRequest(n)
  BY <1>9, PlaybackAssumption DEF PlaybackAssumption, ServerRequest, NumbersOK
<1>10. QED
  BY <1>1, <1>2, <1>3, <1>4, <1>5, <1>6, <1>7, <1>8, <1>9 DEF Reactor, Server, Poll

\* Every step keeps the flags Boolean.
LEMMA StepFlags ==
    ASSUME FlagsOK, Next
    PROVE  FlagsOK'
<1> USE DEF FlagsOK, ringVars, sharedVars, appVars, reactorVars, histVars
<1>1. CASE Caller
  BY <1>1, ZenonT(60) DEF Caller, Continue, CallWrite, CallFlush, CallDrain, CallDiscard, CallPause,
     CallResume, Begin, DropHandle, WriteCheck, Write, WritePush, WriteOverrun, TakeWaker,
     FireWaker, FlushRing, FlushState, FlushTimeout, DiscardSnapshot, DiscardStore, Send,
     AwaitReply, AwaitError, AwaitTimeout, AwaitRearm, EndCommand
<1>2. CASE Reactor
  BY <1>2, ZenonT(60) DEF Reactor, StartPass, RunCommand, RunDelete, SourceDropped, Poll, PollSwap,
     PollSkip, PollServe, PollEmpty, PollPark, PollRecheck, PollUnpark, PollPending, Serve
<1>3. CASE Server
  BY <1>3 DEF Server, ServerRequest, ConnectionLost, SourceDropped
<1>4. QED  BY <1>1, <1>2, <1>3 DEF Next

\* Every reachable state is well typed: in particular the ring's read position
\* never passes its write position, and the ring never holds more than Capacity.
THEOREM TypeCorrect == Safety => []TypeOK
<1>1. Init => TypeOK
  <2>1. Init => NumbersOK
    BY PlaybackAssumption DEF PlaybackAssumption, Init, NumbersOK, PcSet, RpcSet, Ops
  <2>2. Init => FlagsOK  BY DEF Init, FlagsOK
  <2>3. QED  BY <2>1, <2>2 DEF TypeOK
<1>2. TypeOK /\ [Next]_vars => TypeOK'
  <2> SUFFICES ASSUME TypeOK, [Next]_vars PROVE TypeOK'  OBVIOUS
  <2>1. CASE UNCHANGED vars
    BY <2>1 DEF vars, TypeOK, NumbersOK, FlagsOK, ringVars, sharedVars, appVars,
       reactorVars, histVars
  <2>2. CASE Next
    BY <2>2, CallerNumbers, ReactorNumbers, StepFlags DEF Next, TypeOK
  <2>3. QED  BY <2>1, <2>2
<1>3. QED  BY <1>1, <1>2, PTL DEF Safety

-----------------------------------------------------------------------------
(* No wake-up is lost. *)

\* What makes NoLostWakeup inductive: the waker is in one of three places.  A
\* parked reactor the server is waiting for has left it in the mutex, or the
\* caller is holding it; a reactor about to look again has stored it, unless
\* the caller took it since and holds it or has fired it.
WakerAccounted ==
    /\ hand => pc = "fire_waker"
    /\ rpc = "idle" /\ ~notified /\ credit > 0 => waker \/ hand
    /\ rpc = "recheck" => waker \/ hand \/ notified

WakeInv == WakerAccounted /\ NoLostWakeup

\* A step of the caller keeps the waker accounted for.
LEMMA CallerWakeInv ==
    ASSUME TypeOK, WakeInv, Caller
    PROVE  WakeInv'
<1> USE DEF WakeInv, WakerAccounted, NoLostWakeup, Occupied, Goto, Return,
        ringVars, sharedVars, appVars, reactorVars, histVars
<1>1. CASE CallWrite \/ CallFlush \/ CallDrain \/ CallDiscard \/ CallPause \/ CallResume
  BY <1>1 DEF CallWrite, CallFlush, CallDrain, CallDiscard, CallPause, CallResume, Begin
<1>2. CASE DropHandle \/ WriteCheck  BY <1>2 DEF DropHandle, WriteCheck
<1>3. CASE Write  BY <1>3 DEF Write, WritePush, WriteOverrun
<1>4. CASE TakeWaker  BY <1>4 DEF TakeWaker, AfterWake, TypeOK, FlagsOK
<1>5. CASE FireWaker  BY <1>5 DEF FireWaker, AfterWake
<1>6. CASE FlushRing \/ FlushState \/ FlushTimeout
  BY <1>6 DEF FlushRing, FlushState, FlushTimeout
<1>7. CASE DiscardSnapshot \/ DiscardStore  BY <1>7 DEF DiscardSnapshot, DiscardStore
<1>8. CASE Send  BY <1>8 DEF Send
<1>9. CASE AwaitReply \/ AwaitError \/ AwaitTimeout \/ AwaitRearm
  BY <1>9 DEF AwaitReply, AwaitError, AwaitTimeout, AwaitRearm, Unanswered, EndCommand
<1>10. QED
  BY <1>1, <1>2, <1>3, <1>4, <1>5, <1>6, <1>7, <1>8, <1>9 DEF Caller, Continue

\* A step of the reactor or of the server does too.
LEMMA ReactorWakeInv ==
    ASSUME TypeOK, WakeInv, Reactor \/ Server
    PROVE  WakeInv'
<1> USE DEF WakeInv, WakerAccounted, NoLostWakeup, Occupied,
        ringVars, sharedVars, appVars, reactorVars, histVars
<1>1. CASE StartPass \/ RunCommand  BY <1>1 DEF StartPass, RunCommand
<1>2. CASE RunDelete \/ ConnectionLost
  BY <1>2 DEF RunDelete, ConnectionLost, SourceDropped
<1>3. CASE PollSwap \/ PollSkip \/ PollEmpty
  BY <1>3 DEF PollSwap, PollSkip, PollEmpty
<1>4. CASE PollServe \/ PollUnpark  BY <1>4 DEF PollServe, PollUnpark, NextPoll
<1>5. CASE PollPark  BY <1>5 DEF PollPark
<1>6. CASE PollRecheck  BY <1>6 DEF PollRecheck
<1>7. CASE PollPending  BY <1>7 DEF PollPending
<1>8. CASE Server /\ ~ConnectionLost  BY <1>8 DEF Server, ServerRequest
<1>9. QED
  BY <1>1, <1>2, <1>3, <1>4, <1>5, <1>6, <1>7, <1>8 DEF Reactor, Server, Poll

\* The reactor is never parked on queued bytes the server asked for unless the
\* caller is on its way to wake it, whatever the interleaving of write(),
\* flush(), discard_buffered() and poll_read().
THEOREM NoWakeupIsLost == Safety => []NoLostWakeup
<1>1. Init => WakeInv  BY DEF Init, WakeInv, WakerAccounted, NoLostWakeup
<1>2. TypeOK /\ WakeInv /\ [Next]_vars => WakeInv'
  <2> SUFFICES ASSUME TypeOK, WakeInv, [Next]_vars PROVE WakeInv'  OBVIOUS
  <2>1. CASE UNCHANGED vars
    BY <2>1 DEF vars, WakeInv, WakerAccounted, NoLostWakeup, Occupied, ringVars,
       sharedVars, appVars, reactorVars
  <2>2. CASE Next  BY <2>2, CallerWakeInv, ReactorWakeInv DEF Next
  <2>3. QED  BY <2>1, <2>2
<1>3. WakeInv => NoLostWakeup  BY DEF WakeInv
<1>4. QED  BY <1>1, <1>2, <1>3, TypeCorrect, PTL DEF Safety
-----------------------------------------------------------------------------
(* Nothing queued before a discard is played after it. *)

\* Where discard_buffered() is once it has stored its count, and where the
\* reactor is once it has looked at the count.
Stored   == op = "discard" /\ pc \in {"take_waker", "fire_waker", "send", "await"}
PastSkip == {"serve", "park", "recheck", "unpark"}

\* The discard is the only method at the steps of its own; a reply is to the
\* round trip under way, and a discard that is over is no longer under way.
DiscardSteps ==
    /\ op = "discard" => Stored \/ pc \in {"discard_snapshot", "discard_store"}
    /\ pc = "discard_store" => ~discardDone
    /\ reply => pc = "await"
    /\ discardMark <= pushed

\* What was queued at the snapshot is gone, or in the count just taken, or in
\* the count stored, or in the count poll_read() has taken out to skip.
Counted ==
    /\ pc = "discard_store" => discardMark <= popped + snapshot
    /\ Stored => \/ discardMark <= popped + discard_bytes
                 \/ rpc = "skip" /\ discardMark <= popped + rdrop

\* The reply to the round trip comes between two polls, so from then on the
\* reactor looks at the count before it serves: the poll that was under way
\* when the count was stored is over.
Swept ==
    discardDone \/ (op = "discard" /\ reply) =>
        /\ rpc \in PastSkip => discardMark <= popped
        /\ rpc = "skip" => discardMark <= popped + rdrop
        /\ rpc \in {"idle", "gone", "swap"} => discardMark <= popped + discard_bytes

DiscardInv == DiscardSteps /\ Counted /\ Swept

\* The facts about the numbers the steps below need.
LEMMA Counters ==
    ASSUME TypeOK
    PROVE  /\ pushed \in Nat /\ popped \in Nat /\ popped <= pushed
           /\ discard_bytes \in Nat /\ snapshot \in Nat /\ rdrop \in Nat
           /\ discardMark \in Nat /\ credit \in Nat /\ bytes_sent \in Nat
BY DEF TypeOK, NumbersOK

\* A step of the caller keeps the queued bytes accounted for.
LEMMA CallerDiscardInv ==
    ASSUME TypeOK, DiscardInv, Caller
    PROVE  DiscardInv'
<1> USE DEF DiscardInv, DiscardSteps, Counted, Swept, Stored, PastSkip, Goto, Return,
        ringVars, sharedVars, appVars, reactorVars, histVars
<1>1. CASE CallWrite \/ CallFlush \/ CallDrain \/ CallDiscard \/ CallPause \/ CallResume
  BY <1>1 DEF CallWrite, CallFlush, CallDrain, CallDiscard, CallPause, CallResume, Begin
<1>2. CASE DropHandle \/ WriteCheck  BY <1>2 DEF DropHandle, WriteCheck
<1>3. CASE Write
  <2>1. PICK n \in WriteSizes : WritePush(n) \/ WriteOverrun(n)  BY <1>3 DEF Write
  <2>2. n \in Nat  BY PlaybackAssumption DEF PlaybackAssumption
  <2>3. CASE WritePush(n)  BY <2>2, <2>3, Counters DEF WritePush
  <2>4. CASE WriteOverrun(n)  BY <2>4 DEF WriteOverrun
  <2>5. QED  BY <2>1, <2>3, <2>4
<1>4. CASE TakeWaker \/ FireWaker  BY <1>4 DEF TakeWaker, FireWaker, AfterWake
<1>5. CASE FlushRing \/ FlushState \/ FlushTimeout
  BY <1>5 DEF FlushRing, FlushState, FlushTimeout
<1>6. CASE DiscardSnapshot  BY <1>6, Counters DEF DiscardSnapshot, Occupied
<1>7. CASE DiscardStore  BY <1>7 DEF DiscardStore
<1>8. CASE Send  BY <1>8 DEF Send
<1>9. CASE AwaitReply \/ AwaitError \/ AwaitTimeout
  BY <1>9 DEF AwaitReply, AwaitError, AwaitTimeout, EndCommand
<1>10. CASE AwaitRearm  BY <1>10 DEF AwaitRearm, Unanswered
<1>11. QED
  BY <1>1, <1>2, <1>3, <1>4, <1>5, <1>6, <1>7, <1>8, <1>9, <1>10 DEF Caller, Continue

\* A pass that skips d of the q queued bytes passes a mark among them that d
\* bytes reach.
LEMMA SkipPassesMark ==
    ASSUME NEW r \in Nat, NEW w \in Nat, NEW d \in Nat, NEW m \in Nat,
           m <= w, m <= r + d, r <= w
    PROVE  m <= r + Least(d, w - r)
BY DEF Least

\* Serving only takes the ring's read position forward.
LEMMA ServeMoves ==
    ASSUME TypeOK, Serve
    PROVE  /\ popped' \in Nat /\ popped <= popped' /\ popped' <= pushed
           /\ \E n \in 1 .. Capacity :
                /\ n <= credit /\ n <= pushed - popped
                /\ popped' = popped + n /\ bytes_sent' = bytes_sent + n /\ credit' = credit - n
<1> DEFINE n == Least(credit, Occupied)
<1>1. /\ n > 0 /\ popped' = popped + n /\ bytes_sent' = bytes_sent + n /\ credit' = credit - n
  BY DEF Serve
<1>2. n \in Nat /\ n <= credit /\ n <= pushed - popped  BY Counters DEF Occupied, Least
<1>3. pushed <= popped + Capacity /\ Capacity \in Nat
  BY PlaybackAssumption DEF PlaybackAssumption, TypeOK, NumbersOK
<1> HIDE DEF n
<1>4. n \in 1 .. Capacity  BY <1>1, <1>2, <1>3, Counters
<1>5. popped' \in Nat /\ popped <= popped' /\ popped' <= pushed  BY <1>1, <1>2, Counters
<1>6. QED  BY <1>1, <1>2, <1>4, <1>5

\* So does a step of the reactor or of the server.
LEMMA ReactorDiscardInv ==
    ASSUME TypeOK, DiscardInv, Reactor \/ Server
    PROVE  DiscardInv'
<1> USE DEF DiscardInv, DiscardSteps, Counted, Swept, Stored, PastSkip,
        ringVars, sharedVars, appVars, reactorVars, histVars
<1>1. CASE StartPass  BY <1>1 DEF StartPass
<1>2. CASE RunCommand  BY <1>2 DEF RunCommand
<1>3. CASE RunDelete \/ ConnectionLost
  BY <1>3 DEF RunDelete, ConnectionLost, SourceDropped
<1>4. CASE PollSwap
  <2>1. discard_bytes = 0 /\ discardMark <= popped + discard_bytes => discardMark <= popped
    BY Counters
  <2>2. CASE discard_bytes > 0  BY <1>4, <2>2 DEF PollSwap
  <2>3. CASE discard_bytes = 0  BY <1>4, <2>1, <2>3, Counters DEF PollSwap
  <2>4. QED  BY <2>2, <2>3, Counters
<1>5. CASE PollSkip
  <2>1. popped' \in Nat /\ popped <= popped'
    BY <1>5, Counters DEF PollSkip, Least, Occupied
  <2>2. discardMark <= popped + rdrop => discardMark <= popped'
    <3> SUFFICES ASSUME discardMark <= popped + rdrop PROVE discardMark <= popped'  OBVIOUS
    <3>1. popped' = popped + Least(rdrop, pushed - popped)  BY <1>5 DEF PollSkip, Occupied
    <3>2. QED  BY <3>1, SkipPassesMark, Counters
  <2>3. QED  BY <1>5, <2>1, <2>2, Counters DEF PollSkip
<1>6. CASE PollServe \/ PollRecheck
  <2>1. popped' \in Nat /\ popped <= popped'
    BY <1>6, ServeMoves DEF PollServe, PollRecheck
  <2>2. rpc \in PastSkip /\ rpc' \in {"swap", "idle", "unpark"}
    BY <1>6 DEF PollServe, PollRecheck, NextPoll
  <2>3. /\ UNCHANGED <<pushed, discard_bytes, pc, op, snapshot, discardMark, discardDone,
                       reply, rdrop>>
    BY <1>6 DEF PollServe, PollRecheck
  <2>4. QED  BY <2>1, <2>2, <2>3, Counters
<1>7. CASE PollEmpty \/ PollPark  BY <1>7 DEF PollEmpty, PollPark
<1>8. CASE PollUnpark \/ PollPending
  BY <1>8, Counters DEF PollUnpark, PollPending, NextPoll
<1>9. CASE \E n \in 1 .. MaxCredit : ServerRequest(n)  BY <1>9 DEF ServerRequest
<1>10. QED
  BY <1>1, <1>2, <1>3, <1>4, <1>5, <1>6, <1>7, <1>8, <1>9 DEF Reactor, Server, Poll

\* DiscardInv is an invariant.
THEOREM DiscardIsCounted == Safety => []DiscardInv
<1>1. Init => DiscardInv
  BY DEF Init, DiscardInv, DiscardSteps, Counted, Swept, Stored, PastSkip
<1>2. TypeOK /\ DiscardInv /\ [Next]_vars => DiscardInv'
  <2> SUFFICES ASSUME TypeOK, DiscardInv, [Next]_vars PROVE DiscardInv'  OBVIOUS
  <2>1. CASE UNCHANGED vars
    BY <2>1 DEF vars, DiscardInv, DiscardSteps, Counted, Swept, Stored, PastSkip, ringVars,
       sharedVars, appVars, reactorVars, histVars
  <2>2. CASE Next  BY <2>2, CallerDiscardInv, ReactorDiscardInv DEF Next
  <2>3. QED  BY <2>1, <2>2
<1>3. QED  BY <1>1, <1>2, TypeCorrect, PTL DEF Safety

\* Once discard_buffered() has returned Ok, the reactor hands the server no byte
\* that was queued before the call, whatever was under way when it was made.
THEOREM DiscardedIsNotPlayed == Safety => NothingPlayedAfterDiscard
<1>1. TypeOK /\ DiscardInv /\ [Next]_vars =>
        [discardDone /\ bytes_sent' > bytes_sent => popped >= discardMark]_vars
  <2> SUFFICES ASSUME TypeOK, DiscardInv, Next, discardDone, bytes_sent' > bytes_sent
               PROVE  popped >= discardMark
    OBVIOUS
  <2>1. CASE PollServe \/ PollRecheck
    <3>1. rpc \in PastSkip  BY <2>1 DEF PollServe, PollRecheck, PastSkip
    <3>2. QED  BY <3>1, Counters DEF DiscardInv, Swept
  <2>2. CASE bytes_sent' = bytes_sent  BY <2>2, Counters
  <2>3. PollServe \/ PollRecheck \/ bytes_sent' = bytes_sent
    <3> USE DEF sharedVars
    <3>1. CASE Caller
      BY <3>1 DEF Caller, Continue, CallWrite, CallFlush, CallDrain, CallDiscard, CallPause,
         CallResume, Begin, DropHandle, WriteCheck, Write, WritePush, WriteOverrun, TakeWaker,
         FireWaker, FlushRing, FlushState, FlushTimeout, DiscardSnapshot, DiscardStore, Send,
         AwaitReply, AwaitError, AwaitTimeout, AwaitRearm, EndCommand
    <3>2. CASE Reactor
      BY <3>2 DEF Reactor, StartPass, RunCommand, RunDelete, SourceDropped, Poll, PollSwap,
         PollSkip, PollEmpty, PollPark, PollUnpark, PollPending
    <3>3. CASE Server
      BY <3>3 DEF Server, ServerRequest, ConnectionLost, SourceDropped
    <3>4. QED  BY <3>1, <3>2, <3>3 DEF Next
  <2>4. QED  BY <2>1, <2>2, <2>3
<1>2. QED
  BY <1>1, TypeCorrect, DiscardIsCounted, PTL DEF Safety, NothingPlayedAfterDiscard

-----------------------------------------------------------------------------
(* The stream is a byte pipe. *)

\* The source exists as long as the connection does; a count is being skipped
\* exactly when the reactor is about to skip it.
SourceInv ==
    /\ disconnected <=> rpc = "gone"
    /\ rdrop > 0 <=> rpc = "skip"

THEOREM SourceIsAlive == Safety => []SourceInv
<1>1. Init => SourceInv  BY DEF Init, SourceInv
<1>2. TypeOK /\ SourceInv /\ [Next]_vars => SourceInv'
  <2> SUFFICES ASSUME TypeOK, SourceInv, [Next]_vars PROVE SourceInv'  OBVIOUS
  <2> USE DEF SourceInv, ringVars, sharedVars, appVars, reactorVars, histVars
  <2>1. CASE UNCHANGED vars  BY <2>1 DEF vars
  <2>2. CASE Caller
    BY <2>2 DEF Caller, Continue, CallWrite, CallFlush, CallDrain, CallDiscard, CallPause,
       CallResume, Begin, DropHandle, WriteCheck, Write, WritePush, WriteOverrun, TakeWaker,
       FireWaker, FlushRing, FlushState, FlushTimeout, DiscardSnapshot, DiscardStore, Send,
       AwaitReply, AwaitError, AwaitTimeout, AwaitRearm, EndCommand
  <2>3. CASE StartPass \/ RunCommand  BY <2>3 DEF StartPass, RunCommand
  <2>4. CASE RunDelete \/ ConnectionLost
    BY <2>4 DEF RunDelete, ConnectionLost, SourceDropped
  <2>5. CASE PollSwap  BY <2>5, Counters DEF PollSwap
  <2>6. CASE PollSkip  BY <2>6 DEF PollSkip
  <2>7. CASE Poll /\ ~PollSwap /\ ~PollSkip
    BY <2>7 DEF Poll, PollServe, PollEmpty, PollPark, PollRecheck, PollUnpark, PollPending,
       NextPoll
  <2>8. CASE \E n \in 1 .. MaxCredit : ServerRequest(n)  BY <2>8 DEF ServerRequest
  <2>9. QED
    BY <2>1, <2>2, <2>3, <2>4, <2>5, <2>6, <2>7, <2>8 DEF Next, Reactor, Server
<1>3. QED  BY <1>1, <1>2, TypeCorrect, PTL DEF Safety

\* What the pipe is not told: the program counters, the waker, the round trips.
Untold == UNCHANGED <<pushed, popped, bytes_sent, credit, discard_bytes, rdrop, disconnected>>

LEMMA UntoldIsStutter ==
    ASSUME Untold
    PROVE  UNCHANGED (Pipe!pipeVars)
BY DEF Untold, Pipe!pipeVars

\* write() accepts what it queues; the steps that only the count sees are
\* SetDiscarding, and the others change nothing the pipe shows.
LEMMA CallerIsPipe ==
    ASSUME TypeOK, Caller
    PROVE  Pipe!Next \/ UNCHANGED (Pipe!pipeVars)
<1> USE DEF ringVars, sharedVars, reactorVars
<1>1. CASE Write
  <2>1. PICK n \in WriteSizes : WritePush(n) \/ WriteOverrun(n)  BY <1>1 DEF Write
  <2>2. CASE WritePush(n)
    <3>1. n \in Nat \ {0}  BY PlaybackAssumption DEF PlaybackAssumption
    <3>2. n <= Capacity - (pushed - popped)  BY <2>2 DEF WritePush, Vacant, Occupied
    <3>3. Capacity \in Nat  BY PlaybackAssumption DEF PlaybackAssumption
    <3>4. n \in 1 .. Capacity /\ Pipe!Queued + n <= Capacity
      BY <3>1, <3>2, <3>3, Counters DEF Pipe!Queued
    <3>5. /\ pushed' = pushed + n
          /\ UNCHANGED <<popped, bytes_sent, credit, discard_bytes, rdrop, disconnected>>
      BY <2>2 DEF WritePush
    <3>6. Pipe!Accept  BY <3>4, <3>5 DEF Pipe!Accept
    <3>7. QED  BY <3>6 DEF Pipe!Next
  <2>3. CASE WriteOverrun(n)  BY <2>3, UntoldIsStutter DEF WriteOverrun, Untold
  <2>4. QED  BY <2>1, <2>2, <2>3
<1>2. CASE DiscardStore
  <2>1. Pipe!SetDiscarding  BY <1>2 DEF DiscardStore, Pipe!SetDiscarding
  <2>2. QED  BY <2>1 DEF Pipe!Next
<1>3. CASE Caller /\ ~Write /\ ~DiscardStore
  <2>1. Untold
    BY <1>3 DEF Untold, Caller, Continue, CallWrite, CallFlush, CallDrain, CallDiscard,
       CallPause, CallResume, Begin, DropHandle, WriteCheck, TakeWaker, FireWaker, FlushRing,
       FlushState, FlushTimeout, DiscardSnapshot, Send, AwaitReply, AwaitError, AwaitTimeout,
       AwaitRearm, EndCommand
  <2>2. QED  BY <2>1, UntoldIsStutter
<1>4. QED  BY <1>1, <1>2, <1>3

\* poll_read() delivers what it serves and drops what it skips, and only while
\* the connection stands.
LEMMA ReactorIsPipe ==
    ASSUME TypeOK, SourceInv, Reactor \/ Server
    PROVE  Pipe!Next \/ UNCHANGED (Pipe!pipeVars)
<1> USE DEF ringVars, sharedVars, appVars
<1>1. CASE StartPass \/ RunCommand \/ PollEmpty \/ PollPark \/ PollUnpark \/ PollPending
  <2>1. Untold
    BY <1>1 DEF Untold, StartPass, RunCommand, PollEmpty, PollPark, PollUnpark, PollPending
  <2>2. QED  BY <2>1, UntoldIsStutter
<1>2. CASE RunDelete \/ ConnectionLost
  <2>1. Pipe!Close
    BY <1>2 DEF RunDelete, ConnectionLost, SourceDropped, SourceInv, Pipe!Close
  <2>2. QED  BY <2>1 DEF Pipe!Next
<1>3. CASE PollSwap
  <2>1. Pipe!SetDiscarding  BY <1>3 DEF PollSwap, Pipe!SetDiscarding
  <2>2. QED  BY <2>1 DEF Pipe!Next
<1>4. CASE PollSkip
  <2> DEFINE n == Least(rdrop, Occupied)
  <2>1. /\ popped' = popped + n /\ rdrop > 0 /\ ~disconnected
        /\ UNCHANGED <<pushed, bytes_sent, credit, disconnected>>
    BY <1>4 DEF PollSkip, SourceInv
  <2>2. n \in Nat /\ n <= pushed - popped  BY Counters DEF Occupied, Least
  <2>3. pushed <= popped + Capacity /\ Capacity \in Nat
    BY PlaybackAssumption DEF PlaybackAssumption, TypeOK, NumbersOK
  <2> HIDE DEF n
  <2>4. CASE n = 0
    <3>1. popped' = popped  BY <2>1, <2>4, Counters
    <3>2. Pipe!SetDiscarding  BY <2>1, <3>1 DEF Pipe!SetDiscarding
    <3>3. QED  BY <3>2 DEF Pipe!Next
  <2>5. CASE n # 0
    <3>1. n \in 1 .. Capacity /\ n <= Pipe!Queued
      BY <2>2, <2>3, <2>5, Counters DEF Pipe!Queued
    <3>2. (popped - bytes_sent)' = popped - bytes_sent + n  BY <2>1, <2>2, Counters
    <3>3. Pipe!Drop  BY <2>1, <3>1, <3>2 DEF Pipe!Drop
    <3>4. QED  BY <3>3 DEF Pipe!Next
  <2>6. QED  BY <2>4, <2>5
<1>5. CASE PollServe \/ PollRecheck
  <2>1. Serve  BY <1>5 DEF PollServe, PollRecheck
  <2>2. PICK n \in 1 .. Capacity :
            /\ n <= credit /\ n <= pushed - popped
            /\ popped' = popped + n /\ bytes_sent' = bytes_sent + n /\ credit' = credit - n
    BY <2>1, ServeMoves
  <2>3. /\ UNCHANGED <<pushed, disconnected, discard_bytes, rdrop>> /\ ~disconnected
    BY <1>5 DEF PollServe, PollRecheck, SourceInv
  <2>4. n \in Nat  BY <2>2, PlaybackAssumption DEF PlaybackAssumption
  <2>5. (popped - bytes_sent)' = popped - bytes_sent  BY <2>2, <2>4, Counters
  <2>6. n <= Pipe!Queued  BY <2>2, <2>4, Counters DEF Pipe!Queued
  <2>7. Pipe!Deliver  BY <2>2, <2>3, <2>5, <2>6 DEF Pipe!Deliver
  <2>8. QED  BY <2>7 DEF Pipe!Next
<1>6. CASE \E n \in 1 .. MaxCredit : ServerRequest(n)
  <2>1. PICK n \in 1 .. MaxCredit : ServerRequest(n)  BY <1>6
  <2>2. n \in Nat /\ n > 0  BY PlaybackAssumption DEF PlaybackAssumption
  <2>3. credit' > credit  BY <2>1, <2>2, Counters DEF ServerRequest
  <2>4. Pipe!Ask  BY <2>1, <2>3 DEF ServerRequest, Pipe!Ask
  <2>5. QED  BY <2>4 DEF Pipe!Next
<1>7. QED
  BY <1>1, <1>2, <1>3, <1>4, <1>5, <1>6 DEF Reactor, Server, Poll

\* The stream implements the byte pipe it promises: bytes leave in the order
\* they were accepted, each once, handed over only against the server's demand
\* and dropped only while a discard is pending.  This is the safety half of
\* PipeSpec; that queued bytes the server asked for are delivered is left to
\* the runs.
THEOREM StreamIsPipe == Safety => Pipe!Init /\ [][Pipe!Next]_(Pipe!pipeVars)
<1>1. Init => Pipe!Init  BY DEF Init, Pipe!Init
<1>2. TypeOK /\ SourceInv /\ [Next]_vars => [Pipe!Next]_(Pipe!pipeVars)
  <2> SUFFICES ASSUME TypeOK, SourceInv, [Next]_vars PROVE [Pipe!Next]_(Pipe!pipeVars)
    OBVIOUS
  <2>1. CASE UNCHANGED vars
    <3>1. Untold  BY <2>1 DEF vars, Untold, ringVars, sharedVars, reactorVars
    <3>2. QED  BY <3>1, UntoldIsStutter
  <2>2. CASE Next  BY <2>2, CallerIsPipe, ReactorIsPipe DEF Next
  <2>3. QED  BY <2>1, <2>2
<1>3. QED  BY <1>1, <1>2, TypeCorrect, SourceIsAlive, PTL DEF Safety
=============================================================================
