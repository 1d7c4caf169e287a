---------------------------- MODULE DeviceWatcher ----------------------------
(***************************************************************************)
(* Hot-plug detection: the polling thread of CpalDeviceWatcher (and of     *)
(* CpalDevice::on_device_change, the same loop), the devices that come and *)
(* go between two polls, the two ways events are read - try_recv() on an   *)
(* unbounded queue, and DeviceEventStream on a broadcast channel that      *)
(* forgets its oldest event when full - and the drop, which joins the      *)
(* thread.                                                                 *)
(*                                                                         *)
(* An event is <<"added", name>> or <<"removed", name>>.  The receiving    *)
(* end of the queue is dropped after the join, so no send on it fails.     *)
(***************************************************************************)
EXTENDS Integers, Sequences

CONSTANTS
    Devices,      \* device names
    Capacity,     \* of the broadcast channel; 64 in the code
    MaxChanges,   \* bound: how often a device is plugged or unplugged
    MaxFailures   \* bound: how often the host fails to list its devices

ASSUME WatcherAssumption ==
    Capacity \in Nat \ {0} /\ MaxChanges \in Nat /\ MaxFailures \in Nat

Readers == {"queue", "stream"}

VARIABLES
    present,   \* the devices plugged in
    changes, failures,
    stop,      \* the stop flag
    owner,     \* "open", "joining" or "dropped"
    pc,        \* of the thread: "first", "head", "list", "added", "removed" or "ended"
    prev, current,   \* its two snapshots
    todo,      \* what is left of the set difference it walks through
    sent,      \* every event sent
    told,      \* the first snapshot with the events sent applied to it
    pos,       \* how many events each reader is past
    view,      \* what each reader makes of them
    lagged     \* the stream missed an event

world  == <<present, changes>>
thread == <<failures, pc, prev, current, todo, sent, told>>
reader == <<pos, view, lagged>>
vars   == <<world, thread, stop, owner, reader>>

Init ==
    /\ present \in SUBSET Devices /\ changes = 0 /\ failures = 0
    /\ stop = FALSE /\ owner = "open"
    /\ pc = "first" /\ prev = {} /\ current = {} /\ todo = {}
    /\ sent = <<>> /\ told = {}
    /\ pos = [r \in Readers |-> 0] /\ view = [r \in Readers |-> {}] /\ lagged = FALSE

-----------------------------------------------------------------------------
(* The devices. *)

Plug(d) ==
    /\ changes < MaxChanges
    /\ present' = IF d \in present THEN present \ {d} ELSE present \cup {d}
    /\ changes' = changes + 1
    /\ UNCHANGED <<thread, stop, owner, reader>>

-----------------------------------------------------------------------------
(* The polling thread. *)

\* current_device_names(): a host that cannot list its devices seems to have none.
Snapshot(names) ==
    \/ names = present /\ UNCHANGED failures
    \/ names = {} /\ failures < MaxFailures /\ failures' = failures + 1

FirstSnapshot ==
    /\ pc = "first"
    /\ \E names \in SUBSET Devices :
        /\ Snapshot(names)
        /\ prev' = names /\ told' = names /\ view' = [r \in Readers |-> names]
    /\ pc' = "head"
    /\ UNCHANGED <<world, stop, owner, current, todo, sent, pos, lagged>>

LoopHead ==
    /\ pc = "head"
    /\ pc' = IF stop THEN "ended" ELSE "list"
    /\ UNCHANGED <<world, stop, owner, failures, prev, current, todo, sent, told, reader>>

\* The sleep, and the poll after it.
List ==
    /\ pc = "list"
    /\ \E names \in SUBSET Devices :
        Snapshot(names) /\ current' = names /\ todo' = names \ prev
    /\ pc' = "added"
    /\ UNCHANGED <<world, stop, owner, prev, sent, told, reader>>

SendAdded ==
    /\ pc = "added"
    /\ \E d \in todo :
        /\ todo' = todo \ {d}
        /\ sent' = Append(sent, <<"added", d>>) /\ told' = told \cup {d}
    /\ UNCHANGED <<world, stop, owner, failures, pc, prev, current, reader>>

AddedSent ==
    /\ pc = "added" /\ todo = {}
    /\ pc' = "removed" /\ todo' = prev \ current
    /\ UNCHANGED <<world, stop, owner, failures, prev, current, sent, told, reader>>

SendRemoved ==
    /\ pc = "removed"
    /\ \E d \in todo :
        /\ todo' = todo \ {d}
        /\ sent' = Append(sent, <<"removed", d>>) /\ told' = told \ {d}
    /\ UNCHANGED <<world, stop, owner, failures, pc, prev, current, reader>>

\* Mutant: a poll that finds a device gone keeps the old snapshot.
RemovedSentKeeps ==
    /\ pc = "removed" /\ todo = {}
    /\ prev' = prev \cup current /\ pc' = "head"
    /\ UNCHANGED <<world, stop, owner, failures, current, todo, sent, told, reader>>

RemovedSent ==
    /\ pc = "removed" /\ todo = {}
    /\ prev' = current /\ pc' = "head"
    /\ UNCHANGED <<world, stop, owner, failures, current, todo, sent, told, reader>>

-----------------------------------------------------------------------------
(* The owner and the readers. *)

Apply(known, event) ==
    IF event[1] = "added" THEN known \cup {event[2]} ELSE known \ {event[2]}

\* try_recv(); not after the watcher has begun to drop.
TryRecv ==
    /\ owner = "open" /\ pos["queue"] < Len(sent)
    /\ pos' = [pos EXCEPT !["queue"] = @ + 1]
    /\ view' = [view EXCEPT !["queue"] = Apply(@, sent[pos["queue"] + 1])]
    /\ UNCHANGED <<world, thread, stop, owner, lagged>>

Oldest == IF Len(sent) > Capacity THEN Len(sent) - Capacity ELSE 0

\* Mutant: a lagged reader starts over at the newest event.
NextEventNewest ==
    /\ pos["stream"] < Len(sent)
    /\ LET at == IF pos["stream"] < Oldest THEN Len(sent) - 1 ELSE pos["stream"]
       IN  /\ pos' = [pos EXCEPT !["stream"] = at + 1]
           /\ lagged' = (lagged \/ at # pos["stream"])
           /\ view' = [view EXCEPT !["stream"] = Apply(@, sent[at + 1])]
    /\ UNCHANGED <<world, thread, stop, owner>>

\* poll_next(): events that were overwritten are skipped without a word.
NextEvent ==
    /\ pos["stream"] < Len(sent)
    /\ LET at == IF pos["stream"] < Oldest THEN Oldest ELSE pos["stream"]
       IN  /\ pos' = [pos EXCEPT !["stream"] = at + 1]
           /\ lagged' = (lagged \/ at # pos["stream"])
           /\ view' = [view EXCEPT !["stream"] = Apply(@, sent[at + 1])]
    /\ UNCHANGED <<world, thread, stop, owner>>

StopThread ==
    /\ owner = "open"
    /\ stop' = TRUE /\ owner' = "joining"
    /\ UNCHANGED <<world, thread, reader>>

Join ==
    /\ owner = "joining" /\ pc = "ended"
    /\ owner' = "dropped"
    /\ UNCHANGED <<world, thread, stop, reader>>

-----------------------------------------------------------------------------
Poll ==
    \/ FirstSnapshot \/ LoopHead \/ List
    \/ SendAdded \/ AddedSent \/ SendRemoved \/ RemovedSent

Next ==
    \/ \E d \in Devices : Plug(d)
    \/ Poll
    \/ TryRecv \/ NextEvent
    \/ StopThread \/ Join

\* The thread runs, the host answers, and a caller that drops the watcher waits
\* for it.  Readers read when they like.
Spec == Init /\ [][Next]_vars /\ WF_vars(Poll) /\ WF_vars(Join)

-----------------------------------------------------------------------------
(* Properties. *)

\* The state has its type; what is left to send are differences of the snapshots,
\* and a reader is never ahead of the events.
TypeOK ==
    /\ present \subseteq Devices /\ changes \in 0 .. MaxChanges /\ failures \in 0 .. MaxFailures
    /\ stop \in BOOLEAN /\ owner \in {"open", "joining", "dropped"}
    /\ pc \in {"first", "head", "list", "added", "removed", "ended"}
    /\ prev \subseteq Devices /\ current \subseteq Devices /\ todo \subseteq Devices
    /\ pc = "added" => todo \subseteq current \ prev
    /\ pc = "removed" => todo \subseteq prev \ current
    /\ pc \notin {"added", "removed"} => todo = {}
    /\ pc = "first" => sent = <<>>
    /\ sent \in Seq({"added", "removed"} \X Devices) /\ told \subseteq Devices
    /\ pos \in [Readers -> Nat] /\ \A r \in Readers : pos[r] <= Len(sent)
    /\ view \in [Readers -> SUBSET Devices] /\ lagged \in BOOLEAN

\* Whatever is plugged while the thread works, the events add up to what it last
\* saw: none is missing and none is sent twice when a poll is over.
EventsTellSnapshot ==
    CASE pc = "added"   -> told = prev \cup (current \ todo)
      [] pc = "removed" -> told = current \cup todo
      [] OTHER          -> told = prev

\* Every event is news: no device is added twice in a row, or removed twice.
EventsAlternate ==
    \A i, j \in 1 .. Len(sent) :
        i < j /\ sent[i] = sent[j] =>
            \E k \in i + 1 .. j - 1 : sent[k][2] = sent[i][2] /\ sent[k] # sent[i]

\* A reader that has read everything knows what was told, except that a stream
\* that lagged may be wrong on a device whose last event is no longer kept.
ReadersCatchUp ==
    \A r \in Readers : pos[r] = Len(sent) =>
        \/ view[r] = told
        \/ /\ r = "stream" /\ lagged
           /\ \A i \in Oldest + 1 .. Len(sent) :
                sent[i][2] \in view[r] <=> sent[i][2] \in told

\* Once drop() has returned the thread sends (or calls back) no more.
SilentAfterDrop == [][owner = "dropped" => UNCHANGED sent]_vars

\* The devices come to rest, and the events then tell which are there, whatever
\* came and went between two polls and whichever listings failed.
ConvergesToPresent == <>[](stop \/ told = present)

=============================================================================
