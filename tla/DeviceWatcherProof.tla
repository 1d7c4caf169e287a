------------------------- MODULE DeviceWatcherProof --------------------------
(***************************************************************************)
(* Proofs about DeviceWatcher, for every set of devices, every capacity    *)
(* and every bound: the state keeps its type, the events sent add up to    *)
(* the snapshot and are news each, every reader catches up with them, and  *)
(* nothing is sent once the drop has returned.                             *)
(***************************************************************************)
EXTENDS DeviceWatcher, TLAPS

\* An event read from a sequence of events leaves a set of devices.
LEMMA ApplyType ==
    ASSUME NEW known \in SUBSET Devices, NEW event \in {"added", "removed"} \X Devices
    PROVE  Apply(known, event) \in SUBSET Devices
BY DEF Apply

\* Where a stream reads next: no earlier than it is, and inside what was sent.
LEMMA OldestInside ==
    ASSUME TypeOK, Len(sent) > 0
    PROVE  Oldest \in 0 .. Len(sent) - 1
<1>1. Len(sent) \in Nat
    BY DEF TypeOK
<1> QED
    BY <1>1, WatcherAssumption DEF Oldest

\* The state has its type, whatever the host lists and the readers do.
THEOREM TypeCorrect == Spec => []TypeOK
<1>1. Init => TypeOK
    <2> SUFFICES ASSUME Init
                 PROVE  TypeOK
        OBVIOUS
    <2>1. sent = <<>> /\ sent \in Seq({"added", "removed"} \X Devices) /\ Len(sent) = 0
        BY DEF Init
    <2>2. /\ pos \in [Readers -> Nat] /\ \A r \in Readers : pos[r] <= Len(sent)
          /\ view \in [Readers -> SUBSET Devices]
        BY <2>1 DEF Init
    <2>3. changes \in 0 .. MaxChanges /\ failures \in 0 .. MaxFailures
        BY WatcherAssumption DEF Init
    <2>4. /\ present \subseteq Devices /\ prev \subseteq Devices /\ current \subseteq Devices
          /\ todo = {} /\ told \subseteq Devices
        BY DEF Init
    <2>5. /\ stop \in BOOLEAN /\ lagged \in BOOLEAN
          /\ owner \in {"open", "joining", "dropped"} /\ pc = "first"
        BY DEF Init
    <2> QED
        BY <2>1, <2>2, <2>3, <2>4, <2>5 DEF TypeOK
<1>2. TypeOK /\ [Next]_vars => TypeOK'
    <2> SUFFICES ASSUME TypeOK, [Next]_vars
                 PROVE  TypeOK'
        OBVIOUS
    <2> USE DEF world, thread, reader
    <2>1. ASSUME NEW d \in Devices, Plug(d)
          PROVE  TypeOK'
        BY <2>1, WatcherAssumption DEF TypeOK, Plug
    <2>2. CASE FirstSnapshot
        <3>1. failures' \in 0 .. MaxFailures
            BY <2>2, WatcherAssumption DEF TypeOK, FirstSnapshot, Snapshot
        <3> QED
            BY <2>2, <3>1 DEF TypeOK, FirstSnapshot
    <2>3. CASE LoopHead
        BY <2>3 DEF TypeOK, LoopHead
    <2>4. CASE List
        <3>1. failures' \in 0 .. MaxFailures
            BY <2>4, WatcherAssumption DEF TypeOK, List, Snapshot
        <3> QED
            BY <2>4, <3>1 DEF TypeOK, List
    <2>5. CASE SendAdded \/ SendRemoved
        <3>1. PICK d \in Devices, k \in {"added", "removed"} : sent' = Append(sent, <<k, d>>)
            BY <2>5 DEF TypeOK, SendAdded, SendRemoved
        <3>2. sent' \in Seq({"added", "removed"} \X Devices) /\ Len(sent') = Len(sent) + 1
            BY <3>1 DEF TypeOK
        <3>3. \A r \in Readers : pos'[r] <= Len(sent')
            BY <2>5, <3>2 DEF TypeOK, SendAdded, SendRemoved
        <3>4. CASE SendAdded
            BY <3>4, <3>2, <3>3 DEF TypeOK, SendAdded
        <3>5. CASE SendRemoved
            BY <3>5, <3>2, <3>3 DEF TypeOK, SendRemoved
        <3> QED
            BY <2>5, <3>4, <3>5
    <2>6. CASE AddedSent
        BY <2>6 DEF TypeOK, AddedSent
    <2>7. CASE RemovedSent
        BY <2>7 DEF TypeOK, RemovedSent
    <2>8. CASE TryRecv
        <3>1. Len(sent) \in Nat /\ pos["queue"] + 1 \in 1 .. Len(sent)
            BY <2>8 DEF TypeOK, TryRecv, Readers
        <3>2. Apply(view["queue"], sent[pos["queue"] + 1]) \in SUBSET Devices
            BY <3>1, ApplyType DEF TypeOK, Readers
        <3> QED
            BY <2>8, <3>1, <3>2 DEF TypeOK, TryRecv, Readers
    <2>9. CASE NextEvent
        <3> DEFINE at == IF pos["stream"] < Oldest THEN Oldest ELSE pos["stream"]
        <3>1. Len(sent) \in Nat /\ at + 1 \in 1 .. Len(sent)
            <4>1. Len(sent) \in Nat /\ pos["stream"] \in Nat /\ pos["stream"] < Len(sent)
                BY <2>9 DEF TypeOK, NextEvent, Readers
            <4> QED
                BY <4>1, OldestInside
        <3>2. Apply(view["stream"], sent[at + 1]) \in SUBSET Devices
            BY <3>1, ApplyType DEF TypeOK, Readers
        <3>3. /\ pos' = [pos EXCEPT !["stream"] = at + 1]
              /\ view' = [view EXCEPT !["stream"] = Apply(@, sent[at + 1])]
              /\ lagged' = (lagged \/ at # pos["stream"])
              /\ UNCHANGED <<world, thread, stop, owner>>
            BY <2>9 DEF NextEvent
        <3> HIDE DEF at
        <3> QED
            BY <3>1, <3>2, <3>3 DEF TypeOK, Readers
    <2>10. CASE StopThread
        BY <2>10 DEF TypeOK, StopThread
    <2>11. CASE Join
        BY <2>11 DEF TypeOK, Join
    <2>12. CASE UNCHANGED vars
        BY <2>12 DEF TypeOK, vars
    <2> QED
        BY <2>1, <2>2, <2>3, <2>4, <2>5, <2>6, <2>7, <2>8, <2>9, <2>10, <2>11, <2>12
        DEF Next, Poll
<1> QED
    BY <1>1, <1>2, PTL DEF Spec

\* What the thread told adds up to what it last saw, at every step of a poll.
THEOREM SnapshotIsTold == Spec => []EventsTellSnapshot
<1>1. Init => EventsTellSnapshot
    BY DEF Init, EventsTellSnapshot
<1>2. TypeOK /\ EventsTellSnapshot /\ [Next]_vars => EventsTellSnapshot'
    <2> SUFFICES ASSUME TypeOK, EventsTellSnapshot, [Next]_vars
                 PROVE  EventsTellSnapshot'
        OBVIOUS
    <2> USE DEF world, thread, reader
    <2>1. CASE FirstSnapshot
        BY <2>1 DEF EventsTellSnapshot, FirstSnapshot
    <2>2. CASE LoopHead
        BY <2>2 DEF EventsTellSnapshot, LoopHead
    <2>3. CASE List
        BY <2>3 DEF EventsTellSnapshot, List
    <2>4. CASE SendAdded
        BY <2>4 DEF EventsTellSnapshot, TypeOK, SendAdded
    <2>5. CASE AddedSent
        BY <2>5 DEF EventsTellSnapshot, TypeOK, AddedSent
    <2>6. CASE SendRemoved
        BY <2>6 DEF EventsTellSnapshot, TypeOK, SendRemoved
    <2>7. CASE RemovedSent
        BY <2>7 DEF EventsTellSnapshot, RemovedSent
    <2>8. CASE UNCHANGED thread
        BY <2>8 DEF EventsTellSnapshot
    <2> QED
        BY <2>1, <2>2, <2>3, <2>4, <2>5, <2>6, <2>7, <2>8
        DEF Next, Poll, Plug, TryRecv, NextEvent, StopThread, Join, vars
<1> QED
    BY <1>1, <1>2, TypeCorrect, PTL DEF Spec

-----------------------------------------------------------------------------
\* EventsAlternate is not inductive: an event agrees with what was told, or one of
\* the other kind about the same device came after it.
LastTells ==
    \A i \in 1 .. Len(sent) :
        \/ sent[i][1] = "added" <=> sent[i][2] \in told
        \/ \E k \in i + 1 .. Len(sent) : sent[k][2] = sent[i][2] /\ sent[k] # sent[i]

\* Only an event that is news is appended.
LEMMA SendIsNews ==
    ASSUME TypeOK, EventsTellSnapshot, SendAdded \/ SendRemoved
    PROVE  \E d \in Devices :
              \/ /\ sent' = Append(sent, <<"added", d>>)
                 /\ d \notin told /\ told' = told \cup {d}
              \/ /\ sent' = Append(sent, <<"removed", d>>)
                 /\ d \in told /\ told' = told \ {d}
<1>1. CASE SendAdded
    BY <1>1 DEF SendAdded, TypeOK, EventsTellSnapshot
<1>2. CASE SendRemoved
    BY <1>2 DEF SendRemoved, TypeOK, EventsTellSnapshot
<1> QED
    BY <1>1, <1>2

LEMMA NewsKeepsOrder ==
    ASSUME TypeOK, EventsAlternate, LastTells, NEW d \in Devices, NEW kind \in {"added", "removed"},
           sent' = Append(sent, <<kind, d>>),
           kind = "added" <=> d \notin told,
           told' = IF kind = "added" THEN told \cup {d} ELSE told \ {d}
    PROVE  EventsAlternate' /\ LastTells'
<1> DEFINE n == Len(sent)
<1>1. /\ n \in Nat /\ Len(sent') = n + 1
      /\ sent'[n + 1] = <<kind, d>> /\ \A i \in 1 .. n : sent'[i] = sent[i]
    BY DEF TypeOK
<1>2. \A i \in 1 .. n : sent[i] \in {"added", "removed"} \X Devices
    BY <1>1 DEF TypeOK
<1> HIDE DEF n
<1>3. ASSUME NEW i \in 1 .. n, sent[i] = <<kind, d>>
      PROVE  \E k \in i + 1 .. n : sent[k][2] = d /\ sent[k] # sent[i]
    <2>1. sent[i][1] = kind /\ sent[i][2] = d
        BY <1>3
    <2>2. ~(sent[i][1] = "added" <=> sent[i][2] \in told)
        <3>1. CASE kind = "added"
            BY <2>1, <3>1
        <3>2. CASE kind = "removed"
            BY <2>1, <3>2
        <3> QED
            BY <3>1, <3>2
    <2> QED
        BY <2>1, <2>2 DEF LastTells, n
<1>4. EventsAlternate'
    <2> SUFFICES ASSUME NEW i \in 1 .. n + 1, NEW j \in 1 .. n + 1, i < j, sent'[i] = sent'[j]
                 PROVE  \E k \in i + 1 .. j - 1 : sent'[k][2] = sent'[i][2] /\ sent'[k] # sent'[i]
        BY <1>1 DEF EventsAlternate
    <2>1. i \in 1 .. n
        BY <1>1
    <2>2. CASE j = n + 1
        <3>1. PICK k \in i + 1 .. n : sent[k][2] = d /\ sent[k] # sent[i]
            BY <1>1, <1>3, <2>1, <2>2
        <3>2. k \in 1 .. n /\ k \in i + 1 .. j - 1
            BY <1>1, <2>1, <2>2, <3>1
        <3> QED
            BY <1>1, <2>1, <2>2, <3>1, <3>2, SMTT(30)
    <2>3. CASE j # n + 1
        <3>1. j \in 1 .. n
            BY <1>1, <2>3
        <3>2. PICK k \in i + 1 .. j - 1 : sent[k][2] = sent[i][2] /\ sent[k] # sent[i]
            BY <1>1, <2>1, <3>1 DEF EventsAlternate, n
        <3>3. k \in 1 .. n
            BY <1>1, <2>1, <3>1, <3>2
        <3> QED
            BY <1>1, <2>1, <3>2, <3>3
    <2> QED
        BY <2>2, <2>3
<1>5. LastTells'
    <2> SUFFICES ASSUME NEW i \in 1 .. n + 1
                 PROVE  \/ sent'[i][1] = "added" <=> sent'[i][2] \in told'
                        \/ \E k \in i + 1 .. n + 1 :
                              sent'[k][2] = sent'[i][2] /\ sent'[k] # sent'[i]
        BY <1>1, ZenonT(60) DEF LastTells
    <2>1. CASE i = n + 1
        BY <1>1, <2>1
    <2>2. CASE i # n + 1 /\ sent[i][2] # d
        <3>1. i \in 1 .. n
            BY <1>1, <2>2
        <3>2. CASE sent[i][1] = "added" <=> sent[i][2] \in told
            BY <1>1, <2>2, <3>1, <3>2
        <3>3. CASE \E k \in i + 1 .. n : sent[k][2] = sent[i][2] /\ sent[k] # sent[i]
            <4>1. PICK k \in i + 1 .. n : sent[k][2] = sent[i][2] /\ sent[k] # sent[i]
                BY <3>3
            <4>2. k \in 1 .. n /\ k \in i + 1 .. n + 1
                BY <1>1, <3>1, <4>1
            <4> QED
                BY <1>1, <3>1, <4>1, <4>2
        <3> QED
            BY <3>1, <3>2, <3>3 DEF LastTells, n
    <2>3. CASE i # n + 1 /\ sent[i][2] = d /\ sent[i][1] = kind
        <3>1. i \in 1 .. n /\ sent[i] = <<kind, d>>
            BY <1>1, <1>2, <2>3
        <3>2. PICK k \in i + 1 .. n : sent[k][2] = d /\ sent[k] # sent[i]
            BY <1>3, <3>1
        <3>3. k \in 1 .. n /\ k \in i + 1 .. n + 1
            BY <1>1, <3>1, <3>2
        <3> QED
            BY <1>1, <2>3, <3>1, <3>2, <3>3
    <2>4. CASE i # n + 1 /\ sent[i][2] = d /\ sent[i][1] # kind
        <3>1. i \in 1 .. n /\ n + 1 \in i + 1 .. n + 1
            BY <1>1, <2>4
        <3> QED
            BY <1>1, <2>4, <3>1
    <2> QED
        BY <2>1, <2>2, <2>3, <2>4
<1> QED
    BY <1>4, <1>5

\* The two halves hold together.
THEOREM NewsIsKept == Spec => [](EventsAlternate /\ LastTells)
<1>1. Init => EventsAlternate /\ LastTells
    BY DEF Init, EventsAlternate, LastTells
<1>2. /\ TypeOK /\ EventsTellSnapshot /\ EventsAlternate /\ LastTells /\ [Next]_vars
      => EventsAlternate' /\ LastTells'
    <2> SUFFICES ASSUME TypeOK, EventsTellSnapshot, EventsAlternate, LastTells, [Next]_vars
                 PROVE  EventsAlternate' /\ LastTells'
        OBVIOUS
    <2>1. CASE SendAdded \/ SendRemoved
        BY <2>1, SendIsNews, NewsKeepsOrder
    <2>2. CASE FirstSnapshot
        <3>1. sent' = sent /\ \A i \in 1 .. Len(sent) : FALSE
            BY <2>2 DEF FirstSnapshot, TypeOK
        <3> QED
            BY <3>1 DEF EventsAlternate, LastTells
    <2>3. CASE UNCHANGED <<sent, told>>
        BY <2>3 DEF EventsAlternate, LastTells
    <2> QED
        BY <2>1, <2>2, <2>3
        DEF Next, Poll, Plug, LoopHead, List, AddedSent, RemovedSent, TryRecv, NextEvent,
            StopThread, Join, world, thread, reader, vars
<1> QED
    BY <1>1, <1>2, TypeCorrect, SnapshotIsTold, PTL DEF Spec

\* No device is added twice, or removed twice, without the other in between.
THEOREM EveryEventIsNews == Spec => []EventsAlternate
BY NewsIsKept, PTL
-----------------------------------------------------------------------------
\* What reader r has not read tells of device d; the channel still holds an
\* event about d.
Unread(r, d) == \E j \in pos[r] + 1 .. Len(sent) : sent[j][2] = d
Kept(d)      == \E i \in Oldest + 1 .. Len(sent) : sent[i][2] = d

\* What makes ReadersCatchUp inductive, device by device: a reader is right
\* about d, or something it has not read tells of d, or it lagged past the last
\* that told of d.
ViewsFollow ==
    \A r \in Readers, d \in Devices :
        \/ Unread(r, d)
        \/ d \in view[r] <=> d \in told
        \/ r = "stream" /\ lagged /\ ~Kept(d)

\* The facts about the events the steps below need.
LEMMA EventFacts ==
    ASSUME TypeOK
    PROVE  /\ Len(sent) \in Nat /\ Oldest \in Nat /\ Oldest <= Len(sent)
           /\ \A i \in 1 .. Len(sent) :
                sent[i] \in {"added", "removed"} \X Devices /\ sent[i][2] \in Devices
           /\ pos \in [Readers -> Nat] /\ view \in [Readers -> SUBSET Devices]
           /\ \A r \in Readers : pos[r] \in Nat /\ pos[r] <= Len(sent)
BY WatcherAssumption DEF TypeOK, Oldest

\* An event that nothing later contradicts says what was told of its device.
LEMMA LastWordCounts ==
    ASSUME TypeOK, LastTells, NEW i \in 1 .. Len(sent),
           \A k \in i + 1 .. Len(sent) : sent[k][2] # sent[i][2]
    PROVE  sent[i][1] = "added" <=> sent[i][2] \in told
BY DEF LastTells

\* The places kept after one more event were places of events kept before it.
LEMMA OlderPlaces ==
    ASSUME NEW n \in Nat, NEW oldest \in Nat, NEW later \in Nat, oldest <= later,
           NEW i \in later + 1 .. n + 1, i # n + 1
    PROVE  i \in oldest + 1 .. n /\ i \in 1 .. n
OBVIOUS

\* A new event is unread by everybody.
LEMMA SendFollows ==
    ASSUME TypeOK, ViewsFollow, NEW d \in Devices, NEW kind \in {"added", "removed"},
           sent' = Append(sent, <<kind, d>>), UNCHANGED reader,
           \A e \in Devices \ {d} : e \in told' <=> e \in told
    PROVE  ViewsFollow'
<1> USE DEF reader
<1> DEFINE n == Len(sent)
<1>1. /\ n \in Nat /\ Len(sent') = n + 1
      /\ sent'[n + 1] = <<kind, d>> /\ \A i \in 1 .. n : sent'[i] = sent[i]
    BY DEF TypeOK
<1>2. Oldest \in Nat /\ Oldest' \in Nat /\ Oldest <= Oldest'
    BY <1>1, WatcherAssumption DEF Oldest
<1>3. SUFFICES ASSUME NEW r \in Readers, NEW e \in Devices
               PROVE  \/ Unread(r, e)'
                      \/ e \in view'[r] <=> e \in told'
                      \/ r = "stream" /\ lagged' /\ ~Kept(e)'
    BY DEF ViewsFollow
<1>4. pos[r] \in Nat /\ pos[r] <= n
    BY EventFacts
<1>5. CASE e = d
    <2>1. n + 1 \in pos'[r] + 1 .. Len(sent')
        BY <1>1, <1>4
    <2> QED
        BY <1>1, <1>5, <2>1 DEF Unread
<1>6. CASE e # d
    <2>1. Unread(r, e) => Unread(r, e)'
        <3> SUFFICES ASSUME NEW j \in pos[r] + 1 .. n, sent[j][2] = e
                     PROVE  Unread(r, e)'
            BY DEF Unread
        <3>1. j \in 1 .. n /\ j \in pos'[r] + 1 .. Len(sent')
            BY <1>1, <1>4
        <3> QED
            BY <1>1, <3>1 DEF Unread
    <2>2. ~Kept(e) => ~Kept(e)'
        <3> SUFFICES ASSUME NEW i \in Oldest' + 1 .. Len(sent'), sent'[i][2] = e
                     PROVE  Kept(e)
            BY DEF Kept
        <3>1. i # n + 1
            BY <1>1, <1>6
        <3>2. i \in Oldest' + 1 .. n + 1
            BY <1>1
        <3>3. n \in Nat
            BY <1>1
        <3> HIDE DEF n
        <3>4. i \in Oldest + 1 .. n /\ i \in 1 .. n
            BY <1>2, <3>1, <3>2, <3>3, OlderPlaces
        <3> USE DEF n
        <3> QED
            BY <1>1, <3>4 DEF Kept
    <2>3. e \in told' <=> e \in told
        BY <1>6
    <2>4. view' = view /\ lagged' = lagged
        OBVIOUS
    <2> QED
        BY <2>1, <2>2, <2>3, <2>4 DEF ViewsFollow
<1> QED
    BY <1>5, <1>6

\* A reader that takes event at + 1 is right about its device unless something
\* it has not read tells of it, and about the others as it was: what it skipped
\* is not kept.
LEMMA ReadFollows ==
    ASSUME TypeOK, LastTells, ViewsFollow, NEW r \in Readers, NEW at \in Nat,
           at < Len(sent), pos[r] <= at,
           at # pos[r] => r = "stream" /\ at = Oldest /\ lagged',
           lagged => lagged',
           pos' = [pos EXCEPT ![r] = at + 1],
           view' = [view EXCEPT ![r] = Apply(@, sent[at + 1])],
           UNCHANGED <<sent, told>>
    PROVE  ViewsFollow'
<1>1. \A e \in Devices : Kept(e)' <=> Kept(e)
    BY DEF Kept, Oldest
<1>2. SUFFICES ASSUME NEW q \in Readers, NEW e \in Devices
               PROVE  \/ Unread(q, e)'
                      \/ e \in view'[q] <=> e \in told'
                      \/ q = "stream" /\ lagged' /\ ~Kept(e)'
    BY DEF ViewsFollow
<1>3. CASE q # r
    <2>1. pos'[q] = pos[q] /\ view'[q] = view[q]
        BY <1>3, EventFacts
    <2>2. Unread(q, e)' <=> Unread(q, e)
        BY <2>1 DEF Unread
    <2> QED
        BY <1>1, <2>1, <2>2 DEF ViewsFollow
<1>4. CASE q = r
    <2> DEFINE n == Len(sent)
    <2>1. /\ n \in Nat /\ at + 1 \in 1 .. n
          /\ pos'[r] = at + 1 /\ view'[r] = Apply(view[r], sent[at + 1])
          /\ sent[at + 1] \in {"added", "removed"} \X Devices
        BY EventFacts
    <2>2. SUFFICES ASSUME ~Unread(r, e)'
                   PROVE  \/ e \in view'[r] <=> e \in told
                          \/ r = "stream" /\ lagged' /\ ~Kept(e)
        BY <1>1, <1>4
    <2>3. \A j \in (at + 1) + 1 .. n : sent[j][2] # e
        BY <2>1, <2>2 DEF Unread
    <2> HIDE DEF n
    <2>4. CASE sent[at + 1][2] = e
        <3>1. sent[at + 1][1] = "added" <=> e \in told
            BY <2>1, <2>3, <2>4, LastWordCounts DEF n
        <3>2. sent[at + 1][1] = "added" <=> e \in view'[r]
            BY <2>1, <2>4 DEF Apply
        <3> QED
            BY <3>1, <3>2
    <2>5. CASE sent[at + 1][2] # e
        <3>1. \A j \in at + 1 .. n : sent[j][2] # e
            <4> SUFFICES ASSUME NEW j \in at + 1 .. n
                         PROVE  sent[j][2] # e
                OBVIOUS
            <4>1. j = at + 1 \/ j \in (at + 1) + 1 .. n
                BY <2>1
            <4> QED
                BY <2>3, <2>5, <4>1
        <3>2. e \in view'[r] <=> e \in view[r]
            BY <2>1, <2>5 DEF Apply
        <3>3. CASE at = pos[r]
            <4>1. ~Unread(r, e)
                BY <3>1, <3>3 DEF Unread, n
            <4> QED
                BY <3>2, <4>1 DEF ViewsFollow
        <3>4. CASE at # pos[r]
            <4>1. ~Kept(e)
                BY <3>1, <3>4 DEF Kept, n
            <4> QED
                BY <3>4, <4>1
        <3> QED
            BY <3>3, <3>4
    <2> QED
        BY <2>4, <2>5
<1> QED
    BY <1>3, <1>4

\* A reader that has read everything knows what was told, whatever the host
\* lists and whenever it reads; a stream that lagged is wrong at most about
\* devices of which the channel holds nothing any more.
THEOREM EveryReaderCatchesUp == Spec => []ReadersCatchUp
<1>1. Init => ViewsFollow
    BY DEF Init, ViewsFollow
<1>2. TypeOK /\ LastTells /\ EventsTellSnapshot /\ ViewsFollow /\ [Next]_vars => ViewsFollow'
    <2> SUFFICES ASSUME TypeOK, LastTells, EventsTellSnapshot, ViewsFollow, [Next]_vars
                 PROVE  ViewsFollow'
        OBVIOUS
    <2>1. CASE SendAdded \/ SendRemoved
        <3>1. UNCHANGED reader
            BY <2>1 DEF SendAdded, SendRemoved
        <3> QED
            BY <2>1, <3>1, SendIsNews, SendFollows
    <2>2. CASE FirstSnapshot
        <3>1. view' = [r \in Readers |-> told']
            BY <2>2 DEF FirstSnapshot
        <3> QED
            BY <3>1 DEF ViewsFollow
    <2>3. CASE TryRecv
        <3> DEFINE at == pos["queue"]
        <3>1. "queue" \in Readers /\ at \in Nat
            BY EventFacts DEF Readers
        <3>2. /\ at < Len(sent) /\ at = pos["queue"]
              /\ pos' = [pos EXCEPT !["queue"] = at + 1]
              /\ view' = [view EXCEPT !["queue"] = Apply(@, sent[at + 1])]
              /\ UNCHANGED <<sent, told>> /\ lagged' = lagged
            BY <2>3 DEF TryRecv, thread
        <3> HIDE DEF at
        <3>3. pos["queue"] <= at
            BY <3>1, <3>2
        <3> QED
            BY <3>1, <3>2, <3>3, ReadFollows
    <2>4. CASE NextEvent
        <3> DEFINE at == IF pos["stream"] < Oldest THEN Oldest ELSE pos["stream"]
        <3>1. "stream" \in Readers /\ pos["stream"] \in Nat /\ pos["stream"] < Len(sent)
            BY <2>4, EventFacts DEF Readers, NextEvent
        <3>2. at \in Nat /\ at < Len(sent) /\ pos["stream"] <= at
            BY <3>1, OldestInside, EventFacts
        <3>3. at # pos["stream"] => at = Oldest
            OBVIOUS
        <3>4. /\ pos' = [pos EXCEPT !["stream"] = at + 1]
              /\ view' = [view EXCEPT !["stream"] = Apply(@, sent[at + 1])]
              /\ lagged' = (lagged \/ at # pos["stream"])
              /\ UNCHANGED <<sent, told>>
            BY <2>4 DEF NextEvent, thread
        <3> HIDE DEF at
        <3>5. lagged => lagged'
            BY <3>4
        <3>6. at # pos["stream"] => lagged'
            BY <3>4
        <3> QED
            BY <3>1, <3>2, <3>3, <3>4, <3>5, <3>6, ReadFollows
    <2>5. CASE UNCHANGED <<sent, told, reader>>
        BY <2>5 DEF ViewsFollow, Unread, Kept, Oldest, reader
    <2> QED
        BY <2>1, <2>2, <2>3, <2>4, <2>5
        DEF Next, Poll, Plug, LoopHead, List, AddedSent, RemovedSent, StopThread, Join, world,
            thread, vars
<1>3. TypeOK /\ ViewsFollow => ReadersCatchUp
    <2> SUFFICES ASSUME TypeOK, ViewsFollow, NEW r \in Readers, pos[r] = Len(sent)
                 PROVE  \/ view[r] = told
                        \/ /\ r = "stream" /\ lagged
                           /\ \A i \in Oldest + 1 .. Len(sent) :
                                sent[i][2] \in view[r] <=> sent[i][2] \in told
        BY DEF ReadersCatchUp
    <2>1. \A d \in Devices : ~Unread(r, d)
        BY EventFacts DEF Unread
    <2>2. view[r] \subseteq Devices /\ told \subseteq Devices
        BY DEF TypeOK
    <2>3. CASE r = "stream" /\ lagged
        <3> SUFFICES ASSUME NEW i \in Oldest + 1 .. Len(sent)
                     PROVE  sent[i][2] \in view[r] <=> sent[i][2] \in told
            BY <2>3
        <3>1. i \in 1 .. Len(sent) /\ sent[i][2] \in Devices
            BY EventFacts
        <3>2. Kept(sent[i][2])
            BY DEF Kept
        <3> QED
            BY <2>1, <3>1, <3>2 DEF ViewsFollow
    <2>4. CASE ~(r = "stream" /\ lagged)
        <3>1. \A d \in Devices : d \in view[r] <=> d \in told
            BY <2>1, <2>4 DEF ViewsFollow
        <3> QED
            BY <2>2, <3>1
    <2> QED
        BY <2>3, <2>4
<1> QED
    BY <1>1, <1>2, <1>3, TypeCorrect, SnapshotIsTold, NewsIsKept, PTL DEF Spec

-----------------------------------------------------------------------------
\* The join waits for the thread, and an ended thread never runs again.
DroppedEnds == owner = "dropped" => pc = "ended"

LEMMA DroppedEndsStep == DroppedEnds /\ [Next]_vars => DroppedEnds'
<1> SUFFICES ASSUME DroppedEnds, [Next]_vars
             PROVE  DroppedEnds'
    OBVIOUS
<1> USE DEF world, thread, reader, DroppedEnds
<1>1. CASE Poll
    BY <1>1 DEF Poll, FirstSnapshot, LoopHead, List, SendAdded, AddedSent, SendRemoved, RemovedSent
<1>2. CASE Join
    BY <1>2 DEF Join
<1>3. CASE UNCHANGED thread /\ (owner' = owner \/ owner' = "joining")
    BY <1>3
<1> QED
    BY <1>1, <1>2, <1>3 DEF Next, Plug, TryRecv, NextEvent, StopThread, vars

\* No event is sent, and no callback made, after drop() has returned.
THEOREM NothingSentAfterDrop == Spec => SilentAfterDrop
<1>1. Init => DroppedEnds
    BY DEF Init, DroppedEnds
<1>2. DroppedEnds /\ [Next]_vars => [owner = "dropped" => UNCHANGED sent]_vars
    <2> SUFFICES ASSUME DroppedEnds, owner = "dropped", Next
                 PROVE  UNCHANGED sent
        OBVIOUS
    <2> QED
        BY DEF DroppedEnds, Next, Poll, Plug, FirstSnapshot, LoopHead, List, SendAdded, AddedSent,
               SendRemoved, RemovedSent, TryRecv, NextEvent, StopThread, Join, thread
<1> QED
    BY <1>1, <1>2, DroppedEndsStep, PTL DEF Spec, SilentAfterDrop
=============================================================================
