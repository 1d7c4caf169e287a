------------------------- MODULE AutoReconnectProof -------------------------
(***************************************************************************)
(* Proofs about AutoReconnect, for any number of streams: its types, that  *)
(* no working stream is replaced, and that the guard implements            *)
(* ReconnectingOutput.                                                     *)
(***************************************************************************)
EXTENDS AutoReconnect, TLAPS

\* Dropping streams leaves every phase a phase.
LEMMA DropType ==
    ASSUME NEW set, OpenTypeOK
    PROVE  /\ Drop(set) \in [Streams -> {"free", "up", "dead", "down"}]
           /\ \A s \in Streams : Drop(set)[s] = IF s \in set THEN "free" ELSE phase[s]
BY DEF Drop, OpenTypeOK

\* A step of the monitor keeps the types.
LEMMA MonitorType ==
    ASSUME TypeOK, Monitor
    PROVE  TypeOK'
<1> USE DEF TypeOK, MonitorPcs, openVars
<1>1. CASE MonitorTop
  BY <1>1, DropType DEF MonitorTop, OpenTypeOK
<1>2. CASE MonitorLook \/ MonitorRefused
  BY <1>2 DEF MonitorLook, MonitorRefused, OpenTypeOK
<1>3. CASE MonitorOpen
  BY <1>3 DEF MonitorOpen, StartOpen, OpenTypeOK
<1>4. CASE MonitorOk \/ MonitorErr
  BY <1>4 DEF MonitorOk, MonitorErr, Received, OpenTypeOK
<1>5. CASE MonitorTimeout
  BY <1>5 DEF MonitorTimeout, TimedOut, OpenTypeOK
<1>6. CASE MonitorGiveUp
  BY <1>6, DropType DEF MonitorGiveUp, GiveUp, OpenTypeOK
<1>7. CASE MonitorInstall
  BY <1>7, DropType DEF MonitorInstall, OpenTypeOK
<1>8. QED  BY <1>1, <1>2, <1>3, <1>4, <1>5, <1>6, <1>7 DEF Monitor

\* So does a step of a worker or of the device under a stream.
LEMMA BackendType ==
    ASSUME TypeOK, NEW s \in Streams, Backend(s)
    PROVE  TypeOK'
<1> USE DEF TypeOK
<1>1. OpenTypeOK'
  <2>1. CASE BackendBuilds(s)  BY <2>1 DEF BackendBuilds, OpenTypeOK
  <2>2. CASE BackendFails(s)  BY <2>2 DEF BackendFails, OpenTypeOK
  <2>3. CASE WorkerSends(s)  BY <2>3, DropType DEF WorkerSends, OpenTypeOK
  <2>4. CASE StreamDies(s) \/ ErrorCallback(s)
    BY <2>4 DEF StreamDies, ErrorCallback, OpenTypeOK
  <2>5. QED  BY <2>1, <2>2, <2>3, <2>4 DEF Backend, Worker
<1>2. QED  BY <1>1 DEF Backend

\* Every reachable state is well typed.
THEOREM TypeCorrect == Safety => []TypeOK
<1>1. Init => TypeOK
  BY StreamsAssumption DEF StreamsAssumption, Init, TypeOK, OpenInit, OpenTypeOK, MonitorPcs
<1>2. TypeOK /\ [Next]_vars => TypeOK'
  <2> SUFFICES ASSUME TypeOK, [Next]_vars PROVE TypeOK'  OBVIOUS
  <2>1. CASE UNCHANGED vars
    BY <2>1 DEF vars, openVars, TypeOK, OpenTypeOK
  <2>2. CASE DropGuard
    BY <2>2 DEF DropGuard, TypeOK, openVars, OpenTypeOK
  <2>3. QED  BY <2>1, <2>2, MonitorType, BackendType DEF Next
<1>3. QED  BY <1>1, <1>2, PTL DEF Safety

-----------------------------------------------------------------------------
(* Who owns which stream. *)

\* The stream in the mutex belongs to nobody else, and from the moment the
\* monitor found it down until its replacement it stays down.
InnerOwned ==
    /\ inner = NoStream <=> mpc = "exited"
    /\ inner # NoStream =>
        /\ inner # attempt /\ worker[inner] = "none" /\ phase[inner] # "free"
    /\ mpc \in {"open", "wait", "give_up", "install"} => phase[inner] = "down"

\* So does the one the monitor is about to install.
FreshOwned ==
    mpc = "install" =>
        /\ fresh \in Streams /\ fresh # inner
        /\ worker[fresh] = "none" /\ phase[fresh] # "free"

\* An open under way is either with its worker or in the channel, and a stream
\* a worker or the channel holds exists.
OpenOwned ==
    /\ attempt # NoStream <=> mpc \in {"wait", "give_up"}
    /\ attempt = NoStream => channel = {}
    /\ attempt # NoStream /\ channel # {} => worker[attempt] = "none"
    /\ attempt # NoStream /\ channel = {"built"} => phase[attempt] # "free"
    /\ \A s \in Streams : worker[s] = "built" => phase[s] # "free"
    /\ \A s \in Streams : worker[s] \in {"opening", "failed"} => phase[s] = "free"

Ownership == InnerOwned /\ FreshOwned /\ OpenOwned

\* Workers and devices leave the owners what they own.
LEMMA BackendOwnership ==
    ASSUME TypeOK, Ownership, NEW s \in Streams, Backend(s)
    PROVE  Ownership'
<1> USE StreamsAssumption
    DEF StreamsAssumption, TypeOK, OpenTypeOK, Ownership, InnerOwned, FreshOwned, OpenOwned
<1>1. UNCHANGED <<inner, mpc, fresh, stop, attempt>>
  BY DEF Backend, Worker, BackendBuilds, BackendFails, WorkerSends, StreamDies, ErrorCallback
<1>2. CASE BackendBuilds(s)  BY <1>1, <1>2 DEF BackendBuilds
<1>3. CASE BackendFails(s)  BY <1>1, <1>3 DEF BackendFails
<1>4. CASE WorkerSends(s)
  <2>1. CASE attempt = s  BY <1>1, <1>4, <2>1 DEF WorkerSends
  <2>2. CASE attempt # s  BY <1>1, <1>4, <2>2, DropType DEF WorkerSends
  <2>3. QED  BY <2>1, <2>2
<1>5. CASE StreamDies(s)  BY <1>1, <1>5 DEF StreamDies
<1>6. CASE ErrorCallback(s)  BY <1>1, <1>6 DEF ErrorCallback
<1>7. QED  BY <1>2, <1>3, <1>4, <1>5, <1>6 DEF Backend, Worker

\* The monitor hands streams over without losing or sharing one.
LEMMA MonitorOwnership ==
    ASSUME TypeOK, Ownership, Monitor
    PROVE  Ownership'
<1> USE StreamsAssumption
    DEF StreamsAssumption, TypeOK, OpenTypeOK, Ownership, InnerOwned, FreshOwned, OpenOwned,
        openVars
<1>1. CASE MonitorTop
  <2>1. CASE stop  BY <1>1, <2>1, DropType DEF MonitorTop
  <2>2. CASE ~stop  BY <1>1, <2>2 DEF MonitorTop
  <2>3. QED  BY <2>1, <2>2
<1>2. CASE MonitorLook \/ MonitorRefused  BY <1>2 DEF MonitorLook, MonitorRefused
<1>3. CASE MonitorOpen  BY <1>3 DEF MonitorOpen, StartOpen
<1>4. CASE MonitorOk  BY <1>4 DEF MonitorOk, Received
<1>5. CASE MonitorErr  BY <1>5 DEF MonitorErr, Received
<1>6. CASE MonitorTimeout  BY <1>6 DEF MonitorTimeout, TimedOut
<1>7. CASE MonitorGiveUp
  <2>1. CASE channel = {"built"}  BY <1>7, <2>1, DropType DEF MonitorGiveUp, GiveUp
  <2>2. CASE channel # {"built"}  BY <1>7, <2>2 DEF MonitorGiveUp, GiveUp
  <2>3. QED  BY <2>1, <2>2
<1>8. CASE MonitorInstall  BY <1>8, DropType DEF MonitorInstall
<1>9. QED  BY <1>1, <1>2, <1>3, <1>4, <1>5, <1>6, <1>7, <1>8 DEF Monitor

\* In every reachable state each stream has one owner.
THEOREM OwnershipHolds == Safety => []Ownership
<1>1. Init => Ownership
  BY StreamsAssumption DEF StreamsAssumption, Init, OpenInit, Ownership, InnerOwned,
     FreshOwned, OpenOwned
<1>2. TypeOK /\ Ownership /\ [Next]_vars => Ownership'
  <2> SUFFICES ASSUME TypeOK, Ownership, [Next]_vars PROVE Ownership'  OBVIOUS
  <2>1. CASE UNCHANGED vars
    BY <2>1 DEF vars, openVars, Ownership, InnerOwned, FreshOwned, OpenOwned
  <2>2. CASE DropGuard
    BY <2>2 DEF DropGuard, openVars, Ownership, InnerOwned, FreshOwned, OpenOwned
  <2>3. QED  BY <2>1, <2>2, MonitorOwnership, BackendOwnership DEF Next
<1>3. QED  BY <1>1, <1>2, TypeCorrect, PTL DEF Safety

\* The monitor never replaces a stream that was not reported down, unless the
\* guard is gone: what it saw before its sleep and the open is still so.
THEOREM NoWorkingStreamReplaced == Safety => ReplacedOnlyWhenDown
<1>1. Ownership /\ [Next]_vars => [inner' # inner => phase[inner] = "down" \/ stop]_vars
  <2> SUFFICES ASSUME Ownership, Next, inner' # inner
               PROVE  phase[inner] = "down" \/ stop
    OBVIOUS
  <2>1. CASE MonitorTop  BY <2>1 DEF MonitorTop
  <2>2. CASE MonitorInstall  BY <2>2 DEF MonitorInstall, Ownership, InnerOwned
  <2>3. QED
    BY <2>1, <2>2 DEF Next, DropGuard, Monitor, MonitorLook, MonitorRefused, MonitorOpen,
       MonitorOk, MonitorErr, MonitorTimeout, MonitorGiveUp, Backend
<1>2. QED  BY <1>1, OwnershipHolds, PTL DEF Safety, ReplacedOnlyWhenDown

-----------------------------------------------------------------------------
(* The guard implements ReconnectingOutput. *)

\* Every step of the monitor is a step of the output it maintains, or none.
LEMMA MonitorImplements ==
    ASSUME TypeOK, Ownership, Monitor
    PROVE  Output!Next \/ UNCHANGED Output!linkVars
<1> USE StreamsAssumption
    DEF StreamsAssumption, TypeOK, OpenTypeOK, Ownership, InnerOwned, FreshOwned, OpenOwned,
        openVars, Output!linkVars, Link
<1>1. CASE MonitorTop
  <2>1. CASE stop
    BY <1>1, <2>1, DropType DEF MonitorTop, Output!Next, Output!Close
  <2>2. CASE ~stop  BY <1>1, <2>2 DEF MonitorTop
  <2>3. QED  BY <2>1, <2>2
<1>2. CASE MonitorLook \/ MonitorRefused  BY <1>2 DEF MonitorLook, MonitorRefused
<1>3. CASE MonitorOpen  BY <1>3 DEF MonitorOpen, StartOpen
<1>4. CASE MonitorOk \/ MonitorErr  BY <1>4 DEF MonitorOk, MonitorErr, Received
<1>5. CASE MonitorTimeout  BY <1>5 DEF MonitorTimeout, TimedOut
<1>6. CASE MonitorGiveUp  BY <1>6, DropType DEF MonitorGiveUp, GiveUp
<1>7. CASE MonitorInstall
  BY <1>7, DropType DEF MonitorInstall, Output!Next, Output!Replace
<1>8. QED  BY <1>1, <1>2, <1>3, <1>4, <1>5, <1>6, <1>7 DEF Monitor

\* So is every step of the backend.
LEMMA BackendImplements ==
    ASSUME TypeOK, Ownership, NEW s \in Streams, Backend(s)
    PROVE  Output!Next \/ UNCHANGED Output!linkVars
<1> USE StreamsAssumption
    DEF StreamsAssumption, TypeOK, OpenTypeOK, Ownership, InnerOwned, OpenOwned,
        Output!linkVars, Link
<1>1. UNCHANGED inner  BY DEF Backend
<1>2. CASE BackendBuilds(s) \/ BackendFails(s)
  BY <1>1, <1>2 DEF BackendBuilds, BackendFails
<1>3. CASE WorkerSends(s)  BY <1>1, <1>3, DropType DEF WorkerSends
<1>4. CASE StreamDies(s)
  BY <1>1, <1>4 DEF StreamDies, Output!Next, Output!Break
<1>5. CASE ErrorCallback(s)
  BY <1>1, <1>5 DEF ErrorCallback, Output!Next, Output!Show
<1>6. QED  BY <1>2, <1>3, <1>4, <1>5 DEF Backend, Worker

\* Whatever the monitor, the workers and the devices do, the guard behaves as a
\* reconnecting output: only a fresh stream hides a break that was shown.
THEOREM GuardIsReconnectingOutput == Safety => Output!Safety
<1>1. Init => Output!Init
  BY StreamsAssumption DEF StreamsAssumption, Init, OpenInit, Output!Init, Link
<1>2. TypeOK /\ Ownership /\ [Next]_vars => [Output!Next]_(Output!linkVars)
  <2> SUFFICES ASSUME TypeOK, Ownership, [Next]_vars
               PROVE  Output!Next \/ UNCHANGED Output!linkVars
    OBVIOUS
  <2>1. CASE UNCHANGED vars
    BY <2>1 DEF vars, openVars, Output!linkVars, Link
  <2>2. CASE DropGuard
    BY <2>2 DEF DropGuard, openVars, Output!linkVars, Link
  <2>3. QED  BY <2>1, <2>2, MonitorImplements, BackendImplements DEF Next
<1>3. QED
  BY <1>1, <1>2, TypeCorrect, OwnershipHolds, PTL DEF Safety, Output!Safety
=============================================================================
