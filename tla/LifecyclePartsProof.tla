------------------------ MODULE LifecyclePartsProof -------------------------
(***************************************************************************)
(* What is proved of CpalRecovery and, as a part of LifecycleParts, of     *)
(* PulseConnection, for every value of their constants: samples are queued *)
(* for the current stream only, a loss stays visible, the server keeps no  *)
(* stray stream, and what opens is what was named, listed and predicted.   *)
(***************************************************************************)
EXTENDS LifecycleParts, NumberLemmas, TLAPS

\* Each part of LifecycleParts behaves as its component: the steps of the others stutter.
THEOREM PartsAreComponents == PartsSpec => Safety /\ Guard!Safety /\ Connecting!Safety
<1>1. PartsInit => Init /\ Guard!Init /\ Connecting!Init  BY DEF PartsInit
<1>2. [PartsNext]_partsVars =>
         [Next]_vars /\ [Guard!Next]_(Guard!vars) /\ [Connecting!Next]_(Connecting!vars)
  <2> SUFFICES ASSUME [PartsNext]_partsVars
               PROVE  /\ Next \/ UNCHANGED vars
                      /\ Guard!Next \/ UNCHANGED (Guard!vars)
                      /\ Connecting!Next \/ UNCHANGED (Connecting!vars)
    OBVIOUS
  <2>1. Next \/ UNCHANGED recoveryVars  BY DEF PartsNext, partsVars
  <2>2. Guard!Next \/ UNCHANGED guardVars  BY DEF PartsNext, partsVars
  <2>3. Connecting!Next \/ UNCHANGED pulseVars  BY DEF PartsNext, partsVars
  <2>4. UNCHANGED recoveryVars => UNCHANGED vars
    BY DEF recoveryVars, vars, openVars, innerVars, monitorVars, ownerVars
  <2>5. UNCHANGED guardVars => UNCHANGED (Guard!vars)
    BY DEF guardVars, Guard!vars, Guard!openVars
  <2>6. UNCHANGED pulseVars => UNCHANGED (Connecting!vars)
    BY DEF pulseVars, Connecting!vars, Connecting!connVars, Connecting!appVars, Connecting!queueVars
  <2> QED  BY <2>1, <2>2, <2>3, <2>4, <2>5, <2>6
<1> QED  BY <1>1, <1>2, PTL DEF PartsSpec, Safety, Guard!Safety, Connecting!Safety

\* The invariant holds of PulseConnection, and so of it as a part.

-----------------------------------------------------------------------------
(* CpalRecovery. *)

\* The thread's two swaps are one to anybody who takes the mutex: outside the
\* locked region the handle writes to the ring of the current stream, and what
\* is being installed is a stream.
SwapInv ==
    /\ mpc # "install" => slot = Current
    /\ mpc \in {"lock", "install"} => fresh # NoStream
    /\ mpc = "install" => slot = fresh
    /\ mpc = "clear" => installed # NoStream
    /\ mpc \in {"wait", "give_up"} => attempt # NoStream

\* A step of the owner swaps nothing.
LEMMA OwnerSwap ==
    ASSUME SwapInv, Owner
    PROVE  SwapInv'
<1>1. UNCHANGED <<slot, installed, fresh, mpc, attempt>>
  BY DEF Owner, CallWrite, Write, WritePush, WriteOverrun, CallFlush, FlushFlag, FlushRing,
     FlushAgain, FlushTimeout, Pause, Resume, SetPaused, DropHandle, Join, DropStream, Goto,
     openVars, innerVars, monitorVars
<1>2. QED  BY <1>1 DEF SwapInv, Current

\* Nor does a worker, a device or a callback.
LEMMA BackendSwap ==
    ASSUME SwapInv, NEW s \in Streams, Backend(s)
    PROVE  SwapInv'
<1>1. UNCHANGED <<slot, installed, fresh, mpc, attempt>>
  BY DEF Backend, WorkerStep, DeviceFails, StreamDies, ReportError, ErrorCallback, ReportAgain,
     AudioCallback, openVars, innerVars, monitorVars
<1>2. QED  BY <1>1 DEF SwapInv, Current

\* The thread swaps producer and stream together.
LEMMA MonitorSwaps ==
    ASSUME SwapInv, Monitor
    PROVE  SwapInv'
<1> USE DEF SwapInv, Current, openVars, innerVars
<1>1. CASE MonitorTop \/ MonitorLook \/ MonitorRefused
  BY <1>1 DEF MonitorTop, MonitorLook, MonitorRefused
<1>2. CASE MonitorOpen
  BY <1>2, StreamsAssumption DEF StreamsAssumption, MonitorOpen, StartOpen
<1>3. CASE MonitorOk \/ MonitorErr  BY <1>3 DEF MonitorOk, MonitorErr, Received
<1>4. CASE MonitorTimeout \/ MonitorGiveUp
  BY <1>4 DEF MonitorTimeout, TimedOut, MonitorGiveUp, GiveUp
<1>5. CASE MonitorSwap  BY <1>5 DEF MonitorSwap
<1>6. CASE MonitorInstall  BY <1>6 DEF MonitorInstall
<1>7. CASE MonitorClear  BY <1>7 DEF MonitorClear
<1>8. QED  BY <1>1, <1>2, <1>3, <1>4, <1>5, <1>6, <1>7 DEF Monitor

\* In every reachable state producer and stream belong together.
THEOREM SwapHolds == Safety => []SwapInv
<1>1. Init => SwapInv  BY DEF Init, OpenInit, SwapInv, Current
<1>2. SwapInv /\ [Next]_vars => SwapInv'
  <2> SUFFICES ASSUME SwapInv, [Next]_vars PROVE SwapInv'  OBVIOUS
  <2>1. CASE UNCHANGED vars
    BY <2>1 DEF vars, openVars, innerVars, monitorVars, SwapInv, Current
  <2>2. QED  BY <2>1, OwnerSwap, BackendSwap, MonitorSwaps DEF Next
<1>3. QED  BY <1>1, <1>2, PTL DEF Safety

-----------------------------------------------------------------------------
(* Types. *)

\* Dropping streams leaves every phase a phase.
LEMMA DropType ==
    ASSUME NEW set, OpenTypeOK
    PROVE  /\ Drop(set) \in [Streams -> {"free", "up", "dead", "down"}]
           /\ \A s \in Streams : Drop(set)[s] = IF s \in set THEN "free" ELSE phase[s]
BY DEF Drop, OpenTypeOK

\* A step of the owner keeps the types.
LEMMA OwnerType ==
    ASSUME TypeOK, Owner
    PROVE  TypeOK'
<1> USE DEF OwnerPcs, Goto, openVars, innerVars, monitorVars
<1>1. CASE CallWrite \/ CallFlush \/ FlushFlag \/ FlushRing \/ FlushAgain \/ FlushTimeout
  BY <1>1 DEF TypeOK, OpenTypeOK, CallWrite, CallFlush, FlushFlag, FlushRing, FlushAgain,
     FlushTimeout
<1>2. CASE Write
  <2>1. PICK n \in 1 .. Capacity + 1 : WritePush(n) \/ WriteOverrun(n)  BY <1>2 DEF Write
  <2>2. ring' \in [Streams -> 0 .. Capacity]
    <3>1. CASE WritePush(n)
      <4>1. slot \in Streams /\ ring \in [Streams -> 0 .. Capacity]  BY DEF TypeOK
      <4>2. ring[slot] + n \in 0 .. Capacity
        BY <3>1, <4>1, CapacityAssumption DEF WritePush, CapacityAssumption
      <4>3. QED  BY <3>1, <4>1, <4>2 DEF WritePush
    <3>2. CASE WriteOverrun(n)  BY <3>2 DEF WriteOverrun, TypeOK
    <3>3. QED  BY <2>1, <3>1, <3>2
  <2>3. QED  BY <2>1, <2>2 DEF WritePush, WriteOverrun, TypeOK, OpenTypeOK
<1>3. CASE Pause \/ Resume
  BY <1>3, StreamsAssumption DEF Pause, Resume, SetPaused, TypeOK, OpenTypeOK, StreamsAssumption
<1>4. CASE DropHandle \/ Join  BY <1>4 DEF DropHandle, Join, TypeOK, OpenTypeOK
<1>5. CASE DropStream  BY <1>5, DropType DEF DropStream, TypeOK, OpenTypeOK
<1>6. QED  BY <1>1, <1>2, <1>3, <1>4, <1>5 DEF Owner

\* So does a step of the recovery thread.
LEMMA MonitorType ==
    ASSUME TypeOK, SwapInv, Monitor
    PROVE  TypeOK'
<1> USE DEF MonitorPcs, openVars, innerVars, ownerVars
<1>1. CASE MonitorTop  BY <1>1, DropType DEF MonitorTop, TypeOK, OpenTypeOK
<1>2. CASE MonitorLook \/ MonitorRefused \/ MonitorClear
  BY <1>2, ZenonT(60) DEF MonitorLook, MonitorRefused, MonitorClear, TypeOK, OpenTypeOK
<1>3. CASE MonitorOpen
  <2>1. 0 \in 0 .. Capacity  BY CapacityAssumption DEF CapacityAssumption
  <2>2. ring' \in [Streams -> 0 .. Capacity]  BY <1>3, <2>1 DEF MonitorOpen, TypeOK
  <2>3. QED  BY <1>3, <2>2 DEF MonitorOpen, StartOpen, TypeOK, OpenTypeOK
<1>4. CASE MonitorOk \/ MonitorErr
  BY <1>4 DEF MonitorOk, MonitorErr, Received, TypeOK, OpenTypeOK
<1>5. CASE MonitorTimeout  BY <1>5 DEF MonitorTimeout, TimedOut, TypeOK, OpenTypeOK
<1>6. CASE MonitorGiveUp  BY <1>6, DropType DEF MonitorGiveUp, GiveUp, TypeOK, OpenTypeOK
<1>7. CASE MonitorSwap  BY <1>7 DEF MonitorSwap, SwapInv, TypeOK, OpenTypeOK
<1>8. CASE MonitorInstall
  BY <1>8, DropType DEF MonitorInstall, TypeOK, OpenTypeOK
<1>9. QED  BY <1>1, <1>2, <1>3, <1>4, <1>5, <1>6, <1>7, <1>8 DEF Monitor

\* And one of a worker, a device or a callback.
LEMMA BackendType ==
    ASSUME TypeOK, NEW s \in Streams, Backend(s)
    PROVE  TypeOK'
<1> USE DEF openVars, innerVars, monitorVars, ownerVars
<1>1. CASE WorkerStep(s)
  <2>1. CASE BackendBuilds(s)  BY <1>1, <2>1 DEF WorkerStep, BackendBuilds, TypeOK, OpenTypeOK
  <2>2. CASE BackendFails(s)  BY <1>1, <2>2 DEF WorkerStep, BackendFails, TypeOK, OpenTypeOK
  <2>3. CASE WorkerSends(s)
    BY <1>1, <2>3, DropType DEF WorkerStep, WorkerSends, TypeOK, OpenTypeOK
  <2>4. QED  BY <1>1, <2>1, <2>2, <2>3 DEF WorkerStep, Worker
<1>2. CASE DeviceFails(s) \/ ReportError(s) \/ ReportAgain(s)
  BY <1>2 DEF DeviceFails, StreamDies, ReportError, ErrorCallback, ReportAgain, TypeOK, OpenTypeOK
<1>3. CASE AudioCallback(s)
  <2>1. ring[s] - 1 \in 0 .. Capacity
    BY <1>3, CapacityAssumption DEF AudioCallback, TypeOK, CapacityAssumption
  <2>2. ring' \in [Streams -> 0 .. Capacity]  BY <1>3, <2>1 DEF AudioCallback, TypeOK
  <2>3. QED  BY <1>3, <2>2 DEF AudioCallback, TypeOK, OpenTypeOK
<1>4. QED  BY <1>1, <1>2, <1>3 DEF Backend

\* Every reachable state is well typed: no ring ever holds more than its capacity.
THEOREM TypeCorrect == Safety => []TypeOK
<1>1. Init => TypeOK
  <2> SUFFICES ASSUME Init PROVE TypeOK  OBVIOUS
  <2>1. OpenTypeOK
    BY StreamsAssumption DEF StreamsAssumption, Init, OpenInit, OpenTypeOK
  <2>2. ring \in [Streams -> 0 .. Capacity]
    BY CapacityAssumption DEF CapacityAssumption, Init
  <2>3. QED
    BY <2>1, <2>2, StreamsAssumption DEF StreamsAssumption, Init, TypeOK, MonitorPcs, OwnerPcs
<1>2. TypeOK /\ SwapInv /\ [Next]_vars => TypeOK'
  <2> SUFFICES ASSUME TypeOK, SwapInv, [Next]_vars PROVE TypeOK'  OBVIOUS
  <2>1. CASE UNCHANGED vars
    BY <2>1 DEF vars, openVars, innerVars, monitorVars, ownerVars, TypeOK, OpenTypeOK
  <2>2. QED  BY <2>1, OwnerType, MonitorType, BackendType DEF Next
<1>3. QED  BY <1>1, <1>2, SwapHolds, PTL DEF Safety

-----------------------------------------------------------------------------
(* What the handle's owner relies on. *)

\* A step of the owner queues samples for the stream that is current.
LEMMA OwnerQueues ==
    ASSUME TypeOK, SwapInv, Owner, NEW s \in Streams, ring'[s] > ring[s]
    PROVE  s = Current
<1>1. ring \in [Streams -> 0 .. Capacity] /\ ring[s] \in 0 .. Capacity  BY DEF TypeOK
<1>0. Capacity \in Nat /\ ~(ring[s] > ring[s])
  BY <1>1, CapacityAssumption DEF CapacityAssumption
<1>2. CASE Write
  <2>1. PICK n \in 1 .. Capacity + 1 : WritePush(n) \/ WriteOverrun(n)  BY <1>2 DEF Write
  <2>2. CASE WritePush(n)
    <3>1. slot = Current  BY <2>2 DEF WritePush, Locked, SwapInv
    <3>2. s = slot  BY <1>1, <2>2 DEF WritePush
    <3>3. QED  BY <3>1, <3>2
  <2>3. CASE WriteOverrun(n)  BY <1>0, <2>3 DEF WriteOverrun
  <2>4. QED  BY <2>1, <2>2, <2>3
<1>3. CASE ~Write
  <2>1. ring' = ring
    BY <1>3 DEF Owner, CallWrite, CallFlush, FlushFlag, FlushRing, FlushAgain, FlushTimeout,
       Pause, Resume, SetPaused, DropHandle, Join, DropStream
  <2>2. QED  BY <1>0, <2>1
<1>4. QED  BY <1>2, <1>3

\* Samples are only ever added to the ring of the current stream, at a moment
\* when the thread is not half way through a swap.
THEOREM SamplesReachTheCurrentStream == Safety => QueuedForCurrentStream
<1>1. TypeOK /\ SwapInv /\ [Next]_vars
        => [\A s \in Streams : ring'[s] > ring[s] => s = Current]_vars
  <2> SUFFICES ASSUME TypeOK, SwapInv, Next, NEW s \in Streams, ring'[s] > ring[s]
               PROVE  s = Current
    OBVIOUS
  <2>1. ring \in [Streams -> 0 .. Capacity] /\ ring[s] \in 0 .. Capacity  BY DEF TypeOK
  <2>2. Capacity \in Nat  BY CapacityAssumption DEF CapacityAssumption
  <2>3. ~Monitor
    <3>1. Monitor => ring' = ring \/ (\E t \in Streams : ring' = [ring EXCEPT ![t] = 0])
      BY DEF Monitor, MonitorTop, MonitorLook, MonitorRefused, MonitorOpen, StartOpen,
         MonitorOk, MonitorErr, MonitorTimeout, MonitorGiveUp, MonitorSwap, MonitorInstall,
         MonitorClear
    <3>2. ~(0 > ring[s]) /\ ~(ring[s] > ring[s])  BY <2>1, <2>2
    <3>3. QED  BY <2>1, <3>1, <3>2
  <2>4. \A t \in Streams : ~Backend(t)
    <3> SUFFICES ASSUME NEW t \in Streams, Backend(t) PROVE FALSE  OBVIOUS
    <3>1. CASE AudioCallback(t)
      <4>1. ring' = [ring EXCEPT ![t] = @ - 1]  BY <3>1 DEF AudioCallback
      <4>2. ~(ring[s] - 1 > ring[s]) /\ ~(ring[s] > ring[s])  BY <2>1, <2>2
      <4>3. QED  BY <2>1, <4>1, <4>2
    <3>2. CASE ring' = ring
      <4>1. ~(ring[s] > ring[s])  BY <2>1, <2>2
      <4>2. QED  BY <3>2, <4>1
    <3>3. QED
      BY <3>1, <3>2 DEF Backend, WorkerStep, DeviceFails, ReportError, ReportAgain
  <2>5. QED  BY <2>3, <2>4, OwnerQueues DEF Next
<1>2. QED  BY <1>1, TypeCorrect, SwapHolds, PTL DEF Safety, QueuedForCurrentStream

\* No failed attempt to reopen hides the failure of the first stream: the flag
\* is cleared with a replacement in place or not at all.
THEOREM LossIsNotHidden == Safety => []LossStaysVisible
<1>1. Init => LossStaysVisible
  BY StreamsAssumption DEF StreamsAssumption, Init, OpenInit, LossStaysVisible
<1>2. TypeOK /\ SwapInv /\ LossStaysVisible /\ [Next]_vars => LossStaysVisible'
  <2> SUFFICES ASSUME TypeOK, SwapInv, LossStaysVisible, [Next]_vars
               PROVE  LossStaysVisible'
    OBVIOUS
  <2> USE StreamsAssumption DEF StreamsAssumption, LossStaysVisible, TypeOK, OpenTypeOK, openVars
  <2>1. CASE UNCHANGED vars  BY <2>1 DEF vars, innerVars, ownerVars
  <2>2. CASE Owner
    <3>1. CASE DropStream  BY <3>1 DEF DropStream
    <3>2. CASE ~DropStream
      <4>1. UNCHANGED <<phase, disconnected, installed, hasStream>>
        BY <2>2, <3>2 DEF Owner, CallWrite, Write, WritePush, WriteOverrun, CallFlush,
           FlushFlag, FlushRing, FlushAgain, FlushTimeout, Pause, Resume, SetPaused,
           DropHandle, Join, Goto, innerVars
      <4>2. QED  BY <4>1
    <3>3. QED  BY <3>1, <3>2
  <2>3. CASE Monitor
    <3>1. CASE MonitorTop \/ MonitorGiveUp \/ MonitorInstall
      <4>1. UNCHANGED <<disconnected, hasStream>>
        BY <3>1 DEF MonitorTop, MonitorGiveUp, MonitorInstall, ownerVars
      <4>2. phase'[Initial] = "down" => phase[Initial] = "down"
        BY <3>1, DropType DEF MonitorTop, MonitorGiveUp, GiveUp, MonitorInstall
      <4>3. installed' = NoStream => installed = NoStream \/ mpc = "install"
        BY <3>1 DEF MonitorTop, MonitorGiveUp, MonitorInstall, innerVars
      <4>4. installed' = NoStream => installed = NoStream
        BY <3>1, <4>3 DEF MonitorTop, MonitorGiveUp, MonitorInstall, SwapInv
      <4>5. QED  BY <4>1, <4>2, <4>4
    <3>2. CASE MonitorClear  BY <3>2 DEF MonitorClear, SwapInv, innerVars
    <3>3. CASE MonitorLook \/ MonitorRefused \/ MonitorOpen \/ MonitorOk \/ MonitorErr
               \/ MonitorTimeout \/ MonitorSwap
      BY <3>3 DEF MonitorLook, MonitorRefused, MonitorOpen, StartOpen, MonitorOk, MonitorErr,
         Received, MonitorTimeout, TimedOut, MonitorSwap, innerVars, ownerVars
    <3>4. QED  BY <2>3, <3>1, <3>2, <3>3 DEF Monitor
  <2>4. ASSUME NEW s \in Streams, Backend(s)  PROVE LossStaysVisible'
    <3>1. UNCHANGED <<installed, hasStream>>
      BY <2>4 DEF Backend, WorkerStep, DeviceFails, ReportError, ReportAgain, AudioCallback,
         innerVars, ownerVars
    <3>2. CASE ReportError(s) \/ ReportAgain(s)
      BY <3>2 DEF ReportError, ReportAgain
    <3>3. CASE WorkerStep(s) \/ DeviceFails(s) \/ AudioCallback(s)
      <4>1. disconnected' = disconnected
        BY <3>3 DEF WorkerStep, DeviceFails, AudioCallback
      <4>2. phase'[Initial] = "down" => phase[Initial] = "down"
        BY <3>3, DropType DEF WorkerStep, Worker, BackendBuilds, BackendFails, WorkerSends,
           DeviceFails, StreamDies, AudioCallback
      <4>3. QED  BY <3>1, <4>1, <4>2
    <3>4. QED  BY <2>4, <3>2, <3>3 DEF Backend
  <2>5. QED  BY <2>1, <2>2, <2>3, <2>4 DEF Next
<1>3. QED  BY <1>1, <1>2, TypeCorrect, SwapHolds, PTL DEF Safety

-----------------------------------------------------------------------------
(* PulseConnection: the invariant. *)

\* The format of a device, if there is a conversion for it.
Wired == Connecting!WireFormats \cup {None}

\* A configuration a stream can be opened with on a device of that format.
Negotiable(config, native) ==
    /\ Connecting!ValidateStreamConfig(config)
    /\ Connecting!NegotiateFormat(config.sample_format, config.preferred_formats, native) # None

\* The streams the server may keep for a connection.
ServerStreams == Connecting!Kinds \X {"opened", "late"}

\* The types the proofs need.
ConnTypes ==
    /\ made \in 0 .. MaxConns /\ DOMAIN call = {"op", "at", "conn", "config", "native"}
    /\ server \in [Connecting!Conns -> SUBSET ServerStreams]
    /\ deletes \in [Connecting!Conns -> SUBSET Connecting!Kinds]
    /\ handles \in [Connecting!Kinds -> Connecting!Handles \cup {None}]
    /\ device # None => device.conn \in Connecting!Conns /\ device.descriptor.format \in Wired
    /\ call.at # "idle" => call.conn \in Connecting!Conns

\* What a call that opens stream k has in hand: a place for its handle, and once
\* the command is sent a configuration that passed.
Opens(k) ==
    /\ call.op \in {k, "duplex"} /\ call.config \in Configs
    /\ call.native[k] \in Wired /\ handles[k] = None

\* A duplex stream is opened output first; its output, once open, is on the
\* connection of the call.
CallInv ==
    /\ \A k \in Connecting!Kinds :
        /\ call.at \in {k, Connecting!Await[k]} => Opens(k)
        /\ call.at = Connecting!Await[k] => Negotiable(call.config, call.native[k])
    /\ call.at = "other" =>
        /\ call.op = "duplex" /\ call.config \in Configs /\ device # None
        /\ \A k \in Connecting!Kinds : handles[k] = None
    /\ call.op = "duplex" /\ call.at \in {"output", "await_output"} => Opens("input")
    /\ call.op = "duplex" /\ call.at \in {"input", "await_input"} /\ handles["output"] # None =>
        handles["output"].conn = call.conn

-----------------------------------------------------------------------------
(* PulseConnection: what is negotiated before the server is asked. *)

\* The assumption on the constants, in the words of the steps below.
LEMMA Assumed ==
    /\ MaxConns \in Nat /\ None \notin Connecting!Handles
    /\ \A e \in Environments : e.server # None => e.server \in Seq(Connecting!ServerEntries)
    /\ \A e \in Endpoints : e.role \in {"sink", "source"}
    /\ \A e, f \in Endpoints : e.name = f.name /\ e.role = f.role => e = f
    /\ Configs \subseteq Connecting!ConfigSet
BY ConnectingAssumption DEF Connecting!ConnectionAssumption

\* What the application asks for is typed.
LEMMA ConfigFields ==
    ASSUME NEW config \in Configs
    PROVE  /\ config.sample_rate \in Nat /\ config.channels \in Nat /\ config.capacity_ms \in Int
           /\ config.sample_format \in Connecting!CoreFormats \cup {None}
           /\ config.preferred_formats \in Seq(Connecting!CoreFormats)
           /\ config.buffer_size \in Nat \cup {None} /\ config \in Connecting!ConfigSet
BY Assumed DEF Connecting!ConfigSet

\* A format of the core has a format on the wire or none, and one of the wire has
\* one in the core.
LEMMA FormatsMap ==
    /\ \A f \in Connecting!CoreFormats : Connecting!FromCore[f] \in Wired
    /\ \A f \in Connecting!WireFormats : Connecting!ToCore[f] \in Connecting!CoreFormats
    /\ \A f \in Connecting!WireFormats : Connecting!BytesPerSample(f) \in Nat \ {0}
<1>1. \A f \in Connecting!CoreFormats : Connecting!FromCore[f] \in Wired
  BY DEF Connecting!CoreFormats, Connecting!WireFormats, Connecting!FromCore, Wired
<1>2. \A f \in Connecting!WireFormats : Connecting!ToCore[f] \in Connecting!CoreFormats
  BY DEF Connecting!CoreFormats, Connecting!WireFormats, Connecting!ToCore
<1>3. \A f \in Connecting!WireFormats : Connecting!BytesPerSample(f) \in Nat \ {0}
  BY DEF Connecting!WireFormats, Connecting!BytesPerSample
<1> QED  BY <1>1, <1>2, <1>3

\* What is negotiated is a format of the wire, or refused.
LEMMA FormatIsWired ==
    ASSUME NEW config \in Configs, NEW native \in Wired
    PROVE  Connecting!NegotiateFormat(config.sample_format, config.preferred_formats, native) \in Wired
<1> DEFINE P == config.preferred_formats
           ok == {i \in DOMAIN P : Connecting!FromCore[P[i]] # None}
<1>1. Connecting!FirstRepresentable(P) \in Wired
  <2>1. CASE ok = {}  BY <2>1 DEF Connecting!FirstRepresentable, Wired
  <2>2. CASE ok # {}
    <3>1. \A i \in DOMAIN P : i \in Nat /\ P[i] \in Connecting!CoreFormats  BY ConfigFields
    <3>2. ok \in SUBSET Nat  BY <3>1
    <3>3. \E i \in ok : \A j \in ok : i <= j  BY <2>2, <3>2, LeastNumber
    <3> DEFINE first == CHOOSE i \in ok : \A j \in ok : i <= j
    <3>4. first \in ok  BY <3>3
    <3>5. Connecting!FirstRepresentable(P) = Connecting!FromCore[P[first]]
      BY <2>2 DEF Connecting!FirstRepresentable
    <3> HIDE DEF first
    <3>6. P[first] \in Connecting!CoreFormats  BY <3>1, <3>4
    <3> QED  BY <3>5, <3>6, FormatsMap
  <2> QED  BY <2>1, <2>2
<1> HIDE DEF P
<1>2. config.sample_format # None => Connecting!FromCore[config.sample_format] \in Wired
  BY ConfigFields, FormatsMap
<1>3. "float32le" \in Wired  BY DEF Wired, Connecting!WireFormats
<1> QED  BY <1>1, <1>2, <1>3 DEF Connecting!NegotiateFormat, P

\* A frame has bytes.
LEMMA FrameHasBytes ==
    ASSUME NEW f \in Connecting!WireFormats, NEW channels \in Nat
    PROVE  Connecting!FrameSize(f, channels) \in Nat \ {0}
<1>1. PICK b \in Nat \ {0} : b = Connecting!BytesPerSample(f)  BY FormatsMap
<1>2. PICK c \in Nat \ {0} : c = Connecting!Greatest(channels, 1)  BY DEF Connecting!Greatest
<1>3. b * c \in Nat \ {0}  OBVIOUS
<1> QED  BY <1>1, <1>2, <1>3 DEF Connecting!FrameSize

\* A period has frames, whatever was asked for.
LEMMA PeriodHasFrames ==
    ASSUME NEW config \in Configs
    PROVE  Connecting!PeriodFrames(config) \in Nat \ {0}
<1> DEFINE asked == IF config.buffer_size = None THEN Connecting!DefaultPeriodFrames
                    ELSE config.buffer_size
<1>1. asked \in Nat  BY ConfigFields DEF Connecting!DefaultPeriodFrames
<1> HIDE DEF asked
<1>2. PICK least \in Nat : least = Connecting!Smallest(asked, Connecting!MaxPeriodFrames)
  BY <1>1 DEF Connecting!Smallest, Connecting!MaxPeriodFrames
<1>3. Connecting!Greatest(Connecting!MinPeriodFrames, least) \in Nat \ {0}
  BY DEF Connecting!Greatest, Connecting!MinPeriodFrames
<1> QED  BY <1>2, <1>3 DEF Connecting!PeriodFrames, asked

\* The server is asked to hold eight periods, and the attributes are numbers.
LEMMA AttributesHold ==
    ASSUME NEW config \in Configs, NEW f \in Connecting!WireFormats, NEW p, NEW size,
           p = Connecting!PeriodFrames(config), size = Connecting!FrameSize(f, config.channels),
           NEW attrs \in {Connecting!PlaybackBufferAttrs(p, config.channels, f),
                          Connecting!RecordBufferAttrs(p, config.channels, f)}
    PROVE  attrs \in Connecting!Attributes /\ attrs.max_length = (p * 8) * size
<1>1. p \in Nat \ {0} /\ size \in Nat \ {0}
  BY ConfigFields, PeriodHasFrames, FrameHasBytes
<1>2. PICK bytes \in Nat : bytes = Connecting!PeriodBytes(p, config.channels, f) /\ bytes = p * size
  <2>1. p * size \in Nat /\ p * size >= size  BY <1>1
  <2>2. Connecting!PeriodBytes(p, config.channels, f) = p * size
    BY <1>1, <2>1 DEF Connecting!PeriodBytes, Connecting!Greatest
  <2> QED  BY <2>1, <2>2
<1>3. bytes * 8 \in Nat /\ bytes * 4 \in Nat  BY <1>2
<1>4. attrs \in Connecting!Attributes /\ attrs.max_length = bytes * 8
  <2>1. CASE attrs = Connecting!PlaybackBufferAttrs(p, config.channels, f)
    BY <1>2, <1>3, <2>1 DEF Connecting!PlaybackBufferAttrs, Connecting!PlaybackMaxPeriods,
       Connecting!PlaybackTargetPeriods, Connecting!Attributes
  <2>2. CASE attrs = Connecting!RecordBufferAttrs(p, config.channels, f)
    BY <1>2, <1>3, <2>2 DEF Connecting!RecordBufferAttrs, Connecting!PlaybackMaxPeriods,
       Connecting!Attributes
  <2> QED  BY <2>1, <2>2
<1>5. bytes * 8 = (p * 8) * size  BY <1>1, <1>2
<1> QED  BY <1>4, <1>5

\* The ring holds whole frames, and no less than the server may ask for at once.
LEMMA RingHolds ==
    ASSUME NEW config \in Configs, NEW f \in Connecting!WireFormats, NEW p, NEW size, NEW capacity,
           p = Connecting!PeriodFrames(config), size = Connecting!FrameSize(f, config.channels),
           capacity = Connecting!RingCapacityBytes(config, f)
    PROVE  capacity \in Nat /\ capacity % size = 0 /\ capacity >= (p * 8) * size
<1>1. p \in Nat \ {0} /\ size \in Nat \ {0}
  BY ConfigFields, PeriodHasFrames, FrameHasBytes
<1> DEFINE ms == IF config.capacity_ms > 0 THEN config.capacity_ms ELSE Connecting!DefaultCapacityMs
           frames == Connecting!CeilDiv(config.sample_rate * ms, 1000)
<1>2. ms \in Nat \ {0} /\ config.sample_rate \in Nat  BY ConfigFields DEF Connecting!DefaultCapacityMs
<1> HIDE DEF ms
<1>3. PICK x \in Nat : x = config.sample_rate * ms  BY <1>2
<1>4. frames \in Nat
  <2>1. (x + 1000 - 1) \div 1000 \in Nat  OBVIOUS
  <2> QED  BY <1>3, <2>1 DEF Connecting!CeilDiv
<1> HIDE DEF frames
<1>5. PICK n \in Nat : n = Connecting!Greatest(frames, p * 8) /\ n >= p * 8
  BY <1>1, <1>4 DEF Connecting!Greatest
<1>6. capacity = n * size
  BY <1>5 DEF Connecting!RingCapacityBytes, Connecting!PlaybackMaxPeriods, frames, ms
<1>7. n * size \in Nat /\ (n * size) % size = 0  BY <1>1, ProductNat, ProductMod
<1>8. n * size >= (p * 8) * size
  <2>1. PICK m \in Nat : m = n - p * 8  BY <1>1, <1>5
  <2>2. n = p * 8 + m /\ m * size \in Nat  BY <1>1, <1>5, <2>1
  <2>3. n * size = (p * 8) * size + m * size  BY <1>1, <2>2
  <2>4. (p * 8) * size \in Nat  BY <1>1
  <2> QED  BY <2>2, <2>3, <2>4
<1> QED  BY <1>6, <1>7, <1>8

\* Each channel has a position no other has.
LEMMA PositionsHold ==
    ASSUME NEW n \in 1 .. 32, NEW map, map = Connecting!ChannelMapFor(n)
    PROVE  /\ map \in Seq({"mono", "surround", "aux"} \X Nat) /\ Len(map) = n
           /\ \A i, j \in DOMAIN map : map[i] = map[j] => i = j
<1>1. CASE n = 1
  <2>1. map = <<<<"mono", 1>>>>  BY <1>1 DEF Connecting!ChannelMapFor
  <2> QED  BY <1>1, <2>1
<1>2. CASE n # 1
  <2> DEFINE At(i) == IF i <= 8 THEN <<"surround", i>> ELSE <<"aux", i - 8>>
  <2>0. /\ Connecting!Smallest(n, 32) = n
        /\ \A i \in 1 .. n : Connecting!Smallest(i - 8, 24) = i - 8
    BY DEF Connecting!Smallest
  <2>1. map = [i \in 1 .. n |-> At(i)]
    <3>1. ~(n <= 1)  BY <1>2
    <3>2. map = [i \in 1 .. n |-> IF i <= 8 THEN <<"surround", i>>
                                  ELSE <<"aux", Connecting!Smallest(i - 8, 24)>>]
      BY <2>0, <3>1 DEF Connecting!ChannelMapFor, Connecting!MaxChannels, Connecting!SurroundPositions
    <3> QED  BY <2>0, <3>2
  <2>2. \A i \in 1 .. n : At(i) \in {"mono", "surround", "aux"} \X Nat  OBVIOUS
  <2>3. \A i, j \in 1 .. n : At(i) = At(j) => i = j
    <3> SUFFICES ASSUME NEW i \in 1 .. n, NEW j \in 1 .. n, At(i) = At(j) PROVE i = j  OBVIOUS
    <3>1. At(i)[1] = At(j)[1] /\ At(i)[2] = At(j)[2]  OBVIOUS
    <3>2. CASE i <= 8 /\ j <= 8  BY <3>1, <3>2
    <3>3. CASE ~(i <= 8) /\ ~(j <= 8)
      <4>1. i - 8 = j - 8  BY <3>1, <3>3
      <4> QED  BY <4>1
    <3>4. CASE i <= 8 /\ ~(j <= 8)  BY <3>1, <3>4
    <3>5. CASE ~(i <= 8) /\ j <= 8  BY <3>1, <3>5
    <3> QED  BY <3>2, <3>3, <3>4, <3>5
  <2> HIDE DEF At
  <2>4. map \in [1 .. n -> {"mono", "surround", "aux"} \X Nat]  BY <2>1, <2>2
  <2>5. map \in Seq({"mono", "surround", "aux"} \X Nat) /\ Len(map) = n /\ DOMAIN map = 1 .. n
    BY <2>4
  <2> QED  BY <2>1, <2>3, <2>5
<1> QED  BY <1>1, <1>2

\* What holds of the handle of an open stream.
Predicted(h) ==
    /\ h.negotiated = Connecting!NegotiateOutput(h.config, h.native)
    /\ h.capacity % h.frame = 0 /\ h.capacity >= h.attrs.max_length
    /\ Len(h.positions) = h.config.channels
    /\ \A i, j \in DOMAIN h.positions : h.positions[i] = h.positions[j] => i = j

\* A stream whose specification the server confirmed is what was predicted.
LEMMA OpenedHolds ==
    ASSUME CallInv, NEW k \in Connecting!Kinds, call.at = Connecting!Await[k], call.conn \in Nat, NEW actual,
           Connecting!VerifyNegotiatedSpec(actual, Connecting!Stream(k)),
           NEW h, h = Connecting!Opened(Connecting!Stream(k), actual)
    PROVE  h \in Connecting!Handles /\ h # None /\ h.conn = call.conn /\ Predicted(h)
<1> DEFINE config == call.config
           native == call.native[k]
           f == Connecting!NegotiateFormat(config.sample_format, config.preferred_formats, native)
           p == Connecting!PeriodFrames(config)
           size == Connecting!FrameSize(f, config.channels)
           attrs == IF k = "output" THEN Connecting!PlaybackBufferAttrs(p, config.channels, f)
                    ELSE Connecting!RecordBufferAttrs(p, config.channels, f)
           capacity == Connecting!RingCapacityBytes(config, f)
           positions == Connecting!ChannelMapFor(config.channels)
           negotiated == [sample_rate |-> config.sample_rate, channels |-> config.channels,
                          buffer_size |-> p, sample_format |-> Connecting!ToCore[f]]
<1>1. config \in Configs /\ native \in Wired /\ Negotiable(config, native)
  BY DEF CallInv, Opens
<1>2. f \in Connecting!WireFormats /\ f # None
  BY <1>1, FormatIsWired DEF Negotiable, Wired
<1>3. config.channels \in 1 .. 32 /\ Connecting!ValidateStreamConfig(config)
  BY <1>1 DEF Negotiable, Connecting!ValidateStreamConfig, Connecting!MaxChannels
<1>4. /\ Connecting!Stream(k) =
             [conn |-> call.conn, config |-> config, native |-> native, format |-> f,
              attrs |-> attrs, positions |-> positions, capacity |-> capacity, buffer_size |-> p]
  BY DEF Connecting!Stream
<1> HIDE DEF config, native, f, p, size, attrs, capacity, positions, negotiated
<1>5. actual = [rate |-> config.sample_rate, channels |-> config.channels, format |-> f]
  BY <1>4 DEF Connecting!VerifyNegotiatedSpec, Connecting!Requested
<1>6. h = [conn |-> call.conn, config |-> config, native |-> native, attrs |-> attrs, frame |-> size,
           positions |-> positions, capacity |-> capacity, negotiated |-> negotiated]
  BY <1>4, <1>5 DEF Connecting!Opened, size, negotiated
<1>7. p \in Nat /\ size \in Nat
  BY <1>1, <1>2, ConfigFields, PeriodHasFrames, FrameHasBytes DEF p, size
<1>8. attrs \in Connecting!Attributes /\ attrs.max_length = (p * 8) * size
  <2>1. attrs \in {Connecting!PlaybackBufferAttrs(p, config.channels, f),
                   Connecting!RecordBufferAttrs(p, config.channels, f)}  BY DEF attrs
  <2> QED  BY <1>1, <1>2, <2>1, AttributesHold DEF p, size
<1>9. capacity \in Nat /\ capacity % size = 0 /\ capacity >= attrs.max_length
  BY <1>1, <1>2, <1>8, RingHolds DEF p, size, capacity
<1>10. /\ positions \in Seq({"mono", "surround", "aux"} \X Nat) /\ Len(positions) = config.channels
       /\ \A i, j \in DOMAIN positions : positions[i] = positions[j] => i = j
  BY <1>3, PositionsHold DEF positions
<1>11. negotiated \in Connecting!Negotiated
  <2>1. Connecting!ToCore[f] \in Connecting!CoreFormats  BY <1>2, FormatsMap
  <2> QED  BY <1>1, <1>7, <2>1, ConfigFields DEF negotiated, Connecting!Negotiated
<1>12. h \in Connecting!Handles
  BY <1>1, <1>6, <1>7, <1>8, <1>9, <1>10, <1>11, ConfigFields DEF Connecting!Handles, Wired
<1>13. negotiated = Connecting!NegotiateOutput(config, native)
  BY <1>2, <1>3 DEF negotiated, f, p, Connecting!NegotiateOutput, Connecting!PredictNegotiated
<1>14. Predicted(h)  BY <1>6, <1>9, <1>10, <1>13 DEF Predicted
<1> QED  BY <1>6, <1>12, <1>14, Assumed

-----------------------------------------------------------------------------
(* PulseConnection: the life of a stream. *)

\* What every step of PulseConnection keeps.
ConnInv ==
    /\ ConnTypes /\ CallInv /\ NoStrayStream
    /\ \A k \in Connecting!Kinds : handles[k] # None => Predicted(handles[k])

\* Nothing is open at first.
LEMMA ConnInit == Connecting!Init => ConnInv
<1> SUFFICES ASSUME Connecting!Init PROVE ConnInv  OBVIOUS
<1>1. ConnTypes
  BY Assumed DEF Connecting!Init, ConnTypes, Connecting!NoCall
<1>2. call.at = "idle"  BY DEF Connecting!Init, Connecting!NoCall
<1>3. CallInv
  BY <1>2 DEF CallInv, Connecting!Kinds, Connecting!Await
<1>4. NoStrayStream
  BY DEF Connecting!Init, NoStrayStream, Connecting!NoStrayStream
<1>5. \A k \in Connecting!Kinds : handles[k] = None  BY DEF Connecting!Init
<1> QED  BY <1>1, <1>3, <1>4, <1>5 DEF ConnInv

\* The kinds and where a call waits for them.
LEMMA Waits ==
    /\ Connecting!Kinds = {"output", "input"}
    /\ Connecting!Await["output"] = "await_output" /\ Connecting!Await["input"] = "await_input"
BY DEF Connecting!Kinds, Connecting!Await

\* A step that touches neither the handles nor the streams, and after which no stream
\* is being opened.
LEMMA QuietCall ==
    ASSUME ConnInv, UNCHANGED <<handles, server, deletes>>,
           made' \in 0 .. MaxConns,
           device' # None => device'.conn \in Connecting!Conns /\ device'.descriptor.format \in Wired,
           call'.at \notin {"other", "output", "input", "await_output", "await_input"},
           DOMAIN call' = {"op", "at", "conn", "config", "native"},
           call'.at # "idle" => call'.conn \in Connecting!Conns
    PROVE  ConnInv'
<1>1. ConnTypes'  BY DEF ConnInv, ConnTypes
<1>2. CallInv'  BY Waits DEF CallInv
<1>3. NoStrayStream'  BY DEF ConnInv, NoStrayStream, Connecting!NoStrayStream
<1> QED  BY <1>1, <1>2, <1>3 DEF ConnInv

\* ... and one that touches no call either.
LEMMA QuietStep ==
    ASSUME ConnInv, UNCHANGED <<handles, call>>,
           UNCHANGED <<made, device>>,
           server' \in [Connecting!Conns -> SUBSET ServerStreams],
           deletes' \in [Connecting!Conns -> SUBSET Connecting!Kinds], NoStrayStream'
    PROVE  ConnInv'
<1>1. ConnTypes'  BY DEF ConnInv, ConnTypes
<1>2. CallInv'  BY DEF ConnInv, CallInv, Opens
<1> QED  BY <1>1, <1>2 DEF ConnInv

\* A call goes on, and keeps what it has in hand.
LEMMA CallGoesOn ==
    ASSUME ConnInv, NEW at, Connecting!Goto(at)
    PROVE  /\ DOMAIN call' = {"op", "at", "conn", "config", "native"} /\ call'.at = at
           /\ call'.op = call.op /\ call'.conn = call.conn
           /\ call'.config = call.config /\ call'.native = call.native
BY DEF ConnInv, ConnTypes, Connecting!Goto

\* ... and one that returns has none of it.
LEMMA CallReturns ==
    ASSUME Connecting!Return
    PROVE  DOMAIN call' = {"op", "at", "conn", "config", "native"} /\ call'.at = "idle"
BY DEF Connecting!Return, Connecting!NoCall

\* An endpoint reads as a device with a format of the wire, or none.
LEMMA DescriptorWired ==
    ASSUME NEW e, NEW default
    PROVE  Connecting!Descriptor(e, default).format \in Wired
BY DEF Connecting!Descriptor, Connecting!MapWireFormat, Wired

\* The parts of the invariant most steps need.
LEMMA ConnFacts ==
    ASSUME ConnInv
    PROVE  /\ made \in 0 .. MaxConns /\ MaxConns \in Nat
           /\ DOMAIN call = {"op", "at", "conn", "config", "native"}
           /\ device # None => device.conn \in Connecting!Conns /\ device.descriptor.format \in Wired
           /\ call.at # "idle" => call.conn \in Connecting!Conns
BY Assumed DEF ConnInv, ConnTypes

\* A call that connects starts with a place in the bound.
LEMMA StartHolds ==
    ASSUME ConnInv, NEW op, Connecting!StartConnect(op)
    PROVE  ConnInv'
<1>1. UNCHANGED <<handles, server, deletes, device>> /\ call.at = "idle" /\ made < MaxConns
  BY DEF Connecting!StartConnect, Connecting!queueVars
<1>2. CASE UNCHANGED <<made, call>>
  BY <1>1, <1>2, ConnFacts, QuietCall
<1>3. CASE /\ made' = made + 1
           /\ call' = [Connecting!NoCall EXCEPT !.op = op, !.at = "wait", !.conn = made + 1]
  <2>1. /\ call'.at = "wait" /\ call'.conn = made + 1
        /\ DOMAIN call' = {"op", "at", "conn", "config", "native"}
    BY <1>3 DEF Connecting!NoCall
  <2>2. made + 1 \in 0 .. MaxConns /\ made + 1 \in Connecting!Conns
    BY <1>1, ConnFacts DEF Connecting!Conns
  <2> QED  BY <1>1, <1>3, <2>1, <2>2, ConnFacts, QuietCall
<1> QED  BY <1>2, <1>3 DEF Connecting!StartConnect

\* The steps of a call up to a device, a listing or an error.
LEMMA LookupHolds ==
    ASSUME ConnInv,
           \/ Connecting!ReceiveResult \/ Connecting!ReceiveTimeout \/ Connecting!GiveUp
           \/ Connecting!LookupFails \/ Connecting!ServerInfo \/ Connecting!ListSinks
           \/ Connecting!ListSources \/ Connecting!OtherHalfFails
    PROVE  ConnInv'
<1>1. UNCHANGED <<handles, server, deletes, device, made>> /\ call.at # "idle"
  BY DEF Connecting!ReceiveResult, Connecting!ReceiveTimeout, Connecting!GiveUp,
     Connecting!LookupFails, Connecting!ServerInfo, Connecting!ListSinks, Connecting!ListSources,
     Connecting!OtherHalfFails, Connecting!connVars, Connecting!appVars, Connecting!queueVars
<1>2. \/ Connecting!Return
      \/ \E at \in {"server_info", "give_up", "endpoint", "sinks", "sources"} : Connecting!Goto(at)
  BY DEF Connecting!ReceiveResult, Connecting!ReceiveTimeout, Connecting!GiveUp,
     Connecting!LookupFails, Connecting!ServerInfo, Connecting!ListSinks, Connecting!ListSources,
     Connecting!OtherHalfFails
<1>3. CASE Connecting!Return
  BY <1>1, <1>3, CallReturns, ConnFacts, QuietCall
<1>4. CASE \E at \in {"server_info", "give_up", "endpoint", "sinks", "sources"} : Connecting!Goto(at)
  <2>1. PICK at \in {"server_info", "give_up", "endpoint", "sinks", "sources"} : Connecting!Goto(at)
    BY <1>4
  <2>2. /\ call'.at \in {"server_info", "give_up", "endpoint", "sinks", "sources"}
        /\ call'.conn \in Connecting!Conns /\ DOMAIN call' = {"op", "at", "conn", "config", "native"}
    BY <1>1, <2>1, CallGoesOn, ConnFacts
  <2> QED  BY <1>1, <2>2, ConnFacts, QuietCall
<1> QED  BY <1>2, <1>3, <1>4

\* A device is on the connection of the call that opened it, until it is dropped.
LEMMA DeviceHolds ==
    ASSUME ConnInv, Connecting!DropDevice \/ \E e \in Endpoints : Connecting!OpenDevice(e)
    PROVE  ConnInv'
<1>1. CASE Connecting!DropDevice
  BY <1>1, ConnFacts, QuietCall DEF Connecting!DropDevice, Connecting!connVars, Connecting!queueVars
<1>2. ASSUME NEW e \in Endpoints, Connecting!OpenDevice(e) PROVE ConnInv'
  <2> DEFINE d == Connecting!Descriptor(e, Defaults[e.role])
  <2>1. d.format \in Wired  BY DescriptorWired
  <2> HIDE DEF d
  <2>2. /\ UNCHANGED <<handles, server, deletes, made>> /\ call.at = "endpoint" /\ Connecting!Return
        /\ UNCHANGED device \/ device' = [conn |-> call.conn, descriptor |-> d]
    BY <1>2 DEF Connecting!OpenDevice, Connecting!connVars, Connecting!queueVars, d
  <2>3. device' # None => device'.conn \in Connecting!Conns /\ device'.descriptor.format \in Wired
    BY <2>1, <2>2, ConnFacts
  <2> QED  BY <2>2, <2>3, CallReturns, ConnFacts, QuietCall
<1> QED  BY <1>1, <1>2

\* Workers and reactors: a DELETE that is run is no longer queued, a CREATE that runs
\* late makes a stream nobody waited for, and a reactor that ends leaves no stream.
LEMMA BackendHolds ==
    ASSUME ConnInv, NEW c \in Connecting!Conns,
           \/ Connecting!Worker(c) \/ Connecting!RunDelete(c) \/ Connecting!Shutdown(c)
           \/ Connecting!ConnectionLost(c)
           \/ \E k \in Connecting!Kinds : Connecting!CreatedLate(c, k)
    PROVE  ConnInv'
<1>1. /\ server \in [Connecting!Conns -> SUBSET ServerStreams]
      /\ deletes \in [Connecting!Conns -> SUBSET Connecting!Kinds]
      /\ Connecting!NoStrayStream
  BY DEF ConnInv, ConnTypes, NoStrayStream
<1>2. CASE Connecting!Worker(c)
  <2>1. UNCHANGED <<handles, server, deletes, call, made, device>>
    BY <1>2 DEF Connecting!Worker, Connecting!Connected, Connecting!ConnectRefused,
       Connecting!SendResult, Connecting!appVars, Connecting!queueVars
  <2>2. NoStrayStream'  BY <1>1, <2>1 DEF NoStrayStream, Connecting!NoStrayStream
  <2> QED  BY <1>1, <2>1, <2>2, QuietStep
<1>3. CASE Connecting!RunDelete(c)
  <2>1. PICK k \in deletes[c] :
          /\ deletes' = [deletes EXCEPT ![c] = @ \ {k}]
          /\ server' = [server EXCEPT ![c] = @ \ {Connecting!Opening(k)}]
    BY <1>3 DEF Connecting!RunDelete
  <2>2. UNCHANGED <<handles, call, made, device>>
    BY <1>3 DEF Connecting!RunDelete, Connecting!appVars, Connecting!queueVars
  <2>3. NoStrayStream'
    <3> SUFFICES ASSUME NEW b \in Connecting!Conns, NEW j \in Connecting!Kinds,
                        Connecting!Opening(j) \in server'[b], handles[j] = None \/ handles[j].conn # b
                 PROVE  j \in deletes'[b]
      BY <2>2 DEF NoStrayStream, Connecting!NoStrayStream
    <3>1. Connecting!Opening(j) \in server[b]  BY <1>1, <2>1
    <3>2. j \in deletes[b]  BY <1>1, <3>1 DEF Connecting!NoStrayStream
    <3>3. ~(b = c /\ j = k)  BY <1>1, <2>1
    <3> QED  BY <1>1, <2>1, <3>2, <3>3
  <2> QED  BY <1>1, <2>1, <2>2, <2>3, QuietStep
<1>4. CASE Connecting!ReactorExits(c)
  <2>1. /\ UNCHANGED <<handles, call, made, device>>
        /\ server' = [server EXCEPT ![c] = {}] /\ deletes' = [deletes EXCEPT ![c] = {}]
    BY <1>4 DEF Connecting!ReactorExits, Connecting!appVars, Connecting!queueVars
  <2>2. NoStrayStream'  BY <1>1, <2>1 DEF NoStrayStream, Connecting!NoStrayStream
  <2> QED  BY <1>1, <2>1, <2>2, QuietStep
<1>5. ASSUME NEW k \in Connecting!Kinds, Connecting!CreatedLate(c, k) PROVE ConnInv'
  <2>1. PICK made_it \in SUBSET {Connecting!Stray(k)} :
            server' = [server EXCEPT ![c] = @ \cup made_it]
    BY <1>5 DEF Connecting!CreatedLate
  <2>2. UNCHANGED <<handles, call, made, device, deletes>>
    BY <1>5 DEF Connecting!CreatedLate, Connecting!appVars, Connecting!queueVars
  <2>3. Connecting!Stray(k) \in ServerStreams  BY DEF Connecting!Stray, ServerStreams
  <2>4. server' \in [Connecting!Conns -> SUBSET ServerStreams]  BY <1>1, <2>1, <2>3
  <2>5. \A b \in Connecting!Conns : server'[b] \subseteq server[b] \cup {Connecting!Stray(k)}
    BY <1>1, <2>1
  <2>6. \A j \in Connecting!Kinds : Connecting!Opening(j) # Connecting!Stray(k)
    BY DEF Connecting!Opening, Connecting!Stray
  <2>7. NoStrayStream'
    BY <1>1, <2>2, <2>5, <2>6 DEF NoStrayStream, Connecting!NoStrayStream
  <2> QED  BY <1>1, <2>2, <2>4, <2>7, QuietStep
<1> QED  BY <1>2, <1>3, <1>4, <1>5 DEF Connecting!Shutdown, Connecting!ConnectionLost

\* A handle that is dropped leaves a DELETE behind.
LEMMA DropHolds ==
    ASSUME ConnInv, NEW k \in Connecting!Kinds, Connecting!DropStream(k)
    PROVE  ConnInv'
<1> DEFINE c == handles[k].conn
<1>1. /\ server \in [Connecting!Conns -> SUBSET ServerStreams]
      /\ deletes \in [Connecting!Conns -> SUBSET Connecting!Kinds]
      /\ handles \in [Connecting!Kinds -> Connecting!Handles \cup {None}]
      /\ Connecting!NoStrayStream
  BY DEF ConnInv, ConnTypes, NoStrayStream
<1>2. /\ call.at = "idle" /\ UNCHANGED <<server, call, made, device>>
      /\ deletes' = [deletes EXCEPT ![c] = @ \cup {k}]
      /\ handles' = [handles EXCEPT ![k] = None]
  BY DEF Connecting!DropStream, Connecting!connVars, Connecting!appVars, Connecting!queueVars
<1> HIDE DEF c
<1>3. /\ handles' \in [Connecting!Kinds -> Connecting!Handles \cup {None}]
      /\ deletes' \in [Connecting!Conns -> SUBSET Connecting!Kinds]
  BY <1>1, <1>2
<1>4. ConnTypes'  BY <1>2, <1>3 DEF ConnInv, ConnTypes
<1>5. CallInv'  BY <1>2, Waits DEF CallInv
<1>6. NoStrayStream'
  <2> SUFFICES ASSUME NEW b \in Connecting!Conns, NEW j \in Connecting!Kinds,
                      Connecting!Opening(j) \in server[b], handles'[j] = None \/ handles'[j].conn # b
               PROVE  j \in deletes'[b]
    BY <1>2 DEF NoStrayStream, Connecting!NoStrayStream
  <2>1. deletes[b] \subseteq deletes'[b]  BY <1>1, <1>2
  <2>2. CASE j # k  BY <1>1, <1>2, <2>1, <2>2 DEF Connecting!NoStrayStream
  <2>3. CASE j = k /\ b = c  BY <1>1, <1>2, <2>3
  <2>4. CASE j = k /\ b # c  BY <1>1, <2>1, <2>4 DEF Connecting!NoStrayStream, c
  <2> QED  BY <2>2, <2>3, <2>4
<1>7. ASSUME NEW j \in Connecting!Kinds, handles'[j] # None PROVE Predicted(handles'[j])
  <2>1. handles'[j] = handles[j]  BY <1>1, <1>2, <1>7
  <2> QED  BY <1>7, <2>1 DEF ConnInv
<1> QED  BY <1>4, <1>5, <1>6, <1>7 DEF ConnInv

\* A call that opens takes what it needs from the device.
LEMMA OpenHolds ==
    ASSUME ConnInv, NEW config \in Configs,
           \/ Connecting!OpenDuplex(config)
           \/ \E k \in Connecting!Kinds : Connecting!OpenStream(k, config)
    PROVE  ConnInv'
<1>1. /\ UNCHANGED <<handles, server, deletes, made, device>>
      /\ device # None /\ device.conn \in Connecting!Conns /\ device.descriptor.format \in Wired
  BY ConnFacts DEF Connecting!OpenDuplex, Connecting!OpenStream, Connecting!connVars,
     Connecting!appVars, Connecting!queueVars
<1>2. NoStrayStream'  BY <1>1 DEF ConnInv, NoStrayStream, Connecting!NoStrayStream
<1>3. \A k \in Connecting!Kinds : handles'[k] # None => Predicted(handles'[k])
  BY <1>1 DEF ConnInv
<1>4. CASE Connecting!OpenDuplex(config)
  <2>1. /\ call' = [op |-> "duplex", at |-> "other", conn |-> device.conn, config |-> config,
                    native |-> None]
        /\ \A k \in Connecting!Kinds : handles[k] = None
    BY <1>4 DEF Connecting!OpenDuplex
  <2>2. ConnTypes'  BY <1>1, <2>1 DEF ConnInv, ConnTypes
  <2>3. CallInv'  BY <1>1, <2>1, Waits DEF CallInv
  <2> QED  BY <1>2, <1>3, <2>2, <2>3 DEF ConnInv
<1>5. ASSUME NEW k \in Connecting!Kinds, Connecting!OpenStream(k, config) PROVE ConnInv'
  <2> DEFINE native == [j \in {k} |-> device.descriptor.format]
  <2>1. /\ call' = [op |-> k, at |-> k, conn |-> device.conn, config |-> config, native |-> native]
        /\ handles[k] = None
    BY <1>5 DEF Connecting!OpenStream
  <2>2. native[k] \in Wired  BY <1>1
  <2> HIDE DEF native
  <2>3. ConnTypes'  BY <1>1, <2>1 DEF ConnInv, ConnTypes
  <2>4. Opens(k)'  BY <1>1, <2>1, <2>2 DEF Opens
  <2>5. CallInv'  BY <2>1, <2>4, Waits DEF CallInv
  <2> QED  BY <1>2, <1>3, <2>3, <2>5 DEF ConnInv
<1> QED  BY <1>4, <1>5

\* The other half of a duplex stream is found: its output is opened first.
LEMMA OtherHalfHolds ==
    ASSUME ConnInv, NEW e \in Endpoints, Connecting!OtherHalf(e)
    PROVE  ConnInv'
<1> DEFINE native == [k \in Connecting!Kinds |->
                         IF Connecting!RoleOf[k] = device.descriptor.role THEN device.descriptor.format
                         ELSE Connecting!Descriptor(e, None).format]
<1>1. /\ UNCHANGED <<handles, server, deletes, made, device>> /\ call.at = "other"
      /\ call' = [call EXCEPT !.at = "output", !.native = native]
  BY DEF Connecting!OtherHalf, Connecting!connVars, Connecting!appVars, Connecting!queueVars
<1>2. /\ call.op = "duplex" /\ call.config \in Configs /\ device # None
      /\ \A k \in Connecting!Kinds : handles[k] = None
  BY <1>1 DEF ConnInv, CallInv
<1>3. \A k \in Connecting!Kinds : native[k] \in Wired
  BY <1>2, ConnFacts, DescriptorWired
<1> HIDE DEF native
<1>4. /\ call'.at = "output" /\ call'.op = "duplex" /\ call'.config \in Configs
      /\ call'.native = native /\ call'.conn \in Connecting!Conns
      /\ DOMAIN call' = {"op", "at", "conn", "config", "native"}
  BY <1>1, <1>2, ConnFacts
<1>5. ConnTypes'  BY <1>1, <1>4 DEF ConnInv, ConnTypes
<1>6. \A k \in Connecting!Kinds : Opens(k)'  BY <1>1, <1>2, <1>3, <1>4 DEF Opens
<1>7. CallInv'  BY <1>4, <1>6, Waits DEF CallInv
<1>8. NoStrayStream'  BY <1>1 DEF ConnInv, NoStrayStream, Connecting!NoStrayStream
<1>9. \A k \in Connecting!Kinds : handles'[k] # None => Predicted(handles'[k])
  BY <1>1 DEF ConnInv
<1> QED  BY <1>5, <1>7, <1>8, <1>9 DEF ConnInv

\* The CREATE command is sent for a configuration that passed.
LEMMA CreateHolds ==
    ASSUME ConnInv, Connecting!Create
    PROVE  ConnInv'
<1>1. /\ UNCHANGED <<handles, server, deletes, made, device>>
      /\ call.at \in Connecting!Kinds /\ ~Connecting!Refused /\ Connecting!Goto(Connecting!Await[call.at])
  BY DEF Connecting!Create, Connecting!connVars, Connecting!appVars, Connecting!queueVars
<1>2. PICK k \in Connecting!Kinds : k = call.at  BY <1>1
<1>3. /\ Opens(k) /\ call.conn \in Connecting!Conns /\ Negotiable(call.config, call.native[k])
      /\ call.op = "duplex" /\ k = "output" => Opens("input")
      /\ call.op = "duplex" /\ k = "input" /\ handles["output"] # None =>
             handles["output"].conn = call.conn
  <2>1. Negotiable(call.config, call.native[k])  BY <1>1, <1>2 DEF Connecting!Refused, Negotiable
  <2>2. call.at # "idle"  BY <1>1, Waits
  <2> QED  BY <1>2, <2>1, <2>2, ConnFacts DEF ConnInv, CallInv
<1>4. /\ call'.at = Connecting!Await[k] /\ DOMAIN call' = {"op", "at", "conn", "config", "native"}
      /\ call'.op = call.op /\ call'.conn = call.conn
      /\ call'.config = call.config /\ call'.native = call.native
  BY <1>1, <1>2, CallGoesOn
<1>5. ConnTypes'  BY <1>1, <1>3, <1>4 DEF ConnInv, ConnTypes
<1>6. /\ Opens(k)' /\ Negotiable(call.config, call.native[k])'
      /\ (call.op = "duplex" /\ k = "output" => Opens("input"))'
  BY <1>1, <1>3, <1>4 DEF Opens
<1>7. CallInv'  BY <1>1, <1>3, <1>4, <1>6, Waits DEF CallInv
<1>8. NoStrayStream'  BY <1>1 DEF ConnInv, NoStrayStream, Connecting!NoStrayStream
<1>9. \A j \in Connecting!Kinds : handles'[j] # None => Predicted(handles'[j])
  BY <1>1 DEF ConnInv
<1> QED  BY <1>5, <1>7, <1>8, <1>9 DEF ConnInv

\* A call that opens a stream gives up: what was opened for it is queued for deletion.
LEMMA AbandonHolds ==
    ASSUME ConnInv, NEW held, Connecting!Abandon(held), UNCHANGED <<made, device>>,
           NEW k \in Connecting!Kinds, call.at \in {k, Connecting!Await[k]},
           server' \in [Connecting!Conns -> SUBSET ServerStreams],
           deletes' \in [Connecting!Conns -> SUBSET Connecting!Kinds],
           \A b \in Connecting!Conns :
               /\ \A j \in Connecting!Kinds : Connecting!Opening(j) \in server'[b] =>
                      Connecting!Opening(j) \in server[b] \/ j \in deletes'[b]
               /\ deletes[b] \subseteq deletes'[b],
           Connecting!Orphans \subseteq deletes'[call.conn]
    PROVE  ConnInv'
<1> DEFINE half == call.op = "duplex" /\ handles["output"] # None
<1>1. /\ handles' = IF half THEN [handles EXCEPT !["output"] = None] ELSE handles
      /\ Connecting!Return
  BY DEF Connecting!Abandon
<1>2. /\ handles \in [Connecting!Kinds -> Connecting!Handles \cup {None}]
      /\ Connecting!NoStrayStream /\ call.conn \in Connecting!Conns
  BY Waits, ConnFacts DEF ConnInv, ConnTypes, NoStrayStream
<1>3. half => handles["output"].conn = call.conn /\ "output" \in deletes'[call.conn]
  BY Waits DEF ConnInv, CallInv, Opens, Connecting!Orphans
<1>4. /\ handles' \in [Connecting!Kinds -> Connecting!Handles \cup {None}]
      /\ \A j \in Connecting!Kinds : handles'[j] = handles[j] \/ (j = "output" /\ half /\ handles'[j] = None)
  BY <1>1, <1>2, Waits
<1> HIDE DEF half
<1>5. ConnTypes'  BY <1>1, <1>4, CallReturns DEF ConnInv, ConnTypes
<1>6. CallInv'  BY <1>1, CallReturns, Waits DEF CallInv
<1>7. NoStrayStream'
  <2> SUFFICES ASSUME NEW b \in Connecting!Conns, NEW j \in Connecting!Kinds,
                      Connecting!Opening(j) \in server'[b], handles'[j] = None \/ handles'[j].conn # b
               PROVE  j \in deletes'[b]
    BY DEF NoStrayStream, Connecting!NoStrayStream
  <2>1. Connecting!Opening(j) \in server[b] \/ j \in deletes'[b]  OBVIOUS
  <2>2. CASE Connecting!Opening(j) \in server[b] /\ handles'[j] = handles[j]
    BY <1>2, <2>2 DEF Connecting!NoStrayStream
  <2>3. CASE Connecting!Opening(j) \in server[b] /\ j = "output" /\ half
    <3>1. CASE b = call.conn  BY <1>3, <2>3, <3>1
    <3>2. CASE b # call.conn  BY <1>2, <1>3, <2>3, <3>2 DEF Connecting!NoStrayStream
    <3> QED  BY <3>1, <3>2
  <2> QED  BY <1>4, <2>1, <2>2, <2>3
<1>8. \A j \in Connecting!Kinds : handles'[j] # None => Predicted(handles'[j])
  BY <1>4 DEF ConnInv
<1> QED  BY <1>5, <1>6, <1>7, <1>8 DEF ConnInv

\* An open that is refused here, or that fails at the server.
LEMMA FailureHolds ==
    ASSUME ConnInv,
           \/ Connecting!CreateRefused
           \/ \E k \in Connecting!Kinds : Connecting!CreateError(k) \/ Connecting!CreateTimesOut(k)
    PROVE  ConnInv'
<1>1. /\ UNCHANGED <<server, made, device>> /\ \E held \in {0, 1} : Connecting!Abandon(held)
      /\ deletes' = [deletes EXCEPT ![call.conn] = @ \cup Connecting!Orphans]
  BY DEF Connecting!CreateRefused, Connecting!CreateError, Connecting!CreateTimesOut,
     Connecting!connVars, Connecting!appVars, Connecting!queueVars
<1>2. PICK k \in Connecting!Kinds : call.at \in {k, Connecting!Await[k]}
  BY DEF Connecting!CreateRefused, Connecting!CreateError, Connecting!CreateTimesOut
<1>3. /\ server \in [Connecting!Conns -> SUBSET ServerStreams]
      /\ deletes \in [Connecting!Conns -> SUBSET Connecting!Kinds] /\ call.conn \in Connecting!Conns
  BY <1>2, Waits, ConnFacts DEF ConnInv, ConnTypes
<1>4. Connecting!Orphans \subseteq Connecting!Kinds  BY Waits DEF Connecting!Orphans
<1>5. /\ deletes' \in [Connecting!Conns -> SUBSET Connecting!Kinds]
      /\ \A b \in Connecting!Conns : deletes[b] \subseteq deletes'[b]
      /\ Connecting!Orphans \subseteq deletes'[call.conn]
  BY <1>1, <1>3, <1>4
<1>6. /\ server' \in [Connecting!Conns -> SUBSET ServerStreams]
      /\ \A b \in Connecting!Conns : server'[b] = server[b]
  BY <1>1, <1>3
<1> QED  BY <1>1, <1>2, <1>5, <1>6, AbandonHolds

\* The server made the stream: its handle is given out, or it is queued for deletion.
LEMMA CreatedHolds ==
    ASSUME ConnInv, NEW k \in Connecting!Kinds, Connecting!CreatedAny(k)
    PROVE  ConnInv'
<1> DEFINE s == Connecting!Stream(k)
           c == call.conn
<1>1. PICK actual : Connecting!Created(k, actual)  BY DEF Connecting!CreatedAny
<1>2. /\ call.at = Connecting!Await[k] /\ UNCHANGED <<made, device>>
      /\ server' = [server EXCEPT ![c] = @ \cup {Connecting!Opening(k)}]
  BY <1>1 DEF Connecting!Created, Connecting!appVars, Connecting!queueVars
<1>3. /\ server \in [Connecting!Conns -> SUBSET ServerStreams]
      /\ deletes \in [Connecting!Conns -> SUBSET Connecting!Kinds]
      /\ handles \in [Connecting!Kinds -> Connecting!Handles \cup {None}]
      /\ Connecting!NoStrayStream /\ CallInv /\ c \in Connecting!Conns /\ Opens(k)
  BY <1>2, Waits, ConnFacts DEF ConnInv, ConnTypes, NoStrayStream, CallInv
<1>4. /\ server' \in [Connecting!Conns -> SUBSET ServerStreams]
      /\ \A b \in Connecting!Conns : server'[b] \subseteq
             IF b = c THEN server[b] \cup {Connecting!Opening(k)} ELSE server[b]
      /\ \A j \in Connecting!Kinds, b \in Connecting!Conns :
             Connecting!Opening(j) \in server'[b] =>
                 Connecting!Opening(j) \in server[b] \/ (j = k /\ b = c)
  <2>1. Connecting!Opening(k) \in ServerStreams  BY DEF Connecting!Opening, ServerStreams
  <2>2. \A j \in Connecting!Kinds : Connecting!Opening(j) = Connecting!Opening(k) => j = k
    BY DEF Connecting!Opening
  <2> QED  BY <1>2, <1>3, <2>1, <2>2
<1>5. CASE ~Connecting!VerifyNegotiatedSpec(actual, s)
  <2>1. /\ Connecting!Abandon(1)
        /\ deletes' = [deletes EXCEPT ![c] = @ \cup Connecting!Orphans \cup {k}]
    BY <1>1, <1>5 DEF Connecting!Created
  <2>2. Connecting!Orphans \subseteq Connecting!Kinds  BY Waits DEF Connecting!Orphans
  <2>3. /\ deletes' \in [Connecting!Conns -> SUBSET Connecting!Kinds]
        /\ \A b \in Connecting!Conns : deletes[b] \subseteq deletes'[b]
        /\ Connecting!Orphans \subseteq deletes'[c] /\ k \in deletes'[c]
    BY <1>3, <2>1, <2>2
  <2>4. \A b \in Connecting!Conns, j \in Connecting!Kinds : Connecting!Opening(j) \in server'[b] =>
            Connecting!Opening(j) \in server[b] \/ j \in deletes'[b]
    BY <1>4, <2>3
  <2> QED  BY <1>2, <1>4, <2>1, <2>3, <2>4, AbandonHolds
<1>6. CASE Connecting!VerifyNegotiatedSpec(actual, s)
  <2> DEFINE h == Connecting!Opened(s, actual)
  <2>1. /\ handles' = [handles EXCEPT ![k] = h] /\ UNCHANGED deletes
        /\ IF call.op = "duplex" /\ k = "output" THEN Connecting!Goto("input") ELSE Connecting!Return
    BY <1>1, <1>6 DEF Connecting!Created
  <2>2. c \in Nat  BY <1>3, ConnFacts DEF Connecting!Conns
  <2>3. h \in Connecting!Handles /\ h # None /\ h.conn = c /\ Predicted(h)
    BY <1>2, <1>3, <1>6, <2>2, OpenedHolds
  <2> HIDE DEF h, s
  <2>4. /\ handles' \in [Connecting!Kinds -> Connecting!Handles \cup {None}]
        /\ \A j \in Connecting!Kinds : handles'[j] = IF j = k THEN h ELSE handles[j]
    BY <1>3, <2>1, <2>3
  <2>5. \A j \in Connecting!Kinds : handles'[j] # None => Predicted(handles'[j])
    BY <2>3, <2>4 DEF ConnInv
  <2>6. NoStrayStream'
    <3> SUFFICES ASSUME NEW b \in Connecting!Conns, NEW j \in Connecting!Kinds,
                        Connecting!Opening(j) \in server'[b],
                        handles'[j] = None \/ handles'[j].conn # b
                 PROVE  j \in deletes[b]
      BY <2>1 DEF NoStrayStream, Connecting!NoStrayStream
    <3>1. CASE j = k
      <4>1. b # c  BY <2>3, <2>4, <3>1
      <4>2. Connecting!Opening(j) \in server[b] /\ handles[j] = None  BY <1>3, <1>4, <3>1, <4>1 DEF Opens
      <4> QED  BY <1>3, <4>2 DEF Connecting!NoStrayStream
    <3>2. CASE j # k
      <4>1. Connecting!Opening(j) \in server[b]  BY <1>4, <3>2
      <4> QED  BY <1>3, <2>4, <3>2, <4>1 DEF Connecting!NoStrayStream
    <3> QED  BY <3>1, <3>2
  <2>7. CASE call.op = "duplex" /\ k = "output"
    <3>1. /\ call'.at = "input" /\ DOMAIN call' = {"op", "at", "conn", "config", "native"}
          /\ call'.op = call.op /\ call'.conn = call.conn
          /\ call'.config = call.config /\ call'.native = call.native
      BY <2>1, <2>7, CallGoesOn
    <3>2. Opens("input")  BY <1>2, <1>3, <2>7, Waits DEF CallInv
    <3>3. handles'["input"] = handles["input"] /\ handles'["output"] = h
      BY <2>4, <2>7, Waits
    <3>4. Opens("input")'  BY <3>1, <3>2, <3>3 DEF Opens
    <3>5. ConnTypes'  BY <1>2, <1>3, <1>4, <2>1, <2>4, <3>1 DEF ConnInv, ConnTypes
    <3>6. CallInv'  BY <2>3, <3>1, <3>3, <3>4, Waits DEF CallInv
    <3> QED  BY <2>5, <2>6, <3>5, <3>6 DEF ConnInv
  <2>8. CASE ~(call.op = "duplex" /\ k = "output")
    <3>1. call'.at = "idle" /\ DOMAIN call' = {"op", "at", "conn", "config", "native"}
      BY <2>1, <2>8, CallReturns
    <3>2. ConnTypes'  BY <1>2, <1>4, <2>1, <2>4, <3>1 DEF ConnInv, ConnTypes
    <3>3. CallInv'  BY <3>1, Waits DEF CallInv
    <3> QED  BY <2>5, <2>6, <3>2, <3>3 DEF ConnInv
  <2> QED  BY <2>7, <2>8
<1> QED  BY <1>5, <1>6

\* Every step keeps the invariant.
LEMMA ConnNext ==
    ASSUME ConnInv, [Connecting!Next]_(Connecting!vars)
    PROVE  ConnInv'
<1>1. CASE Connecting!Calls
  <2>1. ASSUME NEW op, Connecting!StartConnect(op) PROVE ConnInv'  BY <2>1, StartHolds
  <2>2. ASSUME NEW config \in Configs,
               \/ Connecting!OpenDuplex(config)
               \/ \E k \in Connecting!Kinds : Connecting!OpenStream(k, config)
        PROVE  ConnInv'
    BY <2>2, OpenHolds
  <2>3. CASE Connecting!DropDevice  BY <2>3, DeviceHolds
  <2>4. ASSUME NEW k \in Connecting!Kinds, Connecting!DropStream(k) PROVE ConnInv'
    BY <2>4, DropHolds
  <2> QED  BY <1>1, <2>1, <2>2, <2>3, <2>4 DEF Connecting!Calls
<1>2. CASE Connecting!CallProceeds
  <2>1. ASSUME NEW e \in Endpoints, Connecting!OpenDevice(e) \/ Connecting!OtherHalf(e) PROVE ConnInv'
    BY <2>1, DeviceHolds, OtherHalfHolds
  <2>2. ASSUME NEW k \in Connecting!Kinds,
               \/ Connecting!CreateError(k) \/ Connecting!CreateTimesOut(k) \/ Connecting!CreatedAny(k)
        PROVE  ConnInv'
    BY <2>2, FailureHolds, CreatedHolds
  <2>3. CASE Connecting!Answered
    BY <2>1, <2>3, LookupHolds DEF Connecting!Answered
  <2> QED
    BY <1>2, <2>2, <2>3, LookupHolds, CreateHolds, FailureHolds DEF Connecting!CallProceeds
<1>3. ASSUME NEW c \in Connecting!Conns,
             \/ Connecting!Worker(c) \/ Connecting!RunDelete(c) \/ Connecting!Shutdown(c)
             \/ Connecting!ConnectionLost(c)
             \/ \E k \in Connecting!Kinds : Connecting!CreatedLate(c, k)
      PROVE  ConnInv'
  BY <1>3, BackendHolds
<1>4. CASE UNCHANGED (Connecting!vars)
  <2>1. UNCHANGED <<handles, call, made, device, server, deletes>>
    BY <1>4 DEF Connecting!vars, Connecting!connVars, Connecting!appVars, Connecting!queueVars
  <2>2. NoStrayStream'  BY <2>1 DEF ConnInv, NoStrayStream, Connecting!NoStrayStream
  <2> QED  BY <2>1, <2>2, QuietStep DEF ConnInv, ConnTypes
<1> QED  BY <1>1, <1>2, <1>3, <1>4 DEF Connecting!Next

-----------------------------------------------------------------------------
(* PulseConnection: servers and devices. *)

Listing == Connecting!MapDescriptors(
    {Connecting!Descriptor(e, Defaults[e.role]) : e \in Endpoints})

\* A call connects only where a server was found; what is listed is what the server has.
FoundInv ==
    /\ env \in Environments /\ made \in Nat
    /\ made > 0 => Connecting!ResolveServerSocket(env) \notin {"unsupported", "no socket"}
    /\ listed \in {{}, Listing}

LEMMA FoundInit == Connecting!Init => FoundInv
BY DEF Connecting!Init, FoundInv

LEMMA FoundNext ==
    ASSUME FoundInv, [Connecting!Next]_(Connecting!vars)
    PROVE  FoundInv'
<1>1. UNCHANGED <<env, made, listed>> => FoundInv'  BY DEF FoundInv, Connecting!ResolveServerSocket
<1>2. ASSUME NEW op, Connecting!StartConnect(op) PROVE FoundInv'
  <2>1. UNCHANGED <<env, listed>>  BY <1>2 DEF Connecting!StartConnect
  <2>2. CASE UNCHANGED made  BY <1>1, <2>1, <2>2
  <2>3. CASE /\ Connecting!ResolveServerSocket(env) \notin {"unsupported", "no socket"}
             /\ made' = made + 1
    <3>1. Connecting!ResolveServerSocket(env)' = Connecting!ResolveServerSocket(env)
      BY <2>1
    <3>2. PICK n \in Nat : n = made  BY DEF FoundInv
    <3>3. made' = n + 1  BY <2>3, <3>2
    <3>4. made' \in Nat  BY <3>3
    <3> QED  BY <2>1, <2>3, <3>1, <3>4 DEF FoundInv
  <2> QED  BY <1>2, <2>2, <2>3 DEF Connecting!StartConnect
<1>3. CASE Connecting!ListSources
  <2>1. UNCHANGED <<env, made>> /\ listed' = Listing
    BY <1>3 DEF Connecting!ListSources, Listing
  <2> QED  BY <2>1 DEF FoundInv
<1>4. CASE Connecting!Calls
  <2>1. ASSUME ~\E op \in {"open", "enumerate"} : Connecting!StartConnect(op)
        PROVE  UNCHANGED <<env, made, listed>>
    BY <1>4, <2>1 DEF Connecting!Calls, Connecting!OpenDuplex, Connecting!OpenStream,
       Connecting!DropDevice, Connecting!DropStream, Connecting!appVars, Connecting!queueVars
  <2> QED  BY <1>1, <1>2, <2>1
<1>5. CASE Connecting!CallProceeds /\ ~Connecting!ListSources
  <2>1. UNCHANGED <<env, made, listed>>
    <3>1. CASE Connecting!ReceiveResult \/ Connecting!ReceiveTimeout \/ Connecting!GiveUp
               \/ Connecting!LookupFails \/ Connecting!ServerInfo \/ Connecting!ListSinks
               \/ Connecting!OtherHalfFails \/ Connecting!Create \/ Connecting!CreateRefused
      BY <3>1 DEF Connecting!ReceiveResult, Connecting!ReceiveTimeout, Connecting!GiveUp,
         Connecting!LookupFails, Connecting!ServerInfo, Connecting!ListSinks,
         Connecting!OtherHalfFails, Connecting!Create, Connecting!CreateRefused,
         Connecting!appVars, Connecting!queueVars
    <3>2. CASE \E e \in Endpoints : Connecting!OpenDevice(e) \/ Connecting!OtherHalf(e)
      BY <3>2 DEF Connecting!OpenDevice, Connecting!OtherHalf, Connecting!appVars, Connecting!queueVars
    <3>3. CASE \E k \in Connecting!Kinds : Connecting!CreateError(k) \/ Connecting!CreateTimesOut(k)
                                           \/ Connecting!CreatedAny(k)
      BY <3>3 DEF Connecting!CreateError, Connecting!CreateTimesOut, Connecting!CreatedAny,
         Connecting!Created, Connecting!appVars, Connecting!queueVars
    <3> QED  BY <1>5, <3>1, <3>2, <3>3 DEF Connecting!CallProceeds, Connecting!Answered
  <2> QED  BY <1>1, <2>1
<1>6. CASE \E c \in Connecting!Conns :
              \/ Connecting!Worker(c) \/ Connecting!RunDelete(c) \/ Connecting!Shutdown(c)
              \/ Connecting!ConnectionLost(c)
              \/ \E k \in Connecting!Kinds : Connecting!CreatedLate(c, k)
  <2>1. UNCHANGED <<env, made, listed>>
    BY <1>6 DEF Connecting!Worker, Connecting!Connected, Connecting!ConnectRefused,
       Connecting!SendResult, Connecting!RunDelete, Connecting!Shutdown, Connecting!ConnectionLost,
       Connecting!ReactorExits, Connecting!CreatedLate, Connecting!appVars, Connecting!queueVars
  <2> QED  BY <1>1, <2>1
<1>7. CASE UNCHANGED (Connecting!vars)
  BY <1>1, <1>7 DEF Connecting!vars, Connecting!appVars, Connecting!queueVars
<1> QED  BY <1>3, <1>4, <1>5, <1>6, <1>7 DEF Connecting!Next

\* A server that is found is one of those the user named, if any are.
LEMMA FoundIsNamed ==
    ASSUME NEW e \in Environments, e.server # None, e.server # <<>>,
           Connecting!ResolveServerSocket(e) \notin {"unsupported", "no socket"}
    PROVE  Connecting!ResolveServerSocket(e) \in
               {entry.path : entry \in {e.server[i] : i \in DOMAIN e.server}}
<1> DEFINE S == e.server
           unix == {i \in DOMAIN S : Connecting!UnixPathFromServerEntry(S[i]) # None}
<1>1. S \in Seq(Connecting!ServerEntries)  BY Assumed
<1>2. unix # {}  BY DEF Connecting!ResolveServerSocket
<1>3. \A i \in DOMAIN S : i \in Nat
  BY <1>1, IndicesAreNat
<1>4. unix \in SUBSET Nat  BY <1>3
<1>5. \E i \in unix : \A j \in unix : i <= j  BY <1>2, <1>4, LeastNumber
<1> DEFINE first == CHOOSE i \in unix : \A j \in unix : i <= j
<1>6. first \in unix  BY <1>5
<1>7. Connecting!ResolveServerSocket(e) = Connecting!UnixPathFromServerEntry(S[first])
  BY <1>2 DEF Connecting!ResolveServerSocket
<1> HIDE DEF first
<1>8. Connecting!UnixPathFromServerEntry(S[first]) = S[first].path
  BY <1>6 DEF Connecting!UnixPathFromServerEntry
<1> QED  BY <1>6, <1>7, <1>8

\* A listed device plays one role, and no endpoint of its name and role is degenerate.
LEMMA ListedOpens ==
    ASSUME NEW d \in Listing
    PROVE  /\ d.is_output # d.is_input
           /\ \A e \in Endpoints :
                  e.name = d.name /\ (e.role = "sink" <=> d.is_output) =>
                      ~Connecting!Degenerate(Connecting!Descriptor(e, None))
<1>1. PICK f \in Endpoints :
         /\ d = Connecting!ToDeviceInfo(Connecting!Descriptor(f, Defaults[f.role])) /\ d # None
  BY DEF Listing, Connecting!MapDescriptors
<1> DEFINE own == Connecting!Descriptor(f, Defaults[f.role])
<1>2. /\ own.name = f.name /\ own.role = f.role
      /\ own.channels = Connecting!ChannelsOf(f) /\ own.sample_rate = f.rate
  BY DEF Connecting!Descriptor
<1> HIDE DEF own
<1>3. /\ d = Connecting!ToDeviceInfo(own) /\ d # None  BY <1>1 DEF own
<1>4. ~Connecting!Degenerate(own)  BY <1>3 DEF Connecting!ToDeviceInfo
<1>5. /\ d.name = f.name /\ d.is_output = (f.role = "sink") /\ d.is_input = (f.role = "source")
  BY <1>2, <1>3, <1>4 DEF Connecting!ToDeviceInfo
<1>6. f.role \in {"sink", "source"}  BY Assumed
<1>7. d.is_output # d.is_input
  <2>1. CASE f.role = "sink"  BY <1>5, <2>1
  <2>2. CASE f.role = "source"  BY <1>5, <2>2
  <2> QED  BY <1>6, <2>1, <2>2
<1>8. ASSUME NEW e \in Endpoints, e.name = d.name, e.role = "sink" <=> d.is_output
      PROVE  ~Connecting!Degenerate(Connecting!Descriptor(e, None))
  <2>1. e.role = f.role
    <3>1. e.role = "sink" <=> f.role = "sink"  BY <1>5, <1>8
    <3>2. e.role \in {"sink", "source"}  BY Assumed
    <3> QED  BY <1>6, <3>1, <3>2
  <2>2. e = f  BY <1>5, <1>8, <2>1, Assumed
  <2>3. Connecting!Descriptor(f, None).channels = own.channels
        /\ Connecting!Descriptor(f, None).sample_rate = own.sample_rate
    BY <1>2 DEF Connecting!Descriptor
  <2> QED  BY <1>4, <2>2, <2>3 DEF Connecting!Degenerate
<1> QED  BY <1>7, <1>8

-----------------------------------------------------------------------------
(* PulseConnection: the theorems. *)

THEOREM ConnInvariant == PartsSpec => []ConnInv
<1>1. Connecting!Safety => []ConnInv
  BY ConnInit, ConnNext, PTL DEF Connecting!Safety
<1> QED  BY <1>1, PartsAreComponents, PTL

\* The server keeps no stream without a handle but those whose DELETE is queued,
\* whichever half of a duplex open failed and whatever the server answered, and
\* those it made for a CREATE that had timed out.
THEOREM ServerKeepsNoStray == PartsSpec => []NoStrayStream
<1>1. ConnInv => NoStrayStream  BY DEF ConnInv
<1> QED  BY <1>1, ConnInvariant, PTL

\* The server is one the user named, a listed device opens under its name, and a
\* stream is what was predicted before the server was asked.
THEOREM ConnectionIsAnnounced == PartsSpec => []OpensAsAnnounced
<1>1. Connecting!Safety => []FoundInv
  BY FoundInit, FoundNext, PTL DEF Connecting!Safety
<1>2. ConnInv /\ FoundInv => OpensAsAnnounced
  <2> SUFFICES ASSUME ConnInv, FoundInv
               PROVE  /\ Connecting!NeverTheWrongServer /\ Connecting!ListedDevicesOpen
                      /\ Connecting!StreamIsAsPredicted
    BY DEF OpensAsAnnounced, Connecting!OpensAsAnnounced
  <2>1. Connecting!NeverTheWrongServer
    BY FoundIsNamed DEF FoundInv, Connecting!NeverTheWrongServer
  <2>2. Connecting!ListedDevicesOpen
    <3> SUFFICES ASSUME NEW d \in listed
                 PROVE  /\ d.is_output # d.is_input
                        /\ \A e \in Endpoints :
                               e.name = d.name /\ (e.role = "sink" <=> d.is_output) =>
                                   ~Connecting!Degenerate(Connecting!Descriptor(e, None))
      BY DEF Connecting!ListedDevicesOpen
    <3>1. d \in Listing  BY DEF FoundInv
    <3> QED  BY <3>1, ListedOpens
  <2>3. Connecting!StreamIsAsPredicted
    BY DEF ConnInv, Predicted, Connecting!StreamIsAsPredicted
  <2> QED  BY <2>1, <2>2, <2>3
<1> QED  BY <1>1, <1>2, ConnInvariant, PartsAreComponents, PTL
=============================================================================
