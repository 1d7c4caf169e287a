--------------------------- MODULE DevicePartsProof ---------------------------
(***************************************************************************)
(* What is proved of CpalOpen, CpalDevices, Session and MonitorStream,     *)
(* each on its own and then as a part of DeviceParts, for every value of   *)
(* their constants.  DeviceWatcher, the fifth part, has a module of its    *)
(* own.                                                                    *)
(***************************************************************************)
EXTENDS DeviceParts, NumberLemmas, SequenceTheorems, TLAPS

\* Each part of DeviceParts behaves as its component: the steps of the others stutter.
THEOREM PartsAreComponents ==
    PartsSpec => Opening!Spec /\ Choosing!Spec /\ Access!Spec /\ Monitoring!Spec
<1>1. PartsInit => Opening!Init /\ Choosing!Init /\ Access!Init /\ Monitoring!Init
  BY DEF PartsInit
<1>2. [PartsNext]_partsVars =>
         /\ [Opening!Next]_(Opening!vars) /\ [Choosing!Next]_(Choosing!vars)
         /\ [Access!Next]_(Access!vars) /\ [Monitoring!Next]_(Monitoring!vars)
  <2> SUFFICES ASSUME [PartsNext]_partsVars
               PROVE  /\ Opening!Next \/ UNCHANGED (Opening!vars)
                      /\ Choosing!Next \/ UNCHANGED (Choosing!vars)
                      /\ Access!Next \/ UNCHANGED (Access!vars)
                      /\ Monitoring!Next \/ UNCHANGED (Monitoring!vars)
    OBVIOUS
  <2>1. Opening!Next \/ UNCHANGED openVars  BY DEF PartsNext, partsVars
  <2>2. Choosing!Next \/ UNCHANGED listVars  BY DEF PartsNext, partsVars
  <2>3. Access!Next \/ UNCHANGED sessionVars  BY DEF PartsNext, partsVars
  <2>4. Monitoring!Next \/ UNCHANGED monitorVars  BY DEF PartsNext, partsVars
  <2>5. UNCHANGED openVars => UNCHANGED (Opening!vars)  BY DEF openVars, Opening!vars, Opening!callVars
  <2>6. UNCHANGED listVars => UNCHANGED (Choosing!vars)  BY DEF listVars, Choosing!vars, Choosing!listVars, Choosing!callVars
  <2>7. UNCHANGED sessionVars => UNCHANGED (Access!vars)  BY DEF sessionVars, Access!vars
  <2>8. UNCHANGED monitorVars => UNCHANGED (Monitoring!vars)  BY DEF monitorVars, Monitoring!vars
  <2> QED  BY <2>1, <2>2, <2>3, <2>4, <2>5, <2>6, <2>7, <2>8
<1> QED  BY <1>1, <1>2, PTL DEF PartsSpec, Opening!Spec, Choosing!Spec, Access!Spec, Monitoring!Spec

-----------------------------------------------------------------------------
(* Session.  A thread that is told of the permission is told the user's    *)
(* decision, for every number of threads and of requests.  The invariant   *)
(* follows the completion blocks: one that has stored its result has       *)
(* stored the decision, which nothing changes any more, and its flag says  *)
(* no less.                                                                *)

Permissions == {"undetermined", "granted", "denied"}
Blocks == [result : {"pending", "granted", "denied"}, done : BOOLEAN,
           state : {"asked", "stored", "called"}]
Answers == {"none", "ok", "unsupported config", "format mismatch", "permission denied", "granted",
            "denied", "timeout"}

AccessTypeOK ==
    /\ build \in Builds /\ permission \in Permissions
    /\ at \in [Callers -> {"idle", "configure", "wait"}]
    /\ requests \in Seq(Blocks)
    /\ asked \in [Callers -> Nat]
    /\ answer \in [Callers -> Answers]

\* Who waits has a request of the system's to wait for.
WaitsForOne == \A c \in Callers : at[c] = "wait" => Access!Real /\ asked[c] \in 1 .. Len(requests)

\* A block that has run this far has stored the decision.
BlocksTell ==
    \A i \in 1 .. Len(requests) :
        /\ requests[i].state # "asked" => /\ permission # "undetermined"
                                          /\ requests[i].result = permission
        /\ requests[i].done => requests[i].state = "called"

AccessInv == AccessTypeOK /\ WaitsForOne /\ BlocksTell /\ Access!AnswerIsTheUsers

\* The first state, before any call: nobody waits and nobody has been told anything.
LEMMA AccessInit == Access!Init => AccessInv
<1> SUFFICES ASSUME Access!Init PROVE AccessInv  OBVIOUS
<1> USE DEF Access!Init
<1>1. AccessTypeOK  BY DEF AccessTypeOK, Permissions, Answers
<1>2. WaitsForOne  BY DEF WaitsForOne
<1>3. BlocksTell  BY DEF BlocksTell
<1>4. Access!AnswerIsTheUsers  BY DEF Access!AnswerIsTheUsers
<1> QED  BY <1>1, <1>2, <1>3, <1>4 DEF AccessInv

\* A call that returns something else than a permission the system was asked for, and
\* leaves nobody new waiting, disturbs nothing: the stubs and configure_session().
LEMMA AccessReturns ==
    ASSUME NEW c \in Callers, NEW value \in Answers, AccessInv, Access!Return(c, value),
           UNCHANGED <<build, permission, asked, requests>>,
           (Access!Real /\ value \in {"granted", "denied"}) => value = permission
    PROVE  AccessInv'
<1> USE DEF AccessInv, Access!Return
<1>1. AccessTypeOK'  BY DEF AccessTypeOK
<1>2. WaitsForOne'  BY DEF WaitsForOne, Access!Real, AccessTypeOK
<1>3. BlocksTell'  BY DEF BlocksTell
<1>4. Access!AnswerIsTheUsers'
  <2> SUFFICES ASSUME NEW d \in Callers, Access!Real', answer'[d] \in {"granted", "denied"}
               PROVE  answer'[d] = permission'
    BY DEF Access!AnswerIsTheUsers
  <2>1. Access!Real  BY DEF Access!Real
  <2>2. answer \in [Callers -> Answers]  BY DEF AccessTypeOK
  <2>3. CASE d = c  BY <2>1, <2>2, <2>3
  <2>4. CASE d # c  BY <2>1, <2>2, <2>4 DEF Access!AnswerIsTheUsers
  <2> QED  BY <2>3, <2>4
<1> QED  BY <1>1, <1>2, <1>3, <1>4

\* A request keeps the invariant: it returns the decision, or waits for a block of its own.
LEMMA AccessRequest == ASSUME NEW c \in Callers, AccessInv, Access!Request(c) PROVE AccessInv'
<1>1. CASE permission # "undetermined"
  <2>1. permission \in Answers /\ Access!Return(c, permission) /\ UNCHANGED <<build, permission, asked, requests>>
    BY <1>1 DEF Access!Request, AccessInv, AccessTypeOK, Permissions, Answers
  <2> QED  BY <2>1, AccessReturns
<1>2. CASE permission = "undetermined"
  <2> DEFINE block == [result |-> "pending", done |-> FALSE, state |-> "asked"]
  <2>1. block \in Blocks  BY DEF Blocks
  <2>2. /\ requests' = Append(requests, block) /\ asked' = [asked EXCEPT ![c] = Len(requests')]
        /\ at' = [at EXCEPT ![c] = "wait"]
        /\ UNCHANGED <<build, permission, category, lock, answer>> /\ Access!Real
    BY <1>2 DEF Access!Request
  <2> HIDE DEF block
  <2>3. requests \in Seq(Blocks)  BY DEF AccessInv, AccessTypeOK
  <2>4. /\ requests' \in Seq(Blocks) /\ Len(requests') = Len(requests) + 1
        /\ \A i \in 1 .. Len(requests) : requests'[i] = requests[i]
        /\ requests'[Len(requests) + 1] = block /\ Len(requests) \in Nat
    BY <2>1, <2>2, <2>3
  <2>5. AccessTypeOK'  BY <2>2, <2>4 DEF AccessInv, AccessTypeOK
  <2>6. WaitsForOne'  BY <2>2, <2>4 DEF AccessInv, WaitsForOne, Access!Real, AccessTypeOK
  <2>7. BlocksTell'
    <3> SUFFICES ASSUME NEW i \in 1 .. Len(requests')
                 PROVE  /\ requests'[i].state # "asked" => /\ permission' # "undetermined"
                                                           /\ requests'[i].result = permission'
                        /\ requests'[i].done => requests'[i].state = "called"
      BY DEF BlocksTell
    <3>1. CASE i \in 1 .. Len(requests)  BY <2>2, <2>4, <3>1 DEF AccessInv, BlocksTell
    <3>2. CASE i = Len(requests) + 1  BY <2>4, <3>2 DEF block
    <3> QED  BY <2>4, <3>1, <3>2
  <2>8. Access!AnswerIsTheUsers'  BY <2>2 DEF AccessInv, Access!AnswerIsTheUsers, Access!Real
  <2> QED  BY <2>5, <2>6, <2>7, <2>8 DEF AccessInv
<1> QED  BY <1>1, <1>2

\* A completion block keeps the invariant: it runs once there is a decision, and stores it
\* before it raises its flag.
LEMMA AccessBlock == ASSUME NEW i \in DOMAIN requests, AccessInv, Access!BlockStep(i) PROVE AccessInv'
<1>1. requests \in Seq(Blocks) /\ i \in 1 .. Len(requests) /\ permission \in Permissions
  BY DEF AccessInv, AccessTypeOK
<1>2. PICK block \in Blocks :
        /\ requests' = [requests EXCEPT ![i] = block]
        /\ permission # "undetermined" /\ block.result = permission
        /\ block.state # "asked" /\ (block.done => block.state = "called")
  <2>0. requests[i] \in Blocks  BY <1>1
  <2>1. CASE /\ requests[i].state = "asked" /\ permission # "undetermined"
             /\ requests' = [requests EXCEPT ![i].result = permission, ![i].state = "stored"]
    <3> DEFINE after == [requests[i] EXCEPT !.result = permission, !.state = "stored"]
    <3>1. ~requests[i].done  BY <1>1, <2>1 DEF AccessInv, BlocksTell
    <3>2. after \in Blocks  BY <1>1, <2>0, <2>1 DEF Blocks, Permissions
    <3>3. requests' = [requests EXCEPT ![i] = after]  BY <1>1, <2>1
    <3>4. after.result = permission /\ after.state = "stored" /\ ~after.done
      BY <2>0, <3>1 DEF Blocks
    <3> QED  BY <2>1, <3>2, <3>3, <3>4
  <2>2. CASE /\ requests[i].state = "stored"
             /\ requests' = [requests EXCEPT ![i].done = TRUE, ![i].state = "called"]
    <3> DEFINE after == [requests[i] EXCEPT !.done = TRUE, !.state = "called"]
    <3>1. permission # "undetermined" /\ requests[i].result = permission
      BY <1>1, <2>2 DEF AccessInv, BlocksTell
    <3>2. after \in Blocks  BY <2>0 DEF Blocks
    <3>3. requests' = [requests EXCEPT ![i] = after]  BY <1>1, <2>2
    <3>4. after.result = permission /\ after.state = "called"  BY <2>0, <3>1 DEF Blocks
    <3> QED  BY <3>1, <3>2, <3>3, <3>4
  <2> QED  BY <2>1, <2>2 DEF Access!BlockStep
<1>3. requests' \in Seq(Blocks) /\ Len(requests') = Len(requests)  BY <1>1, <1>2
<1>4. \A j \in 1 .. Len(requests) : requests'[j] = IF j = i THEN block ELSE requests[j]
  BY <1>1, <1>2
<1>5. UNCHANGED <<build, permission, at, asked, answer>>  BY DEF Access!BlockStep
<1>6. AccessTypeOK'  BY <1>3, <1>5 DEF AccessInv, AccessTypeOK
<1>7. WaitsForOne'  BY <1>3, <1>5 DEF AccessInv, WaitsForOne, Access!Real
<1>8. BlocksTell'  BY <1>2, <1>3, <1>4, <1>5 DEF AccessInv, BlocksTell
<1>9. Access!AnswerIsTheUsers'  BY <1>5 DEF AccessInv, Access!AnswerIsTheUsers, Access!Real
<1> QED  BY <1>6, <1>7, <1>8, <1>9 DEF AccessInv

\* The user's decision keeps the invariant: nobody has been told of another before.
LEMMA AccessDecide == ASSUME AccessInv, Access!Decide PROVE AccessInv'
<1> USE DEF AccessInv, Access!Decide
<1>1. AccessTypeOK'  BY DEF AccessTypeOK, Permissions
<1>2. WaitsForOne'  BY DEF WaitsForOne, Access!Real
<1>3. BlocksTell'  BY DEF BlocksTell
<1>4. Access!AnswerIsTheUsers'  BY DEF Access!AnswerIsTheUsers, Access!Real
<1> QED  BY <1>1, <1>2, <1>3, <1>4

\* Every step of configure_session(), request_microphone_permission(), the blocks and the
\* user keeps the invariant.
LEMMA AccessStep == AccessInv /\ [Access!Next]_(Access!vars) => AccessInv'
<1> SUFFICES ASSUME AccessInv, [Access!Next]_(Access!vars) PROVE AccessInv'  OBVIOUS
<1>1. ASSUME NEW c \in Callers, Access!ConfigureStub(c) PROVE AccessInv'
  <2> DEFINE value == IF build.os = "macos" THEN "ok" ELSE "unsupported config"
  <2>1. value \in Answers /\ value \notin {"granted", "denied"}  BY DEF Answers
  <2>2. Access!Return(c, value) /\ UNCHANGED <<build, permission, asked, requests>>  BY <1>1 DEF Access!ConfigureStub
  <2> QED  BY <2>1, <2>2, AccessReturns
<1>2. ASSUME NEW c \in Callers, Access!ConfigureLock(c) PROVE AccessInv'
  <2>1. at' = [at EXCEPT ![c] = "configure"]
        /\ UNCHANGED <<build, permission, asked, requests, answer>>
    BY <1>2 DEF Access!ConfigureLock
  <2>2. AccessTypeOK' /\ WaitsForOne'  BY <2>1 DEF AccessInv, AccessTypeOK, WaitsForOne, Access!Real
  <2> QED  BY <2>1, <2>2 DEF AccessInv, BlocksTell, Access!AnswerIsTheUsers, Access!Real
<1>3. ASSUME NEW c \in Callers, NEW v \in Categories, Access!ConfigureSet(c, v) PROVE AccessInv'
  <2>1. PICK value \in {"ok", "format mismatch"} : Access!Return(c, value)  BY <1>3 DEF Access!ConfigureSet
  <2>2. value \in Answers /\ value \notin {"granted", "denied"}  BY DEF Answers
  <2>3. UNCHANGED <<build, permission, asked, requests>>  BY <1>3 DEF Access!ConfigureSet
  <2> QED  BY <2>1, <2>2, <2>3, AccessReturns
<1>4. ASSUME NEW c \in Callers, Access!RequestStub(c) PROVE AccessInv'
  <2>1. Access!Assumed \in Answers  BY DEF Access!Assumed, Answers
  <2>2. ~Access!Real /\ Access!Return(c, Access!Assumed) /\ UNCHANGED <<build, permission, asked, requests>>
    BY <1>4 DEF Access!RequestStub
  <2> QED  BY <2>1, <2>2, AccessReturns
<1>5. ASSUME NEW c \in Callers, Access!WaitEnds(c) PROVE AccessInv'
  <2> DEFINE outcome == IF requests[asked[c]].result = "granted" THEN "granted" ELSE "denied"
  <2>1. Access!Return(c, outcome) /\ UNCHANGED <<build, permission, asked, requests>>  BY <1>5 DEF Access!WaitEnds
  <2>2. asked[c] \in 1 .. Len(requests)  BY <1>5 DEF AccessInv, WaitsForOne, Access!WaitEnds
  <2>3. permission # "undetermined" /\ requests[asked[c]].result = permission
    BY <1>5, <2>2 DEF AccessInv, BlocksTell, Access!WaitEnds
  <2>4. outcome = permission /\ outcome \in Answers  BY <2>3 DEF AccessInv, AccessTypeOK, Permissions, Answers
  <2> HIDE DEF outcome
  <2> QED  BY <2>1, <2>4, AccessReturns
<1>6. ASSUME NEW c \in Callers, Access!WaitTimesOut(c) PROVE AccessInv'
  <2>1. "timeout" \in Answers  BY DEF Answers
  <2>2. Access!Return(c, "timeout") /\ UNCHANGED <<build, permission, asked, requests>>
    BY <1>6 DEF Access!WaitTimesOut
  <2> QED  BY <2>1, <2>2, AccessReturns
<1>7. CASE UNCHANGED (Access!vars)
  BY <1>7 DEF Access!vars, AccessInv, AccessTypeOK, WaitsForOne, BlocksTell, Access!AnswerIsTheUsers, Access!Real
<1> QED
  BY <1>1, <1>2, <1>3, <1>4, <1>5, <1>6, <1>7, AccessRequest, AccessBlock, AccessDecide DEF Access!Next

\* request_microphone_permission() tells the user's decision, however the blocks of the
\* system's thread interleave with waits that end or time out.
THEOREM AnswersAreTheUsers == PartsSpec => []AnswerIsTheUsers
<1>1. Access!Spec => []AccessInv  BY AccessInit, AccessStep, PTL DEF Access!Spec
<1>2. AccessInv => AnswerIsTheUsers  BY DEF AccessInv, AnswerIsTheUsers
<1> QED  BY <1>1, <1>2, PartsAreComponents, PTL

-----------------------------------------------------------------------------
(* MonitorStream.  After the guard is dropped the thread calls back once   *)
(* at the most: it was past its look at the flag, and the next look ends   *)
(* it.                                                                     *)

MonitorInv ==
    /\ monitor \in {"look", "sample", "call", "sleep", "ended"}
    /\ late \in Nat
    /\ ~stopped => late = 0
    /\ AtMostOnceMore
    /\ late = 1 => monitor \in {"look", "sleep", "ended"}

\* Every step of the thread, the stream and the guard keeps the invariant.
LEMMA MonitorStep == MonitorInv /\ [Monitoring!Next]_(Monitoring!vars) => MonitorInv'
<1> SUFFICES ASSUME MonitorInv, [Monitoring!Next]_(Monitoring!vars) PROVE MonitorInv'  OBVIOUS
<1> USE DEF MonitorInv, AtMostOnceMore, Monitoring!AtMostOnceMore
<1>1. CASE Monitoring!StreamRuns  BY <1>1 DEF Monitoring!StreamRuns
<1>2. CASE Monitoring!DropGuard  BY <1>2 DEF Monitoring!DropGuard
<1>3. CASE Monitoring!Look  BY <1>3 DEF Monitoring!Look
<1>4. CASE Monitoring!Sample  BY <1>4 DEF Monitoring!Sample
<1>5. CASE Monitoring!Call  BY <1>5 DEF Monitoring!Call
<1>6. CASE Monitoring!Wake  BY <1>6 DEF Monitoring!Wake
<1>7. CASE UNCHANGED (Monitoring!vars)  BY <1>7 DEF Monitoring!vars
<1> QED  BY <1>1, <1>2, <1>3, <1>4, <1>5, <1>6, <1>7 DEF Monitoring!Next

\* monitor_stream() calls back once more at the most after its guard is dropped.
THEOREM MonitorStops == PartsSpec => []AtMostOnceMore
<1>1. Monitoring!Init => MonitorInv
  BY DEF Monitoring!Init, MonitorInv, AtMostOnceMore, Monitoring!AtMostOnceMore
<1>2. Monitoring!Spec => []MonitorInv  BY <1>1, MonitorStep, PTL DEF Monitoring!Spec
<1>3. MonitorInv => AtMostOnceMore  BY DEF MonitorInv
<1> QED  BY <1>2, <1>3, PartsAreComponents, PTL
-----------------------------------------------------------------------------
(* CpalOpen.  The invariant follows a call from question to question: what *)
(* it has opened by then and with which format, that the device offers it, *)
(* and what the answers so far allow an error to say.                      *)

Before == {"validate", "default", "support", "negotiate", "build"}
Built  == {"F32", "I16", "U16", "I8", "I32", "F64", "U8"}

OpenTypeOK ==
    /\ device \in Models /\ config \in Configs
    /\ kind \in Opening!Kinds \cup {"reconnect"}
    /\ step \in Before \cup {"play", "done"}
    /\ side \in {"out", "in"}
    /\ kind \notin Opening!TwoSided => side = (IF kind \in Opening!InKinds THEN "in" ELSE "out")

\* A half of what the call opens, before and after it plays.
Waiting(s, f)  == [side |-> s, format |-> f, state |-> "built", capacity |-> Opening!RingSamples]
Sounding(s, f) == [side |-> s, format |-> f, state |-> "playing", capacity |-> Opening!RingSamples]

\* The second half of a duplex stream.
Second == kind \in Opening!TwoSided /\ side = "in"

\* What is open, by how far the call has come.
HalvesInv ==
    /\ step \in Before =>
          IF Second THEN \E f \in Built : streams = {Sounding("out", f)} ELSE streams = {}
    /\ step = "play" =>
          IF Second THEN \E f, g \in Built : streams = {Sounding("out", f), Waiting("in", g)}
                    ELSE \E f \in Built : streams = {Waiting(side, f)}
    /\ step = "done" =>
          IF result # "ok" THEN streams = {}
          ELSE IF kind \in Opening!TwoSided
               THEN \E f, g \in Built : streams = {Sounding("out", f), Sounding("in", g)}
               ELSE \E f \in Built : streams = {Sounding(side, f)}

\* The ranges of an output that fit the configuration, and what StreamsAreOffered asks of
\* its format.
There   == {r \in Opening!Ranges("out") : Opening!Covers(r, config)}
Formats == {r.format : r \in There}
Liked   == {i \in DOMAIN config.preferred : config.preferred[i] \in Formats}
IsAsked(f) ==
    (kind \in Opening!Buffered /\ config.preferred # <<>> /\ ~away
     /\ Opening!Unheard \notin failed /\ Formats \subseteq Opening!Exact)
        => /\ f \in Formats
           /\ Liked # {} => f = config.preferred[Opening!Min(Liked)]

FormatInv ==
    /\ step \in {"support", "negotiate", "build"} => format \in Opening!Typed \cup {device.out, device.in}
    /\ step = "negotiate" => kind \in Opening!Buffered
    /\ step = "build" => IsAsked(format)
    /\ step \in {"negotiate", "build"} => Opening!Supported(config, Opening!Ranges(side))
    /\ \A s \in streams : IsAsked(s.format) /\ Opening!Supported(config, Opening!Ranges(s.side))

\* A call that goes on has told nothing, and a device that is away has been noticed.
ErrorInv ==
    /\ ~attached => away
    /\ step # "done" => result = None
    /\ Opening!ErrorsTellCause

\* What is left of the stream a reconnect replaces.
ReplacedInv ==
    kind = "reconnect" /\ replaced.kind # "capacity" =>
        replaced.capacity = ((Opening!OrElse(config.capacity, 20) * config.rate) \div 10) * config.channels

OpenInv == OpenTypeOK /\ HalvesInv /\ FormatInv /\ ErrorInv /\ ReplacedInv

\* What depends on the call, its configuration and the device alone.
LEMMA SameCall ==
    ASSUME UNCHANGED <<device, config, kind>>
    PROVE  /\ \A s : Opening!Ranges(s)' = Opening!Ranges(s)
           /\ There' = There /\ Formats' = Formats /\ Liked' = Liked
           /\ Opening!RingSamples' = Opening!RingSamples /\ Opening!Typed' = Opening!Typed
           /\ \A s, f : Waiting(s, f)' = Waiting(s, f) /\ Sounding(s, f)' = Sounding(s, f)
<1>1. \A s : Opening!Ranges(s)' = Opening!Ranges(s)  BY DEF Opening!Ranges
<1>2. There' = There  BY <1>1 DEF There
<1>3. Formats' = Formats /\ Liked' = Liked  BY <1>2 DEF Formats, Liked
<1>4. Opening!RingSamples' = Opening!RingSamples  BY DEF Opening!RingSamples, Opening!Tenths
<1>5. Opening!Typed' = Opening!Typed  BY DEF Opening!Typed
<1>6. \A s, f : Waiting(s, f)' = Waiting(s, f) /\ Sounding(s, f)' = Sounding(s, f)  BY <1>4 DEF Waiting, Sounding
<1> QED  BY <1>1, <1>2, <1>3, <1>4, <1>5, <1>6

\* A call that has just begun.
LEMMA OpenInit == Opening!Init => OpenInv
<1> SUFFICES ASSUME Opening!Init PROVE OpenInv  OBVIOUS
<1> USE DEF Opening!Init, Opening!FirstStep
<1>1. OpenTypeOK
  BY DEF OpenTypeOK, Before, Opening!Kinds, Opening!InKinds, Opening!OutKinds, Opening!TwoSided
<1>2. HalvesInv  BY DEF HalvesInv, Before, Second, Opening!TwoSided, Opening!InKinds
<1>3. FormatInv  BY DEF FormatInv
<1>4. ErrorInv  BY OpeningAssumption DEF ErrorInv, Opening!ErrorsTellCause, Opening!OpenAssumption
<1>5. ReplacedInv
  BY DEF ReplacedInv, Opening!Kinds, Opening!InKinds, Opening!OutKinds
<1> QED  BY <1>1, <1>2, <1>3, <1>4, <1>5 DEF OpenInv

\* Why a call may say that the configuration is unsupported.
Unsupportable ==
    \E s \in IF kind \in Opening!TwoSided THEN {"out", "in"} ELSE {side} :
       \/ ~Opening!Supported(config, Opening!Ranges(s))
       \/ \E f \in {r.format : r \in Opening!Ranges(s)} \cup {device.out, device.in} : f \notin Opening!Typed

\* What a call whose failures are those in `why` may say.
MayTell(e, why) ==
    /\ e # "ok"
    /\ e = "Disconnected" => away \/ \E x \in why : x[2] \in {"DeviceNotAvailable", "StreamInvalidated"}
    /\ e = "UnsupportedConfig" => \/ Unsupportable
                                  \/ \E x \in why : x[2] \in {"InvalidInput", "UnsupportedConfig"}
                                  \/ <<"default", "BackendError">> \in why

\* A failed question leaves nothing open, and says what is so.
LEMMA OpenFails ==
    ASSUME OpenInv, step # "done", NEW e, NEW why, Opening!Fail(e, why), MayTell(e, why)
    PROVE  OpenInv'
<1> USE DEF OpenInv
<1>1. /\ UNCHANGED <<device, attached, kind, config, replaced, unplugs, side>> /\ streams' = {}
      /\ \/ kind = "retry" /\ step' = "validate" /\ result' = result /\ away' = ~attached
         \/ step' = "done" /\ result' = e /\ failed' = why /\ UNCHANGED away
  BY DEF Opening!Fail, Opening!Rest
<1>2. OpenTypeOK'  BY <1>1 DEF OpenTypeOK, Before
<1>3. HalvesInv'  BY <1>1 DEF HalvesInv, Second, Before, Opening!TwoSided, MayTell
<1>4. FormatInv'  BY <1>1 DEF FormatInv
<1>5. ErrorInv'
  <2>1. Opening!Ranges("out")' = Opening!Ranges("out") /\ Opening!Ranges("in")' = Opening!Ranges("in")
        /\ Opening!Typed' = Opening!Typed
    BY <1>1, SameCall
  <2>2. CASE kind = "retry" /\ step' = "validate" /\ result' = result /\ away' = ~attached
    BY <1>1, <2>2, OpeningAssumption DEF ErrorInv, Opening!ErrorsTellCause, Opening!OpenAssumption
  <2>3. CASE step' = "done" /\ result' = e /\ failed' = why /\ UNCHANGED away
    <3>1. Unsupportable' <=> Unsupportable
      BY <1>1, <2>1 DEF Unsupportable, OpenTypeOK, Opening!Supported, Opening!Covers
    <3>2. result' = "Disconnected" =>
             away' \/ Opening!Failed({"DeviceNotAvailable", "StreamInvalidated"})'
      BY <2>3 DEF MayTell, Opening!Failed
    <3>3. result' = "UnsupportedConfig" =>
             \/ Unsupportable'
             \/ Opening!Failed({"InvalidInput", "UnsupportedConfig"})'
             \/ <<"default", "BackendError">> \in failed'
      BY <2>3, <3>1 DEF MayTell, Opening!Failed
    <3>4. Opening!ErrorsTellCause'  BY <3>2, <3>3 DEF Opening!ErrorsTellCause, Unsupportable
    <3> QED  BY <1>1, <2>3, <3>4 DEF ErrorInv
  <2> QED  BY <1>1, <2>2, <2>3
<1>6. ReplacedInv'  BY <1>1 DEF ReplacedInv, Opening!OrElse
<1> QED  BY <1>2, <1>3, <1>4, <1>5, <1>6

\* A question answered as the call hoped for: it goes on, and only to a format and a step
\* the invariant has something to say about.
LEMMA OpenContinues ==
    ASSUME OpenInv, step \in Before, NEW next \in Before, Opening!Continue(next),
           next \in {"support", "negotiate", "build"} =>
              format' \in Opening!Typed \cup {device.out, device.in},
           next = "negotiate" => kind \in Opening!Buffered,
           next = "build" => IsAsked(format') \/ away \/ Opening!Unheard \in failed',
           next \in {"negotiate", "build"} => Opening!Supported(config, Opening!Ranges(side)),
           failed \subseteq failed'
    PROVE  OpenInv'
<1> USE DEF OpenInv
<1>1. /\ UNCHANGED <<device, attached, kind, config, replaced, unplugs, side, streams, result, away>>
      /\ step' = next /\ next \notin {"play", "done"} /\ step # "done"
  BY DEF Opening!Continue, Opening!Rest, Before
<1>2. OpenTypeOK'  BY <1>1 DEF OpenTypeOK
<1>3. HalvesInv'
  <2>1. IF Second THEN \E f \in Built : streams = {Sounding("out", f)} ELSE streams = {}
    BY DEF HalvesInv
  <2>2. \A f : Sounding("out", f)' = Sounding("out", f)  BY <1>1, SameCall
  <2>3. Second' = Second  BY <1>1 DEF Second
  <2> QED  BY <1>1, <2>1, <2>2, <2>3 DEF HalvesInv
<1>4. /\ \A s : Opening!Ranges(s)' = Opening!Ranges(s)
      /\ There' = There /\ Formats' = Formats /\ Liked' = Liked /\ Opening!Typed' = Opening!Typed
  BY <1>1, SameCall
<1>5. /\ \A f : IsAsked(f) => IsAsked(f)'
      /\ \A f : away \/ Opening!Unheard \in failed' => IsAsked(f)'
  BY <1>1, <1>4 DEF IsAsked, Opening!Unheard
<1>6. FormatInv'
  <2>1. \A s : Opening!Supported(config, Opening!Ranges(s))' <=> Opening!Supported(config, Opening!Ranges(s))
    BY <1>1, <1>4 DEF Opening!Supported, Opening!Covers
  <2>2. step' = "build" => IsAsked(format)'
    <3> SUFFICES ASSUME next = "build" PROVE IsAsked(format)'  BY <1>1
    <3>1. IsAsked(format') => IsAsked(format)'  BY <1>1, <1>4 DEF IsAsked, Opening!Unheard
    <3> QED  BY <1>5, <3>1
  <2>3. \A s \in streams : IsAsked(s.format)' /\ Opening!Supported(config, Opening!Ranges(s.side))'
    BY <1>5, <2>1 DEF FormatInv
  <2>4. (\A s \in streams : IsAsked(s.format) /\ Opening!Supported(config, Opening!Ranges(s.side)))'
    <3> SUFFICES ASSUME NEW s \in streams'
                 PROVE  IsAsked(s.format)' /\ Opening!Supported(config, Opening!Ranges(s.side))'
      OBVIOUS
    <3> QED  BY <1>1, <2>3
  <2>5. step' \in {"negotiate", "build"} => Opening!Supported(config, Opening!Ranges(side))'
    BY <1>1, <1>4 DEF Opening!Supported, Opening!Covers
  <2> QED  BY <1>1, <1>4, <2>2, <2>4, <2>5 DEF FormatInv
<1>7. ErrorInv'
  BY <1>1, OpeningAssumption DEF ErrorInv, Opening!ErrorsTellCause, Opening!OpenAssumption
<1>8. ReplacedInv'  BY <1>1 DEF ReplacedInv, Opening!OrElse
<1> QED  BY <1>2, <1>3, <1>6, <1>7, <1>8

\* The least of a set of numbers is one of them, and no greater than any.
LEMMA OpenMin ==
    ASSUME NEW T \in SUBSET Nat, T # {}
    PROVE  Opening!Min(T) \in T /\ \A x \in T : Opening!Min(T) <= x
BY LeastNumber DEF Opening!Min

Offers == [channels : Nat \ {0}, low : Nat, high : Nat, format : STRING]

\* The ranges a device tells are finitely many: their rates have a bound.
LEMMA OpenRanges ==
    ASSUME device \in Models, NEW s \in {"out", "in"}
    PROVE  /\ Opening!Ranges(s) \subseteq Offers
           /\ \E b \in Nat : \A r \in Opening!Ranges(s) : r.high <= b
<1>1. PICK list \in Seq(Offers) : Opening!Ranges(s) = {list[i] : i \in DOMAIN list}
  BY OpeningAssumption DEF Opening!OpenAssumption, Opening!Ranges, Opening!ToSet, Offers
<1>2. \A i \in DOMAIN list : list[i] \in Offers  OBVIOUS
<1>3. \A r \in Offers : r.high \in Nat  BY DEF Offers
<1> DEFINE highs == [i \in 1 .. Len(list) |-> list[i].high]
<1>4. highs \in Seq(Nat) /\ Len(highs) = Len(list)
  <2>1. \A i \in 1 .. Len(list) : list[i].high \in Nat  BY <1>2, <1>3
  <2>2. Len(list) \in Nat /\ highs \in [1 .. Len(list) -> Nat]  BY <2>1
  <2> QED  BY <2>2
<1>5. PICK b \in Nat : \A i \in 1 .. Len(highs) : highs[i] <= b  BY <1>4, SequenceBound
<1>6. \A i \in DOMAIN list : list[i].high <= b
  <2>1. DOMAIN list = 1 .. Len(list) /\ \A i \in 1 .. Len(list) : highs[i] = list[i].high  OBVIOUS
  <2> HIDE DEF highs
  <2> QED  BY <1>4, <1>5, <2>1
<1> QED  BY <1>1, <1>2, <1>6

\* validate() passes whatever a range supports.
LEMMA SupportedIsValid ==
    ASSUME device \in Models, config \in Configs, NEW s \in {"out", "in"},
           Opening!Supported(config, Opening!Ranges(s))
    PROVE  Opening!Valid(config, Opening!Ranges(s))
<1> DEFINE R == Opening!Ranges(s)
           lows == {q.low : q \in R}
           highs == {q.high : q \in R}
<1>1. PICK r \in R : Opening!Covers(r, config)  BY DEF Opening!Supported
<1>2. r.channels = config.channels /\ r.low <= config.rate /\ config.rate <= r.high
  BY <1>1 DEF Opening!Covers
<1>3. config.rate \in Nat  BY OpeningAssumption DEF Opening!OpenAssumption
<1>4. PICK b \in Nat : \A q \in R : q.high <= b  BY OpenRanges
<1>5. \A q \in R : q.low \in Nat /\ q.high \in Nat
  <2>1. R \subseteq Offers  BY OpenRanges
  <2>2. \A q \in Offers : q.low \in Nat /\ q.high \in Nat  BY DEF Offers
  <2> QED  BY <2>1, <2>2
<1> HIDE DEF R
<1>6. lows \in SUBSET Nat /\ r.low \in lows  BY <1>5
<1>7. highs \in SUBSET Nat /\ r.high \in highs /\ \A x \in highs : x <= b  BY <1>4, <1>5
<1> HIDE DEF lows, highs
<1>8. Opening!Min(lows) \in Nat /\ Opening!Min(lows) <= r.low  BY <1>6, OpenMin
<1>9. Opening!Max(highs) \in Nat /\ r.high <= Opening!Max(highs)
  <2>1. \E x \in highs : \A y \in highs : y <= x  BY <1>7, GreatestNumber
  <2>2. Opening!Max(highs) \in highs /\ \A y \in highs : y <= Opening!Max(highs)
    BY <2>1 DEF Opening!Max
  <2> QED  BY <1>7, <2>2
<1>10. Opening!Min(lows) <= config.rate /\ config.rate <= Opening!Max(highs)
  BY <1>2, <1>3, <1>5, <1>8, <1>9
<1> QED  BY <1>1, <1>2, <1>10 DEF Opening!Valid, R, lows, highs

\* A question that fails tells what the backend said of it, or that the device is away.
LEMMA BackendFailsHolds ==
    ASSUME OpenInv, step # "done", NEW fallback, fallback \notin {"ok", "Disconnected"},
           fallback = "UnsupportedConfig" => step = "default", Opening!BackendFails(fallback)
    PROVE  OpenInv'
<1>1. PICK e \in Opening!Failures : Opening!Fail(Opening!MapCpalErr(e, fallback), Opening!Also(e))
  BY DEF Opening!BackendFails
<1>2. attached => <<step, e>> \in Opening!Also(e)  BY DEF Opening!Also
<1>3. ~attached => away /\ e = "DeviceNotAvailable"
  BY DEF Opening!Failures, OpenInv, ErrorInv
<1>4. MayTell(Opening!MapCpalErr(e, fallback), Opening!Also(e))
  <2>1. Opening!MapCpalErr(e, fallback) # "ok"  BY DEF Opening!MapCpalErr
  <2>2. Opening!MapCpalErr(e, fallback) = "Disconnected"
           => e \in {"DeviceNotAvailable", "StreamInvalidated"}
    BY DEF Opening!MapCpalErr
  <2>3. Opening!MapCpalErr(e, fallback) = "UnsupportedConfig"
           => attached /\ (e \in {"InvalidInput", "UnsupportedConfig"} \/ step = "default")
    BY <1>3 DEF Opening!MapCpalErr
  <2>4. Opening!MapCpalErr(e, fallback) = "UnsupportedConfig" /\ e \notin {"InvalidInput", "UnsupportedConfig"}
           => e = "BackendError"
    BY <1>1, <2>3 DEF Opening!MapCpalErr, Opening!Failures, Opening!Errors
  <2> QED  BY <1>2, <1>3, <2>1, <2>2, <2>3, <2>4 DEF MayTell
<1> QED  BY <1>1, <1>4, OpenFails

\* validate(): its error says that no range supports the configuration.
LEMMA ValidateHolds == ASSUME OpenInv, Opening!Validate PROVE OpenInv'
<1>1. PICK ranges \in {Opening!Probed(side), {}} :
         IF Opening!Valid(config, ranges)
         THEN Opening!Continue("default") /\ UNCHANGED <<format, failed>>
         ELSE Opening!Fail("UnsupportedConfig", failed)
  BY DEF Opening!Validate
<1>2. step = "validate"  BY DEF Opening!Validate
<1>3. CASE Opening!Valid(config, ranges)
  BY <1>1, <1>2, <1>3, OpenContinues DEF Before
<1>4. CASE ~Opening!Valid(config, ranges)
  <2>1. ranges = Opening!Ranges(side)
    BY <1>1, <1>4 DEF Opening!Probed, Opening!Valid
  <2>2. ~Opening!Supported(config, Opening!Ranges(side))
    BY <1>4, <2>1, SupportedIsValid DEF OpenInv, OpenTypeOK
  <2>3. Unsupportable  BY <2>2 DEF Unsupportable, OpenInv, OpenTypeOK
  <2>4. MayTell("UnsupportedConfig", failed)  BY <2>3 DEF MayTell
  <2> QED  BY <1>1, <1>2, <1>4, <2>4, OpenFails
<1> QED  BY <1>3, <1>4

\* The default format is one of the device's, or the one callbacks get.
LEMMA AskDefaultHolds == ASSUME OpenInv, Opening!AskDefault PROVE OpenInv'
<1>1. format' \in Opening!Typed \cup {device.out, device.in}
  BY DEF Opening!AskDefault, Opening!Typed, Opening!Callback, Opening!Buffered
<1> QED  BY <1>1, OpenContinues DEF Opening!AskDefault, Before

LEMMA AskDefaultFailsHolds == ASSUME OpenInv, Opening!AskDefaultFails PROVE OpenInv'
BY BackendFailsHolds DEF Opening!AskDefaultFails

\* A configuration that is supported, or not.
LEMMA CheckSupportHolds == ASSUME OpenInv, Opening!CheckSupport PROVE OpenInv'
<1>1. step = "support"  BY DEF Opening!CheckSupport
<1>2. CASE Opening!Supported(config, Opening!Ranges(side))
  <2>1. format \in Opening!Typed \cup {device.out, device.in} /\ UNCHANGED <<format, failed>>
    BY <1>1, <1>2 DEF Opening!CheckSupport, OpenInv, FormatInv
  <2>2. CASE kind \in Opening!Buffered /\ config.preferred # <<>>
    BY <1>1, <1>2, <2>1, <2>2, OpenContinues DEF Opening!CheckSupport, Before
  <2>3. CASE ~(kind \in Opening!Buffered /\ config.preferred # <<>>)
    <3>1. IsAsked(format')  BY <2>3 DEF IsAsked
    <3> QED  BY <1>1, <1>2, <2>1, <2>3, <3>1, OpenContinues DEF Opening!CheckSupport, Before
  <2> QED  BY <2>2, <2>3
<1>3. CASE ~Opening!Supported(config, Opening!Ranges(side))
  <2>1. Unsupportable  BY <1>3 DEF Unsupportable, OpenInv, OpenTypeOK
  <2>2. MayTell("UnsupportedConfig", failed)  BY <2>1 DEF MayTell
  <2> QED  BY <1>1, <1>3, <2>2, OpenFails DEF Opening!CheckSupport
<1> QED  BY <1>2, <1>3

LEMMA CheckSupportFailsHolds == ASSUME OpenInv, Opening!CheckSupportFails PROVE OpenInv'
BY BackendFailsHolds DEF Opening!CheckSupportFails

\* What negotiate_output() answers is what StreamsAreOffered asks.
LEMMA NegotiatedIsAsked ==
    ASSUME device \in Models, config \in Configs, Opening!Supported(config, Opening!Ranges("out")),
           attached
    PROVE  /\ Opening!Negotiated(config) \in Opening!CoreFormats
           /\ IsAsked(Opening!Negotiated(config))
<1> DEFINE fitting == {i \in DOMAIN device.outs : Opening!Covers(device.outs[i], config)}
           hint    == IF config.sample_format = None THEN <<>> ELSE <<config.sample_format>>
           ranked  == config.preferred \o hint
           offered == {Opening!ToCore(device.outs[i].format) : i \in fitting}
           usable  == {j \in DOMAIN ranked : ranked[j] \in offered}
           chosen  == Opening!Negotiated(config)
<1>1. chosen = IF usable # {} THEN ranked[Opening!Min(usable)]
                ELSE IF fitting = {} THEN None
                ELSE Opening!ToCore(device.outs[Opening!Min(fitting)].format)
  BY DEF Opening!Negotiated, Opening!PickPreferred
<1>2. device.outs \in Seq(Offers)
  BY OpeningAssumption DEF Opening!OpenAssumption, Offers
<1>3. config.preferred \in Seq(Opening!CoreFormats) /\ hint \in Seq(Opening!CoreFormats)
  BY OpeningAssumption DEF Opening!OpenAssumption
<1>4. /\ ranked \in Seq(Opening!CoreFormats)
      /\ DOMAIN config.preferred \subseteq DOMAIN ranked
      /\ \A j \in DOMAIN config.preferred : ranked[j] = config.preferred[j]
      /\ DOMAIN ranked \in SUBSET Nat
      /\ \A j \in DOMAIN ranked \ DOMAIN config.preferred : \A i \in DOMAIN config.preferred : i <= j
  <2> HIDE DEF hint
  <2> QED  BY <1>3
<1>5. There = {device.outs[i] : i \in fitting}
  BY DEF There, Opening!Ranges, Opening!ToSet
<1>6. fitting \in SUBSET Nat /\ fitting # {}
  <2>1. DOMAIN device.outs \in SUBSET Nat  BY <1>2
  <2>2. There # {}  BY DEF There, Opening!Supported
  <2> QED  BY <1>5, <2>1, <2>2
<1> HIDE DEF ranked
<1>7. usable \in SUBSET Nat /\ usable \subseteq DOMAIN ranked  BY <1>4
<1>8. \A f : Opening!ToCore(f) \in Opening!CoreFormats
  BY DEF Opening!ToCore, Opening!CoreFormats
<1>9. Formats = {device.outs[i].format : i \in fitting}  BY <1>5 DEF Formats
<1> HIDE DEF fitting, hint
<1>10. chosen \in Opening!CoreFormats
  <2>1. CASE usable # {}
    <3>1. Opening!Min(usable) \in DOMAIN ranked  BY <1>7, <2>1, OpenMin
    <3> HIDE DEF usable
    <3> QED  BY <1>1, <1>4, <2>1, <3>1
  <2>2. CASE usable = {}  BY <1>1, <1>6, <1>8, <2>2
  <2> QED  BY <2>1, <2>2
<1>11. ASSUME kind \in Opening!Buffered, config.preferred # <<>>, Formats \subseteq Opening!Exact
       PROVE  chosen \in Formats /\ (Liked # {} => chosen = config.preferred[Opening!Min(Liked)])
  <2>1. \A f \in Opening!CoreFormats : Opening!ToCore(f) = f
    BY DEF Opening!ToCore, Opening!CoreFormats
  <2>2. offered = Formats
    <3>1. \A i \in fitting : Opening!ToCore(device.outs[i].format) = device.outs[i].format
      BY <1>9, <1>11, <2>1 DEF Opening!Exact
    <3> QED  BY <1>9, <3>1
  <2>3. CASE usable # {}
    <3>1. Opening!Min(usable) \in usable /\ \A x \in usable : Opening!Min(usable) <= x
      BY <1>7, <2>3, OpenMin
    <3>2. chosen \in Formats  BY <1>1, <2>2, <2>3, <3>1
    <3>3. ASSUME Liked # {} PROVE chosen = config.preferred[Opening!Min(Liked)]
      <4>1. Liked \subseteq usable /\ Liked \in SUBSET Nat
        BY <1>4, <1>7, <2>2 DEF Liked
      <4>2. Opening!Min(Liked) \in Liked /\ \A x \in Liked : Opening!Min(Liked) <= x
        BY <3>3, <4>1, OpenMin
      <4>3. Opening!Min(usable) \in DOMAIN config.preferred
        <5> SUFFICES ASSUME Opening!Min(usable) \notin DOMAIN config.preferred PROVE FALSE  OBVIOUS
        <5>1. Opening!Min(Liked) \in DOMAIN config.preferred /\ Opening!Min(Liked) \in usable
          BY <4>1, <4>2 DEF Liked
        <5>2. Opening!Min(Liked) <= Opening!Min(usable)  BY <1>4, <3>1, <5>1
        <5>3. Opening!Min(Liked) \in Nat /\ Opening!Min(usable) \in Nat
              /\ Opening!Min(usable) <= Opening!Min(Liked)
          BY <1>7, <3>1, <4>1, <4>2, <5>1
        <5>4. Opening!Min(Liked) = Opening!Min(usable)  BY <5>2, <5>3
        <5> QED  BY <5>1, <5>4
      <4>4. Opening!Min(usable) \in Liked  BY <1>4, <2>2, <3>1, <4>3 DEF Liked
      <4>5. Opening!Min(Liked) = Opening!Min(usable)
        <5>1. Opening!Min(Liked) <= Opening!Min(usable) /\ Opening!Min(usable) <= Opening!Min(Liked)
          BY <3>1, <4>1, <4>2, <4>4
        <5>2. Opening!Min(Liked) \in Nat /\ Opening!Min(usable) \in Nat  BY <4>1, <4>2, <4>4
        <5> QED  BY <5>1, <5>2
      <4> QED  BY <1>1, <1>4, <2>3, <4>3, <4>5
    <3> QED  BY <3>2, <3>3
  <2>4. CASE usable = {}
    <3>1. Liked = {}  BY <1>4, <2>2, <2>4 DEF Liked
    <3>2. chosen \in offered  BY <1>1, <1>6, <2>4, OpenMin
    <3> QED  BY <2>2, <3>1, <3>2
  <2> QED  BY <2>3, <2>4
<1> QED  BY <1>10, <1>11, SMTT(30) DEF IsAsked

\* The answer of negotiate_output().
LEMMA NegotiateHolds == ASSUME OpenInv, Opening!Negotiate PROVE OpenInv'
<1> USE DEF Opening!Negotiate
<1>0. step \in Before /\ attached /\ UNCHANGED failed  BY DEF Before
<1>1. /\ device \in Models /\ config \in Configs /\ Opening!Supported(config, Opening!Ranges(side))
      /\ format \in Opening!Typed \cup {device.out, device.in}
      /\ kind \in Opening!Kinds \cup {"reconnect"}
      /\ kind \notin Opening!TwoSided => side = (IF kind \in Opening!InKinds THEN "in" ELSE "out")
  BY DEF OpenInv, OpenTypeOK, FormatInv
<1>2. kind \in Opening!Buffered => /\ side = "out"
                                   /\ Opening!CoreFormats \subseteq Opening!Typed
  BY <1>1 DEF Opening!Buffered, Opening!TwoSided, Opening!InKinds, Opening!CoreFormats, Opening!Typed,
     Opening!Callback
<1>3. IsAsked(format')
  <2> SUFFICES ASSUME kind \in Opening!Buffered PROVE IsAsked(format')
    BY DEF IsAsked, Opening!Continue
  <2>1. /\ Opening!Negotiated(config) \in Opening!CoreFormats
        /\ IsAsked(Opening!Negotiated(config))
    BY <1>0, <1>1, <1>2, NegotiatedIsAsked
  <2>2. Opening!Negotiated(config) # None
    BY <2>1, OpeningAssumption DEF Opening!OpenAssumption
  <2>3. format' = Opening!Negotiated(config)  BY <2>1, <2>2 DEF Opening!ToCpal
  <2> QED  BY <2>1, <2>3
<1>4. format' \in Opening!Typed \cup {device.out, device.in}
  <2>1. CASE Opening!Negotiated(config) = None  BY <1>1, <2>1
  <2>2. CASE Opening!Negotiated(config) # None
    <3>1. kind \in Opening!Buffered  BY DEF OpenInv, FormatInv
    <3>2. Opening!Negotiated(config) \in Opening!CoreFormats
      BY <1>0, <1>1, <1>2, <3>1, NegotiatedIsAsked
    <3> QED  BY <1>2, <2>2, <3>1, <3>2 DEF Opening!ToCpal
  <2> QED  BY <2>1, <2>2
<1> QED  BY <1>0, <1>1, <1>3, <1>4, OpenContinues DEF Before

\* negotiate_output() failed: the default format, which nobody asked for.
LEMMA NegotiateFailsHolds == ASSUME OpenInv, Opening!NegotiateFails PROVE OpenInv'
<1>1. /\ step = "negotiate" /\ Opening!Continue("build") /\ format' = format
      /\ failed' = Opening!Also("BackendError")
  BY DEF Opening!NegotiateFails
<1>2. failed \subseteq failed' /\ (away \/ Opening!Unheard \in failed')
  BY <1>1 DEF Opening!Also, Opening!Unheard, OpenInv, ErrorInv
<1>3. format' \in Opening!Typed \cup {device.out, device.in}
      /\ Opening!Supported(config, Opening!Ranges(side))
  BY <1>1 DEF OpenInv, FormatInv
<1> QED  BY <1>1, <1>2, <1>3, OpenContinues DEF Before

\* A stream is built with the format found, of the sizes of its ring.
LEMMA BuildHolds == ASSUME OpenInv, Opening!Build PROVE OpenInv'
<1> USE DEF Opening!Build
<1>1. /\ UNCHANGED <<device, attached, kind, config, replaced, unplugs, side, format, result, away, failed>>
      /\ step = "build" /\ step' = "play" /\ format \in Opening!Typed
      /\ streams' = streams \cup {Waiting(side, Opening!BuiltAs(format))}
  BY DEF Opening!Rest, Waiting
<1>2. Opening!BuiltAs(format) \in Built
  <2>1. kind \in Opening!Kinds \cup {"reconnect"}  BY DEF OpenInv, OpenTypeOK
  <2>2. Opening!Typed \subseteq Built \cup {"I24"}
    BY <2>1 DEF Built, Opening!Typed, Opening!Kinds, Opening!OutKinds, Opening!InKinds,
                Opening!Buffered, Opening!Callback
  <2> QED  BY <1>1, <2>2 DEF Opening!BuiltAs, Built
<1>3. /\ \A s : Opening!Ranges(s)' = Opening!Ranges(s)
      /\ There' = There /\ Formats' = Formats /\ Liked' = Liked /\ Opening!Typed' = Opening!Typed
      /\ \A s, f : Waiting(s, f)' = Waiting(s, f) /\ Sounding(s, f)' = Sounding(s, f)
  BY <1>1, SameCall
<1>4. OpenTypeOK'  BY <1>1 DEF OpenInv, OpenTypeOK
<1>5. HalvesInv'
  <2>1. Second' = Second  BY <1>1 DEF Second
  <2>2. CASE Second
    <3>1. PICK f \in Built : streams = {Sounding("out", f)}
      BY <1>1, <2>2 DEF OpenInv, HalvesInv, Before
    <3>2. streams' = {Sounding("out", f), Waiting("in", Opening!BuiltAs(format))}
      BY <1>1, <2>2, <3>1 DEF Second
    <3>3. \E g, h \in Built : streams' = {Sounding("out", g)', Waiting("in", h)'}
      BY <1>2, <1>3, <3>2
    <3> QED  BY <1>1, <2>1, <2>2, <3>3 DEF HalvesInv, Before
  <2>3. CASE ~Second
    <3>1. streams = {}  BY <1>1, <2>3 DEF OpenInv, HalvesInv, Before
    <3>2. streams' = {Waiting(side, Opening!BuiltAs(format))'}  BY <1>1, <1>3, <3>1
    <3> QED  BY <1>1, <1>2, <2>1, <2>3, <3>2 DEF HalvesInv, Before
  <2> QED  BY <2>2, <2>3
<1>6. FormatInv'
  <2>1. \A f : IsAsked(f)' <=> IsAsked(f)  BY <1>1, <1>3 DEF IsAsked, Opening!Unheard
  <2>2. \A s : Opening!Supported(config, Opening!Ranges(s))' <=> Opening!Supported(config, Opening!Ranges(s))
    BY <1>1, <1>3 DEF Opening!Supported, Opening!Covers
  <2>3. IsAsked(Opening!BuiltAs(format))
    <3>1. IsAsked(format)  BY <1>1 DEF OpenInv, FormatInv
    <3> QED  BY <3>1 DEF IsAsked, Opening!BuiltAs, Opening!Exact
  <2>4. Opening!Supported(config, Opening!Ranges(side))  BY <1>1 DEF OpenInv, FormatInv
  <2>5. \A s \in streams' : IsAsked(s.format) /\ Opening!Supported(config, Opening!Ranges(s.side))
    <3>1. \A s \in streams : IsAsked(s.format) /\ Opening!Supported(config, Opening!Ranges(s.side))
      BY DEF OpenInv, FormatInv
    <3> QED  BY <1>1, <2>3, <2>4, <3>1 DEF Waiting, Sounding
  <2>6. (\A s \in streams : IsAsked(s.format) /\ Opening!Supported(config, Opening!Ranges(s.side)))'
    <3> SUFFICES ASSUME NEW s \in streams'
                 PROVE  IsAsked(s.format)' /\ Opening!Supported(config, Opening!Ranges(s.side))'
      OBVIOUS
    <3> QED  BY <2>1, <2>2, <2>5
  <2> QED  BY <1>1, <2>6 DEF FormatInv
<1>7. ErrorInv'
  BY <1>1, OpeningAssumption DEF OpenInv, ErrorInv, Opening!ErrorsTellCause, Opening!OpenAssumption
<1>8. ReplacedInv'  BY <1>1 DEF OpenInv, ReplacedInv, Opening!OrElse
<1> QED  BY <1>4, <1>5, <1>6, <1>7, <1>8 DEF OpenInv

\* There is no type for the format, or the backend refuses.
LEMMA BuildFailsHolds == ASSUME OpenInv, Opening!BuildFails PROVE OpenInv'
<1> USE DEF Opening!BuildFails
<1>1. CASE format \notin Opening!Typed
  <2>1. format \in {device.out, device.in}  BY <1>1 DEF OpenInv, FormatInv
  <2>2. Unsupportable  BY <1>1, <2>1 DEF Unsupportable, OpenInv, OpenTypeOK
  <2>3. MayTell("UnsupportedConfig", failed)  BY <2>2 DEF MayTell
  <2> QED  BY <1>1, <2>3, OpenFails
<1>2. CASE format \in Opening!Typed
  BY <1>2, BackendFailsHolds
<1> QED  BY <1>1, <1>2

LEMMA PlayFailsHolds == ASSUME OpenInv, Opening!PlayFails PROVE OpenInv'
BY BackendFailsHolds DEF Opening!PlayFails

\* The parts of a half.
LEMMA HalfParts ==
    ASSUME NEW s, NEW f
    PROVE  /\ Waiting(s, f).side = s /\ Waiting(s, f).format = f
           /\ Sounding(s, f).side = s /\ Sounding(s, f).format = f
           /\ Sounding(s, f).capacity = Opening!RingSamples
           /\ [Waiting(s, f) EXCEPT !.state = "playing"] = Sounding(s, f)
BY DEF Waiting, Sounding

\* A half that starts; a duplex stream goes on with its other one.
LEMMA PlayHolds == ASSUME OpenInv, Opening!Play PROVE OpenInv'
<1>1. /\ UNCHANGED <<device, attached, kind, config, replaced, unplugs, away, failed>> /\ step = "play"
      /\ streams' = {IF s.side = side THEN [s EXCEPT !.state = "playing"] ELSE s : s \in streams}
      /\ IF kind \in Opening!TwoSided /\ side = "out"
         THEN side' = "in" /\ step' = "default" /\ UNCHANGED result
         ELSE step' = "done" /\ result' = "ok" /\ UNCHANGED side
  BY DEF Opening!Play, Opening!Rest
<1>2. /\ \A s : Opening!Ranges(s)' = Opening!Ranges(s)
      /\ There' = There /\ Formats' = Formats /\ Liked' = Liked /\ Opening!Typed' = Opening!Typed
      /\ \A s, f : Waiting(s, f)' = Waiting(s, f) /\ Sounding(s, f)' = Sounding(s, f)
  BY <1>1, SameCall
<1>3. OpenTypeOK'
  BY <1>1 DEF OpenInv, OpenTypeOK, Opening!TwoSided, Before
<1>4. side \in {"out", "in"} /\ result = None
  BY <1>1 DEF OpenInv, OpenTypeOK, ErrorInv
<1>5. HalvesInv' /\ \A s \in streams' : \E t \in streams : s.side = t.side /\ s.format = t.format
  <2>1. CASE Second
    <3>1. PICK f, g \in Built : streams = {Sounding("out", f), Waiting("in", g)}
      BY <1>1, <2>1 DEF OpenInv, HalvesInv
    <3>2. side = "in" /\ kind \in Opening!TwoSided  BY <2>1 DEF Second
    <3>3. streams' = {Sounding("out", f), Sounding("in", g)}
      <4>1. streams' = {IF s.side = "in" THEN [s EXCEPT !.state = "playing"] ELSE s :
                          s \in {Sounding("out", f), Waiting("in", g)}}
        BY <1>1, <3>1, <3>2
      <4> QED  BY <4>1, HalfParts
    <3>4. \E h, i \in Built : streams' = {Sounding("out", h)', Sounding("in", i)'}
      BY <1>2, <3>3
    <3>5. HalvesInv'  BY <1>1, <3>2, <3>4 DEF HalvesInv, Before
    <3>6. \A s \in streams' : \E t \in streams : s.side = t.side /\ s.format = t.format
      BY <3>1, <3>3, HalfParts
    <3> QED  BY <3>5, <3>6
  <2>2. CASE ~Second
    <3>1. PICK f \in Built : streams = {Waiting(side, f)}
      BY <1>1, <2>2 DEF OpenInv, HalvesInv, Before
    <3>2. streams' = {Sounding(side, f)}  BY <1>1, <3>1, HalfParts
    <3>3. HalvesInv'
      <4>1. CASE kind \in Opening!TwoSided /\ side = "out"
        <5>1. \E h \in Built : streams' = {Sounding("out", h)'}  BY <1>2, <3>2, <4>1
        <5> QED  BY <1>1, <4>1, <5>1 DEF HalvesInv, Before, Second
      <4>2. CASE ~(kind \in Opening!TwoSided /\ side = "out")
        <5>1. kind \notin Opening!TwoSided  BY <1>4, <2>2, <4>2 DEF Second
        <5>2. \E h \in Built : (streams = {Sounding(side, h)})'
          <6>1. Opening!RingSamples' = Opening!RingSamples  BY <1>1, SameCall
          <6>2. (streams = {Sounding(side, f)})'  BY <1>1, <3>2, <4>2, <6>1 DEF Sounding
          <6> QED  BY <6>2
        <5> QED  BY <1>1, <5>1, <5>2 DEF HalvesInv, Before, Second
      <4> QED  BY <4>1, <4>2
    <3>4. \A s \in streams' : \E t \in streams : s.side = t.side /\ s.format = t.format
      BY <3>1, <3>2, HalfParts
    <3> QED  BY <3>3, <3>4
  <2> QED  BY <2>1, <2>2
<1>6. FormatInv'
  <2>1. \A f : IsAsked(f)' <=> IsAsked(f)  BY <1>1, <1>2 DEF IsAsked, Opening!Unheard
  <2>2. \A s : Opening!Supported(config, Opening!Ranges(s))' <=> Opening!Supported(config, Opening!Ranges(s))
    BY <1>1, <1>2 DEF Opening!Supported, Opening!Covers
  <2>3. \A s \in streams : IsAsked(s.format) /\ Opening!Supported(config, Opening!Ranges(s.side))
    BY DEF OpenInv, FormatInv
  <2>4. (\A s \in streams : IsAsked(s.format) /\ Opening!Supported(config, Opening!Ranges(s.side)))'
    <3> SUFFICES ASSUME NEW s \in streams'
                 PROVE  IsAsked(s.format)' /\ Opening!Supported(config, Opening!Ranges(s.side))'
      OBVIOUS
    <3>1. PICK t \in streams : s.side = t.side /\ s.format = t.format  BY <1>5
    <3> QED  BY <2>1, <2>2, <2>3, <3>1
  <2> QED  BY <1>1, <2>4 DEF FormatInv
<1>7. ErrorInv'
  BY <1>1, <1>4, OpeningAssumption DEF OpenInv, ErrorInv, Opening!ErrorsTellCause, Opening!OpenAssumption
<1>8. ReplacedInv'  BY <1>1 DEF OpenInv, ReplacedInv, Opening!OrElse
<1> QED  BY <1>3, <1>5, <1>6, <1>7, <1>8 DEF OpenInv

\* A lost output is opened anew, with the ring its configuration says.
LEMMA ReconnectHolds == ASSUME OpenInv, Opening!Reconnect PROVE OpenInv'
<1>1. /\ UNCHANGED <<device, attached, config, side>> /\ away' = ~attached
      /\ kind \in {"output", "capacity", "retry"} /\ step = "done" /\ result = "ok"
      /\ kind' = "reconnect" /\ step' = "validate" /\ result' = None /\ streams' = {}
      /\ replaced' = [kind |-> kind, capacity |-> (CHOOSE s \in streams : TRUE).capacity]
  BY DEF Opening!Reconnect, Opening!Buffered
<1>2. OpenTypeOK'
  BY <1>1 DEF OpenInv, OpenTypeOK, Before, Opening!TwoSided, Opening!InKinds
<1>3. HalvesInv'  BY <1>1 DEF HalvesInv, Before, Second, Opening!TwoSided
<1>4. FormatInv'  BY <1>1 DEF FormatInv
<1>5. ErrorInv'
  <2>1. None # "Disconnected" /\ None # "UnsupportedConfig"
    BY OpeningAssumption DEF Opening!OpenAssumption
  <2>2. Opening!ErrorsTellCause'  BY <1>1, <2>1 DEF Opening!ErrorsTellCause
  <2>3. (~attached)' => away'
    <3>1. CASE attached  BY <1>1, <3>1
    <3>2. CASE ~attached  BY <1>1, <3>2
    <3> QED  BY <3>1, <3>2
  <2> QED  BY <1>1, <2>2, <2>3 DEF ErrorInv
<1>6. ReplacedInv'
  <2>1. PICK f \in Built : streams = {Sounding(side, f)}
    BY <1>1 DEF OpenInv, HalvesInv, Before, Opening!TwoSided
  <2>2. replaced'.kind = kind /\ replaced'.capacity = Opening!RingSamples
    <3> DEFINE old == CHOOSE s \in streams : TRUE
    <3>1. old = Sounding(side, f)  BY <2>1
    <3>2. replaced' = [kind |-> kind, capacity |-> old.capacity]  BY <1>1
    <3> HIDE DEF old
    <3> QED  BY <3>1, <3>2 DEF Sounding
  <2>3. kind # "capacity" =>
           Opening!RingSamples = ((Opening!OrElse(config.capacity, 20) * config.rate) \div 10) * config.channels
    BY <1>1 DEF Opening!RingSamples, Opening!Tenths, Opening!Callback, Opening!Buffered
  <2> QED  BY <1>1, <2>2, <2>3 DEF ReplacedInv, Opening!OrElse
<1> QED  BY <1>2, <1>3, <1>4, <1>5, <1>6 DEF OpenInv

\* A device that goes or comes, at any question.
LEMMA PlugHolds == ASSUME OpenInv, Opening!Unplug \/ Opening!Plug PROVE OpenInv'
<1>1. /\ UNCHANGED <<device, kind, config, step, side, format, streams, result, replaced, failed>>
      /\ (~attached)' => away'
      /\ away => away'
      /\ away' \/ (UNCHANGED away)
  BY DEF OpenInv, ErrorInv, Opening!Unplug, Opening!Plug, Opening!callVars
<1>2. /\ \A s : Opening!Ranges(s)' = Opening!Ranges(s)
      /\ There' = There /\ Formats' = Formats /\ Liked' = Liked /\ Opening!Typed' = Opening!Typed
      /\ \A s, f : Waiting(s, f)' = Waiting(s, f) /\ Sounding(s, f)' = Sounding(s, f)
  BY <1>1, SameCall
<1>3. OpenTypeOK'  BY <1>1 DEF OpenInv, OpenTypeOK
<1>4. HalvesInv'  BY <1>1, <1>2 DEF OpenInv, HalvesInv, Second
<1>5. FormatInv'
  <2>1. \A f : IsAsked(f) => IsAsked(f)'  BY <1>1, <1>2 DEF IsAsked, Opening!Unheard
  <2>2. \A s : Opening!Supported(config, Opening!Ranges(s))' <=> Opening!Supported(config, Opening!Ranges(s))
    BY <1>1, <1>2 DEF Opening!Supported, Opening!Covers
  <2>3. (\A s \in streams : IsAsked(s.format) /\ Opening!Supported(config, Opening!Ranges(s.side)))'
    BY <1>1, <2>1, <2>2 DEF OpenInv, FormatInv
  <2> QED  BY <1>1, <1>2, <2>1, <2>2, <2>3 DEF OpenInv, FormatInv
<1>6. ErrorInv'
  <2>1. Opening!ErrorsTellCause'
    BY <1>1, <1>2 DEF OpenInv, ErrorInv, Opening!ErrorsTellCause, Opening!Failed, Opening!Supported,
                      Opening!Covers
  <2>2. step' # "done" => result' = None  BY <1>1 DEF OpenInv, ErrorInv
  <2>3. (~attached)' => away'  BY <1>1
  <2> QED  BY <2>1, <2>2, <2>3 DEF ErrorInv
<1>7. ReplacedInv'  BY <1>1 DEF OpenInv, ReplacedInv, Opening!OrElse
<1> QED  BY <1>3, <1>4, <1>5, <1>6, <1>7 DEF OpenInv

\* Every step of a call, and of the device, keeps the invariant.
LEMMA OpenStep == OpenInv /\ [Opening!Next]_(Opening!vars) => OpenInv'
<1> SUFFICES ASSUME OpenInv, [Opening!Next]_(Opening!vars) PROVE OpenInv'  OBVIOUS
<1>1. CASE UNCHANGED (Opening!vars)
  <2>1. UNCHANGED <<device, kind, config, step, side, format, streams, result, replaced, attached, away, failed>>
    BY <1>1 DEF Opening!vars, Opening!callVars
  <2>2. /\ \A s : Opening!Ranges(s)' = Opening!Ranges(s)
        /\ There' = There /\ Formats' = Formats /\ Liked' = Liked /\ Opening!Typed' = Opening!Typed
        /\ \A s, f : Waiting(s, f)' = Waiting(s, f) /\ Sounding(s, f)' = Sounding(s, f)
    BY <2>1, SameCall
  <2>3. OpenTypeOK' /\ ReplacedInv'
    BY <2>1 DEF OpenInv, OpenTypeOK, ReplacedInv, Opening!OrElse
  <2>4. HalvesInv'  BY <2>1, <2>2 DEF OpenInv, HalvesInv, Second
  <2>5. FormatInv'
    BY <2>1, <2>2 DEF OpenInv, FormatInv, IsAsked, Opening!Unheard, Opening!Supported, Opening!Covers
  <2>6. ErrorInv'
    BY <2>1, <2>2 DEF OpenInv, ErrorInv, Opening!ErrorsTellCause, Opening!Failed, Opening!Supported,
                      Opening!Covers
  <2> QED  BY <2>3, <2>4, <2>5, <2>6 DEF OpenInv
<1> QED
  BY <1>1, ValidateHolds, AskDefaultHolds, AskDefaultFailsHolds, CheckSupportHolds,
     CheckSupportFailsHolds, NegotiateHolds, NegotiateFailsHolds, BuildHolds, BuildFailsHolds,
     PlayHolds, PlayFailsHolds, ReconnectHolds, PlugHolds DEF Opening!Next

\* An open that fails leaves no stream and says why; one that succeeds leaves every half.
THEOREM OpensAllOrNothing == PartsSpec => []AllOrNothing
<1>1. Opening!Spec => []OpenInv  BY OpenInit, OpenStep, PTL DEF Opening!Spec
<1>2. ASSUME OpenInv PROVE AllOrNothing
  <2>1. Opening!EveryHalfOrNone
    <3> SUFFICES ASSUME step = "done", result = "ok"
                 PROVE  /\ {s.side : s \in streams} = (IF kind \in Opening!TwoSided THEN {"out", "in"} ELSE {side})
                        /\ \A s \in streams : s.state = "playing"
                        /\ \A s, t \in streams : s.side = t.side => s = t
      BY <1>2 DEF OpenInv, HalvesInv, Before, Opening!EveryHalfOrNone
    <3>1. CASE kind \in Opening!TwoSided
      <4>1. PICK f, g \in Built : streams = {Sounding("out", f), Sounding("in", g)}
        BY <1>2, <3>1 DEF OpenInv, HalvesInv, Before
      <4>2. {s.side : s \in streams} = {"out", "in"} /\ \A s \in streams : s.state = "playing"
        BY <4>1 DEF Sounding
      <4>3. \A s, t \in streams : s.side = t.side => s = t  BY <4>1 DEF Sounding
      <4> QED  BY <3>1, <4>2, <4>3
    <3>2. CASE kind \notin Opening!TwoSided
      <4>1. PICK f \in Built : streams = {Sounding(side, f)}
        BY <1>2, <3>2 DEF OpenInv, HalvesInv, Before
      <4>2. {s.side : s \in streams} = {side} /\ \A s \in streams : s.state = "playing"
        BY <4>1 DEF Sounding
      <4>3. \A s, t \in streams : s = t  BY <4>1
      <4> QED  BY <3>2, <4>2, <4>3
    <3> QED  BY <3>1, <3>2
  <2>2. Opening!ErrorsTellCause  BY <1>2 DEF OpenInv, ErrorInv
  <2> QED  BY <2>1, <2>2 DEF AllOrNothing, Opening!AllOrNothing
<1> QED  BY <1>1, <1>2, PartsAreComponents, PTL

\* What is open has the ring RingSamples says; of a call for one half, it is that half.
LEMMA OpenRings ==
    ASSUME OpenInv, NEW s \in streams
    PROVE  /\ s.capacity = Opening!RingSamples /\ s.side \in {"out", "in"}
           /\ kind \notin Opening!TwoSided => s.side = side
<1>1. \E a \in {"out", "in"}, f \in Built :
         /\ s = Waiting(a, f) \/ s = Sounding(a, f)
         /\ kind \notin Opening!TwoSided => a = side
  <2>1. side \in {"out", "in"} /\ step \in Before \cup {"play", "done"}  BY DEF OpenInv, OpenTypeOK
  <2>2. CASE step \in Before
    BY <2>2 DEF OpenInv, HalvesInv, Second
  <2>3. CASE step = "play"
    BY <2>1, <2>3 DEF OpenInv, HalvesInv, Second
  <2>4. CASE step = "done"
    BY <2>1, <2>4 DEF OpenInv, HalvesInv
  <2> QED  BY <2>1, <2>2, <2>3, <2>4
<1> QED  BY <1>1 DEF Waiting, Sounding

\* Clamping is between its limits, and leaves alone what is.
LEMMA ClampBetween ==
    ASSUME NEW n \in Nat
    PROVE  /\ Opening!Clamp(n, 1, 300) \in Nat
           /\ n \in 1 .. 300 => Opening!Clamp(n, 1, 300) = n
<1> DEFINE low == Opening!Min({n, 300})
<1>1. low = IF n <= 300 THEN n ELSE 300
  <2>1. {n, 300} \in SUBSET Nat /\ {n, 300} # {}  OBVIOUS
  <2>2. low \in {n, 300} /\ \A x \in {n, 300} : low <= x  BY <2>1, OpenMin
  <2> QED  BY <2>2
<1> HIDE DEF low
<1>2. Opening!Max({1, low}) = IF low <= 1 THEN 1 ELSE low
  <2>1. \E x \in {1, low} : \A y \in {1, low} : y <= x  BY <1>1
  <2>2. Opening!Max({1, low}) \in {1, low} /\ \A y \in {1, low} : y <= Opening!Max({1, low})
    BY <2>1 DEF Opening!Max
  <2> QED  BY <1>1, <2>2
<1> QED  BY <1>1, <1>2 DEF Opening!Clamp, low

\* The length of a ring is a number of seconds.
LEMMA TenthsAreNat == ASSUME config \in Configs PROVE Opening!Tenths \in Nat
<1>1. config.secs \in Nat /\ (config.capacity = None \/ config.capacity \in Nat)
  BY OpeningAssumption DEF Opening!OpenAssumption
<1>2. Opening!OrElse(config.capacity, 20) \in Nat  BY <1>1 DEF Opening!OrElse
<1>3. Opening!Clamp(config.secs, 1, 300) \in Nat
      /\ Opening!Clamp(Opening!OrElse(config.capacity, 20), 1, 300) \in Nat
  BY <1>1, <1>2, ClampBetween
<1> QED  BY <1>2, <1>3 DEF Opening!Tenths

\* What is opened is what was asked for, what the device offers, and with a ring to match.
THEOREM WhatOpensWasAsked == PartsSpec => []OpensAsAsked
<1>1. Opening!Spec => []OpenInv  BY OpenInit, OpenStep, PTL DEF Opening!Spec
<1>2. ASSUME OpenInv PROVE OpensAsAsked
  <2>1. /\ device \in Models /\ config \in Configs /\ side \in {"out", "in"}
        /\ kind \in Opening!Buffered => kind \notin Opening!TwoSided /\ side = "out"
    BY <1>2 DEF OpenInv, OpenTypeOK, Opening!Buffered, Opening!TwoSided, Opening!InKinds
  <2>2. \A s \in streams : IsAsked(s.format) /\ Opening!Supported(config, Opening!Ranges(s.side))
    BY <1>2 DEF OpenInv, FormatInv
  <2>3. Opening!StreamsAreOffered
    <3> SUFFICES ASSUME NEW s \in streams
                 PROVE  LET there   == {r \in Opening!Ranges(s.side) : Opening!Covers(r, config)}
                            formats == {r.format : r \in there}
                            liked   == {i \in DOMAIN config.preferred : config.preferred[i] \in formats}
                        IN  /\ there # {}
                            /\ (kind \in Opening!Buffered /\ config.preferred # <<>> /\ ~away
                                  /\ Opening!Unheard \notin failed /\ formats \subseteq Opening!Exact)
                                  => /\ s.format \in formats
                                     /\ liked # {} => s.format = config.preferred[Opening!Min(liked)]
      BY DEF Opening!StreamsAreOffered
    <3>1. {r \in Opening!Ranges(s.side) : Opening!Covers(r, config)} # {}
      BY <2>2 DEF Opening!Supported
    <3>2. kind \in Opening!Buffered => s.side = "out"  BY <1>2, <2>1, OpenRings
    <3>3. IsAsked(s.format)  BY <2>2
    <3> QED  BY <3>1, <3>2, <3>3 DEF IsAsked, There, Formats, Liked
  <2>4. Opening!RingsHoldWholeFrames
    <3> SUFFICES ASSUME NEW s \in streams,
                        kind \in Opening!Buffered \/ (Opening!Tenths * config.rate) % 10 = 0
                 PROVE  s.capacity % config.channels = 0
      BY DEF Opening!RingsHoldWholeFrames
    <3>1. s.capacity = Opening!RingSamples /\ s.side \in {"out", "in"}  BY <1>2, OpenRings
    <3>2. config.channels \in Nat \ {0} /\ config.rate \in Nat
      <4>1. PICK r \in Opening!Ranges(s.side) : Opening!Covers(r, config)
        BY <2>2 DEF Opening!Supported
      <4>2. r \in Offers  BY <2>1, <3>1, <4>1, OpenRanges
      <4>3. r.channels \in Nat \ {0}  BY <4>2 DEF Offers
      <4> QED  BY <2>1, <4>1, <4>3, OpeningAssumption DEF Opening!Covers, Opening!OpenAssumption
    <3> DEFINE units == Opening!Tenths * config.rate
    <3>3. units \in Nat  BY <2>1, <3>2, TenthsAreNat
    <3>4. Opening!RingSamples =
             IF kind \in Opening!Callback \cup {"async_input"} THEN 0
             ELSE IF kind \in Opening!Buffered THEN (units \div 10) * config.channels
             ELSE (units * config.channels) \div 10
      BY DEF Opening!RingSamples
    <3> HIDE DEF units
    <3>5. 0 % config.channels = 0  BY <3>2
    <3>6. ((units \div 10) * config.channels) % config.channels = 0
      <4>1. units \div 10 \in Nat  BY <3>3
      <4> QED  BY <3>2, <4>1, ProductMod
    <3>7. units % 10 = 0 => ((units * config.channels) \div 10) % config.channels = 0
      BY <3>2, <3>3, TenthMod
    <3> QED  BY <3>1, <3>4, <3>5, <3>6, <3>7 DEF units
  <2>5. Opening!ReopenedRingMatches
    <3> SUFFICES ASSUME kind = "reconnect", replaced.kind # "capacity",
                        Opening!OrElse(config.capacity, 20) \in 1 .. 300, NEW s \in streams
                 PROVE  s.capacity = replaced.capacity
      BY DEF Opening!ReopenedRingMatches
    <3>1. s.capacity = Opening!RingSamples  BY <1>2, OpenRings
    <3>2. Opening!Tenths = Opening!OrElse(config.capacity, 20)
      BY ClampBetween DEF Opening!Tenths
    <3>3. Opening!RingSamples = ((Opening!OrElse(config.capacity, 20) * config.rate) \div 10) * config.channels
      BY <3>2 DEF Opening!RingSamples, Opening!Callback, Opening!Buffered
    <3> QED  BY <1>2, <3>1, <3>3 DEF OpenInv, ReplacedInv
  <2> QED  BY <2>3, <2>4, <2>5 DEF OpensAsAsked, Opening!OpensAsAsked
<1> QED  BY <1>1, <1>2, PartsAreComponents, PTL

-----------------------------------------------------------------------------
(* CpalDevices.  While nothing comes or goes the host yields the same      *)
(* outputs whenever it is asked, so the listing shows them, each at its    *)
(* place, and a name looked up is found no later than where it was listed. *)

\* What the host yields when it is asked for its outputs.
Outputs == Choosing!Yielded("output")
Devs == Seq(Catalogue)

\* A fold picks the greatest place.
LEMMA MaxIsGreatest == ASSUME NEW T PROVE Choosing!Max(T) = Greatest(T)
  BY Zenon DEF Choosing!Max, Greatest

\* A list of devices stays one.
LEMMA WithOutputType ==
    ASSUME NEW list \in Devs, NEW d \in Catalogue
    PROVE  Choosing!WithOutput(list, d) \in Devs
  BY DEF Choosing!WithOutput, Devs

\* What the host yields are devices of the catalogue.
LEMMA YieldsDevices ==
    ASSUME NEW list \in Devs
    PROVE  Choosing!FoldLeft(Choosing!WithOutput, <<>>, list) \in Devs
<1> DEFINE n == Len(list)
           Is(g) == g = [t \in SUBSET DOMAIN list |->
                           IF t = {} THEN <<>>
                           ELSE Choosing!WithOutput(g[t \ {Choosing!Max(t)}], list[Choosing!Max(t)])]
           iter == CHOOSE g : Is(g)
<1>1. Choosing!FoldLeft(Choosing!WithOutput, <<>>, list) = iter[DOMAIN list]
  BY DEF Choosing!FoldLeft, Choosing!MapThenFoldSet
<1>2. n \in Nat /\ DOMAIN list = 1 .. n /\ \A k \in 1 .. n : list[k] \in Catalogue  BY DEF Devs
<1>3. <<>> \in Devs  BY DEF Devs
<1> HIDE DEF n
<1> DEFINE G == [p \in Devs \X (1 .. n) |-> Choosing!WithOutput(p[1], list[p[2]])]
<1>4. G \in [Devs \X (1 .. n) -> Devs]  BY <1>2, WithOutputType
<1>5. \A d \in Devs, k \in 1 .. n : G[<<d, k>>] = Choosing!WithOutput(d, list[k])  OBVIOUS
<1> HIDE DEF G
<1>6. Is(iter)
  <2>1. PICK g : FoldsTo(g, n, Devs, <<>>, G)  BY <1>2, <1>3, <1>4, FoldExists
  <2>2. /\ g \in [SUBSET (1 .. n) -> Devs]
        /\ \A T \in SUBSET (1 .. n) :
               g[T] = IF T = {} THEN <<>> ELSE G[<<g[T \ {Greatest(T)}], Greatest(T)>>]
    BY <2>1 DEF FoldsTo
  <2>3. ASSUME NEW T \in SUBSET (1 .. n)
        PROVE  g[T] = IF T = {} THEN <<>>
                      ELSE Choosing!WithOutput(g[T \ {Choosing!Max(T)}], list[Choosing!Max(T)])
    <3>1. CASE T = {}  BY <2>2, <3>1
    <3>2. CASE T # {}
      <4>1. Greatest(T) \in 1 .. n /\ T \ {Greatest(T)} \in SUBSET (1 .. n)
        BY <1>2, <3>2, GreatestOfPlaces
      <4>2. g[T \ {Greatest(T)}] \in Devs  BY <2>2, <4>1
      <4> QED  BY <1>5, <2>2, <3>2, <4>1, <4>2, MaxIsGreatest
    <3> QED  BY <3>1, <3>2
  <2>4. g = [T \in SUBSET (1 .. n) |-> g[T]]  BY <2>2
  <2>5. g = [t \in SUBSET (1 .. n) |-> IF t = {} THEN <<>>
                 ELSE Choosing!WithOutput(g[t \ {Choosing!Max(t)}], list[Choosing!Max(t)])]
    BY <2>3, <2>4, Zenon
  <2> QED  BY <1>2, <2>5, Zenon
<1>7. ASSUME NEW T \in SUBSET (1 .. n)
      PROVE  IF T = {} THEN iter[T] = <<>>
             ELSE iter[T \ {Greatest(T)}] \in Devs =>
                      iter[T] = G[<<iter[T \ {Greatest(T)}], Greatest(T)>>]
  <2>1. iter[T] = IF T = {} THEN <<>>
                  ELSE Choosing!WithOutput(iter[T \ {Choosing!Max(T)}], list[Choosing!Max(T)])
    BY <1>2, <1>6
  <2>2. T # {} => Greatest(T) \in 1 .. n  BY <1>2, GreatestOfPlaces
  <2> HIDE DEF iter
  <2> QED  BY <1>5, <2>1, <2>2, MaxIsGreatest
<1> HIDE DEF iter, Is
<1>8. \A k \in 0 .. n : iter[1 .. k] \in Devs
  <2>1. PICK D, b, m, c, H : D = Devs /\ b = <<>> /\ m = n /\ c = iter /\ H = G  OBVIOUS
  <2>2. b \in D /\ m \in Nat /\ H \in [D \X (1 .. m) -> D]  BY <1>2, <1>3, <1>4, <2>1, Zenon
  <2>3. Unfolds(c, m, D, b, H)  BY <1>7, <2>1, Zenon DEF Unfolds
  <2>4. Runs(c, m, D, b, H)  BY <2>2, <2>3, FoldRuns, Zenon
  <2> QED  BY <2>1, <2>4 DEF Runs
<1> QED  BY <1>1, <1>2, <1>8

\* An entry of the listing of the outputs.
Listed == [name : {d.name : d \in Catalogue}, out : BOOLEAN, in : BOOLEAN, default : BOOLEAN]

\* What is listed of the outputs so far, and what is still to look at: until the listing is
\* given up, they are the host's outputs, each at its place.
ListingInv ==
    /\ platform \in Platforms /\ host \in Seq(Catalogue) /\ Outputs \in Seq(Catalogue)
    /\ mode = "output" => listing \in Seq(Listed) /\ scan \in Seq(Catalogue)
    /\ (mode = "output" /\ steady) =>
        /\ Len(listing) <= Len(Outputs)
        /\ \A i \in 1 .. Len(listing) : listing[i].name = Outputs[i].name
        /\ scan # <<>> => /\ Len(listing) + Len(scan) = Len(Outputs)
                          /\ \A j \in 1 .. Len(scan) : scan[j] = Outputs[Len(listing) + j]

\* The name device_by_index() looks for is that of the output at its index.
WantedInv ==
    (mode = "output" /\ steady /\ wanted # None) =>
        index \in 1 .. Len(Outputs) /\ wanted = Outputs[index].name

\* What it has opened, as IndexOpensListed says; nothing, while a listing goes on.
ChosenInv ==
    /\ scan # <<>> => index = 0 /\ opened = None /\ wanted = None
    /\ (mode = "output" /\ steady /\ wanted = None /\ opened # None /\ index \in 1 .. Len(listing)) =>
        \E i \in 1 .. index :
           /\ listing[i].name = opened.name
           /\ <<opened.name, listing[index].name>> \in Containing
           /\ \A j \in 1 .. i - 1 : <<listing[j].name, listing[index].name>> \notin Containing

\* A device is tagged with an API there is a host of, that of the call if it asked for one.
TaggedInv ==
    opened # None => /\ Choosing!HasHost(tag) \/ platform \in {"android", "wasm"}
                     /\ api # None => tag = api

ChooseInv == ListingInv /\ WantedInv /\ ChosenInv /\ TaggedInv

\* No output has come or gone when the host has not changed.
LEMMA OutputsStay == host' = host => Outputs' = Outputs
  BY DEF Outputs, Choosing!Yielded, Choosing!FoldLeft, Choosing!MapThenFoldSet

\* The outputs are a list of devices.
LEMMA OutputsAreDevices == host \in Seq(Catalogue) => Outputs \in Seq(Catalogue)
  BY YieldsDevices DEF Outputs, Choosing!Yielded, Devs

\* Nothing is listed or chosen at first.
LEMMA ChooseInit == Choosing!Init => ChooseInv
<1> SUFFICES ASSUME Choosing!Init PROVE ChooseInv  OBVIOUS
<1>1. host \in Seq(Catalogue) /\ mode = "all"  BY DEF Choosing!Init
<1> QED
  BY <1>1, OutputsAreDevices
  DEF Choosing!Init, ChooseInv, ListingInv, WantedInv, ChosenInv, TaggedInv

\* A step that leaves the host and the listing alone keeps what is known of them.
LEMMA ListingStays ==
    ASSUME ChooseInv, UNCHANGED <<platform, host, mode, scan, listing, steady>>
    PROVE  ListingInv' /\ Outputs' = Outputs
BY OutputsStay DEF ChooseInv, ListingInv

\* After a device has come or gone the listing promises nothing until it is made again.
LEMMA ChangeHolds ==
    ASSUME NEW d \in Catalogue, ChooseInv, Choosing!Arrive(d) \/ Choosing!Leave(d)
    PROVE  ChooseInv'
<1>1. host' \in Seq(Catalogue)
  <2>1. host \in Seq(Catalogue)  BY DEF ChooseInv, ListingInv
  <2>2. CASE Choosing!Arrive(d)
    <3>1. host' \in {<<d>> \o host, Append(host, d)}  BY <2>2 DEF Choosing!Arrive
    <3>2. Append(host, d) \in Seq(Catalogue) /\ <<d>> \in Seq(Catalogue)  BY <2>1
    <3>3. <<d>> \o host \in Seq(Catalogue)  BY <2>1, <3>2
    <3> QED  BY <3>1, <3>2, <3>3
  <2>3. CASE Choosing!Leave(d)
    <3>1. PICK i \in DOMAIN host : host' = Choosing!RemoveAt(host, i)  BY <2>3 DEF Choosing!Leave
    <3>2. SubSeq(host, 1, i - 1) \in Seq(Catalogue) /\ SubSeq(host, i + 1, Len(host)) \in Seq(Catalogue)
      <4>1. /\ \A j \in 1 .. i - 1 : host[j] \in Catalogue
            /\ \A j \in i + 1 .. Len(host) : host[j] \in Catalogue
        BY <2>1
      <4>2. i \in Int /\ Len(host) \in Int  BY <2>1
      <4> QED  BY <2>1, <4>1, <4>2, SubSeqProperties
    <3> QED  BY <3>1, <3>2, ConcatProperties DEF Choosing!RemoveAt
  <2> QED  BY <2>2, <2>3
<1>2. /\ steady' = FALSE /\ UNCHANGED <<platform, mode, scan, listing, wanted, index, opened, tag, api>>
  BY DEF Choosing!Arrive, Choosing!Leave, Choosing!listVars, Choosing!callVars
<1>3. Outputs' \in Seq(Catalogue)
  <2>1. PICK list : list = host'  OBVIOUS
  <2>2. Choosing!FoldLeft(Choosing!WithOutput, <<>>, list) \in Seq(Catalogue)
    BY <1>1, <2>1, YieldsDevices DEF Devs
  <2>3. Outputs' = Choosing!FoldLeft(Choosing!WithOutput, <<>>, list)
    BY <2>1 DEF Outputs, Choosing!Yielded, Choosing!FoldLeft, Choosing!MapThenFoldSet
  <2> QED  BY <2>2, <2>3
<1>4. ListingInv'  BY <1>1, <1>2, <1>3 DEF ChooseInv, ListingInv
<1>5. WantedInv' /\ ChosenInv' /\ TaggedInv'
  BY <1>2 DEF ChooseInv, WantedInv, ChosenInv, TaggedInv, Choosing!HasHost
<1> QED  BY <1>4, <1>5 DEF ChooseInv

\* A listing begins with all the host yields still to look at.
LEMMA ListHolds == ASSUME NEW m \in Choosing!Modes, ChooseInv, Choosing!List(m) PROVE ChooseInv'
<1>1. /\ UNCHANGED <<platform, host, wanted>> /\ wanted = None /\ steady' = TRUE
      /\ mode' = m /\ scan' = Choosing!Yielded(m) /\ listing' = <<>> /\ index' = 0 /\ opened' = None
  BY DEF Choosing!List, Choosing!Answer
<1>2. host \in Seq(Catalogue) /\ Outputs \in Seq(Catalogue) /\ platform \in Platforms
  BY DEF ChooseInv, ListingInv
<1>3. Outputs' = Outputs  BY <1>1, OutputsStay
<1>4. ListingInv'
  <2>1. m = "output" => scan' = Outputs  BY <1>1 DEF Outputs
  <2> QED  BY <1>1, <1>2, <1>3, <2>1 DEF ListingInv
<1>5. WantedInv' /\ ChosenInv' /\ TaggedInv'  BY <1>1 DEF WantedInv, ChosenInv, TaggedInv
<1> QED  BY <1>4, <1>5 DEF ChooseInv

\* A listing of all devices says nothing of the outputs.
LEMMA LookAllHolds == ASSUME ChooseInv, Choosing!LookAll PROVE ChooseInv'
<1>1. /\ UNCHANGED <<platform, host, mode, wanted, index, opened, tag, api, steady>>
      /\ mode = "all" /\ scan # <<>>
  BY DEF Choosing!LookAll, Choosing!callVars
<1>2. Outputs' = Outputs  BY <1>1, OutputsStay
<1>3. ListingInv'  BY <1>1, <1>2 DEF ChooseInv, ListingInv
<1>4. WantedInv' /\ ChosenInv' /\ TaggedInv'
  BY <1>1 DEF ChooseInv, WantedInv, ChosenInv, TaggedInv, Choosing!HasHost
<1> QED  BY <1>3, <1>4 DEF ChooseInv

\* A device looked at moves from one end of the scan to the other end of the listing.
LEMMA LookOneHolds == ASSUME ChooseInv, Choosing!LookOne PROVE ChooseInv'
<1>1. /\ UNCHANGED <<platform, host, mode, wanted, index, opened, tag, api, steady>> /\ scan # <<>>
  BY DEF Choosing!LookOne, Choosing!callVars
<1>2. Outputs' = Outputs  BY <1>1, OutputsStay
<1>3. ListingInv'
  <2>1. CASE mode # "output"  BY <1>1, <1>2, <2>1 DEF ChooseInv, ListingInv
  <2>2. CASE mode = "output" /\ Head(scan) \notin Choosing!ToSet(host)
    <3>1. listing' = <<>> /\ scan' = <<>>  BY <2>2 DEF Choosing!LookOne
    <3> QED  BY <1>1, <1>2, <2>2, <3>1 DEF ChooseInv, ListingInv
  <2>3. CASE mode = "output" /\ Head(scan) \in Choosing!ToSet(host)
    <3> DEFINE e == Choosing!Entry(Head(scan), TRUE, FALSE, Head(scan).name = marked)
    <3>1. listing' = Append(listing, e) /\ scan' = Tail(scan)  BY <2>3 DEF Choosing!LookOne
    <3>2. /\ listing \in Seq(Listed) /\ scan \in Seq(Catalogue) /\ Outputs \in Seq(Catalogue)
          /\ platform \in Platforms /\ host \in Seq(Catalogue)
      BY <2>3 DEF ChooseInv, ListingInv
    <3>3. Head(scan) \in Catalogue /\ Head(scan) = scan[1] /\ 1 \in 1 .. Len(scan)  BY <1>1, <3>2
    <3>4. e \in Listed /\ e.name = scan[1].name  BY <3>3 DEF Choosing!Entry, Listed
    <3> HIDE DEF e
    <3>5. /\ Append(listing, e) \in Seq(Listed) /\ Tail(scan) \in Seq(Catalogue)
          /\ Len(Append(listing, e)) = Len(listing) + 1 /\ Len(Tail(scan)) = Len(scan) - 1
          /\ \A i \in 1 .. Len(listing) : Append(listing, e)[i] = listing[i]
          /\ Append(listing, e)[Len(listing) + 1] = e
          /\ \A j \in 1 .. Len(Tail(scan)) : Tail(scan)[j] = scan[j + 1]
      BY <1>1, <3>2, <3>4
    <3>6. Len(listing) \in Nat /\ Len(scan) \in Nat /\ Len(Outputs) \in Nat  BY <3>2
    <3>7. CASE ~steady  BY <1>1, <1>2, <2>3, <3>1, <3>2, <3>5, <3>7 DEF ListingInv
    <3>8. CASE steady
      <4>1. /\ Len(listing) + Len(scan) = Len(Outputs)
            /\ \A j \in 1 .. Len(scan) : scan[j] = Outputs[Len(listing) + j]
            /\ \A i \in 1 .. Len(listing) : listing[i].name = Outputs[i].name
        BY <1>1, <2>3, <3>8 DEF ChooseInv, ListingInv
      <4>2. Len(listing') <= Len(Outputs) /\ Len(listing') + Len(scan') = Len(Outputs)
        BY <3>1, <3>3, <3>5, <3>6, <4>1
      <4>3. \A i \in 1 .. Len(listing') : listing'[i].name = Outputs[i].name
        <5> SUFFICES ASSUME NEW i \in 1 .. Len(listing') PROVE listing'[i].name = Outputs[i].name
          OBVIOUS
        <5>1. CASE i \in 1 .. Len(listing)  BY <3>1, <3>5, <4>1, <5>1
        <5>2. CASE i = Len(listing) + 1  BY <3>1, <3>3, <3>4, <3>5, <4>1, <5>2
        <5> QED  BY <3>1, <3>5, <3>6, <5>1, <5>2
      <4>4. \A j \in 1 .. Len(scan') : scan'[j] = Outputs[Len(listing') + j]
        <5> SUFFICES ASSUME NEW j \in 1 .. Len(scan') PROVE scan'[j] = Outputs[Len(listing') + j]
          OBVIOUS
        <5>1. j + 1 \in 1 .. Len(scan) /\ Len(listing) + (j + 1) = Len(listing') + j
          BY <3>1, <3>5, <3>6
        <5> QED  BY <3>1, <3>5, <4>1, <5>1
      <4> HIDE DEF ListingInv
      <4>5. listing' \in Seq(Listed) /\ scan' \in Seq(Catalogue)  BY <3>1, <3>5
      <4> QED  BY <1>1, <1>2, <3>2, <4>2, <4>3, <4>4, <4>5 DEF ListingInv
    <3> QED  BY <3>7, <3>8
  <2> QED  BY <2>1, <2>2, <2>3
<1>4. WantedInv' /\ ChosenInv' /\ TaggedInv'
  BY <1>1, <1>2 DEF ChooseInv, WantedInv, ChosenInv, TaggedInv, Choosing!HasHost
<1> QED  BY <1>3, <1>4 DEF ChooseInv

\* A tag is one with a host, but where there is none.
LEMMA TagsHost ==
    ASSUME NEW d, NEW a, Choosing!Answer(d, a), platform' = platform, platform \in Platforms,
           a # None => d = None \/ Choosing!HasHost(a)
    PROVE  TaggedInv'
<1>1. opened' = d /\ api' = a
      /\ tag' = IF d = None THEN None ELSE IF a # None THEN a ELSE Choosing!DefaultHostApi
  BY DEF Choosing!Answer
<1>2. Choosing!HasHost(Choosing!DefaultHostApi) \/ platform \in {"android", "wasm"}
  BY ChoosingAssumption DEF Choosing!DevicesAssumption, Choosing!HasHost, Choosing!DefaultHostApi
<1>3. CASE d = None  BY <1>1, <1>3 DEF TaggedInv
<1>4. CASE d # None /\ a = None  BY <1>1, <1>2, <1>4 DEF TaggedInv, Choosing!HasHost
<1>5. CASE d # None /\ a # None  BY <1>1, <1>5 DEF TaggedInv, Choosing!HasHost
<1> QED  BY <1>3, <1>4, <1>5

\* device_by_index() takes the name at the index, or gives up beyond the end.
LEMMA CallHolds == ASSUME ChooseInv, Choosing!CallByIndex PROVE ChooseInv'
<1>1. UNCHANGED <<platform, host, mode, scan, listing, steady>> /\ scan = <<>> /\ mode = "output"
  BY DEF Choosing!CallByIndex, Choosing!listVars
<1>2. ListingInv' /\ Outputs' = Outputs  BY <1>1, ListingStays
<1>3. platform \in Platforms /\ Outputs \in Seq(Catalogue)  BY DEF ChooseInv, ListingInv
<1>4. CASE index' \in DOMAIN Outputs
  <2>1. wanted' = Outputs[index'].name /\ UNCHANGED <<opened, tag, api>>
    BY <1>4 DEF Choosing!CallByIndex, Outputs
  <2>2. wanted' # None
    <3>1. Outputs[index'] \in Catalogue  BY <1>3, <1>4
    <3> QED  BY <2>1, <3>1, ChoosingAssumption DEF Choosing!DevicesAssumption
  <2>3. WantedInv'  BY <1>2, <1>3, <1>4, <2>1 DEF WantedInv
  <2>4. ChosenInv' /\ TaggedInv'
    BY <1>1, <2>1, <2>2 DEF ChooseInv, ChosenInv, TaggedInv, Choosing!HasHost
  <2> QED  BY <1>2, <2>3, <2>4 DEF ChooseInv
<1>5. CASE index' \notin DOMAIN Outputs
  <2>1. wanted' = None /\ Choosing!Answer(None, None)
    BY <1>5 DEF Choosing!CallByIndex, Outputs
  <2>2. opened' = None  BY <2>1 DEF Choosing!Answer
  <2>3. WantedInv' /\ ChosenInv'  BY <1>1, <2>1, <2>2 DEF WantedInv, ChosenInv
  <2>4. TaggedInv'  BY <2>2 DEF TaggedInv
  <2> QED  BY <1>2, <2>3, <2>4 DEF ChooseInv
<1> QED  BY <1>4, <1>5

\* The least of a set of numbers is one of them, and no greater than any.
LEMMA ChooseMin ==
    ASSUME NEW T \in SUBSET Nat, T # {}
    PROVE  Choosing!Min(T) \in T /\ \A x \in T : Choosing!Min(T) <= x
BY LeastNumber DEF Choosing!Min

\* The first match is no later than the place the name was taken from, for that matches too.
LEMMA LookUpHolds == ASSUME ChooseInv, Choosing!LookUp PROVE ChooseInv'
<1> DEFINE d == Choosing!FirstContaining("output", wanted)
           found == Choosing!Matches(Outputs, wanted)
<1>1. /\ UNCHANGED <<platform, host, mode, scan, listing, index, steady>>
      /\ wanted # None /\ wanted' = None /\ Choosing!Answer(d, None)
  BY DEF Choosing!LookUp, Choosing!listVars
<1>2. ListingInv' /\ Outputs' = Outputs  BY <1>1, ListingStays
<1>3. platform \in Platforms /\ Outputs \in Seq(Catalogue)  BY DEF ChooseInv, ListingInv
<1>4. TaggedInv'
  <2> HIDE DEF d
  <2> QED  BY <1>1, <1>3, TagsHost
<1>5. d = IF found = {} THEN None ELSE Outputs[Choosing!Min(found)]
  BY DEF Choosing!FirstContaining, Outputs
<1>6. opened' = d  BY <1>1 DEF Choosing!Answer
<1>7. WantedInv'  BY <1>1 DEF WantedInv
<1>8. ChosenInv'
  <2>1. scan' = <<>>  BY <1>1 DEF ChooseInv, ChosenInv
  <2>2. ASSUME mode = "output", steady, opened' # None, index \in 1 .. Len(listing)
        PROVE  \E i \in 1 .. index :
                 /\ listing[i].name = d.name
                 /\ <<d.name, listing[index].name>> \in Containing
                 /\ \A j \in 1 .. i - 1 : <<listing[j].name, listing[index].name>> \notin Containing
    <3> DEFINE i == Choosing!Min(found)
    <3>1. /\ index \in 1 .. Len(Outputs) /\ wanted = Outputs[index].name
          /\ Len(listing) <= Len(Outputs) /\ listing \in Seq(Listed)
          /\ \A k \in 1 .. Len(listing) : listing[k].name = Outputs[k].name
      BY <1>1, <2>2 DEF ChooseInv, WantedInv, ListingInv
    <3>2. found # {} /\ d = Outputs[i]  BY <1>5, <1>6, <2>2
    <3>3. found \in SUBSET Nat /\ \A k \in 1 .. Len(Outputs) :
              k \in found <=> <<Outputs[k].name, wanted>> \in Containing
      BY <1>3 DEF Choosing!Matches
    <3>4. found \subseteq 1 .. Len(Outputs) /\ \A k \in found : <<Outputs[k].name, wanted>> \in Containing
      BY <1>3 DEF Choosing!Matches
    <3> HIDE DEF found
    <3>5. i \in found /\ \A k \in found : i <= k  BY <3>2, <3>3, ChooseMin
    <3>6. index \in found
      <4>1. Outputs[index] \in Catalogue  BY <1>3, <3>1
      <4> QED  BY <3>1, <3>3, <4>1, ChoosingAssumption DEF Choosing!DevicesAssumption
    <3> HIDE DEF i, d
    <3>7. i \in 1 .. index /\ index \in Nat /\ i \in Nat /\ Len(listing) \in Nat /\ Len(Outputs) \in Nat
      BY <1>3, <3>1, <3>4, <3>5, <3>6
    <3>8. \A k \in 1 .. index : k \in 1 .. Len(listing) /\ k \in 1 .. Len(Outputs)
      BY <2>2, <3>1, <3>7
    <3>9. listing[i].name = d.name /\ listing[index].name = wanted
      BY <3>1, <3>2, <3>7, <3>8, <2>2
    <3>10. <<d.name, wanted>> \in Containing  BY <3>2, <3>4, <3>5
    <3>11. ASSUME NEW j \in 1 .. i - 1 PROVE <<listing[j].name, wanted>> \notin Containing
      <4>1. j \in 1 .. index /\ ~(i <= j)  BY <3>7
      <4>2. j \notin found  BY <3>5, <4>1
      <4> QED  BY <3>1, <3>3, <3>8, <4>1, <4>2
    <3> QED  BY <3>7, <3>9, <3>10, <3>11
  <2> HIDE DEF d
  <2> QED  BY <1>1, <1>6, <2>1, <2>2 DEF ChosenInv
<1> QED  BY <1>2, <1>4, <1>7, <1>8 DEF ChooseInv

\* The other constructors choose by no index, and leave the listing alone.
LEMMA AskHolds ==
    ASSUME ChooseInv,
           \/ Choosing!OpenLoopback \/ Choosing!DefaultOutput \/ Choosing!DefaultInput
           \/ \E a \in Choosing!Apis : Choosing!WithHost(a)
    PROVE  ChooseInv'
<1>1. /\ UNCHANGED <<platform, host, mode, scan, listing, wanted, steady>> /\ scan = <<>>
      /\ wanted = None /\ index' = 0
  BY DEF Choosing!OpenLoopback, Choosing!DefaultOutput, Choosing!DefaultInput, Choosing!WithHost,
     Choosing!Rest, Choosing!listVars
<1>2. ListingInv' /\ Outputs' = Outputs  BY <1>1, ListingStays
<1>3. WantedInv' /\ ChosenInv'  BY <1>1 DEF WantedInv, ChosenInv
<1>4. TaggedInv'
  <2>1. PICK d, a : Choosing!Answer(d, a) /\ (a # None => d = None \/ Choosing!HasHost(a))
    BY DEF Choosing!OpenLoopback, Choosing!DefaultOutput, Choosing!DefaultInput, Choosing!WithHost
  <2> QED  BY <1>1, <2>1, TagsHost DEF ChooseInv, ListingInv
<1> QED  BY <1>2, <1>3, <1>4 DEF ChooseInv

\* Every step keeps the invariant.
LEMMA ChooseStep == ChooseInv /\ [Choosing!Next]_(Choosing!vars) => ChooseInv'
<1> SUFFICES ASSUME ChooseInv, [Choosing!Next]_(Choosing!vars) PROVE ChooseInv'  OBVIOUS
<1>1. CASE UNCHANGED Choosing!vars
  <2>1. UNCHANGED <<platform, host, mode, scan, listing, steady, wanted, index, opened, tag, api>>
    BY <1>1 DEF Choosing!vars, Choosing!listVars, Choosing!callVars
  <2>2. ListingInv' /\ Outputs' = Outputs  BY <2>1, ListingStays
  <2> QED
    BY <2>1, <2>2 DEF ChooseInv, WantedInv, ChosenInv, TaggedInv, Choosing!HasHost
<1>2. CASE Choosing!Next
  BY <1>2, ChangeHolds, ListHolds, LookAllHolds, LookOneHolds, CallHolds, LookUpHolds, AskHolds
  DEF Choosing!Next
<1> QED  BY <1>1, <1>2

\* CpalDevices: the index of a listing opens the device listed there, or the first whose name
\* contains its name, while nothing comes or goes; a tag names the host of its device, and
\* is_available() and with_host() agree but for the sound servers of Linux and on a BSD: for
\* every catalogue, every relation of names and any number of changes.
THEOREM IndexAndTagAreNamed == PartsSpec => []OpensNamed
<1>1. ChooseInv => OpensNamed
  <2> SUFFICES ASSUME ChooseInv PROVE OpensNamed  OBVIOUS
  <2>1. Choosing!IndexOpensListed
    <3> SUFFICES ASSUME steady, wanted = None, mode = "output", index \in DOMAIN listing, opened # None
                 PROVE  \E i \in 1 .. index :
                          /\ listing[i].name = opened.name
                          /\ <<opened.name, listing[index].name>> \in Containing
                          /\ \A j \in 1 .. i - 1 :
                                 <<listing[j].name, listing[index].name>> \notin Containing
      BY DEF Choosing!IndexOpensListed
    <3>1. index \in 1 .. Len(listing)  BY DEF ChooseInv, ListingInv
    <3> QED  BY <3>1 DEF ChooseInv, ChosenInv
  <2>2. Choosing!TagsNameHosts
    <3>1. {a \in Choosing!Apis : Choosing!IsAvailable(a)} \ {a \in Choosing!Apis : Choosing!HasHost(a)}
            \subseteq {"PulseAudio", "PipeWire"}
      BY DEF Choosing!Apis, Choosing!IsAvailable, Choosing!HasHost
    <3>2. \A a \in Choosing!Apis : Choosing!HasHost(a) => Choosing!IsAvailable(a) \/ platform = "bsd"
      BY DEF Choosing!Apis, Choosing!IsAvailable, Choosing!HasHost
    <3> QED  BY <3>1, <3>2 DEF ChooseInv, TaggedInv, Choosing!TagsNameHosts
  <2> QED  BY <2>1, <2>2 DEF OpensNamed, Choosing!OpensNamed
<1> QED  BY <1>1, ChooseInit, ChooseStep, PartsAreComponents, PTL DEF Choosing!Spec
==============================================================================
