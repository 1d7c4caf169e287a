--------------------------- MODULE StreamPartsProof ---------------------------
(***************************************************************************)
(* What is proved of CpalDuplex, CpalRender, CpalCapture, PulseCapture,    *)
(* StreamStats, TestTones and Conversions, each on its own and then as a   *)
(* part of StreamParts, for every value of their constants.                *)
(***************************************************************************)
EXTENDS StreamParts, NumberLemmas, SequenceTheorems, FiniteSetTheorems, TLAPS

\* Each part of StreamParts behaves as its component: the steps of the others stutter.
THEOREM PartsAreComponents ==
    PartsSpec =>
      /\ Spec /\ Output!Spec /\ Capturing!Spec /\ Pulse!Spec /\ Stats!Spec /\ Handing!Spec
      /\ Signals!Spec
<1>1. PartsInit => Init /\ Output!Init /\ Capturing!Init /\ Pulse!Init /\ Stats!Init
               /\ Handing!Init /\ Signals!Init
  BY DEF PartsInit
<1>2. [PartsNext]_partsVars =>
         /\ [Next]_vars /\ [Output!Next]_(Output!vars) /\ [Capturing!Next]_(Capturing!vars)
         /\ [Pulse!Next]_(Pulse!vars) /\ [Stats!Next]_(Stats!vars) /\ [Handing!Next]_(Handing!vars)
         /\ [Signals!Next]_(Signals!vars)
  <2> SUFFICES ASSUME [PartsNext]_partsVars
               PROVE  /\ Next \/ UNCHANGED vars
                      /\ Output!Next \/ UNCHANGED (Output!vars)
                      /\ Capturing!Next \/ UNCHANGED (Capturing!vars)
                      /\ Pulse!Next \/ UNCHANGED (Pulse!vars)
                      /\ Stats!Next \/ UNCHANGED (Stats!vars)
                      /\ Handing!Next \/ UNCHANGED (Handing!vars)
                      /\ Signals!Next \/ UNCHANGED (Signals!vars)
    OBVIOUS
  <2>1. Next \/ UNCHANGED vars  BY DEF PartsNext, partsVars, streamVars
  <2>2. Output!Next \/ UNCHANGED renderVars  BY DEF PartsNext, partsVars, streamVars
  <2>3. Capturing!Next \/ UNCHANGED captureVars  BY DEF PartsNext, partsVars, streamVars
  <2>4. Pulse!Next \/ UNCHANGED pulseVars  BY DEF PartsNext, partsVars, streamVars
  <2>5. Stats!Next \/ UNCHANGED statVars  BY DEF PartsNext, partsVars, restVars
  <2>6. Signals!Next \/ UNCHANGED toneVars  BY DEF PartsNext, partsVars, restVars
  <2>7. UNCHANGED renderVars => UNCHANGED (Output!vars)
    BY DEF renderVars, Output!vars, Output!dataVars, Output!sizerVars
  <2>8. UNCHANGED captureVars => UNCHANGED (Capturing!vars)  BY DEF captureVars, Capturing!vars
  <2>9. UNCHANGED pulseVars => UNCHANGED (Pulse!vars)
    BY DEF pulseVars, Pulse!vars, Pulse!dataVars, Pulse!callVars, Pulse!tripVars
  <2>10. UNCHANGED statVars => UNCHANGED (Stats!vars)
    BY DEF statVars, Stats!vars, Stats!ringVars, Stats!callbackVars, Stats!statsVars
  <2>11. UNCHANGED toneVars => UNCHANGED (Signals!vars)  BY DEF toneVars, Signals!vars
  <2>12. Handing!Next \/ UNCHANGED formatVars  BY DEF PartsNext, partsVars, restVars
  <2>13. UNCHANGED formatVars => UNCHANGED (Handing!vars)
    BY DEF formatVars, Handing!vars, Handing!soundVars, Handing!routingVars
  <2> QED  BY <2>1, <2>2, <2>3, <2>4, <2>5, <2>6, <2>7, <2>8, <2>9, <2>10, <2>11, <2>12, <2>13
<1> QED  BY <1>1, <1>2, PTL DEF PartsSpec, Spec, Output!Spec, Capturing!Spec, Pulse!Spec, Stats!Spec,
     Handing!Spec, Signals!Spec

----------------------------------------------------------------------------
(* CpalDuplex: one call of pump_resampled(). *)

\* The position after n output frames, in Q-ths, and the last frame's.
After(n, step) == phase + n * step

\* What pump_resampled() works out from the two rings: no more output than there is
\* room for, no more input than there is, one frame at most beyond what the output
\* spans, and a frame for the last output frame to be taken from.
LEMMA CallFits ==
    ASSUME TypeOK, NEW step \in Steps, captured > 0, Frames(step) > 0,
           NEW n, n = Frames(step), NEW m, m = Needed(n, step)
    PROVE  /\ n \in 1..OutCapacity /\ n <= Vacant
           /\ m \in 1..InCapacity /\ m <= captured
           /\ After(n, step) \in Int
           /\ m - (After(n, step) \div Q) \in {0, 1}
           /\ After(n - 1, step) \div Q < m
<1>1. /\ captured \in Nat /\ captured <= InCapacity /\ InCapacity \in Nat
      /\ Vacant \in 0..OutCapacity /\ OutCapacity \in Nat
      /\ Q \in Nat \ {0} /\ phase \in 0..Q - 1 /\ step \in Nat \ {0}
    BY DuplexAssumption DEF TypeOK, Vacant
<1> DEFINE room == captured * Q - phase
<1>2. room \in Int
    BY <1>1
<1>3. room \div step \in Int
    BY <1>1, <1>2, Division
<1> HIDE DEF room
<1>4. n \in 1..OutCapacity /\ n <= Vacant /\ n <= room \div step
    BY <1>1, <1>3 DEF Frames, Least, room
<1>5. n * step <= room
    <2>1. room \in Int /\ n \in Int /\ step \in Nat \ {0} /\ n <= room \div step
        BY <1>1, <1>2, <1>4
    <2> QED
        BY <2>1, QuotientAtLeast, Zenon
<1> DEFINE end == After(n, step)
<1>6. /\ n * step \in Nat /\ (n - 1) * step \in Nat
      /\ n * step = (n - 1) * step + step
    BY <1>1, <1>4
<1>7. end \in Nat /\ end <= captured * Q /\ After(n - 1, step) \in Nat /\ After(n - 1, step) < end
    BY <1>1, <1>5, <1>6 DEF After, room
<1> HIDE DEF end
<1>8. end \div Q \in Int /\ end % Q \in 0..Q - 1 /\ end = Q * (end \div Q) + (end % Q)
    <2>1. end \in Int /\ Q \in Nat \ {0}
        BY <1>1, <1>7
    <2> QED
        BY <2>1, Division
<1> DEFINE whole == end \div Q
<1> HIDE DEF whole
<1>9. whole \in Nat /\ whole <= captured
    <2>1. end < (captured + 1) * Q
        BY <1>1, <1>7
    <2>2. end \div Q < captured + 1
        <3>1. end \in Int /\ captured + 1 \in Int /\ Q \in Nat \ {0}
            BY <1>1, <1>7
        <3> QED
            BY <2>1, <3>1, QuotientBelow
    <2>3. 0 <= end \div Q
        BY <1>1, <1>7
    <2> QED
        BY <1>1, <1>8, <2>2, <2>3 DEF whole
<1>10. m = Least(whole + 1, captured)
    BY DEF Needed, whole, end, After
<1>11. m \in 1..InCapacity /\ m <= captured /\ m - whole \in {0, 1}
    BY <1>1, <1>9, <1>10 DEF Least
<1>12. After(n - 1, step) < m * Q
    <2>1. CASE m = whole + 1
        <3>1. end < (whole + 1) * Q
            BY <1>1, <1>8, <1>9 DEF whole
        <3> QED
            BY <1>1, <1>7, <1>11, <2>1, <3>1
    <2>2. CASE m = captured
        BY <1>1, <1>7, <2>2
    <2> QED
        BY <1>1, <1>9, <1>10, <2>1, <2>2 DEF Least
<1>13. After(n - 1, step) \div Q < m
    <2>1. After(n - 1, step) \in Int /\ m \in Int /\ Q \in Nat \ {0}
        BY <1>1, <1>7, <1>11
    <2> QED
        BY <1>12, <2>1, QuotientBelow
<1> QED
    BY <1>4, <1>7, <1>11, <1>13 DEF whole, end

----------------------------------------------------------------------------
(* CpalDuplex: the invariant. *)

\* What a call under way owes, by how far it is: the frames it is about to pop are
\* those its output spans and at most one more; once popped, the seam is made.
Seam ==
    /\ plan.frames = 0 => plan = Idle
    /\ plan = Idle => phase - due \in {0, Q}
    /\ plan.needed > 0 => /\ plan.frames > 0 /\ plan.step \in Steps
                          /\ due = After(plan.frames, plan.step)
                          /\ plan.needed - (due \div Q) \in {0, 1}
    /\ plan.frames > 0 /\ plan.needed = 0 =>
            /\ After(plan.frames, plan.step) \in Int
            /\ (After(plan.frames, plan.step) % Q) - due \in {0, Q}

DuplexInv == TypeOK /\ PumpFits /\ NoSilence /\ Seam

LEMMA InitHolds == Init => DuplexInv
<1> SUFFICES ASSUME Init
             PROVE  DuplexInv
    OBVIOUS
<1> QED
    BY DuplexAssumption DEF Init, DuplexInv, TypeOK, PumpFits, NoSilence, Seam, Idle, Vacant

LEMMA LookHolds ==
    ASSUME DuplexInv, NEW step \in Steps, PumpLook(step)
    PROVE  DuplexInv'
<1>1. PICK n, m :
      /\ n = Frames(step) /\ m = Needed(n, step)
      /\ n \in 1..OutCapacity /\ n <= Vacant
      /\ m \in 1..InCapacity /\ m <= captured
      /\ After(n, step) \in Int
      /\ m - (After(n, step) \div Q) \in {0, 1}
      /\ After(n - 1, step) \div Q < m
    BY CallFits DEF DuplexInv, PumpLook
<1>2. /\ plan' = [frames |-> n, needed |-> m, step |-> step]
      /\ due' = After(n, step)
      /\ UNCHANGED <<captured, queued, phase>>
    BY <1>1 DEF PumpLook, After
<1>3. TypeOK'
    BY <1>1, <1>2, DuplexAssumption DEF DuplexInv, TypeOK
<1>4. PumpFits'
    BY <1>1, <1>2 DEF PumpFits, Vacant
<1>5. NoSilence'
    BY <1>1, <1>2 DEF NoSilence, After
<1>6. Seam'
    <2>1. plan'.frames = n /\ plan'.needed = m /\ plan'.step = step
        BY <1>2
    <2>2. plan' # Idle
        BY <1>1, <2>1 DEF Idle
    <2>3. After(plan.frames, plan.step)' = due'
        BY <1>2, <2>1 DEF After
    <2>4. plan'.needed - (due' \div Q) \in {0, 1}
        BY <1>1, <1>2, <2>1
    <2> QED
        BY <1>1, <2>1, <2>2, <2>3, <2>4 DEF Seam
<1> QED
    BY <1>3, <1>4, <1>5, <1>6 DEF DuplexInv

LEMMA PopHolds ==
    ASSUME DuplexInv, PumpPop
    PROVE  DuplexInv'
<1>1. /\ captured \in 0..InCapacity /\ InCapacity \in Nat /\ Q \in Nat \ {0}
      /\ due \in Int /\ plan.needed \in 1..InCapacity /\ plan.needed <= captured
      /\ plan \in [frames : 0..OutCapacity, needed : 0..InCapacity, step : Steps \cup {0}]
    BY DuplexAssumption DEF DuplexInv, TypeOK, PumpFits, PumpPop
<1>2. /\ captured' = captured - plan.needed /\ due' = due - plan.needed * Q
      /\ plan' = [plan EXCEPT !.needed = 0] /\ UNCHANGED <<queued, phase>>
    BY <1>1 DEF PumpPop, Least
<1>3. plan'.frames = plan.frames /\ plan'.step = plan.step /\ plan'.needed = 0
    BY <1>1, <1>2
<1>4. TypeOK'
    <2>1. due' \in Int /\ captured' \in 0..InCapacity
        BY <1>1, <1>2
    <2>2. plan' \in [frames : 0..OutCapacity, needed : 0..InCapacity, step : Steps \cup {0}]
        BY <1>1, <1>2
    <2> QED
        BY <1>2, <2>1, <2>2 DEF DuplexInv, TypeOK
<1>5. PumpFits' /\ NoSilence'
    BY <1>1, <1>2, <1>3 DEF DuplexInv, PumpFits, NoSilence, Vacant
<1>6. Seam'
    <2>1. plan.frames > 0 /\ due = After(plan.frames, plan.step) /\ plan.needed - (due \div Q) \in {0, 1}
        BY <1>1 DEF DuplexInv, Seam
    <2>2. due \div Q \in Int /\ due % Q \in 0..Q - 1 /\ due = Q * (due \div Q) + (due % Q)
        BY <1>1, Division
    <2>3. (due % Q) - due' \in {0, Q}
        <3>1. CASE plan.needed = due \div Q
            BY <1>1, <1>2, <2>2, <3>1
        <3>2. CASE plan.needed = (due \div Q) + 1
            BY <1>1, <1>2, <2>2, <3>2
        <3>3. plan.needed = due \div Q \/ plan.needed = (due \div Q) + 1
            <4>1. due \div Q \in Int /\ plan.needed \in Int
                BY <1>1, <2>2
            <4> QED
                BY <2>1, <4>1
        <3> QED
            BY <3>1, <3>2, <3>3
    <2>4. After(plan.frames, plan.step)' = due
        BY <1>2, <1>3, <2>1 DEF After
    <2>5. plan' # Idle
        BY <1>1, <1>3, <2>1 DEF Idle
    <2> QED
        BY <1>1, <1>3, <2>1, <2>3, <2>4, <2>5 DEF Seam
<1> QED
    BY <1>4, <1>5, <1>6 DEF DuplexInv

LEMMA PushHolds ==
    ASSUME DuplexInv, PumpPush
    PROVE  DuplexInv'
<1>1. /\ queued \in 0..OutCapacity /\ OutCapacity \in Nat /\ Q \in Nat \ {0}
      /\ plan.frames \in 1..OutCapacity /\ plan.frames <= OutCapacity - queued
      /\ After(plan.frames, plan.step) \in Int
      /\ (After(plan.frames, plan.step) % Q) - due \in {0, Q}
    BY DuplexAssumption DEF DuplexInv, TypeOK, PumpFits, PumpPush, Seam, Vacant
<1>2. /\ queued' = queued + plan.frames
      /\ phase' = After(plan.frames, plan.step) % Q
      /\ plan' = Idle /\ UNCHANGED <<captured, due>>
    BY <1>1 DEF PumpPush, Least, Vacant, After
<1>3. phase' \in 0..Q - 1
    BY <1>1, <1>2, Division
<1>4. TypeOK'
    BY <1>1, <1>2, <1>3, DuplexAssumption DEF DuplexInv, TypeOK, Idle
<1>5. PumpFits' /\ NoSilence'
    BY <1>1, <1>2 DEF DuplexInv, TypeOK, PumpFits, NoSilence, Vacant, Idle
<1>6. Seam'
    BY <1>1, <1>2 DEF Seam, Idle
<1> QED
    BY <1>4, <1>5, <1>6 DEF DuplexInv

\* The callbacks and the plain reads and writes leave a call under way alone, and
\* only ever make its frames fit better.
LEMMA RingsHold ==
    ASSUME DuplexInv,
           \/ Capture \/ Render
           \/ \E n \in 1..InCapacity : Read(n)
           \/ \E n \in 1..OutCapacity : Write(n)
    PROVE  DuplexInv'
<1>1. UNCHANGED <<phase, plan, due>>
    BY DEF Capture, Render, Read, Write
<1>2. /\ captured' \in 0..InCapacity /\ queued' \in 0..OutCapacity
      /\ 0 <= captured' /\ 0 <= OutCapacity - queued'
      /\ plan # Idle => captured' >= captured /\ queued' <= queued
    BY DuplexAssumption DEF DuplexInv, TypeOK, Capture, Render, Read, Write, Vacant, Least
<1>3. TypeOK'
    BY <1>1, <1>2 DEF DuplexInv, TypeOK
<1>4. PumpFits'
    <2>1. CASE plan = Idle
        <3>1. plan'.frames = 0 /\ plan'.needed = 0
            BY <1>1, <2>1 DEF Idle
        <3> QED
            BY <1>2, <3>1 DEF PumpFits, Vacant
    <2>2. CASE plan # Idle
        BY <1>1, <1>2, <2>2, DuplexAssumption DEF DuplexInv, TypeOK, PumpFits, Vacant
    <2> QED
        BY <2>1, <2>2
<1>5. NoSilence' /\ Seam'
    BY <1>1 DEF DuplexInv, NoSilence, Seam, After
<1> QED
    BY <1>3, <1>4, <1>5 DEF DuplexInv

LEMMA StepHolds == DuplexInv /\ [Next]_vars => DuplexInv'
<1> SUFFICES ASSUME DuplexInv, [Next]_vars
             PROVE  DuplexInv'
    OBVIOUS
<1>1. CASE Next
    BY <1>1, RingsHold, LookHolds, PopHolds, PushHolds DEF Next
<1>2. CASE UNCHANGED vars
    BY <1>2 DEF vars, DuplexInv, TypeOK, PumpFits, NoSilence, Seam, After, Vacant
<1> QED
    BY <1>1, <1>2

----------------------------------------------------------------------------
(* CpalDuplex: the theorems. *)

\* The rings stay within their capacities and the phase within a frame.
THEOREM DuplexTypeCorrect == Spec => []TypeOK
<1>1. DuplexInv => TypeOK
    BY DEF DuplexInv
<1> QED
    BY InitHolds, StepHolds, <1>1, PTL DEF Spec

\* pump_resampled() moves what it worked out, whatever the callbacks do meanwhile.
THEOREM CallsFit == Spec => []PumpFits
<1>1. DuplexInv => PumpFits
    BY DEF DuplexInv
<1> QED
    BY InitHolds, StepHolds, <1>1, PTL DEF Spec

\* No output frame is taken from beyond the frames popped for it.
THEOREM NoFrameIsSilence == Spec => []NoSilence
<1>1. DuplexInv => NoSilence
    BY DEF DuplexInv
<1> QED
    BY InitHolds, StepHolds, <1>1, PTL DEF Spec

\* A call plays no part of the input again and passes over at most one frame of it.
THEOREM OneFrameAtMostIsSkipped == Spec => []SkipsAtMostOne
<1>1. DuplexInv => SkipsAtMostOne
    BY DEF DuplexInv, Seam, SkipsAtMostOne
<1> QED
    BY InitHolds, StepHolds, <1>1, PTL DEF Spec

-----------------------------------------------------------------------------
(* PulseCapture: samples.  As long as no chunk was cut the ring has bytes  *)
(* that follow one another from the caller's next sample on; chunks may be *)
(* cut as long as everything moved is whole frames, for what is free in    *)
(* the ring is then whole frames too.                                      *)

\* A byte's place in a frame is its sample's channel and its place in the sample.
LEMMA SampleMod ==
    ASSUME NEW s \in Nat \ {0}, NEW c \in Nat \ {0}, NEW k \in Nat, NEW j \in 0 .. s - 1
    PROVE  (k * s + j) % (s * c) = (k % c) * s + j
<1>1. PICK q \in Int, r \in 0 .. c - 1 : k = c * q + r /\ r = k % c  BY Divided
<1>2. PICK d \in Nat \ {0} : d = s * c
  <2>1. s * c \in Nat /\ s * c # 0  OBVIOUS
  <2> QED  BY <2>1
<1>3. PICK m \in Nat : m = r * s + j
  <2>1. r * s \in Nat  OBVIOUS
  <2> QED  BY <2>1
<1>4. m <= d - 1
  <2>1. r * s <= (c - 1) * s  BY <1>1
  <2>2. (c - 1) * s = s * c - s  OBVIOUS
  <2> QED  BY <1>2, <1>3, <2>1, <2>2
<1>5. k * s + j = d * q + m
  <2>1. k * s = (s * c) * q + r * s  BY <1>1
  <2> QED  BY <1>2, <1>3, <2>1
<1>6. (d * q + m) % d = m  BY <1>3, <1>4, OneRemainder
<1> QED  BY <1>1, <1>2, <1>3, <1>5, <1>6

\* Frames have bytes.
LEMMA FrameHasBytes == Pulse!FrameSize \in Nat \ {0} /\ Pulse!CapacityBytes \in Nat
                       /\ Pulse!CapacityBytes % Pulse!FrameSize = 0
<1>1. Pulse!FrameSize \in Nat \ {0}
  BY PulseAssumption DEF Pulse!PulseAssumption, Pulse!FrameSize
<1>2. CapacityFrames \in Nat  BY PulseAssumption DEF Pulse!PulseAssumption
<1> HIDE DEF Pulse!FrameSize
<1>3. CapacityFrames * Pulse!FrameSize \in Nat  BY <1>1, <1>2
<1> QED  BY <1>1, <1>2, <1>3, ProductMod DEF Pulse!CapacityBytes

PulseTypeOK ==
    /\ ring \in Seq(Nat) /\ Len(ring) <= Pulse!CapacityBytes
    /\ next \in Nat /\ overruns \in Nat /\ channel \in 0 .. Channels - 1
    /\ take \in Nat /\ take % SampleSize = 0
    /\ pc = "pop" => take <= Len(ring)

\* Whole frames come in and go out: what is in the ring starts a frame and ends one.
WholeFrames == ~ragged => (channel = 0 /\ next = 0 /\ Len(ring) % Pulse!FrameSize = 0)

\* The bytes in the ring follow one another from the caller's next sample to the next captured.
BytesFollow ==
    (overruns = 0 \/ ~ragged) =>
        /\ \A i \in 1 .. Len(ring) : ring[i] = (channel * SampleSize + i - 1) % Pulse!FrameSize
        /\ next = (channel * SampleSize + Len(ring)) % Pulse!FrameSize

PulseInv == PulseTypeOK /\ WholeFrames /\ BytesFollow /\ Pulse!SamplesStayInPlace

\* An empty ring, at the start of a frame.
LEMMA PulseInit == Pulse!Init => PulseInv
<1> SUFFICES ASSUME Pulse!Init PROVE PulseInv  OBVIOUS
<1> USE DEF Pulse!Init
<1>1. SampleSize \in Nat \ {0} /\ Channels \in Nat \ {0}  BY PulseAssumption DEF Pulse!PulseAssumption
<1>2. 0 % SampleSize = 0 /\ 0 % Pulse!FrameSize = 0  BY <1>1, FrameHasBytes, SmallMod
<1>3. PulseTypeOK  BY <1>1, <1>2, FrameHasBytes DEF PulseTypeOK
<1>4. WholeFrames  BY <1>2 DEF WholeFrames
<1>5. BytesFollow
  <2>1. channel * SampleSize + Len(ring) = 0  BY <1>1
  <2> QED  BY <1>2, <2>1 DEF BytesFollow
<1> QED  BY <1>3, <1>4, <1>5 DEF PulseInv, Pulse!SamplesStayInPlace

\* A chunk is appended where the one before it ended; one that is cut sets overruns, and if
\* whole frames were cut from whole frames, whole frames are left.
LEMMA PulseWrite == ASSUME NEW size \in ChunkSizes, PulseInv, Pulse!SinkWrite(size) PROVE PulseInv'
<1> DEFINE FS == Pulse!FrameSize
           n == Pulse!Least(size, Pulse!CapacityBytes - Len(ring))
<1>1. FS \in Nat \ {0} /\ size \in Nat /\ SampleSize \in Nat \ {0} /\ Channels \in Nat \ {0}
  BY FrameHasBytes, PulseAssumption DEF Pulse!PulseAssumption
<1>2. /\ ring \in Seq(Nat) /\ Len(ring) \in Nat /\ Len(ring) <= Pulse!CapacityBytes
      /\ next \in Nat /\ overruns \in Nat /\ channel \in 0 .. Channels - 1
      /\ channel * SampleSize \in Nat
  <2>1. ring \in Seq(Nat) /\ next \in Nat /\ overruns \in Nat /\ channel \in 0 .. Channels - 1
        /\ Len(ring) <= Pulse!CapacityBytes
    BY DEF PulseInv, PulseTypeOK
  <2>2. channel * SampleSize \in Nat  BY <1>1, <2>1
  <2> QED  BY <2>1, <2>2
<1>3. n \in Nat /\ n <= size /\ Len(ring) + n <= Pulse!CapacityBytes
      /\ (n = size \/ n = Pulse!CapacityBytes - Len(ring))
  BY <1>1, <1>2, FrameHasBytes DEF Pulse!Least
<1>4. /\ ring' = ring \o Pulse!Bytes(next, n) /\ next' = (next + size) % FS
      /\ overruns' = IF n < size THEN overruns + 1 ELSE overruns
      /\ ragged' = (ragged \/ size % FS # 0)
      /\ UNCHANGED <<channel, misplaced, pc, take>>
  BY DEF Pulse!SinkWrite, Pulse!callVars
<1> HIDE DEF n
<1>5. /\ ring' \in Seq(Nat) /\ Len(ring') = Len(ring) + n
      /\ \A i \in 1 .. Len(ring) : ring'[i] = ring[i]
      /\ \A i \in Len(ring) + 1 .. Len(ring) + n : ring'[i] = (next + (i - Len(ring)) - 1) % FS
  <2>1. Pulse!Bytes(next, n) = [i \in 1 .. n |-> (next + i - 1) % FS]  BY DEF Pulse!Bytes
  <2> HIDE DEF FS
  <2>2. ASSUME NEW i \in 1 .. n PROVE (next + i - 1) % FS \in Nat
    <3>1. next + i - 1 \in Int  BY <1>2, <1>3
    <3>2. (next + i - 1) % FS \in 0 .. FS - 1  BY <1>1, <3>1, Division
    <3> QED  BY <1>1, <3>2
  <2>3. Pulse!Bytes(next, n) \in Seq(Nat) /\ Len(Pulse!Bytes(next, n)) = n  BY <1>3, <2>1, <2>2
  <2> QED  BY <1>2, <1>3, <1>4, <2>1, <2>3
<1> HIDE DEF FS
<1>6. next' \in Nat
  <2>1. (next + size) % FS \in 0 .. FS - 1  BY <1>1, <1>2, Division
  <2> QED  BY <1>1, <1>4, <2>1
<1>7. PulseTypeOK'  BY <1>2, <1>3, <1>4, <1>5, <1>6 DEF PulseInv, PulseTypeOK
<1>8. ~ragged' => (channel = 0 /\ next = 0 /\ Len(ring) % FS = 0 /\ size % FS = 0 /\ n % FS = 0)
  <2> SUFFICES ASSUME ~ragged' PROVE channel = 0 /\ next = 0 /\ Len(ring) % FS = 0 /\ size % FS = 0 /\ n % FS = 0
    OBVIOUS
  <2>1. ~ragged /\ size % FS = 0  BY <1>4
  <2>2. channel = 0 /\ next = 0 /\ Len(ring) % FS = 0  BY <2>1 DEF PulseInv, WholeFrames, FS
  <2>3. (Pulse!CapacityBytes - Len(ring)) % FS = 0
    <3>1. Pulse!CapacityBytes \in Int /\ Len(ring) \in Int /\ Pulse!CapacityBytes % FS = 0
      BY <1>2, FrameHasBytes DEF FS
    <3> QED  BY <1>1, <2>2, <3>1, NoRemainder
  <2> QED  BY <1>3, <2>1, <2>2, <2>3
<1>9. WholeFrames'
  <2> SUFFICES ASSUME ~ragged' PROVE channel' = 0 /\ next' = 0 /\ Len(ring') % FS = 0
    BY DEF WholeFrames, FS
  <2>1. next' = 0  BY <1>1, <1>4, <1>8
  <2>2. (Len(ring) + n) % FS = 0
    <3>1. Len(ring) \in Int /\ n \in Int /\ FS \in Nat \ {0} /\ n % FS = 0 /\ Len(ring) % FS = 0
      BY <1>1, <1>2, <1>3, <1>8
    <3> QED  BY <3>1, NoRemainder
  <2> QED  BY <1>4, <1>5, <1>8, <2>1, <2>2
<1>10. BytesFollow'
  <2> SUFFICES ASSUME overruns' = 0 \/ ~ragged'
               PROVE  /\ \A i \in 1 .. Len(ring') : ring'[i] = (channel * SampleSize + i - 1) % FS
                      /\ next' = (channel * SampleSize + Len(ring')) % FS
    BY <1>4 DEF BytesFollow, FS
  <2>1. overruns = 0 \/ ~ragged
    <3>1. overruns' = 0 => overruns = 0  BY <1>2, <1>3, <1>4
    <3>2. ~ragged' => ~ragged  BY <1>4
    <3> QED  BY <3>1, <3>2
  <2>2. PICK e \in Nat : e = channel * SampleSize  BY <1>2
  <2>3. /\ \A i \in 1 .. Len(ring) : ring[i] = (e + i - 1) % FS
        /\ next = (e + Len(ring)) % FS
    BY <2>1, <2>2 DEF PulseInv, BytesFollow, FS
  <2>4. ASSUME NEW k \in Int PROVE (next + k) % FS = ((e + Len(ring)) + k) % FS
    <3>1. next \in Int /\ e + Len(ring) \in Int /\ FS \in Nat \ {0}  BY <1>1, <1>2
    <3> QED  BY <2>3, <3>1, FollowOn, ZenonT(60)
  <2>5. ASSUME NEW i \in 1 .. Len(ring') PROVE ring'[i] = (e + i - 1) % FS
    <3>1. CASE i \in 1 .. Len(ring)  BY <1>5, <2>3, <3>1
    <3>2. CASE i \in Len(ring) + 1 .. Len(ring) + n
      <4> DEFINE k == i - Len(ring) - 1
      <4>1. k \in Int /\ (e + Len(ring)) + k = e + i - 1 /\ next + (i - Len(ring)) - 1 = next + k
        BY <1>2, <3>2
      <4>2. (next + k) % FS = ((e + Len(ring)) + k) % FS  BY <2>4, <4>1
      <4>3. ring'[i] = (next + (i - Len(ring)) - 1) % FS  BY <1>5, <3>2
      <4> QED  BY <4>1, <4>2, <4>3
    <3> QED  BY <1>2, <1>3, <1>5, <3>1, <3>2
  <2>6. next' = (e + Len(ring')) % FS
    <3>1. next' = ((e + Len(ring)) + size) % FS  BY <1>1, <1>4, <2>4
    <3>2. CASE n = size
      <4>1. (e + Len(ring)) + size = e + Len(ring')  BY <1>1, <1>2, <1>5, <3>2
      <4> QED  BY <3>1, <4>1
    <3>3. CASE ~ragged'
      <4> DEFINE x == e + Len(ring)
      <4>1. x \in Int /\ size \in Int /\ n \in Int /\ size % FS = 0 /\ n % FS = 0 /\ FS \in Nat \ {0}
        BY <1>1, <1>2, <1>3, <1>8, <3>3
      <4>2. x + n = e + Len(ring')  BY <1>2, <1>3, <1>5
      <4>3. next' = (x + size) % FS  BY <3>1
      <4> HIDE DEF x
      <4>4. (x + size) % FS = x % FS /\ (x + n) % FS = x % FS  BY <4>1, NoRemainder
      <4> QED  BY <4>2, <4>3, <4>4
    <3>4. overruns' = 0 => n = size  BY <1>1, <1>2, <1>3, <1>4
    <3> QED  BY <3>2, <3>3, <3>4
  <2> QED  BY <2>2, <2>5, <2>6
<1>11. Pulse!SamplesStayInPlace'
  <2>1. misplaced => overruns > 0 /\ ragged  BY DEF PulseInv, Pulse!SamplesStayInPlace
  <2>2. misplaced' => misplaced  BY <1>4
  <2>3. overruns > 0 => overruns' > 0  BY <1>2, <1>4
  <2>4. ragged => ragged'  BY <1>4
  <2> QED  BY <2>1, <2>2, <2>3, <2>4 DEF Pulse!SamplesStayInPlace
<1> QED  BY <1>7, <1>9, <1>10, <1>11 DEF PulseInv

\* A read pops the samples its flag and its length let it, and each is where it belongs.
LEMMA PulsePop == ASSUME PulseInv, Pulse!Pop PROVE PulseInv'
<1> DEFINE FS == Pulse!FrameSize
           count == take \div SampleSize
<1>1. FS \in Nat \ {0} /\ FS = SampleSize * Channels /\ SampleSize \in Nat \ {0} /\ Channels \in Nat \ {0}
  BY FrameHasBytes, PulseAssumption DEF Pulse!PulseAssumption, Pulse!FrameSize
<1>2. /\ ring \in Seq(Nat) /\ Len(ring) \in Nat /\ Len(ring) <= Pulse!CapacityBytes
      /\ next \in Nat /\ overruns \in Nat /\ channel \in 0 .. Channels - 1
      /\ take \in Nat /\ take % SampleSize = 0 /\ take <= Len(ring)
  BY DEF PulseInv, PulseTypeOK, Pulse!Pop
<1>3. /\ ring' = SubSeq(ring, take + 1, Len(ring))
      /\ misplaced' = (misplaced \/ \E i \in 1 .. count : ~Pulse!InPlace(i))
      /\ channel' = (channel + count) % Channels
      /\ ragged' = (ragged \/ take % FS # 0)
      /\ pc' = "idle" /\ take' = 0
      /\ UNCHANGED <<next, overruns>>
  BY DEF Pulse!Pop
<1> HIDE DEF FS
<1>4. count \in Nat /\ take = SampleSize * count
  BY <1>1, <1>2, Multiple
<1> HIDE DEF count
<1>5. /\ ring' \in Seq(Nat) /\ Len(ring') = Len(ring) - take
      /\ \A i \in 1 .. Len(ring') : ring'[i] = ring[take + i]
  BY <1>2, <1>3
<1>6. PICK q \in Int : channel + count = Channels * q + channel' /\ channel' \in 0 .. Channels - 1
  <2>1. channel + count \in Int  BY <1>2, <1>4
  <2> QED  BY <1>1, <1>3, <2>1, Division
<1>7. PulseTypeOK'
  <2>1. 0 % SampleSize = 0  BY <1>1, SmallMod
  <2>2. Pulse!CapacityBytes \in Nat  BY FrameHasBytes
  <2> QED  BY <1>2, <1>3, <1>5, <1>6, <2>1, <2>2, SMTT(30) DEF PulseTypeOK
<1>8. WholeFrames'
  <2> SUFFICES ASSUME ~ragged' PROVE channel' = 0 /\ next' = 0 /\ Len(ring') % FS = 0
    BY DEF WholeFrames, FS
  <2>1. ~ragged /\ take % FS = 0  BY <1>3
  <2>2. channel = 0 /\ next = 0 /\ Len(ring) % FS = 0  BY <2>1 DEF PulseInv, WholeFrames, FS
  <2>3. (Len(ring) - take) % FS = 0
    <3>1. Len(ring) \in Int /\ take \in Int /\ FS \in Nat \ {0}  BY <1>1, <1>2
    <3> QED  BY <2>1, <2>2, <3>1, NoRemainder
  <2>4. PICK m \in Nat : take = FS * m
    <3>1. take \in Nat /\ FS \in Nat \ {0}  BY <1>1, <1>2
    <3> QED  BY <2>1, <3>1, Multiple
  <2>5. count = Channels * m + 0
    <3>1. SampleSize * count = SampleSize * (Channels * m)  BY <1>1, <1>4, <2>4
    <3>2. Channels * m \in Int  BY <1>1
    <3> QED  BY <1>1, <1>4, <3>1, <3>2
  <2>6. count % Channels = 0  BY <1>1, <2>5, OneRemainder
  <2> QED  BY <1>3, <1>4, <1>5, <2>2, <2>3, <2>6
<1>9. PICK e \in Nat, f \in Nat : /\ e = channel * SampleSize /\ f = channel' * SampleSize
                                  /\ e + take = FS * q + f
  <2>1. channel \in Nat /\ channel' \in Nat /\ count \in Nat /\ SampleSize \in Nat /\ Channels \in Nat
    BY <1>1, <1>2, <1>4, <1>6
  <2>2. channel * SampleSize \in Nat /\ channel' * SampleSize \in Nat  BY <2>1, ProductNat
  <2>3. (channel + count) * SampleSize = channel * SampleSize + SampleSize * count  BY <2>1
  <2>4. (Channels * q + channel') * SampleSize = (SampleSize * Channels) * q + channel' * SampleSize
    BY <2>1
  <2>5. channel * SampleSize + take = FS * q + channel' * SampleSize
    BY <1>1, <1>4, <1>6, <2>3, <2>4
  <2> QED  BY <2>2, <2>5
<1>10. ASSUME NEW k \in Int PROVE (e + take + k) % FS = (f + k) % FS
  <2>1. PICK x \in Int : x = f + k  BY <1>9
  <2>2. PICK p \in Int : p = FS * q  BY <1>1
  <2>3. e + take + k = x + p  BY <1>2, <1>9, <2>1, <2>2
  <2>4. (x + FS * q) % FS = x % FS  BY <1>1, ModPeriod, ZenonT(60)
  <2> QED  BY <2>1, <2>2, <2>3, <2>4
<1>11. overruns = 0 \/ ~ragged =>
          /\ \A i \in 1 .. Len(ring) : ring[i] = (e + i - 1) % FS
          /\ next = (e + Len(ring)) % FS
  BY <1>9 DEF PulseInv, BytesFollow, FS
<1>12. BytesFollow'
  <2> SUFFICES ASSUME overruns' = 0 \/ ~ragged'
               PROVE  /\ \A i \in 1 .. Len(ring') : ring'[i] = (f + i - 1) % FS
                      /\ next' = (f + Len(ring')) % FS
    BY <1>9 DEF BytesFollow, FS
  <2>1. overruns = 0 \/ ~ragged  BY <1>3
  <2>2. ASSUME NEW i \in 1 .. Len(ring') PROVE ring'[i] = (f + i - 1) % FS
    <3>1. take + i \in 1 .. Len(ring) /\ ring'[i] = ring[take + i]  BY <1>2, <1>5, SMTT(30)
    <3>2. ring[take + i] = (e + (take + i) - 1) % FS  BY <1>11, <2>1, <3>1
    <3>3. PICK k \in Int : k = i - 1  OBVIOUS
    <3>4. (e + take + k) % FS = (f + k) % FS  BY <1>10
    <3>5. e + (take + i) - 1 = e + take + k /\ f + i - 1 = f + k  BY <1>2, <3>3
    <3> QED  BY <3>1, <3>2, <3>4, <3>5
  <2>3. next' = (f + Len(ring')) % FS
    <3> DEFINE k == Len(ring) - take
    <3>1. k \in Int /\ e + take + k = e + Len(ring) /\ Len(ring') = k  BY <1>2, <1>5
    <3> HIDE DEF k
    <3>2. (e + take + k) % FS = (f + k) % FS  BY <1>10, <3>1
    <3>3. f + Len(ring') = f + k  BY <3>1
    <3>4. next' = (e + Len(ring)) % FS  BY <1>3, <1>11, <2>1
    <3> QED  BY <3>1, <3>2, <3>3, <3>4
  <2> QED  BY <2>2, <2>3
<1>13. Pulse!SamplesStayInPlace'
  <2> SUFFICES ASSUME misplaced', ~(overruns' > 0 /\ ragged') PROVE FALSE
    BY DEF Pulse!SamplesStayInPlace
  <2>1. overruns = 0 \/ ~ragged
    <3>1. overruns' = overruns /\ overruns \in Nat  BY <1>2, <1>3
    <3>2. ~(overruns > 0) => overruns = 0  BY <3>1
    <3>3. ~ragged' => ~ragged  BY <1>3
    <3> QED  BY <3>1, <3>2, <3>3
  <2>2. ~misplaced
    BY <1>2, <1>3 DEF PulseInv, Pulse!SamplesStayInPlace
  <2>3. PICK i \in 1 .. count : ~Pulse!InPlace(i)  BY <1>3, <2>2
  <2>4. PICK j \in 1 .. SampleSize :
          ring[(i - 1) * SampleSize + j] # ((channel + i - 1) % Channels) * SampleSize + j - 1
    BY <2>3 DEF Pulse!InPlace
  <2>5. PICK p \in Nat : p = (i - 1) * SampleSize
    <3>1. (i - 1) * SampleSize \in Nat  BY <1>1, <1>4
    <3> QED  BY <3>1
  <2>6. p + j \in 1 .. Len(ring)
    <3>1. (i - 1) * SampleSize <= (count - 1) * SampleSize  BY <1>1, <1>4
    <3>2. (count - 1) * SampleSize = take - SampleSize  BY <1>1, <1>2, <1>4
    <3>3. p + SampleSize <= take  BY <1>1, <1>2, <2>5, <3>1, <3>2
    <3>4. j >= 1 /\ j <= SampleSize /\ j \in Int /\ SampleSize \in Nat /\ take \in Nat /\ Len(ring) \in Nat
          /\ take <= Len(ring)
      BY <1>1, <1>2
    <3> QED  BY <3>3, <3>4
  <2>7. ring[p + j] = (e + (p + j) - 1) % FS  BY <1>11, <2>1, <2>6
  <2>8. PICK k \in Nat : k = channel + i - 1  BY <1>2, <1>4
  <2>9. (k * SampleSize + (j - 1)) % FS = (k % Channels) * SampleSize + (j - 1)
    <3>1. j - 1 \in 0 .. SampleSize - 1  BY <1>1
    <3> QED  BY <1>1, <3>1, SampleMod, ZenonT(60)
  <2>10. k * SampleSize = e + p
    BY <1>1, <1>2, <1>4, <1>9, <2>5, <2>8
  <2>11. e + (p + j) - 1 = k * SampleSize + (j - 1)  BY <2>5, <2>10, <1>1
  <2>12. (k % Channels) * SampleSize + (j - 1) = (k % Channels) * SampleSize + j - 1
    <3>1. (k % Channels) * SampleSize \in Int
      <4>1. k % Channels \in 0 .. Channels - 1  BY <1>1, Division
      <4> QED  BY <1>1, <4>1
    <3> QED  BY <1>1, <3>1
  <2> QED  BY <2>4, <2>5, <2>7, <2>8, <2>9, <2>11, <2>12
<1> QED  BY <1>7, <1>8, <1>12, <1>13 DEF PulseInv

LEMMA PulseStep == PulseInv /\ [Pulse!Next]_(Pulse!vars) => PulseInv'
<1> SUFFICES ASSUME PulseInv, [Pulse!Next]_(Pulse!vars) PROVE PulseInv'  OBVIOUS
<1>1. ASSUME UNCHANGED (Pulse!dataVars), UNCHANGED take, pc' # "pop" PROVE PulseInv'
  BY <1>1 DEF PulseInv, PulseTypeOK, WholeFrames, BytesFollow, Pulse!SamplesStayInPlace, Pulse!dataVars
<1>2. ASSUME UNCHANGED (Pulse!dataVars), UNCHANGED <<take, pc>> PROVE PulseInv'
  BY <1>2 DEF PulseInv, PulseTypeOK, WholeFrames, BytesFollow, Pulse!SamplesStayInPlace, Pulse!dataVars
<1>3. ASSUME NEW samples \in SampleCounts, Pulse!Read(samples) PROVE PulseInv'
  <2>1. CASE UNCHANGED (Pulse!callVars)
    BY <1>2, <1>3, <2>1 DEF Pulse!Read, Pulse!callVars
  <2>2. CASE ~UNCHANGED (Pulse!callVars)
    <3> DEFINE n == Pulse!Least(Len(ring), samples * SampleSize)
    <3>1. /\ UNCHANGED (Pulse!dataVars) /\ pc' = "pop" /\ take' = n - (n % SampleSize)
      BY <1>3, <2>2 DEF Pulse!Read, Pulse!WholeSamples
    <3>2. SampleSize \in Nat \ {0} /\ samples \in Nat  BY PulseAssumption DEF Pulse!PulseAssumption
    <3>3. samples * SampleSize \in Nat /\ Len(ring) \in Nat  BY <3>2 DEF PulseInv, PulseTypeOK
    <3>4. n \in Nat /\ n <= Len(ring)  BY <3>3 DEF Pulse!Least
    <3> HIDE DEF n
    <3>5. PICK q \in Int, r \in 0 .. SampleSize - 1 : n = SampleSize * q + r /\ r = n % SampleSize
      <4>1. n \in Int  BY <3>4
      <4> QED  BY <3>2, <4>1, Divided
    <3>6. take' = SampleSize * q + 0 /\ take' <= Len(ring)
      <4>1. SampleSize * q \in Int  BY <3>2
      <4>2. take' = n - r  BY <3>1, <3>5
      <4>3. n = SampleSize * q + r /\ r \in Nat  BY <3>2, <3>5
      <4> QED  BY <3>3, <3>4, <4>1, <4>2, <4>3
    <3>7. take' % SampleSize = 0  BY <3>2, <3>6, OneRemainder, SMTT(30)
    <3>8. take' \in Nat
      <4>1. ~(q < 0)
        <5> SUFFICES ASSUME q <= -1 PROVE FALSE  OBVIOUS
        <5>1. SampleSize * q <= -SampleSize  BY <3>2
        <5> QED  BY <3>2, <3>4, <3>5, <5>1
      <4> QED  BY <3>2, <3>6, <4>1
    <3> QED
      BY <3>1, <3>6, <3>7, <3>8
      DEF PulseInv, PulseTypeOK, WholeFrames, BytesFollow, Pulse!SamplesStayInPlace, Pulse!dataVars
  <2> QED  BY <2>1, <2>2
<1>4. CASE Pulse!RunCommand \/ Pulse!SinkDropped
  BY <1>2, <1>4 DEF Pulse!RunCommand, Pulse!SinkDropped, Pulse!callVars
<1>5. ASSUME NEW o \in Pulse!Commands, Pulse!Send(o) PROVE PulseInv'
  BY <1>1, <1>5 DEF Pulse!Send
<1>6. CASE Pulse!AwaitReply \/ Pulse!AwaitTimeout
  BY <1>1, <1>6 DEF Pulse!AwaitReply, Pulse!AwaitTimeout, Pulse!EndCommand
<1>7. CASE UNCHANGED (Pulse!vars)
  BY <1>2, <1>7 DEF Pulse!vars, Pulse!callVars
<1> QED  BY <1>3, <1>4, <1>5, <1>6, <1>7, PulseWrite, PulsePop DEF Pulse!Next

\* Captured samples are delivered whole and in their channel but where a cut of something
\* other than whole frames has been counted (PulseCapture's part of CapturedInPlace).
THEOREM PulseSamplesStayInPlace == PartsSpec => []Pulse!SamplesStayInPlace
<1>1. PulseInv => Pulse!SamplesStayInPlace  BY DEF PulseInv
<1>2. Pulse!Spec => []Pulse!SamplesStayInPlace
  BY <1>1, PulseInit, PulseStep, PTL DEF Pulse!Spec
<1> QED  BY <1>2, PartsAreComponents, PTL

-----------------------------------------------------------------------------
(* PulseCapture.  Once pause() has returned Ok nothing more is captured    *)
(* until resume() is called: commands are executed in the order they were  *)
(* queued in, so whatever timed out before the pause is done by then.      *)

PausedInv ==
    /\ pending \in Seq(Pulse!Commands) /\ pc \in {"idle", "pop", "await"}
    /\ op \in Pulse!Commands \cup {"none", "read"} /\ reply \in {"none", "ok", "error"}
    /\ corked \in BOOLEAN /\ paused \in BOOLEAN
    /\ gone => pending = <<>>
    /\ (pc = "await" /\ Len(pending) > 0) => pending[Len(pending)] = op
    /\ reply # "none" => (pc = "await" /\ pending = <<>>)
    /\ (reply = "ok" /\ op = "pause") => corked
    /\ paused => corked
    /\ paused => \A i \in 1 .. Len(pending) : pending[i] # "resume"

LEMMA PausedInit == Pulse!Init => PausedInv
<1> SUFFICES ASSUME Pulse!Init PROVE PausedInv  OBVIOUS
<1>1. pending = <<>> /\ pc = "idle" /\ op = "none" /\ reply = "none"  BY DEF Pulse!Init
<1>2. corked = FALSE /\ paused = FALSE  BY DEF Pulse!Init
<1>3. corked \in BOOLEAN /\ paused \in BOOLEAN /\ ~paused  BY <1>2
<1>4. pending \in Seq(Pulse!Commands) /\ Len(pending) = 0  BY <1>1
<1> QED  BY <1>1, <1>3, <1>4 DEF PausedInv

LEMMA PausedStep == PausedInv /\ [Pulse!Next]_(Pulse!vars) => PausedInv'
<1> SUFFICES ASSUME PausedInv, [Pulse!Next]_(Pulse!vars) PROVE PausedInv'  OBVIOUS
<1> USE DEF PausedInv
<1>1. ASSUME NEW size \in ChunkSizes, Pulse!SinkWrite(size) PROVE PausedInv'
  BY <1>1 DEF Pulse!SinkWrite, Pulse!callVars, Pulse!tripVars
<1>2. CASE Pulse!RunCommand
  <2>1. /\ pending # <<>> /\ pending' = Tail(pending)
        /\ UNCHANGED <<pc, op, take, paused, gone>> /\ ~gone
    BY <1>2 DEF Pulse!RunCommand, Pulse!callVars
  <2>2. PICK ok \in BOOLEAN :
          /\ corked' = IF ok /\ Head(pending) # "discard" THEN Head(pending) = "pause" ELSE corked
          /\ reply' = IF pc = "await" /\ Len(pending) = 1 THEN IF ok THEN "ok" ELSE "error"
                      ELSE reply
    BY <1>2 DEF Pulse!RunCommand
  <2>3. /\ Len(pending) \in Nat \ {0} /\ Head(pending) = pending[1] /\ Head(pending) \in Pulse!Commands
        /\ pending' \in Seq(Pulse!Commands) /\ Len(pending') = Len(pending) - 1
        /\ \A i \in 1 .. Len(pending') : pending'[i] = pending[i + 1]
    BY <2>1
  <2>4. reply = "none"  BY <2>1
  <2>5. corked' \in BOOLEAN /\ (paused' => corked')  BY <2>1, <2>2, <2>3 DEF Pulse!Commands
  <2>6. (reply' = "ok" /\ op' = "pause") => corked'
    <3> SUFFICES ASSUME reply' = "ok", op = "pause" PROVE corked'  BY <2>1
    <3>1. pc = "await" /\ Len(pending) = 1 /\ ok  BY <2>2, <2>4
    <3>2. Head(pending) = "pause"  BY <2>3, <3>1
    <3> QED  BY <2>2, <3>1, <3>2
  <2>7. (pc' = "await" /\ Len(pending') > 0) => pending'[Len(pending')] = op'  BY <2>1, <2>3
  <2>8. reply' # "none" => (pc' = "await" /\ pending' = <<>>)  BY <2>1, <2>2, <2>3, <2>4
  <2>9. paused' => \A i \in 1 .. Len(pending') : pending'[i] # "resume"  BY <2>1, <2>3
  <2> QED  BY <2>1, <2>2, <2>3, <2>5, <2>6, <2>7, <2>8, <2>9
<1>3. CASE Pulse!SinkDropped  BY <1>3 DEF Pulse!SinkDropped, Pulse!callVars
<1>4. ASSUME NEW samples \in SampleCounts, Pulse!Read(samples) PROVE PausedInv'
  BY <1>4 DEF Pulse!Read, Pulse!callVars, Pulse!tripVars
<1>5. CASE Pulse!Pop  BY <1>5 DEF Pulse!Pop, Pulse!tripVars
<1>6. ASSUME NEW o \in Pulse!Commands, Pulse!Send(o) PROVE PausedInv'
  <2>1. /\ pc = "idle" /\ pc' = "await" /\ op' = o /\ reply' = "none" /\ UNCHANGED corked
        /\ pending' = IF gone THEN pending ELSE Append(pending, o)
        /\ paused' = (paused /\ o # "resume") /\ reply = "none"
    BY <1>6 DEF Pulse!Send
  <2>2. paused' \in BOOLEAN /\ (paused' => paused) /\ (paused' => o # "resume")  BY <2>1
  <2>3. CASE gone
    <3>1. pending' = pending  BY <2>1, <2>3
    <3>2. reply' = "none" /\ pc' = "await" /\ op' = o  BY <2>1
    <3>3. Len(pending') = 0 /\ UNCHANGED gone  BY <1>6, <2>3, <3>1 DEF Pulse!Send
    <3> QED  BY <2>1, <2>2, <3>1, <3>2, <3>3
  <2>4. CASE ~gone
    <3>1. pending' = Append(pending, o)  BY <2>1, <2>4
    <3>2. /\ pending' \in Seq(Pulse!Commands) /\ Len(pending') = Len(pending) + 1
          /\ pending'[Len(pending')] = o /\ \A i \in 1 .. Len(pending) : pending'[i] = pending[i]
          /\ Len(pending) \in Nat
      BY <1>6, <3>1
    <3>3. paused' => \A i \in 1 .. Len(pending') : pending'[i] # "resume"
      <4> SUFFICES ASSUME paused', NEW i \in 1 .. Len(pending') PROVE pending'[i] # "resume"  OBVIOUS
      <4>1. CASE i \in 1 .. Len(pending)  BY <2>2, <3>2, <4>1
      <4>2. CASE i = Len(pending) + 1  BY <2>2, <3>2, <4>2
      <4> QED  BY <3>2, <4>1, <4>2
    <3>4. ~gone'  BY <1>6, <2>4 DEF Pulse!Send
    <3> QED  BY <1>6, <2>1, <2>2, <3>2, <3>3, <3>4
  <2> QED  BY <2>3, <2>4
<1>7. ASSUME NEW outcome \in {"ok", "error", "timeout"}, Pulse!EndCommand(outcome),
             outcome = "ok" => reply = "ok"
      PROVE  PausedInv'
  BY <1>7 DEF Pulse!EndCommand
<1>8. CASE Pulse!AwaitReply
  BY <1>7, <1>8 DEF Pulse!AwaitReply
<1>9. CASE Pulse!AwaitTimeout
  BY <1>7, <1>9 DEF Pulse!AwaitTimeout
<1>10. CASE UNCHANGED (Pulse!vars)
  BY <1>10 DEF Pulse!vars, Pulse!callVars, Pulse!tripVars
<1> QED  BY <1>1, <1>2, <1>3, <1>4, <1>5, <1>6, <1>8, <1>9, <1>10 DEF Pulse!Next

\* Nothing is captured between a pause and a resume (PausedStaysQuiet).
THEOREM PauseIsQuiet == PartsSpec => PausedStaysQuiet
<1>1. PausedInv /\ PulseInv /\ [Pulse!Next]_(Pulse!vars) => [paused => Len(ring') <= Len(ring)]_(Pulse!vars)
  <2> SUFFICES ASSUME PausedInv, PulseInv, Pulse!Next, paused PROVE Len(ring') <= Len(ring)
    OBVIOUS
  <2>1. ring \in Seq(Nat) /\ Len(ring) \in Nat  BY DEF PulseInv, PulseTypeOK
  <2>2. ASSUME NEW size \in ChunkSizes, Pulse!SinkWrite(size) PROVE FALSE
    BY <2>2 DEF PausedInv, Pulse!SinkWrite
  <2>3. CASE Pulse!Pop
    <3>1. take \in Nat /\ take <= Len(ring) /\ ring' = SubSeq(ring, take + 1, Len(ring))
      BY <2>3 DEF Pulse!Pop, PulseInv, PulseTypeOK
    <3> QED  BY <2>1, <3>1
  <2>4. CASE UNCHANGED ring  BY <2>1, <2>4
  <2> QED  BY <2>2, <2>3, <2>4 DEF Pulse!Next, Pulse!RunCommand, Pulse!SinkDropped, Pulse!Read, Pulse!Send,
             Pulse!AwaitReply, Pulse!AwaitTimeout, Pulse!EndCommand, Pulse!dataVars
<1>2. Pulse!Spec => PausedStaysQuiet
  BY <1>1, PausedInit, PausedStep, PulseInit, PulseStep, PTL DEF Pulse!Spec, PausedStaysQuiet, Pulse!PausedStaysQuiet
<1> QED  BY <1>2, PartsAreComponents, PTL

-----------------------------------------------------------------------------
(* CpalCapture.  Frames are dropped whole when the ring holds whole frames *)
(* and nothing makes room in the middle of one: then what is in the ring   *)
(* and what has been delivered is whole frames, but for the frame being    *)
(* pushed.  A channel of buffers has every sample.                         *)

LEMMA LesserOfTwo ==
    ASSUME NEW a \in Nat, NEW b \in Nat, NEW m, m = Capturing!Min({a, b})
    PROVE  m \in Nat /\ m <= a /\ m <= b /\ (m = a \/ m = b)
<1>1. \E x \in {a, b} : \A y \in {a, b} : x <= y
  <2>1. CASE a <= b  BY <2>1
  <2>2. CASE b <= a  BY <2>2
  <2> QED  BY <2>1, <2>2
<1>2. m \in {a, b} /\ \A y \in {a, b} : m <= y  BY <1>1 DEF Capturing!Min
<1> QED  BY <1>2

\* The ring: the callback has whole frames to push.
CaptureRingHolds ==
    /\ capacity \in Nat /\ taken \in Nat /\ left \in Nat
    /\ inRing \in Seq(Nat) /\ Len(inRing) <= capacity /\ delivered \in Seq(Nat)
    /\ kind = "ring" => (taken + left) % Channels = 0
    /\ (kind = "ring" /\ ~raced /\ capacity % Channels = 0) =>
          (/\ Len(delivered) % Channels = 0
           /\ Len(inRing) < capacity => Len(inRing) % Channels = taken % Channels
           /\ \A i \in 1 .. Len(inRing) : inRing[i] % Channels = (i - 1) % Channels
           /\ \A i \in 1 .. Len(delivered) : delivered[i] % Channels = (i - 1) % Channels)

\* The channel: `from` says at which sample each buffer in it starts, and where the next will.
Queued(from) ==
    /\ from \in [1 .. Len(queue) + 1 -> Nat]
    /\ from[1] = Len(delivered) /\ from[Len(queue) + 1] = taken
    /\ \A k \in 1 .. Len(queue) :
          /\ from[k + 1] = from[k] + Len(queue[k])
          /\ \A i \in 1 .. Len(queue[k]) : queue[k][i] = from[k] + i - 1

CaptureChannelHolds ==
    /\ kind \in {"ring", "channel"} /\ queue \in Seq(Seq(Nat))
    /\ kind = "channel" => left = 0
    /\ kind = "channel" => \E from : Queued(from)
    /\ kind = "channel" => \A i \in 1 .. Len(delivered) : delivered[i] = i - 1

CaptureInv == CaptureRingHolds /\ CaptureChannelHolds

\* Nothing captured, nothing delivered.
LEMMA CaptureInit == Capturing!Init => CaptureInv
<1> SUFFICES ASSUME Capturing!Init PROVE CaptureInv  OBVIOUS
<1>1. /\ kind \in {"ring", "channel"} /\ capacity \in Nat
      /\ inRing = <<>> /\ queue = <<>> /\ taken = 0 /\ left = 0 /\ delivered = <<>>
      /\ Channels \in Nat \ {0}
  BY CapturingAssumption DEF Capturing!Init, Capturing!CaptureAssumption
<1>2. 0 % Channels = 0  BY <1>1, SmallMod
<1>3. Len(inRing) = 0 /\ Len(queue) = 0 /\ Len(delivered) = 0
      /\ inRing \in Seq(Nat) /\ delivered \in Seq(Nat) /\ queue \in Seq(Seq(Nat))
  BY <1>1
<1>4. CaptureRingHolds  BY <1>1, <1>2, <1>3 DEF CaptureRingHolds
<1>5. Queued([k \in 1 .. 1 |-> 0])  BY <1>1, <1>3 DEF Queued
<1>6. CaptureChannelHolds  BY <1>1, <1>3, <1>5 DEF CaptureChannelHolds
<1> QED  BY <1>4, <1>6 DEF CaptureInv

\* The samples of a ring are no other than the application's, and a channel has none.
LEMMA CaptureRing ==
    ASSUME CaptureInv, kind = "ring", UNCHANGED <<kind, queue>>, CaptureRingHolds'
    PROVE  CaptureInv'
  BY DEF CaptureInv, CaptureChannelHolds

LEMMA CapturePush == ASSUME CaptureInv, Capturing!PushSample, kind = "ring" PROVE CaptureInv'
<1>1. /\ capacity \in Nat /\ taken \in Nat /\ left \in Nat /\ Channels \in Nat \ {0}
      /\ inRing \in Seq(Nat) /\ Len(inRing) \in Nat /\ Len(inRing) <= capacity /\ delivered \in Seq(Nat)
  BY CapturingAssumption DEF Capturing!CaptureAssumption, CaptureInv, CaptureRingHolds
<1>2. /\ left > 0 /\ left' = left - 1 /\ taken' = taken + 1
      /\ inRing' = IF Len(inRing) < capacity THEN Append(inRing, taken) ELSE inRing
      /\ UNCHANGED <<kind, capacity, queue, delivered, raced>>
  BY DEF Capturing!PushSample
<1>3. inRing' \in Seq(Nat) /\ Len(inRing') <= capacity /\ left' \in Nat /\ taken' \in Nat
  BY <1>1, <1>2
<1>4. (taken' + left') % Channels = 0
  <2>1. taken' + left' = taken + left  BY <1>1, <1>2
  <2> QED  BY <2>1 DEF CaptureInv, CaptureRingHolds
<1>5. ASSUME ~raced, capacity % Channels = 0
      PROVE  /\ Len(inRing') < capacity => Len(inRing') % Channels = taken' % Channels
             /\ \A i \in 1 .. Len(inRing') : inRing'[i] % Channels = (i - 1) % Channels
  <2>1. /\ Len(inRing) < capacity => Len(inRing) % Channels = taken % Channels
        /\ \A i \in 1 .. Len(inRing) : inRing[i] % Channels = (i - 1) % Channels
    BY <1>5 DEF CaptureInv, CaptureRingHolds
  <2>2. CASE Len(inRing) < capacity
    <3>1. /\ Len(inRing') = Len(inRing) + 1 /\ inRing'[Len(inRing) + 1] = taken
          /\ \A i \in 1 .. Len(inRing) : inRing'[i] = inRing[i]
      BY <1>1, <1>2, <2>2
    <3>2. Len(inRing) % Channels = taken % Channels  BY <2>1, <2>2
    <3>3. Len(inRing') % Channels = taken' % Channels
      <4>1. Len(inRing) \in Int /\ taken \in Int /\ 1 \in Int  BY <1>1
      <4>2. (Len(inRing) + 1) % Channels = (taken + 1) % Channels  BY <1>1, <3>2, <4>1, Congruent
      <4> QED  BY <1>2, <3>1, <4>2
    <3>4. ASSUME NEW i \in 1 .. Len(inRing') PROVE inRing'[i] % Channels = (i - 1) % Channels
      <4>1. CASE i \in 1 .. Len(inRing)  BY <2>1, <3>1, <4>1
      <4>2. CASE i = Len(inRing) + 1
        <5>1. i - 1 = Len(inRing)  BY <1>1, <4>2
        <5> QED  BY <3>1, <3>2, <4>2, <5>1
      <4> QED  BY <1>1, <3>1, <4>1, <4>2
    <3> QED  BY <3>3, <3>4
  <2>3. CASE ~(Len(inRing) < capacity)
    <3>1. inRing' = inRing  BY <1>2, <2>3
    <3> QED  BY <2>1, <2>3, <3>1
  <2> QED  BY <2>2, <2>3
<1>6. (~raced /\ capacity % Channels = 0) =>
        (/\ Len(delivered) % Channels = 0
         /\ \A i \in 1 .. Len(delivered) : delivered[i] % Channels = (i - 1) % Channels)
  BY DEF CaptureInv, CaptureRingHolds
<1>7. CaptureRingHolds'
  <2>1. (~raced /\ capacity % Channels = 0) =>
            (/\ Len(inRing') < capacity => Len(inRing') % Channels = taken' % Channels
             /\ \A i \in 1 .. Len(inRing') : inRing'[i] % Channels = (i - 1) % Channels)
    BY <1>5
  <2> QED  BY <1>1, <1>2, <1>3, <1>4, <1>6, <2>1 DEF CaptureRingHolds
<1> QED  BY <1>2, <1>7, CaptureRing

LEMMA CaptureRead == ASSUME NEW n \in ReadSizes, CaptureInv, Capturing!Read(n) PROVE CaptureInv'
<1> DEFINE m == Capturing!Min({n, Len(inRing)})
<1>1. /\ capacity \in Nat /\ taken \in Nat /\ left \in Nat /\ Channels \in Nat \ {0}
      /\ inRing \in Seq(Nat) /\ Len(inRing) \in Nat /\ Len(inRing) <= capacity
      /\ delivered \in Seq(Nat) /\ Len(delivered) \in Nat
      /\ n \in Nat /\ n % Channels = 0
  BY CapturingAssumption DEF Capturing!CaptureAssumption, CaptureInv, CaptureRingHolds
<1>2. m \in Nat /\ m <= n /\ m <= Len(inRing) /\ (m = n \/ m = Len(inRing))  BY <1>1, LesserOfTwo
<1>3. /\ kind = "ring" /\ delivered' = delivered \o SubSeq(inRing, 1, m)
      /\ inRing' = SubSeq(inRing, m + 1, Len(inRing))
      /\ raced' = (raced \/ (m > 0 /\ left % Channels # 0))
      /\ UNCHANGED <<kind, capacity, queue, taken, left>>
  BY DEF Capturing!Read
<1> HIDE DEF m
<1>4. /\ inRing' \in Seq(Nat) /\ Len(inRing') = Len(inRing) - m
      /\ \A i \in 1 .. Len(inRing') : inRing'[i] = inRing[m + i]
  BY <1>1, <1>2, <1>3, SMTT(30)
<1>5. /\ delivered' \in Seq(Nat) /\ Len(delivered') = Len(delivered) + m
      /\ \A i \in 1 .. Len(delivered) : delivered'[i] = delivered[i]
      /\ \A i \in Len(delivered) + 1 .. Len(delivered) + m : delivered'[i] = inRing[i - Len(delivered)]
  <2>1. /\ SubSeq(inRing, 1, m) \in Seq(Nat) /\ Len(SubSeq(inRing, 1, m)) = m
        /\ \A i \in 1 .. m : SubSeq(inRing, 1, m)[i] = inRing[i]
    BY <1>1, <1>2, SMTT(30)
  <2> QED  BY <1>1, <1>2, <1>3, <2>1
<1>6. ASSUME ~raced', capacity % Channels = 0
      PROVE  /\ Len(delivered') % Channels = 0
             /\ Len(inRing') < capacity => Len(inRing') % Channels = taken % Channels
             /\ \A i \in 1 .. Len(inRing') : inRing'[i] % Channels = (i - 1) % Channels
             /\ \A i \in 1 .. Len(delivered') : delivered'[i] % Channels = (i - 1) % Channels
  <2>1. ~raced /\ (m > 0 => left % Channels = 0)  BY <1>3, <1>6
  <2>2. /\ Len(delivered) % Channels = 0
        /\ Len(inRing) < capacity => Len(inRing) % Channels = taken % Channels
        /\ \A i \in 1 .. Len(inRing) : inRing[i] % Channels = (i - 1) % Channels
        /\ \A i \in 1 .. Len(delivered) : delivered[i] % Channels = (i - 1) % Channels
        /\ (taken + left) % Channels = 0
    BY <1>3, <1>6, <2>1 DEF CaptureInv, CaptureRingHolds
  <2>3. CASE m = 0
    <3>1. /\ Len(inRing') = Len(inRing) /\ \A i \in 1 .. Len(inRing) : inRing'[i] = inRing[i]
          /\ Len(delivered') = Len(delivered)
          /\ \A i \in 1 .. Len(delivered) : delivered'[i] = delivered[i]
      BY <1>1, <1>4, <1>5, <2>3
    <3> QED  BY <2>2, <3>1
  <2>4. CASE m > 0
    <3>1. left % Channels = 0 /\ taken % Channels = 0
      <4>1. left % Channels = 0 /\ taken \in Int /\ left \in Int /\ Channels \in Nat \ {0}
        BY <1>1, <2>1, <2>4
      <4> QED  BY <2>2, <4>1, NoRemainder
    <3>2. Len(inRing) % Channels = 0
      <4>1. CASE Len(inRing) < capacity  BY <2>2, <3>1, <4>1
      <4>2. CASE Len(inRing) = capacity  BY <1>6, <4>2
      <4> QED  BY <1>1, <4>1, <4>2
    <3>3. m % Channels = 0  BY <1>1, <1>2, <3>2
    <3>4. m \in Int /\ Len(inRing) \in Int /\ Len(delivered) \in Int /\ Channels \in Nat \ {0}
      BY <1>1, <1>2
    <3>5. Len(inRing') % Channels = 0
      <4>1. (Len(inRing) - m) % Channels = 0  BY <3>2, <3>3, <3>4, NoRemainder
      <4> QED  BY <1>4, <4>1
    <3>6. Len(delivered') % Channels = 0
      <4>1. (Len(delivered) + m) % Channels = 0  BY <2>2, <3>3, <3>4, NoRemainder
      <4> QED  BY <1>5, <4>1
    <3>7. ASSUME NEW i \in 1 .. Len(inRing') PROVE inRing'[i] % Channels = (i - 1) % Channels
      <4>1. m + i \in 1 .. Len(inRing) /\ inRing'[i] = inRing[m + i]  BY <1>1, <1>2, <1>4
      <4>2. inRing[m + i] % Channels = ((m + i) - 1) % Channels  BY <2>2, <4>1
      <4>3. i - 1 \in Int /\ (i - 1) + m = (m + i) - 1  BY <3>4
      <4>4. ((i - 1) + m) % Channels = (i - 1) % Channels  BY <3>3, <3>4, <4>3, NoRemainder
      <4> QED  BY <4>1, <4>2, <4>3, <4>4
    <3>8. ASSUME NEW i \in 1 .. Len(delivered') PROVE delivered'[i] % Channels = (i - 1) % Channels
      <4>1. CASE i \in 1 .. Len(delivered)  BY <1>5, <2>2, <4>1
      <4>2. CASE i \in Len(delivered) + 1 .. Len(delivered) + m
        <5> DEFINE d == Len(delivered)
                   k == i - d
        <5>1. k \in 1 .. Len(inRing) /\ delivered'[i] = inRing[k]  BY <1>1, <1>2, <1>5, <4>2, SMTT(30)
        <5>2. inRing[k] % Channels = (k - 1) % Channels  BY <2>2, <5>1
        <5>3. k - 1 \in Int /\ d \in Int /\ (k - 1) + d = i - 1  BY <3>4, <5>1
        <5>4. ((k - 1) + d) % Channels = (k - 1) % Channels  BY <2>2, <3>4, <5>3, NoRemainder
        <5> QED  BY <5>1, <5>2, <5>3, <5>4
      <4> QED  BY <1>1, <1>2, <1>5, <4>1, <4>2
    <3> QED  BY <3>1, <3>5, <3>6, <3>7, <3>8
  <2> QED  BY <1>2, <2>3, <2>4
<1>7. Len(inRing') <= capacity  BY <1>1, <1>2, <1>4
<1>8. (taken' + left') % Channels = 0  BY <1>3 DEF CaptureInv, CaptureRingHolds
<1>9. CaptureRingHolds'
  <2>1. (~raced' /\ capacity % Channels = 0) =>
         (/\ Len(delivered') % Channels = 0
          /\ Len(inRing') < capacity => Len(inRing') % Channels = taken % Channels
          /\ \A i \in 1 .. Len(inRing') : inRing'[i] % Channels = (i - 1) % Channels
          /\ \A i \in 1 .. Len(delivered') : delivered'[i] % Channels = (i - 1) % Channels)
    BY <1>6
  <2> QED  BY <1>1, <1>3, <1>4, <1>5, <1>7, <1>8, <2>1 DEF CaptureRingHolds
<1> QED  BY <1>3, <1>9, CaptureRing

\* A buffer is sent whole, behind the others.
LEMMA CaptureSend ==
    ASSUME NEW n \in Nat, CaptureInv, Capturing!SendBuffer(n) PROVE CaptureInv'
<1>1. /\ taken \in Nat /\ queue \in Seq(Seq(Nat)) /\ Len(queue) \in Nat
  BY DEF CaptureInv, CaptureRingHolds, CaptureChannelHolds
<1> DEFINE b == Capturing!Captured(n)
<1>2. /\ kind = "channel" /\ queue' = Append(queue, b) /\ taken' = taken + n
      /\ UNCHANGED <<kind, capacity, inRing, left, delivered, raced>>
  BY DEF Capturing!SendBuffer
<1>3. b \in Seq(Nat) /\ Len(b) = n /\ \A i \in 1 .. n : b[i] = taken + i - 1
  <2>1. b = [i \in 1 .. n |-> taken + i - 1]  BY DEF Capturing!Captured
  <2>2. \A i \in 1 .. n : taken + i - 1 \in Nat  BY <1>1
  <2> QED  BY <2>1, <2>2
<1> HIDE DEF b
<1>4. /\ queue' \in Seq(Seq(Nat)) /\ Len(queue') = Len(queue) + 1 /\ queue'[Len(queue) + 1] = b
      /\ \A k \in 1 .. Len(queue) : queue'[k] = queue[k]
  BY <1>1, <1>2, <1>3
<1>5. PICK from : Queued(from)  BY <1>2 DEF CaptureInv, CaptureChannelHolds
<1>5a. PICK next1 : next1 = [k \in 1 .. Len(queue) + 2 |-> IF k = Len(queue) + 2 THEN taken + n ELSE from[k]]
  OBVIOUS
<1>6. /\ next1 \in [1 .. Len(queue) + 2 -> Nat] /\ next1[Len(queue) + 2] = taken + n
      /\ \A k \in 1 .. Len(queue) + 1 : next1[k] = from[k]
  <2>1. \A k \in 1 .. Len(queue) + 1 : from[k] \in Nat  BY <1>5 DEF Queued
  <2>2. taken + n \in Nat  BY <1>1
  <2> QED  BY <1>1, <1>5a, <2>1, <2>2
<1>7. Queued(next1)'
  <2>1. /\ from[1] = Len(delivered) /\ from[Len(queue) + 1] = taken
        /\ \A k \in 1 .. Len(queue) :
              /\ from[k + 1] = from[k] + Len(queue[k])
              /\ \A i \in 1 .. Len(queue[k]) : queue[k][i] = from[k] + i - 1
    BY <1>5 DEF Queued
  <2>2. next1[1] = Len(delivered) /\ next1[Len(queue') + 1] = taken'
    BY <1>1, <1>2, <1>4, <1>6, <2>1
  <2>3. ASSUME NEW k \in 1 .. Len(queue')
        PROVE  /\ next1[k + 1] = next1[k] + Len(queue'[k])
               /\ \A i \in 1 .. Len(queue'[k]) : queue'[k][i] = next1[k] + i - 1
    <3>1. CASE k \in 1 .. Len(queue)
      <4>1. k + 1 \in 1 .. Len(queue) + 1 /\ k \in 1 .. Len(queue) + 1  BY <1>1, <3>1
      <4>2. next1[k + 1] = from[k + 1] /\ next1[k] = from[k] /\ queue'[k] = queue[k]
        BY <1>4, <1>6, <3>1, <4>1
      <4> QED  BY <2>1, <3>1, <4>2
    <3>2. CASE k = Len(queue) + 1
      <4>1. next1[k] = taken /\ next1[k + 1] = taken + n /\ queue'[k] = b
        <5>1. k \in 1 .. Len(queue) + 1 /\ k + 1 = Len(queue) + 2  BY <1>1, <3>2
        <5> QED  BY <1>4, <1>6, <2>1, <3>2, <5>1
      <4> QED  BY <1>3, <4>1
    <3> QED  BY <1>1, <1>4, <3>1, <3>2
  <2>4. next1 \in [1 .. Len(queue') + 1 -> Nat]
    <3>1. Len(queue') + 1 = Len(queue) + 2  BY <1>1, <1>4
    <3> QED  BY <1>6, <3>1
  <2>5. Len(delivered') = Len(delivered)  BY <1>2
  <2> QED  BY <2>2, <2>3, <2>4, <2>5 DEF Queued
<1>8. CaptureChannelHolds'  BY <1>2, <1>4, <1>7 DEF CaptureInv, CaptureChannelHolds
<1>9. CaptureRingHolds'
  <2>1. taken' \in Nat /\ kind' # "ring"  BY <1>1, <1>2
  <2> QED  BY <1>2, <2>1 DEF CaptureInv, CaptureRingHolds
<1> QED  BY <1>8, <1>9 DEF CaptureInv

\* A poll gives the oldest buffer.
LEMMA CapturePoll == ASSUME CaptureInv, Capturing!PollNext PROVE CaptureInv'
<1>1. /\ delivered \in Seq(Nat) /\ Len(delivered) \in Nat /\ queue \in Seq(Seq(Nat))
  BY DEF CaptureInv, CaptureRingHolds, CaptureChannelHolds
<1>2. /\ kind = "channel" /\ queue # <<>> /\ delivered' = delivered \o Head(queue) /\ queue' = Tail(queue)
      /\ UNCHANGED <<kind, capacity, inRing, taken, left, raced>>
  BY DEF Capturing!PollNext
<1>3. /\ Len(queue) \in Nat \ {0} /\ Head(queue) = queue[1] /\ queue[1] \in Seq(Nat)
      /\ queue' \in Seq(Seq(Nat)) /\ Len(queue') = Len(queue) - 1
      /\ \A k \in 1 .. Len(queue') : queue'[k] = queue[k + 1]
  BY <1>1, <1>2
<1> DEFINE b == queue[1]
<1>4. /\ delivered' \in Seq(Nat) /\ Len(b) \in Nat /\ Len(delivered') = Len(delivered) + Len(b)
      /\ \A i \in 1 .. Len(delivered) : delivered'[i] = delivered[i]
      /\ \A i \in Len(delivered) + 1 .. Len(delivered) + Len(b) : delivered'[i] = b[i - Len(delivered)]
  <2>1. b \in Seq(Nat) /\ delivered' = delivered \o b  BY <1>2, <1>3
  <2> HIDE DEF b
  <2> QED  BY <1>1, <2>1
<1>5. PICK from : Queued(from)  BY <1>2 DEF CaptureInv, CaptureChannelHolds
<1>6. /\ from \in [1 .. Len(queue) + 1 -> Nat]
      /\ from[1] = Len(delivered) /\ from[Len(queue) + 1] = taken
      /\ \A k \in 1 .. Len(queue) :
            /\ from[k + 1] = from[k] + Len(queue[k])
            /\ \A i \in 1 .. Len(queue[k]) : queue[k][i] = from[k] + i - 1
  BY <1>5 DEF Queued
<1>6a. PICK rest : rest = [k \in 1 .. Len(queue) |-> from[k + 1]]  OBVIOUS
<1>7. Queued(rest)'
  <2>1. rest \in [1 .. Len(queue') + 1 -> Nat]
    <3>1. ASSUME NEW k \in 1 .. Len(queue) PROVE from[k + 1] \in Nat
      <4>1. k + 1 \in 1 .. Len(queue) + 1  BY <1>3
      <4> QED  BY <1>6, <4>1
    <3>2. Len(queue') + 1 = Len(queue)  BY <1>3
    <3> QED  BY <1>6a, <3>1, <3>2
  <2>2. rest[1] = Len(delivered')
    <3>1. 1 \in 1 .. Len(queue)  BY <1>3
    <3>2. from[1 + 1] = from[1] + Len(queue[1]) /\ rest[1] = from[1 + 1]  BY <1>6, <1>6a, <3>1
    <3> QED  BY <1>4, <1>6, <3>2
  <2>3. rest[Len(queue') + 1] = taken'
    <3>1. Len(queue') + 1 = Len(queue) /\ Len(queue) \in 1 .. Len(queue)  BY <1>3
    <3>2. rest[Len(queue)] = from[Len(queue) + 1]  BY <1>6a, <3>1
    <3> QED  BY <1>2, <1>6, <3>1, <3>2
  <2>4. ASSUME NEW k \in 1 .. Len(queue')
        PROVE  /\ rest[k + 1] = rest[k] + Len(queue'[k])
               /\ \A i \in 1 .. Len(queue'[k]) : queue'[k][i] = rest[k] + i - 1
    <3>1. k \in 1 .. Len(queue) /\ k + 1 \in 1 .. Len(queue) /\ queue'[k] = queue[k + 1]  BY <1>3
    <3>2. rest[k] = from[k + 1] /\ rest[k + 1] = from[(k + 1) + 1]  BY <1>6a, <3>1
    <3>3. /\ from[(k + 1) + 1] = from[k + 1] + Len(queue[k + 1])
          /\ \A i \in 1 .. Len(queue[k + 1]) : queue[k + 1][i] = from[k + 1] + i - 1
      BY <1>6, <3>1
    <3> QED  BY <3>1, <3>2, <3>3
  <2> QED  BY <2>1, <2>2, <2>3, <2>4 DEF Queued
<1>8. ASSUME NEW i \in 1 .. Len(delivered') PROVE delivered'[i] = i - 1
  <2>1. CASE i \in 1 .. Len(delivered)
    BY <1>2, <1>4, <2>1 DEF CaptureInv, CaptureChannelHolds
  <2>2. CASE i \in Len(delivered) + 1 .. Len(delivered) + Len(b)
    <3>1. i - Len(delivered) \in 1 .. Len(b) /\ delivered'[i] = b[i - Len(delivered)]
      BY <1>1, <1>4, <2>2, SMTT(30)
    <3>2. 1 \in 1 .. Len(queue)  BY <1>3
    <3>3. b[i - Len(delivered)] = Len(delivered) + (i - Len(delivered)) - 1  BY <1>6, <3>1, <3>2
    <3> QED  BY <1>1, <3>1, <3>3
  <2> QED  BY <1>1, <1>4, <2>1, <2>2
<1>9. CaptureChannelHolds'  BY <1>2, <1>3, <1>7, <1>8 DEF CaptureInv, CaptureChannelHolds
<1>10. CaptureRingHolds'
  <2>1. kind' # "ring"  BY <1>2
  <2> QED  BY <1>2, <1>4, <2>1 DEF CaptureInv, CaptureRingHolds
<1> QED  BY <1>9, <1>10 DEF CaptureInv

LEMMA CaptureStep == CaptureInv /\ [Capturing!Next]_(Capturing!vars) => CaptureInv'
<1> SUFFICES ASSUME CaptureInv, [Capturing!Next]_(Capturing!vars) PROVE CaptureInv'  OBVIOUS
<1>1. ASSUME NEW n \in CallbackFrames, Capturing!StartCallback(n * Channels) PROVE CaptureInv'
  <2>1. /\ kind = "ring" /\ left = 0 /\ left' = n * Channels
        /\ UNCHANGED <<kind, capacity, inRing, queue, taken, delivered, raced>>
    BY <1>1 DEF Capturing!StartCallback
  <2>2. n \in Nat /\ Channels \in Nat \ {0} /\ taken \in Nat
    BY CapturingAssumption DEF Capturing!CaptureAssumption, CaptureInv, CaptureRingHolds
  <2>3. left' \in Nat /\ left' % Channels = 0  BY <2>1, <2>2, ProductMod, ProductNat
  <2>4. (taken' + left') % Channels = 0
    <3>1. taken + left = taken /\ (taken + left) % Channels = 0  BY <2>1, <2>2 DEF CaptureInv, CaptureRingHolds
    <3>2. taken \in Int /\ left' \in Int  BY <2>2, <2>3
    <3>3. (taken + left') % Channels = taken % Channels  BY <2>2, <2>3, <3>2, NoRemainder
    <3> QED  BY <2>1, <3>1, <3>3
  <2>5. CaptureRingHolds'  BY <2>1, <2>3, <2>4 DEF CaptureInv, CaptureRingHolds
  <2> QED  BY <2>1, <2>5, CaptureRing
<1>2. ASSUME NEW n \in CallbackFrames, Capturing!SendBuffer(n * Channels) PROVE CaptureInv'
  <2>1. n * Channels \in Nat
    BY CapturingAssumption, ProductNat DEF Capturing!CaptureAssumption
  <2> QED  BY <1>2, <2>1, CaptureSend
<1>3. CASE Capturing!PushSample
  <2>1. CASE kind = "ring"  BY <1>3, <2>1, CapturePush
  <2>2. CASE kind # "ring"
    BY <1>3, <2>2 DEF Capturing!PushSample, CaptureInv, CaptureRingHolds, CaptureChannelHolds
  <2> QED  BY <2>1, <2>2
<1>4. CASE UNCHANGED <<kind, capacity, inRing, queue, taken, left, delivered, raced>>
  BY <1>4, ZenonT(60) DEF CaptureInv, CaptureRingHolds, CaptureChannelHolds, Queued
<1>5. CASE Capturing!ReportLost  BY <1>4, <1>5 DEF Capturing!ReportLost
<1>6. CASE UNCHANGED (Capturing!vars)  BY <1>4, <1>6 DEF Capturing!vars
<1> QED  BY <1>1, <1>2, <1>3, <1>5, <1>6, CaptureRead, CapturePoll DEF Capturing!Next

\* A sample captured is delivered in its order and its channel (CapturedInPlace).
THEOREM CaptureIsInPlace == PartsSpec => []CapturedInPlace
<1>1. CaptureInv => Capturing!CapturedInPlace
  <2> SUFFICES ASSUME CaptureInv PROVE Capturing!CapturedInPlace  OBVIOUS
  <2>1. delivered \in Seq(Nat) /\ Len(delivered) \in Nat /\ DOMAIN delivered = 1 .. Len(delivered)
    BY DEF CaptureInv, CaptureRingHolds
  <2>2. kind = "channel" => delivered = [i \in 1 .. Len(delivered) |-> i - 1]
    BY <2>1 DEF CaptureInv, CaptureChannelHolds
  <2>3. kind = "channel" => Capturing!InPlace
    BY <2>1 DEF CaptureInv, CaptureChannelHolds, Capturing!InPlace
  <2>4. kind = "ring" /\ ~raced /\ capacity % Channels = 0 => Capturing!InPlace
    BY <2>1 DEF CaptureInv, CaptureRingHolds, Capturing!InPlace
  <2>5. kind = "ring" \/ kind = "channel"  BY DEF CaptureInv, CaptureChannelHolds
  <2> QED  BY <2>2, <2>3, <2>4, <2>5 DEF Capturing!CapturedInPlace
<1>2. Capturing!Spec => []Capturing!CapturedInPlace
  BY <1>1, CaptureInit, CaptureStep, PTL DEF Capturing!Spec
<1> QED  BY <1>2, PartsAreComponents, PulseSamplesStayInPlace, PTL DEF CapturedInPlace

-----------------------------------------------------------------------------
(* CpalRender: the adaptive buffer size.  The sizer has counted no more    *)
(* stable periods than there were quiet ticks, and keeps within its        *)
(* bounds.                                                                 *)

LEMMA GreaterOfTwo ==
    ASSUME NEW a \in Nat, NEW b \in Nat, NEW m, m = Output!Max({a, b})
    PROVE  m \in Nat /\ m >= a /\ m >= b /\ (m = a \/ m = b)
<1>1. \E x \in {a, b} : \A y \in {a, b} : x >= y
  <2>1. CASE a <= b  BY <2>1
  <2>2. CASE b <= a  BY <2>2
  <2> QED  BY <2>1, <2>2
<1>2. m \in {a, b} /\ \A y \in {a, b} : m >= y  BY <1>1 DEF Output!Max
<1> QED  BY <1>2

LEMMA GreatestOfThree ==
    ASSUME NEW a \in Nat, NEW b \in Nat, NEW c \in Nat, NEW m, m = Output!Max({a, b, c})
    PROVE  m \in Nat /\ m >= a /\ m >= b /\ m >= c /\ (m = a \/ m = b \/ m = c)
<1>1. \E x \in {a, b, c} : \A y \in {a, b, c} : x >= y
  <2>1. CASE a >= b /\ a >= c  BY <2>1
  <2>2. CASE b >= a /\ b >= c  BY <2>2
  <2>3. CASE c >= a /\ c >= b  BY <2>3
  <2> QED  BY <2>1, <2>2, <2>3
<1>2. m \in {a, b, c} /\ \A y \in {a, b, c} : m >= y  BY <1>1 DEF Output!Max
<1> QED  BY <1>2

LEMMA OutputLesserOfTwo ==
    ASSUME NEW a \in Nat, NEW b \in Nat, NEW m, m = Output!Min({a, b})
    PROVE  m \in Nat /\ m <= a /\ m <= b /\ (m = a \/ m = b)
<1>1. \E x \in {a, b} : \A y \in {a, b} : x <= y
  <2>1. CASE a <= b  BY <2>1
  <2>2. CASE b <= a  BY <2>2
  <2> QED  BY <2>1, <2>2
<1>2. m \in {a, b} /\ \A y \in {a, b} : m <= y  BY <1>1 DEF Output!Min
<1> QED  BY <1>2

Sizers == [initial : Nat, min : Nat, max : Nat, size : Nat, stable : Nat]

SizerInv ==
    /\ underruns \in Nat /\ ticked \in Nat /\ quiet \in Nat
    /\ sizer \in Sizers /\ Output!Bounds(sizer)
    /\ sizer.stable <= quiet

\* A sizer starts within its bounds, whatever size is asked for.
LEMMA NewSizerHolds ==
    ASSUME NEW initial \in Nat, NEW low \in Nat, NEW high \in Nat,
           NEW s, s = Output!NewSizer(initial, low, high)
    PROVE  s \in Sizers /\ Output!Bounds(s) /\ s.stable = 0
<1> DEFINE min   == Output!Max({low, 1})
           max   == Output!Max({high, min})
           least == Output!Min({initial, max})
           first == Output!Max({min, least})
<1>1. min \in Nat  BY GreaterOfTwo
<1> HIDE DEF min
<1>2. max \in Nat /\ min <= max  BY <1>1, GreaterOfTwo
<1> HIDE DEF max
<1>3. least \in Nat /\ least <= max  BY <1>2, OutputLesserOfTwo
<1> HIDE DEF least
<1>4. first \in Nat /\ min <= first /\ first <= max
  <2>1. first \in Nat /\ first >= min /\ (first = min \/ first = least)  BY <1>1, <1>3, GreaterOfTwo
  <2> QED  BY <1>1, <1>2, <1>3, <2>1
<1>5. s = [initial |-> first, min |-> min, max |-> max, size |-> first, stable |-> 0]
  BY DEF Output!NewSizer, Output!Clamp, min, max, least
<1> HIDE DEF first
<1> QED  BY <1>1, <1>2, <1>4, <1>5 DEF Sizers, Output!Bounds

LEMMA SizerInit == Output!Init => SizerInv
<1> SUFFICES ASSUME Output!Init PROVE SizerInv  OBVIOUS
<1>1. PICK size \in Requests : sizer = Output!NewSizer(size, MinSize, MaxSize)  BY DEF Output!Init
<1>2. size \in Nat /\ MinSize \in Nat /\ MaxSize \in Nat
  BY OutputAssumption DEF Output!RenderAssumption
<1>3. sizer \in Sizers /\ Output!Bounds(sizer) /\ sizer.stable = 0  BY <1>1, <1>2, NewSizerHolds
<1>4. underruns = 0 /\ ticked = 0 /\ quiet = 0  BY DEF Output!Init
<1> QED  BY <1>3, <1>4 DEF SizerInv

\* record_underrun() doubles the size within its bound.
LEMMA GrownHolds ==
    ASSUME NEW s \in Sizers, Output!Bounds(s), NEW t, t = Output!Grown(s)
    PROVE  t \in Sizers /\ Output!Bounds(t) /\ t.stable = 0 /\ t.size >= s.size
<1> DEFINE size == Output!Min({2 * s.size, s.max})
<1>1. s.size \in Nat /\ s.max \in Nat /\ s.size <= s.max  BY DEF Sizers, Output!Bounds
<1>2. 2 * s.size \in Nat  BY <1>1
<1>3. size \in Nat /\ size <= s.max /\ (size = 2 * s.size \/ size = s.max)
  BY <1>1, <1>2, OutputLesserOfTwo
<1>4. t = [s EXCEPT !.stable = 0, !.size = size]  BY DEF Output!Grown
<1> HIDE DEF size
<1>5. size >= s.size  BY <1>1, <1>2, <1>3
<1>6. t \in Sizers /\ t.stable = 0 /\ t.size = size /\ t.min = s.min /\ t.max = s.max /\ t.initial = s.initial
  <2>1. size \in Nat /\ s.initial \in Nat /\ s.min \in Nat /\ s.max \in Nat  BY <1>3 DEF Sizers
  <2>2. t = [initial |-> s.initial, min |-> s.min, max |-> s.max, size |-> size, stable |-> 0]
    BY <1>4 DEF Sizers
  <2> QED  BY <2>1, <2>2 DEF Sizers
<1>7. s.min \in Nat /\ s.initial \in Nat  BY DEF Sizers
<1> QED  BY <1>1, <1>3, <1>5, <1>6, <1>7 DEF Output!Bounds

\* record_stable_period() counts, or halves the size within its bounds and counts anew.
LEMMA SettledHolds ==
    ASSUME NEW s \in Sizers, Output!Bounds(s), NEW t, t = Output!Settled(s)
    PROVE  /\ t \in Sizers /\ Output!Bounds(t)
           /\ t.stable = 0 \/ (t.stable = s.stable + 1 /\ s.stable + 1 < Threshold /\ t.size = s.size)
           /\ t.size < s.size => s.stable + 1 >= Threshold
<1> DEFINE size == Output!Max({s.size \div 2, s.min, s.initial})
<1>1. s.size \in Nat /\ s.min \in Nat /\ s.initial \in Nat /\ s.stable \in Nat /\ s.max \in Nat
      /\ s.min <= s.size /\ s.initial <= s.size /\ s.size <= s.max /\ Threshold \in Nat
  BY OutputAssumption DEF Sizers, Output!Bounds, Output!RenderAssumption
<1>2. s.size \div 2 \in Nat /\ s.size \div 2 <= s.size  BY <1>1
<1>3. size \in Nat /\ size >= s.min /\ size >= s.initial
      /\ (size = s.size \div 2 \/ size = s.min \/ size = s.initial)
  BY <1>1, <1>2, GreatestOfThree
<1>4. t = IF s.size <= s.initial THEN [s EXCEPT !.stable = 0]
          ELSE IF s.stable + 1 < Threshold THEN [s EXCEPT !.stable = s.stable + 1]
          ELSE [s EXCEPT !.stable = 0, !.size = size]
  BY DEF Output!Settled
<1> HIDE DEF size
<1>5. size <= s.size  BY <1>1, <1>2, <1>3
<1>6. CASE s.size <= s.initial
  <2>1. t \in Sizers /\ t.stable = 0 /\ t.size = s.size /\ t.min = s.min /\ t.max = s.max /\ t.initial = s.initial
    BY <1>4, <1>6 DEF Sizers
  <2> QED  BY <1>1, <2>1 DEF Output!Bounds
<1>7. CASE ~(s.size <= s.initial) /\ s.stable + 1 < Threshold
  <2>1. /\ t \in Sizers /\ t.stable = s.stable + 1 /\ t.size = s.size
        /\ t.min = s.min /\ t.max = s.max /\ t.initial = s.initial
    BY <1>1, <1>4, <1>7 DEF Sizers
  <2> QED  BY <1>1, <1>7, <2>1 DEF Output!Bounds
<1>8. CASE ~(s.size <= s.initial) /\ ~(s.stable + 1 < Threshold)
  <2>1. t \in Sizers /\ t.stable = 0 /\ t.size = size /\ t.min = s.min /\ t.max = s.max /\ t.initial = s.initial
    <3>1. t = [s EXCEPT !.stable = 0, !.size = size]  BY <1>4, <1>8
    <3>2. t = [initial |-> s.initial, min |-> s.min, max |-> s.max, size |-> size, stable |-> 0]
      BY <3>1 DEF Sizers
    <3> QED  BY <1>1, <1>3, <3>2 DEF Sizers
  <2>2. s.stable + 1 >= Threshold  BY <1>1, <1>8
  <2> QED  BY <1>1, <1>3, <1>5, <2>1, <2>2 DEF Output!Bounds
<1> QED  BY <1>6, <1>7, <1>8

\* A tick keeps the sizer, and a smaller size is Threshold quiet ticks away.
LEMMA TickHolds ==
    ASSUME SizerInv, Output!TickAdaptive
    PROVE  /\ SizerInv' /\ Output!Bounds(sizer')
           /\ sizer'.size < sizer.size => quiet + 1 >= Threshold
<1>1. /\ underruns \in Nat /\ ticked \in Nat /\ quiet \in Nat /\ sizer \in Sizers /\ Output!Bounds(sizer)
      /\ sizer.stable <= quiet /\ MaxTicks \in Nat /\ Threshold <= MaxTicks + 1 /\ Threshold \in Nat
      /\ sizer.stable \in Nat /\ sizer.size \in Nat
  BY OutputAssumption DEF SizerInv, Output!RenderAssumption, Sizers
<1>2. /\ ticked' = underruns /\ underruns' = underruns
      /\ sizer' = IF underruns > ticked THEN Output!Grown(sizer) ELSE Output!Settled(sizer)
      /\ quiet' = IF underruns > ticked \/ sizer'.size < sizer.size THEN 0
                  ELSE Output!Min({quiet + 1, MaxTicks})
  BY DEF Output!TickAdaptive, Output!dataVars
<1>3. quiet' \in Nat /\ (quiet' = 0 \/ quiet' = quiet + 1 \/ quiet' = MaxTicks)
  <2>1. quiet + 1 \in Nat  BY <1>1
  <2> QED  BY <1>1, <1>2, <2>1, OutputLesserOfTwo
<1>4. CASE underruns > ticked
  <2>1. sizer' \in Sizers /\ Output!Bounds(sizer') /\ sizer'.stable = 0 /\ sizer'.size >= sizer.size
    BY <1>1, <1>2, <1>4, GrownHolds
  <2>2. sizer'.size \in Nat /\ ~(sizer'.size < sizer.size)  BY <1>1, <2>1 DEF Sizers
  <2>3. Output!Bounds(sizer)'  BY <2>1 DEF Output!Bounds
  <2> QED  BY <1>1, <1>2, <1>3, <2>1, <2>2, <2>3 DEF SizerInv
<1>5. CASE ~(underruns > ticked)
  <2>1. /\ sizer' \in Sizers /\ Output!Bounds(sizer')
        /\ sizer'.stable = 0 \/ (/\ sizer'.stable = sizer.stable + 1 /\ sizer.stable + 1 < Threshold
                                 /\ sizer'.size = sizer.size)
        /\ sizer'.size < sizer.size => sizer.stable + 1 >= Threshold
    BY <1>1, <1>2, <1>5, SettledHolds
  <2>2. sizer'.stable <= quiet'
    <3>1. CASE sizer'.stable = 0  BY <1>3, <3>1
    <3>2. CASE sizer'.stable = sizer.stable + 1 /\ sizer.stable + 1 < Threshold /\ sizer'.size = sizer.size
      <4>1. ~(sizer'.size < sizer.size)  BY <1>1, <3>2
      <4>2. quiet' = Output!Min({quiet + 1, MaxTicks})  BY <1>2, <1>5, <4>1
      <4>3. quiet + 1 \in Nat  BY <1>1
      <4>4. quiet' = quiet + 1 \/ quiet' = MaxTicks  BY <1>1, <4>2, <4>3, OutputLesserOfTwo
      <4> QED  BY <1>1, <3>2, <4>4
    <3> QED  BY <2>1, <3>1, <3>2
  <2>3. sizer'.size < sizer.size => quiet + 1 >= Threshold  BY <1>1, <2>1
  <2>4. Output!Bounds(sizer)'  BY <2>1 DEF Output!Bounds
  <2> QED  BY <1>1, <1>2, <1>3, <2>1, <2>2, <2>3, <2>4 DEF SizerInv
<1> QED  BY <1>4, <1>5

LEMMA SizerStep == SizerInv /\ [Output!Next]_(Output!vars) => SizerInv'
<1> SUFFICES ASSUME SizerInv, [Output!Next]_(Output!vars) PROVE SizerInv'  OBVIOUS
<1>1. ASSUME UNCHANGED (Output!sizerVars), underruns' \in Nat PROVE SizerInv'
  BY <1>1 DEF SizerInv, Output!sizerVars, Output!Bounds
<1>2. underruns \in Nat  BY DEF SizerInv
<1>3. ASSUME NEW n \in WriteFrames, Output!Write(n * Channels) PROVE SizerInv'
  BY <1>1, <1>2, <1>3 DEF Output!Write
<1>4. ASSUME NEW n \in CallbackFrames, Output!StartCallback(n) PROVE SizerInv'
  BY <1>1, <1>2, <1>4 DEF Output!StartCallback
<1>5. CASE Output!FillSample
  <2>1. underruns' \in Nat  BY <1>2, <1>5 DEF Output!FillSample
  <2> QED  BY <1>1, <1>5, <2>1 DEF Output!FillSample
<1>6. CASE Output!EndCallback  BY <1>1, <1>2, <1>6 DEF Output!EndCallback
<1>7. CASE Output!TickAdaptive  BY <1>7, TickHolds
<1>8. CASE UNCHANGED (Output!vars)
  BY <1>1, <1>2, <1>8 DEF Output!vars, Output!dataVars
<1> QED  BY <1>3, <1>4, <1>5, <1>6, <1>7, <1>8 DEF Output!Next

\* The buffer size shrinks only after Threshold ticks without a new underrun, and stays
\* within its bounds (ShrinksWhenQuiet).
THEOREM SizeShrinksWhenQuiet == PartsSpec => ShrinksWhenQuiet
<1>1. SizerInv /\ [Output!Next]_(Output!vars) =>
        [/\ Output!Bounds(sizer')
         /\ sizer'.size < sizer.size => quiet + 1 >= Threshold]_(Output!sizerVars)
  <2> SUFFICES ASSUME SizerInv, [Output!Next]_(Output!vars), ~UNCHANGED (Output!sizerVars)
               PROVE  /\ Output!Bounds(sizer')
                      /\ sizer'.size < sizer.size => quiet + 1 >= Threshold
    OBVIOUS
  <2>1. Output!TickAdaptive
    BY DEF Output!Next, Output!Write, Output!StartCallback, Output!FillSample, Output!EndCallback, Output!vars
  <2> QED  BY <2>1, TickHolds
<1>2. Output!Spec => ShrinksWhenQuiet
  BY <1>1, SizerInit, SizerStep, PTL DEF Output!Spec, ShrinksWhenQuiet, Output!ShrinksWhenQuiet
<1> QED  BY <1>2, PartsAreComponents, PTL

-----------------------------------------------------------------------------
(* CpalRender: samples.  The ring has the latest numbers and whole frames  *)
(* are written, so a frame the ring ends in is padded with silence to its  *)
(* end, and the next begins a frame.                                       *)

\* A routing takes every slot from a channel of the frame.
LEMMA SourceInFrame ==
    ASSUME NEW map \in Seq(Nat \X Nat), NEW slot \in 0 .. Channels - 1,
           NEW src, src = Output!SourceOf(slot, map), Channels \in Nat \ {0}
    PROVE  src \in 0 .. Channels - 1
<1> DEFINE to == {i \in DOMAIN map : map[i][2] = slot /\ map[i][1] < Channels}
<1>1. src = IF to = {} THEN slot ELSE map[Output!Max(to)][1]  BY DEF Output!SourceOf
<1>2. Len(map) \in Nat /\ to \in SUBSET Nat /\ \A x \in to : x <= Len(map)  OBVIOUS
<1>3. \A i \in to : map[i][1] \in 0 .. Channels - 1
  <2> SUFFICES ASSUME NEW i \in to PROVE map[i][1] \in 0 .. Channels - 1  OBVIOUS
  <2>1. map[i] \in Nat \X Nat /\ map[i][1] < Channels  OBVIOUS
  <2>2. map[i][1] \in Nat  BY <2>1
  <2> QED  BY <2>1, <2>2
<1> HIDE DEF to
<1>4. CASE to # {}
  <2>1. \E x \in to : \A y \in to : y <= x  BY <1>2, <1>4, GreatestNumber
  <2>2. \A x, y \in to : y <= x => x >= y  BY <1>2
  <2>3. \E x \in to : \A y \in to : x >= y  BY <2>1, <2>2
  <2>4. Output!Max(to) \in to  BY <2>3 DEF Output!Max
  <2> QED  BY <1>1, <1>3, <1>4, <2>4
<1> QED  BY <1>1, <1>4

RingIsLatest ==
    /\ written \in Nat /\ written % Channels = 0 /\ outRing \in Seq(Nat) /\ Len(outRing) <= written
    /\ \A i \in 1 .. Len(outRing) : outRing[i] = written - Len(outRing) + i - 1

\* The callback has been asked for whole frames, and fills no more.
FillsWhole ==
    /\ want \in Nat /\ want % Channels = 0
    /\ buffer \in Seq(Nat \cup {Silence}) /\ Len(buffer) <= want

\* What the callback has filled is in its channel, and what it pops next will be; a frame
\* the ring ended in is being filled with silence.
FillsInPlace ==
    ~torn =>
        (/\ \A i \in 1 .. Len(buffer) : buffer[i] # Silence => buffer[i] % Channels = (i - 1) % Channels
         /\ Len(outRing) > 0 => (written - Len(outRing)) % Channels = Len(buffer) % Channels
         /\ (Len(outRing) = 0 /\ Len(buffer) % Channels # 0) => buffer[Len(buffer)] = Silence)

RenderInv ==
    /\ RingIsLatest /\ FillsWhole /\ FillsInPlace /\ routing \in Seq(Nat \X Nat)
    /\ Output!RenderedInPlace

LEMMA RenderTypes ==
    ASSUME RenderInv
    PROVE  /\ Channels \in Nat \ {0} /\ Silence \notin Nat /\ written \in Nat /\ want \in Nat
           /\ outRing \in Seq(Nat) /\ Len(outRing) \in Nat /\ Len(outRing) <= written
           /\ buffer \in Seq(Nat \cup {Silence}) /\ Len(buffer) \in Nat
  BY OutputAssumption DEF Output!RenderAssumption, RenderInv, RingIsLatest, FillsWhole

LEMMA RenderInit == Output!Init => RenderInv
<1> SUFFICES ASSUME Output!Init PROVE RenderInv  OBVIOUS
<1>1. /\ routing \in Routings /\ outRing = <<>> /\ written = 0 /\ want = 0 /\ buffer = <<>> /\ played = <<>>
      /\ Routings \subseteq Seq(Nat \X Nat) /\ Channels \in Nat \ {0}
  BY OutputAssumption DEF Output!Init, Output!RenderAssumption
<1>2. 0 % Channels = 0  BY <1>1, SmallMod
<1>3. Len(outRing) = 0 /\ Len(buffer) = 0 /\ DOMAIN played = {}  BY <1>1
<1>4. RingIsLatest  BY <1>1, <1>2, <1>3 DEF RingIsLatest
<1>5. FillsWhole  BY <1>1, <1>2, <1>3 DEF FillsWhole
<1>6. FillsInPlace  BY <1>1, <1>2, <1>3 DEF FillsInPlace
<1>7. Output!RenderedInPlace  BY <1>3 DEF Output!RenderedInPlace
<1> QED  BY <1>1, <1>4, <1>5, <1>6, <1>7 DEF RenderInv

\* A step that leaves the ring, the callback and torn alone keeps the invariant.
LEMMA RenderStands ==
    ASSUME RenderInv, UNCHANGED <<routing, outRing, written, want, buffer, played, torn>>
    PROVE  RenderInv'
<1>1. RingIsLatest' /\ FillsWhole' /\ FillsInPlace'
  BY DEF RenderInv, RingIsLatest, FillsWhole, FillsInPlace
<1>2. Output!RenderedInPlace'  BY DEF RenderInv, Output!RenderedInPlace, Output!SourceOf
<1> QED  BY <1>1, <1>2 DEF RenderInv

\* write() appends the next numbers, whole frames of them.
LEMMA RenderWrite ==
    ASSUME NEW n \in Nat, n % Channels = 0, RenderInv, Output!Write(n) PROVE RenderInv'
<1>1. /\ outRing' = outRing \o [i \in 1 .. n |-> written + i - 1] /\ written' = written + n
      /\ torn' = (torn \/ Silence \in Output!ToSet(Output!OpenFrame))
      /\ UNCHANGED <<routing, want, buffer, played>>
  BY DEF Output!Write
<1>2. /\ outRing' \in Seq(Nat) /\ Len(outRing') = Len(outRing) + n
      /\ \A i \in 1 .. Len(outRing) : outRing'[i] = outRing[i]
      /\ \A i \in Len(outRing) + 1 .. Len(outRing) + n : outRing'[i] = written + (i - Len(outRing)) - 1
  <2> DEFINE s == [i \in 1 .. n |-> written + i - 1]
  <2>1. \A i \in 1 .. n : written + i - 1 \in Nat  BY RenderTypes
  <2>2. s \in Seq(Nat) /\ Len(s) = n /\ \A i \in 1 .. n : s[i] = written + i - 1  BY <2>1
  <2>3. outRing' = outRing \o s /\ outRing \in Seq(Nat) /\ Len(outRing) \in Nat  BY <1>1, RenderTypes
  <2> HIDE DEF s
  <2>4. /\ outRing' \in Seq(Nat) /\ Len(outRing') = Len(outRing) + n
        /\ \A i \in 1 .. Len(outRing) : outRing'[i] = outRing[i]
        /\ \A i \in Len(outRing) + 1 .. Len(outRing) + n : outRing'[i] = s[i - Len(outRing)]
    BY <2>2, <2>3
  <2>5. \A i \in Len(outRing) + 1 .. Len(outRing) + n : i - Len(outRing) \in 1 .. n  BY <2>3
  <2> QED  BY <2>2, <2>4, <2>5
<1>3. RingIsLatest'
  <2>1. written' \in Nat /\ Len(outRing') <= written'  BY <1>1, <1>2, RenderTypes
  <2>2. written' % Channels = 0
    <3>1. written \in Int /\ n \in Int /\ Channels \in Nat \ {0}  BY RenderTypes
    <3>2. (written + n) % Channels = written % Channels  BY <3>1, NoRemainder
    <3> QED  BY <1>1, <3>2 DEF RenderInv, RingIsLatest
  <2>3. ASSUME NEW i \in 1 .. Len(outRing') PROVE outRing'[i] = written' - Len(outRing') + i - 1
    <3>1. CASE i \in 1 .. Len(outRing)
      <4>1. outRing[i] = written - Len(outRing) + i - 1  BY <3>1 DEF RenderInv, RingIsLatest
      <4> QED  BY <1>1, <1>2, <3>1, <4>1, RenderTypes
    <3>2. CASE i \in Len(outRing) + 1 .. Len(outRing) + n
      BY <1>1, <1>2, <3>2, RenderTypes, SMTT(30)
    <3> QED  BY <1>2, <3>1, <3>2, RenderTypes
  <2> QED  BY <1>2, <2>1, <2>2, <2>3 DEF RingIsLatest
<1>4. FillsWhole'  BY <1>1 DEF RenderInv, FillsWhole
<1>5. ASSUME ~torn', Len(outRing) = 0 PROVE Len(buffer) % Channels = 0
  <2> SUFFICES ASSUME Len(buffer) % Channels # 0 PROVE FALSE  OBVIOUS
  <2> DEFINE L == Len(buffer)
             m == L + 1 - (L % Channels)
  <2>1. L % Channels \in 0 .. Channels - 1 /\ L \in Nat
    <3>1. L \in Nat /\ L \in Int /\ Channels \in Nat \ {0}  BY RenderTypes
    <3> QED  BY <3>1, Division
  <2>2. ~torn /\ Silence \notin Output!ToSet(Output!OpenFrame)  BY <1>1, <1>5
  <2>3. buffer[L] = Silence  BY <1>5, <2>2 DEF RenderInv, FillsInPlace
  <2>4. Output!OpenFrame = SubSeq(buffer, m, L)  BY DEF Output!OpenFrame
  <2>5. m \in 1 .. L
    <3>1. ~(L < L % Channels)
      <4> SUFFICES ASSUME L < L % Channels PROVE FALSE  OBVIOUS
      <4>1. L \in 0 .. Channels - 1  BY <2>1, RenderTypes
      <4>2. L % Channels = L  BY <4>1, RenderTypes, SmallMod
      <4> QED  BY <2>1, <4>2
    <3> QED  BY <2>1, <3>1, RenderTypes
  <2> HIDE DEF m
  <2>6. /\ Len(SubSeq(buffer, m, L)) = L - m + 1
        /\ SubSeq(buffer, m, L)[L - m + 1] = buffer[L] /\ L - m + 1 \in 1 .. L - m + 1
    BY <2>1, <2>5, RenderTypes
  <2>7. DOMAIN SubSeq(buffer, m, L) = 1 .. L - m + 1  BY <2>1, <2>5, <2>6, RenderTypes
  <2>8. Silence \in Output!ToSet(Output!OpenFrame)
    BY <2>3, <2>4, <2>6, <2>7 DEF Output!ToSet
  <2> QED  BY <2>2, <2>8
<1>6. FillsInPlace'
  <2> SUFFICES ASSUME ~torn'
               PROVE  /\ \A i \in 1 .. Len(buffer) : buffer[i] # Silence => buffer[i] % Channels = (i - 1) % Channels
                      /\ Len(outRing') > 0 => (written' - Len(outRing')) % Channels = Len(buffer) % Channels
                      /\ (Len(outRing') = 0 /\ Len(buffer) % Channels # 0) => buffer[Len(buffer)] = Silence
    BY <1>1 DEF FillsInPlace
  <2>1. ~torn  BY <1>1
  <2>2. written' - Len(outRing') = written - Len(outRing)  BY <1>1, <1>2, RenderTypes
  <2>3. /\ \A i \in 1 .. Len(buffer) : buffer[i] # Silence => buffer[i] % Channels = (i - 1) % Channels
        /\ Len(outRing) > 0 => (written - Len(outRing)) % Channels = Len(buffer) % Channels
        /\ (Len(outRing) = 0 /\ Len(buffer) % Channels # 0) => buffer[Len(buffer)] = Silence
    BY <2>1 DEF RenderInv, FillsInPlace
  <2>4. (written - Len(outRing)) % Channels = Len(buffer) % Channels
    <3>1. CASE Len(outRing) > 0  BY <2>3, <3>1
    <3>2. CASE Len(outRing) = 0
      <4>1. written - Len(outRing) = written /\ written % Channels = 0
        BY <3>2, RenderTypes DEF RenderInv, RingIsLatest
      <4> QED  BY <1>5, <3>2, <4>1
    <3> QED  BY <3>1, <3>2, RenderTypes
  <2>5. Len(outRing') = 0 => Len(outRing) = 0  BY <1>2, RenderTypes
  <2> QED  BY <2>2, <2>3, <2>4, <2>5
<1>7. Output!RenderedInPlace'
  BY <1>1 DEF RenderInv, Output!RenderedInPlace, Output!SourceOf
<1> QED  BY <1>1, <1>3, <1>4, <1>6, <1>7 DEF RenderInv

\* The callback takes a sample, or plays silence for one.
LEMMA RenderFill == ASSUME RenderInv, Output!FillSample PROVE RenderInv'
<1>1. /\ Len(buffer) < want /\ UNCHANGED <<routing, written, want, played, torn>>
      /\ \/ outRing = <<>> /\ buffer' = Append(buffer, Silence) /\ UNCHANGED outRing
         \/ outRing # <<>> /\ buffer' = Append(buffer, Head(outRing)) /\ outRing' = Tail(outRing)
  BY DEF Output!FillSample
<1> DEFINE L == Len(buffer)
           R == Len(outRing)
<1>2. Output!RenderedInPlace'  BY <1>1 DEF RenderInv, Output!RenderedInPlace, Output!SourceOf
<1>3. ASSUME NEW v \in Nat \cup {Silence}, buffer' = Append(buffer, v)
      PROVE  /\ buffer' \in Seq(Nat \cup {Silence}) /\ Len(buffer') = L + 1 /\ buffer'[L + 1] = v
             /\ \A i \in 1 .. L : buffer'[i] = buffer[i]
             /\ FillsWhole'
  <2>1. /\ buffer' \in Seq(Nat \cup {Silence}) /\ Len(buffer') = L + 1 /\ buffer'[L + 1] = v
        /\ \A i \in 1 .. L : buffer'[i] = buffer[i]
    BY <1>3, RenderTypes
  <2>2. Len(buffer') <= want'  BY <1>1, <2>1, RenderTypes
  <2> QED  BY <1>1, <2>1, <2>2 DEF RenderInv, FillsWhole
<1>4. CASE outRing = <<>> /\ buffer' = Append(buffer, Silence) /\ UNCHANGED outRing
  <2>1. /\ Len(buffer') = L + 1 /\ buffer'[L + 1] = Silence /\ \A i \in 1 .. L : buffer'[i] = buffer[i]
        /\ FillsWhole'
    BY <1>3, <1>4
  <2>2. RingIsLatest'  BY <1>1, <1>4 DEF RenderInv, RingIsLatest
  <2>3. FillsInPlace'
    <3> SUFFICES ASSUME ~torn'
                 PROVE  /\ \A i \in 1 .. L + 1 : buffer'[i] # Silence => buffer'[i] % Channels = (i - 1) % Channels
                        /\ ~(Len(outRing') > 0) /\ buffer'[L + 1] = Silence
      BY <2>1 DEF FillsInPlace
    <3>1. \A i \in 1 .. L : buffer[i] # Silence => buffer[i] % Channels = (i - 1) % Channels
      BY <1>1 DEF RenderInv, FillsInPlace
    <3>2. ASSUME NEW i \in 1 .. L + 1, buffer'[i] # Silence PROVE buffer'[i] % Channels = (i - 1) % Channels
      <4>1. i # L + 1  BY <2>1, <3>2
      <4>2. i \in 1 .. L  BY <4>1, RenderTypes
      <4> QED  BY <2>1, <3>1, <3>2, <4>2
    <3>3. Len(outRing') = 0  BY <1>4
    <3> QED  BY <2>1, <3>2, <3>3
  <2> QED  BY <1>1, <1>2, <2>1, <2>2, <2>3 DEF RenderInv
<1>5. CASE outRing # <<>> /\ buffer' = Append(buffer, Head(outRing)) /\ outRing' = Tail(outRing)
  <2> DEFINE h == written - R
  <2>1. /\ R \in Nat \ {0} /\ Head(outRing) = outRing[1] /\ outRing[1] \in Nat
        /\ outRing' \in Seq(Nat) /\ Len(outRing') = R - 1
        /\ \A i \in 1 .. R - 1 : outRing'[i] = outRing[i + 1]
    BY <1>5, RenderTypes
  <2>2. outRing[1] = h
    <3>1. 1 \in 1 .. R  BY <2>1
    <3>2. outRing[1] = written - R + 1 - 1  BY <3>1 DEF RenderInv, RingIsLatest
    <3> QED  BY <2>1, <3>2, RenderTypes
  <2>3. /\ Len(buffer') = L + 1 /\ buffer'[L + 1] = h /\ \A i \in 1 .. L : buffer'[i] = buffer[i]
        /\ FillsWhole'
    <3>1. buffer' = Append(buffer, outRing[1]) /\ outRing[1] \in Nat \cup {Silence}  BY <1>5, <2>1
    <3> QED  BY <1>3, <2>2, <3>1
  <2>4. RingIsLatest'
    <3>1. ASSUME NEW i \in 1 .. R - 1 PROVE outRing'[i] = written - (R - 1) + i - 1
      <4>1. i + 1 \in 1 .. R  BY <2>1
      <4>2. outRing[i + 1] = written - R + (i + 1) - 1  BY <4>1 DEF RenderInv, RingIsLatest
      <4> QED  BY <2>1, <4>2, RenderTypes
    <3>2. R - 1 <= written  BY <2>1, RenderTypes
    <3>3. written' = written  BY <1>1
    <3> QED  BY <2>1, <3>1, <3>2, <3>3 DEF RenderInv, RingIsLatest
  <2>5. FillsInPlace'
    <3> SUFFICES ASSUME ~torn
                 PROVE  /\ \A i \in 1 .. L + 1 : buffer'[i] # Silence => buffer'[i] % Channels = (i - 1) % Channels
                        /\ R - 1 > 0 => (written - (R - 1)) % Channels = (L + 1) % Channels
                        /\ (R - 1 = 0 /\ (L + 1) % Channels # 0) => buffer'[L + 1] = Silence
      BY <1>1, <2>1, <2>3 DEF FillsInPlace
    <3>1. /\ \A i \in 1 .. L : buffer[i] # Silence => buffer[i] % Channels = (i - 1) % Channels
          /\ h % Channels = L % Channels
      BY <2>1 DEF RenderInv, FillsInPlace
    <3>2. (h + 1) % Channels = (L + 1) % Channels
      <4>1. h \in Int /\ L \in Int /\ 1 \in Int /\ Channels \in Nat \ {0}  BY <2>1, RenderTypes
      <4> HIDE DEF h, L
      <4> QED  BY <3>1, <4>1, Congruent
    <3>3. written - (R - 1) = h + 1  BY <2>1, RenderTypes
    <3>4. R - 1 = 0 => (L + 1) % Channels = 0
      <4> SUFFICES ASSUME R = 1 PROVE (L + 1) % Channels = 0  BY <2>1
      <4>1. h + 1 = written  BY RenderTypes
      <4>2. written % Channels = 0  BY DEF RenderInv, RingIsLatest
      <4> QED  BY <3>2, <4>1, <4>2
    <3>5. ASSUME NEW i \in 1 .. L + 1, buffer'[i] # Silence PROVE buffer'[i] % Channels = (i - 1) % Channels
      <4>1. CASE i \in 1 .. L  BY <2>3, <3>1, <3>5, <4>1
      <4>2. CASE i = L + 1
        <5>1. i - 1 = L  BY <4>2, RenderTypes
        <5> QED  BY <2>3, <3>1, <4>2, <5>1
      <4> QED  BY <4>1, <4>2, RenderTypes
    <3> QED  BY <3>2, <3>3, <3>4, <3>5
  <2> QED  BY <1>1, <1>2, <2>3, <2>4, <2>5 DEF RenderInv
<1> QED  BY <1>1, <1>4, <1>5

\* The callback's buffer is played as the routing maps it.
LEMMA RenderEnd == ASSUME RenderInv, Output!EndCallback PROVE RenderInv'
<1>1. /\ want > 0 /\ Len(buffer) = want /\ played' = Output!ApplyInterleaved(buffer, routing)
      /\ want' = 0 /\ buffer' = <<>> /\ UNCHANGED <<routing, outRing, written, torn>>
  BY DEF Output!EndCallback
<1> DEFINE L == Len(buffer)
<1>2. L \in Nat /\ L % Channels = 0 /\ Channels \in Nat \ {0} /\ DOMAIN buffer = 1 .. L
  BY <1>1, RenderTypes DEF RenderInv, FillsWhole
<1>3. Len(buffer') = 0 /\ buffer' \in Seq(Nat \cup {Silence}) /\ 0 % Channels = 0
  BY <1>1, <1>2, SmallMod
<1>4. RingIsLatest'  BY <1>1 DEF RenderInv, RingIsLatest
<1>5. FillsWhole'  BY <1>1, <1>3 DEF FillsWhole
<1>6. FillsInPlace'  BY <1>1, <1>2, <1>3 DEF RenderInv, FillsInPlace
<1>7. Output!RenderedInPlace'
  <2> SUFFICES ASSUME ~torn, NEW i \in DOMAIN played', played'[i] # Silence
               PROVE  played'[i] % Channels = Output!SourceOf((i - 1) % Channels, routing)
    BY <1>1 DEF Output!RenderedInPlace, Output!SourceOf
  <2> DEFINE slot == (i - 1) % Channels
             src  == Output!SourceOf(slot, routing)
             j    == i - slot + src
  <2>1. i \in 1 .. L /\ played'[i] = buffer[j]  BY <1>1, <1>2 DEF Output!ApplyInterleaved
  <2>2. PICK q \in Int, r \in 0 .. Channels - 1 : i - 1 = Channels * q + r /\ r = slot
    <3>1. i - 1 \in Int /\ Channels \in Nat \ {0}  BY <1>2, <2>1
    <3> QED  BY <3>1, Divided
  <2>3. src \in 0 .. Channels - 1
    <3>1. routing \in Seq(Nat \X Nat) /\ slot \in 0 .. Channels - 1  BY <2>2 DEF RenderInv
    <3> HIDE DEF slot
    <3> QED  BY <1>2, <3>1, SourceInFrame
  <2> HIDE DEF src
  <2>4. j - 1 = Channels * q + src
    <3>1. Channels * q \in Int  BY <1>2
    <3>2. j = i - r + src /\ i - 1 = Channels * q + r  BY <2>2
    <3>3. i \in Int /\ r \in Int /\ src \in Int  BY <1>2, <2>1, <2>3
    <3> QED  BY <3>1, <3>2, <3>3
  <2> HIDE DEF slot, j
  <2>5. (j - 1) % Channels = src  BY <1>2, <2>3, <2>4, OneRemainder, ZenonT(60)
  <2>6. j \in 1 .. L
    <3>1. PICK k \in Nat : L = Channels * k  BY <1>2, Multiple
    <3>2. Channels * q <= Channels * k - 1 /\ Channels * q \in Int  BY <1>2, <2>1, <2>2, <3>1
    <3>3. q < k
      <4> SUFFICES ASSUME q >= k PROVE FALSE  BY <3>1
      <4>1. Channels * q >= Channels * k  BY <1>2, <3>1
      <4> QED  BY <1>2, <3>1, <3>2, <4>1
    <3>4. q >= 0
      <4> SUFFICES ASSUME q <= -1 PROVE FALSE  OBVIOUS
      <4>1. Channels * q <= -Channels  BY <1>2
      <4> QED  BY <1>2, <2>1, <2>2, <4>1
    <3>5. Channels * q >= 0 /\ Channels * q <= Channels * k - Channels
      <4>1. Channels * q <= Channels * (k - 1)  BY <1>2, <3>1, <3>3
      <4>2. Channels * (k - 1) = Channels * k - Channels  BY <1>2, <3>1
      <4>3. Channels * q >= 0  BY <1>2, <3>4
      <4> QED  BY <4>1, <4>2, <4>3
    <3>6. j \in Int  BY <1>2, <2>1, <2>2, <2>3, SMTT(30) DEF j, slot
    <3> QED  BY <1>2, <2>3, <2>4, <3>1, <3>2, <3>5, <3>6
  <2>7. buffer[j] # Silence => buffer[j] % Channels = (j - 1) % Channels
    BY <2>6 DEF RenderInv, FillsInPlace
  <2> QED  BY <2>1, <2>5, <2>7 DEF src, slot
<1> QED  BY <1>1, <1>4, <1>5, <1>6, <1>7 DEF RenderInv

\* Between callbacks there is no buffer, and the next is asked for whole frames.
LEMMA RenderStart == ASSUME NEW n \in CallbackFrames, RenderInv, Output!StartCallback(n) PROVE RenderInv'
<1>1. /\ want = 0 /\ want' = n * Channels /\ buffer' = <<>>
      /\ UNCHANGED <<routing, outRing, written, played, torn>>
  BY DEF Output!StartCallback
<1>2. want' \in Nat /\ want' % Channels = 0
  <2>1. n \in Nat  BY OutputAssumption DEF Output!RenderAssumption
  <2> QED  BY <1>1, <2>1, RenderTypes, ProductMod, ProductNat
<1>3. Len(buffer) = 0 /\ Len(buffer') = 0 /\ buffer' \in Seq(Nat \cup {Silence})
  BY <1>1, RenderTypes DEF RenderInv, FillsWhole
<1>4. RingIsLatest'  BY <1>1 DEF RenderInv, RingIsLatest
<1>5. FillsWhole'  BY <1>2, <1>3 DEF FillsWhole
<1>6. 0 % Channels = 0  BY RenderTypes, SmallMod
<1>7. FillsInPlace'  BY <1>1, <1>3, <1>6 DEF RenderInv, FillsInPlace
<1>8. Output!RenderedInPlace'  BY <1>1 DEF RenderInv, Output!RenderedInPlace, Output!SourceOf
<1> QED  BY <1>1, <1>4, <1>5, <1>7, <1>8 DEF RenderInv

LEMMA RenderStep == RenderInv /\ [Output!Next]_(Output!vars) => RenderInv'
<1> SUFFICES ASSUME RenderInv, [Output!Next]_(Output!vars) PROVE RenderInv'  OBVIOUS
<1>1. ASSUME NEW n \in WriteFrames, Output!Write(n * Channels) PROVE RenderInv'
  <2>1. n \in Nat  BY OutputAssumption DEF Output!RenderAssumption
  <2>2. n * Channels \in Nat /\ (n * Channels) % Channels = 0  BY <2>1, RenderTypes, ProductMod, ProductNat
  <2> QED  BY <1>1, <2>2, RenderWrite
<1>2. CASE Output!TickAdaptive  BY <1>2, RenderStands DEF Output!TickAdaptive, Output!dataVars
<1>3. CASE UNCHANGED (Output!vars)  BY <1>3, RenderStands DEF Output!vars, Output!dataVars
<1> QED  BY <1>1, <1>2, <1>3, RenderStart, RenderFill, RenderEnd DEF Output!Next

\* A sample is played in the channel it was written for, as the routing maps it, as long as
\* no write lands in the middle of a frame of silence (RenderedInPlace).
THEOREM SamplesAreRenderedInPlace == PartsSpec => []RenderedInPlace
<1>1. RenderInv => Output!RenderedInPlace  BY DEF RenderInv
<1>2. Output!Spec => []Output!RenderedInPlace
  BY <1>1, RenderInit, RenderStep, PTL DEF Output!Spec
<1> QED  BY <1>2, PartsAreComponents, PTL DEF RenderedInPlace

----------------------------------------------------------------------------
(* StreamStats: what stats() tells while callbacks run. *)

\* The samples of a frame where samples are counted; frames are counted elsewhere.
Unit == IF backend \in Stats!Cpal THEN Channels ELSE 1

\* The frames callbacks have moved through the ring.
Through == IF backend \in Stats!Outputs THEN moved - held ELSE moved + held

\* The books of a kind of stream: frames counted, moved through the ring, and missing.
Balanced(f, t, m) ==
    /\ backend \in Stats!Pulse => f = t
    /\ backend = "cpal_input" => t <= f
    /\ backend \in {"cpal_output", "jack_output", "jack_input"} => f * Unit = t * Unit + m

\* The frames of a callback that are counted at its end.
ToCount == IF toMove > 0 THEN block ELSE 0

\* The books balanced at f, t and m, and no more than so many frames were handled since.
Since(f, t, m, frames) ==
    /\ Balanced(f, t, m)
    /\ f <= counters.processed /\ counters.processed + owed.processed + ToCount <= f + frames
    /\ t <= Through /\ m <= counters.missed
    /\ Through * Unit + counters.missed + owed.missed + toMove * Unit <= t * Unit + m + frames * Unit

\* What stats() has loaded was true since the books balanced so.
LoadedSince(f, t, m) ==
    /\ "processed" \notin loads => f <= report.processed
    /\ "missed" \notin loads => backend = "cpal_input" \/ m <= report.missed
    /\ "latency" \notin loads /\ backend \notin Stats!Jack =>
         \E q \in Nat : /\ report.latency = q * Unit
                        /\ LET told == IF backend \in Stats!Outputs THEN moved - q ELSE moved + q
                           IN  t <= told /\ told <= Through

Numbers == [processed : Nat, missed : Nat]
Reports == [processed : Nat, missed : Nat, latency : Nat]

StatsTypes ==
    /\ backend \in Stats!Outputs \cup {"cpal_input", "jack_input", "pulse_input"}
    /\ held \in Nat /\ held <= CapacityFrames /\ moved \in Nat /\ blocks \in Nat /\ block \in Nat
    /\ toMove \in Nat /\ toMove <= block /\ took \in Nat
    /\ owed \in Numbers /\ counters \in Numbers
    /\ loads \subseteq {"processed", "missed", "latency"}
    /\ report \in Reports /\ last \in Reports /\ had \in Nat /\ beside \in Nat
    /\ backend \in Stats!Outputs => held <= moved

Callback ==
    /\ block = 0 => owed = Stats!Nothing
    /\ toMove > 0 => owed.processed = 0
    /\ backend \in Stats!Pulse /\ toMove > 0 => took = 0 /\ toMove = block

\* No number told goes back.
Rising ==
    /\ last.processed <= report.processed /\ report.processed <= counters.processed
    /\ last.missed <= report.missed /\ report.missed <= counters.missed
    /\ backend = "cpal_input" => report.missed = 0

\* Frames handled, counted or to be counted.
Handled == counters.processed + owed.processed + (IF toMove > 0 THEN block - toMove ELSE 0)

StatsInv ==
    /\ StatsTypes /\ Callback /\ Rising
    /\ Balanced(Handled, Through, counters.missed + owed.missed)
    /\ \E f, t, m \in Nat : Since(f, t, m, block)
    /\ loads # {} => /\ had = moved
                     /\ \E f, t, m \in Nat : Since(f, t, m, beside) /\ LoadedSince(f, t, m)
    /\ Stats!StatsAddUp

LEMMA StatsLesserOfTwo ==
    ASSUME NEW a \in Nat, NEW b \in Nat, NEW m, m = Stats!Min({a, b})
    PROVE  m \in Nat /\ m <= a /\ m <= b /\ (m = a \/ m = b)
<1>1. \E x \in {a, b} : \A y \in {a, b} : x <= y
  <2>1. CASE a <= b  BY <2>1
  <2>2. CASE b <= a  BY <2>2
  <2> QED  BY <2>1, <2>2
<1>2. m \in {a, b} /\ \A y \in {a, b} : m <= y  BY <1>1 DEF Stats!Min
<1> QED  BY <1>2

\* The numbers the proofs count with.
LEMMA StatsNumbers ==
    ASSUME StatsTypes
    PROVE  /\ Unit \in Nat \ {0} /\ Through \in Nat
           /\ counters.processed \in Nat /\ counters.missed \in Nat
           /\ owed.processed \in Nat /\ owed.missed \in Nat
           /\ toMove \in Nat /\ block \in Nat /\ toMove <= block /\ moved \in Nat /\ held \in Nat
<1>1. Channels \in Nat \ {0}  BY StatsAssumption DEF Stats!StatsAssumption
<1>2. Unit \in Nat \ {0}  BY <1>1 DEF Unit
<1>3. Through \in Nat  BY DEF StatsTypes, Through
<1> QED  BY <1>2, <1>3 DEF StatsTypes, Numbers

\* stats() goes on telling what it told.
LEMMA ToldStands ==
    ASSUME Stats!StatsAddUp, UNCHANGED <<backend, loads, report, last, had, beside>>
    PROVE  Stats!StatsAddUp'
  BY DEF Stats!StatsAddUp, Stats!Within

\* While the callback's thread stands still in the books, they stay balanced.
LEMMA BooksStand ==
    ASSUME StatsInv, UNCHANGED <<backend, counters, owed, block, toMove>>, Through' = Through
    PROVE  /\ Balanced(Handled, Through, counters.missed + owed.missed)'
           /\ \A f, t, m, n \in Nat : Since(f, t, m, n) => Since(f, t, m, n)'
<1>1. Unit' = Unit /\ Handled' = Handled /\ ToCount' = ToCount  BY DEF Unit, Handled, ToCount
<1>2. Balanced(Handled, Through, counters.missed + owed.missed)'
  BY <1>1 DEF StatsInv, Balanced
<1>3. ASSUME NEW f \in Nat, NEW t \in Nat, NEW m \in Nat, NEW n \in Nat, Since(f, t, m, n)
      PROVE  Since(f, t, m, n)'
  BY <1>1, <1>3 DEF Since, Balanced
<1> QED  BY <1>2, <1>3

LEMMA StatsInit == Stats!Init => StatsInv
<1> SUFFICES ASSUME Stats!Init PROVE StatsInv  OBVIOUS
<1>1. /\ backend \in Kinds /\ held = 0 /\ moved = 0 /\ blocks = 0 /\ block = 0 /\ toMove = 0 /\ took = 0
      /\ owed = Stats!Nothing /\ counters = Stats!Nothing
      /\ loads = {} /\ report = Stats!Empty /\ last = Stats!Empty /\ had = 0 /\ beside = 0
  BY DEF Stats!Init
<1>2. Channels \in Nat /\ CapacityFrames \in Nat /\ backend \in Stats!Outputs \cup {"cpal_input", "jack_input", "pulse_input"}
  BY <1>1, StatsAssumption DEF Stats!StatsAssumption, Stats!Outputs
<1>3. /\ owed \in Numbers /\ counters \in Numbers /\ report \in Reports /\ last \in Reports
      /\ owed.processed = 0 /\ owed.missed = 0 /\ counters.processed = 0 /\ counters.missed = 0
      /\ report.processed = 0 /\ report.missed = 0 /\ report.latency = 0
      /\ last.processed = 0 /\ last.missed = 0
  BY <1>1 DEF Numbers, Reports, Stats!Nothing, Stats!Empty
<1>4. StatsTypes  BY <1>1, <1>2, <1>3 DEF StatsTypes
<1>5. Callback  BY <1>1 DEF Callback
<1>6. Rising  BY <1>3 DEF Rising
<1>7. Through = 0 /\ Handled = 0 /\ ToCount = 0 /\ Unit \in Nat
  BY <1>1, <1>3, <1>4, StatsNumbers DEF Through, Handled, ToCount
<1>8. 0 * Unit = 0  BY <1>7
<1>9. Balanced(0, 0, 0)  BY <1>8 DEF Balanced
<1>10. Since(0, 0, 0, block)  BY <1>1, <1>3, <1>7, <1>8, <1>9 DEF Since
<1>11. Stats!StatsAddUp
  <2>1. 0 * Channels = 0 /\ beside * Channels = 0 /\ had * Channels = 0 /\ report.processed * Channels = 0
        /\ (report.processed + beside) * Channels = 0
    BY <1>1, <1>2, <1>3
  <2>2. backend \in {"cpal_output", "cpal_input", "jack_output", "jack_input", "pulse_output", "pulse_input"}
    BY <1>2 DEF Stats!Outputs
  <2>3. had = 0 /\ beside = 0 /\ CapacityFrames \in Nat  BY <1>1, <1>2
  <2>4. Stats!Within(0, 0)  BY <2>1 DEF Stats!Within
  <2>5. /\ report.processed + report.latency = 0 /\ had + report.latency = 0
        /\ report.processed * Channels + report.latency = 0 /\ had * Channels + report.missed = 0
        /\ had * Channels + report.latency = 0
    BY <1>3, <2>1, <2>3
  <2>6. backend = "pulse_output" => Stats!Within(report.processed + report.latency, had)  BY <2>3, <2>4, <2>5
  <2>7. backend = "pulse_input" => Stats!Within(report.processed, had + report.latency)  BY <1>3, <2>4, <2>5
  <2>8. backend = "cpal_output" =>
          Stats!Within(report.processed * Channels + report.latency, had * Channels + report.missed)
    BY <2>4, <2>5
  <2>9. backend = "cpal_input" => had * Channels + report.latency <= (report.processed + beside) * Channels
    BY <2>1, <2>5
  <2>10. /\ report.processed <= had + report.missed + beside
         /\ had + report.missed <= report.processed + CapacityFrames + beside
         /\ had + report.missed <= report.processed + beside
         /\ report.processed <= had + CapacityFrames + report.missed + beside
         /\ last.processed <= report.processed /\ last.missed <= report.missed
    BY <1>3, <2>3
  <2> QED  BY <2>2, <2>6, <2>7, <2>8, <2>9, <2>10 DEF Stats!StatsAddUp
<1> QED  BY <1>1, <1>3, <1>4, <1>5, <1>6, <1>7, <1>9, <1>10, <1>11 DEF StatsInv

\* What the application writes or reads is in the ring, or is not, at once.
LEMMA StatsMoved ==
    ASSUME StatsInv, loads = {}, StatsTypes', Through' = Through,
           UNCHANGED <<backend, blocks, block, toMove, took, owed, counters, loads, report, last, had, beside>>
    PROVE  StatsInv'
<1>1. Callback' /\ Rising'  BY DEF StatsInv, Callback, Rising
<1>2. PICK f \in Nat, t \in Nat, m \in Nat : Since(f, t, m, block)  BY DEF StatsInv
<1>3. block \in Nat  BY DEF StatsInv, StatsTypes
<1>4. Since(f, t, m, block)'  
  <2>1. PICK n \in Nat : n = block /\ n = block'  BY <1>3
  <2>2. Since(f, t, m, n)  BY <1>2, <2>1
  <2>3. Since(f, t, m, n)'  BY <2>2, BooksStand
  <2> QED  BY <2>1, <2>3
<1>5. Stats!StatsAddUp'  BY ToldStands DEF StatsInv
<1>6. Balanced(Handled, Through, counters.missed + owed.missed)'  BY BooksStand
<1> QED  BY <1>1, <1>4, <1>5, <1>6 DEF StatsInv

LEMMA StatsWrite == ASSUME NEW n \in Blocks, StatsInv, Stats!Write(n) PROVE StatsInv'
<1> DEFINE pushed == Stats!Min({n, CapacityFrames - held})
<1>1. n \in Nat /\ CapacityFrames \in Nat  BY StatsAssumption DEF Stats!StatsAssumption
<1>2. /\ backend \in Stats!Outputs /\ loads = {} /\ held' = held + pushed /\ moved' = moved + pushed
      /\ UNCHANGED <<backend, blocks, block, toMove, took, owed, counters, loads, report, last, had, beside>>
  BY DEF Stats!Write, Stats!callbackVars, Stats!statsVars
<1>3. held \in Nat /\ held <= CapacityFrames /\ moved \in Nat /\ held <= moved
  BY <1>2 DEF StatsInv, StatsTypes
<1>4. CapacityFrames - held \in Nat  BY <1>1, <1>3
<1>5. pushed \in Nat /\ pushed <= CapacityFrames - held  BY <1>1, <1>4, StatsLesserOfTwo
<1> HIDE DEF pushed
<1>6. held' \in Nat /\ held' <= CapacityFrames /\ moved' \in Nat /\ held' <= moved'  BY <1>1, <1>2, <1>3, <1>5
<1>7. StatsTypes'  BY <1>2, <1>6 DEF StatsInv, StatsTypes
<1>8. Through' = Through  BY <1>2, <1>3, <1>5 DEF Through
<1> QED  BY <1>2, <1>7, <1>8, StatsMoved

LEMMA StatsRead == ASSUME NEW n \in Blocks, StatsInv, Stats!Read(n) PROVE StatsInv'
<1> DEFINE popped == Stats!Min({n, held})
<1>1. n \in Nat /\ CapacityFrames \in Nat  BY StatsAssumption DEF Stats!StatsAssumption
<1>2. /\ backend \notin Stats!Outputs /\ loads = {} /\ held' = held - popped /\ moved' = moved + popped
      /\ UNCHANGED <<backend, blocks, block, toMove, took, owed, counters, loads, report, last, had, beside>>
  BY DEF Stats!Read, Stats!callbackVars, Stats!statsVars
<1>3. held \in Nat /\ held <= CapacityFrames /\ moved \in Nat  BY DEF StatsInv, StatsTypes
<1>4. popped \in Nat /\ popped <= held  BY <1>1, <1>3, StatsLesserOfTwo
<1> HIDE DEF popped
<1>5. held' \in Nat /\ held' <= CapacityFrames /\ moved' \in Nat  BY <1>1, <1>2, <1>3, <1>4
<1>6. StatsTypes'  BY <1>2, <1>5 DEF StatsInv, StatsTypes
<1>7. Through' = Through  BY <1>2, <1>3, <1>4 DEF Through
<1> QED  BY <1>2, <1>6, <1>7, StatsMoved

\* k frames of the callback have been handled: d have gone through the ring, and the books
\* balance with e more missing.
LEMMA StatsHandled ==
    ASSUME StatsInv, StatsTypes', NEW k \in Nat \ {0}, NEW d \in Nat, NEW e \in Nat, NEW c \in Nat,
           toMove' = toMove - k, Through' = Through + d, d * Unit + e <= k * Unit, c <= block,
           owed' = [processed |-> IF toMove' = 0 THEN c ELSE 0, missed |-> owed.missed + e],
           Balanced(Handled, Through, counters.missed + owed.missed)',
           backend \in Stats!Pulse => toMove' = 0,
           UNCHANGED <<backend, moved, block, counters, loads, report, last, had, beside>>
    PROVE  StatsInv'
<1>1. /\ StatsTypes /\ Unit \in Nat \ {0} /\ Through \in Nat
      /\ counters.processed \in Nat /\ counters.missed \in Nat /\ owed.processed \in Nat /\ owed.missed \in Nat
      /\ toMove \in Nat /\ block \in Nat /\ toMove <= block /\ moved \in Nat /\ toMove' \in Nat
  BY StatsNumbers DEF StatsInv, StatsTypes
<1>2. toMove > 0 /\ block > 0 /\ owed.processed = 0 /\ ToCount = block
  BY <1>1 DEF StatsInv, Callback, ToCount
<1>3. /\ owed'.missed = owed.missed + e
      /\ owed'.processed + ToCount' <= block /\ owed'.processed \in Nat /\ ToCount' \in Nat
      /\ toMove' > 0 => owed'.processed = 0
  BY <1>1, <1>2 DEF ToCount
<1>4. Callback'
  <2>1. backend' \in Stats!Pulse /\ toMove' > 0 => took' = 0 /\ toMove' = block'  BY DEF Stats!Pulse
  <2> QED  BY <1>2, <1>3, <2>1 DEF Callback, Stats!Pulse
<1>5. Rising'  BY DEF StatsInv, Rising
<1>6. Unit' = Unit  BY DEF Unit
<1>7. ASSUME NEW f \in Nat, NEW t \in Nat, NEW m \in Nat, NEW n \in Nat, Since(f, t, m, n)
      PROVE  Since(f, t, m, n)'
  <2>1. /\ f <= counters.processed /\ counters.processed + owed.processed + ToCount <= f + n
        /\ t <= Through /\ m <= counters.missed
        /\ Through * Unit + counters.missed + owed.missed + toMove * Unit <= t * Unit + m + n * Unit
        /\ Balanced(f, t, m)
    BY <1>7 DEF Since
  <2>2. f <= counters'.processed /\ counters'.processed + owed'.processed + ToCount' <= f + n
    <3>1. f <= counters.processed /\ counters.processed + owed.processed + ToCount <= f + n  BY <2>1
    <3>2. counters' = counters  OBVIOUS
    <3>3. f <= counters'.processed  BY <3>1, <3>2
    <3>4. counters.processed + block <= f + n  BY <1>1, <1>2, <3>1
    <3> DEFINE a == owed'.processed
               b == ToCount'
    <3>5. a \in Nat /\ b \in Nat /\ a + b <= block  BY <1>3
    <3> HIDE DEF a, b
    <3>6. counters.processed + a + b <= f + n  BY <1>1, <3>4, <3>5
    <3> USE DEF a, b
    <3> QED  BY <3>2, <3>3, <3>6
  <2>3. t <= Through' /\ m <= counters'.missed  BY <1>1, <2>1
  <2>4. Through' * Unit + counters'.missed + owed'.missed + toMove' * Unit <= t * Unit + m + n * Unit
    <3>1. Through' * Unit = Through * Unit + d * Unit /\ toMove' * Unit = toMove * Unit - k * Unit
      BY <1>1
    <3>2. Through * Unit \in Nat /\ d * Unit \in Nat /\ toMove * Unit \in Nat /\ k * Unit \in Nat
          /\ t * Unit \in Nat /\ n * Unit \in Nat
      BY <1>1, ProductNat
    <3> QED  BY <1>1, <1>3, <2>1, <3>1, <3>2
  <2>5. Balanced(f, t, m)'  BY <1>6, <2>1 DEF Balanced
  <2> QED  BY <1>6, <2>2, <2>3, <2>4, <2>5 DEF Since
<1>8. ASSUME NEW f \in Nat, NEW t \in Nat, NEW m \in Nat, LoadedSince(f, t, m)
      PROVE  LoadedSince(f, t, m)'
  <2>1. ("processed" \notin loads => f <= report.processed)'  BY <1>8 DEF LoadedSince
  <2>2. ("missed" \notin loads => backend = "cpal_input" \/ m <= report.missed)'  BY <1>8 DEF LoadedSince
  <2>3. ASSUME "latency" \notin loads', backend' \notin Stats!Jack
        PROVE  \E q \in Nat : /\ report'.latency = q * Unit'
                              /\ LET told == IF backend' \in Stats!Outputs THEN moved' - q ELSE moved' + q
                                 IN  t <= told /\ told <= Through'
    <3>1. PICK q \in Nat : /\ report.latency = q * Unit
                           /\ LET told == IF backend \in Stats!Outputs THEN moved - q ELSE moved + q
                              IN  t <= told /\ told <= Through
      BY <1>8, <2>3 DEF LoadedSince
    <3>2. Through <= Through' /\ Through \in Int /\ Through' \in Int /\ moved \in Int  BY <1>1
    <3>3. report' = report /\ backend' = backend /\ moved' = moved  OBVIOUS
    <3>4. report'.latency = q * Unit'  BY <1>6, <3>1, <3>3
    <3>5. CASE backend \in Stats!Outputs  BY <3>1, <3>2, <3>3, <3>4, <3>5
    <3>6. CASE backend \notin Stats!Outputs  BY <3>1, <3>2, <3>3, <3>4, <3>6
    <3> QED  BY <3>5, <3>6
  <2> QED  BY <2>1, <2>2, <2>3 DEF LoadedSince
<1>9. (\E f, t, m \in Nat : Since(f, t, m, block))'
  <2>1. PICK n \in Nat : n = block /\ n = block'  BY <1>1
  <2>2. PICK f \in Nat, t \in Nat, m \in Nat : Since(f, t, m, n)  BY <2>1 DEF StatsInv
  <2>3. Since(f, t, m, n)'  BY <1>7, <2>2
  <2> QED  BY <2>1, <2>3
<1>10. ASSUME loads' # {}
       PROVE  had' = moved' /\ (\E f, t, m \in Nat : Since(f, t, m, beside) /\ LoadedSince(f, t, m))'
  <2>1. PICK n \in Nat : n = beside /\ n = beside'  BY <1>1 DEF StatsTypes
  <2>2. PICK f \in Nat, t \in Nat, m \in Nat : Since(f, t, m, n) /\ LoadedSince(f, t, m)
    BY <1>10, <2>1 DEF StatsInv
  <2>3. Since(f, t, m, n)' /\ LoadedSince(f, t, m)'  BY <1>7, <1>8, <2>2
  <2>4. had' = moved'  BY <1>10 DEF StatsInv
  <2> QED  BY <2>1, <2>3, <2>4
<1>11. Stats!StatsAddUp'  BY ToldStands DEF StatsInv
<1> QED  BY <1>4, <1>5, <1>9, <1>10, <1>11 DEF StatsInv

\* The frames handled grow by those, whether the callback goes on or not.
LEMMA HandledGrows ==
    ASSUME StatsTypes, Callback, toMove > 0, NEW k \in Nat \ {0}, NEW c \in Nat,
           toMove' = toMove - k, toMove' \in Nat, NEW e \in Nat,
           owed' = [processed |-> IF toMove' = 0 THEN c ELSE 0, missed |-> owed.missed + e],
           UNCHANGED <<block, counters>>
    PROVE  Handled' = IF toMove' > 0 \/ c = block THEN Handled + k
                      ELSE counters.processed + c
<1>1. /\ counters.processed \in Nat /\ owed.processed = 0 /\ toMove \in Nat /\ block \in Nat /\ toMove <= block
  BY StatsNumbers DEF Callback
<1>2. owed'.processed = IF toMove' = 0 THEN c ELSE 0  OBVIOUS
<1>3. Handled = counters.processed + block - toMove  BY <1>1 DEF Handled
<1>4. CASE toMove' > 0
  <2>1. Handled' = counters.processed + (block - toMove')  BY <1>1, <1>2, <1>4 DEF Handled
  <2> QED  BY <1>1, <1>3, <1>4, <2>1
<1>5. CASE toMove' = 0
  <2>1. Handled' = counters.processed + c  BY <1>1, <1>2, <1>5 DEF Handled
  <2> QED  BY <1>1, <1>3, <1>5, <2>1
<1> QED  BY <1>4, <1>5

\* A frame at a time, as cpal and JACK do: the books stay balanced where each frame goes
\* through the ring or is missing.
LEMMA StatsFrame ==
    ASSUME StatsInv, toMove > 0, backend \notin Stats!Pulse, NEW d \in 0..1, NEW e \in Nat,
           toMove' = toMove - 1, Through' = Through + d, StatsTypes',
           e = IF backend = "cpal_input" THEN 0 ELSE (1 - d) * Unit,
           owed' = [processed |-> IF toMove' = 0 THEN block ELSE 0, missed |-> owed.missed + e],
           UNCHANGED <<backend, moved, block, counters, loads, report, last, had, beside>>
    PROVE  StatsInv'
<1>1. /\ StatsTypes /\ Callback /\ Unit \in Nat \ {0} /\ Through \in Nat
      /\ counters.missed \in Nat /\ owed.missed \in Nat /\ owed.processed \in Nat /\ counters.processed \in Nat
      /\ toMove \in Nat /\ block \in Nat /\ toMove <= block
  BY StatsNumbers DEF StatsInv
<1>2. Handled \in Nat  BY <1>1 DEF Handled
<1>3. Handled' = Handled + 1  BY <1>1, HandledGrows
<1>4. owed'.missed = owed.missed + e  OBVIOUS
<1>5. Unit' = Unit  BY DEF Unit
<1>6. Balanced(Handled, Through, counters.missed + owed.missed)'
  <2> DEFINE h == Handled
             th == Through
             mi == counters.missed + owed.missed
  <2>1. Balanced(h, th, mi)  BY DEF StatsInv
  <2>2. backend = "cpal_input" => th + d <= h + 1  BY <1>1, <1>2, <2>1 DEF Balanced
  <2>3. ASSUME backend \in {"cpal_output", "jack_output", "jack_input"}
        PROVE  (h + 1) * Unit = (th + d) * Unit + (mi + e)
    <3>1. h * Unit = th * Unit + mi  BY <2>1, <2>3 DEF Balanced
    <3>2. e = (1 - d) * Unit  BY <2>3
    <3>3. CASE d = 0  BY <1>1, <1>2, <3>1, <3>2, <3>3
    <3>4. CASE d = 1
      <4>1. e = 0  BY <1>1, <3>2, <3>4
      <4>2. h \in Int /\ th \in Int /\ mi \in Int /\ Unit \in Int  BY <1>1, <1>2
      <4> HIDE DEF h, th, mi
      <4>3. (h + 1) * Unit = h * Unit + Unit /\ (th + d) * Unit = th * Unit + Unit  BY <3>4, <4>2
      <4>4. mi + e = mi  BY <4>1, <4>2
      <4>5. h * Unit \in Int /\ th * Unit \in Int  BY <4>2
      <4> QED  BY <3>1, <4>2, <4>3, <4>4, <4>5
    <3> QED  BY <3>3, <3>4
  <2>4. Handled' = h + 1 /\ Through' = th + d /\ counters'.missed + owed'.missed = mi + e  BY <1>1, <1>3, <1>4
  <2> QED  BY <1>5, <2>2, <2>3, <2>4 DEF Balanced
<1>7. d * Unit + e <= 1 * Unit
  <2>1. CASE d = 0  BY <1>1, <2>1
  <2>2. CASE d = 1  BY <1>1, <2>2
  <2> QED  BY <2>1, <2>2
<1>8. d \in Nat /\ 1 \in Nat \ {0} /\ block <= block /\ ~(backend \in Stats!Pulse)  BY <1>1
<1> QED  BY <1>1, <1>6, <1>7, <1>8, StatsHandled

LEMMA StatsPlay == ASSUME StatsInv, Stats!PlayFrame PROVE StatsInv'
<1>1. StatsTypes /\ Unit \in Nat \ {0}  BY StatsNumbers DEF StatsInv
<1>2. /\ backend \in Stats!Outputs /\ backend \notin Stats!Pulse /\ toMove > 0 /\ toMove' = toMove - 1
      /\ UNCHANGED <<backend, moved, blocks, block, starved, counters, loads, report, last, had, beside>>
  BY DEF Stats!PlayFrame, Stats!statsVars
<1>3. Stats!Counted = block  BY <1>2 DEF Stats!Counted
<1>4. /\ held \in Nat /\ moved \in Nat /\ held <= moved /\ held <= CapacityFrames /\ took \in Nat /\ block \in Nat
      /\ CapacityFrames \in Nat /\ owed \in Numbers /\ owed.missed \in Nat /\ toMove \in Nat /\ toMove <= block
  BY <1>1, <1>2, StatsAssumption DEF StatsTypes, Numbers, Stats!StatsAssumption
<1>5. CASE held > 0
  <2>1. /\ held' = held - 1 /\ took' = took + 1
        /\ owed' = [processed |-> IF toMove' = 0 THEN block ELSE 0, missed |-> owed.missed + 0]
    BY <1>2, <1>3, <1>5 DEF Stats!PlayFrame, Stats!Moving
  <2>2. owed' \in Numbers  BY <1>4, <2>1 DEF Numbers
  <2>3. held' \in Nat /\ held' <= CapacityFrames /\ held' <= moved' /\ took' \in Nat /\ toMove' \in Nat /\ toMove' <= block'
    BY <1>2, <1>4, <1>5, <2>1
  <2>4. StatsTypes'  BY <1>1, <1>2, <2>2, <2>3 DEF StatsTypes
  <2>5. Through' = Through + 1  BY <1>2, <1>4, <2>1 DEF Through
  <2>6. 0 = IF backend = "cpal_input" THEN 0 ELSE (1 - 1) * Unit  BY <1>1
  <2> QED  BY <1>2, <2>1, <2>4, <2>5, <2>6, StatsFrame
<1>6. CASE ~(held > 0)
  <2>1. /\ held' = held - 0 /\ took' = took + 0
        /\ owed' = [processed |-> IF toMove' = 0 THEN block ELSE 0, missed |-> owed.missed + Unit]
    BY <1>2, <1>3, <1>6 DEF Stats!PlayFrame, Stats!Moving, Unit
  <2>2. owed' \in Numbers  BY <1>1, <1>4, <2>1 DEF Numbers
  <2>3. held' \in Nat /\ held' <= CapacityFrames /\ held' <= moved' /\ took' \in Nat /\ toMove' \in Nat /\ toMove' <= block'
    BY <1>2, <1>4, <2>1
  <2>4. StatsTypes'  BY <1>1, <1>2, <2>2, <2>3 DEF StatsTypes
  <2>5. Through' = Through + 0  BY <1>2, <1>4, <2>1 DEF Through
  <2>6. Unit = IF backend = "cpal_input" THEN 0 ELSE (1 - 0) * Unit  BY <1>1, <1>2 DEF Stats!Outputs
  <2> QED  BY <1>1, <1>2, <2>1, <2>4, <2>5, <2>6, StatsFrame
<1> QED  BY <1>5, <1>6

LEMMA StatsCapture == ASSUME StatsInv, Stats!CaptureFrame PROVE StatsInv'
<1>1. StatsTypes /\ Unit \in Nat \ {0}  BY StatsNumbers DEF StatsInv
<1>2. /\ backend \notin Stats!Outputs /\ backend \notin Stats!Pulse /\ toMove > 0 /\ toMove' = toMove - 1
      /\ UNCHANGED <<backend, moved, blocks, block, starved, counters, loads, report, last, had, beside>>
  BY DEF Stats!CaptureFrame, Stats!statsVars
<1>3. Stats!Counted = block  BY <1>2 DEF Stats!Counted
<1>4. /\ held \in Nat /\ moved \in Nat /\ held <= CapacityFrames /\ took \in Nat /\ block \in Nat
      /\ CapacityFrames \in Nat /\ owed \in Numbers /\ owed.missed \in Nat /\ toMove \in Nat /\ toMove <= block
  BY <1>1, StatsAssumption DEF StatsTypes, Numbers, Stats!StatsAssumption
<1>5. CASE held < CapacityFrames
  <2>1. /\ held' = held + 1 /\ took' = took + 1
        /\ owed' = [processed |-> IF toMove' = 0 THEN block ELSE 0, missed |-> owed.missed + 0]
    BY <1>2, <1>3, <1>5 DEF Stats!CaptureFrame, Stats!Moving
  <2>2. owed' \in Numbers  BY <1>4, <2>1 DEF Numbers
  <2>3. held' \in Nat /\ held' <= CapacityFrames /\ took' \in Nat /\ toMove' \in Nat /\ toMove' <= block'
    BY <1>2, <1>4, <1>5, <2>1
  <2>4. StatsTypes'  BY <1>1, <1>2, <2>2, <2>3 DEF StatsTypes
  <2>5. Through' = Through + 1  BY <1>2, <1>4, <2>1 DEF Through
  <2>6. 0 = IF backend = "cpal_input" THEN 0 ELSE (1 - 1) * Unit  BY <1>1
  <2> QED  BY <1>2, <2>1, <2>4, <2>5, <2>6, StatsFrame
<1>6. CASE ~(held < CapacityFrames)
  <2> DEFINE lost == IF backend \in Stats!Cpal THEN 0 ELSE 1
  <2>1. /\ held' = held + 0 /\ took' = took + 0
        /\ owed' = [processed |-> IF toMove' = 0 THEN block ELSE 0, missed |-> owed.missed + lost]
    BY <1>2, <1>3, <1>6 DEF Stats!CaptureFrame, Stats!Moving
  <2>2. owed' \in Numbers  BY <1>4, <2>1 DEF Numbers
  <2>3. held' \in Nat /\ held' <= CapacityFrames /\ took' \in Nat /\ toMove' \in Nat /\ toMove' <= block'
    BY <1>2, <1>4, <2>1
  <2>4. StatsTypes'  BY <1>1, <1>2, <2>2, <2>3 DEF StatsTypes
  <2>5. Through' = Through + 0  BY <1>2, <1>4, <2>1 DEF Through
  <2>6. lost = IF backend = "cpal_input" THEN 0 ELSE (1 - 0) * Unit
    BY <1>1, <1>2 DEF StatsTypes, Stats!Outputs, Stats!Cpal, Unit
  <2> HIDE DEF lost
  <2>7. lost \in Nat  BY <1>1, <2>6
  <2> QED  BY <1>1, <1>2, <2>1, <2>4, <2>5, <2>6, <2>7, StatsFrame
<1> QED  BY <1>5, <1>6

\* PulseAudio's callbacks handle all they are given at once.
LEMMA StatsPulse ==
    ASSUME StatsInv, toMove > 0, backend \in Stats!Pulse, StatsTypes',
           NEW n \in Nat, NEW e \in Nat, n + e <= block,
           toMove' = 0, Through' = Through + n, took' = took + n,
           owed' = [processed |-> IF toMove' = 0 THEN took' ELSE 0, missed |-> owed.missed + e],
           UNCHANGED <<backend, moved, block, counters, loads, report, last, had, beside>>
    PROVE  StatsInv'
<1>1. /\ StatsTypes /\ Callback /\ Through \in Nat /\ counters.missed \in Nat /\ owed.missed \in Nat
      /\ counters.processed \in Nat /\ block \in Nat /\ toMove \in Nat
  BY StatsNumbers DEF StatsInv
<1>2. took = 0 /\ toMove = block /\ owed.processed = 0  BY DEF StatsInv, Callback
<1>3. took' = n /\ n <= block /\ block \in Nat \ {0}  BY <1>1, <1>2
<1>4. Unit = 1 /\ Unit' = 1  BY DEF Unit, Stats!Cpal, Stats!Pulse
<1>5. Handled = counters.processed /\ Handled' = counters.processed + n
  <2>1. owed'.processed = n  BY <1>3
  <2> QED  BY <1>1, <1>2, <1>3, <2>1 DEF Handled
<1>6. Balanced(Handled, Through, counters.missed + owed.missed)'
  <2>1. Handled = Through  BY DEF StatsInv, Balanced
  <2>2. Handled' = Through'  BY <1>1, <1>5, <2>1
  <2> QED  BY <2>2 DEF Balanced, Stats!Pulse
<1>7. n * Unit + e <= block * Unit  BY <1>1, <1>4
<1>8. toMove' = toMove - block  BY <1>1, <1>2
<1>9. owed' = [processed |-> IF toMove' = 0 THEN n ELSE 0, missed |-> owed.missed + e]  BY <1>3
<1> QED  BY <1>1, <1>3, <1>6, <1>7, <1>8, <1>9, StatsHandled

\* Nothing is in the ring without having been written, or read, before.
LEMMA StatsServe == ASSUME StatsInv, Stats!Serve PROVE StatsInv'
<1> DEFINE n == Stats!Min({block, held})
           e == IF held = 0 /\ ~starved THEN 1 ELSE 0
<1>1. /\ backend = "pulse_output" /\ toMove > 0 /\ toMove' = 0 /\ held' = held - n /\ took' = took + n
      /\ UNCHANGED <<backend, moved, blocks, block, counters, loads, report, last, had, beside>>
  BY DEF Stats!Serve, Stats!Moving, Stats!statsVars, Stats!Outputs
<1>2. owed' = [processed |-> IF toMove' = 0 THEN took' ELSE 0, missed |-> owed.missed + e]
  BY <1>1 DEF Stats!Serve, Stats!Moving, Stats!Counted, Stats!Pulse
<1>3. /\ StatsTypes /\ held \in Nat /\ moved \in Nat /\ held <= moved /\ held <= CapacityFrames /\ took \in Nat
      /\ block \in Nat /\ toMove \in Nat /\ toMove <= block /\ CapacityFrames \in Nat /\ owed.missed \in Nat
  BY <1>1, StatsAssumption DEF StatsInv, StatsTypes, Numbers, Stats!StatsAssumption, Stats!Outputs
<1>4. n \in Nat /\ n <= block /\ n <= held  BY <1>3, StatsLesserOfTwo
<1>5. e \in Nat /\ (e = 0 \/ (e = 1 /\ held = 0))  OBVIOUS
<1> HIDE DEF n, e
<1>6. n + e <= block  BY <1>1, <1>3, <1>4, <1>5
<1>7. held' \in Nat /\ held' <= CapacityFrames /\ held' <= moved' /\ took' \in Nat  BY <1>1, <1>3, <1>4
<1>8. owed' \in Numbers  BY <1>1, <1>2, <1>3, <1>5, <1>7 DEF Numbers
<1>9. StatsTypes'  BY <1>1, <1>3, <1>7, <1>8 DEF StatsTypes
<1>10. Through' = Through + n  BY <1>1, <1>3, <1>4 DEF Through, Stats!Outputs
<1>11. backend \in Stats!Pulse  BY <1>1 DEF Stats!Pulse
<1> QED  BY <1>1, <1>2, <1>4, <1>5, <1>6, <1>9, <1>10, <1>11, StatsPulse

LEMMA StatsAccept == ASSUME StatsInv, Stats!Accept PROVE StatsInv'
<1> DEFINE n == Stats!Min({block, CapacityFrames - held})
           e == IF block > CapacityFrames - held THEN 1 ELSE 0
<1>1. /\ backend = "pulse_input" /\ toMove > 0 /\ toMove' = 0 /\ held' = held + n /\ took' = took + n
      /\ UNCHANGED <<backend, moved, blocks, block, counters, loads, report, last, had, beside>>
  BY DEF Stats!Accept, Stats!Moving, Stats!statsVars, Stats!Outputs
<1>2. owed' = [processed |-> IF toMove' = 0 THEN took' ELSE 0, missed |-> owed.missed + e]
  BY <1>1 DEF Stats!Accept, Stats!Moving, Stats!Counted, Stats!Pulse
<1>3. /\ StatsTypes /\ held \in Nat /\ moved \in Nat /\ held <= CapacityFrames /\ took \in Nat
      /\ block \in Nat /\ toMove \in Nat /\ toMove <= block /\ CapacityFrames \in Nat /\ owed.missed \in Nat
      /\ CapacityFrames - held \in Nat
  BY <1>1, StatsAssumption DEF StatsInv, StatsTypes, Numbers, Stats!StatsAssumption
<1>4. n \in Nat /\ n <= block /\ n <= CapacityFrames - held  BY <1>3, StatsLesserOfTwo
<1>5. e \in Nat /\ (e = 0 \/ (e = 1 /\ CapacityFrames - held < block))  BY <1>3
<1> HIDE DEF n, e
<1>6. n + e <= block  BY <1>1, <1>3, <1>4, <1>5
<1>7. held' \in Nat /\ held' <= CapacityFrames /\ took' \in Nat  BY <1>1, <1>3, <1>4
<1>8. owed' \in Numbers  BY <1>1, <1>2, <1>3, <1>5, <1>7 DEF Numbers
<1>9. StatsTypes'  BY <1>1, <1>3, <1>7, <1>8 DEF StatsTypes, Stats!Outputs
<1>10. Through' = Through + n  BY <1>1, <1>3, <1>4 DEF Through, Stats!Outputs
<1>11. backend \in Stats!Pulse  BY <1>1 DEF Stats!Pulse
<1> QED  BY <1>1, <1>2, <1>4, <1>5, <1>6, <1>9, <1>10, <1>11, StatsPulse

\* A callback begins where the books are balanced.
LEMMA StatsBegin == ASSUME NEW n \in Blocks, StatsInv, Stats!Begin(n) PROVE StatsInv'
<1>1. /\ block = 0 /\ block' = n /\ toMove' = n /\ took' = 0 /\ blocks' = blocks + 1
      /\ beside' = (IF loads = {} THEN beside ELSE beside + n)
      /\ UNCHANGED <<backend, held, moved, owed, counters, loads, report, last, had>>
  BY DEF Stats!Begin, Stats!Idle, Stats!ringVars, Stats!statsVars
<1>2. /\ StatsTypes /\ Callback /\ Unit \in Nat \ {0} /\ Through \in Nat /\ counters.processed \in Nat
      /\ counters.missed \in Nat /\ n \in Nat \ {0} /\ beside \in Nat /\ toMove = 0
  BY <1>1, StatsNumbers, StatsAssumption DEF StatsInv, StatsTypes, Stats!StatsAssumption
<1>3. owed.processed = 0 /\ owed.missed = 0  BY <1>1, <1>2 DEF Callback, Stats!Nothing
<1>4. StatsTypes'
  <2>1. block' \in Nat /\ toMove' \in Nat /\ toMove' <= block' /\ took' \in Nat /\ beside' \in Nat /\ blocks' \in Nat
    BY <1>1, <1>2 DEF StatsTypes
  <2> QED  BY <1>1, <1>2, <2>1 DEF StatsTypes
<1>5. Callback'  BY <1>1, <1>2, <1>3 DEF Callback
<1>6. Rising'  BY <1>1 DEF StatsInv, Rising
<1>7. Unit' = Unit /\ Through' = Through /\ ToCount = 0 /\ ToCount' = n
  BY <1>1, <1>2 DEF Unit, Through, ToCount
<1>8. Handled = counters.processed /\ Handled' = counters.processed
  BY <1>1, <1>2, <1>3 DEF Handled
<1>9. Balanced(counters.processed, Through, counters.missed)
  BY <1>2, <1>3, <1>8 DEF StatsInv
<1>10. Balanced(Handled, Through, counters.missed + owed.missed)'
  BY <1>1, <1>2, <1>3, <1>7, <1>8, <1>9 DEF Balanced
<1>11. \E f, t, m \in Nat : Since(f, t, m, block)'
  <2>1. PICK f \in Nat, t \in Nat, m \in Nat : f = counters.processed /\ t = Through /\ m = counters.missed
    BY <1>2
  <2>2. Balanced(f, t, m)'  BY <1>1, <1>7, <1>9, <2>1 DEF Balanced
  <2>3. /\ counters'.processed = f /\ counters'.missed = m /\ Through' = t /\ owed'.processed = 0 /\ owed'.missed = 0
        /\ block' = n
    BY <1>1, <1>3, <1>7, <2>1
  <2>4. Since(f, t, m, block)'  BY <1>1, <1>2, <1>7, <2>2, <2>3, ProductNat DEF Since
  <2> QED  BY <2>4
<1>12. ASSUME loads' # {}
       PROVE  had' = moved' /\ \E f, t, m \in Nat : Since(f, t, m, beside)' /\ LoadedSince(f, t, m)'
  <2>1. PICK f \in Nat, t \in Nat, m \in Nat : Since(f, t, m, beside) /\ LoadedSince(f, t, m)
    BY <1>1, <1>12 DEF StatsInv
  <2>2. /\ Balanced(f, t, m) /\ f <= counters.processed /\ counters.processed <= f + beside
        /\ t <= Through /\ m <= counters.missed
        /\ Through * Unit + counters.missed <= t * Unit + m + beside * Unit
    <3>1. Since(f, t, m, beside)  BY <2>1
    <3>2. 0 * Unit = 0 /\ Through * Unit \in Nat  BY <1>2, ProductNat
    <3>3. /\ counters.processed + owed.processed + ToCount <= f + beside
          /\ Through * Unit + counters.missed + owed.missed + toMove * Unit <= t * Unit + m + beside * Unit
      BY <3>1 DEF Since
    <3>4. counters.processed <= f + beside  BY <1>2, <1>3, <1>7, <3>3
    <3>5. Through * Unit + counters.missed <= t * Unit + m + beside * Unit  BY <1>2, <1>3, <3>2, <3>3
    <3> QED  BY <3>1, <3>4, <3>5 DEF Since
  <2>3. beside' = beside + n  BY <1>1, <1>12
  <2>4. beside' * Unit' = beside * Unit + n * Unit /\ toMove' * Unit' = n * Unit /\ Through' * Unit' = Through * Unit
    BY <1>1, <1>2, <1>7, <2>3
  <2>5. Balanced(f, t, m)'  BY <1>1, <1>7, <2>2 DEF Balanced
  <2>6. /\ counters' = counters /\ owed'.processed = 0 /\ owed'.missed = 0 /\ ToCount' = n /\ Through' = Through
        /\ Unit' = Unit
    BY <1>1, <1>3, <1>7
  <2>7. beside * Unit \in Nat /\ n * Unit \in Nat /\ Through * Unit \in Nat /\ t * Unit \in Nat  BY <1>2, ProductNat
  <2>8. Since(f, t, m, beside)'
    <3>1. counters'.processed + owed'.processed + ToCount' <= f + beside'  BY <1>2, <2>2, <2>3, <2>6
    <3>2. Through' * Unit' + counters'.missed + owed'.missed + toMove' * Unit' <= t * Unit' + m + beside' * Unit'
      <4>1. Through * Unit + counters.missed + n * Unit <= t * Unit + m + (beside * Unit + n * Unit)
        BY <1>2, <2>2, <2>7
      <4> QED  BY <1>2, <2>4, <2>6, <2>7, <4>1
    <3> QED  BY <2>2, <2>5, <2>6, <3>1, <3>2 DEF Since
  <2>9. LoadedSince(f, t, m)'  BY <1>1, <1>7, <2>1 DEF LoadedSince
  <2>10. had' = moved'  BY <1>1, <1>12 DEF StatsInv
  <2> QED  BY <2>8, <2>9, <2>10
<1>13. Stats!StatsAddUp'
  <2>1. CASE loads = {}  BY <1>1, <2>1, ToldStands DEF StatsInv
  <2>2. CASE loads # {}  BY <1>1, <2>2 DEF Stats!StatsAddUp
  <2> QED  BY <2>1, <2>2
<1> QED  BY <1>4, <1>5, <1>6, <1>10, <1>11, <1>12, <1>13 DEF StatsInv

LEMMA StatsAdd == ASSUME NEW field \in {"processed", "missed"}, StatsInv, Stats!Add(field) PROVE StatsInv'
<1>1. /\ owed[field] > 0
      /\ counters' = [counters EXCEPT ![field] = counters[field] + owed[field]]
      /\ owed' = [owed EXCEPT ![field] = 0]
      /\ UNCHANGED <<backend, held, moved, blocks, block, toMove, took, loads, report, last, had, beside>>
  BY DEF Stats!Add, Stats!ringVars, Stats!statsVars
<1>2. /\ StatsTypes /\ Callback /\ Unit \in Nat \ {0} /\ Through \in Nat /\ counters \in Numbers /\ owed \in Numbers
      /\ counters.processed \in Nat /\ counters.missed \in Nat /\ owed.processed \in Nat /\ owed.missed \in Nat
      /\ block \in Nat /\ toMove \in Nat /\ beside \in Nat
  BY StatsNumbers DEF StatsInv, StatsTypes
<1>3. /\ counters' \in Numbers /\ owed' \in Numbers
      /\ counters'.processed \in Nat /\ counters'.missed \in Nat /\ owed'.processed \in Nat /\ owed'.missed \in Nat
      /\ counters'.processed + owed'.processed = counters.processed + owed.processed
      /\ counters'.missed + owed'.missed = counters.missed + owed.missed
      /\ counters.processed <= counters'.processed /\ counters.missed <= counters'.missed
      /\ toMove > 0 => owed'.processed = 0
  <2>1. CASE field = "processed"
    <3>1. /\ counters' = [processed |-> counters.processed + owed.processed, missed |-> counters.missed]
          /\ owed' = [processed |-> 0, missed |-> owed.missed]
      BY <1>1, <1>2, <2>1 DEF Numbers
    <3> QED  BY <1>2, <3>1 DEF Numbers, Callback
  <2>2. CASE field = "missed"
    <3>1. /\ counters' = [processed |-> counters.processed, missed |-> counters.missed + owed.missed]
          /\ owed' = [processed |-> owed.processed, missed |-> 0]
      BY <1>1, <1>2, <2>2 DEF Numbers
    <3> QED  BY <1>2, <3>1 DEF Numbers, Callback
  <2> QED  BY <2>1, <2>2
<1>4. StatsTypes'  BY <1>1, <1>2, <1>3 DEF StatsTypes
<1>5. block # 0
  <2> SUFFICES ASSUME block = 0 PROVE FALSE  OBVIOUS
  <2>1. owed = [processed |-> 0, missed |-> 0]  BY <1>2 DEF Callback, Stats!Nothing
  <2> QED  BY <1>1, <2>1
<1>6. Callback'  BY <1>1, <1>2, <1>3, <1>5 DEF Callback
<1>7. Rising'
  <2>1. report.processed <= counters'.processed /\ report.missed <= counters'.missed
    BY <1>2, <1>3 DEF StatsInv, StatsTypes, Reports, Rising
  <2> QED  BY <1>1, <2>1 DEF StatsInv, Rising
<1>8. Unit' = Unit /\ Through' = Through /\ ToCount' = ToCount /\ ToCount \in Nat
  BY <1>1, <1>2 DEF Unit, Through, ToCount
<1>9. Handled' = Handled  BY <1>1, <1>2, <1>3 DEF Handled
<1>10. Balanced(Handled, Through, counters.missed + owed.missed)'
  BY <1>1, <1>3, <1>8, <1>9 DEF StatsInv, Balanced
<1>11. ASSUME NEW f \in Nat, NEW t \in Nat, NEW m \in Nat, NEW n \in Nat, Since(f, t, m, n)
       PROVE  Since(f, t, m, n)'
  <2>1. /\ f <= counters.processed /\ counters.processed + owed.processed + ToCount <= f + n
        /\ t <= Through /\ m <= counters.missed /\ Balanced(f, t, m)
    BY <1>11 DEF Since
  <2>2. f <= counters'.processed /\ m <= counters'.missed  BY <1>2, <1>3, <2>1
  <2>3. counters'.processed + owed'.processed + ToCount' <= f + n  BY <1>3, <1>8, <2>1
  <2>4. Through * Unit + counters.missed + owed.missed + toMove * Unit <= t * Unit + m + n * Unit
    BY <1>11 DEF Since
  <2>5. Through * Unit \in Nat /\ toMove * Unit \in Nat  BY <1>2, ProductNat
  <2>6. Through * Unit + counters.missed + owed.missed + toMove * Unit =
        Through * Unit + counters'.missed + owed'.missed + toMove * Unit
    BY <1>2, <1>3, <2>5
  <2>7. Through' * Unit' + counters'.missed + owed'.missed + toMove' * Unit' <= t * Unit' + m + n * Unit'
    BY <1>1, <1>8, <2>4, <2>6
  <2>8. Balanced(f, t, m)'  BY <1>1, <1>8, <2>1 DEF Balanced
  <2> QED  BY <1>8, <2>1, <2>2, <2>3, <2>7, <2>8 DEF Since
<1>12. \E f, t, m \in Nat : Since(f, t, m, block)'
  <2>1. PICK n \in Nat : n = block /\ n = block'  BY <1>1, <1>2
  <2>2. PICK f \in Nat, t \in Nat, m \in Nat : Since(f, t, m, n)  BY <2>1 DEF StatsInv
  <2>3. Since(f, t, m, n)'  BY <1>11, <2>2
  <2> QED  BY <2>1, <2>3
<1>13. ASSUME loads' # {}
       PROVE  had' = moved' /\ \E f, t, m \in Nat : Since(f, t, m, beside)' /\ LoadedSince(f, t, m)'
  <2>1. PICK n \in Nat : n = beside /\ n = beside'  BY <1>1, <1>2
  <2>2. PICK f \in Nat, t \in Nat, m \in Nat : Since(f, t, m, n) /\ LoadedSince(f, t, m)
    BY <1>1, <1>13, <2>1 DEF StatsInv
  <2>3. Since(f, t, m, n)'  BY <1>11, <2>2
  <2>4. LoadedSince(f, t, m)'  BY <1>1, <1>8, <2>2 DEF LoadedSince
  <2>5. had' = moved'  BY <1>1, <1>13 DEF StatsInv
  <2> QED  BY <2>1, <2>3, <2>4, <2>5
<1>14. Stats!StatsAddUp'  BY <1>1, ToldStands DEF StatsInv
<1> QED  BY <1>4, <1>6, <1>7, <1>10, <1>12, <1>13, <1>14 DEF StatsInv

LEMMA StatsEnd == ASSUME StatsInv, Stats!End PROVE StatsInv'
<1>1. /\ block > 0 /\ toMove = 0 /\ owed = Stats!Nothing /\ block' = 0
      /\ UNCHANGED <<backend, held, moved, blocks, toMove, took, owed, starved, counters, loads, report, last,
                     had, beside>>
  BY DEF Stats!End, Stats!ringVars, Stats!statsVars
<1>2. /\ StatsTypes /\ Callback /\ Unit \in Nat \ {0} /\ Through \in Nat
      /\ counters.processed \in Nat /\ counters.missed \in Nat /\ beside \in Nat
  BY StatsNumbers DEF StatsInv, StatsTypes
<1>3. owed.processed = 0 /\ owed.missed = 0  BY <1>1 DEF Stats!Nothing
<1>4. StatsTypes'  BY <1>1, <1>2 DEF StatsTypes
<1>5. Callback' /\ Rising'  BY <1>1 DEF StatsInv, Callback, Rising
<1>6. Unit' = Unit /\ Through' = Through /\ ToCount = 0 /\ ToCount' = 0
  BY <1>1, <1>2 DEF Unit, Through, ToCount
<1>7. Handled = counters.processed /\ Handled' = counters.processed  BY <1>1, <1>2, <1>3 DEF Handled
<1>8. Balanced(counters.processed, Through, counters.missed)  BY <1>2, <1>3, <1>7 DEF StatsInv
<1>9. Balanced(Handled, Through, counters.missed + owed.missed)'
  BY <1>1, <1>2, <1>3, <1>6, <1>7, <1>8 DEF Balanced
<1>10. \E f, t, m \in Nat : Since(f, t, m, block)'
  <2>1. PICK f \in Nat, t \in Nat, m \in Nat : f = counters.processed /\ t = Through /\ m = counters.missed
    BY <1>2
  <2>2. Balanced(f, t, m)'  BY <1>1, <1>6, <1>8, <2>1 DEF Balanced
  <2>3. /\ counters'.processed = f /\ counters'.missed = m /\ Through' = t /\ owed'.processed = 0 /\ owed'.missed = 0
        /\ block' = 0 /\ toMove' = 0
    BY <1>1, <1>3, <1>6, <2>1
  <2>4. 0 * Unit = 0 /\ t * Unit \in Nat  BY <1>2, ProductNat
  <2>5. t * Unit' + m + 0 + 0 * Unit' <= t * Unit' + m + 0 * Unit'  BY <1>6, <2>4
  <2>6. Since(f, t, m, block)'  BY <1>6, <2>2, <2>3, <2>5 DEF Since
  <2> QED  BY <2>6
<1>11. ASSUME loads' # {}
       PROVE  had' = moved' /\ \E f, t, m \in Nat : Since(f, t, m, beside)' /\ LoadedSince(f, t, m)'
  <2>1. PICK f \in Nat, t \in Nat, m \in Nat : Since(f, t, m, beside) /\ LoadedSince(f, t, m)
    BY <1>1, <1>11 DEF StatsInv
  <2>2. Since(f, t, m, beside)'  BY <1>1, <1>6, <2>1 DEF Since, Balanced
  <2>3. LoadedSince(f, t, m)'  BY <1>1, <1>6, <2>1 DEF LoadedSince
  <2>4. had' = moved'  BY <1>1, <1>11 DEF StatsInv
  <2> QED  BY <2>2, <2>3, <2>4
<1>12. Stats!StatsAddUp'  BY <1>1, ToldStands DEF StatsInv
<1> QED  BY <1>4, <1>5, <1>9, <1>10, <1>11, <1>12 DEF StatsInv

\* A stats() begins where the callback under way began.
LEMMA StatsStart == ASSUME StatsInv, Stats!StartStats PROVE StatsInv'
<1>1. /\ loads = {} /\ loads' = {"processed", "missed", "latency"}
      /\ last' = report /\ had' = moved /\ beside' = block
      /\ UNCHANGED <<backend, held, moved, blocks, block, toMove, took, owed, starved, counters, report>>
  BY DEF Stats!StartStats, Stats!ringVars, Stats!callbackVars, Stats!Empty
<1>2. StatsTypes /\ moved \in Nat /\ block \in Nat  BY DEF StatsInv, StatsTypes
<1>3. StatsTypes'  BY <1>1, <1>2 DEF StatsTypes
<1>4. Callback'  BY <1>1 DEF StatsInv, Callback
<1>5. Rising'  BY <1>1, <1>2 DEF StatsInv, Rising, StatsTypes, Reports
<1>6. Through' = Through  BY <1>1 DEF Through
<1>7. Balanced(Handled, Through, counters.missed + owed.missed)'  BY <1>1, <1>6, BooksStand
<1>8. PICK n \in Nat : n = block /\ n = block' /\ n = beside'  BY <1>1, <1>2
<1>9. PICK f \in Nat, t \in Nat, m \in Nat : Since(f, t, m, n)  BY <1>8 DEF StatsInv
<1>10. Since(f, t, m, n)'  BY <1>1, <1>6, <1>9, BooksStand
<1>11. LoadedSince(f, t, m)'  BY <1>1 DEF LoadedSince
<1>12. Stats!StatsAddUp'  BY <1>1 DEF Stats!StatsAddUp
<1>13. had' = moved'  BY <1>1
<1> QED  BY <1>3, <1>4, <1>5, <1>7, <1>8, <1>10, <1>11, <1>12, <1>13 DEF StatsInv

LEMMA ProductRises ==
    ASSUME NEW a \in Int, NEW b \in Int, NEW u \in Nat, a <= b
    PROVE  a * u <= b * u /\ a * u \in Int /\ b * u \in Int
<1>1. (b - a) * u \in Nat  BY ProductNat
<1>2. (b - a) * u = b * u - a * u  OBVIOUS
<1> QED  BY <1>1, <1>2

\* The sums of what has been told, where all was true since the books balanced at f, t and m
\* and no more than b frames were handled since.
LEMMA Sums ==
    ASSUME NEW u \in Nat \ {0}, NEW f \in Nat, NEW t \in Nat, NEW m \in Nat, NEW b \in Nat, NEW thru \in Nat,
           NEW processed \in Nat, NEW missed \in Nat, NEW told \in Int, NEW most \in Nat,
           f <= processed, processed <= f + b, t <= told, told <= thru, m <= most,
           thru * u + most <= t * u + m + b * u
    PROVE  /\ processed * u <= f * u + b * u /\ f * u <= processed * u
           /\ told * u <= t * u + b * u /\ t * u <= told * u
           /\ m <= missed /\ missed <= most => told * u + missed <= t * u + m + b * u
           /\ thru * u <= t * u + b * u
<1>1. f + b \in Int /\ (f + b) * u = f * u + b * u  OBVIOUS
<1>2. processed * u <= (f + b) * u /\ f * u <= processed * u  BY ProductRises, <1>1
<1>3. told * u <= thru * u /\ t * u <= told * u /\ told * u \in Int /\ thru * u \in Int /\ t * u \in Int
  BY ProductRises
<1>4. b * u \in Int  BY ProductNat
<1>5. told * u <= t * u + b * u /\ thru * u <= t * u + b * u  BY <1>3, <1>4
<1>6. m <= missed /\ missed <= most => told * u + missed <= t * u + m + b * u  BY <1>3, <1>4
<1> QED  BY <1>1, <1>2, <1>3, <1>5, <1>6

\* Once all is loaded, the numbers add up.
LEMMA StatsSum ==
    ASSUME StatsInv, loads # {}, loads' = {}, StatsTypes', Rising',
           UNCHANGED <<backend, held, moved, block, toMove, owed, counters, had, beside>>,
           NEW f \in Nat, NEW t \in Nat, NEW m \in Nat, Since(f, t, m, beside), LoadedSince(f, t, m)'
    PROVE  Stats!StatsAddUp'
<1> DEFINE r == report'
           reach == beside * Unit
<1>1. /\ StatsTypes /\ Unit \in Nat \ {0} /\ Through \in Nat /\ Through' = Through /\ Unit' = Unit
      /\ counters.processed \in Nat /\ counters.missed \in Nat /\ owed.processed \in Nat /\ owed.missed \in Nat
      /\ toMove \in Nat /\ block \in Nat /\ ToCount \in Nat /\ beside \in Nat /\ had = moved /\ moved \in Nat
      /\ held \in Nat /\ held <= CapacityFrames /\ Channels \in Nat \ {0} /\ CapacityFrames \in Nat
  BY StatsNumbers, StatsAssumption DEF StatsInv, Unit, Through, ToCount, StatsTypes, Stats!StatsAssumption
<1>2. r.processed \in Nat /\ r.missed \in Nat /\ r.latency \in Nat /\ last'.processed \in Nat /\ last'.missed \in Nat
  BY DEF StatsTypes, Reports
<1>3. /\ last'.processed <= r.processed /\ last'.missed <= r.missed
      /\ r.processed <= counters.processed /\ r.missed <= counters.missed
      /\ backend = "cpal_input" => r.missed = 0
  BY DEF Rising
<1>4. /\ f <= r.processed
      /\ backend = "cpal_input" \/ m <= r.missed
      /\ backend \notin Stats!Jack =>
         \E q \in Nat : /\ r.latency = q * Unit
                        /\ LET told == IF backend \in Stats!Outputs THEN moved - q ELSE moved + q
                           IN  t <= told /\ told <= Through
  BY <1>1 DEF LoadedSince
<1>5. /\ Balanced(f, t, m) /\ t <= Through /\ m <= counters.missed
      /\ counters.processed + owed.processed + ToCount <= f + beside
      /\ Through * Unit + counters.missed + owed.missed + toMove * Unit <= t * Unit + m + reach
  BY DEF Since
<1>6. /\ Through * Unit \in Nat /\ toMove * Unit \in Nat /\ t * Unit \in Nat /\ f * Unit \in Nat /\ reach \in Nat
      /\ moved * Unit \in Nat /\ r.processed * Unit \in Nat
  BY <1>1, <1>2, ProductNat
<1> HIDE DEF r, reach
<1>7. r.processed <= f + beside  BY <1>1, <1>2, <1>3, <1>5
<1>8. Through * Unit + counters.missed <= t * Unit + m + reach  BY <1>1, <1>5, <1>6
<1>9. /\ report' = r /\ had' = had /\ beside' = beside /\ backend' = backend /\ CapacityFrames \in Nat
      /\ had \in Nat /\ held \in Nat /\ held <= CapacityFrames /\ beside \in Nat /\ r.processed \in Nat
      /\ r.missed \in Nat /\ f <= r.processed
  BY <1>1, <1>2, <1>4 DEF r
<1>10. beside <= beside * Channels /\ beside * Channels \in Nat
  <2>1. beside * 1 <= beside * Channels
    <3>1. 1 <= Channels /\ 1 \in Int /\ Channels \in Int  BY <1>1
    <3>2. 1 * beside <= Channels * beside  BY <1>1, <3>1, ProductRises
    <3> QED  BY <1>1, <3>2
  <2> QED  BY <1>1, <2>1, ProductNat
<1>11. CASE backend \notin Stats!Jack
  <2>1. PICK q \in Nat : /\ r.latency = q * Unit
                         /\ LET told == IF backend \in Stats!Outputs THEN moved - q ELSE moved + q
                            IN  t <= told /\ told <= Through
    BY <1>4, <1>11
  <2> DEFINE told == IF backend \in Stats!Outputs THEN moved - q ELSE moved + q
  <2>2. t <= told /\ told <= Through /\ told \in Int  BY <1>1, <2>1
  <2>3. q * Unit \in Nat /\ told * Unit = IF backend \in Stats!Outputs THEN moved * Unit - r.latency
                                                                       ELSE moved * Unit + r.latency
    <3>1. q * Unit \in Nat  BY <1>1, ProductNat
    <3>2. CASE backend \in Stats!Outputs
      <4>1. (moved - q) * Unit = moved * Unit - q * Unit  BY <1>1
      <4> QED  BY <2>1, <3>1, <3>2, <4>1
    <3>3. CASE backend \notin Stats!Outputs
      <4>1. (moved + q) * Unit = moved * Unit + q * Unit  BY <1>1
      <4> QED  BY <2>1, <3>1, <3>3, <4>1
    <3> QED  BY <3>1, <3>2, <3>3
  <2> HIDE DEF told
  <2>4. /\ r.processed * Unit <= f * Unit + reach /\ f * Unit <= r.processed * Unit
        /\ told * Unit <= t * Unit + reach /\ t * Unit <= told * Unit
        /\ m <= r.missed /\ r.missed <= counters.missed => told * Unit + r.missed <= t * Unit + m + reach
    <3>1. /\ Unit \in Nat \ {0} /\ Through \in Nat /\ r.processed \in Nat /\ r.missed \in Nat /\ counters.missed \in Nat
          /\ beside \in Nat /\ told \in Int
          /\ f <= r.processed /\ r.processed <= f + beside /\ t <= told /\ told <= Through /\ m <= counters.missed
      BY <1>1, <1>2, <1>4, <1>5, <1>7, <2>2
    <3>2. Through * Unit + counters.missed <= t * Unit + m + beside * Unit  BY <1>8 DEF reach
    <3> QED  BY <3>1, <3>2, Sums DEF reach
  <2>5. told * Unit \in Int  BY <1>1, <2>2
  <2>6. CASE backend = "pulse_output"
    <3>1. Unit = 1 /\ f = t  BY <1>5, <2>6 DEF Unit, Balanced, Stats!Pulse, Stats!Cpal
    <3>2. told = moved - r.latency  BY <1>1, <1>2, <2>2, <2>3, <2>6, <3>1 DEF Stats!Outputs
    <3>3. /\ r.processed <= t + beside /\ t <= r.processed /\ told <= t + beside /\ t <= told
      BY <1>1, <1>2, <1>4, <1>7, <2>2, <2>4, <3>1 DEF reach
    <3>4. /\ r.processed + r.latency - had <= beside * Channels
          /\ had - (r.processed + r.latency) <= beside * Channels
      BY <1>1, <1>2, <1>10, <2>2, <3>2, <3>3
    <3>5. Stats!Within(report.processed + report.latency, had)'  BY <1>1, <1>2, <1>9, <3>4 DEF Stats!Within
    <3> QED  BY <1>3, <1>9, <2>6, <3>5 DEF Stats!StatsAddUp
  <2>7. CASE backend = "pulse_input"
    <3>1. Unit = 1 /\ f = t  BY <1>5, <2>7 DEF Unit, Balanced, Stats!Pulse, Stats!Cpal
    <3>2. told = moved + r.latency  BY <1>1, <1>2, <2>2, <2>3, <2>7, <3>1 DEF Stats!Outputs
    <3>3. /\ r.processed <= t + beside /\ t <= r.processed /\ told <= t + beside /\ t <= told
      BY <1>1, <1>2, <1>4, <1>7, <2>2, <2>4, <3>1 DEF reach
    <3>4. /\ r.processed - (had + r.latency) <= beside * Channels
          /\ had + r.latency - r.processed <= beside * Channels
      BY <1>1, <1>2, <1>10, <2>2, <3>2, <3>3
    <3>5. Stats!Within(report.processed, had + report.latency)'  BY <1>1, <1>2, <1>9, <3>4 DEF Stats!Within
    <3> QED  BY <1>3, <1>9, <2>7, <3>5 DEF Stats!StatsAddUp
  <2>8. CASE backend = "cpal_output"
    <3>1. Unit = Channels /\ f * Unit = t * Unit + m  BY <1>5, <2>8 DEF Unit, Balanced, Stats!Cpal
    <3>2. told * Unit = moved * Unit - r.latency  BY <2>3, <2>8 DEF Stats!Outputs
    <3>3. m <= r.missed /\ told * Unit + r.missed <= t * Unit + m + reach  BY <1>3, <1>4, <2>4, <2>8
    <3>4. /\ r.processed * Unit + r.latency - (moved * Unit + r.missed) <= reach
          /\ moved * Unit + r.missed - (r.processed * Unit + r.latency) <= reach
      BY <1>2, <1>6, <2>4, <2>5, <3>1, <3>2, <3>3
    <3>5. Stats!Within(report.processed * Channels + report.latency, had * Channels + report.missed)'
      BY <1>1, <1>2, <1>6, <1>9, <3>1, <3>4 DEF reach, Stats!Within
    <3> QED  BY <1>3, <1>9, <2>8, <3>5 DEF Stats!StatsAddUp
  <2>9. CASE backend = "cpal_input"
    <3>1. Unit = Channels /\ t <= f  BY <1>5, <2>9 DEF Unit, Balanced, Stats!Cpal
    <3>2. told * Unit = moved * Unit + r.latency  BY <2>3, <2>9 DEF Stats!Outputs
    <3>3. t * Unit <= f * Unit  BY <1>1, <3>1, ProductRises
    <3>4. moved * Unit + r.latency <= r.processed * Unit + reach  BY <1>2, <1>6, <2>4, <2>5, <3>2, <3>3
    <3>5. (r.processed + beside) * Unit = r.processed * Unit + reach  BY <1>1, <1>2 DEF reach
    <3> QED  BY <1>1, <1>3, <2>9, <3>1, <3>4, <3>5 DEF r, Stats!StatsAddUp
  <2> QED  BY <1>1, <1>11, <2>6, <2>7, <2>8, <2>9 DEF StatsTypes, Stats!Outputs, Stats!Jack
<1>12. CASE backend \in Stats!Jack
  <2>1. Unit = 1 /\ f * Unit = t * Unit + m  BY <1>5, <1>12 DEF Unit, Balanced, Stats!Jack, Stats!Cpal
  <2>2. f = t + m /\ reach = beside  BY <1>1, <2>1 DEF reach
  <2>3. m <= r.missed  BY <1>4, <1>12 DEF Stats!Jack
  <2>4. Through + r.missed <= f + beside /\ f <= Through + r.missed
    <3>1. Through + counters.missed <= t + m + beside /\ r.missed <= counters.missed /\ t <= Through
      BY <1>1, <1>3, <1>5, <1>8, <2>1, <2>2
    <3>2. Through \in Nat /\ counters.missed \in Nat  BY <1>1
    <3> QED  BY <1>9, <2>2, <2>3, <3>1, <3>2
  <2>5. CASE backend = "jack_output"
    <3>1. Through = had - held  BY <1>1, <2>5 DEF Through, Stats!Outputs
    <3>2. r.processed <= had + r.missed + beside /\ had + r.missed <= r.processed + CapacityFrames + beside
      BY <1>7, <1>9, <2>4, <3>1
    <3> QED  BY <1>3, <2>5, <3>2 DEF r, Stats!StatsAddUp
  <2>6. CASE backend = "jack_input"
    <3>1. Through = had + held  BY <1>1, <2>6 DEF Through, Stats!Outputs
    <3>2. had + r.missed <= r.processed + beside /\ r.processed <= had + CapacityFrames + r.missed + beside
      BY <1>7, <1>9, <2>4, <3>1
    <3> QED  BY <1>3, <2>6, <3>2 DEF r, Stats!StatsAddUp
  <2> QED  BY <1>12, <2>5, <2>6 DEF Stats!Jack
<1> QED  BY <1>11, <1>12

LEMMA StatsLoad ==
    ASSUME NEW field \in {"processed", "missed", "latency"}, StatsInv, Stats!Load(field) PROVE StatsInv'
<1> DEFINE lost == IF backend = "cpal_input" THEN 0 ELSE counters.missed
           level == IF backend \in Stats!Jack THEN 0 ELSE held * Unit
<1>1. /\ field \in loads /\ loads' = loads \ {field}
      /\ report' = [report EXCEPT ![field] = Stats!Stats[backend][field]]
      /\ UNCHANGED <<backend, held, moved, blocks, block, toMove, took, owed, starved, counters, last, had, beside>>
  BY DEF Stats!Load, Stats!ringVars, Stats!callbackVars
<1>2. /\ StatsTypes /\ Callback /\ Rising /\ Unit \in Nat \ {0} /\ Through \in Nat /\ counters.processed \in Nat
      /\ counters.missed \in Nat /\ held \in Nat /\ report \in Reports /\ moved \in Nat /\ last \in Reports
  BY StatsNumbers DEF StatsInv, StatsTypes
<1>3. held * Unit \in Nat /\ held * 1 = held  BY <1>2, ProductNat
<1>4. Stats!Stats[backend] = [processed |-> counters.processed, missed |-> lost, latency |-> level]
  BY <1>2, <1>3 DEF StatsTypes, Stats!Stats, Stats!CpalOutputStats, Stats!CpalInputStats, Stats!JackOutputStats,
     Stats!JackInputStats, Stats!PulseOutputStats, Stats!PulseInputStats, Stats!Told, Stats!OccupiedSamples,
     Stats!LatencyFrames, Stats!Outputs, Stats!Jack, Stats!Cpal, Unit
<1>5. lost \in Nat /\ level \in Nat /\ (backend = "cpal_input" => lost = 0) /\ lost <= counters.missed
      /\ (backend \notin Stats!Jack => level = held * Unit) /\ (backend # "cpal_input" => lost = counters.missed)
  BY <1>2, <1>3
<1> HIDE DEF lost, level
<1>6. /\ report.processed \in Nat /\ report.missed \in Nat /\ report.latency \in Nat
      /\ last.processed \in Nat /\ last.missed \in Nat
  BY <1>2 DEF Reports
<1>7. /\ Stats!Stats[backend]["processed"] = counters.processed
      /\ Stats!Stats[backend]["missed"] = lost
      /\ Stats!Stats[backend]["latency"] = level
  BY <1>4
<1>8. /\ report'.processed = IF field = "processed" THEN counters.processed ELSE report.processed
      /\ report'.missed = IF field = "missed" THEN lost ELSE report.missed
      /\ report'.latency = IF field = "latency" THEN level ELSE report.latency
      /\ report' \in Reports
  <2>1. CASE field = "processed"
    <3>1. report' = [processed |-> counters.processed, missed |-> report.missed, latency |-> report.latency]
      BY <1>1, <1>2, <1>7, <2>1 DEF Reports
    <3> QED  BY <1>2, <1>6, <2>1, <3>1 DEF Reports
  <2>2. CASE field = "missed"
    <3>1. report' = [processed |-> report.processed, missed |-> lost, latency |-> report.latency]
      BY <1>1, <1>2, <1>7, <2>2 DEF Reports
    <3> QED  BY <1>5, <1>6, <2>2, <3>1 DEF Reports
  <2>3. CASE field = "latency"
    <3>1. report' = [processed |-> report.processed, missed |-> report.missed, latency |-> level]
      BY <1>1, <1>2, <1>7, <2>3 DEF Reports
    <3> QED  BY <1>5, <1>6, <2>3, <3>1 DEF Reports
  <2> QED  BY <2>1, <2>2, <2>3
<1>9. StatsTypes'  BY <1>1, <1>2, <1>8 DEF StatsTypes
<1>10. Callback'  BY <1>1, <1>2 DEF Callback
<1>11. Rising'
  <2>1. /\ last.processed <= report.processed /\ report.processed <= counters.processed
        /\ last.missed <= report.missed /\ report.missed <= counters.missed
        /\ backend = "cpal_input" => report.missed = 0
    BY <1>2 DEF Rising
  <2>2. last.processed <= report'.processed /\ report'.processed <= counters.processed
    BY <1>2, <1>6, <1>8, <2>1
  <2>3. last.missed <= report'.missed /\ report'.missed <= counters.missed
    BY <1>2, <1>5, <1>6, <1>8, <2>1
  <2>4. backend = "cpal_input" => report'.missed = 0  BY <1>5, <1>8, <2>1
  <2> QED  BY <1>1, <2>2, <2>3, <2>4 DEF Rising
<1>12. Through' = Through /\ Unit' = Unit  BY <1>1 DEF Through, Unit
<1>13. Balanced(Handled, Through, counters.missed + owed.missed)'  BY <1>1, <1>12, BooksStand
<1>14. PICK n \in Nat : n = block /\ n = block'  BY <1>1, <1>2 DEF StatsTypes
<1>15. \E f, t, m \in Nat : Since(f, t, m, block)'
  <2>1. PICK f \in Nat, t \in Nat, m \in Nat : Since(f, t, m, n)  BY <1>14 DEF StatsInv
  <2>2. Since(f, t, m, n)'  BY <1>1, <1>12, <2>1, BooksStand
  <2> QED  BY <1>14, <2>2
<1>16. PICK b \in Nat : b = beside /\ b = beside'  BY <1>1, <1>2 DEF StatsTypes
<1>17. PICK f \in Nat, t \in Nat, m \in Nat : Since(f, t, m, b) /\ LoadedSince(f, t, m) /\ had = moved
  BY <1>1, <1>16 DEF StatsInv
<1>18. Since(f, t, m, b)'  BY <1>1, <1>12, <1>17, BooksStand
<1>19. LoadedSince(f, t, m)'
  <2>1. f <= counters.processed /\ t <= Through /\ m <= counters.missed  BY <1>17 DEF Since
  <2>2. "processed" \notin loads' => f <= report'.processed  BY <1>1, <1>8, <1>17, <2>1 DEF LoadedSince
  <2>3. "missed" \notin loads' => backend' = "cpal_input" \/ m <= report'.missed
    BY <1>1, <1>5, <1>8, <1>17, <2>1 DEF LoadedSince
  <2>4. ASSUME "latency" \notin loads', backend' \notin Stats!Jack
        PROVE  \E q \in Nat : /\ report'.latency = q * Unit'
                              /\ LET told == IF backend' \in Stats!Outputs THEN moved' - q ELSE moved' + q
                                 IN  t <= told /\ told <= Through'
    <3>1. CASE field = "latency"
      <4>1. report'.latency = held * Unit'  BY <1>1, <1>5, <1>8, <1>12, <2>4, <3>1
      <4>2. Through' = IF backend' \in Stats!Outputs THEN moved' - held ELSE moved' + held
        BY <1>1, <1>12 DEF Through
      <4>3. t <= Through' /\ Through' \in Int  BY <1>2, <1>12, <2>1
      <4> QED  BY <1>2, <4>1, <4>2, <4>3
    <3>2. CASE field # "latency"
      <4>1. "latency" \notin loads /\ backend \notin Stats!Jack /\ report'.latency = report.latency
        BY <1>1, <1>8, <2>4, <3>2
      <4> QED  BY <1>1, <1>12, <1>17, <4>1 DEF LoadedSince
    <3> QED  BY <3>1, <3>2
  <2> QED  BY <2>2, <2>3, <2>4 DEF LoadedSince
<1>20. Stats!StatsAddUp'
  <2>1. CASE loads' # {}  BY <2>1 DEF Stats!StatsAddUp
  <2>2. CASE loads' = {}
    <3>1. Since(f, t, m, beside) /\ loads # {}  BY <1>1, <1>16, <1>17
    <3> QED  BY <1>1, <1>9, <1>11, <1>19, <2>2, <3>1, StatsSum
  <2> QED  BY <2>1, <2>2
<1>21. had' = moved'  BY <1>1, <1>17
<1> QED  BY <1>9, <1>10, <1>11, <1>13, <1>15, <1>16, <1>18, <1>19, <1>20, <1>21 DEF StatsInv

LEMMA StatsStands ==
    ASSUME StatsInv, UNCHANGED (Stats!vars) PROVE StatsInv'
<1>1. UNCHANGED <<backend, held, moved, blocks, block, toMove, took, owed, counters, loads, report, last, had, beside>>
  BY DEF Stats!vars, Stats!ringVars, Stats!callbackVars, Stats!statsVars
<1>2. StatsTypes /\ Callback /\ Rising  BY DEF StatsInv
<1>3. StatsTypes'  BY <1>1, <1>2 DEF StatsTypes
<1>4. Callback' /\ Rising'  BY <1>1, <1>2 DEF Callback, Rising
<1>5. Through' = Through /\ Unit' = Unit  BY <1>1 DEF Through, Unit
<1>6. Balanced(Handled, Through, counters.missed + owed.missed)'  BY <1>1, <1>5, BooksStand
<1>7. PICK n \in Nat, b \in Nat : n = block /\ n = block' /\ b = beside /\ b = beside'
  BY <1>1, <1>2 DEF StatsTypes
<1>8. \E f, t, m \in Nat : Since(f, t, m, block)'
  <2>1. PICK f \in Nat, t \in Nat, m \in Nat : Since(f, t, m, n)  BY <1>7 DEF StatsInv
  <2>2. Since(f, t, m, n)'  BY <1>1, <1>5, <2>1, BooksStand
  <2> QED  BY <1>7, <2>2
<1>9. ASSUME loads' # {}
      PROVE  had' = moved' /\ \E f, t, m \in Nat : Since(f, t, m, beside)' /\ LoadedSince(f, t, m)'
  <2>1. PICK f \in Nat, t \in Nat, m \in Nat : Since(f, t, m, b) /\ LoadedSince(f, t, m)
    BY <1>1, <1>7, <1>9 DEF StatsInv
  <2>2. Since(f, t, m, b)'  BY <1>1, <1>5, <2>1, BooksStand
  <2>3. LoadedSince(f, t, m)'  BY <1>1, <1>5, <2>1 DEF LoadedSince
  <2>4. had' = moved'  BY <1>1, <1>9 DEF StatsInv
  <2> QED  BY <1>7, <2>2, <2>3, <2>4
<1>10. Stats!StatsAddUp'  BY <1>1, ToldStands DEF StatsInv
<1> QED  BY <1>3, <1>4, <1>6, <1>8, <1>9, <1>10 DEF StatsInv

LEMMA StatsStep == StatsInv /\ [Stats!Next]_(Stats!vars) => StatsInv'
<1> SUFFICES ASSUME StatsInv, [Stats!Next]_(Stats!vars) PROVE StatsInv'  OBVIOUS
<1>2. ASSUME NEW field \in DOMAIN Stats!Nothing, Stats!Add(field) PROVE StatsInv'
  BY <1>2, StatsAdd DEF Stats!Nothing
<1>3. ASSUME NEW field \in DOMAIN Stats!Empty, Stats!Load(field) PROVE StatsInv'
  BY <1>3, StatsLoad DEF Stats!Empty
<1> QED  BY <1>2, <1>3, StatsStands, StatsWrite, StatsRead, StatsBegin, StatsPlay, StatsCapture, StatsServe, StatsAccept,
         StatsEnd, StatsStart DEF Stats!Next

\* What stats() tells adds up to what the application wrote or read, give or take the frames
\* of the callbacks that ran beside it, and no number told goes back (StatsAddUp).
THEOREM StatsAlwaysAddUp == PartsSpec => []StatsAddUp
<1>1. StatsInv => Stats!StatsAddUp  BY DEF StatsInv
<1>2. Stats!Spec => []Stats!StatsAddUp  BY <1>1, StatsInit, StatsStep, PTL DEF Stats!Spec
<1>3. PartsSpec => Stats!Spec  BY PartsAreComponents, PTL
<1> QED  BY <1>2, <1>3, PTL DEF StatsAddUp

-----------------------------------------------------------------------------
(* TestTones: the clicks keep time. *)

ToneTypes ==
    /\ spec \in [rate : Nat, channels : Nat \ {0}] /\ bpm \in Nat /\ total \in Nat /\ beat \in Nat

\* What a click track has in frame `f` when the beats before frame `b` are written, `d` apart.
ClickAt(f, b, d) ==
    LET age == IF f < b THEN f % d ELSE f - (b - d)
    IN  IF b > 0 /\ age < Signals!AttackFrames + Signals!DecayFrames THEN Signals!Click(age) ELSE <<0, 1>>

ClickInv ==
    tone = "clicks" =>
        /\ \E k \in Nat : beat = k * Signals!BeatInterval
        /\ DOMAIN buf = 1 .. total * spec.channels
        /\ Signals!BeatInterval > 0 =>
              buf = [i \in 1 .. total * spec.channels |->
                        ClickAt(Signals!FrameOf(i), beat, Signals!BeatInterval)]

Sounds == {Signals!Sample(tone, f) : f \in Nat}

ToneInv ==
    tone # "clicks" =>
        /\ buf \in Seq(Sounds)
        /\ \E n \in 0 .. total : Len(buf) = n * spec.channels
        /\ \A i \in 1 .. Len(buf) : buf[i] = Signals!Sample(tone, Signals!FrameOf(i))

SignalInv == ToneTypes /\ ClickInv /\ ToneInv

LEMMA IntervalIs ==
    ASSUME ToneTypes PROVE Signals!BeatInterval \in Nat /\ (bpm > 0 => Signals!BeatInterval * bpm <= spec.rate * 60
                               /\ spec.rate * 60 - Signals!BeatInterval * bpm < bpm)
<1>1. Endless \in Nat  BY TonesAssumption DEF Signals!ToneAssumption
<1>2. PICK r \in Nat : r = spec.rate * 60  BY DEF ToneTypes
<1>3. CASE bpm = 0  BY <1>1, <1>3 DEF Signals!BeatInterval
<1>4. CASE bpm # 0
  <2>1. PICK b \in Nat \ {0} : b = bpm  BY <1>4 DEF ToneTypes
  <2>2. PICK q \in Int, m \in 0 .. b - 1 : r = b * q + m /\ q = r \div b  BY Divided
  <2>3. q \in Nat
    <3>1. ~(q <= -1)
      <4>1. q <= -1 => b * q <= -b  BY SMTT(30)
      <4> QED  BY <2>2, <4>1
    <3> QED  BY <3>1
  <2>4. Signals!BeatInterval = q  BY <1>2, <2>1, <2>2 DEF Signals!BeatInterval
  <2>5. q * b = b * q  OBVIOUS
  <2>6. q * b <= r /\ r - q * b < b  BY <2>2, <2>5
  <2> QED  BY <1>2, <2>1, <2>3, <2>4, <2>6
<1> QED  BY <1>3, <1>4

LEMMA FramesAreNat ==
    ASSUME ToneTypes, NEW i \in Nat \ {0} PROVE Signals!FrameOf(i) \in Nat
<1>1. PICK c \in Nat \ {0} : c = spec.channels  BY DEF ToneTypes
<1>2. (i - 1) \div c \in Nat  OBVIOUS
<1> QED  BY <1>1, <1>2 DEF Signals!FrameOf

LEMMA SignalInitHolds == Signals!Init => SignalInv
<1> SUFFICES ASSUME Signals!Init PROVE SignalInv  OBVIOUS
<1>1. ToneTypes
  <2>1. bpm \in Nat /\ spec \in [rate : Nat, channels : Nat \ {0}] /\ beat = 0
    BY TonesAssumption DEF Signals!Init, Signals!ToneAssumption
  <2>2. PICK ms \in Nat : total = Signals!Frames(spec, ms)
    BY TonesAssumption DEF Signals!Init, Signals!ToneAssumption
  <2>3. (spec.rate * ms) \div 1000 \in Nat
    <3>1. spec.rate * ms \in Nat  BY <2>1
    <3> QED  BY <3>1
  <2> QED  BY <2>1, <2>2, <2>3 DEF ToneTypes, Signals!Frames
<1>2. beat = 0  BY DEF Signals!Init
<1>3. ClickInv
  <2>1. 0 = 0 * Signals!BeatInterval /\ 0 \in Nat  BY <1>1, IntervalIs
  <2>2. \A f \in Nat : ClickAt(f, 0, Signals!BeatInterval) = <<0, 1>>  BY DEF ClickAt
  <2>3. \A i \in 1 .. total * spec.channels :
           ClickAt(Signals!FrameOf(i), beat, Signals!BeatInterval) = <<0, 1>>
    BY <1>2 DEF ClickAt
  <2>4. tone = "clicks" => buf = [i \in 1 .. total * spec.channels |-> <<0, 1>>]  BY DEF Signals!Init
  <2>5. tone = "clicks" => buf = [i \in 1 .. total * spec.channels |->
                     ClickAt(Signals!FrameOf(i), beat, Signals!BeatInterval)]
    BY <2>3, <2>4
  <2>6. tone = "clicks" => DOMAIN buf = 1 .. total * spec.channels  BY <2>4
  <2> QED  BY <1>2, <2>1, <2>5, <2>6 DEF ClickInv
<1>4. ToneInv
  <2>1. tone # "clicks" => buf = <<>>  BY DEF Signals!Init
  <2>2. 0 = 0 * spec.channels /\ 0 \in 0 .. total  BY <1>1 DEF ToneTypes
  <2> QED  BY <2>1, <2>2 DEF ToneInv
<1> QED  BY <1>1, <1>3, <1>4 DEF SignalInv

LEMMA ToneFrameKeeps == ASSUME SignalInv, Signals!ToneFrame PROVE SignalInv'
<1>1. PICK c \in Nat \ {0} : c = spec.channels  BY DEF SignalInv, ToneTypes
<1>2. /\ buf \in Seq(Sounds) /\ \A i \in 1 .. Len(buf) : buf[i] = Signals!Sample(tone, Signals!FrameOf(i))
      /\ tone # "clicks" /\ UNCHANGED <<tone, spec, bpm, total, beat>> /\ Len(buf) < total * c
  BY <1>1 DEF SignalInv, ToneInv, Signals!ToneFrame
<1>3. PICK n \in 0 .. total : Len(buf) = n * c  BY <1>1, <1>2 DEF SignalInv, ToneInv
<1>4. total \in Nat /\ n \in Nat  BY DEF SignalInv, ToneTypes
<1>5. n < total
  <2>1. ~(n >= total)
    <3>1. n = total => n * c = total * c  OBVIOUS
    <3> QED  BY <1>2, <1>3, <1>4, <3>1
  <2> QED  BY <1>4, <2>1
<1>6. (n * c) \div c = n /\ n * c \in Nat
  <2>1. (c * n + 0) \div c = n  BY <1>4, OneRemainder
  <2>2. c * n + 0 = n * c /\ n * c \in Nat  BY <1>4
  <2> QED  BY <2>1, <2>2
<1> DEFINE x == Signals!Sample(tone, n)
           t == [k \in 1 .. c |-> x]
<1>7. x \in Sounds /\ t \in Seq(Sounds) /\ Len(t) = c /\ \A k \in 1 .. c : t[k] = x
  <2>1. x \in Sounds  BY <1>4 DEF Sounds
  <2> HIDE DEF x
  <2> QED  BY <2>1
<1>8. buf' = buf \o t  BY <1>1, <1>3, <1>6 DEF Signals!ToneFrame
<1> HIDE DEF t, x
<1>9. /\ buf' \in Seq(Sounds) /\ Len(buf') = n * c + c
      /\ \A i \in 1 .. n * c : buf'[i] = buf[i]
      /\ \A k \in 1 .. c : buf'[n * c + k] = x
  <2>1. PICK m \in Nat : m = n * c  BY <1>6
  <2>2. /\ buf' \in Seq(Sounds) /\ Len(buf') = m + c
        /\ \A i \in 1 .. m + c : buf'[i] = IF i <= m THEN buf[i] ELSE t[i - m]
    <3>1. /\ buf \o t \in Seq(Sounds) /\ Len(buf \o t) = Len(buf) + Len(t)
          /\ \A i \in 1 .. Len(buf) + Len(t) :
                 (buf \o t)[i] = IF i <= Len(buf) THEN buf[i] ELSE t[i - Len(buf)]
      BY <1>2, <1>7, ConcatProperties
    <3> QED  BY <1>3, <1>7, <1>8, <2>1, <3>1, Zenon
  <2>3. \A k \in 1 .. c : m + k \in 1 .. m + c /\ ~(m + k <= m) /\ (m + k) - m = k  BY <2>1
  <2> QED  BY <1>7, <2>1, <2>2, <2>3, SMTT(30)
<1>10. n * c + c = (n + 1) * c /\ n + 1 \in 0 .. total  BY <1>4, <1>5
<1>11. ASSUME NEW i \in 1 .. Len(buf') PROVE buf'[i] = Signals!Sample(tone, Signals!FrameOf(i))
  <2>1. CASE i <= n * c
    <3>1. i \in 1 .. Len(buf)  BY <1>3, <1>6, <2>1
    <3> QED  BY <1>2, <1>3, <1>6, <1>9, <2>1, <3>1
  <2>2. CASE i > n * c
    <3>1. i - n * c \in 1 .. c /\ n * c + (i - n * c) = i  BY <1>6, <1>9, <2>2, SMTT(30)
    <3>2. PICK k \in 1 .. c : i = n * c + k  BY <3>1
    <3>3. k - 1 \in 0 .. c - 1 /\ c * n + (k - 1) = i - 1  BY <1>4, <3>2
    <3>4. (i - 1) \div c = n  BY <1>4, <3>3, OneRemainder
    <3> QED  BY <1>1, <1>9, <3>2, <3>4 DEF Signals!FrameOf, x
  <2> QED  BY <1>6, <1>9, <2>1, <2>2
<1>12. ToneInv'
  <2>1. Sounds' = Sounds  BY <1>2 DEF Sounds, Signals!Sample
  <2>2. \A i \in 1 .. Len(buf') : buf'[i] = Signals!Sample(tone', Signals!FrameOf(i)')
    BY <1>2, <1>11 DEF Signals!FrameOf
  <2>3. Len(buf') = (n + 1) * spec.channels' /\ n + 1 \in 0 .. total'  BY <1>1, <1>2, <1>9, <1>10
  <2>4. buf' \in Seq(Sounds')  BY <1>9, <2>1
  <2> QED  BY <2>2, <2>3, <2>4 DEF ToneInv
<1>13. ToneTypes'  BY <1>2 DEF SignalInv, ToneTypes
<1>14. ClickInv'  BY <1>2 DEF ClickInv
<1> QED  BY <1>12, <1>13, <1>14 DEF SignalInv

LEMMA BeatKeeps == ASSUME SignalInv, Signals!Beat PROVE SignalInv'
<1> DEFINE span == Signals!AttackFrames + Signals!DecayFrames
<1>1. PICK d \in Nat : d = Signals!BeatInterval  BY IntervalIs DEF SignalInv
<1>2. /\ tone = "clicks" /\ beat < total /\ beat' = beat + d /\ UNCHANGED <<tone, spec, bpm, total>>
      /\ beat \in Nat /\ total \in Nat
  BY <1>1 DEF Signals!Beat, SignalInv, ToneTypes
<1>3. PICK k \in Nat : beat = k * d  BY <1>1, <1>2 DEF SignalInv, ClickInv
<1>4. Signals!BeatInterval' = d /\ Signals!AttackFrames' = Signals!AttackFrames /\ Signals!DecayFrames' = Signals!DecayFrames
  BY <1>1, <1>2 DEF Signals!BeatInterval, Signals!AttackFrames, Signals!DecayFrames
<1>5. span \in Nat
  <2>1. PICK r \in Nat : r = spec.rate  BY DEF SignalInv, ToneTypes
  <2>2. r \div 1000 \in Nat /\ (r * 5) \div 1000 \in Nat  OBVIOUS
  <2> QED  BY <2>1, <2>2 DEF Signals!AttackFrames, Signals!DecayFrames
<1> HIDE DEF span
<1>6. ASSUME d > 0, NEW f \in Nat
      PROVE  ClickAt(f, beat + d, d) =
                IF f - beat \in 0 .. span - 1 THEN Signals!Click(f - beat) ELSE ClickAt(f, beat, d)
  <2> DEFINE age == f - beat
  <2>1. CASE f < beat
    <3>1. age \notin 0 .. span - 1 /\ beat > 0 /\ beat + d > 0 /\ f < beat + d  BY <1>2, <1>5, <1>6, <2>1
    <3> QED  BY <2>1, <3>1 DEF ClickAt
  <2>2. CASE f >= beat
    <3>1. /\ age \in Nat /\ ~(f < beat) /\ beat + d > 0 /\ f - ((beat + d) - d) = age
          /\ f - (beat - d) = age + d
      BY <1>2, <1>6, <2>2
    <3>2. f < beat + d => f % d = age
      <4> SUFFICES ASSUME f < beat + d PROVE f % d = age  OBVIOUS
      <4>1. age \in 0 .. d - 1 /\ d \in Nat \ {0} /\ f = d * k + age  BY <1>2, <1>3, <1>6, <2>2
      <4>2. k \in Int  OBVIOUS
      <4> HIDE DEF age
      <4>3. (d * k + age) % d = age  BY <4>1, <4>2, OneRemainder, Zenon
      <4> QED  BY <4>1, <4>3
    <3>3. ClickAt(f, beat + d, d) = IF age < span THEN Signals!Click(age) ELSE <<0, 1>>
      <4> HIDE DEF age
      <4> QED  BY <3>1, <3>2 DEF ClickAt, span
    <3>4. age >= span => ClickAt(f, beat, d) = <<0, 1>>
      <4>1. age >= span => ~(age + d < span)  BY <1>5, <1>6, <3>1
      <4> QED  BY <3>1, <4>1 DEF ClickAt, span
    <3>5. age \in 0 .. span - 1 <=> age < span  BY <1>5, <3>1
    <3> HIDE DEF age
    <3>6. age >= span <=> ~(age < span)  BY <1>5, <3>1
    <3> QED  BY <3>3, <3>4, <3>5, <3>6 DEF age
  <2> QED  BY <1>2, <2>1, <2>2
<1>7. d > 0 => buf' = [i \in 1 .. total' * spec.channels' |->
                            ClickAt(Signals!FrameOf(i), beat, Signals!BeatInterval)']
  <2> SUFFICES ASSUME d > 0 PROVE buf' = [i \in 1 .. total' * spec.channels' |->
                            ClickAt(Signals!FrameOf(i), beat, Signals!BeatInterval)']
    OBVIOUS
  <2>1. buf = [i \in 1 .. total * spec.channels |-> ClickAt(Signals!FrameOf(i), beat, d)]
    BY <1>1, <1>2 DEF SignalInv, ClickInv
  <2>2. buf' = [i \in DOMAIN buf |->
                  IF Signals!FrameOf(i) - beat \in 0 .. span - 1 THEN Signals!Click(Signals!FrameOf(i) - beat)
                  ELSE buf[i]]
    <3>1. Signals!AttackFrames + Signals!DecayFrames - 1 = span - 1
      <4>1. PICK r \in Nat : r = spec.rate  BY DEF SignalInv, ToneTypes
      <4>2. r \div 1000 \in Nat /\ (r * 5) \div 1000 \in Nat  OBVIOUS
      <4> QED  BY <4>1, <4>2 DEF Signals!AttackFrames, Signals!DecayFrames, span
    <3> QED  BY <3>1, Zenon DEF Signals!Beat, Signals!FrameOf
  <2>3. PICK m \in Nat : m = total * spec.channels /\ m = total' * spec.channels'
    BY <1>2 DEF SignalInv, ToneTypes
  <2>4. ASSUME NEW i \in 1 .. m
        PROVE  ClickAt(Signals!FrameOf(i), beat, Signals!BeatInterval)' = ClickAt(Signals!FrameOf(i), beat + d, d)
    BY <1>2, <1>4 DEF ClickAt, Signals!Click, Signals!FrameOf
  <2>5. ASSUME NEW i \in 1 .. m
        PROVE  ClickAt(Signals!FrameOf(i), beat + d, d) =
                  IF Signals!FrameOf(i) - beat \in 0 .. span - 1 THEN Signals!Click(Signals!FrameOf(i) - beat)
                  ELSE buf[i]
    <3>1. PICK f \in Nat : f = Signals!FrameOf(i)  BY FramesAreNat DEF SignalInv
    <3>2. buf[i] = ClickAt(f, beat, d)  BY <2>1, <2>3, <3>1
    <3> QED  BY <1>6, <3>1, <3>2
  <2>6. DOMAIN buf = 1 .. m  BY <2>1, <2>3
  <2>7. buf' = [i \in 1 .. m |-> ClickAt(Signals!FrameOf(i), beat, Signals!BeatInterval)']
    BY <2>2, <2>4, <2>5, <2>6, Zenon
  <2> QED  BY <2>3, <2>7
<1>8. ClickInv'
  <2>1. beat' = (k + 1) * d /\ k + 1 \in Nat  BY <1>2, <1>3
  <2>2. \E j \in Nat : beat' = j * Signals!BeatInterval'  BY <1>4, <2>1
  <2>3. Signals!BeatInterval' > 0 => d > 0  BY <1>4
  <2>4. DOMAIN buf' = 1 .. total' * spec.channels'
    <3>1. DOMAIN buf' = DOMAIN buf  BY DEF Signals!Beat
    <3> QED  BY <1>2, <3>1 DEF SignalInv, ClickInv
  <2> QED  BY <1>7, <2>2, <2>3, <2>4, Zenon DEF ClickInv
<1>9. ToneTypes'  BY <1>2 DEF SignalInv, ToneTypes
<1>10. ToneInv'  BY <1>2 DEF ToneInv
<1> QED  BY <1>8, <1>9, <1>10 DEF SignalInv

LEMMA SignalStays == ASSUME SignalInv, UNCHANGED (Signals!vars) PROVE SignalInv'
<1>1. UNCHANGED <<tone, spec, bpm, total, buf, beat>>  BY DEF Signals!vars
<1> QED
  BY <1>1 DEF SignalInv, ToneTypes, ClickInv, ToneInv, ClickAt, Sounds, Signals!Sample, Signals!FrameOf, Signals!BeatInterval,
     Signals!AttackFrames, Signals!DecayFrames, Signals!Click

LEMMA SignalStep == SignalInv /\ [Signals!Next]_(Signals!vars) => SignalInv'
  BY ToneFrameKeeps, BeatKeeps, SignalStays DEF Signals!Next

LEMMA TonesKeep == SignalInv => Signals!TonesKeepTime
<1> SUFFICES ASSUME SignalInv PROVE Signals!ClicksKeepTime /\ Signals!TonesAreWhole
  BY DEF Signals!TonesKeepTime
<1>1. Signals!TonesAreWhole
  <2> SUFFICES ASSUME tone # "clicks"
               PROVE  /\ Len(buf) % spec.channels = 0 /\ Len(buf) <= total * spec.channels
                      /\ \A i \in DOMAIN buf : buf[i] = Signals!Sample(tone, Signals!FrameOf(i))
    BY DEF Signals!TonesAreWhole
  <2>1. PICK c \in Nat \ {0}, t \in Nat : c = spec.channels /\ t = total  BY DEF SignalInv, ToneTypes
  <2>2. PICK n \in 0 .. t : Len(buf) = n * c  BY <2>1 DEF SignalInv, ToneInv
  <2>3. (n * c) % c = 0  BY ProductMod
  <2>4. n * c <= t * c
    <3>1. t - n \in Nat  OBVIOUS
    <3>2. PICK j \in Nat : t = n + j  BY <3>1
    <3>3. j * c \in Nat /\ n * c \in Nat /\ t * c = n * c + j * c  BY <3>2
    <3> QED  BY <3>3
  <2>5. DOMAIN buf = 1 .. Len(buf)  BY DEF SignalInv, ToneInv
  <2> QED  BY <2>1, <2>2, <2>3, <2>4, <2>5 DEF SignalInv, ToneInv
<1>2. Signals!ClicksKeepTime
  <2> SUFFICES ASSUME tone = "clicks" PROVE Signals!ClicksKeepTime  BY DEF Signals!ClicksKeepTime
  <2>1. PICK d \in Nat, b \in Nat, r \in Nat :
           /\ d = Signals!BeatInterval /\ b = bpm /\ r = spec.rate * 60
           /\ b > 0 => d * b <= r /\ r - d * b < b
    <3>1. spec.rate * 60 \in Nat /\ bpm \in Nat  BY DEF SignalInv, ToneTypes
    <3> QED  BY <3>1, IntervalIs DEF SignalInv
  <2>2. PICK k \in Nat : beat = k * d  BY <2>1 DEF SignalInv, ClickInv
  <2>3. ASSUME NEW i \in DOMAIN buf, Signals!FrameOf(i) < beat
        PROVE  LET age == Signals!FrameOf(i) % d
               IN  buf[i] = IF age < Signals!AttackFrames + Signals!DecayFrames THEN Signals!Click(age) ELSE <<0, 1>>
    <3>1. PICK f \in Nat : f = Signals!FrameOf(i)
      <4>1. DOMAIN buf = 1 .. total * spec.channels /\ total * spec.channels \in Nat
        BY DEF SignalInv, ToneTypes, ClickInv
      <4>2. i \in Nat \ {0}  BY <4>1
      <4> QED  BY <4>2, FramesAreNat DEF SignalInv
    <3>2. beat > 0 /\ f < beat /\ d > 0
      <4>1. beat \in Nat /\ f < beat  BY <2>3, <3>1 DEF SignalInv, ToneTypes
      <4>2. d = 0 => beat = 0  BY <2>2
      <4> QED  BY <4>1, <4>2
    <3>3. buf = [j \in 1 .. total * spec.channels |-> ClickAt(Signals!FrameOf(j), beat, d)]
      BY <2>1, <3>2 DEF SignalInv, ClickInv
    <3>4. buf[i] = ClickAt(f, beat, d)  BY <3>1, <3>3
    <3> QED  BY <3>1, <3>2, <3>4 DEF ClickAt
  <2>4. ASSUME b > 0, d > 0
        PROVE  LET j == beat \div d
               IN  /\ beat * b <= j * r
                   /\ j > 0 => j * r - beat * b < j * b
    <3>1. beat \div d = k
      <4>1. (d * k + 0) \div d = k /\ d * k + 0 = beat  BY <2>2, <2>4, OneRemainder
      <4> QED  BY <4>1
    <3>2. PICK m \in 0 .. b - 1 : r = d * b + m
      <4>1. r - d * b \in 0 .. b - 1  BY <2>1, <2>4
      <4>2. r = d * b + (r - d * b)  OBVIOUS
      <4> QED  BY <4>1, <4>2
    <3>3. k * r = k * (d * b) + k * m /\ beat * b = k * (d * b)  BY <2>2, <3>2, SMTT(30)
    <3>4. k * m \in Nat /\ k * (d * b) \in Nat  OBVIOUS
    <3>5. k > 0 => k * m < k * b
      <4>1. PICK e \in Nat \ {0} : b = m + e
        <5>1. b - m \in Nat \ {0} /\ b = m + (b - m)  OBVIOUS
        <5> QED  BY <5>1
      <4>2. k * b = k * m + k * e  BY <4>1
      <4>3. k > 0 => k * e > 0  BY SMTT(30)
      <4>4. k * e \in Nat /\ k * b \in Nat OBVIOUS
      <4> QED  BY <3>4, <4>2, <4>3, <4>4
    <3>6. k * b \in Nat  OBVIOUS
    <3> QED  BY <3>1, <3>3, <3>4, <3>5, <3>6
  <2>5. \A j \in Nat : j * spec.rate * 60 = j * r
    <3>1. spec.rate \in Nat  BY DEF SignalInv, ToneTypes
    <3> QED  BY <2>1, <3>1
  <2>6. d > 0 => beat \div d \in Nat  BY DEF SignalInv, ToneTypes
  <2> QED  BY <2>1, <2>3, <2>4, <2>5, <2>6 DEF Signals!ClicksKeepTime
<1> QED  BY <1>1, <1>2

\* Every test signal has each frame in its place: a tone in every channel, a click the
\* envelope of the latest beat, and no beat comes late (TonesKeepTime).
THEOREM TestSignalsKeepTime == PartsSpec => []Signals!TonesKeepTime
<1>1. Signals!Spec => []Signals!TonesKeepTime
  BY TonesKeep, SignalInitHolds, SignalStep, PTL DEF Signals!Spec
<1>2. PartsSpec => Signals!Spec  BY PartsAreComponents, PTL
<1> QED  BY <1>1, <1>2, PTL

-----------------------------------------------------------------------------
(* Conversions: what rounding does, in steps of 24 bits. *)

\* Full scale, the scales of floats and the tops of formats.
Full   == 8388608
Scales == {1, 2, 4, 8, 16, 32, 64, 128, 256, 512, 1024, 2048, 4096, 8192, 16384, 32768, 65536,
           131072, 262144, 524288, 1048576, 2097152, 4194304, 8388608}
Tops   == {128, 32768, 8388608}
Powers == Scales \cup {16777216}
Grids  == Powers \ {1}

LEMMA LowPowers ==
    /\ 2 ^ 0 = 1 /\ 2 ^ 1 = 2 /\ 2 ^ 2 = 4 /\ 2 ^ 3 = 8 /\ 2 ^ 4 = 16 /\ 2 ^ 5 = 32 /\ 2 ^ 6 = 64
    /\ 2 ^ 7 = 128 /\ 2 ^ 8 = 256 /\ 2 ^ 9 = 512 /\ 2 ^ 10 = 1024 /\ 2 ^ 11 = 2048 /\ 2 ^ 12 = 4096
  OBVIOUS
LEMMA HighPowers ==
    /\ 2 ^ 13 = 8192 /\ 2 ^ 14 = 16384 /\ 2 ^ 15 = 32768 /\ 2 ^ 16 = 65536 /\ 2 ^ 17 = 131072
    /\ 2 ^ 18 = 262144 /\ 2 ^ 19 = 524288 /\ 2 ^ 20 = 1048576 /\ 2 ^ 21 = 2097152
    /\ 2 ^ 22 = 4194304 /\ 2 ^ 23 = 8388608 /\ 2 ^ 24 = 16777216
  OBVIOUS

LEMMA PowersAreScales == \A k \in 0 .. 24 : 2 ^ k \in Powers /\ (k <= 23 => 2 ^ k \in Scales)
<1> DEFINE Good == {k \in 0 .. 24 : 2 ^ k \in Powers /\ (k <= 23 => 2 ^ k \in Scales)}
<1>1. 0 \in Good /\ 1 \in Good /\ 2 \in Good /\ 3 \in Good /\ 4 \in Good /\ 5 \in Good  BY SMT DEF Scales, Powers
<1>2. 6 \in Good /\ 7 \in Good /\ 8 \in Good /\ 9 \in Good /\ 10 \in Good /\ 11 \in Good  BY SMT DEF Scales, Powers
<1>3. 12 \in Good /\ 13 \in Good /\ 14 \in Good /\ 15 \in Good /\ 16 \in Good /\ 17 \in Good  BY SMT DEF Scales, Powers
<1>4. 18 \in Good /\ 19 \in Good /\ 20 \in Good /\ 21 \in Good /\ 22 \in Good /\ 23 \in Good /\ 24 \in Good
  BY SMT DEF Scales, Powers
<1> HIDE DEF Good
<1>5. \A k \in 0 .. 24 : k \in Good
  <2>1. \A k \in 0 .. 5 : k \in Good  BY <1>1, SMT
  <2>2. \A k \in 6 .. 11 : k \in Good  BY <1>2, SMT
  <2>3. \A k \in 12 .. 17 : k \in Good  BY <1>3, SMT
  <2>4. \A k \in 18 .. 24 : k \in Good  BY <1>4, SMT
  <2> QED  BY <2>1, <2>2, <2>3, <2>4, SMT
<1> QED  BY <1>5, Zenon DEF Good

LEMMA GridPowers == \A b \in 0 .. 23 : 2 ^ (24 - b) \in Grids
<1> DEFINE Good == {k \in 1 .. 24 : 2 ^ k \in Grids}
<1>1. 1 \in Good /\ 2 \in Good /\ 3 \in Good /\ 4 \in Good /\ 5 \in Good /\ 6 \in Good  BY SMT DEF Scales, Powers, Grids
<1>2. 7 \in Good /\ 8 \in Good /\ 9 \in Good /\ 10 \in Good /\ 11 \in Good /\ 12 \in Good  BY SMT DEF Scales, Powers, Grids
<1>3. 13 \in Good /\ 14 \in Good /\ 15 \in Good /\ 16 \in Good /\ 17 \in Good /\ 18 \in Good  BY SMT DEF Scales, Powers, Grids
<1>4. 19 \in Good /\ 20 \in Good /\ 21 \in Good /\ 22 \in Good /\ 23 \in Good /\ 24 \in Good  BY SMT DEF Scales, Powers, Grids
<1> HIDE DEF Good
<1>5. \A b \in 0 .. 23 : 24 - b \in Good
  <2>1. \A k \in 1 .. 6 : k \in Good  BY <1>1, SMT
  <2>2. \A k \in 7 .. 12 : k \in Good  BY <1>2, SMT
  <2>3. \A k \in 13 .. 18 : k \in Good  BY <1>3, SMT
  <2>4. \A k \in 19 .. 24 : k \in Good  BY <1>4, SMT
  <2>5. \A k \in 1 .. 24 : k \in Good  BY <2>1, <2>2, <2>3, <2>4, SMT
  <2> QED  BY <2>5, SMT
<1> QED  BY <1>5, Zenon DEF Good

LEMMA FullIs == Full \in Nat \ {0} /\ Full = 2 ^ 23  BY SMT, HighPowers DEF Full

LEMMA ScaleIs ==
    ASSUME NEW s \in Scales
    PROVE  /\ s \in Nat \ {0} /\ s <= Full
           /\ (Full \div s) \in Nat \ {0} /\ s * (Full \div s) = Full
           /\ s = 1 \/ \E h \in Nat \ {0} : s = 2 * h
<1>1. s \in Nat \ {0} /\ s <= Full  BY DEF Scales, Full
<1>2. Full % s = 0 /\ (s = 1 \/ s % 2 = 0)  BY SMTT(60) DEF Scales, Full
<1>3. PICK k \in Nat : Full = s * k /\ k = Full \div s
  <2>1. Full \in Nat  BY DEF Full
  <2> HIDE DEF Full
  <2> QED  BY <1>1, <1>2, <2>1, Multiple
<1>4. k # 0  BY <1>1, <1>3 DEF Full
<1>5. s = 1 \/ \E h \in Nat \ {0} : s = 2 * h
  <2> SUFFICES ASSUME s # 1 PROVE \E h \in Nat \ {0} : s = 2 * h  OBVIOUS
  <2>1. s % 2 = 0 /\ 2 \in Nat \ {0}  BY <1>2
  <2>2. PICK h \in Nat : s = 2 * h  BY <1>1, <2>1, Multiple
  <2> QED  BY <1>1, <2>2
<1> QED  BY <1>1, <1>3, <1>4, <1>5

LEMMA TopIs ==
    ASSUME NEW t \in Tops PROVE t \in Scales
  BY DEF Tops, Scales

LEMMA GridIs ==
    ASSUME NEW g \in Grids PROVE g = 2 \/ \E h \in Nat \ {0} : g = 4 * h
  BY SMTT(60) DEF Grids, Powers, Scales

\* Of two powers of two, one divides the other.
LEMMA PowersDivide ==
    ASSUME NEW s \in Scales, NEW t \in Scales, t <= s
    PROVE  \E e \in Nat \ {0} : s = t * e /\ s \div t = e
  BY SMTT(100) DEF Scales

LEMMA GridDivides ==
    ASSUME NEW s \in Scales, NEW g \in Grids
    PROVE  IF g <= s THEN \E e \in Nat \ {0} : s = g * e /\ s \div g = e ELSE s \div g = 0
<1>1. CASE g <= s
  <2>1. g \in Scales  BY <1>1 DEF Grids, Powers, Scales
  <2> QED  BY <1>1, <2>1, PowersDivide
<1>2. CASE ~(g <= s)
  <2>1. s \in 0 .. g - 1 /\ g \in Nat \ {0}  BY <1>2 DEF Grids, Powers, Scales
  <2> QED  BY <1>2, <2>1, SmallMod
<1> QED  BY <1>1, <1>2

\* A product is as great as another with the same factor where the other factor is.
LEMMA TimesKeeps ==
    ASSUME NEW a \in Nat, NEW b \in Nat, NEW c \in Nat \ {0}
    PROVE  (c * a >= c * b <=> a >= b) /\ (c * a > c * b <=> a > b) /\ (c * a = c * b <=> a = b)
<1>1. ASSUME NEW x \in Nat, NEW y \in Nat, x > y PROVE c * x > c * y
  <2>1. PICK j \in Nat : x = y + 1 + j
    <3>1. x - y - 1 \in Nat /\ x = y + 1 + (x - y - 1)  BY <1>1
    <3> QED  BY <3>1
  <2>2. c * x = c * y + c + c * j /\ c * j \in Nat /\ c * y \in Nat  BY <2>1
  <2> QED  BY <2>2
<1>2. (a > b => c * a > c * b) /\ (b > a => c * b > c * a)  BY <1>1
<1>3. c * a \in Nat /\ c * b \in Nat  OBVIOUS
<1> QED  BY <1>2, <1>3

\* The part of a product that is kept, in units.
KeptIn(piece, unit) ==
    LET down == piece \div unit
        rest == piece % unit
        up   == 2 * rest > unit \/ (2 * rest = unit /\ down % 2 = 1)
    IN  (IF up THEN down + 1 ELSE down) * unit

LEMMA KeptWhole == ASSUME NEW piece \in Nat PROVE KeptIn(piece, 1) = piece
<1>1. piece \div 1 = piece /\ piece % 1 = 0
  <2>1. (1 * piece + 0) % 1 = 0 /\ (1 * piece + 0) \div 1 = piece
    <3>1. 1 \in Nat \ {0} /\ piece \in Int /\ 0 \in 0 .. 1 - 1  OBVIOUS
    <3> QED  BY <3>1, OneRemainder
  <2>2. 1 * piece + 0 = piece  OBVIOUS
  <2> QED  BY <2>1, <2>2
<1> QED  BY <1>1 DEF KeptIn

\* Halves, to even, of units that divide the scale.
LEMMA KeptDivided ==
    ASSUME NEW s \in Nat \ {0}, NEW piece \in 0 .. s - 1, NEW g \in Grids, NEW e \in Nat \ {0}, s = g * e
    PROVE  2 * KeptIn(piece, e) >= s <=>
              IF g = 2 THEN 4 * piece > s ELSE 2 * g * piece >= s * (g - 1)
<1>1. PICK d \in Int, r \in 0 .. e - 1 : piece = e * d + r /\ r = piece % e /\ d = piece \div e
  <2>1. piece \in Int  OBVIOUS
  <2> QED  BY <2>1, Divided, Zenon
<1>2. d \in Nat
  <2>1. ~(d <= -1)
    <3>1. d <= -1 => e * d <= -e  BY SMTT(30)
    <3> QED  BY <1>1, <3>1
  <2> QED  BY <2>1
<1>3. PICK h \in Nat \ {0} : g = 2 * h /\ (h = 1 \/ \E i \in Nat \ {0} : h = 2 * i)
  <2>1. CASE g = 2  BY <2>1
  <2>2. CASE g # 2
    <3>1. PICK i \in Nat \ {0} : g = 4 * i  BY <2>2, GridIs
    <3>2. g = 2 * (2 * i) /\ 2 * i \in Nat \ {0}  BY <3>1
    <3> QED  BY <3>2
  <2> QED  BY <2>1, <2>2
<1> DEFINE up == 2 * r > e \/ (2 * r = e /\ d % 2 = 1)
           n  == IF up THEN d + 1 ELSE d
<1>4. KeptIn(piece, e) = n * e  BY <1>1 DEF KeptIn
<1>5. n \in Nat  BY <1>2
<1>6. 2 * (n * e) >= s <=> n >= h
  <2>1. PICK m \in Nat : m = n  BY <1>5
  <2>2. s = 2 * (h * e)  BY <1>3
  <2>3. h * e \in Nat /\ m * e \in Nat OBVIOUS
  <2>4. m >= h => m * e >= h * e
    <3>1. ASSUME m >= h PROVE m * e >= h * e
      <4>1. PICK j \in Nat : m = h + j
        <5>1. m - h \in Nat /\ m = h + (m - h)  BY <3>1
        <5> QED  BY <5>1
      <4>2. m * e = h * e + j * e /\ j * e \in Nat  BY <4>1
      <4> QED  BY <2>3, <4>2
    <3> QED  BY <3>1
  <2>5. ~(m >= h) => h * e >= m * e + e
    <3>1. ASSUME ~(m >= h) PROVE h * e >= m * e + e
      <4>1. PICK j \in Nat : h = m + 1 + j
        <5>1. h - m - 1 \in Nat /\ h = m + 1 + (h - m - 1)  BY <3>1
        <5> QED  BY <5>1
      <4>2. h * e = m * e + e + j * e /\ j * e \in Nat  BY <4>1
      <4> QED  BY <2>3, <4>2
    <3> QED  BY <3>1
  <2> HIDE DEF n
  <2>6. 2 * (m * e) >= s <=> m >= h  BY <2>2, <2>3, <2>4, <2>5
  <2> QED  BY <2>1, <2>6
<1>7. n >= h <=> d >= h \/ (d = h - 1 /\ up)  BY <1>2
<1>8. CASE h = 1
  <2>1. g = 2 /\ s = 2 * e  BY <1>3, <1>8
  <2>2. 4 * piece > s <=> d >= 1 \/ (d = 0 /\ 2 * r > e)
    <3>1. CASE d = 0  BY <1>1, <2>1, <3>1
    <3>2. CASE d # 0
      <4>1. e * d >= e  BY <1>2, <3>2, SMTT(30)
      <4>2. e * d \in Nat  BY <1>2
      <4> QED  BY <1>1, <1>2, <2>1, <3>2, <4>1, <4>2
    <3> QED  BY <3>1, <3>2
  <2>3. d = 0 => (up <=> 2 * r > e)  OBVIOUS
  <2> QED  BY <1>2, <1>4, <1>6, <1>7, <1>8, <2>1, <2>2, <2>3
<1>9. CASE h # 1
  <2>1. PICK i \in Nat \ {0} : h = 2 * i  BY <1>3, <1>9
  <2>2. (h - 1) % 2 = 1
    <3>1. h - 1 = 2 * (i - 1) + 1  BY <2>1
    <3>2. (2 * (i - 1) + 1) % 2 = 1
      <4>1. 2 \in Nat \ {0} /\ i - 1 \in Int /\ 1 \in 0 .. 2 - 1  OBVIOUS
      <4> QED  BY <4>1, OneRemainder
    <3> QED  BY <3>1, <3>2
  <2>3. d = h - 1 => (up <=> 2 * r >= e)
    <3>1. d = h - 1 => d % 2 = 1  BY <2>2, Zenon
    <3>2. r \in Nat /\ e \in Nat  OBVIOUS
    <3>3. (2 * r > e \/ 2 * r = e) <=> 2 * r >= e  BY <3>2
    <3> QED  BY <3>1, <3>3, Zenon
  <2>4. 2 * g * piece >= s * (g - 1) <=> d >= h \/ (d = h - 1 /\ 2 * r >= e)
    <3>1. 2 * g * piece >= s * (g - 1) <=> 2 * piece >= e * (g - 1)
      <4>1. PICK a \in Nat, b \in Nat : a = 2 * piece /\ b = e * (g - 1)
        <5>1. 2 * piece \in Nat /\ g - 1 \in Nat  BY <1>3
        <5>2. e * (g - 1) \in Nat  BY <5>1, ProductNat
        <5> QED  BY <5>1, <5>2
      <4>2. g \in Nat \ {0}  BY <1>3
      <4>3. 2 * g * piece = g * a  BY <4>1, <4>2
      <4>4. s * (g - 1) = g * b
        <5>1. (g * e) * (g - 1) = g * (e * (g - 1))  BY <4>2
        <5> QED  BY <4>1, <5>1
      <4>5. g * a >= g * b <=> a >= b  BY <4>2, TimesKeeps
      <4> QED  BY <4>1, <4>3, <4>4, <4>5
    <3>2. e * (g - 1) = 2 * (e * h) - e /\ e * h \in Nat /\ e * d \in Nat
      BY <1>2, <1>3
    <3>3. CASE d >= h
      <4>1. PICK j \in Nat : d = h + j
        <5>1. d - h \in Nat /\ d = h + (d - h)  BY <1>2, <3>3
        <5> QED  BY <5>1
      <4>2. e * d = e * h + e * j /\ e * j \in Nat  BY <4>1
      <4> QED  BY <1>1, <3>1, <3>2, <3>3, <4>2
    <3>4. CASE d = h - 1
      <4>1. e * d = e * h - e  BY <3>4
      <4> QED  BY <1>1, <3>1, <3>2, <3>4, <4>1
    <3>5. CASE d <= h - 2
      <4>1. PICK j \in Nat : h = d + 2 + j
        <5>1. h - d - 2 \in Nat /\ h = d + 2 + (h - d - 2)  BY <1>2, <3>5
        <5> QED  BY <5>1
      <4>2. e * h = e * d + 2 * e + e * j /\ e * j \in Nat  BY <1>2, <4>1
      <4> QED  BY <1>1, <3>1, <3>2, <3>5, <4>2
    <3> QED  BY <1>2, <3>3, <3>4, <3>5
  <2>5. g # 2  BY <1>3, <1>9
  <2> QED  BY <1>4, <1>6, <1>7, <2>3, <2>4, <2>5
<1> QED  BY <1>8, <1>9

\* A scale no finer than the unit has halves exactly.
LEMMA KeptCoarse ==
    ASSUME NEW s \in Scales, NEW piece \in 0 .. s - 1, NEW g \in Grids, g > s
    PROVE  2 * piece >= s <=> IF g = 2 THEN 4 * piece > s ELSE 2 * g * piece >= s * (g - 1)
<1>1. s \in Nat \ {0} /\ piece \in Nat  BY ScaleIs
<1>2. g \in Nat /\ g >= 2  BY GridIs
<1>3. CASE s = 1
  <2>1. piece = 0  BY <1>3
  <2>2. 2 * g * piece = 0 /\ s * (g - 1) = g - 1  BY <1>2, <1>3, <2>1
  <2> QED  BY <1>2, <1>3, <2>1, <2>2
<1>4. CASE s # 1
  <2>1. PICK h \in Nat \ {0} : s = 2 * h  BY <1>4, ScaleIs
  <2>2. g # 2  BY <2>1
  <2>3. 2 * piece >= s <=> piece >= h  BY <1>1, <2>1
  <2>4. s * (g - 1) = 2 * (g * h) - s /\ 2 * g * piece = 2 * (g * piece) /\ g * h \in Nat /\ g * piece \in Nat
    BY <1>1, <1>2, <2>1
  <2>5. CASE piece >= h
    <3>1. g * piece >= g * h  BY <1>1, <1>2, <2>5, TimesKeeps
    <3> QED  BY <1>1, <2>2, <2>3, <2>4, <2>5, <3>1
  <2>6. CASE ~(piece >= h)
    <3>1. PICK j \in Nat : h = piece + 1 + j
      <4>1. h - piece - 1 \in Nat /\ h = piece + 1 + (h - piece - 1)  BY <1>1, <2>6
      <4> QED  BY <4>1
    <3>2. g * h = g * piece + g + g * j /\ g * j \in Nat  BY <1>1, <1>2, <3>1
    <3> QED  BY <1>1, <1>2, <2>2, <2>3, <2>4, <2>6, <3>2
  <2> QED  BY <2>5, <2>6
<1> QED  BY <1>3, <1>4

\* How many bits a whole number has, and how many units of its product are one.
Bits(w) == CHOOSE b \in 0 .. 24 : w < 2 ^ b /\ (b = 0 \/ w >= 2 ^ (b - 1))
Grid(w) == 2 ^ (24 - Bits(w))

LEMMA BitsAreFew == ASSUME NEW w \in 0 .. Full - 1 PROVE Bits(w) \in 0 .. 23 /\ Grid(w) \in Grids
<1> DEFINE S == {b \in 0 .. 24 : w < 2 ^ b}
           Fits(b) == w < 2 ^ b /\ (b = 0 \/ w >= 2 ^ (b - 1))
<1>1. w \in Nat /\ w < 2 ^ 23 /\ 23 \in 0 .. 24
  <2>1. w \in Nat /\ w < Full /\ 23 \in 0 .. 24  BY FullIs, SMT
  <2>2. 2 ^ 23 = Full  BY FullIs, Zenon
  <2> QED  BY <2>1, <2>2, SMT
<1>2. 23 \in S  BY <1>1, Zenon
<1>3. PICK b \in S : \A y \in S : b <= y
  <2>1. S \in SUBSET Nat /\ S # {}
    <3>1. \A y \in S : y \in 0 .. 24  BY Zenon
    <3> HIDE DEF S
    <3> QED  BY <1>2, <3>1
  <2> QED  BY <2>1, LeastNumber, Zenon
<1>4. Fits(b)
  <2>1. b \in 0 .. 24 /\ w < 2 ^ b  BY <1>3, Zenon
  <2>2. CASE b # 0
    <3>1. b - 1 \in 0 .. 24 /\ ~(b <= b - 1)  BY <2>1, <2>2
    <3>2. ~(w < 2 ^ (b - 1))  BY <1>3, <3>1, Zenon
    <3>3. 2 ^ (b - 1) \in Nat
      <4>1. 2 ^ (b - 1) \in Powers  BY <3>1, PowersAreScales, Zenon
      <4> QED  BY <4>1, SMT DEF Powers, Scales
    <3>4. w >= 2 ^ (b - 1)  BY <1>1, <3>2, <3>3
    <3> QED  BY <2>1, <3>4, Zenon
  <2> QED  BY <2>1, <2>2, Zenon
<1>5. Bits(w) \in 0 .. 24 /\ Fits(Bits(w))
  <2>1. b \in 0 .. 24  BY <1>3, Zenon
  <2> QED  BY <1>4, <2>1, Zenon DEF Bits
<1>6. Bits(w) # 24
  <2> SUFFICES ASSUME Bits(w) = 24 PROVE FALSE  OBVIOUS
  <2>0. 24 # 0  OBVIOUS
  <2>1. w >= 2 ^ (24 - 1)  BY <1>5, <2>0, Zenon
  <2>2. 24 - 1 = 23  OBVIOUS
  <2> QED  BY <1>1, <2>1, <2>2
<1>7. Bits(w) \in 0 .. 23  BY <1>5, <1>6
<1> QED  BY <1>7, GridPowers, Zenon DEF Grid

\* The product, as a whole number and a part, is the product.
LEMMA ProductIs ==
    ASSUME NEW s \in Scales, NEW n \in 0 .. s, NEW t \in Scales
    PROVE  \E w \in Nat, p \in 0 .. s - 1 :
              Handing!Product(n, s, t) = [whole |-> w, part |-> p] /\ s * w + p = n * (t - 1)
<1>1. s \in Nat \ {0} /\ t \in Nat \ {0} /\ n \in Nat  BY ScaleIs
<1>2. ASSUME NEW a \in Int, NEW b \in Int, s * a + b = n * (t - 1),
             Handing!Product(n, s, t) = [whole |-> a + (b \div s), part |-> b % s]
      PROVE  \E w \in Nat, p \in 0 .. s - 1 :
                Handing!Product(n, s, t) = [whole |-> w, part |-> p] /\ s * w + p = n * (t - 1)
  <2>1. PICK q \in Int, p \in 0 .. s - 1 : b = s * q + p /\ p = b % s /\ q = b \div s  BY <1>1, Divided
  <2>2. PICK w \in Int : w = a + q  OBVIOUS
  <2>3. s * w + p = n * (t - 1)
    <3>1. s * w = s * a + s * q  BY <1>1, <2>2
    <3>2. s * a \in Int /\ s * q \in Int /\ p \in Int  BY <1>1
    <3> QED  BY <1>2, <2>1, <3>1, <3>2
  <2>4. w \in Nat
    <3>1. n * (t - 1) \in Nat  BY <1>1
    <3>2. w <= -1 => s * w <= -s  BY <1>1, SMTT(30)
    <3>3. s * w \in Int  BY <1>1
    <3> QED  BY <1>1, <2>3, <3>1, <3>2, <3>3
  <2>5. Handing!Product(n, s, t) = [whole |-> w, part |-> p]  BY <1>2, <2>1, <2>2
  <2> QED  BY <2>3, <2>4, <2>5
<1>3. CASE t >= s
  <2>1. PICK e \in Nat \ {0} : t = s * e /\ t \div s = e  BY <1>3, PowersDivide
  <2>2. Handing!Product(n, s, t) = [whole |-> n * e + ((-n) \div s), part |-> (-n) % s]
    BY <1>3, <2>1 DEF Handing!Product
  <2>3. n * e \in Int /\ -n \in Int  BY <1>1
  <2>4. s * (n * e) + (-n) = n * (t - 1)
    <3>1. s * (n * e) = n * (s * e)  BY <1>1
    <3>2. n * (t - 1) = n * t - n  BY <1>1
    <3> QED  BY <1>1, <2>1, <3>1, <3>2
  <2> QED  BY <1>2, <2>2, <2>3, <2>4
<1>4. CASE ~(t >= s)
  <2>1. PICK e \in Nat \ {0} : s = t * e /\ s \div t = e
    <3>1. t <= s  BY <1>1, <1>4
    <3> QED  BY <3>1, PowersDivide
  <2>2. PICK q \in Int, r \in 0 .. e - 1 : n = e * q + r /\ r = n % e /\ q = n \div e  BY <1>1, Divided
  <2>3. Handing!Product(n, s, t) = [whole |-> q + ((r * t - n) \div s), part |-> (r * t - n) % s]
    BY <1>4, <2>1, <2>2 DEF Handing!Product
  <2>4. q \in Int /\ r * t - n \in Int  BY <1>1
  <2>5. s * q + (r * t - n) = n * (t - 1)
    <3>1. (t * e) * q + r * t = (e * q + r) * t  BY <1>1
    <3>2. n * (t - 1) = n * t - n  BY <1>1
    <3>3. s * q + r * t = n * t  BY <2>1, <2>2, <3>1, Zenon
    <3>4. s * q \in Int /\ r * t \in Int /\ n * t \in Int  BY <1>1
    <3> QED  BY <1>1, <3>2, <3>3, <3>4
  <2> QED  BY <1>2, <2>3, <2>4, <2>5
<1> QED  BY <1>3, <1>4

\* Whether the part `p` of a product, in steps of 24 bits, is rounded up, with `w` before it.
Up(p, w) ==
    IF w = 0 THEN 2 * p >= Full
    ELSE IF Grid(w) = 2 THEN 4 * p > Full ELSE 2 * (Grid(w) * p) >= Full * (Grid(w) - 1)

\* What a sample of `x` steps is rounded to in a format of top `t`.
RoundAt(x, t) ==
    LET w == (x * (t - 1)) \div Full
        p == (x * (t - 1)) % Full
    IN  IF Up(p, w) THEN w + 1 ELSE w

LEMMA KeptUnits ==
    ASSUME NEW r, NEW s
    PROVE  Handing!KeptPart(r, s) =
              KeptIn(r.part, IF r.whole = 0 THEN 1
                             ELSE Handing!Greatest(s \div 2 ^ (24 - Bits(r.whole)), 1))
  BY Zenon DEF Handing!KeptPart, KeptIn, Bits

LEMMA KeptIs ==
    ASSUME NEW s \in Scales, NEW w \in 0 .. Full - 1, NEW p \in 0 .. s - 1
    PROVE  2 * Handing!KeptPart([whole |-> w, part |-> p], s) >= s <=>
              IF w = 0 THEN 2 * p >= s
              ELSE IF Grid(w) = 2 THEN 4 * p > s ELSE 2 * Grid(w) * p >= s * (Grid(w) - 1)
<1>1. s \in Nat \ {0} /\ p \in Nat  BY ScaleIs
<1> DEFINE unit == IF w = 0 THEN 1 ELSE Handing!Greatest(s \div 2 ^ (24 - Bits(w)), 1)
<1>2. Handing!KeptPart([whole |-> w, part |-> p], s) = KeptIn(p, unit)
  <2>1. PICK r : r = [whole |-> w, part |-> p]  OBVIOUS
  <2>2. r.whole = w /\ r.part = p  BY <2>1
  <2>3. Handing!KeptPart(r, s) = KeptIn(p, unit)  BY <2>2, KeptUnits, Zenon
  <2> QED  BY <2>1, <2>3, Zenon
<1>3. CASE w = 0
  <2>1. unit = 1  BY <1>3
  <2>2. KeptIn(p, 1) = p  BY <1>1, KeptWhole
  <2> QED  BY <1>2, <1>3, <2>1, <2>2
<1>4. CASE w # 0
  <2>1. PICK g \in Grids : g = Grid(w)  BY BitsAreFew
  <2>2. unit = IF s \div g >= 1 THEN s \div g ELSE 1
    BY <1>4, <2>1, Zenon DEF Handing!Greatest, Grid
  <2> HIDE DEF unit
  <2>3. CASE g <= s
    <3>1. PICK e \in Nat \ {0} : s = g * e /\ s \div g = e  BY <2>3, GridDivides, Zenon
    <3>2. unit = e  BY <2>2, <3>1
    <3>3. 2 * KeptIn(p, e) >= s <=> IF g = 2 THEN 4 * p > s ELSE 2 * g * p >= s * (g - 1)
      BY <1>1, <3>1, KeptDivided
    <3> QED  BY <1>2, <1>4, <2>1, <3>2, <3>3, Zenon
  <2>4. CASE ~(g <= s)
    <3>1. s \div g = 0  BY <2>4, GridDivides, Zenon
    <3>2. unit = 1  BY <2>2, <3>1
    <3>3. KeptIn(p, 1) = p  BY <1>1, KeptWhole
    <3>4. g > s
      <4>1. g \in Nat  BY GridIs
      <4> QED  BY <1>1, <2>4, <4>1
    <3>5. 2 * p >= s <=> IF g = 2 THEN 4 * p > s ELSE 2 * g * p >= s * (g - 1)
      BY <3>4, KeptCoarse
    <3> QED  BY <1>2, <1>4, <2>1, <3>2, <3>3, <3>5, Zenon
  <2> QED  BY <2>3, <2>4, Zenon
<1> QED  BY <1>3, <1>4, Zenon

LEMMA UpInSteps ==
    ASSUME NEW s \in Nat \ {0}, NEW c \in Nat \ {0}, s * c = Full, NEW p \in Nat, NEW w \in 0 .. Full - 1
    PROVE  Up(c * p, w) <=>
              IF w = 0 THEN 2 * p >= s
              ELSE IF Grid(w) = 2 THEN 4 * p > s ELSE 2 * Grid(w) * p >= s * (Grid(w) - 1)
<1>1. PICK f \in Nat : f = Full /\ f = c * s
  <2>1. c * s = s * c  OBVIOUS
  <2> QED  BY <2>1, FullIs
<1>2. PICK g \in Nat \ {0} : g = Grid(w)
  <2>1. Grid(w) \in Grids  BY BitsAreFew
  <2> QED  BY <2>1, GridIs
<1>3. 2 * (c * p) >= f <=> 2 * p >= s
  <2>1. 2 * (c * p) = c * (2 * p) /\ 2 * p \in Nat  OBVIOUS
  <2> QED  BY <1>1, <2>1, TimesKeeps
<1>4. 4 * (c * p) > f <=> 4 * p > s
  <2>1. 4 * (c * p) = c * (4 * p) /\ 4 * p \in Nat  OBVIOUS
  <2> QED  BY <1>1, <2>1, TimesKeeps
<1>5. 2 * (g * (c * p)) >= f * (g - 1) <=> 2 * g * p >= s * (g - 1)
  <2>1. PICK h \in Nat : h = g - 1  OBVIOUS
  <2>2. 2 * (g * (c * p)) = c * (2 * g * p) /\ 2 * g * p \in Nat  OBVIOUS
  <2>3. f * h = c * (s * h) /\ s * h \in Nat  BY <1>1
  <2>4. c * (2 * g * p) >= c * (s * h) <=> 2 * g * p >= s * h  BY <2>2, <2>3, TimesKeeps
  <2> QED  BY <2>1, <2>2, <2>3, <2>4, Zenon
<1> QED  BY <1>1, <1>2, <1>3, <1>4, <1>5, Zenon DEF Up

\* Rounded depends on how loud a float is, not on how fine.
LEMMA RoundedIs ==
    ASSUME NEW s \in Scales, NEW n \in 0 .. s, NEW t \in Scales
    PROVE  Handing!Rounded(n, s, t) = RoundAt(n * (Full \div s), t)
<1>1. s \in Nat \ {0} /\ t \in Nat \ {0} /\ n \in Nat /\ t <= Full  BY ScaleIs
<1>2. PICK c \in Nat \ {0} : c = Full \div s /\ s * c = Full  BY ScaleIs
<1>3. PICK w \in Nat, p \in 0 .. s - 1 :
         Handing!Product(n, s, t) = [whole |-> w, part |-> p] /\ s * w + p = n * (t - 1)
  BY ProductIs
<1>4. w <= t - 1
  <2>1. PICK u \in Nat : u = t - 1  BY <1>1
  <2>2. PICK j \in Nat : s = n + j
    <3>1. s - n \in Nat /\ s = n + (s - n)  BY <1>1
    <3> QED  BY <3>1
  <2>3. s * u = n * u + j * u /\ j * u \in Nat /\ n * u \in Nat  BY <1>1, <2>1, <2>2
  <2>4. s * u >= s * w
    <3>1. s * w \in Nat  BY <1>1
    <3>2. s * w + p = n * u  BY <1>3, <2>1
    <3> QED  BY <2>3, <3>1, <3>2
  <2>5. u >= w  BY <1>1, <2>1, <2>4, TimesKeeps
  <2> QED  BY <2>1, <2>5
<1>5. w \in 0 .. Full - 1  BY <1>1, <1>4, FullIs
<1>6. (n * c) * (t - 1) = Full * w + c * p
  <2>1. (n * c) * (t - 1) = c * (n * (t - 1))  BY <1>1
  <2>2. c * (s * w + p) = (s * c) * w + c * p  BY <1>1
  <2> QED  BY <1>2, <1>3, <2>1, <2>2, Zenon
<1>7. c * p \in 0 .. Full - 1
  <2>1. PICK j \in Nat : s = p + 1 + j
    <3>1. s - p - 1 \in Nat /\ s = p + 1 + (s - p - 1)  BY <1>1
    <3> QED  BY <3>1
  <2>2. s * c = c * p + c + c * j /\ c * j \in Nat /\ c * p \in Nat  BY <1>1, <2>1
  <2> QED  BY <1>2, <2>2
<1>8. (Full * w + c * p) \div Full = w /\ (Full * w + c * p) % Full = c * p
  <2>1. w \in Int  OBVIOUS
  <2> QED  BY <1>7, <2>1, FullIs, OneRemainder
<1>9. RoundAt(n * c, t) = IF Up(c * p, w) THEN w + 1 ELSE w
  BY <1>6, <1>8, Zenon DEF RoundAt
<1>10. Handing!Rounded(n, s, t) =
          IF 2 * Handing!KeptPart([whole |-> w, part |-> p], s) >= s THEN w + 1 ELSE w
  <2>1. PICK r : r = [whole |-> w, part |-> p]  OBVIOUS
  <2>2. r.whole = w  BY <2>1
  <2>3. Handing!Product(n, s, t) = r  BY <1>3, <2>1, Zenon
  <2>4. Handing!Rounded(n, s, t) = IF 2 * Handing!KeptPart(r, s) >= s THEN w + 1 ELSE w
    BY <2>2, <2>3, Zenon DEF Handing!Rounded
  <2> QED  BY <2>1, <2>4, Zenon
<1>11. Up(c * p, w) <=> 2 * Handing!KeptPart([whole |-> w, part |-> p], s) >= s
  <2>1. p \in Nat  OBVIOUS
  <2> QED  BY <1>1, <1>2, <1>5, <2>1, KeptIs, UpInSteps, Zenon
<1> QED  BY <1>2, <1>9, <1>10, <1>11, Zenon

\* What is rounded to steps of `z`, in a format of top `t`: the whole part and the rest.
Rounding(x, t, w, p) ==
    /\ x * (t - 1) = Full * w + p
    /\ w = (x * (t - 1)) \div Full /\ p = (x * (t - 1)) % Full
    /\ RoundAt(x, t) = IF Up(p, w) THEN w + 1 ELSE w
    /\ ~Up(p, w) => 2 * p < Full
    /\ p = 0 => ~Up(p, w)

LEMMA RoundBounds ==
    ASSUME NEW t \in Nat \ {0}, NEW z \in Nat \ {0}, t * z = Full, NEW x \in 0 .. Full
    PROVE  \E w \in 0 .. Full - 1, p \in 0 .. Full - 1 : Rounding(x, t, w, p)
<1> DEFINE y == x * (t - 1)
<1>1. x \in Nat /\ t - 1 \in Nat /\ y \in Nat  BY FullIs
<1>2. PICK w \in Int, p \in 0 .. Full - 1 : y = Full * w + p /\ p = y % Full /\ w = y \div Full
  <2>1. y \in Int  BY <1>1
  <2> HIDE DEF y
  <2> QED  BY <2>1, FullIs, Divided, Zenon
<1>3. w \in 0 .. Full - 1
  <2>1. PICK f \in Nat \ {0} : f = Full  BY FullIs
  <2>2. y = f * w + p  BY <1>2, <2>1
  <2>3. ~(w <= -1)
    <3>1. w <= -1 => f * w <= -f  BY SMTT(30)
    <3>2. f * w \in Int  OBVIOUS
    <3> HIDE DEF y
    <3> QED  BY <1>1, <2>1, <2>2, <3>1, <3>2
  <2>4. f * f >= y + f
    <3>1. PICK u \in Nat : u = t - 1  BY <1>1
    <3>2. PICK j \in Nat : f = x + j
      <4>1. f - x \in Nat /\ f = x + (f - x)  BY <2>1
      <4> QED  BY <4>1
    <3>3. PICK i \in Nat : f = t + i
      <4>1. t * z = t + t * (z - 1) /\ t * (z - 1) \in Nat  OBVIOUS
      <4> QED  BY <2>1, <4>1
    <3>4. f * f = x * f + j * f /\ j * f \in Nat /\ x * f \in Nat  BY <1>1, <3>2
    <3>5. CASE j = 0
      <4>1. y = f * u /\ t = u + 1  BY <3>1, <3>2, <3>5
      <4>2. f * f = f * u + f + f * i /\ f * i \in Nat /\ f * u \in Nat  BY <3>1, <3>3, <4>1
      <4> HIDE DEF y
      <4> QED  BY <4>1, <4>2
    <3>6. CASE j # 0
      <4>1. j * f >= f  BY <3>6, SMTT(30)
      <4>2. x * f = x * u + x + x * i /\ x * u \in Nat /\ x * i \in Nat  BY <1>1, <3>1, <3>3
      <4>3. y = x * u  BY <3>1
      <4> HIDE DEF y
      <4> QED  BY <1>1, <3>4, <4>1, <4>2, <4>3
    <3> QED  BY <3>5, <3>6
  <2>5. f * w < f * f
    <3> HIDE DEF y
    <3>1. f * w \in Int /\ f * f \in Nat /\ p \in Nat  OBVIOUS
    <3> QED  BY <1>1, <2>2, <2>4, <3>1
  <2>6. w \in Nat  BY <2>3
  <2>7. w < f  BY <2>5, <2>6, TimesKeeps
  <2> QED  BY <2>1, <2>6, <2>7
<1>4. PICK g \in Nat : g = Grid(w) /\ g >= 2
  <2>1. Grid(w) \in Grids  BY <1>3, BitsAreFew
  <2> QED  BY <2>1, GridIs
<1>5. ~Up(p, w) => 2 * p < Full
  <2>1. PICK f \in Nat \ {0} : f = Full  BY FullIs
  <2>2. p \in Nat  BY FullIs
  <2>3. CASE w = 0  BY <2>1, <2>2, <2>3 DEF Up
  <2>4. CASE w # 0 /\ g = 2
    <3>1. Up(p, w) <=> 4 * p > f  BY <1>4, <2>1, <2>4, Zenon DEF Up
    <3> QED  BY <2>1, <2>2, <3>1
  <2>5. CASE w # 0 /\ g # 2
    <3>1. Up(p, w) <=> 2 * (g * p) >= f * (g - 1)  BY <1>4, <2>1, <2>5, Zenon DEF Up
    <3>2. 2 * p >= f => Up(p, w)
      <4> SUFFICES ASSUME 2 * p >= f PROVE 2 * (g * p) >= f * (g - 1)  BY <3>1
      <4>1. g * (2 * p) >= g * f
        <5>1. 2 * p \in Nat /\ g \in Nat \ {0}  BY <1>4, <2>2
        <5> QED  BY <5>1, TimesKeeps
      <4>2. 2 * (g * p) = g * (2 * p) /\ f * (g - 1) = g * f - f /\ g * f \in Nat /\ g * (2 * p) \in Nat
        BY <2>2
      <4> QED  BY <4>1, <4>2
    <3> QED  BY <2>1, <2>2, <3>2
  <2> QED  BY <2>3, <2>4, <2>5
<1>6. p = 0 => ~Up(p, w)
  <2> SUFFICES ASSUME p = 0, Up(p, w) PROVE FALSE  OBVIOUS
  <2>1. PICK f \in Nat \ {0} : f = Full  BY FullIs
  <2>2. ~(2 * 0 >= f) /\ ~(4 * 0 > f) /\ ~(2 * (g * 0) >= f * (g - 1))
    <3>1. PICK h \in Nat \ {0} : h = g - 1  BY <1>4
    <3>2. f * h > 0  BY SMTT(30)
    <3>3. 2 * (g * 0) = 0  OBVIOUS
    <3> QED  BY <3>1, <3>2, <3>3
  <2> QED  BY <1>4, <2>1, <2>2, Zenon DEF Up
<1>7. RoundAt(x, t) = IF Up(p, w) THEN w + 1 ELSE w  BY <1>2, Zenon DEF RoundAt
<1>8. Rounding(x, t, w, p)  BY <1>2, <1>5, <1>6, <1>7, Zenon DEF Rounding
<1> QED  BY <1>3, <1>8, Zenon

\* A format moves a sample by a step and a half at most, down, and by a step at most, up; it
\* moves a sample of whole steps by one at most, and keeps it up to half the scale.
Near(x, n, t, z) ==
    /\ n \in 0 .. t - 1
    /\ 2 * (x - n * z) <= 3 * z /\ n * z - x <= z
    /\ \A m \in Nat : x = m * z => n \in {m, m - 1} /\ (2 * m <= t => n = m)

LEMMA RoundIsNear ==
    ASSUME NEW t \in Nat \ {0}, NEW z \in Nat \ {0}, t * z = Full, NEW x \in 0 .. Full
    PROVE  Near(x, RoundAt(x, t), t, z)
<1>1. PICK f \in Nat \ {0} : f = Full /\ f = t * z  BY FullIs
<1>2. PICK w \in 0 .. f - 1, p \in 0 .. f - 1 :
              /\ x * (t - 1) = f * w + p
              /\ RoundAt(x, t) = IF Up(p, w) THEN w + 1 ELSE w
              /\ ~Up(p, w) => 2 * p < f
              /\ p = 0 => ~Up(p, w)
  <2>1. PICK w \in 0 .. Full - 1, p \in 0 .. Full - 1 : Rounding(x, t, w, p)  BY RoundBounds
  <2>2. f = Full  BY <1>1
  <2>3. w \in 0 .. f - 1 /\ p \in 0 .. f - 1  BY <2>2, Zenon
  <2>4. /\ x * (t - 1) = f * w + p
        /\ RoundAt(x, t) = IF Up(p, w) THEN w + 1 ELSE w
        /\ ~Up(p, w) => 2 * p < f
        /\ p = 0 => ~Up(p, w)
    BY <2>1, <2>2, Zenon DEF Rounding
  <2> QED  BY <2>3, <2>4, Zenon
<1>3. PICK n \in Nat : n = RoundAt(x, t) /\ n \in {w, w + 1} /\ (n = w => 2 * p < f) /\ (p = 0 => n = w)
  <2>1. w \in Nat /\ w + 1 \in Nat /\ w # w + 1  OBVIOUS
  <2>2. CASE Up(p, w)
    <3>1. RoundAt(x, t) = w + 1 /\ p # 0  BY <1>2, <2>2, Zenon
    <3> QED  BY <2>1, <3>1
  <2>3. CASE ~Up(p, w)
    <3>1. RoundAt(x, t) = w /\ 2 * p < f  BY <1>2, <2>3, Zenon
    <3> QED  BY <2>1, <3>1
  <2> QED  BY <2>2, <2>3, Zenon
<1>4. x \in Nat /\ x <= f /\ p \in Nat /\ p <= f - 1 /\ w \in Nat  BY <1>1, FullIs
<1>5. t * x - t * (w * z) = x + p
  <2>1. t * (w * z) = (t * z) * w /\ x * (t - 1) = t * x - x  BY <1>4
  <2>2. t * x \in Nat /\ t * (w * z) \in Nat /\ f * w \in Nat  BY <1>4
  <2>3. t * (w * z) = f * w  BY <1>1, <2>1, Zenon
  <2> QED  BY <1>2, <1>4, <2>1, <2>2, <2>3
<1>6. 2 * (x - n * z) <= 3 * z
  <2>1. t * (2 * x) < t * (3 * z + 2 * (n * z))
    <3>1. t * (3 * z + 2 * (n * z)) = 3 * f + 2 * (t * (n * z)) /\ t * (2 * x) = 2 * (t * x)
      <4>1. t * (3 * z + 2 * (n * z)) = 3 * (t * z) + 2 * (t * (n * z))  BY <1>3
      <4> QED  BY <1>1, <1>4, <4>1
    <3>2. CASE n = w
      <4>1. t * x \in Nat /\ t * (w * z) \in Nat  BY <1>4
      <4> QED  BY <1>3, <1>4, <1>5, <3>1, <3>2, <4>1
    <3>3. CASE n = w + 1
      <4>1. t * (n * z) = t * (w * z) + t * z  BY <1>4, <3>3
      <4>2. t * x \in Nat /\ t * (w * z) \in Nat  BY <1>4
      <4> QED  BY <1>1, <1>4, <1>5, <3>1, <4>1, <4>2
    <3> QED  BY <1>3, <3>2, <3>3
  <2>2. 3 * z + 2 * (n * z) > 2 * x
    <3>1. PICK a \in Nat, b \in Nat : a = 3 * z + 2 * (n * z) /\ b = 2 * x  BY <1>4
    <3> QED  BY <2>1, <3>1, TimesKeeps
  <2>3. n * z \in Nat  OBVIOUS
  <2> QED  BY <1>4, <2>2, <2>3
<1>7. n * z - x <= z
  <2>1. t * (n * z) <= t * (x + z)
    <3>1. t * (x + z) = t * x + f  BY <1>1, <1>4
    <3>2. t * (n * z) <= t * (w * z) + t * z
      <4>1. CASE n = w  BY <1>1, <1>4, <4>1
      <4>2. CASE n = w + 1
        <5>1. t * (n * z) = t * (w * z) + t * z /\ t * (w * z) \in Nat  BY <1>4, <4>2
        <5> QED  BY <1>1, <5>1
      <4> QED  BY <1>3, <4>1, <4>2
    <3>3. t * x \in Nat /\ t * (w * z) \in Nat /\ t * (n * z) \in Nat BY <1>4
    <3> QED  BY <1>1, <1>4, <1>5, <3>1, <3>2, <3>3
  <2>2. x + z >= n * z
    <3>1. PICK a \in Nat, b \in Nat : a = x + z /\ b = n * z  BY <1>4
    <3>2. t * a >= t * b
      <4>1. t * a \in Nat /\ t * b \in Nat  OBVIOUS
      <4> QED  BY <2>1, <3>1, <4>1
    <3> QED  BY <3>1, <3>2, TimesKeeps
  <2>3. n * z \in Nat  OBVIOUS
  <2> QED  BY <1>4, <2>2, <2>3
<1>8. ASSUME NEW m \in Nat, x = m * z PROVE n \in {m, m - 1} /\ (2 * m <= t => n = m)
  <2>1. f * m = f * w + p + x
    <3>1. t * (m * z) = (t * z) * m /\ (m * z) * (t - 1) = t * (m * z) - m * z  OBVIOUS
    <3>2. f * m = t * x /\ x * (t - 1) = t * x - x  BY <1>1, <1>8, <3>1, Zenon
    <3>3. f * m \in Nat /\ f * w \in Nat  BY <1>4
    <3> QED  BY <1>2, <1>4, <3>2, <3>3
  <2>2. CASE m = 0
    <3>1. x = 0  BY <1>8, <2>2
    <3>2. w = 0 /\ p = 0
      <4>1. f * w + p = 0 /\ f * w \in Nat  BY <1>4, <2>1, <2>2, <3>1
      <4>2. w > 0 => f * w >= f  BY <1>4, SMTT(30)
      <4> QED  BY <1>4, <4>1, <4>2
    <3> QED  BY <1>3, <2>2, <3>2
  <2>3. CASE m # 0
    <3>1. x > 0
      <4>1. m * z > 0  BY <2>3, SMTT(30)
      <4> QED  BY <1>8, <4>1
    <3>2. m = w + 1
      <4>1. ~(m <= w)
        <5>1. ASSUME m <= w PROVE FALSE
          <6>1. f * w >= f * m  BY <1>4, <5>1, TimesKeeps
          <6>2. f * w \in Nat /\ f * m \in Nat  BY <1>4
          <6> QED  BY <1>4, <2>1, <3>1, <6>1, <6>2
        <5> QED  BY <5>1
      <4>2. ~(m >= w + 2)
        <5>1. ASSUME m >= w + 2 PROVE FALSE
          <6>1. f * m >= f * (w + 2) /\ w + 2 \in Nat  BY <1>4, <5>1, TimesKeeps
          <6>2. f * (w + 2) = f * w + 2 * f /\ f * w \in Nat /\ f * m \in Nat  BY <1>4
          <6> QED  BY <1>4, <2>1, <6>1, <6>2
        <5> QED  BY <5>1
      <4> QED  BY <1>4, <4>1, <4>2
    <3>3. p = f - x
      <4>1. f * m = f * w + f /\ f * w \in Nat  BY <1>4, <3>2
      <4> QED  BY <1>4, <2>1, <4>1
    <3>4. 2 * m <= t => ~(2 * p < f)
      <4>1. ASSUME 2 * m <= t PROVE f >= 2 * x
        <5>1. PICK j \in Nat : t = 2 * m + j
          <6>1. t - 2 * m \in Nat /\ t = 2 * m + (t - 2 * m)  BY <4>1
          <6> QED  BY <6>1
        <5>2. t * z = 2 * (m * z) + j * z /\ j * z \in Nat /\ m * z \in Nat  BY <5>1
        <5> QED  BY <1>1, <1>8, <5>2
      <4> QED  BY <1>4, <3>3, <4>1
    <3> QED  BY <1>3, <3>2, <3>4
  <2> QED  BY <2>2, <2>3
<1>9. n <= t - 1
  <2>1. PICK u \in Nat : u = t - 1  OBVIOUS
  <2>2. f * w + p <= f * u
    <3>1. PICK j \in Nat : f = x + j
      <4>1. f - x \in Nat /\ f = x + (f - x)  BY <1>4
      <4> QED  BY <4>1
    <3>2. f * u = x * u + j * u /\ j * u \in Nat /\ x * u \in Nat  BY <1>4, <3>1
    <3>3. x * u = f * w + p  BY <1>2, <2>1
    <3> QED  BY <3>2, <3>3
  <2>3. f * w \in Nat /\ f * u \in Nat  BY <1>4
  <2>4. f * u >= f * w /\ (p > 0 => f * u > f * w)  BY <1>4, <2>2, <2>3
  <2>5. u >= w /\ (p > 0 => u > w)  BY <1>4, <2>4, TimesKeeps
  <2> QED  BY <1>3, <1>4, <2>1, <2>5
<1>10. Near(x, n, t, z)
  <2>1. n \in 0 .. t - 1  BY <1>9
  <2> QED  BY <1>6, <1>7, <1>8, <2>1 DEF Near
<1> QED  BY <1>3, <1>10, Zenon

\* The louder of two samples is not rounded to less.
LEMMA RoundIsMonotone ==
    ASSUME NEW t \in Nat \ {0}, NEW z \in Nat \ {0}, t * z = Full,
           NEW x \in 0 .. Full, NEW y \in 0 .. Full, x <= y
    PROVE  RoundAt(x, t) <= RoundAt(y, t)
<1>1. PICK f \in Nat \ {0} : f = Full  BY FullIs
<1>2. PICK w \in 0 .. Full - 1, p \in 0 .. Full - 1 :
         x * (t - 1) = Full * w + p /\ RoundAt(x, t) = IF Up(p, w) THEN w + 1 ELSE w
  <2>1. PICK w \in 0 .. Full - 1, p \in 0 .. Full - 1 : Rounding(x, t, w, p)  BY RoundBounds
  <2> QED  BY <2>1, Zenon DEF Rounding
<1>3. PICK v \in 0 .. Full - 1, q \in 0 .. Full - 1 :
         y * (t - 1) = Full * v + q /\ RoundAt(y, t) = IF Up(q, v) THEN v + 1 ELSE v
  <2>1. PICK v \in 0 .. Full - 1, q \in 0 .. Full - 1 : Rounding(y, t, v, q)  BY RoundBounds
  <2> QED  BY <2>1, Zenon DEF Rounding
<1>4. /\ x \in Nat /\ y \in Nat /\ w \in Nat /\ v \in Nat
      /\ p \in Nat /\ q \in Nat /\ p < f /\ q < f
  BY <1>1, FullIs
<1>5. f * w + p <= f * v + q
  <2>1. PICK u \in Nat : u = t - 1  OBVIOUS
  <2>2. PICK j \in Nat : y = x + j
    <3>1. y - x \in Nat /\ y = x + (y - x)  BY <1>4
    <3> QED  BY <3>1
  <2>3. y * u = x * u + j * u /\ j * u \in Nat /\ x * u \in Nat  BY <1>4, <2>2
  <2>4. x * u = f * w + p /\ y * u = f * v + q  BY <1>1, <1>2, <1>3, <2>1, Zenon
  <2> QED  BY <2>3, <2>4
<1>6. w <= v
  <2> SUFFICES ASSUME w > v PROVE FALSE  BY <1>4
  <2>1. f * w >= f * (v + 1) /\ f * (v + 1) = f * v + f
    <3>1. v + 1 \in Nat /\ w >= v + 1  BY <1>4
    <3>2. f * (v + 1) = f * v + f  BY <1>4
    <3> QED  BY <1>4, <3>1, <3>2, TimesKeeps
  <2>2. f * w \in Nat /\ f * v \in Nat  BY <1>4
  <2> QED  BY <1>4, <1>5, <2>1, <2>2
<1>7. CASE w < v
  <2>1. RoundAt(x, t) \in {w, w + 1} /\ RoundAt(y, t) \in {v, v + 1}  BY <1>2, <1>3, Zenon
  <2> QED  BY <1>4, <1>7, <2>1
<1>8. CASE w = v
  <2>1. p <= q
    <3>1. f * w \in Nat  BY <1>4
    <3> QED  BY <1>4, <1>5, <1>8, <3>1
  <2>2. Up(p, w) => Up(q, w)
    <3>1. PICK g \in Nat \ {0} : g = Grid(w)
      <4>1. Grid(w) \in Grids  BY BitsAreFew
      <4> QED  BY <4>1, GridIs
    <3>2. (2 * p >= f => 2 * q >= f) /\ (4 * p > f => 4 * q > f)  BY <1>4, <2>1
    <3>3. 2 * (g * p) >= f * (g - 1) => 2 * (g * q) >= f * (g - 1)
      <4>1. g * q >= g * p  BY <1>4, <2>1, TimesKeeps
      <4>2. g * q \in Nat /\ g * p \in Nat /\ f * (g - 1) \in Nat  BY <1>4
      <4> QED  BY <4>1, <4>2
    <3> QED  BY <1>1, <3>1, <3>2, <3>3, Zenon DEF Up
  <2>3. (RoundAt(x, t) = w \/ (RoundAt(x, t) = w + 1 /\ RoundAt(y, t) = w + 1)) /\ RoundAt(y, t) \in {w, w + 1}
    BY <1>2, <1>3, <1>8, <2>2, Zenon
  <2> QED  BY <1>4, <2>3
<1> QED  BY <1>4, <1>6, <1>7, <1>8

-----------------------------------------------------------------------------
(* Conversions: samples, and the bytes they are on the wire. *)

\* The formats of PCM, but that of 32 bits.
Pcm == {"u8", "s16le", "s24le"}

LEMMA PcmIs ==
    ASSUME NEW f \in Pcm
    PROVE  /\ Handing!Top(f) \in Tops /\ Handing!Top(f) \in Scales
           /\ Handing!BytesPerSample(f) \in 1 .. 3
           /\ Handing!BytesPerSample(f) = 1 <=> f = "u8"
           /\ Handing!BytesPerSample(f) = 1 => Handing!Top(f) = 128
           /\ Handing!BytesPerSample(f) = 2 => Handing!Top(f) = 32768
           /\ Handing!BytesPerSample(f) = 3 => Handing!Top(f) = 8388608
<1>1. CASE f = "u8"
  <2>1. Handing!BytesPerSample(f) = 1  BY <1>1 DEF Handing!BytesPerSample
  <2>2. 8 * 1 - 1 = 7  OBVIOUS
  <2>3. Handing!Top(f) = 2 ^ 7  BY <2>1, <2>2, Zenon DEF Handing!Top
  <2> QED  BY <1>1, <2>1, <2>3, LowPowers, SMT DEF Tops, Scales
<1>2. CASE f = "s16le"
  <2>1. Handing!BytesPerSample(f) = 2  BY <1>2 DEF Handing!BytesPerSample
  <2>2. 8 * 2 - 1 = 15  OBVIOUS
  <2>3. Handing!Top(f) = 2 ^ 15  BY <2>1, <2>2, Zenon DEF Handing!Top
  <2> QED  BY <1>2, <2>1, <2>3, HighPowers, SMT DEF Tops, Scales
<1>3. CASE f = "s24le"
  <2>1. Handing!BytesPerSample(f) = 3  BY <1>3 DEF Handing!BytesPerSample
  <2>2. 8 * 3 - 1 = 23  OBVIOUS
  <2>3. Handing!Top(f) = 2 ^ 23  BY <2>1, <2>2, Zenon DEF Handing!Top
  <2> QED  BY <1>3, <2>1, <2>3, HighPowers, SMT DEF Tops, Scales
<1> QED  BY <1>1, <1>2, <1>3, SMT DEF Pcm

\* What a float of so many steps of 24 bits is rounded to.
SignedAt(x, t) == IF x < 0 THEN -RoundAt(-x, t) ELSE RoundAt(x, t)

LEMMA QuantiseIs ==
    ASSUME NEW u \in [num : Int, scale : Scales], -u.scale <= u.num, u.num <= u.scale, NEW t \in Scales
    PROVE  /\ Handing!Level(u) \in Int /\ -Full <= Handing!Level(u) /\ Handing!Level(u) <= Full
           /\ Handing!Level(u) < 0 <=> u.num < 0
           /\ (IF u.num < 0 THEN -Handing!Rounded(Handing!Magnitude(u.num), u.scale, t)
               ELSE Handing!Rounded(Handing!Magnitude(u.num), u.scale, t)) = SignedAt(Handing!Level(u), t)
<1>1. PICK n \in Int, s \in Scales : n = u.num /\ s = u.scale  OBVIOUS
<1>2. s \in Nat \ {0} /\ -s <= n /\ n <= s  BY <1>1, ScaleIs
<1>3. PICK c \in Nat \ {0} : c = Full \div s /\ s * c = Full  BY ScaleIs
<1>4. Handing!Level(u) = n * c  BY <1>1, <1>3, FullIs, Zenon DEF Handing!Level
<1>5. PICK m \in 0 .. s : m = Handing!Magnitude(n) /\ (n < 0 => n = -m) /\ (n >= 0 => n = m)
  BY <1>2 DEF Handing!Magnitude
<1>6. m \in Nat /\ m * c \in Nat /\ m * c <= Full
  <2>1. PICK j \in Nat : s = m + j
    <3>1. s - m \in Nat /\ s = m + (s - m)  BY <1>2
    <3> QED  BY <3>1
  <2>2. s * c = m * c + j * c /\ j * c \in Nat /\ m * c \in Nat  BY <2>1
  <2> QED  BY <1>3, <2>2, FullIs
<1>7. Handing!Rounded(m, s, t) = RoundAt(m * c, t)  BY <1>3, RoundedIs, Zenon
<1>8. CASE n < 0
  <2>1. m >= 1 /\ n = -m  BY <1>5, <1>8
  <2>2. n * c = -(m * c)  BY <2>1
  <2>3. m * c > 0  BY <2>1, SMTT(30)
  <2>4. n * c \in Int /\ n * c < 0 /\ -Full <= n * c /\ n * c <= Full  BY <1>6, <2>2, <2>3, FullIs
  <2>5. -(n * c) = m * c  BY <1>6, <2>2
  <2>6. SignedAt(n * c, t) = -RoundAt(m * c, t)  BY <2>4, <2>5, Zenon DEF SignedAt
  <2> QED  BY <1>1, <1>4, <1>5, <1>7, <1>8, <2>4, <2>6, Zenon
<1>9. CASE ~(n < 0)
  <2>1. n = m  BY <1>5, <1>9
  <2>2. n * c \in Int /\ ~(n * c < 0) /\ -Full <= n * c /\ n * c <= Full  BY <1>6, <2>1, FullIs
  <2>3. SignedAt(n * c, t) = RoundAt(m * c, t)  BY <2>1, <2>2, Zenon DEF SignedAt
  <2> QED  BY <1>1, <1>4, <1>5, <1>7, <1>9, <2>2, <2>3, Zenon
<1> QED  BY <1>8, <1>9

LEMMA ClampIs ==
    ASSUME NEW u \in Handing!Sample \cup {NaN}
    PROVE  /\ Handing!ClampUnit(u) \in [num : Int, scale : Scales]
           /\ -Handing!ClampUnit(u).scale <= Handing!ClampUnit(u).num
           /\ Handing!ClampUnit(u).num <= Handing!ClampUnit(u).scale
<1>1. CASE u = NaN
  <2>1. Handing!ClampUnit(u) = [num |-> 0, scale |-> 1]  BY <1>1 DEF Handing!ClampUnit
  <2>2. 1 \in Scales  BY SMT DEF Scales
  <2> QED  BY <2>1, <2>2
<1>2. CASE u # NaN
  <2>1. u \in [num : Int, scale : Scales]
    <3>1. \A k \in 0 .. 23 : 2 ^ k \in Scales
      <4>1. \A k \in 0 .. 23 : k \in 0 .. 24 /\ k <= 23  OBVIOUS
      <4> QED  BY <4>1, PowersAreScales, Zenon
    <3>2. {2 ^ k : k \in 0 .. 23} \subseteq Scales  BY <3>1, Zenon
    <3>3. u \in [num : Int, scale : {2 ^ k : k \in 0 .. 23}]  BY <1>2, Zenon DEF Handing!Sample
    <3> QED  BY <3>2, <3>3
  <2>2. u.scale \in Nat \ {0} /\ u.num \in Int  BY <2>1, ScaleIs
  <2>3. Handing!ClampUnit(u) =
           [u EXCEPT !.num = Handing!Greatest(-u.scale, Handing!Smallest(u.num, u.scale))]
    BY <1>2, Zenon DEF Handing!ClampUnit
  <2>4. PICK m \in Int : /\ m = Handing!Greatest(-u.scale, Handing!Smallest(u.num, u.scale))
                         /\ -u.scale <= m /\ m <= u.scale
    BY <2>2 DEF Handing!Greatest, Handing!Smallest
  <2>5. Handing!ClampUnit(u) = [u EXCEPT !.num = m]  BY <2>3, <2>4, Zenon
  <2> QED  BY <2>1, <2>4, <2>5
<1> QED  BY <1>1, <1>2

\* The bytes of a number.
Code(v, f) ==
    IF f = "u8" THEN <<v + 128>>
    ELSE [i \in 1 .. Handing!BytesPerSample(f) |->
             ((v % (2 * Handing!Top(f))) \div 256 ^ (i - 1)) % 256]

LEMMA TwoBytes ==
    ASSUME NEW n \in Nat, n < 65536
    PROVE  (n % 256) + 256 * ((n \div 256) % 256) = n
  BY SMT
LEMMA ThreeBytes ==
    ASSUME NEW n \in Nat, n < 16777216
    PROVE  (n % 256) + 256 * ((n \div 256) % 256) + 65536 * ((n \div 65536) % 256) = n
  BY SMT
LEMMA TwosComplement ==
    /\ \A v \in Int : -32767 <= v /\ v <= 32767 =>
          LET n == v % 65536 IN (IF n >= 32768 THEN n - 65536 ELSE n) = v /\ n \in Nat /\ n < 65536
    /\ \A v \in Int : -8388607 <= v /\ v <= 8388607 =>
          LET n == v % 16777216 IN (IF n >= 8388608 THEN n - 16777216 ELSE n) = v /\ n \in Nat /\ n < 16777216
  BY SMT
LEMMA BytePowers == 256 ^ 0 = 1 /\ 256 ^ 1 = 256 /\ 256 ^ 2 = 65536 /\ \A v \in Int : v \div 1 = v
  BY SMT

\* What is decoded is what was encoded.
\* A number of so many bytes.
Fits(m, size) ==
    /\ size = 1 => m < 256
    /\ size = 2 => m < 65536
    /\ size = 3 => m < 16777216

\* Bytes are the number they were made of.
LEMMA UnsignedIs ==
    ASSUME NEW bytes, NEW size \in 1 .. 3, DOMAIN bytes = 1 .. size, NEW m \in Nat,
           \A i \in 1 .. size : bytes[i] = (m \div 256 ^ (i - 1)) % 256,
           Fits(m, size)
    PROVE  Handing!Unsigned(bytes) = m
<1>0. (size = 1 => m < 256) /\ (size = 2 => m < 65536) /\ (size = 3 => m < 16777216)
  BY SMT DEF Fits
<1>1. m \div 256 ^ (1 - 1) = m /\ 256 ^ (2 - 1) = 256 /\ 256 ^ (3 - 1) = 65536
  <2>1. 1 - 1 = 0 /\ 2 - 1 = 1 /\ 3 - 1 = 2  OBVIOUS
  <2>2. m \div 1 = m  BY BytePowers, SMT
  <2> QED  BY <2>1, <2>2, BytePowers, SMT
<1>2. CASE size = 1
  <2>1. 1 \in 1 .. 1 /\ 2 \notin 1 .. 1 /\ 3 \notin 1 .. 1  OBVIOUS
  <2>2. bytes[1] = m % 256 /\ m % 256 = m
    <3>1. m % 256 = m  BY <1>0, <1>2, SMT
    <3> QED  BY <1>1, <1>2, <2>1, <3>1, SMT
  <2> QED  BY <1>2, <2>1, <2>2, SMT DEF Handing!Unsigned
<1>3. CASE size = 2
  <2>1. 1 \in 1 .. 2 /\ 2 \in 1 .. 2 /\ 3 \notin 1 .. 2  OBVIOUS
  <2>2. bytes[1] = m % 256 /\ bytes[2] = (m \div 256) % 256  BY <1>1, <1>3, <2>1, SMT
  <2>3. (m % 256) + 256 * ((m \div 256) % 256) = m  BY <1>0, <1>3, TwoBytes, SMT
  <2>4. PICK a \in Int, b \in Int : a = m % 256 /\ b = (m \div 256) % 256  BY SMT
  <2>5. Handing!Unsigned(bytes) = a + 256 * b
    BY <1>3, <2>1, <2>2, <2>4, SMT DEF Handing!Unsigned
  <2> QED  BY <2>3, <2>4, <2>5, SMT
<1>4. CASE size = 3
  <2>1. 1 \in 1 .. 3 /\ 2 \in 1 .. 3 /\ 3 \in 1 .. 3  OBVIOUS
  <2>2. bytes[1] = m % 256 /\ bytes[2] = (m \div 256) % 256 /\ bytes[3] = (m \div 65536) % 256
    BY <1>1, <1>4, <2>1, SMT
  <2>3. (m % 256) + 256 * ((m \div 256) % 256) + 65536 * ((m \div 65536) % 256) = m
    BY <1>0, <1>4, ThreeBytes, SMT
  <2>4. PICK a \in Int, b \in Int, c \in Int :
           a = m % 256 /\ b = (m \div 256) % 256 /\ c = (m \div 65536) % 256
    BY SMT
  <2>5. Handing!Unsigned(bytes) = a + 256 * b + 65536 * c
    BY <1>4, <2>1, <2>2, <2>4, SMT DEF Handing!Unsigned
  <2> QED  BY <2>3, <2>4, <2>5, SMT
<1> QED  BY <1>2, <1>3, <1>4

LEMMA DecodeIs ==
    ASSUME NEW f \in Pcm, NEW v \in Int, -Handing!Top(f) < v, v < Handing!Top(f),
           NEW bytes, DOMAIN bytes = 1 .. Handing!BytesPerSample(f),
           \A i \in 1 .. Handing!BytesPerSample(f) : bytes[i] = Code(v, f)[i]
    PROVE  Handing!Decode(bytes, f) = [num |-> v, scale |-> Handing!Top(f)]
<1> DEFINE n == Handing!Unsigned(bytes)
<1>1. Handing!Decode(bytes, f) =
         [num |-> IF f = "u8" THEN n - 128
                  ELSE IF n >= Handing!Top(f) THEN n - 2 * Handing!Top(f) ELSE n,
          scale |-> Handing!Top(f)]
  BY Zenon DEF Handing!Decode
<1>2. CASE f = "u8"
  <2>1. Handing!BytesPerSample(f) = 1  BY <1>2, PcmIs
  <2>2. bytes[1] = v + 128
    <3>1. bytes[1] = Code(v, f)[1]  BY <2>1
    <3>2. Code(v, f)[1] = v + 128  BY <1>2 DEF Code
    <3> QED  BY <3>1, <3>2
  <2>3. n = v + 128
    <3>1. 1 \in 1 .. 1 /\ 2 \notin 1 .. 1 /\ 3 \notin 1 .. 1  OBVIOUS
    <3> QED  BY <2>1, <2>2, <3>1, SMT DEF Handing!Unsigned
  <2> HIDE DEF n
  <2>4. n - 128 = v  BY <2>3
  <2> QED  BY <1>1, <1>2, <2>4, Zenon
<1>3. CASE f # "u8"
  <2> DEFINE m == v % (2 * Handing!Top(f))
  <2>1. \A i \in 1 .. Handing!BytesPerSample(f) : bytes[i] = (m \div 256 ^ (i - 1)) % 256
    <3>1. Code(v, f) = [i \in 1 .. Handing!BytesPerSample(f) |-> (m \div 256 ^ (i - 1)) % 256]
      BY <1>3, Zenon DEF Code
    <3> HIDE DEF m
    <3>2. \A i \in 1 .. Handing!BytesPerSample(f) : Code(v, f)[i] = (m \div 256 ^ (i - 1)) % 256
      BY <3>1, ZenonT(60)
    <3> QED  BY <3>2, ZenonT(60)
  <2>2. PICK size \in 1 .. 3 : size = Handing!BytesPerSample(f) /\ size # 1  BY <1>3, PcmIs, SMT
  <2>3. /\ m \in Nat /\ (IF m >= Handing!Top(f) THEN m - 2 * Handing!Top(f) ELSE m) = v
        /\ Fits(m, size)
    <3>1. CASE size = 2
      <4>0. Handing!BytesPerSample(f) = 2  BY <2>2, <3>1
      <4>1. Handing!Top(f) = 32768  BY <4>0, PcmIs
      <4>2. 2 * Handing!Top(f) = 65536 /\ -32767 <= v /\ v <= 32767  BY <4>1, SMT
      <4> QED  BY <3>1, <4>1, <4>2, TwosComplement, SMT DEF Fits
    <3>2. CASE size = 3
      <4>0. Handing!BytesPerSample(f) = 3  BY <2>2, <3>2
      <4>1. Handing!Top(f) = 8388608  BY <4>0, PcmIs
      <4>2. 2 * Handing!Top(f) = 16777216 /\ -8388607 <= v /\ v <= 8388607  BY <4>1, SMT
      <4> QED  BY <3>2, <4>1, <4>2, TwosComplement, SMT DEF Fits
    <3> QED  BY <2>2, <3>1, <3>2, SMT
  <2> HIDE DEF m
  <2>4. n = m
    <3>1. \A i \in 1 .. size : bytes[i] = (m \div 256 ^ (i - 1)) % 256  BY <2>1, <2>2, Zenon
    <3>2. DOMAIN bytes = 1 .. size  BY <2>2, Zenon
    <3> QED  BY <2>3, <3>1, <3>2, UnsignedIs, ZenonT(60)
  <2> HIDE DEF n
  <2>5. (IF n >= Handing!Top(f) THEN n - 2 * Handing!Top(f) ELSE n) = v
    <3>1. (IF m >= Handing!Top(f) THEN m - 2 * Handing!Top(f) ELSE m) = v  BY <2>3, SMT
    <3> QED  BY <2>4, <3>1, Zenon
  <2> QED  BY <1>1, <1>3, <2>5, Zenon
<1> QED  BY <1>2, <1>3

-----------------------------------------------------------------------------
(* Conversions: a relay stays close to what was played. *)

\* How loud a sample is within the scale, and how much a step of a format is.
Loudness(u) == Handing!Level(Handing!ClampUnit(u))
Size(f) == Full \div Handing!Top(f)

LEMMA SizeIs ==
    ASSUME NEW f \in Pcm
    PROVE  /\ Size(f) \in Nat \ {0} /\ Handing!Top(f) \in Nat \ {0} /\ Handing!Top(f) * Size(f) = Full
           /\ Handing!Step(f, FALSE) = Size(f) /\ Handing!Step(f, TRUE) = Size(f) + Size(f) \div 2
<1>1. Handing!Top(f) \in Scales  BY PcmIs
<1>2. Handing!Step(f, FALSE) = Size(f) /\ Handing!Step(f, TRUE) = Size(f) + Size(f) \div 2
  BY FullIs, Zenon DEF Handing!Step, Size
<1> QED  BY <1>1, <1>2, ScaleIs, Zenon DEF Size

\* What a format makes of a sample.
Apart(a, b, d) == a - b <= d /\ b - a <= d

QuantisedTo(u, f, q) ==
    /\ q \in Int /\ -Handing!Top(f) < q /\ q < Handing!Top(f)
    /\ Loudness(u) \in Int
    /\ Apart(q * Size(f), Loudness(u), Handing!Step(f, TRUE))
    /\ \A m \in Int : Loudness(u) = m * Size(f) =>
          /\ Apart(q * Size(f), Loudness(u), Size(f))
          /\ 2 * Handing!Magnitude(m) <= Handing!Top(f) => q = m
          /\ Handing!Magnitude(q) <= Handing!Magnitude(m)

LEMMA SignedIsNear ==
    ASSUME NEW t \in Nat \ {0}, NEW z \in Nat \ {0}, t * z = Full, NEW x \in Int, -Full <= x, x <= Full
    PROVE  LET q == SignedAt(x, t)
           IN  /\ q \in Int /\ -t < q /\ q < t
               /\ Apart(q * z, x, z + z \div 2)
               /\ \A m \in Int : x = m * z =>
                     /\ Apart(q * z, x, z)
                     /\ 2 * Handing!Magnitude(m) <= t => q = m
                     /\ Handing!Magnitude(q) <= Handing!Magnitude(m)
<1>1. PICK y \in 0 .. Full : (x >= 0 => y = x) /\ (x < 0 => y = -x)
  <2>1. CASE x >= 0
    <3>1. x \in 0 .. Full /\ ~(x < 0)  BY <2>1, FullIs
    <3> QED  BY <3>1
  <2>2. CASE x < 0
    <3>1. -x \in 0 .. Full /\ ~(x >= 0)  BY <2>2, FullIs
    <3> QED  BY <3>1
  <2> QED  BY <2>1, <2>2
<1>2. y \in Nat  BY FullIs
<1>3. PICK n \in 0 .. t - 1 : n = RoundAt(y, t) /\ Near(y, n, t, z)
  <2>1. Near(y, RoundAt(y, t), t, z)  BY RoundIsNear
  <2> QED  BY <2>1 DEF Near
<1>4. 2 * (y - n * z) <= 3 * z /\ n * z - y <= z /\ n * z \in Nat /\ n \in Nat /\ n < t
  BY <1>3 DEF Near
<1>5. n * z - y <= z + z \div 2 /\ y - n * z <= z + z \div 2
  <2>1. PICK a \in Nat : a = n * z  BY <1>4
  <2>2. 2 * (y - a) <= 3 * z /\ a - y <= z  BY <1>4, <2>1, Zenon
  <2>3. a - y <= z + z \div 2 /\ y - a <= z + z \div 2  BY <1>2, <2>2
  <2> QED  BY <2>1, <2>3, Zenon
<1>6. \A m \in Nat : y = m * z => n \in {m, m - 1} /\ (2 * m <= t => n = m) /\ n <= m
                                 /\ n * z - y <= z /\ y - n * z <= z
  <2> SUFFICES ASSUME NEW m \in Nat, y = m * z
               PROVE  n \in {m, m - 1} /\ (2 * m <= t => n = m) /\ n <= m
                      /\ n * z - y <= z /\ y - n * z <= z
    OBVIOUS
  <2>1. n \in {m, m - 1} /\ (2 * m <= t => n = m)  BY <1>3 DEF Near
  <2>2. n <= m  BY <1>4, <2>1
  <2>3. CASE n = m  BY <2>1, <2>3
  <2>4. CASE n = m - 1
    <3>1. n * z = m * z - z /\ m * z \in Nat  BY <2>4
    <3> QED  BY <2>1, <2>4, <3>1
  <2> QED  BY <2>1, <2>3, <2>4
<1>7. CASE x >= 0
  <2>1. SignedAt(x, t) = n /\ y = x
    <3>1. ~(x < 0)  BY <1>7
    <3>2. y = x  BY <1>1, <1>7
    <3> QED  BY <1>3, <3>1, <3>2, Zenon DEF SignedAt
  <2>2. \A m \in Int : x = m * z =>
           /\ Apart(n * z, x, z)
           /\ 2 * Handing!Magnitude(m) <= t => n = m
           /\ Handing!Magnitude(n) <= Handing!Magnitude(m)
    <3> SUFFICES ASSUME NEW m \in Int, x = m * z
                 PROVE  /\ Apart(n * z, x, z)
                        /\ 2 * Handing!Magnitude(m) <= t => n = m
                        /\ Handing!Magnitude(n) <= Handing!Magnitude(m)
      OBVIOUS
    <3>1. m \in Nat
      <4>1. m <= -1 => m * z < 0  BY SMTT(30)
      <4> QED  BY <1>7, <4>1
    <3>2. Handing!Magnitude(m) = m /\ Handing!Magnitude(n) = n  BY <1>4, <3>1 DEF Handing!Magnitude
    <3>3. (2 * m <= t => n = m) /\ n <= m /\ n * z - x <= z /\ x - n * z <= z  BY <1>6, <2>1, <3>1
    <3> QED  BY <3>2, <3>3, Zenon DEF Apart
  <2>3. n \in Int /\ -t < n /\ n < t  BY <1>4
  <2>4. Apart(n * z, x, z + z \div 2)  BY <1>5, <2>1, Zenon DEF Apart
  <2> QED  BY <2>1, <2>2, <2>3, <2>4, Zenon
<1>8. CASE x < 0
  <2>1. SignedAt(x, t) = -n /\ y = -x
    <3>1. y = -x  BY <1>1, <1>8
    <3> QED  BY <1>3, <1>8, <3>1, Zenon DEF SignedAt
  <2>2. PICK q \in Int : q = -n /\ q * z = -(n * z)
    <3>1. (-n) * z = -(n * z) /\ -n \in Int  BY <1>4
    <3> QED  BY <3>1
  <2>3. \A m \in Int : x = m * z =>
           /\ Apart(q * z, x, z)
           /\ 2 * Handing!Magnitude(m) <= t => q = m
           /\ Handing!Magnitude(q) <= Handing!Magnitude(m)
    <3> SUFFICES ASSUME NEW m \in Int, x = m * z
                 PROVE  /\ Apart(q * z, x, z)
                        /\ 2 * Handing!Magnitude(m) <= t => q = m
                        /\ Handing!Magnitude(q) <= Handing!Magnitude(m)
      OBVIOUS
    <3>1. m <= -1
      <4>1. m >= 0 => m * z >= 0  BY SMTT(30)
      <4> QED  BY <1>8, <4>1
    <3>2. PICK k \in Nat : k = -m /\ m = -k /\ y = k * z
      <4>1. -m \in Nat /\ m = -(-m) /\ (-m) * z = -(m * z)  BY <3>1
      <4> QED  BY <2>1, <4>1
    <3>3. (2 * k <= t => n = k) /\ n <= k /\ n * z - y <= z /\ y - n * z <= z  BY <1>6, <3>2
    <3>4. Handing!Magnitude(m) = k /\ Handing!Magnitude(q) = n
      BY <1>4, <2>2, <3>1, <3>2 DEF Handing!Magnitude
    <3>5. (2 * k <= t => q = m)  BY <2>2, <3>2, <3>3
    <3>6. q * z - x <= z /\ x - q * z <= z
      <4>1. PICK a \in Nat : a = n * z  BY <1>4
      <4>2. a - y <= z /\ y - a <= z  BY <3>3, <4>1, Zenon
      <4>3. q * z = -a /\ x = -y  BY <1>2, <2>1, <2>2, <4>1
      <4>4. -a - x <= z /\ x - (-a) <= z  BY <1>2, <4>2, <4>3
      <4> QED  BY <4>3, <4>4, Zenon
    <3> QED  BY <3>3, <3>4, <3>5, <3>6, Zenon DEF Apart
  <2>4. -t < q /\ q < t  BY <1>4, <2>2
  <2>5. Apart(q * z, x, z + z \div 2)
    <3>1. PICK a \in Nat : a = n * z  BY <1>4
    <3>2. a - y <= z + z \div 2 /\ y - a <= z + z \div 2  BY <1>5, <3>1, Zenon
    <3>3. q * z = -a /\ x = -y  BY <1>2, <2>1, <2>2, <3>1
    <3>4. -a - x <= z + z \div 2 /\ x - (-a) <= z + z \div 2  BY <1>2, <3>2, <3>3
    <3> QED  BY <3>3, <3>4, Zenon DEF Apart
  <2>6. SignedAt(x, t) = q  BY <2>1, <2>2, Zenon
  <2> QED  BY <2>3, <2>4, <2>5, <2>6, Zenon
<1>9. x >= 0 \/ x < 0  OBVIOUS
<1> QED  BY <1>7, <1>8, <1>9, Zenon

LEMMA SignedIsMonotone ==
    ASSUME NEW t \in Nat \ {0}, NEW z \in Nat \ {0}, t * z = Full,
           NEW x \in Int, NEW y \in Int, -Full <= x, x <= y, y <= Full
    PROVE  SignedAt(x, t) <= SignedAt(y, t)
<1>1. \A u \in 0 .. Full : RoundAt(u, t) \in Nat
  <2>1. \A u \in 0 .. Full : RoundAt(u, t) \in 0 .. t - 1  BY RoundIsNear DEF Near
  <2> QED  BY <2>1
<1>2. CASE x >= 0
  <2>1. x \in 0 .. Full /\ y \in 0 .. Full /\ ~(x < 0) /\ ~(y < 0)  BY <1>2, FullIs
  <2>2. RoundAt(x, t) <= RoundAt(y, t)  BY <2>1, RoundIsMonotone
  <2> QED  BY <2>1, <2>2, Zenon DEF SignedAt
<1>3. CASE x < 0 /\ y < 0
  <2>1. -x \in 0 .. Full /\ -y \in 0 .. Full /\ -y <= -x  BY <1>3, FullIs
  <2>2. RoundAt(-y, t) <= RoundAt(-x, t)  BY <2>1, RoundIsMonotone
  <2>3. PICK a \in Nat, b \in Nat : a = RoundAt(-y, t) /\ b = RoundAt(-x, t)  BY <1>1, <2>1
  <2>4. -b <= -a  BY <2>2, <2>3
  <2> QED  BY <1>3, <2>3, <2>4, Zenon DEF SignedAt
<1>4. CASE x < 0 /\ y >= 0
  <2>1. -x \in 0 .. Full /\ y \in 0 .. Full /\ ~(y < 0)  BY <1>4, FullIs
  <2>2. PICK a \in Nat, b \in Nat : a = RoundAt(y, t) /\ b = RoundAt(-x, t)  BY <1>1, <2>1
  <2>3. -b <= a  OBVIOUS
  <2> QED  BY <1>4, <2>1, <2>2, <2>3, Zenon DEF SignedAt
<1> QED  BY <1>2, <1>3, <1>4

LEMMA QuantiseSigned ==
    ASSUME NEW u \in Handing!Sample \cup {NaN}, NEW f \in Pcm
    PROVE  /\ Handing!Quantise(u, f) = SignedAt(Loudness(u), Handing!Top(f))
           /\ Loudness(u) \in Int /\ -Full <= Loudness(u) /\ Loudness(u) <= Full
<1>1. PICK v : v = Handing!ClampUnit(u)  OBVIOUS
<1>2. v \in [num : Int, scale : Scales] /\ -v.scale <= v.num /\ v.num <= v.scale  BY <1>1, ClampIs, Zenon
<1>3. Handing!Top(f) \in Scales  BY PcmIs
<1>4. Handing!Quantise(u, f) =
         IF v.num < 0 THEN -Handing!Rounded(Handing!Magnitude(v.num), v.scale, Handing!Top(f))
         ELSE Handing!Rounded(Handing!Magnitude(v.num), v.scale, Handing!Top(f))
  BY <1>1, Zenon DEF Handing!Quantise
<1> QED  BY <1>1, <1>2, <1>3, <1>4, QuantiseIs, Zenon DEF Loudness

LEMMA QuantiseIsNear ==
    ASSUME NEW u \in Handing!Sample \cup {NaN}, NEW f \in Pcm
    PROVE  QuantisedTo(u, f, Handing!Quantise(u, f))
<1>1. PICK x \in Int : x = Loudness(u) /\ -Full <= x /\ x <= Full  BY QuantiseSigned
<1>2. PICK t \in Nat \ {0}, z \in Nat \ {0} : t = Handing!Top(f) /\ z = Size(f) /\ t * z = Full
  BY SizeIs
<1>3. Handing!Step(f, TRUE) = z + z \div 2  BY <1>2, SizeIs, Zenon
<1>4. Handing!Quantise(u, f) = SignedAt(x, t)  BY <1>1, <1>2, QuantiseSigned, Zenon
<1>5. PICK q : q = SignedAt(x, t)  OBVIOUS
<1>6. /\ q \in Int /\ -t < q /\ q < t
      /\ Apart(q * z, x, z + z \div 2)
      /\ \A m \in Int : x = m * z =>
            /\ Apart(q * z, x, z)
            /\ 2 * Handing!Magnitude(m) <= t => q = m
            /\ Handing!Magnitude(q) <= Handing!Magnitude(m)
  BY <1>1, <1>2, <1>5, SignedIsNear, Zenon
<1>7. QuantisedTo(u, f, q)  BY <1>1, <1>2, <1>3, <1>6, Zenon DEF QuantisedTo
<1> QED  BY <1>4, <1>5, <1>7, Zenon

LEMMA QuantiseIsMonotone ==
    ASSUME NEW u \in Handing!Sample \cup {NaN}, NEW v \in Handing!Sample \cup {NaN}, NEW f \in Pcm,
           Loudness(u) <= Loudness(v)
    PROVE  Handing!Quantise(u, f) <= Handing!Quantise(v, f)
<1>1. PICK t \in Nat \ {0}, z \in Nat \ {0} : t = Handing!Top(f) /\ t * z = Full  BY SizeIs
<1>2. PICK x \in Int : x = Loudness(u) /\ -Full <= x  BY QuantiseSigned
<1>3. PICK y \in Int : y = Loudness(v) /\ y <= Full  BY QuantiseSigned
<1>4. SignedAt(x, t) <= SignedAt(y, t)  BY <1>1, <1>2, <1>3, SignedIsMonotone, Zenon
<1> QED  BY <1>1, <1>2, <1>3, <1>4, QuantiseSigned, Zenon

\* What is on the wire: the numbers `v`, one for each sample played, no further from it than
\* the hops allow and in its order.
OnWire(v, f) ==
    LET size == Handing!BytesPerSample(f)
    IN  [k \in 1 .. size * Len(sound) |->
            Code(v[((k - 1) \div size) + 1], f)[((k - 1) % size) + 1]]

Coded(v, f) ==
    /\ v \in [1 .. Len(sound) -> Int]
    /\ \A i \in 1 .. Len(sound) : -Handing!Top(f) < v[i] /\ v[i] < Handing!Top(f)

Follows(v, f, d) ==
    /\ \A i \in 1 .. Len(sound) : Apart(v[i] * Size(f), Loudness(sound[i]), d)
    /\ NaN \notin Handing!ToSet(sound) => \A i \in 1 .. Len(sound) - 1 : v[i] <= v[i + 1]

SoundInv ==
    /\ sound \in Played /\ slack \in Nat /\ (format = None => slack = 0)
    /\ format # None =>
          /\ format \in Pcm
          /\ \E v : Coded(v, format) /\ wire = OnWire(v, format) /\ Follows(v, format, slack)

LEMMA CodeBytes ==
    ASSUME NEW f \in Pcm, NEW v \in Int, NEW i \in 1 .. Handing!BytesPerSample(f)
    PROVE  Code(v, f)[i] \in Int
<1>1. CASE f = "u8"
  <2>1. i = 1  BY <1>1, PcmIs
  <2>2. Code(v, f)[1] = v + 128  BY <1>1 DEF Code
  <2> QED  BY <2>1, <2>2
<1>2. CASE f # "u8"
  <2>1. PICK n \in Int : n = v % (2 * Handing!Top(f))
    <3>1. Handing!Top(f) \in Nat \ {0}  BY SizeIs
    <3> QED  BY <3>1
  <2>2. PICK d \in Nat \ {0} : d = 256 ^ (i - 1)
    <3>1. PICK j \in {0, 1, 2} : j = i - 1
      <4>1. Handing!BytesPerSample(f) \in 1 .. 3  BY PcmIs
      <4>2. i - 1 \in {0, 1, 2}  BY <4>1
      <4> QED  BY <4>2
    <3>2. 256 ^ 0 \in Nat \ {0} /\ 256 ^ 1 \in Nat \ {0} /\ 256 ^ 2 \in Nat \ {0}  BY BytePowers, SMT
    <3>3. 256 ^ j \in Nat \ {0}  BY <3>2, ZenonT(60)
    <3> QED  BY <3>1, <3>3, Zenon
  <2>3. Code(v, f)[i] = (n \div d) % 256  BY <1>2, <2>1, <2>2, Zenon DEF Code
  <2> QED  BY <2>3
<1> QED  BY <1>1, <1>2

\* The sample a byte is of.
LEMMA PlaceOfByte ==
    ASSUME NEW z \in Nat \ {0}, NEW n \in Nat, NEW k \in 1 .. z * n
    PROVE  ((k - 1) \div z) + 1 \in 1 .. n
<1>1. PICK q \in Int, r \in 0 .. z - 1 : k - 1 = z * q + r /\ q = (k - 1) \div z
  <2>1. k - 1 \in Int  OBVIOUS
  <2> QED  BY <2>1, Divided, Zenon
<1>2. q <= -1 => z * q <= -z  BY SMTT(30)
<1>3. q >= n => z * q >= z * n
  <2>1. ASSUME q >= n PROVE z * q >= z * n
    <3>1. q \in Nat  BY <2>1
    <3> QED  BY <2>1, <3>1, TimesKeeps
  <2> QED  BY <2>1
<1>4. z * n \in Nat /\ z * q \in Int  OBVIOUS
<1>5. q + 1 \in 1 .. n  BY <1>1, <1>2, <1>3, <1>4
<1> QED  BY <1>1, <1>5, Zenon

\* The samples heard are the numbers on the wire.
LEMMA HeardIs ==
    ASSUME sound \in Played, format \in Pcm, NEW v, Coded(v, format), wire = OnWire(v, format)
    PROVE  Handing!Heard = [i \in 1 .. Len(sound) |-> [num |-> v[i], scale |-> Handing!Top(format)]]
<1>1. PICK n \in Nat : n = Len(sound)
  <2>1. sound \in Seq(Handing!Sample \cup {NaN})
    BY HandingAssumption DEF Handing!ConversionAssumption
  <2> QED  BY <2>1, LenProperties
<1>2. PICK z \in Nat \ {0} : z = Handing!BytesPerSample(format)  BY PcmIs
<1> DEFINE At(k) == Code(v[((k - 1) \div z) + 1], format)[((k - 1) % z) + 1]
<1>3. wire = [k \in 1 .. z * n |-> At(k)]  BY <1>1, <1>2, Zenon DEF OnWire
<1>4. ASSUME NEW i \in 1 .. n, NEW j \in 1 .. z
      PROVE  /\ (i - 1) * z + j \in 1 .. z * n
             /\ At((i - 1) * z + j) = Code(v[i], format)[j]
  <2>1. PICK k \in Int : k = z * (i - 1) + (j - 1)  OBVIOUS
  <2>2. i - 1 \in Int /\ j - 1 \in 0 .. z - 1  OBVIOUS
  <2>3. k \div z = i - 1 /\ k % z = j - 1  BY <2>1, <2>2, OneRemainder, Zenon
  <2>4. (i - 1) * z + j = k + 1 /\ (k + 1) - 1 = k /\ (i - 1) + 1 = i /\ (j - 1) + 1 = j
    <3>1. (i - 1) * z = z * (i - 1) /\ z * (i - 1) \in Int  OBVIOUS
    <3> QED  BY <2>1, <3>1
  <2>5. k + 1 \in 1 .. z * n
    <3>1. PICK a \in Nat : a = i - 1  OBVIOUS
    <3>2. PICK b \in Nat : n = a + 1 + b
      <4>1. n - i \in Nat /\ n = (i - 1) + 1 + (n - i)  OBVIOUS
      <4> QED  BY <3>1, <4>1
    <3>3. z * n = z * a + z + z * b /\ z * b \in Nat /\ z * a \in Nat  BY <3>2
    <3>4. k = z * a + (j - 1)  BY <2>1, <3>1, Zenon
    <3> QED  BY <3>3, <3>4
  <2>6. At(k + 1) = Code(v[i], format)[j]  BY <2>3, <2>4, Zenon
  <2> QED  BY <2>4, <2>5, <2>6, Zenon
<1>5. \A k \in 1 .. z * n : At(k) \in Int
  <2> SUFFICES ASSUME NEW k \in 1 .. z * n PROVE At(k) \in Int  OBVIOUS
  <2>1. PICK q \in Int, r \in 0 .. z - 1 : k - 1 = z * q + r /\ r = (k - 1) % z /\ q = (k - 1) \div z
    <3>1. k - 1 \in Int  OBVIOUS
    <3> QED  BY <3>1, Divided, Zenon
  <2>2. q + 1 \in 1 .. n  BY <2>1, PlaceOfByte, Zenon
  <2>3. v[q + 1] \in Int  BY <1>1, <2>2, Zenon DEF Coded
  <2>4. r + 1 \in 1 .. Handing!BytesPerSample(format)
    <3>1. r + 1 \in 1 .. z  OBVIOUS
    <3> QED  BY <1>2, <3>1, Zenon
  <2>5. Code(v[q + 1], format)[r + 1] \in Int  BY <2>3, <2>4, CodeBytes, Zenon
  <2> QED  BY <2>1, <2>5, Zenon
<1>6. wire \in Seq(Int) /\ Len(wire) = z * n /\ \A k \in 1 .. z * n : wire[k] = At(k)
  <2>0. z * n \in Nat  OBVIOUS
  <2> HIDE DEF At
  <2>1. wire \in [1 .. z * n -> Int] /\ \A k \in 1 .. z * n : wire[k] = At(k)  BY <1>3, <1>5, Zenon
  <2> QED  BY <2>0, <2>1
<1>7. Len(wire) \div z = n
  <2>1. (z * n + 0) \div z = n /\ z * n + 0 = z * n
    <3>1. n \in Int /\ 0 \in 0 .. z - 1  OBVIOUS
    <3> QED  BY <3>1, OneRemainder
  <2> QED  BY <1>6, <2>1
<1>8. ASSUME NEW i \in 1 .. n
      PROVE  Handing!Decode(SubSeq(wire, (i - 1) * z + 1, i * z), format) =
                [num |-> v[i], scale |-> Handing!Top(format)]
  <2>1. PICK a \in Int : a = (i - 1) * z + 1  OBVIOUS
  <2>2. PICK b \in Int : b = i * z  OBVIOUS
  <2>3. b - a + 1 = z /\ a <= b
    <3>1. (i - 1) * z = i * z - z  OBVIOUS
    <3> QED  BY <2>1, <2>2, <3>1
  <2>4. \A j \in 1 .. z : a + j - 1 \in 1 .. z * n /\ wire[a + j - 1] = Code(v[i], format)[j]
    <3> SUFFICES ASSUME NEW j \in 1 .. z
                 PROVE  a + j - 1 \in 1 .. z * n /\ wire[a + j - 1] = Code(v[i], format)[j]
      OBVIOUS
    <3>1. a + j - 1 = (i - 1) * z + j
      <4>1. (i - 1) * z \in Int  OBVIOUS
      <4> QED  BY <2>1, <4>1
    <3> QED  BY <1>4, <1>6, <3>1, ZenonT(60)
  <2>5. \A k \in a .. b : wire[k] \in Int
    <3> SUFFICES ASSUME NEW k \in a .. b PROVE wire[k] \in Int  OBVIOUS
    <3>1. PICK j \in 1 .. z : a + j - 1 = k
      <4>1. k - a + 1 \in 1 .. z /\ a + (k - a + 1) - 1 = k  BY <2>3
      <4> QED  BY <4>1
    <3>2. k \in 1 .. z * n  BY <2>4, <3>1, Zenon
    <3> QED  BY <1>5, <1>6, <3>2, Zenon
  <2>6. /\ SubSeq(wire, a, b) \in Seq(Int) /\ Len(SubSeq(wire, a, b)) = z
        /\ \A j \in 1 .. z : SubSeq(wire, a, b)[j] = wire[a + j - 1]
    <3>1. /\ SubSeq(wire, a, b) \in Seq(Int)
          /\ Len(SubSeq(wire, a, b)) = IF a <= b THEN b - a + 1 ELSE 0
          /\ \A j \in 1 .. b - a + 1 : SubSeq(wire, a, b)[j] = wire[a + j - 1]
      BY <2>5, SubSeqProperties
    <3> QED  BY <2>3, <3>1, Zenon
  <2>7. DOMAIN SubSeq(wire, a, b) = 1 .. z  BY <2>6, LenProperties
  <2>8. \A j \in 1 .. z : SubSeq(wire, a, b)[j] = Code(v[i], format)[j]  BY <2>4, <2>6, Zenon
  <2>9. v[i] \in Int /\ -Handing!Top(format) < v[i] /\ v[i] < Handing!Top(format)  BY <1>1, Zenon DEF Coded
  <2>10. Handing!Decode(SubSeq(wire, a, b), format) = [num |-> v[i], scale |-> Handing!Top(format)]
    BY <1>2, <2>7, <2>8, <2>9, DecodeIs, Zenon
  <2> QED  BY <2>1, <2>2, <2>10, Zenon
<1> HIDE DEF At
<1>9. Handing!Heard =
         [i \in 1 .. n |-> Handing!Decode(SubSeq(wire, (i - 1) * z + 1, i * z), format)]
  BY <1>2, <1>7, Zenon DEF Handing!Heard
<1> QED  BY <1>1, <1>8, <1>9

\* Writing samples as loud as those on the wire, or those played.
Asked(samples, d) ==
    /\ samples \in Seq(Handing!Sample \cup {NaN}) /\ Len(samples) = Len(sound)
    /\ \A i \in 1 .. Len(sound) : Apart(Loudness(samples[i]), Loudness(sound[i]), d)
    /\ NaN \notin Handing!ToSet(sound) =>
          \A i \in 1 .. Len(sound) - 1 : Loudness(samples[i]) <= Loudness(samples[i + 1])

LEMMA Written ==
    ASSUME sound \in Played, NEW f \in Pcm, NEW samples, Asked(samples, slack), slack \in Nat,
           NEW finer \in BOOLEAN,
           ~finer => \A i \in 1 .. Len(sound) : \E m \in Int : Loudness(samples[i]) = m * Size(f),
           NEW w, w = [i \in 1 .. Len(sound) |-> Handing!Quantise(samples[i], f)]
    PROVE  Coded(w, f) /\ Follows(w, f, slack + Handing!Step(f, finer)) /\ Handing!Step(f, finer) \in Nat
<1>1. PICK n \in Nat : n = Len(sound)
  <2>1. sound \in Seq(Handing!Sample \cup {NaN})
    BY HandingAssumption DEF Handing!ConversionAssumption
  <2> QED  BY <2>1, LenProperties
<1>2. \A i \in 1 .. n : samples[i] \in Handing!Sample \cup {NaN} /\ sound[i] \in Handing!Sample \cup {NaN}
  <2>1. sound \in Seq(Handing!Sample \cup {NaN})
    BY HandingAssumption DEF Handing!ConversionAssumption
  <2>2. samples \in Seq(Handing!Sample \cup {NaN}) /\ Len(samples) = n  BY <1>1, Zenon DEF Asked
  <2> QED  BY <1>1, <2>1, <2>2, ElementOfSeq, Zenon
<1>3. \A i \in 1 .. n : w[i] = Handing!Quantise(samples[i], f) /\ QuantisedTo(samples[i], f, w[i])
  BY <1>1, <1>2, QuantiseIsNear, Zenon
<1>4. Coded(w, f)
  <2>1. \A i \in 1 .. n : Handing!Quantise(samples[i], f) \in Int  BY <1>3, Zenon DEF QuantisedTo
  <2>2. w \in [1 .. n -> Int]  BY <1>1, <2>1, Zenon
  <2> QED  BY <1>1, <1>3, <2>2, Zenon DEF Coded, QuantisedTo
<1>5. PICK d \in Nat : d = Handing!Step(f, finer)
  <2>1. PICK z \in Nat \ {0} : z = Size(f)  BY SizeIs
  <2>2. Handing!Step(f, FALSE) = z /\ Handing!Step(f, TRUE) = z + z \div 2  BY <2>1, SizeIs, Zenon
  <2>3. z \in Nat /\ z + z \div 2 \in Nat  OBVIOUS
  <2>4. Handing!Step(f, FALSE) \in Nat /\ Handing!Step(f, TRUE) \in Nat  BY <2>2, <2>3, ZenonT(60)
  <2>5. CASE finer = TRUE  BY <2>4, <2>5, Zenon
  <2>6. CASE finer = FALSE  BY <2>4, <2>6, Zenon
  <2> QED  BY <2>5, <2>6, Zenon
<1>6. ASSUME NEW i \in 1 .. n PROVE Apart(w[i] * Size(f), Loudness(sound[i]), slack + d)
  <2>1. Apart(w[i] * Size(f), Loudness(samples[i]), d)
    <3>1. CASE finer
      <4>1. finer = TRUE  BY <3>1
      <4> QED  BY <1>3, <1>5, <4>1, Zenon DEF QuantisedTo
    <3>2. CASE ~finer
      <4>1. finer = FALSE  BY <3>2
      <4>2. \E m \in Int : Loudness(samples[i]) = m * Size(f)  BY <1>1, <3>2, Zenon
      <4>3. d = Size(f)  BY <1>5, <4>1, SizeIs, Zenon
      <4> QED  BY <1>3, <4>2, <4>3, Zenon DEF QuantisedTo
    <3> QED  BY <3>1, <3>2, Zenon
  <2>2. Apart(Loudness(samples[i]), Loudness(sound[i]), slack)  BY <1>1, Zenon DEF Asked
  <2>3. PICK a \in Int, b \in Int, c \in Int :
           a = w[i] * Size(f) /\ b = Loudness(samples[i]) /\ c = Loudness(sound[i])
    <3>1. w[i] \in Int /\ Loudness(samples[i]) \in Int  BY <1>3, Zenon DEF QuantisedTo
    <3>2. Loudness(sound[i]) \in Int  BY <1>2, QuantiseSigned, Zenon
    <3>3. PICK z \in Int : z = Size(f)
      <4>1. Size(f) \in Nat  BY SizeIs
      <4> QED  BY <4>1
    <3>4. w[i] * z \in Int  BY <3>1
    <3> QED  BY <3>1, <3>2, <3>3, <3>4, Zenon
  <2>4. a - b <= d /\ b - a <= d /\ b - c <= slack /\ c - b <= slack
    BY <2>1, <2>2, <2>3, Zenon DEF Apart
  <2>5. a - c <= slack + d /\ c - a <= slack + d  BY <2>4
  <2> QED  BY <2>3, <2>5, Zenon DEF Apart
<1>7. NaN \notin Handing!ToSet(sound) => \A i \in 1 .. n - 1 : w[i] <= w[i + 1]
  <2> SUFFICES ASSUME NaN \notin Handing!ToSet(sound), NEW i \in 1 .. n - 1 PROVE w[i] <= w[i + 1]
    OBVIOUS
  <2>1. i \in 1 .. n /\ i + 1 \in 1 .. n  OBVIOUS
  <2>2. Loudness(samples[i]) <= Loudness(samples[i + 1])  BY <1>1, Zenon DEF Asked
  <2> QED  BY <1>2, <1>3, <2>1, <2>2, QuantiseIsMonotone, Zenon
<1>8. Follows(w, f, slack + d)  BY <1>1, <1>6, <1>7, Zenon DEF Follows
<1> QED  BY <1>4, <1>5, <1>8, Zenon

\* A sample within the scale, and one beyond it, as loud as it can be.
LEMMA LoudnessIs ==
    ASSUME NEW u \in Handing!Sample
    PROVE  /\ Handing!Level(u) \in Int
           /\ Loudness(u) = IF Handing!Level(u) < -Full THEN -Full
                            ELSE IF Handing!Level(u) > Full THEN Full ELSE Handing!Level(u)
<1>1. u \in [num : Int, scale : Scales] /\ u # NaN
  <2>1. \A k \in 0 .. 23 : 2 ^ k \in Scales
    <3>1. \A k \in 0 .. 23 : k \in 0 .. 24 /\ k <= 23  OBVIOUS
    <3> QED  BY <3>1, PowersAreScales, Zenon
  <2>2. {2 ^ k : k \in 0 .. 23} \subseteq Scales  BY <2>1, Zenon
  <2>3. u \in [num : Int, scale : {2 ^ k : k \in 0 .. 23}]  BY Zenon DEF Handing!Sample
  <2>4. u # NaN  BY HandingAssumption, Zenon DEF Handing!ConversionAssumption
  <2> QED  BY <2>2, <2>3, <2>4
<1>2. PICK n \in Int, s \in Scales : n = u.num /\ s = u.scale  BY <1>1
<1>3. PICK c \in Nat \ {0} : c = Full \div s /\ s * c = Full  BY ScaleIs
<1>4. s \in Nat \ {0}  BY ScaleIs
<1>5. Handing!Level(u) = n * c /\ n * c \in Int
  <2>1. Handing!Level(u) = n * c  BY <1>2, <1>3, FullIs, Zenon DEF Handing!Level
  <2> QED  BY <2>1
<1>6. PICK m \in Int : /\ m = Handing!Greatest(-s, Handing!Smallest(n, s))
                       /\ m = IF n < -s THEN -s ELSE IF n > s THEN s ELSE n
  BY <1>4 DEF Handing!Greatest, Handing!Smallest
<1>7. Handing!ClampUnit(u) = [u EXCEPT !.num = m]
  BY <1>1, <1>2, <1>6, Zenon DEF Handing!ClampUnit
<1>8. Handing!ClampUnit(u).num = m /\ Handing!ClampUnit(u).scale = s  BY <1>1, <1>2, <1>7
<1>9. Loudness(u) = m * c  BY <1>3, <1>8, FullIs, Zenon DEF Loudness, Handing!Level
<1>10. (-s) * c = -Full  BY <1>3, <1>4
<1>11. CASE n < -s
  <2>1. n * c < -Full
    <3>1. PICK j \in Nat : n = (-s) - 1 - j
      <4>1. (-s) - 1 - n \in Nat /\ n = (-s) - 1 - ((-s) - 1 - n)  BY <1>4, <1>11
      <4> QED  BY <4>1
    <3>2. n * c = (-s) * c - c - j * c /\ j * c \in Nat  BY <1>4, <3>1
    <3> QED  BY <1>10, <3>2, FullIs
  <2>2. m = -s  BY <1>6, <1>11
  <2> QED  BY <1>5, <1>9, <1>10, <2>1, <2>2, Zenon
<1>12. CASE n > s
  <2>1. n * c > Full
    <3>1. PICK j \in Nat : n = s + 1 + j
      <4>1. n - s - 1 \in Nat /\ n = s + 1 + (n - s - 1)  BY <1>4, <1>12
      <4> QED  BY <4>1
    <3>2. n * c = s * c + c + j * c /\ j * c \in Nat  BY <1>4, <3>1
    <3> QED  BY <1>3, <3>2, FullIs
  <2>2. m = s  BY <1>4, <1>6, <1>12
  <2>3. ~(n * c < -Full)  BY <1>5, <2>1, FullIs
  <2> QED  BY <1>3, <1>5, <1>9, <2>1, <2>2, <2>3, Zenon
<1>13. CASE -s <= n /\ n <= s
  <2>1. n * c <= Full
    <3>1. PICK j \in Nat : s = n + j
      <4>1. s - n \in Nat /\ s = n + (s - n)  BY <1>4, <1>13
      <4> QED  BY <4>1
    <3>2. s * c = n * c + j * c /\ j * c \in Nat  BY <3>1
    <3> QED  BY <1>3, <1>5, <3>2, FullIs
  <2>2. -Full <= n * c
    <3>1. PICK j \in Nat : n = (-s) + j
      <4>1. n - (-s) \in Nat /\ n = (-s) + (n - (-s))  BY <1>4, <1>13
      <4> QED  BY <4>1
    <3>2. n * c = (-s) * c + j * c /\ j * c \in Nat  BY <1>4, <3>1
    <3> QED  BY <1>10, <3>2, FullIs
  <2>3. m = n  BY <1>4, <1>6, <1>13
  <2>4. ~(n * c < -Full) /\ ~(n * c > Full)  BY <1>5, <2>1, <2>2, FullIs
  <2> QED  BY <1>5, <1>9, <2>3, <2>4, Zenon
<1> QED  BY <1>4, <1>11, <1>12, <1>13

LEMMA LoudnessRises ==
    ASSUME NEW u \in Handing!Sample, NEW v \in Handing!Sample, Handing!Level(u) <= Handing!Level(v)
    PROVE  Loudness(u) <= Loudness(v)
<1>1. PICK a \in Int : /\ a = Handing!Level(u)
                       /\ Loudness(u) = IF a < -Full THEN -Full ELSE IF a > Full THEN Full ELSE a
  BY LoudnessIs, Zenon
<1>2. PICK b \in Int : /\ b = Handing!Level(v)
                       /\ Loudness(v) = IF b < -Full THEN -Full ELSE IF b > Full THEN Full ELSE b
  BY LoudnessIs, Zenon
<1>3. a <= b  BY <1>1, <1>2, Zenon
<1> QED  BY <1>1, <1>2, <1>3, FullIs

\* What was played is asked for as it is.
LEMMA AskedPlayed == ASSUME SoundInv, format = None PROVE Asked(sound, slack)
<1>1. slack = 0 /\ sound \in Played  BY DEF SoundInv
<1>2. /\ sound \in Seq(Handing!Sample \cup {NaN})
      /\ NaN \notin Handing!ToSet(sound) =>
            \A i \in 1 .. Len(sound) - 1 : Handing!Level(sound[i]) <= Handing!Level(sound[i + 1])
  BY <1>1, HandingAssumption DEF Handing!ConversionAssumption
<1>3. PICK n \in Nat : n = Len(sound)  BY <1>2, LenProperties
<1>4. \A i \in 1 .. n : sound[i] \in Handing!Sample \cup {NaN}  BY <1>2, <1>3, ElementOfSeq, Zenon
<1>5. ASSUME NEW i \in 1 .. n PROVE Apart(Loudness(sound[i]), Loudness(sound[i]), 0)
  <2>1. PICK a \in Int : a = Loudness(sound[i])
    <3>1. "u8" \in Pcm  BY DEF Pcm
    <3> QED  BY <1>4, <3>1, QuantiseSigned, Zenon
  <2>2. a - a <= 0  OBVIOUS
  <2> QED  BY <2>1, <2>2, Zenon DEF Apart
<1>6. ASSUME NaN \notin Handing!ToSet(sound), NEW i \in 1 .. n - 1
      PROVE  Loudness(sound[i]) <= Loudness(sound[i + 1])
  <2>1. i \in 1 .. n /\ i + 1 \in 1 .. n  OBVIOUS
  <2>2. DOMAIN sound = 1 .. n  BY <1>2, <1>3
  <2>3. sound[i] \in Handing!Sample /\ sound[i + 1] \in Handing!Sample
    BY <1>4, <1>6, <2>1, <2>2, Zenon DEF Handing!ToSet
  <2>4. Handing!Level(sound[i]) <= Handing!Level(sound[i + 1])  BY <1>2, <1>3, <1>6, Zenon
  <2> QED  BY <2>3, <2>4, LoudnessRises, Zenon
<1> QED  BY <1>1, <1>2, <1>3, <1>5, <1>6, Zenon DEF Asked

\* What a format has for a number is a sample as loud as the number says.
LEMMA NumberIsSample ==
    ASSUME NEW f \in Pcm, NEW x \in Int, -Handing!Top(f) < x, x < Handing!Top(f),
           NEW u, u = [num |-> x, scale |-> Handing!Top(f)]
    PROVE  u \in Handing!Sample /\ Handing!Level(u) = x * Size(f) /\ Loudness(u) = x * Size(f)
<1>1. u \in Handing!Sample
  <2>1. Handing!Top(f) \in {2 ^ k : k \in 0 .. 23}
    <3>1. Handing!BytesPerSample(f) \in 1 .. 3  BY PcmIs
    <3>2. 8 * Handing!BytesPerSample(f) - 1 \in 0 .. 23  BY <3>1
    <3> QED  BY <3>2, Zenon DEF Handing!Top
  <2> QED  BY <2>1 DEF Handing!Sample
<1>2. Handing!Level(u) = x * Size(f)
  <2>1. u.num = x /\ u.scale = Handing!Top(f)  OBVIOUS
  <2> QED  BY <2>1, FullIs, Zenon DEF Handing!Level, Size
<1>3. PICK t \in Nat \ {0}, z \in Nat \ {0} : t = Handing!Top(f) /\ z = Size(f) /\ t * z = Full
  BY SizeIs
<1>4. Handing!ClampUnit(u) = u
  <2>1. u # NaN  BY <1>1, HandingAssumption, Zenon DEF Handing!ConversionAssumption
  <2>2. Handing!Greatest(-t, Handing!Smallest(x, t)) = x
    BY <1>3 DEF Handing!Greatest, Handing!Smallest
  <2>3. Handing!ClampUnit(u) = [u EXCEPT !.num = Handing!Greatest(-u.scale, Handing!Smallest(u.num, u.scale))]
    BY <2>1, Zenon DEF Handing!ClampUnit
  <2>4. u.num = x /\ u.scale = t  BY <1>3
  <2>5. Handing!ClampUnit(u) = [u EXCEPT !.num = x]  BY <2>2, <2>3, <2>4, Zenon
  <2> QED  BY <2>5
<1> QED  BY <1>1, <1>2, <1>4, Zenon DEF Loudness

\* What is heard is asked for as close to what was played as it is.
LEMMA AskedHeard ==
    ASSUME SoundInv, format # None, NEW v, Coded(v, format), wire = OnWire(v, format),
           Follows(v, format, slack)
    PROVE  /\ Asked(Handing!Heard, slack)
           /\ \A i \in 1 .. Len(sound) : /\ Handing!Heard[i] = [num |-> v[i], scale |-> Handing!Top(format)]
                                         /\ Handing!Heard[i] \in Handing!Sample
                                         /\ Handing!Level(Handing!Heard[i]) = v[i] * Size(format)
                                         /\ Loudness(Handing!Heard[i]) = v[i] * Size(format)
<1>1. sound \in Played /\ format \in Pcm  BY DEF SoundInv
<1>2. PICK n \in Nat : n = Len(sound)
  <2>1. sound \in Seq(Handing!Sample \cup {NaN})
    BY <1>1, HandingAssumption DEF Handing!ConversionAssumption
  <2> QED  BY <2>1, LenProperties
<1>3. PICK h : h = Handing!Heard  OBVIOUS
<1>4. h = [i \in 1 .. n |-> [num |-> v[i], scale |-> Handing!Top(format)]]
  BY <1>1, <1>2, <1>3, HeardIs, Zenon
<1>5. ASSUME NEW i \in 1 .. n
      PROVE  /\ h[i] = [num |-> v[i], scale |-> Handing!Top(format)]
             /\ h[i] \in Handing!Sample
             /\ Handing!Level(h[i]) = v[i] * Size(format)
             /\ Loudness(h[i]) = v[i] * Size(format)
  <2>1. v[i] \in Int /\ -Handing!Top(format) < v[i] /\ v[i] < Handing!Top(format)
    BY <1>2, Zenon DEF Coded
  <2>2. h[i] = [num |-> v[i], scale |-> Handing!Top(format)]  BY <1>4, Zenon
  <2> QED  BY <1>1, <2>1, <2>2, NumberIsSample, Zenon
<1>6. h \in Seq(Handing!Sample \cup {NaN}) /\ Len(h) = n
  <2>1. h \in [1 .. n -> Handing!Sample \cup {NaN}]  BY <1>4, <1>5, Zenon
  <2> QED  BY <2>1
<1>7. \A i \in 1 .. n : Apart(Loudness(h[i]), Loudness(sound[i]), slack)
  BY <1>2, <1>5, Zenon DEF Follows
<1>8. ASSUME NaN \notin Handing!ToSet(sound), NEW i \in 1 .. n - 1
      PROVE  Loudness(h[i]) <= Loudness(h[i + 1])
  <2>1. i \in 1 .. n /\ i + 1 \in 1 .. n  OBVIOUS
  <2>2. v[i] <= v[i + 1]  BY <1>2, <1>8, Zenon DEF Follows
  <2>3. PICK a \in Int, b \in Int : a = v[i] /\ b = v[i + 1]  BY <1>2, <2>1, Zenon DEF Coded
  <2>4. PICK z \in Nat \ {0} : z = Size(format)  BY <1>1, SizeIs
  <2>5. a * z <= b * z
    <3>1. a <= b  BY <2>2, <2>3, Zenon
    <3>2. PICK j \in Nat : b = a + j
      <4>1. b - a \in Nat /\ b = a + (b - a)  BY <3>1
      <4> QED  BY <4>1
    <3>3. b * z = a * z + j * z /\ j * z \in Nat /\ a * z \in Int  BY <3>2
    <3> QED  BY <3>3
  <2> QED  BY <1>5, <2>1, <2>3, <2>4, <2>5, Zenon
<1>9. Asked(h, slack)  BY <1>2, <1>6, <1>7, <1>8, Zenon DEF Asked
<1> QED  BY <1>2, <1>3, <1>5, <1>9, Zenon

\* What is heard in a format is a whole number of steps of one as fine.
LEMMA StepsInSteps ==
    ASSUME NEW f \in Pcm, NEW g \in Pcm, Handing!Top(f) <= Handing!Top(g), NEW x \in Int
    PROVE  \E m \in Int : x * Size(f) = m * Size(g)
<1>1. PICK t \in Nat \ {0}, z \in Nat \ {0} : t = Handing!Top(f) /\ z = Size(f) /\ t * z = Full
  BY SizeIs
<1>2. PICK s \in Nat \ {0}, y \in Nat \ {0} : s = Handing!Top(g) /\ y = Size(g) /\ s * y = Full
  BY SizeIs
<1>3. PICK e \in Nat \ {0} : s = t * e
  <2>0. Handing!Top(f) \in Scales /\ Handing!Top(g) \in Scales  BY PcmIs
  <2>1. t \in Scales /\ s \in Scales /\ t <= s  BY <1>1, <1>2, <2>0, Zenon
  <2> QED  BY <2>1, PowersDivide, ZenonT(60)
<1>4. z = e * y
  <2>1. t * z = t * (e * y)  BY <1>1, <1>2, <1>3
  <2>2. e * y \in Nat  OBVIOUS
  <2> QED  BY <2>1, <2>2, TimesKeeps
<1>5. x * z = (x * e) * y /\ x * e \in Int  BY <1>4
<1> QED  BY <1>1, <1>2, <1>5, Zenon

\* The formats asked for that have PCM, and the one that carries floats.
LEMMA FormatIs ==
    ASSUME NEW a \in Relayed, Handing!FromCore[Handing!FromAudio[a]] # None,
           Handing!FromCore[Handing!FromAudio[a]] # "float32le"
    PROVE  Handing!FromCore[Handing!FromAudio[a]] \in Pcm
<1>1. a \in {"U8", "I16", "I24", "F32", "F64"}
  <2>1. a \in DOMAIN Handing!FromAudio /\ a # "I32"
    BY HandingAssumption DEF Handing!ConversionAssumption
  <2> QED  BY <2>1 DEF Handing!FromAudio
<1>2. CASE a = "U8"
  <2>1. Handing!FromAudio[a] = "u8"  BY <1>2 DEF Handing!FromAudio
  <2> QED  BY <2>1 DEF Handing!FromCore, Pcm
<1>3. CASE a = "I16"
  <2>1. Handing!FromAudio[a] = "i16"  BY <1>3 DEF Handing!FromAudio
  <2> QED  BY <2>1 DEF Handing!FromCore, Pcm
<1>4. CASE a = "I24"
  <2>1. Handing!FromAudio[a] = "i24"  BY <1>4 DEF Handing!FromAudio
  <2> QED  BY <2>1 DEF Handing!FromCore, Pcm
<1>5. CASE a = "F32"
  <2>1. Handing!FromAudio[a] = "f32"  BY <1>5 DEF Handing!FromAudio
  <2> QED  BY <2>1 DEF Handing!FromCore
<1>6. CASE a = "F64"
  <2>1. Handing!FromAudio[a] = "f64"  BY <1>6 DEF Handing!FromAudio
  <2> QED  BY <2>1 DEF Handing!FromCore
<1> QED  BY <1>1, <1>2, <1>3, <1>4, <1>5, <1>6

\* Writing keeps the samples as close as the hop allows.
LEMMA WriteKeeps ==
    ASSUME SoundInv, NEW a \in Relayed, NEW samples, Handing!Write(a, samples), Asked(samples, slack),
           \A f \in Pcm : (format # None /\ Handing!Top(format) <= Handing!Top(f)) =>
              \A i \in 1 .. Len(sound) : \E m \in Int : Loudness(samples[i]) = m * Size(f)
    PROVE  SoundInv'
<1>1. sound \in Played /\ slack \in Nat  BY DEF SoundInv
<1>2. PICK f : f = Handing!FromCore[Handing!FromAudio[a]]  OBVIOUS
<1>3. sound' = sound /\ f # None  BY <1>2, Zenon DEF Handing!Write
<1>4. CASE f = "float32le"
  <2>1. UNCHANGED <<format, wire, slack>>  BY <1>2, <1>4, Zenon DEF Handing!Write
  <2>2. format' = format /\ wire' = wire /\ slack' = slack  BY <2>1
  <2> QED  BY <1>3, <2>2 DEF SoundInv, Coded, OnWire, Follows
<1>5. CASE f # "float32le"
  <2>1. f \in Pcm  BY <1>2, <1>3, <1>5, FormatIs, Zenon
  <2> DEFINE size == Handing!BytesPerSample(f)
  <2>2. /\ format' = f
        /\ wire' = [k \in 1 .. size * Len(samples) |->
                      Handing!Encode(samples[((k - 1) \div size) + 1], f)[((k - 1) % size) + 1]]
        /\ slack' = slack + Handing!Step(f, format = None \/ Handing!Top(format) > Handing!Top(f))
    BY <1>2, <1>5, Zenon DEF Handing!Write
  <2>3. PICK finer \in BOOLEAN :
           /\ slack' = slack + Handing!Step(f, finer)
           /\ ~finer => (format # None /\ ~(Handing!Top(format) > Handing!Top(f)))
    <3>1. CASE format = None \/ Handing!Top(format) > Handing!Top(f)
      <4>1. Handing!Step(f, format = None \/ Handing!Top(format) > Handing!Top(f)) = Handing!Step(f, TRUE)
        BY <3>1, Zenon DEF Handing!Step
      <4> QED  BY <2>2, <4>1, Zenon
    <3>2. CASE ~(format = None \/ Handing!Top(format) > Handing!Top(f))
      <4>1. Handing!Step(f, format = None \/ Handing!Top(format) > Handing!Top(f)) = Handing!Step(f, FALSE)
        BY <3>2, Zenon DEF Handing!Step
      <4> QED  BY <2>2, <3>2, <4>1, Zenon
    <3> QED  BY <3>1, <3>2, Zenon
  <2>4. ~finer => \A i \in 1 .. Len(sound) : \E m \in Int : Loudness(samples[i]) = m * Size(f)
    <3> SUFFICES ASSUME ~finer
                 PROVE  \A i \in 1 .. Len(sound) : \E m \in Int : Loudness(samples[i]) = m * Size(f)
      OBVIOUS
    <3>1. format # None /\ ~(Handing!Top(format) > Handing!Top(f))  BY <2>3, Zenon
    <3>2. format \in Pcm  BY <3>1, Zenon DEF SoundInv
    <3>3. Handing!Top(format) \in Nat /\ Handing!Top(f) \in Nat  BY <2>1, <3>2, SizeIs
    <3>4. Handing!Top(format) <= Handing!Top(f)  BY <3>1, <3>3
    <3> QED  BY <2>1, <3>1, <3>4, Zenon
  <2>5. PICK w : w = [i \in 1 .. Len(sound) |-> Handing!Quantise(samples[i], f)]  OBVIOUS
  <2>6. Coded(w, f) /\ Follows(w, f, slack + Handing!Step(f, finer)) /\ Handing!Step(f, finer) \in Nat
    BY <1>1, <2>1, <2>3, <2>4, <2>5, Written, Zenon
  <2>7. Len(samples) = Len(sound)  BY Zenon DEF Asked
  <2>8. PICK n \in Nat : n = Len(sound)
    <3>1. sound \in Seq(Handing!Sample \cup {NaN})
      BY <1>1, HandingAssumption DEF Handing!ConversionAssumption
    <3> QED  BY <3>1, LenProperties
  <2>9. PICK z \in Nat \ {0} : z = size  BY <2>1, PcmIs
  <2>10. wire' = OnWire(w, f)
    <3>1. \A u : Handing!Encode(u, f) = Code(Handing!Quantise(u, f), f)  BY Zenon DEF Handing!Encode, Code
    <3>2. ASSUME NEW k \in 1 .. z * n
          PROVE  Handing!Encode(samples[((k - 1) \div z) + 1], f)[((k - 1) % z) + 1]
                    = Code(w[((k - 1) \div z) + 1], f)[((k - 1) % z) + 1]
      <4>1. ((k - 1) \div z) + 1 \in 1 .. n  BY PlaceOfByte
      <4>2. w[((k - 1) \div z) + 1] = Handing!Quantise(samples[((k - 1) \div z) + 1], f)
        BY <2>5, <2>8, <4>1, Zenon
      <4> QED  BY <3>1, <4>2, Zenon
    <3>3. wire' = [k \in 1 .. z * n |->
                     Handing!Encode(samples[((k - 1) \div z) + 1], f)[((k - 1) % z) + 1]]
      BY <2>2, <2>7, <2>8, <2>9, Zenon
    <3>4. wire' = [k \in 1 .. z * n |-> Code(w[((k - 1) \div z) + 1], f)[((k - 1) % z) + 1]]
      BY <3>2, <3>3, Zenon
    <3> QED  BY <2>8, <2>9, <3>4, Zenon DEF OnWire
  <2>11. slack' \in Nat  BY <1>1, <2>3, <2>6
  <2>12. f # None  BY <1>3
  <2>13. Follows(w, f, slack')  BY <2>3, <2>6, Zenon
  <2>14. (\E v : Coded(v, format) /\ wire = OnWire(v, format) /\ Follows(v, format, slack))'
    BY <1>3, <2>2, <2>6, <2>10, <2>13, Zenon DEF Coded, OnWire, Follows
  <2>15. format' \in Pcm /\ format' # None  BY <2>1, <2>2, <2>12, Zenon
  <2> QED  BY <1>1, <1>3, <2>11, <2>14, <2>15, Zenon DEF SoundInv
<1> QED  BY <1>4, <1>5

LEMMA SoundInit == Handing!Init => SoundInv
  BY DEF Handing!Init, SoundInv

LEMMA SoundStep == SoundInv /\ [Handing!Next]_(Handing!vars) => SoundInv'
<1> SUFFICES ASSUME SoundInv, [Handing!Next]_(Handing!vars) PROVE SoundInv'  OBVIOUS
<1>1. ASSUME NEW a \in Relayed, Handing!Play(a) PROVE SoundInv'
  <2>1. format = None /\ Handing!Write(a, sound)  BY <1>1, Zenon DEF Handing!Play
  <2>2. Asked(sound, slack)  BY <2>1, AskedPlayed
  <2> QED  BY <2>1, <2>2, WriteKeeps, Zenon
<1>2. ASSUME NEW a \in Relayed, Handing!Relay(a) PROVE SoundInv'
  <2>1. format # None /\ Handing!Write(a, Handing!Heard)  BY <1>2, Zenon DEF Handing!Relay
  <2>2. PICK v : Coded(v, format) /\ wire = OnWire(v, format) /\ Follows(v, format, slack)
    BY <2>1, Zenon DEF SoundInv
  <2>3. /\ Asked(Handing!Heard, slack)
        /\ \A i \in 1 .. Len(sound) : Loudness(Handing!Heard[i]) = v[i] * Size(format)
    BY <2>1, <2>2, AskedHeard, Zenon
  <2>4. ASSUME NEW f \in Pcm, Handing!Top(format) <= Handing!Top(f), NEW i \in 1 .. Len(sound)
        PROVE  \E m \in Int : Loudness(Handing!Heard[i]) = m * Size(f)
    <3>1. v[i] \in Int  BY <2>2, Zenon DEF Coded
    <3>2. format \in Pcm  BY <2>1, Zenon DEF SoundInv
    <3>3. \E m \in Int : v[i] * Size(format) = m * Size(f)  BY <2>4, <3>1, <3>2, StepsInSteps, Zenon
    <3> QED  BY <2>3, <3>3, Zenon
  <2> QED  BY <2>1, <2>3, <2>4, WriteKeeps, Zenon
<1>3. ASSUME UNCHANGED <<sound, format, wire, slack>> PROVE SoundInv'
  BY <1>3 DEF SoundInv, Coded, OnWire, Follows
<1>4. CASE Handing!HandOver
  BY <1>3, <1>4 DEF Handing!HandOver, Handing!soundVars
<1>5. CASE Handing!HandBack
  BY <1>3, <1>5 DEF Handing!HandBack, Handing!soundVars
<1>6. CASE UNCHANGED (Handing!vars)
  BY <1>3, <1>6 DEF Handing!vars, Handing!soundVars
<1> QED  BY <1>1, <1>2, <1>4, <1>5, <1>6 DEF Handing!Next

LEMMA SoundIsClose == SoundInv => Handing!RelayStaysClose /\ Handing!QuietSamplesSurvive
<1> SUFFICES ASSUME SoundInv, format # None PROVE Handing!RelayStaysClose /\ Handing!QuietSamplesSurvive
  BY Zenon DEF Handing!RelayStaysClose, Handing!QuietSamplesSurvive
<1>1. sound \in Played /\ format \in Pcm /\ slack \in Nat  BY DEF SoundInv
<1>2. PICK v : Coded(v, format) /\ wire = OnWire(v, format) /\ Follows(v, format, slack)
  BY Zenon DEF SoundInv
<1>3. PICK n \in Nat : n = Len(sound) /\ DOMAIN sound = 1 .. n
  <2>1. sound \in Seq(Handing!Sample \cup {NaN})
    BY <1>1, HandingAssumption DEF Handing!ConversionAssumption
  <2> QED  BY <2>1, LenProperties
<1>4. PICK h : h = Handing!Heard  OBVIOUS
<1>5. /\ Asked(h, slack)
      /\ \A i \in 1 .. n : /\ h[i] = [num |-> v[i], scale |-> Handing!Top(format)]
                           /\ h[i] \in Handing!Sample
                           /\ Handing!Level(h[i]) = v[i] * Size(format)
                           /\ Loudness(h[i]) = v[i] * Size(format)
  BY <1>2, <1>3, <1>4, AskedHeard, Zenon
<1>6. Len(h) = n /\ DOMAIN h = 1 .. n
  <2>1. h \in Seq(Handing!Sample \cup {NaN}) /\ Len(h) = n  BY <1>3, <1>5, Zenon DEF Asked
  <2> QED  BY <2>1
<1>7. ASSUME NEW i \in 1 .. n
      PROVE  Handing!Magnitude(Handing!Level(h[i]) - Handing!Level(Handing!ClampUnit(sound[i]))) <= slack
  <2>1. Apart(v[i] * Size(format), Loudness(sound[i]), slack)  BY <1>2, <1>3, Zenon DEF Follows
  <2>2. PICK a \in Int : a = v[i] * Size(format)
    <3>1. PICK x \in Int : x = v[i]  BY <1>2, <1>3, Zenon DEF Coded
    <3>2. PICK z \in Nat : z = Size(format)
      <4>1. Size(format) \in Nat  BY <1>1, SizeIs
      <4> QED  BY <4>1
    <3>3. x * z \in Int  OBVIOUS
    <3> QED  BY <3>1, <3>2, <3>3, Zenon
  <2>3. PICK b \in Int : b = Loudness(sound[i])
    <3>1. sound \in Seq(Handing!Sample \cup {NaN})
      BY <1>1, HandingAssumption DEF Handing!ConversionAssumption
    <3>2. sound[i] \in Handing!Sample \cup {NaN}  BY <1>3, <3>1, ElementOfSeq, Zenon
    <3>3. Loudness(sound[i]) \in Int  BY <1>1, <3>2, QuantiseSigned, Zenon
    <3> QED  BY <3>3
  <2>4. a - b <= slack /\ b - a <= slack  BY <2>1, <2>2, <2>3, Zenon DEF Apart
  <2>5. Handing!Magnitude(a - b) <= slack  BY <1>1, <2>4 DEF Handing!Magnitude
  <2> QED  BY <1>5, <2>2, <2>3, <2>5, Zenon DEF Loudness
<1>8. ASSUME NaN \notin Handing!ToSet(sound), NEW i \in 1 .. n - 1
      PROVE  Handing!Level(h[i]) <= Handing!Level(h[i + 1])
  <2>1. i \in 1 .. n /\ i + 1 \in 1 .. n  OBVIOUS
  <2>2. Loudness(h[i]) <= Loudness(h[i + 1])  BY <1>3, <1>5, <1>8, Zenon DEF Asked
  <2>3. Loudness(h[i]) = Handing!Level(h[i]) /\ Loudness(h[i + 1]) = Handing!Level(h[i + 1])
    BY <1>5, <2>1, Zenon
  <2> QED  BY <2>2, <2>3, Zenon
<1>9. Handing!RelayStaysClose
  BY <1>3, <1>4, <1>6, <1>7, <1>8, Zenon DEF Handing!RelayStaysClose
<1>10. ASSUME NEW i \in 1 .. n
       PROVE  /\ 2 * Handing!Magnitude(h[i].num) <= Handing!Top(format) => Handing!Quantise(h[i], format) = h[i].num
              /\ Handing!Magnitude(Handing!Quantise(h[i], format)) <= Handing!Magnitude(h[i].num)
  <2>1. h[i].num = v[i]
    <3>1. h[i] = [num |-> v[i], scale |-> Handing!Top(format)]  BY <1>5, Zenon
    <3> QED  BY <3>1
  <2>2. v[i] \in Int  BY <1>2, <1>3, Zenon DEF Coded
  <2>3. QuantisedTo(h[i], format, Handing!Quantise(h[i], format))  BY <1>1, <1>5, QuantiseIsNear
  <2>4. Loudness(h[i]) = v[i] * Size(format)  BY <1>5, Zenon
  <2> QED  BY <2>1, <2>2, <2>3, <2>4, Zenon DEF QuantisedTo
<1>11. Handing!QuietSamplesSurvive
  BY <1>4, <1>6, <1>10, Zenon DEF Handing!QuietSamplesSurvive
<1> QED  BY <1>9, <1>11

-----------------------------------------------------------------------------
(* Conversions: formats. *)

LEMMA NamesAgree == Handing!FormatsAgree
<1> DEFINE Good(a) ==
      LET f == Handing!FromAudio[a] IN
      /\ Handing!ToAudio(f) = a
      /\ Handing!FromCore[f] # None =>
            /\ Handing!ToCore[Handing!FromCore[f]] = f
            /\ Handing!BytesPerSample(Handing!FromCore[f]) = Handing!ByteSize[f]
<1>1. DOMAIN Handing!FromAudio = {"U8", "I16", "I24", "I32", "F32", "F64"}  BY DEF Handing!FromAudio
<1>2. /\ Handing!FromAudio["U8"] = "u8" /\ Handing!FromAudio["I16"] = "i16"
      /\ Handing!FromAudio["I24"] = "i24" /\ Handing!FromAudio["I32"] = "i32"
      /\ Handing!FromAudio["F32"] = "f32" /\ Handing!FromAudio["F64"] = "f64"
  BY DEF Handing!FromAudio
<1>3. \A a, b \in DOMAIN Handing!FromAudio : Handing!FromAudio[a] = Handing!FromAudio[b] => a = b
  BY <1>1, <1>2
<1>4. \A a \in DOMAIN Handing!FromAudio : Handing!ToAudio(Handing!FromAudio[a]) = a
  BY <1>3, Zenon DEF Handing!ToAudio
<1>5. /\ Handing!FromCore["u8"] = "u8" /\ Handing!FromCore["i16"] = "s16le"
      /\ Handing!FromCore["i24"] = "s24le" /\ Handing!FromCore["i32"] = "s32le"
      /\ Handing!FromCore["f32"] = "float32le" /\ Handing!FromCore["f64"] = None
  BY DEF Handing!FromCore
<1>6. /\ Handing!ToCore["u8"] = "u8" /\ Handing!ToCore["s16le"] = "i16"
      /\ Handing!ToCore["s24le"] = "i24" /\ Handing!ToCore["s32le"] = "i32"
      /\ Handing!ToCore["float32le"] = "f32"
  BY DEF Handing!ToCore
<1>7. /\ Handing!BytesPerSample("u8") = 1 /\ Handing!BytesPerSample("s16le") = 2
      /\ Handing!BytesPerSample("s24le") = 3 /\ Handing!BytesPerSample("s32le") = 4
      /\ Handing!BytesPerSample("float32le") = 4
  BY DEF Handing!BytesPerSample
<1>8. /\ Handing!ByteSize["u8"] = 1 /\ Handing!ByteSize["i16"] = 2 /\ Handing!ByteSize["i24"] = 3
      /\ Handing!ByteSize["i32"] = 4 /\ Handing!ByteSize["f32"] = 4
  BY DEF Handing!ByteSize
<1>9. Good("U8") /\ Good("I16") /\ Good("I24")
  BY <1>1, <1>2, <1>4, <1>5, <1>6, <1>7, <1>8
<1>10. Good("I32") /\ Good("F32") /\ Good("F64")
  BY <1>1, <1>2, <1>4, <1>5, <1>6, <1>7, <1>8
<1>11. \A a \in DOMAIN Handing!FromAudio : Good(a)  BY <1>1, <1>9, <1>10, Zenon
<1> QED  BY <1>11, Zenon DEF Handing!FormatsAgree

-----------------------------------------------------------------------------
(* Conversions: layouts. *)

LEMMA SameCardinality == \A S : Handing!Cardinality(S) = Cardinality(S)
  BY Zenon DEF Handing!Cardinality, Cardinality

\* The places of a routing before one: those of a lower index, and of the same index earlier.
Channel     == DOMAIN Handing!StandardIndex
Before(r, i) == {j \in DOMAIN r : r[j][2] < r[i][2] \/ (r[j][2] = r[i][2] /\ j < i)}
Rank(r, i)   == Handing!Cardinality(Before(r, i))
Placed(r, k) == CHOOSE i \in DOMAIN r : Rank(r, i) = k - 1

LEMMA MapIs ==
    ASSUME NEW r
    PROVE  Handing!MapOf(r) = [k \in DOMAIN r |-> Handing!ToChannelId[r[Placed(r, k)][1]]]
  BY Zenon DEF Handing!MapOf, Before, Rank, Placed

LEMMA RankIs == \A r, i : Rank(r, i) = Cardinality(Before(r, i))
  BY SameCardinality, Zenon DEF Rank

LEMMA RoutingTypes ==
    ASSUME NEW r \in Seq(Channel \X Nat), NEW n, n = Len(r)
    PROVE  n \in Nat /\ DOMAIN r = 1 .. n /\ \A i \in 1 .. n : r[i][1] \in Channel /\ r[i][2] \in Nat
<1>1. n \in Nat /\ DOMAIN r = 1 .. n  OBVIOUS
<1>2. \A i \in 1 .. n : r[i] \in Channel \X Nat  BY <1>1, ElementOfSeq, Zenon
<1> QED  BY <1>1, <1>2

\* Ranks are numbers from 0, one for each place, and in the order of the indices.
LEMMA Ranks ==
    ASSUME NEW r \in Seq(Channel \X Nat), NEW n, n = Len(r)
    PROVE  /\ \A i \in 1 .. n : Rank(r, i) \in 0 .. n - 1
           /\ \A i, j \in 1 .. n : i \in Before(r, j) => Rank(r, i) < Rank(r, j)
           /\ \A i, j \in 1 .. n : Rank(r, i) = Rank(r, j) => i = j
           /\ \A k \in 1 .. n : Placed(r, k) \in 1 .. n /\ Rank(r, Placed(r, k)) = k - 1
           /\ \A i \in 1 .. n : Placed(r, Rank(r, i) + 1) = i
<1>1. n \in Nat /\ DOMAIN r = 1 .. n /\ \A i \in 1 .. n : r[i][2] \in Nat  BY RoutingTypes
<1>2. IsFiniteSet(1 .. n) /\ Cardinality(1 .. n) = n
  <2>1. 1 \in Int /\ n \in Int  BY <1>1
  <2>2. IsFiniteSet(1 .. n) /\ Cardinality(1 .. n) = IF 1 > n THEN 0 ELSE n - 1 + 1  BY <2>1, FS_Interval
  <2> QED  BY <1>1, <2>2
<1>3. \A i \in 1 .. n : Before(r, i) \subseteq 1 .. n /\ i \notin Before(r, i)
  BY <1>1 DEF Before
<1>4. \A i \in 1 .. n : IsFiniteSet(Before(r, i)) /\ Rank(r, i) \in Nat
  <2>1. \A i \in 1 .. n : IsFiniteSet(Before(r, i))  BY <1>2, <1>3, FS_Subset
  <2> QED  BY <2>1, FS_CardinalityType, RankIs
<1>5. \A i \in 1 .. n : \A T : IsFiniteSet(T) /\ Before(r, i) \subseteq T /\ i \in T => Rank(r, i) < Cardinality(T)
  <2> SUFFICES ASSUME NEW i \in 1 .. n, NEW T, IsFiniteSet(T), Before(r, i) \subseteq T, i \in T
               PROVE  Rank(r, i) < Cardinality(T)
    OBVIOUS
  <2>1. Cardinality(T) \in Nat  BY FS_CardinalityType
  <2>2. Cardinality(Before(r, i)) <= Cardinality(T) /\ Cardinality(Before(r, i)) # Cardinality(T)
    BY <1>3, FS_Subset
  <2> QED  BY <1>4, <2>1, <2>2, RankIs
<1>6. \A i \in 1 .. n : Rank(r, i) \in 0 .. n - 1
  <2> SUFFICES ASSUME NEW i \in 1 .. n PROVE Rank(r, i) \in 0 .. n - 1  OBVIOUS
  <2>1. Rank(r, i) < n  BY <1>2, <1>3, <1>5
  <2> QED  BY <1>1, <1>4, <2>1
<1>7. \A i, j \in 1 .. n : i \in Before(r, j) => Rank(r, i) < Rank(r, j)
  <2> SUFFICES ASSUME NEW i \in 1 .. n, NEW j \in 1 .. n, i \in Before(r, j)
               PROVE  Rank(r, i) < Rank(r, j)
    OBVIOUS
  <2>1. Before(r, i) \subseteq Before(r, j)  BY <1>1 DEF Before
  <2> QED  BY <1>4, <1>5, <2>1, RankIs, Zenon
<1>8. \A i, j \in 1 .. n : i = j \/ i \in Before(r, j) \/ j \in Before(r, i)
  BY <1>1 DEF Before
<1>9. \A i, j \in 1 .. n : Rank(r, i) = Rank(r, j) => i = j
  BY <1>1, <1>4, <1>7, <1>8, SMTT(30)
<1>10. \A k \in 1 .. n : \E i \in 1 .. n : Rank(r, i) = k - 1
  <2> DEFINE f == [i \in 1 .. n |-> Rank(r, i)]
  <2>1. f \in Injection(1 .. n, 0 .. n - 1)
    <3>1. f \in [1 .. n -> 0 .. n - 1]  BY <1>6
    <3>2. IsInjective(f)  BY <1>9, Zenon DEF IsInjective
    <3> QED  BY <3>1, <3>2, Zenon DEF Injection
  <2>2. IsFiniteSet(0 .. n - 1) /\ Cardinality(0 .. n - 1) = n
    <3>1. 0 \in Int /\ n - 1 \in Int  BY <1>1
    <3>2. IsFiniteSet(0 .. n - 1) /\ Cardinality(0 .. n - 1) = IF 0 > n - 1 THEN 0 ELSE n - 1 - 0 + 1
      BY <3>1, FS_Interval
    <3> QED  BY <1>1, <3>2
  <2>3. f \in Surjection(1 .. n, 0 .. n - 1)
    <3> HIDE DEF f
    <3> QED  BY <1>2, <2>1, <2>2, FS_Injection
  <2>4. \A q \in 0 .. n - 1 : \E i \in 1 .. n : f[i] = q  BY <2>3, Zenon DEF Surjection
  <2>5. \A k \in 1 .. n : k - 1 \in 0 .. n - 1  BY <1>1
  <2> QED  BY <2>4, <2>5
<1>11. \A k \in 1 .. n : Placed(r, k) \in 1 .. n /\ Rank(r, Placed(r, k)) = k - 1
  BY <1>1, <1>10, Zenon DEF Placed
<1>12. \A i \in 1 .. n : Placed(r, Rank(r, i) + 1) = i
  <2> SUFFICES ASSUME NEW i \in 1 .. n PROVE Placed(r, Rank(r, i) + 1) = i  OBVIOUS
  <2>1. PICK q \in 0 .. n - 1 : q = Rank(r, i)  BY <1>6
  <2>2. q + 1 \in 1 .. n /\ q + 1 - 1 = q  BY <1>1
  <2>3. Placed(r, q + 1) \in 1 .. n /\ Rank(r, Placed(r, q + 1)) = q  BY <1>11, <2>2
  <2> QED  BY <1>9, <2>1, <2>3, Zenon
<1> QED  BY <1>6, <1>7, <1>9, <1>11, <1>12, Zenon

\* Where the indices have no gap and none twice, the ranks are the indices.
LEMMA RanksAreIndices ==
    ASSUME NEW r \in Seq(Channel \X Nat), NEW n, n = Len(r), {r[i][2] : i \in DOMAIN r} = 0 .. n - 1
    PROVE  \A i \in 1 .. n : Rank(r, i) = r[i][2]
<1>1. n \in Nat /\ DOMAIN r = 1 .. n /\ \A i \in 1 .. n : r[i][2] \in Nat  BY RoutingTypes
<1> DEFINE f == [i \in 1 .. n |-> r[i][2]]
<1>2. f \in Surjection(1 .. n, 0 .. n - 1)
  <2>1. \A i \in 1 .. n : r[i][2] \in 0 .. n - 1  BY <1>1, Zenon
  <2>2. f \in [1 .. n -> 0 .. n - 1]  BY <2>1, Zenon
  <2>3. \A q \in 0 .. n - 1 : \E i \in 1 .. n : f[i] = q  BY <1>1, Zenon
  <2> QED  BY <2>2, <2>3, Zenon DEF Surjection
<1>3. \A a, b \in 1 .. n : r[a][2] = r[b][2] => a = b
  <2>1. IsFiniteSet(1 .. n) /\ Cardinality(1 .. n) = n /\ Cardinality(0 .. n - 1) = n
    <3>1. 1 \in Int /\ n \in Int /\ 0 \in Int /\ n - 1 \in Int  BY <1>1
    <3>2. /\ IsFiniteSet(1 .. n) /\ Cardinality(1 .. n) = IF 1 > n THEN 0 ELSE n - 1 + 1
          /\ Cardinality(0 .. n - 1) = IF 0 > n - 1 THEN 0 ELSE n - 1 - 0 + 1
      BY <3>1, FS_Interval
    <3> QED  BY <1>1, <3>2
  <2>2. f \in Injection(1 .. n, 0 .. n - 1)
    <3> HIDE DEF f
    <3> QED  BY <1>2, <2>1, FS_SurjSameCardinalityImpliesInj
  <2>3. \A a, b \in DOMAIN f : f[a] = f[b] => a = b  BY <2>2, Zenon DEF Injection, IsInjective
  <2> QED  BY <2>3, Zenon
<1> SUFFICES ASSUME NEW i \in 1 .. n PROVE Rank(r, i) = r[i][2]  OBVIOUS
<1>4. PICK q \in 0 .. n - 1 : q = r[i][2]  BY <1>1, Zenon
<1>5. Before(r, i) = {j \in 1 .. n : r[j][2] < q}
  <2>1. \A j \in 1 .. n : r[j][2] = r[i][2] => ~(j < i)
    <3> SUFFICES ASSUME NEW j \in 1 .. n, r[j][2] = r[i][2] PROVE ~(j < i)  OBVIOUS
    <3>1. j = i  BY <1>3, Zenon
    <3> QED  BY <3>1
  <2> QED  BY <1>1, <1>4, <2>1 DEF Before
<1>6. PICK B : B = Before(r, i)  OBVIOUS
<1> DEFINE g == [j \in B |-> r[j][2]]
<1>7. g \in Bijection(B, 0 .. q - 1)
  <2>1. \A j \in B : j \in 1 .. n /\ r[j][2] \in 0 .. q - 1  BY <1>1, <1>4, <1>5, <1>6
  <2>2. g \in [B -> 0 .. q - 1]  BY <2>1, Zenon
  <2>3. \A a, b \in DOMAIN g : g[a] = g[b] => a = b  BY <1>3, <2>1, Zenon
  <2>4. \A s \in 0 .. q - 1 : \E j \in B : g[j] = s
    <3> SUFFICES ASSUME NEW s \in 0 .. q - 1 PROVE \E j \in B : g[j] = s  OBVIOUS
    <3>1. s \in 0 .. n - 1 /\ s < q  BY <1>1
    <3>2. PICK j \in 1 .. n : r[j][2] = s  BY <1>1, <3>1, Zenon
    <3>3. j \in B  BY <1>5, <1>6, <3>1, <3>2, Zenon
    <3> QED  BY <3>2, <3>3, Zenon
  <2> QED  BY <2>2, <2>3, <2>4, Zenon DEF Bijection, Injection, Surjection, IsInjective
<1>8. Cardinality(B) = q
  <2>1. IsFiniteSet(B)
    <3>1. IsFiniteSet(1 .. n)
      <4>1. 1 \in Int /\ n \in Int  BY <1>1
      <4> QED  BY <4>1, FS_Interval
    <3>2. B \subseteq 1 .. n  BY <1>5, <1>6
    <3> QED  BY <3>1, <3>2, FS_Subset
  <2>2. ExistsBijection(B, 0 .. q - 1)
    <3> HIDE DEF g
    <3> QED  BY <1>7, Zenon DEF ExistsBijection
  <2>3. Cardinality(0 .. q - 1) = Cardinality(B)  BY <2>1, <2>2, FS_Bijection
  <2>4. Cardinality(0 .. q - 1) = q
    <3>1. 0 \in Int /\ q - 1 \in Int  OBVIOUS
    <3>2. Cardinality(0 .. q - 1) = IF 0 > q - 1 THEN 0 ELSE q - 1 - 0 + 1  BY <3>1, FS_Interval
    <3> QED  BY <3>2
  <2> QED  BY <2>3, <2>4
<1> QED  BY <1>4, <1>6, <1>8, RankIs, Zenon

\* The core has one name for each channel it can name.
LEMMA NamesReturn ==
    \A c \in Channel : Handing!FromChannelId(Handing!ToChannelId[c]) = c
<1>1. Channel = DOMAIN Handing!ToChannelId
  BY DEF Channel, Handing!StandardIndex, Handing!ToChannelId
<1>2. \A c, d \in DOMAIN Handing!ToChannelId : Handing!ToChannelId[c] = Handing!ToChannelId[d] => c = d
  BY DEF Handing!ToChannelId
<1> SUFFICES ASSUME NEW c \in DOMAIN Handing!ToChannelId
             PROVE  Handing!FromChannelId(Handing!ToChannelId[c]) = c
  BY <1>1
<1> DEFINE S == {d \in DOMAIN Handing!ToChannelId : Handing!ToChannelId[d] = Handing!ToChannelId[c]}
<1>3. Handing!FromChannelId(Handing!ToChannelId[c]) = IF S = {} THEN None ELSE CHOOSE d \in S : TRUE
  BY Zenon DEF Handing!FromChannelId
<1>4. S = {c}  BY <1>2, Zenon
<1> HIDE DEF S
<1>5. (CHOOSE d \in S : TRUE) \in S  BY <1>4
<1> QED  BY <1>3, <1>4, <1>5

\* The map another crate comes by, with a channel the core cannot name, and what is known of
\* a layout handed over and back.
Foreign == <<"FrontLeft", "TopFrontLeft">>

LayoutInv ==
    /\ layout \in Seq(Channel \X Nat)
    /\ channelMap = None \/ channelMap = Handing!MapOf(layout) \/ channelMap = Foreign
    /\ returned # None => (returned = Handing!RoutingOf(Handing!MapOf(layout)) \/ returned = Handing!RoutingOf(Foreign))

LEMMA PresetTypes == ASSUME NEW n \in 0 .. 8 PROVE Handing!Preset(n) \in Seq(Channel \X Nat)
<1>1. \A q \in 0 .. 7 : \E c \in Channel : Handing!StandardIndex[c] = q
  <2>1. /\ "FrontLeft" \in Channel /\ "FrontRight" \in Channel /\ "Center" \in Channel /\ "Lfe" \in Channel
        /\ "SurroundLeft" \in Channel /\ "SurroundRight" \in Channel /\ "BackLeft" \in Channel
        /\ "BackRight" \in Channel
        /\ Handing!StandardIndex["FrontLeft"] = 0 /\ Handing!StandardIndex["FrontRight"] = 1
        /\ Handing!StandardIndex["Center"] = 2 /\ Handing!StandardIndex["Lfe"] = 3
        /\ Handing!StandardIndex["SurroundLeft"] = 4 /\ Handing!StandardIndex["SurroundRight"] = 5
        /\ Handing!StandardIndex["BackLeft"] = 6 /\ Handing!StandardIndex["BackRight"] = 7
    BY DEF Channel, Handing!StandardIndex
  <2>2. \A q \in 0 .. 7 : q \in {0, 1, 2, 3, 4, 5, 6, 7}  OBVIOUS
  <2>3. \A q \in {0, 1, 2, 3, 4, 5, 6, 7} : \E c \in Channel : Handing!StandardIndex[c] = q
    BY <2>1, Zenon
  <2> QED  BY <2>2, <2>3, Zenon
<1>2. ASSUME NEW i \in 1 .. n
      PROVE  <<CHOOSE c \in Channel : Handing!StandardIndex[c] = i - 1, i - 1>> \in Channel \X Nat
  <2>1. i - 1 \in 0 .. 7 /\ i - 1 \in Nat  OBVIOUS
  <2>2. PICK d \in Channel : d = CHOOSE c \in Channel : Handing!StandardIndex[c] = i - 1
    BY <1>1, <2>1, Zenon
  <2>3. <<d, i - 1>> \in Channel \X Nat  BY <2>1
  <2> QED  BY <2>2, <2>3, Zenon
<1>3. Handing!Preset(n) = [i \in 1 .. n |-> <<CHOOSE c \in Channel : Handing!StandardIndex[c] = i - 1, i - 1>>]
  BY Zenon DEF Handing!Preset, Channel
<1>4. Handing!Preset(n) \in [1 .. n -> Channel \X Nat]  BY <1>2, <1>3, Zenon
<1> QED  BY <1>4

LEMMA LayoutInit == Handing!Init => LayoutInv
<1> SUFFICES ASSUME Handing!Init PROVE LayoutInv  OBVIOUS
<1>1. layout \in Handing!Presets \cup Layouts /\ channelMap = None /\ returned = None
  BY DEF Handing!Init
<1>2. CASE layout \in Layouts
  <2>1. layout \in Seq((DOMAIN Handing!StandardIndex) \X Nat)
    BY <1>2, HandingAssumption, Zenon DEF Handing!ConversionAssumption
  <2> QED  BY <1>1, <2>1, Zenon DEF LayoutInv, Channel
<1>3. CASE layout \in Handing!Presets
  <2>1. PICK n \in {2, 6, 8} : layout = Handing!Preset(n)  BY <1>3, Zenon DEF Handing!Presets
  <2>2. n \in 0 .. 8  BY <2>1
  <2>3. layout \in Seq(Channel \X Nat)  BY <2>1, <2>2, PresetTypes, Zenon
  <2> QED  BY <1>1, <2>3, Zenon DEF LayoutInv
<1> QED  BY <1>1, <1>2, <1>3

LEMMA LayoutStep == LayoutInv /\ [Handing!Next]_(Handing!vars) => LayoutInv'
<1> SUFFICES ASSUME LayoutInv, [Handing!Next]_(Handing!vars) PROVE LayoutInv'  OBVIOUS
<1>1. ASSUME UNCHANGED <<layout, channelMap, returned>> PROVE LayoutInv'
  BY <1>1 DEF LayoutInv
<1>2. ASSUME NEW a \in Relayed, Handing!Play(a) \/ Handing!Relay(a) PROVE LayoutInv'
  <2>1. \E samples : Handing!Write(a, samples)  BY <1>2, Zenon DEF Handing!Play, Handing!Relay
  <2>2. UNCHANGED Handing!routingVars  BY <2>1 DEF Handing!Write
  <2> QED  BY <1>1, <2>2 DEF Handing!routingVars
<1>3. CASE Handing!HandOver
  <2>1. /\ channelMap' = Handing!MapOf(layout) \/ channelMap' = Foreign
        /\ layout' = layout /\ returned' = returned
    BY <1>3 DEF Handing!HandOver, Foreign
  <2> QED  BY <2>1 DEF LayoutInv
<1>4. CASE Handing!HandBack
  <2>1. /\ channelMap # None /\ returned' = Handing!RoutingOf(channelMap)
        /\ layout' = layout /\ channelMap' = channelMap
    BY <1>4 DEF Handing!HandBack
  <2> QED  BY <2>1 DEF LayoutInv
<1>5. CASE UNCHANGED (Handing!vars)
  BY <1>1, <1>5 DEF Handing!vars, Handing!routingVars
<1> QED  BY <1>2, <1>3, <1>4, <1>5 DEF Handing!Next

LEMMA LayoutReturns == LayoutInv => Handing!LayoutComesBack
<1> SUFFICES ASSUME LayoutInv, returned # None PROVE Handing!LayoutComesBack
  BY Zenon DEF Handing!LayoutComesBack
<1>1. layout \in Seq(Channel \X Nat)  BY DEF LayoutInv
<1>2. PICK n \in Nat : n = Len(layout) /\ DOMAIN layout = 1 .. n  BY <1>1
<1>3. Handing!RoutingOf(Foreign) = None
  <2>1. Handing!FromChannelId("TopFrontLeft") = None
    <3>1. \A c \in DOMAIN Handing!ToChannelId : Handing!ToChannelId[c] # "TopFrontLeft"
      BY DEF Handing!ToChannelId
    <3>2. {c \in DOMAIN Handing!ToChannelId : Handing!ToChannelId[c] = "TopFrontLeft"} = {}  BY <3>1, Zenon
    <3> QED  BY <3>2, Zenon DEF Handing!FromChannelId
  <2>2. 2 \in DOMAIN Foreign /\ Foreign[2] = "TopFrontLeft"  BY DEF Foreign
  <2> DEFINE p == [i \in DOMAIN Foreign |-> <<Handing!FromChannelId(Foreign[i]), i - 1>>]
  <2>3. 2 \in DOMAIN p /\ p[2][1] = None
    <3>1. p[2] = <<None, 2 - 1>>  BY <2>1, <2>2, Zenon
    <3> QED  BY <2>2, <3>1
  <2>4. Handing!RoutingOf(Foreign) = IF \E i \in DOMAIN p : p[i][1] = None THEN None ELSE p
    BY Zenon DEF Handing!RoutingOf
  <2> QED  BY <2>3, <2>4, Zenon
<1>4. returned = Handing!RoutingOf(Handing!MapOf(layout))  BY <1>3 DEF LayoutInv
<1>5. PICK map : map = Handing!MapOf(layout)  OBVIOUS
<1>6. map = [k \in 1 .. n |-> Handing!ToChannelId[layout[Placed(layout, k)][1]]]
  BY <1>2, <1>5, MapIs, Zenon
<1>7. returned = [k \in 1 .. n |-> <<Handing!FromChannelId(map[k]), k - 1>>]
  <2>1. DOMAIN map = 1 .. n  BY <1>6
  <2>2. Handing!RoutingOf(map) = None \/ Handing!RoutingOf(map) = [k \in 1 .. n |-> <<Handing!FromChannelId(map[k]), k - 1>>]
    BY <2>1, Zenon DEF Handing!RoutingOf
  <2> QED  BY <1>4, <1>5, <2>2, Zenon
<1>8. \A k \in 1 .. n : Placed(layout, k) \in 1 .. n /\ Rank(layout, Placed(layout, k)) = k - 1
  BY <1>1, <1>2, Ranks, Zenon
<1>9. \A i \in 1 .. n : layout[i][1] \in Channel /\ layout[i][2] \in Nat
                       /\ layout[i] = <<layout[i][1], layout[i][2]>>
  <2>1. \A i \in 1 .. n : layout[i] \in Channel \X Nat  BY <1>1, <1>2, ElementOfSeq, Zenon
  <2> QED  BY <2>1
<1>10. \A k \in 1 .. n : returned[k] = <<layout[Placed(layout, k)][1], k - 1>>
  <2> SUFFICES ASSUME NEW k \in 1 .. n PROVE returned[k] = <<layout[Placed(layout, k)][1], k - 1>>
    OBVIOUS
  <2>1. map[k] = Handing!ToChannelId[layout[Placed(layout, k)][1]]  BY <1>6, Zenon
  <2>2. Handing!FromChannelId(map[k]) = layout[Placed(layout, k)][1]  BY <1>8, <1>9, <2>1, NamesReturn, Zenon
  <2> QED  BY <1>7, <2>2, Zenon
<1>11. Len(returned) = n /\ DOMAIN returned = 1 .. n
  <2>1. DOMAIN returned = 1 .. n  BY <1>7
  <2> QED  BY <1>7, <2>1
<1>12. ASSUME NEW i \in 1 .. n, NEW j \in 1 .. n, layout[i][2] < layout[j][2]
       PROVE  \E a, b \in 1 .. n :
                 a < b /\ returned[a][1] = layout[i][1] /\ returned[b][1] = layout[j][1]
  <2>1. i \in Before(layout, j)  BY <1>2, <1>12 DEF Before
  <2>2. Rank(layout, i) < Rank(layout, j)  BY <1>1, <1>2, <2>1, Ranks, Zenon
  <2>3. PICK a \in 0 .. n - 1, b \in 0 .. n - 1 : a = Rank(layout, i) /\ b = Rank(layout, j)
    BY <1>1, <1>2, Ranks, Zenon
  <2>4. Placed(layout, a + 1) = i /\ Placed(layout, b + 1) = j  BY <1>1, <1>2, <2>3, Ranks, Zenon
  <2>5. a + 1 \in 1 .. n /\ b + 1 \in 1 .. n /\ a + 1 < b + 1  BY <2>2, <2>3
  <2>6. returned[a + 1] = <<layout[i][1], (a + 1) - 1>> /\ returned[b + 1] = <<layout[j][1], (b + 1) - 1>>
    BY <1>10, <2>4, <2>5, Zenon
  <2>7. returned[a + 1][1] = layout[i][1] /\ returned[b + 1][1] = layout[j][1]  BY <2>6
  <2> QED  BY <2>5, <2>7, Zenon
<1>13. ASSUME {layout[i][2] : i \in DOMAIN layout} = 0 .. n - 1
       PROVE  Handing!ToSet(returned) = Handing!ToSet(layout)
  <2>1. \A i \in 1 .. n : Rank(layout, i) = layout[i][2]
    BY <1>1, <1>2, <1>13, RanksAreIndices, Zenon
  <2>2. \A k \in 1 .. n : returned[k] = layout[Placed(layout, k)]
    <3> SUFFICES ASSUME NEW k \in 1 .. n PROVE returned[k] = layout[Placed(layout, k)]  OBVIOUS
    <3>1. PICK i \in 1 .. n : i = Placed(layout, k) /\ Rank(layout, i) = k - 1  BY <1>8, Zenon
    <3>2. returned[k] = <<layout[i][1], k - 1>>  BY <1>10, <3>1, Zenon
    <3>3. layout[i] = <<layout[i][1], layout[i][2]>> /\ layout[i][2] = k - 1  BY <1>9, <2>1, <3>1, Zenon
    <3> QED  BY <3>1, <3>2, <3>3, Zenon
  <2>3. \A i \in 1 .. n : \E k \in 1 .. n : Placed(layout, k) = i
    <3> SUFFICES ASSUME NEW i \in 1 .. n PROVE \E k \in 1 .. n : Placed(layout, k) = i  OBVIOUS
    <3>1. PICK q \in 0 .. n - 1 : q = Rank(layout, i)  BY <1>1, <1>2, Ranks, Zenon
    <3>2. q + 1 \in 1 .. n  OBVIOUS
    <3>3. Placed(layout, q + 1) = i  BY <1>1, <1>2, <3>1, Ranks, Zenon
    <3> QED  BY <3>2, <3>3, Zenon
  <2>4. {returned[k] : k \in 1 .. n} = {layout[i] : i \in 1 .. n}
    <3>1. \A k \in 1 .. n : \E i \in 1 .. n : returned[k] = layout[i]  BY <1>8, <2>2, Zenon
    <3>2. \A i \in 1 .. n : \E k \in 1 .. n : layout[i] = returned[k]  BY <2>2, <2>3, Zenon
    <3> QED  BY <3>1, <3>2
  <2> QED  BY <1>2, <1>11, <2>4, Zenon DEF Handing!ToSet
<1>14. Len(returned) = Len(layout)  BY <1>2, <1>11, Zenon
<1>15. \A i, j \in DOMAIN layout : layout[i][2] < layout[j][2] =>
          \E a, b \in DOMAIN returned :
             a < b /\ returned[a][1] = layout[i][1] /\ returned[b][1] = layout[j][1]
  <2> SUFFICES ASSUME NEW i \in DOMAIN layout, NEW j \in DOMAIN layout, layout[i][2] < layout[j][2]
               PROVE  \E a, b \in DOMAIN returned :
                         a < b /\ returned[a][1] = layout[i][1] /\ returned[b][1] = layout[j][1]
    OBVIOUS
  <2>1. i \in 1 .. n /\ j \in 1 .. n  BY <1>2, Zenon
  <2>2. \E a, b \in 1 .. n :
           a < b /\ returned[a][1] = layout[i][1] /\ returned[b][1] = layout[j][1]
    BY <1>12, <2>1, Zenon
  <2> QED  BY <1>11, <2>2, Zenon
<1>16. {layout[i][2] : i \in DOMAIN layout} = 0 .. Len(layout) - 1 =>
          Handing!ToSet(returned) = Handing!ToSet(layout)
  BY <1>2, <1>13, Zenon
<1> QED  BY <1>14, <1>15, <1>16, Zenon DEF Handing!LayoutComesBack

\* Samples relayed stay as close to what was played as the hops allow, and in its order; a
\* quiet one survives a hop and none grows louder; a format has one name in each crate; and
\* a layout comes back in the order of its indices, or is refused (ConversionsAgree).
THEOREM WhatChangesHandsStays == PartsSpec => []Handing!ConversionsAgree
<1>1. SoundInv /\ LayoutInv => Handing!ConversionsAgree
  BY SoundIsClose, NamesAgree, LayoutReturns, Zenon DEF Handing!ConversionsAgree
<1>2. Handing!Spec => []Handing!ConversionsAgree
  BY <1>1, SoundInit, SoundStep, LayoutInit, LayoutStep, PTL DEF Handing!Spec
<1>3. PartsSpec => Handing!Spec  BY PartsAreComponents, PTL
<1> QED  BY <1>2, <1>3, PTL

\* Samples and layouts that change hands stay what they were, and a test signal has each
\* frame in its place.
THEOREM SignalsAreExact == PartsSpec => []SignalsStayExact
<1>1. Handing!ConversionsAgree /\ Signals!TonesKeepTime => SignalsStayExact  BY DEF SignalsStayExact
<1> QED  BY <1>1, WhatChangesHandsStays, TestSignalsKeepTime, PTL
==============================================================================
