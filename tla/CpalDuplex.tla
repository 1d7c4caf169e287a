----------------------------- MODULE CpalDuplex ------------------------------
(***************************************************************************)
(* CpalDuplexStream: a capture ring the input callback fills, a playback   *)
(* ring the output callback empties, and an application that reads, writes *)
(* and calls pump_resampled(), which moves captured frames to playback and *)
(* interpolates between them to make up for two clocks that drift.  A      *)
(* CpalInputStream is its capture half.                                    *)
(*                                                                         *)
(* The unit is a frame; how frames are cut into samples is left out, and so *)
(* is the disconnection of a device, which only makes read() and write()   *)
(* refuse.  A position is counted in Q-ths of a frame, from the head of    *)
(* the capture ring.                                                       *)
(***************************************************************************)
EXTENDS Integers

CONSTANTS
    Q,             \* fractions of a frame a position can have
    Steps,         \* how far apart in the input two output frames can be, in Q-ths: 1 / drift_ema
    InCapacity,    \* frames the capture ring holds
    OutCapacity    \* frames the playback ring holds

\* drift_ema stays within [0.5, 2].  The capture ring holds seconds of audio unless the
\* configuration says otherwise; in two frames, a step of two behind a fraction would
\* never fit, and the ring would stay full.
ASSUME DuplexAssumption ==
    /\ Q \in Nat \ {0}
    /\ Steps \subseteq {s \in Nat \ {0} : Q <= 2 * s /\ s <= 2 * Q}
    /\ InCapacity \in Nat /\ InCapacity >= 3
    /\ OutCapacity \in Nat \ {0}

VARIABLES
    captured,   \* frames in the capture ring
    queued,     \* frames in the playback ring
    phase,      \* resample_phase: where the next output frame is taken from
    plan,       \* what a pump_resampled() under way is about to move
    due         \* history: where the next output frame would follow on from the last call

vars == <<captured, queued, phase, plan, due>>

Idle == [frames |-> 0, needed |-> 0, step |-> 0]

\* open_duplex_inner: two empty rings and no phase.
Init ==
    /\ captured = 0 /\ queued = 0
    /\ phase = 0 /\ plan = Idle /\ due = 0

Vacant      == OutCapacity - queued
Least(a, b) == IF a < b THEN a ELSE b

----------------------------------------------------------------------------
(* The callbacks. *)

\* A captured frame; one that finds the ring full is dropped.
Capture ==
    /\ captured < InCapacity
    /\ captured' = captured + 1
    /\ UNCHANGED <<queued, phase, plan, due>>

\* A frame is played; an empty ring plays silence.
Render ==
    /\ queued > 0
    /\ queued' = queued - 1
    /\ UNCHANGED <<captured, phase, plan, due>>

----------------------------------------------------------------------------
(* The application.  Its calls take &mut self: there is never more than one, *)
(* and pump_resampled() is three steps the callbacks may come between.       *)

\* read(): as many frames as there are.
Read(n) ==
    /\ plan = Idle
    /\ captured' = captured - Least(n, captured)
    /\ UNCHANGED <<queued, phase, plan, due>>

\* write(): all or, with an Err, nothing.
Write(n) ==
    /\ plan = Idle /\ n <= Vacant
    /\ queued' = queued + n
    /\ UNCHANGED <<captured, phase, plan, due>>

\* Mutant: bounded by the whole playback ring, not by the room in it.
FramesOfCapacity(step) == Least((captured * Q - phase) \div step, OutCapacity)

\* How many output frames the captured ones are good for, and the frames to pop for n of them.
Frames(step) == Least((captured * Q - phase) \div step, Vacant)
Needed(n, step) == Least((phase + n * step) \div Q + 1, captured)

\* Look at both rings and work out the call; it returns Ok(0) when there is nothing to do.
PumpLook(step) ==
    /\ plan = Idle /\ captured > 0 /\ Vacant > 0
    /\ Frames(step) > 0
    /\ plan' = [frames |-> Frames(step), needed |-> Needed(Frames(step), step), step |-> step]
    /\ due' = phase + Frames(step) * step
    /\ UNCHANGED <<captured, queued, phase>>

\* Pop the frames to interpolate between.
PumpPop ==
    /\ plan.needed > 0
    /\ LET n == Least(plan.needed, captured) IN
          /\ captured' = captured - n
          /\ due' = due - n * Q
    /\ plan' = [plan EXCEPT !.needed = 0]
    /\ UNCHANGED <<queued, phase>>

PumpPushKeepsPhase ==
    /\ plan.frames > 0 /\ plan.needed = 0
    /\ queued' = queued + Least(plan.frames, Vacant)
    /\ phase' = phase
    /\ plan' = Idle
    /\ UNCHANGED <<captured, due>>

PumpPushWholePhase ==
    /\ plan.frames > 0 /\ plan.needed = 0
    /\ queued' = queued + Least(plan.frames, Vacant)
    /\ phase' = phase + plan.frames * plan.step
    /\ plan' = Idle
    /\ UNCHANGED <<captured, due>>

\* Carry the fraction of the phase, and queue what fits of the output.
PumpPush ==
    /\ plan.frames > 0 /\ plan.needed = 0
    /\ queued' = queued + Least(plan.frames, Vacant)
    /\ phase' = (phase + plan.frames * plan.step) % Q
    /\ plan' = Idle
    /\ UNCHANGED <<captured, due>>

Next ==
    \/ Capture
    \/ Render
    \/ \E n \in 1..InCapacity : Read(n)
    \/ \E n \in 1..OutCapacity : Write(n)
    \/ \E step \in Steps : PumpLook(step)
    \/ PumpPop
    \/ PumpPush

Spec == Init /\ [][Next]_vars

----------------------------------------------------------------------------
(* Properties *)

\* The rings hold what they can, and the phase is a fraction of a frame.
TypeOK ==
    /\ captured \in 0..InCapacity /\ queued \in 0..OutCapacity
    /\ phase \in 0..Q - 1 /\ due \in Int
    /\ plan \in [frames : 0..OutCapacity, needed : 0..InCapacity, step : Steps \cup {0}]

\* What pump_resampled() worked out still fits when it gets to move it, whatever the
\* callbacks did since: every frame it was to pop is there and no frame it made is cut.
PumpFits == plan.frames <= Vacant /\ plan.needed <= captured

\* Every output frame has a captured frame under it: the interpolation never reads past
\* the frames popped, where it would take silence.
NoSilence ==
    plan.needed > 0 => (phase + (plan.frames - 1) * plan.step) \div Q < plan.needed

\* From one call to the next, no part of the input is played twice and at most one
\* frame of it is passed over.
SkipsAtMostOne == plan = Idle => phase - due \in {0, Q}

\* "A fractional phase is carried across calls so resampling is continuous across
\* buffer boundaries": the next output frame is taken from where the last call left off.
Continuous == plan = Idle => phase = due

\* An application that pumps whenever there is room for it, and devices that play.
FairSpec ==
    /\ Spec
    /\ SF_vars(\E step \in Steps : PumpLook(step))
    /\ WF_vars(PumpPop) /\ WF_vars(PumpPush) /\ WF_vars(Render)

\* A full capture ring is drained by pumping alone: no phase and no drift leaves
\* pump_resampled() finding nothing to do while the input callback drops frames.
Drains == captured = InCapacity ~> captured < InCapacity
==============================================================================
