-------------------------- MODULE EstimatorLifecycle --------------------------
(***************************************************************************)
(* The life of SPARKFastLIO2's filter from one LiDAR frame to the next:    *)
(* initialisation, the first map, accepted, rejected and rolled-back       *)
(* frames, gravity alignment, and the warm reset after a timestamp that    *)
(* moved backwards (spark_fast_lio: estimation.cpp, resetEstimatorState of *)
(* spark_fast_lio.cpp, initialisation in imu_processor.cpp).               *)
(*                                                                         *)
(* A frame is one step: the node has one executor thread, and nothing is   *)
(* published inside a frame before its verdict.  What the numbers decide   *)
(* (stillness, motion, matches, the motion-quality gate) is a choice.      *)
(***************************************************************************)
EXTENDS Naturals

CONSTANTS AlignEnabled,     \* enable_gravity_alignment_ with a base_frame_
          QualityGate,      \* quality_gate_enabled_
          MovingThreshold,  \* moving_frame_threshold_
          DirectionsNeeded, \* gravity_measurement_threshold_
          MaxResets         \* bound: timestamps that move backwards

ASSUME LifecycleAssumption ==
    /\ AlignEnabled \in BOOLEAN /\ QualityGate \in BOOLEAN
    /\ MovingThreshold \in Nat /\ DirectionsNeeded \in Nat /\ MaxResets \in Nat

VARIABLES
    started,        \* has_lidar_start_time_
    warmedUp,       \* is_lio_warmup_complete_
    imuInitialized, \* ImuProcessor::is_initialized_
    warmPrior,      \* ImuProcessor::has_warm_start_prior_
    mapBuilt,       \* ikd_tree_ has a root
    accepted,       \* has_accepted_lio_update_
    armed,          \* kf_for_preintegration_ has a value
    aligned,        \* is_gravity_aligned_, with gravity_alignment_rotation_
    moving,         \* num_consecutive_moving_frames_, up to what is told apart
    directions,     \* size of global_gravity_directions_
    counter,        \* odom_reset_counter_
    resets,         \* how often the filter was anchored anew
    flown,          \* history: the filter has been initialized once
    path,           \* the worlds of the poses in path_msg_
    odometry,       \* history: the worlds of the frames published as odometry
    predicted       \* history: the predictions published, with their counter

alignment == <<aligned, moving, directions, counter>>
filter == <<started, imuInitialized, warmPrior, resets, flown>>
outputs == <<path, odometry, predicted>>
life == <<filter, warmedUp, mapBuilt, accepted, armed, alignment, outputs>>

(***************************************************************************)
(* The coordinates a published pose is in: the anchor of the filter, and   *)
(* whether the gravity rotation is applied.                                *)
(***************************************************************************)
World == [anchor |-> resets, rotated |-> aligned]
Worlds == [anchor : Nat, rotated : BOOLEAN]

InitLife ==
    /\ started = FALSE /\ warmedUp = FALSE
    /\ imuInitialized = FALSE /\ warmPrior = FALSE
    /\ mapBuilt = FALSE /\ accepted = FALSE /\ armed = FALSE
    /\ aligned = FALSE /\ moving = 0 /\ directions = 0
    /\ counter = 0 /\ resets = 0 /\ flown = FALSE
    /\ path = {} /\ odometry = {} /\ predicted = {}

-----------------------------------------------------------------------------
\* Mutant: a prior is kept only of a filter past its warm-up.
PriorAfterWarmUp == warmPrior \/ warmedUp
(***************************************************************************)
(* An initialized filter leaves a prior; the prior of an earlier reset     *)
(* stays until an initialisation uses it.                                  *)
(***************************************************************************)
PriorAfterReset == warmPrior \/ imuInitialized

(***************************************************************************)
(* resetEstimatorState(kWarmRecovery).                                     *)
(***************************************************************************)
Reset ==
    /\ resets < MaxResets
    /\ resets' = resets + 1
    /\ counter' = counter + 1
    /\ warmPrior' = PriorAfterReset
    /\ started' = FALSE /\ warmedUp' = FALSE /\ imuInitialized' = FALSE
    /\ mapBuilt' = FALSE /\ accepted' = FALSE /\ armed' = FALSE
    /\ aligned' = FALSE /\ moving' = 0 /\ directions' = 0
    /\ path' = {}
    /\ UNCHANGED <<flown, odometry, predicted>>

(***************************************************************************)
(* integrateIMU: a sample is predicted from and published with the counter.*)
(***************************************************************************)
Predict ==
    /\ armed
    /\ predicted' = predicted \cup {[counter |-> counter, world |-> World]}
    /\ UNCHANGED <<filter, warmedUp, mapBuilt, accepted, armed, alignment, path,
                   odometry>>

FirstScan ==
    /\ ~started
    /\ started' = TRUE
    /\ UNCHANGED <<warmedUp, imuInitialized, warmPrior, resets, flown, mapBuilt,
                   accepted, armed, alignment, outputs>>

WarmUp == warmedUp' \in {warmedUp, TRUE}

(***************************************************************************)
(* initializeImu: with a prior the frame completes it, without one it      *)
(* takes a still window.  The frame has no points for the matching.        *)
(***************************************************************************)
Initialize ==
    /\ started /\ ~imuInitialized
    /\ WarmUp
    /\ imuInitialized' \in (IF warmPrior THEN {TRUE} ELSE BOOLEAN)
    /\ warmPrior' = FALSE
    /\ flown' = (flown \/ imuInitialized')
    /\ UNCHANGED <<started, resets, mapBuilt, accepted, armed, alignment, outputs>>

-----------------------------------------------------------------------------
FilterRuns == started /\ imuInitialized /\ UNCHANGED filter

(***************************************************************************)
(* restorePrePropagationFrame: the propagation is not finite.              *)
(***************************************************************************)
RollBack ==
    /\ FilterRuns
    /\ armed' = TRUE
    /\ UNCHANGED <<warmedUp, mapBuilt, accepted, alignment, outputs>>

(***************************************************************************)
(* publishPropagatedFrame: odometry, no path.                              *)
(***************************************************************************)
PublishPropagated(world) ==
    odometry' = odometry \cup {world} /\ UNCHANGED <<path, predicted>>
PublishIfAccepted ==
    IF QualityGate /\ accepted THEN PublishPropagated(World) ELSE UNCHANGED outputs

NoPoints ==
    /\ FilterRuns /\ WarmUp
    /\ PublishIfAccepted
    /\ UNCHANGED <<mapBuilt, accepted, armed, alignment>>

MovingFrames == IF moving > MovingThreshold THEN moving ELSE moving + 1

(***************************************************************************)
(* updateGravityAlignmentBeforeLio: after the warm-up a frame that moves   *)
(* is counted and one that stands still starts the count again.            *)
(***************************************************************************)
CountMovement ==
    IF AlignEnabled /\ ~aligned /\ warmedUp'
      THEN moving' \in {0, MovingFrames}
      ELSE UNCHANGED moving

(***************************************************************************)
(* initializeLocalMapIfNeeded: the frame that finds no map builds it when  *)
(* it has enough points, and is not matched.                               *)
(***************************************************************************)
InitializeLocalMap ==
    /\ FilterRuns /\ WarmUp /\ CountMovement
    /\ ~mapBuilt /\ mapBuilt' \in BOOLEAN
    /\ UNCHANGED <<accepted, armed, aligned, directions, counter, outputs>>

TooFewFeatures ==
    /\ FilterRuns /\ WarmUp /\ CountMovement
    /\ mapBuilt
    /\ PublishIfAccepted
    /\ UNCHANGED <<mapBuilt, accepted, armed, aligned, directions, counter>>

\* Mutant: the jump into the aligned world is not announced.
CounterUnaligned == counter
CounterAligned == counter + 1

\* Mutant: one direction more than the alignment needs.
MoreThanEnough == directions > DirectionsNeeded
EnoughDirections == directions >= DirectionsNeeded

(***************************************************************************)
(* updateGravityAlignmentAfterLio.                                         *)
(***************************************************************************)
MayAlign == AlignEnabled /\ ~aligned /\ moving' > MovingThreshold
AlignAfterLio ==
    IF MayAlign /\ EnoughDirections
      THEN aligned' = TRUE /\ counter' = CounterAligned /\ UNCHANGED directions
      ELSE /\ directions' = IF MayAlign THEN directions + 1 ELSE directions
           /\ UNCHANGED <<aligned, counter>>

\* Mutant: an accepted frame is published before the alignment as well.
NeverWaits(a) == FALSE
WaitsForAlignment(a) == AlignEnabled /\ ~a

(***************************************************************************)
(* commitOdometryUpdate: the world is the one after the alignment.         *)
(***************************************************************************)
Commit ==
    /\ FilterRuns /\ WarmUp /\ CountMovement /\ AlignAfterLio
    /\ mapBuilt
    /\ accepted' = TRUE /\ armed' = TRUE
    /\ IF WaitsForAlignment(aligned')
         THEN UNCHANGED <<path, odometry>>
         ELSE path' = path \cup {World'} /\ odometry' = odometry \cup {World'}
    /\ UNCHANGED <<mapBuilt, predicted>>

\* Mutant: the counter goes back, the alignment of the frame stays.
AlignmentKept ==
    /\ UNCHANGED <<moving, directions, counter>>
    /\ aligned' = (aligned \/ (AlignEnabled /\ moving > MovingThreshold
                                /\ EnoughDirections))
AlignmentRestored == UNCHANGED alignment

\* Mutant: the frame is published before its alignment is undone.
WorldBeforeRestore ==
    [World EXCEPT !.rotated =
        @ \/ (AlignEnabled /\ moving > MovingThreshold /\ EnoughDirections)]
WorldAfterRestore == World

(***************************************************************************)
(* rejectMotionFrame, restorePropagatedFrame: a correction that is not     *)
(* finite, or that the gate refuses.  What the frame did to the alignment  *)
(* is undone before anything is published.                                 *)
(***************************************************************************)
Reject ==
    /\ FilterRuns /\ WarmUp
    /\ mapBuilt
    /\ AlignmentRestored
    /\ armed' = TRUE
    /\ PublishPropagated(WorldAfterRestore)
    /\ UNCHANGED <<mapBuilt, accepted>>

NextFrame ==
    \/ Reset \/ Predict \/ FirstScan \/ Initialize
    \/ RollBack \/ NoPoints \/ InitializeLocalMap \/ TooFewFeatures \/ Commit \/ Reject

LifeSpec == InitLife /\ [][NextFrame]_life

-----------------------------------------------------------------------------
(***************************************************************************)
(* The types; no more directions are kept than the alignment averages.     *)
(***************************************************************************)
TypeOK ==
    /\ started \in BOOLEAN /\ warmedUp \in BOOLEAN
    /\ imuInitialized \in BOOLEAN /\ warmPrior \in BOOLEAN /\ flown \in BOOLEAN
    /\ mapBuilt \in BOOLEAN /\ accepted \in BOOLEAN
    /\ armed \in BOOLEAN /\ aligned \in BOOLEAN
    /\ moving \in 0 .. MovingThreshold + 1
    /\ directions \in 0 .. DirectionsNeeded
    /\ counter \in Nat
    /\ resets \in 0 .. MaxResets
    /\ path \subseteq Worlds
    /\ odometry \subseteq Worlds
    /\ predicted \subseteq [counter : Nat, world : Worlds]

(***************************************************************************)
(* spark_fast_lio.cpp:484-487, on bursts of resets: once the filter has    *)
(* been initialized, a filter that is not has a prior to start from, so a  *)
(* reset in flight never has to wait for the sensor to keep still.         *)
(***************************************************************************)
WarmAfterFlight == flown /\ ~imuInitialized => warmPrior

(***************************************************************************)
(* The reset counter names the world of a prediction: of two predictions   *)
(* with the same counter, however far apart, PX4 may take the difference   *)
(* for motion.  Rejected frames may complete an alignment and undo it.     *)
(***************************************************************************)
CounterNamesWorld ==
    \A p, q \in predicted : p.counter = q.counter => p.world = q.world

(***************************************************************************)
(* The path never mixes poses of two worlds: of before and after the       *)
(* alignment, or of before and after a reset.                              *)
(***************************************************************************)
PathInOneWorld == \A w \in path : w = World

(***************************************************************************)
(* A world once shown is not taken back: after odometry with the gravity   *)
(* rotation none without it follows until the next reset, although frames  *)
(* may complete an alignment, be rejected, published and undone.           *)
(***************************************************************************)
AlignmentShownIsKept ==
    \A w \in odometry : w.anchor = resets /\ w.rotated => aligned
=============================================================================
