---------------------------- MODULE LidarImuSync ----------------------------
(***************************************************************************)
(* How SPARKFastLIO2 pairs LiDAR scans with IMU samples, carries the       *)
(* filter from one scan end to the next, and keeps the high-rate odometry  *)
(* it predicts from IMU samples in step with the filter                    *)
(* (spark_fast_lio: input_handler.cpp, the time-keeping of estimation.cpp  *)
(* and of imu_processor.cpp, resetEstimatorState of spark_fast_lio.cpp).   *)
(*                                                                         *)
(* Time is an integer number of ticks.  A filter is represented by the     *)
(* instant its state stands for: a prediction step of length d moves it by *)
(* d, a LiDAR correction puts it at the end of the scan.  The node has one *)
(* executor thread, so a callback runs to its end before the next one:     *)
(* phase says how far the running callback has come.                       *)
(***************************************************************************)
EXTENDS Integers, SequencesExt

CONSTANTS ImuCapacity,    \* imu_buffer_capacity_
          LidarCapacity,  \* lidar_buffer_capacity_
          MaxGap,         \* max_imu_gap_
          MaxSpan,        \* bound: the longest scan
          MaxTime,        \* bound: stamps and scan ends are in 1..MaxTime
          MaxResets       \* bound: how often a stamp may move backwards

ASSUME SyncAssumption ==
    /\ {ImuCapacity, LidarCapacity, MaxGap} \subseteq Nat \ {0}
    /\ {MaxSpan, MaxTime, MaxResets} \subseteq Nat

VARIABLES
    onCallback,   \* process_on_callback_: replay synchronises in the callbacks
    lidarBuffer,  \* begin stamps of the buffered scans, oldest first
    imuBuffer,    \* stamps of the buffered IMU samples
    predBuffer,   \* imu_prediction_buffer_: samples not yet predicted from
    lastLidar,    \* last_lidar_timestamp_, NoTime when there is none
    lastImu,      \* last_imu_timestamp_, kept by a reset
    hasLastImu,   \* has_last_imu_timestamp_
    pending,      \* the scan taken from the buffer that waits for IMU data
    consumed,     \* last_consumed_imu_time_
    started,      \* has_lidar_start_time_
    initialized,  \* ImuProcessor::is_initialized_
    cursor,       \* ImuProcessor's last_imu_ stamp and last_lidar_end_time_
    mapBuilt,     \* ikd_tree_ has points
    kf,           \* the instant the state of kf_ stands for
    step,         \* history: the longest IMU step of the latest frame
    restored,     \* history: the cursor was rolled back and not moved since
    pred,         \* the prediction filter, see Disarmed
    frame,        \* measures_: the scan and the IMU samples under processing
    phase,        \* how far the running callback has come
    resets        \* odom_reset_counter_ as far as resets advance it

core == <<pending, consumed, started, initialized, cursor, mapBuilt, kf, step,
          restored, resets>>
buffers == <<lidarBuffer, imuBuffer, predBuffer>>
stamps == <<lastLidar, lastImu, hasLastImu>>
vars == <<onCallback, buffers, stamps, core, pred, frame, phase>>

NoTime == -1
NoScan == [beg |-> NoTime, end |-> NoTime]
NoFrame == [imu |-> <<>>, end |-> NoTime]
Stamps == 1 .. MaxTime
Times == Stamps \cup {NoTime}
Scans == {s \in [beg : Stamps, end : Stamps] :
             s.beg <= s.end /\ s.end - s.beg <= MaxSpan}

-----------------------------------------------------------------------------
(***************************************************************************)
(* kf_for_preintegration_ with the queue and the time it integrates from:  *)
(* the instant the state stands for, the stamp of the sample left in       *)
(* imu_integration_queue_, imu_prediction_state_time_, and the stamp last  *)
(* published since the latest reset.                                       *)
(***************************************************************************)
Disarmed == [armed |-> FALSE, at |-> NoTime, head |-> NoTime, from |-> NoTime,
             sent |-> NoTime]

\* Mutant: a buffer without a capacity.
PushUnbounded(buffer, capacity, x) == Append(buffer, x)

(***************************************************************************)
(* A boost::circular_buffer drops its oldest element when it is full.      *)
(***************************************************************************)
Push(buffer, capacity, x) ==
    Append(IF Len(buffer) = capacity THEN Tail(buffer) ELSE buffer, x)

(***************************************************************************)
(* The loops that take from the front of a buffer stop at the first stamp  *)
(* beyond end.                                                             *)
(***************************************************************************)
Passed(s, end) ==
    CHOOSE n \in 0 .. Len(s) : /\ \A i \in 1 .. n : s[i] <= end
                               /\ n < Len(s) => s[n + 1] > end
UpTo(s, end) == SubSeq(s, 1, Passed(s, end))
Beyond(s, end) == SubSeq(s, Passed(s, end) + 1, Len(s))

(***************************************************************************)
(* integrateIMU: the state moves from its own time, or from the sample     *)
(* before when that time is not kept, to the new sample, and the result is *)
(* published with the stamp of the sample.                                 *)
(***************************************************************************)
Integrate(p, s) ==
    LET d == s - (IF p.from # NoTime THEN p.from ELSE p.head)
    IN  IF p.head = NoTime \/ d <= 0 \/ d > MaxGap
          THEN [p EXCEPT !.head = s]
          ELSE [p EXCEPT !.at = @ + d, !.head = s, !.sent = s,
                         !.from = IF @ # NoTime THEN s ELSE @]

\* Mutant: the state is taken to stand for the last sample of the frame.
RearmedAtSample(at, c) ==
    IF onCallback
      THEN [pred EXCEPT !.armed = TRUE, !.at = at, !.head = c.imu, !.from = c.imu]
      ELSE [pred EXCEPT !.armed = TRUE, !.at = at]

(***************************************************************************)
(* kf_for_preintegration_ = kf_, and, in replay, resetImuPrediction with   *)
(* the given cursor.  Live, the queue keeps the sample it has.             *)
(***************************************************************************)
Rearmed(at, c) ==
    IF onCallback
      THEN [pred EXCEPT !.armed = TRUE, !.at = at, !.head = c.imu, !.from = c.end]
      ELSE [pred EXCEPT !.armed = TRUE, !.at = at]

(***************************************************************************)
(* The largest gap between neighbouring samples of a frame, the last       *)
(* sample consumed before it and the end of the scan included.             *)
(***************************************************************************)
Gaps(s) == {s[i + 1] - s[i] : i \in 1 .. Len(s) - 1}
\* Mutant: the gap from the frame before is not looked at.
LargestGapInFrame(imu, end) == Max(Gaps(imu \o <<end>>) \cup {0})
LargestGap(imu, end) ==
    LET before == IF consumed = NoTime THEN <<>> ELSE <<consumed>>
    IN  Max(Gaps(before \o imu \o <<end>>) \cup {0})

(***************************************************************************)
(* undistortPointCloud: from the sample before the frame to its last one,  *)
(* each step cut at the end of the scan before, then on to the scan end.   *)
(***************************************************************************)
\* Mutant: a step is not cut at the end of the scan before.
StepStartUncut(head) == head
StepStart(head) == Max({head, cursor.end})
FrameSteps ==
    LET path == <<cursor.imu>> \o frame.imu
        used == {i \in 1 .. Len(frame.imu) : path[i + 1] >= cursor.end}
    IN  [i \in used |-> path[i + 1] - StepStart(path[i])]
TailStep == frame.end - Last(frame.imu)
Propagated ==
    IF DOMAIN FrameSteps = {} THEN kf
    ELSE kf + MapThenSumSet(LAMBDA i : FrameSteps[i], DOMAIN FrameSteps) + TailStep
LongestStep == Max({FrameSteps[i] : i \in DOMAIN FrameSteps} \cup {TailStep})
FrameCursor == [imu |-> Last(frame.imu), end |-> frame.end]

-----------------------------------------------------------------------------
\* Mutant: a reset that the reset counter does not show.
ResetCoreUncounted ==
    /\ resets < MaxResets
    /\ resets' = resets
    /\ pending' = NoScan /\ consumed' = NoTime
    /\ started' = FALSE /\ initialized' = FALSE /\ mapBuilt' = FALSE
    /\ cursor' = [imu |-> NoTime, end |-> NoTime] /\ kf' = NoTime
    /\ step' = 0 /\ restored' = FALSE

(***************************************************************************)
(* resetEstimatorState(kWarmRecovery), but for the buffers, the stamps and *)
(* the prediction, which the callbacks below give their next value.        *)
(***************************************************************************)
ResetCore ==
    /\ resets < MaxResets
    /\ resets' = resets + 1
    /\ pending' = NoScan /\ consumed' = NoTime
    /\ started' = FALSE /\ initialized' = FALSE /\ mapBuilt' = FALSE
    /\ cursor' = [imu |-> NoTime, end |-> NoTime] /\ kf' = NoTime
    /\ step' = 0 /\ restored' = FALSE

AfterCallback == phase' = IF onCallback THEN "sync" ELSE "idle"

ReceiveScan(b) ==
    /\ phase = "idle"
    /\ lastLidar' = b
    /\ IF lastLidar # NoTime /\ b < lastLidar
         THEN /\ ResetCore
              /\ lidarBuffer' = <<b>> /\ imuBuffer' = <<>> /\ predBuffer' = <<>>
              /\ pred' = Disarmed /\ hasLastImu' = FALSE
         ELSE /\ lidarBuffer' = Push(lidarBuffer, LidarCapacity, b)
              /\ UNCHANGED <<core, imuBuffer, predBuffer, pred, hasLastImu>>
    /\ AfterCallback
    /\ UNCHANGED <<onCallback, lastImu, frame>>

ReceiveImu(s) ==
    /\ phase = "idle"
    /\ lastImu' = s /\ hasLastImu' = TRUE
    /\ IF hasLastImu /\ s < lastImu
         THEN /\ ResetCore
              /\ lidarBuffer' = <<>> /\ imuBuffer' = <<s>>
              /\ predBuffer' = IF onCallback THEN <<s>> ELSE <<>>
              /\ pred' = Disarmed /\ lastLidar' = NoTime
         ELSE /\ imuBuffer' = Push(imuBuffer, ImuCapacity, s)
              /\ predBuffer' = IF onCallback THEN Push(predBuffer, ImuCapacity, s)
                                             ELSE predBuffer
              /\ pred' = IF ~onCallback /\ pred.armed THEN Integrate(pred, s)
                                                      ELSE pred
              /\ UNCHANGED <<core, lidarBuffer, lastLidar>>
    /\ AfterCallback
    /\ UNCHANGED <<onCallback, frame>>

(***************************************************************************)
(* main_loop_timer_: live, a timer starts the synchronisation.             *)
(***************************************************************************)
TimerFires ==
    /\ phase = "idle" /\ ~onCallback
    /\ phase' = "sync"
    /\ UNCHANGED <<onCallback, buffers, stamps, core, pred, frame>>

-----------------------------------------------------------------------------
(***************************************************************************)
(* syncPackages, one round of the loop of processPendingMeasurements.      *)
(***************************************************************************)
WaitForInput ==
    /\ phase = "sync"
    /\ (pending = NoScan /\ lidarBuffer = <<>>) \/ imuBuffer = <<>>
    /\ phase' = "idle"
    /\ UNCHANGED <<onCallback, buffers, stamps, core, pred, frame>>

(***************************************************************************)
(* The end of a scan comes from its point times or, when they are missing  *)
(* or too short, from the mean duration of the scans before.               *)
(***************************************************************************)
TakeScan ==
    /\ phase = "sync" /\ pending = NoScan
    /\ lidarBuffer # <<>> /\ imuBuffer # <<>>
    /\ pending' \in {s \in Scans : s.beg = Head(lidarBuffer)}
    /\ lidarBuffer' = Tail(lidarBuffer)
    /\ UNCHANGED <<onCallback, imuBuffer, predBuffer, stamps, consumed, started,
                   initialized, cursor, mapBuilt, kf, step, restored, resets, pred,
                   frame, phase>>

ScanInHand == phase = "sync" /\ pending # NoScan /\ imuBuffer # <<>>
\* Mutant: a sample at the very end of the scan is not enough.
ImuPassed == lastImu > pending.end
ImuArrived == lastImu >= pending.end

WaitForImu ==
    /\ ScanInHand /\ ~ImuArrived
    /\ phase' = "idle"
    /\ UNCHANGED <<onCallback, buffers, stamps, core, pred, frame>>

(***************************************************************************)
(* No sample up to the end of the scan: the scan is dropped, the cursor    *)
(* and the last consumed sample stay where they are.                       *)
(***************************************************************************)
SkipUncovered ==
    /\ ScanInHand /\ ImuArrived
    /\ UpTo(imuBuffer, pending.end) = <<>>
    /\ pending' = NoScan
    /\ phase' = "idle"
    /\ UNCHANGED <<onCallback, buffers, stamps, consumed, started, initialized,
                   cursor, mapBuilt, kf, step, restored, resets, pred, frame>>

Consume(imu) ==
    /\ imu # <<>>
    /\ imuBuffer' = Beyond(imuBuffer, pending.end)
    /\ consumed' = Last(imu)
    /\ pending' = NoScan

(***************************************************************************)
(* A gap too long to de-skew the scan: ImuProcessor::skipLidarFrame moves  *)
(* the cursor over the frame and leaves the filter alone.                  *)
(***************************************************************************)
SkipGap ==
    LET imu == UpTo(imuBuffer, pending.end) IN
    /\ ScanInHand /\ ImuArrived /\ Consume(imu)
    /\ LargestGap(imu, pending.end) > MaxGap
    /\ cursor' = [imu |-> Last(imu), end |-> pending.end]
    /\ restored' = FALSE
    /\ phase' = "idle"
    /\ UNCHANGED <<onCallback, lidarBuffer, predBuffer, stamps, started, initialized,
                   mapBuilt, kf, step, resets, pred, frame>>

Release ==
    LET imu == UpTo(imuBuffer, pending.end) IN
    /\ ScanInHand /\ ImuArrived /\ Consume(imu)
    /\ LargestGap(imu, pending.end) <= MaxGap
    /\ frame' = [imu |-> imu, end |-> pending.end]
    /\ phase' = IF onCallback THEN "predict" ELSE "process"
    /\ UNCHANGED <<onCallback, lidarBuffer, predBuffer, stamps, started, initialized,
                   cursor, mapBuilt, kf, step, restored, resets, pred>>

(***************************************************************************)
(* publishImuPredictionsUpTo the end of the frame, one sample at a time.   *)
(***************************************************************************)
\* Mutant: the sample at the end of the scan is left for after the correction.
PredictionDueBefore == predBuffer # <<>> /\ Head(predBuffer) < frame.end
PredictionDue == predBuffer # <<>> /\ Head(predBuffer) <= frame.end

Predict ==
    /\ phase = "predict" /\ PredictionDue
    /\ predBuffer' = Tail(predBuffer)
    /\ pred' = IF ~pred.armed \/ Head(predBuffer) <= pred.from
                 THEN pred ELSE Integrate(pred, Head(predBuffer))
    /\ UNCHANGED <<onCallback, lidarBuffer, imuBuffer, stamps, core, frame, phase>>

PredictionsDone ==
    /\ phase = "predict" /\ ~PredictionDue
    /\ phase' = "process"
    /\ UNCHANGED <<onCallback, buffers, stamps, core, pred, frame>>

-----------------------------------------------------------------------------
(***************************************************************************)
(* processLidarAndImu, by its outcome; the loop then synchronises again.   *)
(* frame is empty between two frames: nothing reads measures_ then.        *)
(***************************************************************************)
FrameDone == phase' = "sync" /\ frame' = NoFrame

FirstScan ==
    /\ phase = "process" /\ ~started
    /\ started' = TRUE
    /\ FrameDone
    /\ UNCHANGED <<onCallback, buffers, stamps, pending, consumed, initialized,
                   cursor, mapBuilt, kf, step, restored, resets, pred>>

(***************************************************************************)
(* initializeImu collects samples until it can initialize the filter; with *)
(* a warm start prior one frame is enough.  The frame that completes it is *)
(* not matched.                                                            *)
(***************************************************************************)
Initialize(done) ==
    /\ phase = "process" /\ started /\ ~initialized
    /\ initialized' = done
    /\ cursor' = IF done THEN FrameCursor ELSE [cursor EXCEPT !.imu = Last(frame.imu)]
    /\ kf' = IF done THEN frame.end ELSE kf
    /\ FrameDone
    /\ UNCHANGED <<onCallback, buffers, stamps, pending, consumed, started, mapBuilt,
                   step, restored, resets, pred>>

FrameProcessed ==
    /\ phase = "process" /\ started /\ initialized
    /\ FrameDone
    /\ UNCHANGED <<onCallback, lidarBuffer, imuBuffer, stamps, pending, consumed,
                   started, initialized, resets>>

Propagate ==
    /\ cursor' = FrameCursor /\ step' = LongestStep /\ restored' = FALSE

Rearm(at, c) ==
    /\ pred' = Rearmed(at, c)
    /\ predBuffer' = IF onCallback THEN Beyond(predBuffer, c.end) ELSE predBuffer

(***************************************************************************)
(* Too few points to match, or the frame that builds the map.              *)
(***************************************************************************)
NoUpdate ==
    /\ FrameProcessed /\ Propagate
    /\ kf' = Propagated
    /\ mapBuilt' \in {mapBuilt, TRUE}
    /\ UNCHANGED <<pred, predBuffer>>

(***************************************************************************)
(* commitOdometryUpdate.                                                   *)
(***************************************************************************)
Commit ==
    /\ FrameProcessed /\ Propagate /\ mapBuilt
    /\ kf' = frame.end
    /\ UNCHANGED mapBuilt
    /\ Rearm(frame.end, FrameCursor)

(***************************************************************************)
(* rejectMotionFrame, restorePropagatedFrame: a rejected or non-finite     *)
(* correction keeps the propagation.                                       *)
(***************************************************************************)
Reject ==
    /\ FrameProcessed /\ Propagate /\ mapBuilt
    /\ kf' = Propagated
    /\ UNCHANGED mapBuilt
    /\ Rearm(Propagated, FrameCursor)

(***************************************************************************)
(* restorePrePropagationFrame: finite samples large enough to overflow the *)
(* propagation.  The filter and the cursor go back; the samples are gone   *)
(* and last_consumed_imu_time_ stays.                                      *)
(***************************************************************************)
RollBack ==
    /\ FrameProcessed
    /\ step' = 0 /\ restored' = TRUE
    /\ Rearm(kf, cursor)
    /\ UNCHANGED <<kf, cursor, mapBuilt>>

-----------------------------------------------------------------------------
Init ==
    /\ onCallback \in BOOLEAN
    /\ lidarBuffer = <<>> /\ imuBuffer = <<>> /\ predBuffer = <<>>
    /\ lastLidar = NoTime /\ lastImu = NoTime /\ hasLastImu = FALSE
    /\ pending = NoScan /\ consumed = NoTime
    /\ started = FALSE /\ initialized = FALSE /\ mapBuilt = FALSE
    /\ cursor = [imu |-> NoTime, end |-> NoTime] /\ kf = NoTime
    /\ step = 0 /\ restored = FALSE
    /\ pred = Disarmed
    /\ frame = NoFrame
    /\ phase = "idle"
    /\ resets = 0

Synchronize ==
    \/ WaitForInput \/ TakeScan \/ WaitForImu
    \/ SkipUncovered \/ SkipGap \/ Release
    \/ Predict \/ PredictionsDone
Process ==
    \/ FirstScan
    \/ \E done \in BOOLEAN : Initialize(done)
    \/ NoUpdate \/ Commit \/ Reject \/ RollBack

Next ==
    \/ \E t \in Stamps : ReceiveScan(t) \/ ReceiveImu(t)
    \/ TimerFires
    \/ Synchronize
    \/ Process

Spec == Init /\ [][Next]_vars

(***************************************************************************)
(* A callback that runs comes to its end, and the timer keeps firing.      *)
(* Nothing makes a sensor send.                                            *)
(***************************************************************************)
FairSpec == Spec /\ WF_vars(Synchronize \/ Process) /\ WF_vars(TimerFires)

-----------------------------------------------------------------------------
(***************************************************************************)
(* The types; the buffers of input_handler.cpp never exceed their          *)
(* capacity.                                                               *)
(***************************************************************************)
TypeOK ==
    /\ onCallback \in BOOLEAN /\ hasLastImu \in BOOLEAN
    /\ {started, initialized, mapBuilt, restored} \subseteq BOOLEAN
    /\ lidarBuffer \in Seq(Stamps) /\ Len(lidarBuffer) <= LidarCapacity
    /\ imuBuffer \in Seq(Stamps) /\ Len(imuBuffer) <= ImuCapacity
    /\ predBuffer \in Seq(Stamps) /\ Len(predBuffer) <= ImuCapacity
    /\ {lastLidar, lastImu, consumed, kf} \subseteq Times
    /\ pending \in Scans \cup {NoScan}
    /\ cursor \in [imu : Times, end : Times]
    /\ step \in 0 .. MaxTime
    /\ pred \in [armed : BOOLEAN, at : Times, head : Times, from : Times, sent : Times]
    /\ frame.imu \in Seq(Stamps) /\ Len(frame.imu) <= ImuCapacity
    /\ frame.end \in Times
    /\ phase \in {"idle", "sync", "predict", "process"}
    /\ resets \in 0 .. MaxResets

(***************************************************************************)
(* How far the filter is behind the end of the latest frame: what frames   *)
(* skipped for an IMU gap left out (skipLidarFrame), and nothing else.     *)
(***************************************************************************)
Lag == cursor.end - kf

(***************************************************************************)
(* undistortPointCloud covers the time from the last scan end to this one  *)
(* exactly once, whatever was skipped, rejected, rolled back or dropped by *)
(* a full buffer before: a frame leaves the lag as it was, or a correction *)
(* removes it.  A span counted twice or left out would show as a lag.      *)
(***************************************************************************)
PropagationContiguous ==
    [][initialized /\ initialized' /\ kf' # kf => Lag' \in {Lag, 0} /\ Lag' >= 0]_vars

(***************************************************************************)
(* The gap check of syncPackages guards every step undistortPointCloud     *)
(* takes: no frame is de-skewed over more than max_imu_gap_, though the    *)
(* check measures from last_consumed_imu_time_ and the propagation starts  *)
(* at ImuProcessor::last_imu_.  A frame after a roll-back is the exception *)
(* (StepWithinGap).                                                        *)
(***************************************************************************)
StepWithinGapUnlessRolledBack ==
    [][phase = "process" /\ initialized /\ ~restored => step' <= MaxGap]_vars

(***************************************************************************)
(* spark_fast_lio.cpp:292: "the longest IMU gap that can still support     *)
(* reliable scan de-skewing": no frame is de-skewed over a longer step.    *)
(***************************************************************************)
StepWithinGap == step <= MaxGap

(***************************************************************************)
(* In replay the time the prediction integrates from                       *)
(* (imu_prediction_state_time_) is the time its state stands for, up to    *)
(* the lag of the filter it was taken from.                                *)
(***************************************************************************)
PredictionCurrent ==
    onCallback /\ pred.armed => pred.from - pred.at \in 0 .. Lag

(***************************************************************************)
(* Between two advances of the reset counter the stamps of the predicted   *)
(* odometry never go back, over corrections, rejections and roll-backs:    *)
(* what the PX4 bridge takes as a reset when it is not so.                 *)
(***************************************************************************)
PredictionsForward ==
    [][resets' = resets /\ pred'.sent # pred.sent => pred'.sent > pred.sent]_vars

(***************************************************************************)
(* input_handler.cpp:130: in replay a frame is corrected only after every  *)
(* sample of its interval was predicted from, and before any later one, in *)
(* whatever order the callbacks ran.                                       *)
(***************************************************************************)
CorrectionAfterItsPredictions ==
    onCallback /\ phase = "process" =>
        /\ pred.sent <= frame.end
        /\ \A i \in DOMAIN predBuffer : predBuffer[i] > frame.end

(***************************************************************************)
(* spark_fast_lio.cpp:489: "kf_for_preintegration_ stays current during    *)
(* rejected or missing LiDAR frames".  Live, and without a roll-back, the  *)
(* state never stands for an earlier instant than the stamp of the         *)
(* prediction published last.                                              *)
(***************************************************************************)
PredictionStaysCurrent ==
    ~onCallback /\ ~restored /\ pred.armed => pred.at >= pred.sent

(***************************************************************************)
(* A scan that waits for IMU data is served, or dropped by a reset, once   *)
(* the data has come.                                                      *)
(***************************************************************************)
ScanServed ==
    pending # NoScan /\ lastImu >= pending.end ~> pending = NoScan
=============================================================================
