# A TLA+ verification project for S-SLAM

S-SLAM is a LiDAR–inertial SLAM system in C++ and ROS 2. A front end
(`spark_fast_lio`) estimates odometry from LiDAR scans and IMU samples, a back
end (`kiss_matcher_ros`) turns it into a pose graph and corrects it when a loop
closes, and a bridge (`s_slam_px4_bridge`) forwards odometry to a PX4 flight
controller. Paths below are relative to `src/s_slam_core/` unless they start
with `src/`.

This directory holds TLA+ models of the parts of the system whose difficulty is
control (threads, locks, queues, resets, restarts), the TLC configurations that
check them on small instances, and TLAPS proofs of the properties that matter
most for every value of the constants.

    cd tla
    tlc -config BackendSafety.cfg MCPoseGraphManager
    tlapm PoseGraphManager_proofs.tla

## 1. The system

### 1.1 Components

| Component | Code | State | Operations |
|---|---|---|---|
| LIO front end, input | `spark_fast_lio/src/input_handler.cpp` | ring buffers of scans, scan times and IMU samples; `lidar_pushed_`; IMU prediction (`state_imu_prediction_`, its time, the last sample) | scan callback, IMU callback, `processPendingMeasurements`, `syncPackages`, `integrateIMU`, `resetImuPrediction` |
| LIO front end, estimator | `spark_fast_lio/src/{estimation,spark_fast_lio}.cpp`, `data_processors/imu_processor.cpp` | ESKF state, IMU initialisation, warm-start prior, gravity alignment, rejection counters, `odom_reset_counter_` | process one scan (initialise, undistort, update, accept, reject, roll back, commit), warm and cold reset |
| LIO front end, map | `spark_fast_lio/src/{mapping,estimation}.cpp` | ikd-tree, box of the local map, the matching of the frame | build, match in iterations, move the box, insert points |
| Back end | `kiss_matcher/src/slam/pose_graph_manager.cpp` | keyframes, factor graph and iSAM2, real-time pose, candidate queue, correction flags, map and path | `callbackNode`, two loop searches, `performRegistration`, `buildMap`, `visualizePoseGraph`, `saveFlagCallback` |
| Candidate queue | `kiss_matcher/include/slam/loop_candidate_queue.hpp` | bounded deque | `enqueue`, `tryPop`, `takeAll` |
| Loop selection and registration | `kiss_matcher/src/slam/loop_{closure,detector}.cpp` | the matcher, its solver, and the clouds of the last registration | pick candidates, align coarse to fine, accept or reject |
| Inter-frame aligner | `kiss_matcher/src/slam/inter_frame_alignment.cpp` | two maps, their stamps and update flags, the transform between them | two map callbacks, alignment timer, TF timer |
| PX4 bridge | `s_slam_px4_bridge/src/*.cpp` | rate selector, held-back sample, reset counter | `handleOdometry`, `convert` |
| Adapters, preprocessing | `spark_fast_lio/src/adapters/*`, `data_processors/lidar_processor.cpp` | member clouds and line buffers, scan window | convert vendor clouds, filter, extract features |
| Registration numerics | `kiss_matcher/src/*.cpp` | buffers of features and matches that are reused | features, matching, robust solver |
| Replay | `src/s_slam_replay/run.py` | run directory, lock, child processes | start, watch, terminate, report |

### 1.2 How they interact

The front end publishes odometry and a deskewed cloud per scan; the back end
subscribes to both with a synchroniser and feeds nothing back. Inside the back
end three mutually exclusive callback groups run at the same time on a
`MultiThreadedExecutor`:

- the default group: `callbackNode` (one frame of odometry), `buildMap`,
  `visualizePoseGraph`, saving;
- the loop search group: `detectLoopClosureByLoopDetector` and
  `detectLoopClosureByNNSearch`, which put candidates into the queue;
- the registration group: `performRegistration`, which takes candidates out,
  aligns them, and applies an accepted loop to the graph.

They share the keyframes, the graph, the real-time pose, the queue and the
outputs under seven mutexes and two atomic flags. The front end also publishes a
state at IMU rate for the PX4 bridge, stamped with a reset counter which says
that the public world frame has changed; the bridge thins it out to the target
rate.

### 1.3 What is hard, and what makes each component correct

- **Back end.** A loop correction moves all poses while the other groups
  compute with them. It is correct when no pose or candidate of an old
  trajectory meets the new one, when every derived pose absorbs every accepted
  loop (whichever thread happens to run iSAM2 on it), when searches are blocked
  while a correction runs and never for good, and when no output stays stale unnoticed.
- **Queue.** Bounded, filled by whole batches, emptied by a correction while a
  search is about to fill it. A query that found it full must be retried.
- **Locks.** Nested in different orders in different callbacks: no deadlock.
- **PX4 bridge.** Holds one sample back to publish the nearest one. It is
  correct when it keeps to the rate without losing any of it, moves forward in
  time, and announces every jump, over resets and restarts of either process.
- **Front end, input.** Two streams that arrive out of step into rings which
  overwrite; a scan may wait only for samples that can still come.
- **Front end, estimator.** A scan passes through some twenty steps, several of
  which undo earlier ones; resets keep some state and drop other.

- **Front end, map.** Deletes boxes of points as the window moves, on several
  axes and by any distance, and matches with vectors that outlive the frame.
- **Preprocessing.** Five drivers with different ideas of time, member clouds that
  are reused, four index-chasing passes over every scan line.
- **Registration.** Threads that share bit vectors and tables, and objects that
  live from one registration to the next while early returns leave them half
  updated. An accepted alignment has to be of this pair of clouds.
- **Aligner.** Flags and stamps of two maps that come at different times.

`PROJECT.json` lists each of these hazards with its line in the code and the
properties that cover it.

## 2. The modules

| Module | Models | Uses |
|---|---|---|
| `PoseGraphManager` | the back end: every critical section of the three callback groups | |
| `LoopCorrection` | abstract specification: what the loop-closure machinery promises | |
| `BackendOutputs` | the accumulated map and the corrected path | extends `PoseGraphManager` |
| `BackendLocks` | the seven mutexes and the lock scopes of every callback | |
| `Px4Bridge` | `handleOdometry` and `SampleRateSelector` with the front end's reset counter | |
| `LidarImuSync` | the sensor callbacks and buffers of the front end, `syncPackages`, how far the filter and the IMU prediction have been carried in time | |
| `EstimatorLifecycle` | what a frame may do to the estimator: initialisation, map, verdicts, gravity alignment, reset, and the reset counter | |
| `LocalMap` | building, matching against, moving and extending the local map | |
| `SensorAdapters` | operators: what the adapters hand on, and the time window of a scan | |
| `FeatureExtraction` | the four passes over one scan line | extends `SensorAdapters` |
| `LidarProcessor` | `process` for the five `PointCloud2` drivers, message after message | extends `FeatureExtraction` |
| `FeatureMatching` | `KISSMatcher::match`: features and matching with their threads | |
| `LoopRegistration` | one `LoopClosure` object: coarse alignment, solver, ICP | |
| `InterFrameAligner` | the nodes that drive it: back end or inter-frame aligner | extends `LoopRegistration` |
| `MCPoseGraphManager`, `MCBackendOutputs`, `MCFeatureMatching`, `MCLidarProcessor` | values of the constants for TLC | |
| `PoseGraphManager_proofs` | theorems about the back end, its outputs and its locks | extends `BackendOutputs`, `BackendLocks` |
| `LioEstimator_proofs` | theorems about the estimator's life cycle and the local map | extends `EstimatorLifecycle`, `LocalMap` |
| `Px4Bridge_proofs`, `LidarImuSync_proofs`, `LidarProcessor_proofs`, `FeatureMatching_proofs`, `InterFrameAligner_proofs` | theorems about the other components | |
| `NumberLemmas` | lemmas about numbers, finite sums and folds that several of them use | |

### 2.1 PoseGraphManager

**One action is one critical section.** A callback is a program counter `pc[t]`
that walks through its `lock_guard` scopes; between two scopes any other group
may step. `graph_mutex_` is the only mutex held over several actions (it nests
others), so it is a variable, `graphOwner`; `BackendLocks` shows that the other
sections nest nothing.

**A pose is the number of corrections it has absorbed**, its *epoch*. All the
code does with poses, as far as its control is concerned, is to compose them and
to replace them by the estimate of iSAM2; what can go wrong is that two poses of
different epochs are composed or shown together, and that is what an epoch
tells. `isam.epoch` grows when iSAM2 is updated with a loop factor. A keyframe
is the epoch of `pose_corrected_` and the set of search sources it is marked
processed for; a candidate is its query, its source and the epoch of the
trajectory it was chosen on. Clouds, scores and the identity of the match are
left out: registration accepts or rejects either way.

| Code | Actions |
|---|---|
| `callbackNode` | `ReceiveFrame`, `PushFirstKeyframe`, `AddPriorFactor`, `SkipFrame`, `AddKeyframe`, then `OptimizeGraph("callback")`, `RewriteKeyframes("callback")` |
| `detectLoopClosureBy...`, `loopSearchGeneration`, `hasAcceptedLoop`, `enqueueLoopCandidates` | `StartSearch`, `ReadHasAccepted`, `AbandonSearch`, `ClaimQuery`, `FetchCandidates`, `EnqueueCandidates`, `SettleSearch` |
| `performRegistration`, `beginLoopCorrection`, `startLoopSearchCooldown` | `PopCandidate`, `RejectLoop`, `AcceptLoop`, `BeginLoopCorrection`, `ResetSearches`, `AddLoopFactor`, `OptimizeGraph("registration")`, `RewriteKeyframes("registration")`, `StartLoopSearchCooldown` |
| the cooldown clock | `CooldownExpires` |

The loop detector is a plug-in; the repository has a stub that returns nothing.
`DetectorBatches` says how many pairs a plugged-in one may return.

### 2.2 LoopCorrection

Five atomic actions: offer a whole batch, take a candidate, reject it, begin a
correction, finish it. `PoseGraphManager` implements it under the mapping
`Protocol`: while a correction runs the trajectory still counts as the old one,
and the correction takes effect in the one step that marks it as over. Between
those two, the code needs up to eight critical sections of two threads.

### 2.3 BackendOutputs

Adds `map_cloud_`, `corrected_path_` and the flags `need_map_update_` and
`need_graph_vis_update_`. The timers of the default group run between the frames
(`DefaultGroupFree`) and at the same time as the registration, which sets the
flags after the correction, one after the other (`MarkMap`, `MarkGraph`).
`visualizePoseGraph` is three steps: consume the flag, copy the estimate, write
the path.

### 2.4 BackendLocks

A callback is a sequence of lock and unlock operations, one sequence for each
path that locks differently. All groups run all their programs against each
other. Its specification has names of its own (`LocksSpec`, `InitLocks`,
`NextLock`), as has that of `EstimatorLifecycle` (`LifeSpec`, `InitLife`,
`NextFrame`), so that one proof module can extend it together with another
component of the same process.

### 2.5 Px4Bridge

The bridge's members (`selector`, `previous`, `resetCounter`) and the messages it
handles. Its environment is the front end as the bridge sees it: a clock that
moves forward within one reset counter, a frame that changes together with the
counter, samples that are missed, a front-end process that restarts with counter
0, a bridge process that restarts empty. `rate` is a history variable: what has
been published since the selector started. `HandleOdometry` is one action,
because the node has a single-threaded executor. The numeric conversion between
coordinate frames is left out; `convert` refusing a sample is `MissSample`.

### 2.6 LidarImuSync

Time is an integer number of ticks and a filter is the instant its state stands
for: integrating an IMU step of length *d* moves it by *d*, a LiDAR correction
puts it at the end of the scan. This is enough to tell whether a span of time is
integrated twice, left out, or bridged although the gap check should have
refused it. `onCallback` is the parameter `process_on_callback_`: FALSE live
(predict at once, synchronise in a timer), TRUE in replay (predict up to the end
of a scan before it is corrected, synchronise in the callbacks).

The node has a single-threaded executor, so one callback runs at a time; `phase`
says how far it is, because `processPendingMeasurements` loops over several
frames and each iteration is a synchronisation and a processing step.

| Code | Actions |
|---|---|
| `standardLiDARCallback`, `imuCallback`, with the reset after a backward stamp | `ReceiveScan`, `ReceiveImu` |
| the processing timer | `TimerFires` |
| `syncPackages`, one action for each way out | `WaitForInput`, `TakeScan`, `ScanInHand`, `WaitForImu`, `SkipUncovered`, `SkipGap`, `Release` |
| `publishImuPredictionsUpTo`, `processPendingMeasurements` | `PredictionsDone`, `FrameDone` |
| `processLidarAndImu`, with the time-keeping of `undistortPointCloud` | `FirstScan`, `Initialize`, `NoUpdate`, `Commit`, `Reject`, `RollBack` |

Left out: point data, the hardware clock offset of Livox scanners (a build
option), and the configuration without IMU-rate output.

### 2.7 EstimatorLifecycle

A frame is one action: nothing is published inside a frame before its verdict,
and no other callback runs meanwhile. There is one action for each way a frame
can end. What decides between them (stillness, motion, number of matches, the
motion-quality gate) is computed from real numbers and is a choice here.

A *world* is the pair of the filter's anchor (a reset begins a new one) and
whether the gravity rotation is applied to what is published. The counter that
PX4 is sent is a natural number: the code's eight bits wrap after 256 jumps,
more than a receiver can miss. `moving` counts to one more than its threshold,
beyond which the code does not tell counts apart.

Two simplifications: `canSeedWarmRecovery` succeeds for one of the two states it
is asked about, since between two frames the filter is finite (every frame whose
state is not is rolled back before it ends); for the same reason the cold reset,
which is reached from a filter that is not finite before a frame, is not an
action.

### 2.8 LocalMap

A frame is matched against the tree in the iterations of the filter (`Iterate`),
and ends in a rejection (`RejectMotionFrame`) or moves the window
(`UpdateLocalMapWindow`) and inserts the scan (`InsertScanIntoMap`). The tree is
followed through a few of its points: that is enough for properties that speak of
each point on its own. Where the filter moves, what a search finds and whether a
plane fits are choices. `entered` remembers which points have been in the window:
the code also inserts points outside it, which are deleted only if a removed box
happens to cover them. `nearest_map_points_` is only resized between frames and
keeps what it held; it is the search of the first iteration, which always happens
because `converge` starts TRUE, that makes this harmless, and `EvidenceOfThisFrame`
rests on it.

### 2.9 SensorAdapters, FeatureExtraction, LidarProcessor

A message is a sequence of points of which the time, the ring and the *spot*
(finite, blind, at the rim, in the pilot zone) are kept, so that every filter and
every window is computed as in the code. A point of a cloud is the message it came
with and its index there: this is how a point of an earlier message would show.

| Code | Definitions |
|---|---|
| `findDominantTimestampWindow`, the conversions of the adapters | `FindTimestampWindow`, `ConvertStamped`, `ConvertVelodyne`, `ConvertOuster` |
| `process`, the handlers | `TakeMessage`, `RejectMessage`, `FilterCloud`, `FilterStamped`, `SplitIntoLines`, `NextLine`, `EmitLine`, `EndLines`, `Return` |
| `extractFeaturesFromScanLine` | `PlanePass`, `EndPlanePass`, `EdgePass`, `SmallPlanePass`, `SurfaceOfLine`, `CornersOfLine` |

Which segment is a plane or an edge is a choice within what the indices allow. The
plane pass may write one element past the end of a line
(`lidar_processor.cpp:655-663`): the model goes on, or ends in the pass
"undefined". What the code does in the corners is kept: Velodyne points without a
time are handed on, Ouster points with coordinates that are not finite pass the
range test, and the feature paths of Velodyne and RoboSense do not filter the pilot
zone. Left out: Livox messages (a build option), the parsing of message fields, and
Ouster's 32-bit difference of point times, which wraps when the first point is not
the earliest.

### 2.10 FeatureMatching

`match` on one matcher object, call after call. Both parallel loops are modelled
thread by thread: `std::vector<bool>` packs the validity flags into words, so
that a thread loads a word, changes its bit and stores it (`LoadWord`,
`StoreWord`), and two threads may lose an update; the model has one word for all
points, the worst case. In the matching a thread looks up its `j`'s nearest `i` and
searches back from `i` if nobody has (`SearchForward`, `SearchBack`).
Descriptors are numbers; which pairs ROBIN keeps is a choice (`robin_mode` is
"max_core" everywhere, so that the tuple test is not used). Without keypoints
`buildKDTree` reads the first element of an empty vector
(`ROBINMatching.cpp:450`): the model stops in the stage "undefined".

### 2.11 LoopRegistration, InterFrameAligner

`LoopRegistration` is the control of `coarseToFineAlignment`: `KISSMatcher::solve`,
`RobustRegistrationSolver::solve`, the graduated non-convexity loop, the truncated
least squares of each translation row, the verdicts, ICP. Each part of an answer is
represented by the number of the call that computed it. Weights and ICP's verdicts
are choices; the rows are computed by the sweep of `ScalarTLSEstimator::estimate`
over integers (`Consensuses`, `Cost`, `InliersOf`). `InterFrameAligner` adds the
two clients: the back end, which registers one pair after the other, and the
aligner with its callbacks and timers. Left out because the two clients do not use
them: `pruneAndSolve`, scale estimation, the tiled estimate, Quatro
(`use_quatro` is false at `loop_closure.cpp:10`).

## 3. The runs

| Run | Question | Properties | Distinct states |
|---|---|---|---|
| `backend_safety` | Do keyframes, graph, real-time pose and queue stay consistent in every interleaving, and is the abstract protocol implemented? | `CandidatesOnCurrentTrajectory`, `QueueDisciplined`, `OneWaitingSearch`, `CorrectionComplete`, `DeltaMatchesAnchor`, `KeysFollowKeyframes`, `CorrectionReachesAll`, `ImplementsLoopCorrection` | 567,900 |
| `backend_liveness` | Does every correction end, and every waiting query get its turn? | `CorrectionEnds`, `WaitingSearchResolved` | 21,140 |
| `backend_frame_mixing` | Are all keyframes in one frame when no correction runs? No. | `KeyframesShareFrame` | stops at the violation |
| `outputs` | Is every stale map or path marked for a redraw, and no keyframe lost from the path? | `StaleMapMarked`, `StalePathMarked`, `PathCoversKeyframes` | 2,092,808 |
| `backend_locks` | Can the callbacks deadlock? | `NoCircularWait` | 69,663 |
| `px4_bridge` | Rate, order and announcement of jumps, over resets, losses and restarts | `RateBounded`, `NoRateLoss`, `JumpsAnnounced`, `MovesForward` | 456,228 |
| `lio_input` | Is every span of time integrated once, no gap bridged unchecked, every waiting scan served, and does the prediction keep in step with the corrections, live and in replay? | `PredictionCurrent`, `CorrectionAfterItsPredictions`, `PropagationContiguous`, `StepWithinGapUnlessRolledBack`, `PredictionsForward`, `ScanServed` | 336,529 |
| `estimator` | Does a filter that flew always restart warm, does the counter name the world, do path and odometry keep to theirs? | `WarmAfterFlight`, `CounterNamesWorld`, `PathInOneWorld`, `AlignmentShownIsKept` | 150,810 |
| `features` | Are keypoints of their own cloud and matches mutual, whatever the threads do? | `KeypointsOfThisCloud`, `MatchesMutual` | 671,417 |
| `registration` | Is an accepted alignment of this call only, does a translation rest on inliers, is a pair of maps aligned once? | `AcceptedIsOfThisCall`, `TranslationSupported`, `AlignedOnce` | about 249,000 |
| `scan` | Is what leaves the preprocessing of this message, in range and within the scan's time, and is the surface thinned as promised? | `EmittedFromThisScan`, `DominantWindow`, `PointTimesMatchScan`, `SurfaceThinned` | 26,292 |
| `local_map` | Does the moving window delete all it leaves and nothing near the LiDAR, and is no frame matched with evidence of another? | `LeftPointsRemoved`, `SurroundingsKept`, `EvidenceOfThisFrame` | about 239,000 |

Each run takes between a few seconds and two minutes. The type invariants of the
modules are not repeated in the runs: they are proved (`TypeCorrect`,
`LocksTypeCorrect`), as is `LeafSectionsAtomic` of `BackendLocks` (the sections
that are one action of `PoseGraphManager` nest nothing; `SectionsAreAtomic`).

Every property of a passing run has a mutant in `PROJECT.json`: a changed
definition, such as a bug in that code would make it, under which TLC finds the
property violated in the same run.

### 3.1 Where code and documents disagree

The run `backend_frame_mixing` shows the one that reaches the map:

**Two trajectories in one graph.** `callbackNode` computes the corrected pose of
the new frame in `visualizeCurrentData`, before it takes `graph_mutex_`. When a
correction completes in between, the new keyframe has a pose of the old
trajectory, and the odometry factor that links it to its corrected predecessor
contains the jump of the correction. The error stays in the graph until another
loop bends it back. `kiss_matcher/README.md:27` promises an "accumulated
corrected map".

The others are stated as properties in their modules and have no run of their
own. To see the counterexample, put the property into a cfg with these constants.

| Property | Module, constants | What happens |
|---|---|---|
| `FullQueueRetried` | `MCPoseGraphManager`, `FairSpec`; `Capacity` 1, `MaxCandidates` 1, `DetectorBatches <- OnePair`, `MaxKeyframes` 3, `MaxCorrections` 1 | When the queue is full the code says it is "retrying the current query later" (`pose_graph_manager.cpp:692`). If a correction comes first, `beginLoopCorrection` drops the waiting query and only clears its processed mark; a search looks at the newest keyframe, so once there is one, nobody comes back to the query. |
| `NeverRepeatsOlder` | `Px4Bridge`, the cfg of `px4_bridge` with `MaxFrames` 1 | `handleOdometry` stores every sample in `previous_odometry_`, including one that the selector dropped as out of order. When the selector then picks "previous", the dropped sample is published. It takes samples whose stamps go back under the same counter: a front end restarted on a restarted clock. `s_slam_px4_bridge/README.md:13`: "never repeats an older sample to fill a sensor gap". |
| `PredictionStaysCurrent` | `LidarImuSync`, `Spec`; `ImuCapacity` 4, `LidarCapacity` 2, `MaxGap` 5, `MaxSpan` 1, `MaxTime` 5, `MaxResets` 0 | Live, a correction puts the prediction filter back to the end of the scan, while the next IMU sample is integrated from the newest sample already received. The span between is missing from the published state until the next correction. `spark_fast_lio.cpp:488-490` says the state "stays current", and relies on it for the prior of a warm reset. In replay `resetImuPrediction` does it right. |
| `StepWithinGap` | the same with `MaxGap` 2 | After a propagation that is not finite, `restorePrePropagationFrame` restores the cursor of the IMU processor but not `last_consumed_imu_time_`, where the next gap check starts. The next frame may integrate one step over the discarded span and the gap behind it. |
| `SourceTfForward` | `InterFrameAligner`, the cfg of `registration` | `publishTF` restarts its clock whenever either map comes anew (`inter_frame_alignment.cpp:213-217`), although the comment at 205-206 wants stamps to increase: a newer target takes the stamp of the source's transform back. |
| `KeypointsHaveNormals` | `MCFeatureMatching`, the cfg of `features` | `Clear` leaves `is_valid_`, so that a point may be taken for valid because the point of that index of an earlier cloud was. `FasterPFH.cpp:154-155` speaks of "indices of points that have valid normals". What `KeypointsOfThisCloud` says still holds. |

Seen while modelling, but contradicting nothing that is written: a rejected frame
is published as odometry while the gravity alignment still withholds accepted ones
(`estimation.cpp:529` and `:624`), in a world that the alignment later turns
(`AlignmentShownIsKept` says it turns once and not back). `FasterPFH.cpp:359` skips
with `&&` where `||` would be the guard. A rejected coarse alignment leaves
`aligned_` showing the previous pair. An update that ends in an invalid last
iteration leaves the covariance unfinalised. In replay a skipped scan, or an IMU
gap in the prediction, makes what lies behind it wait for the next message.

### 3.2 Bounds

- `BackendSafety`: a queue of two, candidate batches of up to three (one that
  fits, one that fits partly, one that never fits), three keyframes and two
  corrections. Two corrections are what is needed for a search or a frame to
  sleep through one and meet the other; three keyframes give a correction with
  older and newer keyframes on either side of the query. Frames that are no
  keyframes, searches, cooldowns and rejected registrations are not bounded.
- `BackendLiveness` is smaller, since TLC's liveness check needs the whole graph;
  a queue of one is always full or empty, so waiting happens at once.
- `BackendOutputs`: three keyframes and two corrections; a redraw may thus sleep
  through a correction with a newer keyframe on the path. The detector is the
  repository's stub: which search found a loop makes no difference to the outputs.
- `BackendLocks` has no bounds.
- `Px4Bridge`: a period of four ticks and fourteen ticks of time, so that samples
  come more often than, exactly at and less often than the period and three
  periods fit in; three reset counters, three frames and one restart of the front
  end. The bridge may restart at any time. `unheard` keeps the counter from
  wrapping all the way round between two samples the bridge hears (256 resets in
  the code).
- `LioInput`: two IMU samples and one scan fit into the buffers, so that both
  overflow; five instants with gaps of at most two leave room for a gap that is
  too long, one that is just not, and a scan on either side; one reset, in any
  state. Stamps may arrive in any order, equal and backward ones included.
- `EstimatorLifecycle`: both thresholds small enough to be reached within one
  anchor, and three resets: one to lose the filter, one to lose the prior, one
  more after a new flight. With the alignment and the gate on, every action is
  possible; the proofs cover the other configurations.
- `Features`: four points per cloud, two threads, three descriptors: a patch and a
  fan, with points that have a normal, too few neighbours, or neighbours without
  one; two clouds after two others; ties between descriptors. The threads are
  symmetric. The proofs cover every cloud and any number of threads.
- `Registration`: up to three correspondences on two rows, offsets that agree, agree
  in pairs or not at all under a noise bound of three quarters, two iterations of
  the rotation, three calls: an accepted one, a rejected one, and one after both.
- `Scan`: every sequence of up to four stamps out of four, so that one scan fits,
  two overlap and a majority may be missing; lines of up to ten points with
  something blind at every place; two lines; any message after any other.
- `LocalMap`: two axes with five places each and a side of four: moves by less and
  by more than the window, on one axis and on both. One point suffices, since the
  points do not meet in any property.

`CHECK_DEADLOCK FALSE` appears where the system may stop: in `Px4Bridge` the clock
ends, in `Registration` the calls do, and in `Features` and `Scan` a read or a write
past the end of a vector ends the behaviour.

### 3.3 Fairness

- A callback that started goes on: every critical section ends and the executor
  has a thread for each group (weak fairness of `CallbackProgress` and
  `SearchStep`).
- Timers fire again and again. The two search timers share a group, so that a
  timer is ready only from time to time: strong fairness of `StartSearch(s)`, and
  of the registration, whose steps wait for `graph_mutex_`. rclcpp serves ready timers in turn, so none is passed over
  forever.
- The cooldown is wall-clock time and runs out (weak fairness of
  `CooldownExpires`).
- The front end's executor runs a callback to its end, and its timer keeps firing
  (weak fairness of `Synchronize \/ Process` and of `TimerFires`). No sensor owes
  a message.
- Odometry owes nothing: no fairness of `ReceiveFrame`. No fairness makes a
  registration accept a loop.

## 4. The proofs

The proof modules are checked by `tlapm` to the last leaf. They assume only what
the modules assume of their constants (the named `ASSUME`s); no bound is
used as more than a natural number. `PROJECT.json` lists the theorems. Every
invariant and every action property that a passing run checks is proved; what
remains with TLC alone is in 4.11.

### 4.1 PoseGraphManager_proofs

`TypeCorrect`, `CandidatesAreCurrent`, `QueueIsDisciplined`, `OneSearchWaits`
and `CorrectionsComplete` follow from one inductive invariant, `IInv`
(`Invariance`). TLC has checked it as well. Its parts, and why the properties need
them:

- `LockInv`: `graph_mutex_` is held by exactly the thread that is about to
  rewrite the keyframes. Without it both threads could be in `rewrite`.
- `StartInv`: nothing is searched, queued or waiting before the first keyframe;
  `TrajectoryEpoch` is the epoch of a keyframe from then on.
- `EpochInv`: how far each of `isam`, the real-time pose and the keyframes has
  got, for each place the registration may be at. This is `CorrectionComplete`
  made inductive: during a correction it says that exactly one loop factor is
  either in the graph, in iSAM2 or in the keyframes.
- `SearchInv`: the candidates a search holds belong to the current trajectory
  unless its generation is old or a correction is running. This is why comparing
  the generation is enough although the candidates are fetched without
  `loop_queue_mutex_`.
- `QueryInv`: a search that claimed a query did so while the other one was not
  waiting, so it may turn into the waiting one.

The proof has one step per action and, under it, one per part the action can
disturb.

### 4.2 PoseGraphManager_proofs: the keys and the refinement

`KeysFollow`, `DeltaFollowsAnchor` and `CorrectionsReachAll` strengthen `IInv` to
`KInv`:

- `KeyInv`: iSAM2 knows the keys 0, 1, ..., n and the pending estimates go on from
  there, and together they are as many as there are keyframes, but for the moment
  between the first keyframe and its prior factor.
- `LoopInv`: a candidate has something before it, so that a registration needs two
  keyframes.
- `DeltaInv`: the accumulated odometry starts at the last key iSAM2 knows.

From it, writing the estimate back finds an estimate for every keyframe.
`BackEndImplementsLoopCorrection` proves the refinement: `RegInv` ties the place of
the registration to the candidate it took, and each of the critical sections is
shown to be a step of `LoopCorrection` under `Protocol` or to leave its variables
unchanged.

### 4.3 PoseGraphManager_proofs: the outputs and the locks

`StaleMapsAreMarked`, `StalePathsAreMarked` and `PathsAreComplete` follow from
`OInv`, which adds to `KInv` what the timers know: `VisInv` (a redraw holds the
default callback group, so the path it writes is as long as the keyframes; if its
copy of the estimate is stale by then, the next redraw is announced), `MapInv` and
`PathInv` (each stale entry has someone who still owes the update: a running
registration, its tail, or the flag).

`NobodyWaitsInCircles` proves that the callbacks cannot deadlock. The mutexes have
a `Depth`: `registration_mutex_` 0, `lc_mutex_` and `graph_mutex_` 1, the others 2.
The lemmas about the programs (`Leads`) show that each path of each callback locks
only what is deeper than all it holds, and unlocks what is deepest; this is checked
on the programs as they are composed, not on their interleavings. `LocksInv` says
that what is left of each callback still leads in this order from the mutexes its
group holds to none. So a group waits for a mutex deeper than all it holds, and in a
circle the waiting for the deepest mutex would be for a group that waits for a
deeper one. `SectionsAreAtomic` follows from the same invariant: who holds a mutex
of depth 2 can only unlock it next.

### 4.4 Px4Bridge_proofs

`RateIsBounded` and `NoPeriodIsLost` hold for every period and every spacing of
samples. The invariant `RateInv` ties the next target to the publications:
there is one publication for each target behind the selector and the next target
is at most one period ahead of the last sample (`TargetInv`); as long as the
source is steady, the next target is exactly as many periods after the start as
samples have been published (`SteadyInv`), because a nearest sample that was
published before would have to lie nearer to two targets than half a gap, which a
steady source rules out. `SampleStep` is the step of the selector, by the three
cases of `SelectCases`.

`JumpsAreAnnounced` and `PublicationsMoveForward` hold for any number of counter
values, as long as the front end itself is not restarted. `HeardInv` says that what
PX4 heard last is as many frames and counts behind as there were changes no sample
has told of, which are fewer than the counter has values; so equal counters mean
the same frame (`SameCounter`). `HeldInv` says that the sample held back is of the
frame published last. `TypeCorrect` bounds the target by the newest stamp and a
period.

### 4.5 LidarImuSync_proofs

`PredictionsMoveForward`, `CorrectionsFollowPredictions` and `StepsStayWithinGap`,
for every capacity of the buffers and every sequence of stamps, follow from an
inductive invariant `IInv`:

- `BufferInv`: both IMU buffers are in the order of their stamps and end with the
  last stamp received. Overflow drops from the front only, and a stamp that goes
  back resets both, so this is what the front-popping loops of `syncPackages` and
  of the prediction rely on.
- `LiveInv`: live, the stamp published last is not beyond the sample the prediction
  holds, and that sample not beyond the last one received.
- `ReplayInv`: in replay nothing that waits is older than what was published; in a
  released frame the published stamp lies within the frame and every sample left
  lies after it.
- `GapInv`: between two frames `last_consumed_imu_time_` and the cursor of
  `ImuProcessor` name the same sample unless a roll-back has put the cursor back.
  The gap check of `syncPackages` uses the first and the propagation the second;
  this is why the one guards the other. The exception, a frame after a roll-back,
  is `StepWithinGap` in section 3.1.

The lemmas say what the front-popping loops take and leave (`SplitFacts`) and what
a push into a full buffer keeps (`PushKeeps`).

`PropagationCoversOnce` and `PredictionsAreCurrent` need to know for which instant
the filter stands, `TimeInv`:

- `CursorInv`: the filter is never ahead of the cursor of `ImuProcessor`, and no
  sample that waits, or that the frame holds, is older than the cursor.
- `FrameInv`: the samples of a frame end within it, those left lie behind it.
- `PredInv`: the prediction is armed from the filter and reset with it; in replay
  its time and its state differ by no more than the lag of the filter.

`PropagationFacts` is the sum: the steps of `undistortPointCloud` over the samples of
a frame add up to the way from the old cursor to the end of the frame, each step but
the first starting where the one before it ended, and the first being cut at the
cursor (`StepsAddUp` of `NumberLemmas`). `TypeCorrect` adds the capacities of the
buffers (`CapacityInv`).

### 4.6 LioEstimator_proofs: the life cycle

`TypeCorrect`, `ResetsStayWarm`, `CountersNameWorlds`, `PathKeepsToOneWorld` and
`ShownAlignmentsLast` hold for every threshold and any number of resets, with and
without alignment and gate. `WarmAfterFlight` is inductive. The others are
strengthened by what a new pose has in common with all earlier ones:

- `NoneAhead`: no prediction is ahead of the counter, and those level with it are
  in the present world. With `CounterMarksJump` (a step that changes the world
  counts up and publishes nothing) a new prediction then need not be compared
  with each earlier one.
- `NoPathBeforeAlignment`: while the alignment is awaited the path is empty, so
  that turning the world turns no pose of the path.
- `OdometryAnchored`: no odometry is from a later anchor than the present one.

### 4.7 LioEstimator_proofs: the local map

`LeftPointsAreRemoved` by `TreeInv`: the property is inductive once the domains and
the order of building, window and insertion are known. The step that matters is the
move: a point that is in the old window and not in the new one lies in a slab of one
axis, and each slab is as wide as the old window on the other axes. The arithmetic
is in `Quarters`. `SurroundingsAreKept` follows from the same invariant;
`EvidenceIsOfThisFrame` from `MatchingInv`, which adds that an iteration that does
not search comes after one that did.

### 4.8 FeatureMatching_proofs

`KeypointsAreOfThisCloud`: `FeatureInv` says that a point a thread has put among the
found ones has a normal of this cloud, unless it has no neighbourhood; the filter
asks for three valid neighbours, which takes a neighbourhood.
`MatchesAreMutual`: `SearchInv` says that an entry of either table is the nearest
neighbour or empty, whoever wrote it. That a nearest neighbour exists needs a least
element of a set of naturals, by well-founded induction.

### 4.9 InterFrameAligner_proofs

`AcceptedAnswersAreNew` by `RegistrationInv`, whose part `Progress` says how much of
the answer a stage has made anew: after `resetSolver` the solution is invalid, and
by the time it becomes valid rotation and translation are of this call.
`TranslationsAreSupported` by `SupportInv`: until a rotation with two inliers is
found the translation is none. That each row then has an inlier is a fact about
`ScalarTLSEstimator::estimate`, for any measurements (`RowsHaveInliers`): a
consensus set is never empty, and its measurements are less than two noise bounds
apart, so that their mean is within the noise bound of the least or of the greatest
of them (`MeanHasInlier`, from the bounds on a sum).
`MapsAreAlignedOnce`: a raised flag means a stamp newer than the one aligned last.

### 4.10 LidarProcessor_proofs

For any set of messages (`MessagesAssumption` asks for sequences of points and
nothing else), any number of lines and any stride.

- `OutputIsOfThisScan` and `CurvaturesAreTimes` follow from `ScanInv`: which clouds
  are empty in which phase, that the window is that of the message or none, and
  that what the lines hold (`LinesInv`) are points the adapter took of this message.
  `ExtractionInv` says that however the passes jump and overwrite each other's
  types, a surface point keeps being a point with a range. The cloud of a stamped
  scan may hold points of an earlier message until it is overwritten, which is why
  `ScanInv` distinguishes drivers.
- `WindowsAreDominant`: `SweptTo` is the invariant of the loop of
  `findDominantTimestampWindow`. What the window has left behind is out of reach of
  the newest stamp, and no window seen so far holds more than the best one. At the
  end the best window is the best there is (`WindowIsDominant`); that its stamps are
  as many as the points they were taken from is `CountedByIndices`.
- `RunsAreThinned`: `EmittedTo` is the invariant of the loop that emits the surface
  points of a line. At point *k* the groups emitted are the full chunks of *stride*
  points of each run up to *k* and the rests of the runs that ended, and the group in
  the making is the rest of the run at *k*. At the end of the line this is what
  `ThinnedLine` defines without a loop.

### 4.11 NumberLemmas, and what is model-checked only

The prover cannot instantiate the library's induction theorems. Where a proof
needs induction over data, `NumberLemmas` does without: a least counterexample
exists because the intervals below it are finite sets and inclusion orders these
well (`LeastNatural`, `MinimalSet`); `Climb` is induction over an interval with a
set in place of a predicate. Loops over data are recursive functions in the models
(`Swept`, `SurfaceOfLine`); `RunsExist` shows that the function such a definition
chooses exists, and gives its equation. The sums of the community modules get theirs
in `SumEquation`.

Model-checked only, and out of the prover's reach: liveness under fairness,
`CorrectionEnds`, `WaitingSearchResolved` and `ScanServed`. The disagreements of
section 3.1 are violated properties, for which TLC gives the counterexample.

## 5. What is not modelled

- Loop selection: `detectLoopClosureBy...` may return any batch that
  `DetectorBatches` allows; distances and time thresholds are in that choice.
- The numbers of registration, features, the Kalman filter and iSAM2's
  optimisation. Their results are choices of the model (accept or reject; the
  estimate absorbs the loop), except where section 2 says that they are computed.
- The cold reset of the estimator and its counters that are only logged.
- The saved files (`saveFlagCallback`), which copy the keyframes twice and may
  save two trajectories; no document says they may not.
- Livox messages and their clock (a build option).
- The replay orchestrator, a script around operating-system processes that shares
  no state with them.
- The vendored ikd-Tree, IKFoM, nanoflann and robin-map: third-party code.
- Visualisation, launch files, simulation assets and configuration: no control.

## 6. What could come next

1. The front end composed with the bridge: `EstimatorLifecycle` as the environment
   that `Px4Bridge` supposes, by refinement of a common specification of the counter.
2. Loop selection as functions over small sets of keyframes.
3. The saved files as an extension of `BackendOutputs`; the replay orchestrator.
