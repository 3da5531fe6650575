--------------------------- MODULE PoseGraphManager ---------------------------
(***************************************************************************)
(* The pose-graph back end (kiss_matcher_ros, class PoseGraphManager).     *)
(* A MultiThreadedExecutor runs three mutually exclusive callback groups   *)
(* at the same time: the default group (here the thread "callback", which  *)
(* runs callbackNode), the loop search group ("search") and the            *)
(* registration group ("registration").  One action is one critical        *)
(* section of the code; the only mutex held across actions is              *)
(* graph_mutex_, whose holder is graphOwner.                               *)
(*                                                                         *)
(* A pose is abstracted to its EPOCH: the number of loop corrections the   *)
(* trajectory it is expressed in has absorbed.  Two poses of different     *)
(* epochs are not comparable: a relative pose computed from them contains  *)
(* the jump of a correction.  Clouds and matched key indices are left out  *)
(* (a match is always an older keyframe than its query).                   *)
(***************************************************************************)
EXTENDS Integers, Sequences, FiniteSets

CONSTANTS
  Capacity,         \* loop.max_pending_candidates
  MaxCandidates,    \* num_max_candidates of fetchLoopCandidates
  DetectorBatches,  \* batch sizes the plugged-in LoopDetector may return
  MaxKeyframes,     \* bound: keyframes added in one behaviour
  MaxCorrections    \* bound: accepted loops in one behaviour

ASSUME CapacityAssumption == Capacity \in Nat \ {0}
ASSUME CandidatesAssumption == MaxCandidates \in Nat \ {0}
ASSUME DetectorAssumption == DetectorBatches \subseteq Nat
ASSUME BoundsAssumption == MaxKeyframes \in Nat /\ MaxCorrections \in Nat

Detector == "kLoopDetector"
NNSearch == "kNNSearch"
Sources  == {Detector, NNSearch}
Other(s) == IF s = Detector THEN NNSearch ELSE Detector

Threads == {"callback", "search", "registration"}
NoOwner == "none"
NoKey   == -1               \* std::nullopt, or "not a keyframe"
Keys    == Nat \cup {NoKey}

VARIABLES
  keyframes,          \* keyframes_: [epoch |-> of pose_corrected_, processed |-> sources]
  isInitialized,      \* is_initialized_
  latestKeyframeIdx,  \* latest_keyframe_idx_
  graph,              \* gtsam_graph_: factors not yet given to iSAM2
  initEsti,           \* init_esti_: keys not yet given to iSAM2
  isam,               \* isam_handler_: the keys it knows and the loops it absorbed
  pendingKeyframe,    \* pending_keyframe_update_
  loopClosureAdded,   \* loop_closure_added_
  graphOwner,         \* holder of graph_mutex_ between two actions
  lastCorrected,      \* last_corrected_pose_: which key it is the pose of, and its epoch
  deltaSince,         \* odom_delta_: the key since which it accumulates odometry
  queue,              \* loop_candidate_queue_
  inProgress,         \* loop_correction_in_progress_
  generation,         \* loop_correction_generation_
  hasAccepted,        \* has_accepted_loop_
  coolingDown,        \* less than loop_candidate_cooldown_ since last_accepted_loop_time_
  pending,            \* pending_{loop_detector,nnsearch}_query_idx_
  pc,                 \* where each callback group stands
  current,            \* current_frame_: epoch of its corrected pose, key once it is a keyframe
  search,             \* locals of the loop search callback
  reg                 \* locals of performRegistration

graphVars    == <<graph, initEsti, isam, pendingKeyframe, loopClosureAdded, graphOwner>>
realtimeVars == <<lastCorrected, deltaSince>>
queueVars    == <<queue, inProgress, generation, hasAccepted, coolingDown>>
frameVars    == <<isInitialized, latestKeyframeIdx, current>>
vars == <<keyframes, pending, pc, search, reg,
          graphVars, realtimeVars, queueVars, frameVars>>

Goto(t, label) == pc' = [pc EXCEPT ![t] = label]

\* The epoch of the trajectory in keyframes_: every correction rewrites the first keyframe.
TrajectoryEpoch == IF keyframes = <<>> THEN 0 ELSE keyframes[1].epoch

IdleSearch == [source |-> Detector, generation |-> 0, accepted |-> FALSE,
               query |-> NoKey, batch |-> 0, epoch |-> 0, result |-> "none"]
IdleReg    == [query |-> NoKey, source |-> Detector, epoch |-> 0, discarded |-> {}]

Init ==
  /\ keyframes = <<>>
  /\ isInitialized = FALSE
  /\ latestKeyframeIdx = 0
  /\ graph = {}
  /\ initEsti = <<>>
  /\ isam = [keys |-> <<>>, epoch |-> 0]
  /\ pendingKeyframe = FALSE
  /\ loopClosureAdded = FALSE
  /\ graphOwner = NoOwner
  /\ lastCorrected = [key |-> NoKey, epoch |-> 0]
  /\ deltaSince = NoKey
  /\ queue = <<>>
  /\ inProgress = FALSE
  /\ generation = 0
  /\ hasAccepted = FALSE
  /\ coolingDown = FALSE
  /\ pending = [s \in Sources |-> NoKey]
  /\ pc = [t \in Threads |-> "idle"]
  /\ current = [epoch |-> 0, key |-> NoKey]
  /\ search = IdleSearch
  /\ reg = IdleReg

-----------------------------------------------------------------------------
(* callbackNode: the default callback group *)

\* visualizeCurrentData: the pose of the new frame is the last corrected pose
\* moved by the odometry accumulated since (realtime_pose_mutex_).
ReceiveFrame ==
  /\ pc["callback"] = "idle"
  /\ current' = [epoch |-> lastCorrected.epoch, key |-> NoKey]
  /\ Goto("callback", IF isInitialized THEN "select" ELSE "first")
  /\ UNCHANGED <<keyframes, pending, search, reg, isInitialized, latestKeyframeIdx,
                 graphVars, realtimeVars, queueVars>>

NewKeyframe == [epoch |-> current.epoch, processed |-> {}]

\* Mutant: the index is not incremented.
NextKeyframeIdxForgotten == latestKeyframeIdx

NextKeyframeIdx == latestKeyframeIdx + 1

PushFirstKeyframe ==
  /\ pc["callback"] = "first"
  /\ keyframes' = Append(keyframes, NewKeyframe)
  /\ Goto("callback", "prior")
  /\ UNCHANGED <<pending, search, reg, graphVars, realtimeVars, queueVars, frameVars>>

AddPriorFactor ==
  /\ pc["callback"] = "prior"
  /\ graphOwner = NoOwner
  /\ graph' = graph \cup {[kind |-> "prior", key |-> 0]}
  /\ initEsti' = Append(initEsti, latestKeyframeIdx)
  /\ latestKeyframeIdx' = NextKeyframeIdx
  /\ isInitialized' = TRUE
  /\ Goto("callback", "idle")
  /\ UNCHANGED <<keyframes, pending, search, reg, current, isam, pendingKeyframe,
                 loopClosureAdded, graphOwner, realtimeVars, queueVars>>

\* checkIfKeyframe says the frame is too close to the latest keyframe.
SkipFrame ==
  /\ pc["callback"] = "select"
  /\ graphOwner = NoOwner
  /\ Goto("callback", "idle")
  /\ UNCHANGED <<keyframes, pending, search, reg,
                 graphVars, realtimeVars, queueVars, frameVars>>

\* graph_mutex_ then keyframes_mutex_: the keyframe, its odometry factor and
\* its initial estimate enter together.
AddKeyframe ==
  /\ pc["callback"] = "select"
  /\ graphOwner = NoOwner
  /\ Len(keyframes) < MaxKeyframes
  /\ keyframes' = Append(keyframes, NewKeyframe)
  /\ graph' = graph \cup {[kind |-> "odom", key |-> latestKeyframeIdx]}
  /\ initEsti' = Append(initEsti, latestKeyframeIdx)
  /\ pendingKeyframe' = TRUE
  /\ current' = [current EXCEPT !.key = latestKeyframeIdx]
  /\ latestKeyframeIdx' = NextKeyframeIdx
  /\ Goto("callback", "apply")
  /\ UNCHANGED <<pending, search, reg, isInitialized, isam, loopClosureAdded, graphOwner,
                 realtimeVars, queueVars>>

-----------------------------------------------------------------------------
(* applyPendingGraphUpdate, called by callbackNode and performRegistration *)

\* Mutant: the odometry callback runs into the tail of performRegistration.
AfterApplyAnyThread(t) == "cooldown"

AfterApply(t) == IF t = "callback" THEN "idle" ELSE "cooldown"

\* Mutant: odom_delta_ restarts with every update.
DeltaAlwaysRestarted == current.key

\* odom_delta_ restarts only when the frame it leads to became a keyframe.
DeltaAfterUpdate == IF pendingKeyframe THEN current.key ELSE deltaSince

\* Mutant: only performRegistration looks at loop_closure_added_.
NeedsRewriteInRegistration(t) == loopClosureAdded /\ t = "registration"

\* Whoever finds loop_closure_added_ set has to copy the estimate to keyframes_.
NeedsRewrite(t) == loopClosureAdded

\* The iSAM2 update and the real-time pose.  Nothing that other threads see
\* changes between them, so they are one step; graph_mutex_ stays held when
\* the keyframes have still to be rewritten.
OptimizeGraph(t) ==
  /\ pc[t] = "apply"
  /\ graphOwner = NoOwner
  /\ LET keys  == isam.keys \o initEsti
         loops == IF \E f \in graph : f.kind = "loop" THEN 1 ELSE 0
     IN /\ isam' = [keys |-> keys, epoch |-> isam.epoch + loops]
        /\ lastCorrected' = [key |-> Len(keys) - 1, epoch |-> isam.epoch + loops]
  /\ deltaSince' = DeltaAfterUpdate
  /\ graph' = {}
  /\ initEsti' = <<>>
  /\ pendingKeyframe' = FALSE
  /\ loopClosureAdded' = FALSE
  /\ graphOwner' = IF NeedsRewrite(t) THEN t ELSE NoOwner
  /\ Goto(t, IF NeedsRewrite(t) THEN "rewrite" ELSE AfterApply(t))
  /\ UNCHANGED <<keyframes, pending, search, reg, queueVars, frameVars>>

\* Mutant: the last pose of the estimate is left out.
InEstimateButLast(i) == i < Len(isam.keys)

InEstimate(i) == i <= Len(isam.keys)

\* The corrected estimate is copied to the keyframes it has a pose for.
RewriteKeyframes(t) ==
  /\ pc[t] = "rewrite"
  /\ keyframes' = [i \in DOMAIN keyframes |->
                     IF InEstimate(i)
                     THEN [keyframes[i] EXCEPT !.epoch = isam.epoch]
                     ELSE keyframes[i]]
  /\ graphOwner' = NoOwner
  /\ Goto(t, AfterApply(t))
  /\ UNCHANGED <<pending, search, reg, graph, initEsti, isam, pendingKeyframe,
                 loopClosureAdded, realtimeVars, queueVars, frameVars>>

-----------------------------------------------------------------------------
(* detectLoopClosureByLoopDetector and detectLoopClosureByNNSearch: the     *)
(* loop search callback group                                               *)

SearchBlocked == inProgress \/ (hasAccepted /\ coolingDown)

\* loopSearchGeneration.
StartSearch(s) ==
  /\ pc["search"] = "idle"
  /\ ~SearchBlocked
  /\ search' = [IdleSearch EXCEPT !.source = s, !.generation = generation]
  /\ Goto("search", IF s = Detector THEN "claim" ELSE "accepted")
  /\ UNCHANGED <<keyframes, pending, reg, graphVars, realtimeVars, queueVars, frameVars>>

\* hasAcceptedLoop, asked by the nearest-neighbour search only.
ReadHasAccepted ==
  /\ pc["search"] = "accepted"
  /\ search' = [search EXCEPT !.accepted = hasAccepted]
  /\ Goto("search", "claim")
  /\ UNCHANGED <<keyframes, pending, reg, graphVars, realtimeVars, queueVars, frameVars>>

\* The number of pairs a search of the query with idx q may return.  A match is
\* older than the query; the nearest-neighbour search returns the closest one
\* once a loop was accepted.  The oldest keyframe has nothing to match.
Batches(s, q) ==
  IF s = Detector
  THEN IF q = 0 THEN {0} ELSE DetectorBatches
  ELSE {n \in 0 .. (IF search.accepted THEN 1 ELSE MaxCandidates) : n <= q}

\* The query of this search: the one waiting for queue room, else the newest keyframe.
QueryOf(s) == IF pending[s] # NoKey THEN pending[s] ELSE Len(keyframes) - 1

\* Mutant: the other source's waiting query does not keep this one out.
MayClaimRegardless(s) ==
  /\ isInitialized /\ keyframes # <<>>
  /\ pending[s] # NoKey \/ s \notin keyframes[QueryOf(s) + 1].processed

\* Mutant: the waiting query is not exempt from the processed flag.
MayClaimUnprocessed(s) ==
  /\ isInitialized /\ keyframes # <<>>
  /\ pending[Other(s)] = NoKey
  /\ s \notin keyframes[QueryOf(s) + 1].processed

\* Initialised, the other source not waiting for room, and something to search.
MayClaim(s) ==
  /\ isInitialized /\ keyframes # <<>>
  /\ \/ pending[s] # NoKey
     \/ /\ pending[Other(s)] = NoKey
        /\ s \notin keyframes[QueryOf(s) + 1].processed

AbandonSearch ==
  /\ pc["search"] = "claim"
  /\ ~MayClaim(search.source)
  /\ search' = IdleSearch
  /\ Goto("search", "idle")
  /\ UNCHANGED <<keyframes, pending, reg, graphVars, realtimeVars, queueVars, frameVars>>

\* keyframes_mutex_: the query is marked processed; the loop detector also
\* fetches its candidates here.
ClaimQuery(s) ==
  /\ pc["search"] = "claim" /\ search.source = s
  /\ MayClaim(s)
  /\ keyframes' = [keyframes EXCEPT ![QueryOf(s) + 1].processed = @ \cup {s}]
  /\ IF s = Detector
     THEN \E n \in Batches(s, QueryOf(s)) :
            /\ search' = [search EXCEPT !.query = QueryOf(s), !.batch = n,
                                        !.epoch = TrajectoryEpoch]
            /\ Goto("search", "enqueue")
     ELSE /\ search' = [search EXCEPT !.query = QueryOf(s)]
          /\ Goto("search", "fetch")
  /\ UNCHANGED <<pending, reg, graphVars, realtimeVars, queueVars, frameVars>>

\* The nearest-neighbour search takes keyframes_mutex_ again to fetch.
FetchCandidates ==
  /\ pc["search"] = "fetch"
  /\ \E n \in Batches(NNSearch, search.query) :
       search' = [search EXCEPT !.batch = n, !.epoch = TrajectoryEpoch]
  /\ Goto("search", "enqueue")
  /\ UNCHANGED <<keyframes, pending, reg, graphVars, realtimeVars, queueVars, frameVars>>

Candidate(q, s, e) == [query |-> q, source |-> s, epoch |-> e]

\* Mutant: the generation the search started with is not compared.
EnqueueResultAnyGeneration ==
  IF SearchBlocked THEN "kSearchBlocked"
  ELSE IF search.batch > Capacity THEN "kBatchTooLarge"
  ELSE IF search.batch > Capacity - Len(queue) THEN "kQueueFull"
  ELSE "kEnqueued"

\* Mutant: the room in the queue is off by one.
EnqueueResultOneOver ==
  IF SearchBlocked \/ search.generation # generation THEN "kSearchBlocked"
  ELSE IF search.batch > Capacity THEN "kBatchTooLarge"
  ELSE IF search.batch > Capacity - Len(queue) + 1 THEN "kQueueFull"
  ELSE "kEnqueued"

\* enqueueLoopCandidates: a batch enters whole or not at all.
EnqueueResult ==
  IF SearchBlocked \/ search.generation # generation THEN "kSearchBlocked"
  ELSE IF search.batch > Capacity THEN "kBatchTooLarge"
  ELSE IF search.batch > Capacity - Len(queue) THEN "kQueueFull"
  ELSE "kEnqueued"

EnqueueCandidates ==
  /\ pc["search"] = "enqueue"
  /\ search' = [search EXCEPT !.result = EnqueueResult]
  /\ queue' = IF EnqueueResult = "kEnqueued"
              THEN queue \o [i \in 1 .. search.batch |->
                               Candidate(search.query, search.source, search.epoch)]
              ELSE queue
  /\ Goto("search", "settle")
  /\ UNCHANGED <<keyframes, pending, reg, inProgress, generation, hasAccepted, coolingDown,
                 graphVars, realtimeVars, frameVars>>

\* keyframes_mutex_ again: a full queue keeps the query, a blocked search
\* makes it searchable again, anything else is done with it.
SettleSearch ==
  /\ pc["search"] = "settle"
  /\ pending' = [pending EXCEPT ![search.source] =
                   IF search.result = "kQueueFull" THEN search.query ELSE NoKey]
  /\ keyframes' = IF search.result = "kSearchBlocked"
                  THEN [keyframes EXCEPT ![search.query + 1].processed = @ \ {search.source}]
                  ELSE keyframes
  /\ search' = IdleSearch
  /\ Goto("search", "idle")
  /\ UNCHANGED <<reg, graphVars, realtimeVars, queueVars, frameVars>>

-----------------------------------------------------------------------------
(* performRegistration: the registration callback group *)

PopCandidate ==
  /\ pc["registration"] = "idle"
  /\ queue # <<>>
  /\ queue' = Tail(queue)
  /\ reg' = [IdleReg EXCEPT !.query = Head(queue).query, !.source = Head(queue).source,
                            !.epoch = Head(queue).epoch]
  /\ Goto("registration", "align")
  /\ UNCHANGED <<keyframes, pending, search, inProgress, generation, hasAccepted,
                 coolingDown, graphVars, realtimeVars, frameVars>>

\* The keyframes are copied (keyframes_mutex_) and aligned (lc_mutex_).
RejectLoop ==
  /\ pc["registration"] = "align"
  /\ reg' = IdleReg
  /\ Goto("registration", "idle")
  /\ UNCHANGED <<keyframes, pending, search, graphVars, realtimeVars, queueVars, frameVars>>

AcceptLoop ==
  /\ pc["registration"] = "align"
  /\ generation < MaxCorrections
  /\ Goto("registration", "begin")
  /\ UNCHANGED <<keyframes, pending, search, reg,
                 graphVars, realtimeVars, queueVars, frameVars>>

\* beginLoopCorrection, under loop_queue_mutex_.
BeginLoopCorrection ==
  /\ pc["registration"] = "begin"
  /\ reg' = [reg EXCEPT !.discarded = {<<queue[i].query, queue[i].source>> : i \in DOMAIN queue}]
  /\ queue' = <<>>
  /\ inProgress' = TRUE
  /\ generation' = generation + 1
  /\ Goto("registration", "reset")
  /\ UNCHANGED <<keyframes, pending, search, hasAccepted, coolingDown,
                 graphVars, realtimeVars, frameVars>>

\* beginLoopCorrection, under keyframes_mutex_: whoever was searched on the
\* old trajectory may be searched again.
ResetSearches ==
  /\ pc["registration"] = "reset"
  /\ LET dropped == reg.discarded \cup {<<pending[s], s>> : s \in Sources}
     IN keyframes' = [i \in DOMAIN keyframes |->
                        [keyframes[i] EXCEPT !.processed =
                           {s \in @ : <<i - 1, s>> \notin dropped}]]
  /\ pending' = [s \in Sources |-> NoKey]
  /\ Goto("registration", "factor")
  /\ UNCHANGED <<search, reg, graphVars, realtimeVars, queueVars, frameVars>>

AddLoopFactor ==
  /\ pc["registration"] = "factor"
  /\ graphOwner = NoOwner
  /\ graph' = graph \cup {[kind |-> "loop", key |-> reg.query]}
  /\ loopClosureAdded' = TRUE
  /\ Goto("registration", "apply")
  /\ UNCHANGED <<keyframes, pending, search, reg, initEsti, isam, pendingKeyframe,
                 graphOwner, realtimeVars, queueVars, frameVars>>

\* Mutant: the correction is not marked as over.
CooldownWithoutRelease ==
  /\ pc["registration"] = "cooldown"
  /\ hasAccepted' = TRUE
  /\ coolingDown' = TRUE
  /\ reg' = IdleReg
  /\ Goto("registration", "idle")
  /\ UNCHANGED <<keyframes, pending, search, queue, generation, inProgress,
                 graphVars, realtimeVars, frameVars>>

StartLoopSearchCooldown ==
  /\ pc["registration"] = "cooldown"
  /\ hasAccepted' = TRUE
  /\ inProgress' = FALSE
  /\ coolingDown' = TRUE
  /\ reg' = IdleReg
  /\ Goto("registration", "idle")
  /\ UNCHANGED <<keyframes, pending, search, queue, generation,
                 graphVars, realtimeVars, frameVars>>

\* Time passes: loop_candidate_cooldown_ seconds since the last accepted loop.
CooldownExpires ==
  /\ coolingDown
  /\ coolingDown' = FALSE
  /\ UNCHANGED <<keyframes, pending, pc, search, reg, queue, inProgress, generation,
                 hasAccepted, graphVars, realtimeVars, frameVars>>

-----------------------------------------------------------------------------
CallbackStep ==
  ReceiveFrame \/ PushFirstKeyframe \/ AddPriorFactor \/ SkipFrame \/ AddKeyframe

SearchStep ==
  \/ ReadHasAccepted \/ AbandonSearch \/ FetchCandidates \/ EnqueueCandidates \/ SettleSearch
  \/ \E s \in Sources : ClaimQuery(s)

RegistrationStep ==
  \/ PopCandidate \/ RejectLoop \/ AcceptLoop \/ BeginLoopCorrection \/ ResetSearches
  \/ AddLoopFactor \/ StartLoopSearchCooldown

ApplyStep(t) == OptimizeGraph(t) \/ RewriteKeyframes(t)

Next ==
  \/ CallbackStep
  \/ \E s \in Sources : StartSearch(s)
  \/ SearchStep
  \/ RegistrationStep
  \/ \E t \in {"callback", "registration"} : ApplyStep(t)
  \/ CooldownExpires

Spec == Init /\ [][Next]_vars

(***************************************************************************)
(* Fairness.  The three groups run on a MultiThreadedExecutor and every    *)
(* critical section ends: a callback that started goes on.  Timers fire    *)
(* again and again: the two loop search timers and the 10 ms registration  *)
(* timer are each served again and again, and time passes.  The odometry   *)
(* stream owes nothing: ReceiveFrame has no fairness.                      *)
(***************************************************************************)
CallbackProgress ==
  PushFirstKeyframe \/ AddPriorFactor \/ SkipFrame \/ AddKeyframe \/ ApplyStep("callback")
RegistrationProgress == RegistrationStep \/ ApplyStep("registration")

Fairness ==
  /\ WF_vars(CallbackProgress)
  /\ WF_vars(SearchStep)
  /\ \A s \in Sources : SF_vars(StartSearch(s))
  /\ SF_vars(RegistrationProgress)
  /\ WF_vars(CooldownExpires)

FairSpec == Spec /\ Fairness

-----------------------------------------------------------------------------
Keyframe   == [epoch : Nat, processed : SUBSET Sources]
Candidates == [query : Nat, source : Sources, epoch : Nat]
Factor     == [kind : {"prior", "odom", "loop"}, key : Nat]
Estimate   == [keys : Seq(Nat), epoch : Nat]
KeyPose    == [key : Keys, epoch : Nat]
Results == {"none", "kEnqueued", "kSearchBlocked", "kQueueFull", "kBatchTooLarge"}
SearchLocals == [source : Sources, generation : Nat, accepted : BOOLEAN, query : Keys,
                 batch : Nat, epoch : Nat, result : Results]
RegLocals    == [query : Keys, source : Sources, epoch : Nat,
                 discarded : SUBSET (Nat \X Sources)]
CallbackLabels     == {"idle", "first", "prior", "select", "apply", "rewrite"}
SearchLabels       == {"idle", "accepted", "claim", "fetch", "enqueue", "settle"}
RegistrationLabels == {"idle", "align", "begin", "reset", "factor", "apply", "rewrite",
                       "cooldown"}

\* The state of the back end has its types.
TypeOK ==
  /\ keyframes \in Seq(Keyframe)
  /\ isInitialized \in BOOLEAN
  /\ latestKeyframeIdx \in Nat
  /\ graph \in SUBSET Factor
  /\ initEsti \in Seq(Nat)
  /\ isam \in Estimate
  /\ pendingKeyframe \in BOOLEAN
  /\ loopClosureAdded \in BOOLEAN
  /\ graphOwner \in {NoOwner, "callback", "registration"}
  /\ lastCorrected \in KeyPose
  /\ deltaSince \in Keys
  /\ queue \in Seq(Candidates)
  /\ inProgress \in BOOLEAN
  /\ generation \in Nat
  /\ hasAccepted \in BOOLEAN
  /\ coolingDown \in BOOLEAN
  /\ pending \in [Sources -> Keys]
  /\ pc \in [Threads -> CallbackLabels \cup SearchLabels \cup RegistrationLabels]
  /\ pc["callback"] \in CallbackLabels
  /\ pc["search"] \in SearchLabels
  /\ pc["registration"] \in RegistrationLabels
  /\ current \in KeyPose
  /\ search \in SearchLocals
  /\ reg \in RegLocals

\* No candidate waits in the queue, or is being registered, that was chosen on
\* a trajectory a loop correction has replaced since (the reason for
\* loop_correction_generation_ and takeAll in beginLoopCorrection).
CandidatesOnCurrentTrajectory ==
  /\ \A i \in DOMAIN queue : queue[i].epoch = TrajectoryEpoch
  /\ pc["registration"] \in {"align", "begin"} => reg.epoch = TrajectoryEpoch

\* The queue respects max_pending_candidates and is empty while a correction
\* runs: no search slips a batch in behind takeAll.
QueueDisciplined ==
  /\ Len(queue) <= Capacity
  /\ inProgress => queue = <<>>

\* At most one search has a query waiting for queue room, so a full queue can
\* always be resolved by its owner: the other search stays out.
OneWaitingSearch == \E s \in Sources : pending[s] = NoKey

\* When no correction runs, everything derived from the estimate has absorbed
\* exactly the accepted loops, although callbackNode may have run iSAM2 on the
\* loop factor in place of performRegistration.
CorrectionComplete ==
  ~inProgress => /\ isam.epoch = generation
                 /\ lastCorrected.epoch = generation
                 /\ TrajectoryEpoch = generation
                 /\ ~loopClosureAdded

\* The real-time pose is last_corrected_pose_ * odom_delta_: the odometry is
\* accumulated since the very key whose pose was corrected.
DeltaMatchesAnchor == deltaSince = lastCorrected.key

\* iSAM2 and the pending initial estimates know key i exactly when keyframe i
\* exists, in order, and no factor waits that refers to an unknown key.
KeysFollowKeyframes ==
  LET known == isam.keys \o initEsti
  IN /\ pc["callback"] # "prior" => known = [i \in DOMAIN keyframes |-> i - 1]
     /\ \A f \in graph : f.key < Len(known)

\* A correction reaches every keyframe: none keeps its old pose because the
\* estimate was shorter than keyframes_.
CorrectionReachesAll ==
  [][\A t \in Threads : pc[t] = "rewrite" /\ pc'[t] # "rewrite" =>
       \A i \in DOMAIN keyframes' : keyframes'[i].epoch = isam'.epoch]_vars

\* The detailed back end implements the abstract protocol LoopCorrection: while
\* a correction runs the trajectory still counts as the old one.
Protocol == INSTANCE LoopCorrection WITH
  trajectory <- IF inProgress THEN generation - 1 ELSE generation,
  correcting <- inProgress,
  waiting    <- [i \in DOMAIN queue |-> queue[i].epoch],
  taken      <- IF reg.query = NoKey THEN {} ELSE {reg.epoch}

\* Candidates are offered, taken, discarded and corrected as LoopCorrection says.
ImplementsLoopCorrection == Protocol!Spec

\* Every accepted loop ends its correction: searches are not blocked forever.
CorrectionEnds == inProgress ~> ~inProgress

\* A query waiting for queue room does not wait forever (and so does not keep
\* the other search out forever).
WaitingSearchResolved == \A s \in Sources : pending[s] # NoKey ~> pending[s] = NoKey

\* path/corrected and global_map are built from pose_corrected_: with no
\* correction running, all keyframes are in the corrected trajectory's frame.
\* (Violated: see the run backend_frame_mixing.)
KeyframesShareFrame ==
  ~inProgress => \A i \in DOMAIN keyframes : keyframes[i].epoch = TrajectoryEpoch

\* "Loop candidate queue is full; retrying the current query later": a query
\* whose batch met a full queue is searched again.  (Violated, see README: a
\* correction drops the waiting query.)
FullQueueRetried ==
  \A q \in 1 .. MaxKeyframes - 1 :
    (pc["search"] = "settle" /\ search.query = q /\ search.result = "kQueueFull")
      ~> (pc["search"] = "enqueue" /\ search.query = q)
=============================================================================
