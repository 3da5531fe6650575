----------------------------- MODULE BackendOutputs -----------------------------
(***************************************************************************)
(* What the back end shows: the accumulated map of buildMap and the        *)
(* corrected path of visualizePoseGraph, composed with the back end        *)
(* PoseGraphManager whose keyframes and estimate they are built from.      *)
(*                                                                         *)
(* Both timers belong to the default callback group, so they never run at  *)
(* the same time as callbackNode or as each other; they do run at the same *)
(* time as performRegistration, which tells them through two atomic flags  *)
(* that a correction moved the poses they have already used.  A cloud or a *)
(* path pose is abstracted to the epoch of the pose it was placed with.    *)
(***************************************************************************)
EXTENDS PoseGraphManager

VARIABLES
  needMapUpdate,  \* need_map_update_
  needGraphVis,   \* need_graph_vis_update_
  tail,           \* the flag performRegistration still has to set after a correction
  map,            \* map_cloud_: the epochs of the scans in it; start_idx is its length
  path,           \* corrected_path_: the epochs of its poses
  vis             \* locals of visualizePoseGraph

outputVars == <<needMapUpdate, needGraphVis, tail, map, path, vis>>
allVars    == <<vars, outputVars>>

IdleVis == [stage |-> "idle", epoch |-> 0, count |-> 0]

InitOutputs ==
  /\ Init
  /\ needMapUpdate = FALSE
  /\ needGraphVis = FALSE
  /\ tail = "none"
  /\ map = <<>>
  /\ path = <<>>
  /\ vis = IdleVis

\* The default callback group is mutually exclusive: each of its callbacks
\* starts when no other is running.
VisIdle          == vis.stage = "idle"

\* Mutant: the timers have a callback group of their own.
DefaultGroupShared == VisIdle

DefaultGroupFree == VisIdle /\ pc["callback"] = "idle"

-----------------------------------------------------------------------------
(* The steps of the back end *)

\* callbackNode; appendKeyframePose adds a new keyframe to the path.
RunCallback ==
  /\ VisIdle
  /\ CallbackStep \/ ApplyStep("callback")
  /\ path' = IF Len(keyframes') > Len(keyframes) THEN Append(path, current.epoch) ELSE path
  /\ UNCHANGED <<needMapUpdate, needGraphVis, tail, map, vis>>

\* performRegistration up to startLoopSearchCooldown.
RunRegistration ==
  /\ tail = "none"
  /\ RegistrationStep \/ ApplyStep("registration")
  /\ tail' = IF pc["registration"] = "cooldown" THEN "map" ELSE "none"
  /\ UNCHANGED <<needMapUpdate, needGraphVis, map, path, vis>>

RunSearch ==
  /\ SearchStep \/ (\E s \in Sources : StartSearch(s)) \/ CooldownExpires
  /\ UNCHANGED outputVars

\* The tail of performRegistration: two stores, in this order.
MarkMap ==
  /\ tail = "map"
  /\ needMapUpdate' = TRUE
  /\ tail' = "graph"
  /\ UNCHANGED <<vars, needGraphVis, map, path, vis>>

MarkGraph ==
  /\ tail = "graph"
  /\ needGraphVis' = TRUE
  /\ tail' = "none"
  /\ UNCHANGED <<vars, needMapUpdate, map, path, vis>>

-----------------------------------------------------------------------------
(* buildMap and visualizePoseGraph *)

EpochsFrom(first) == [i \in 1 .. Len(keyframes) - first |-> keyframes[first + i].epoch]

\* Mutant: start_idx is not remembered.
MapFromScratchOnOld == map \o EpochsFrom(0)

\* Mutant: the flag is consumed, the clouds already placed stay.
MapAppendedOnly == map \o EpochsFrom(Len(map))

\* The map is rebuilt when the flag says so; otherwise the new keyframes are added.
MapAfterBuild == IF needMapUpdate THEN EpochsFrom(0) ELSE map \o EpochsFrom(Len(map))

\* All of buildMap that touches shared state is under keyframes_mutex_.
BuildMap ==
  /\ DefaultGroupFree
  /\ keyframes # <<>>
  /\ map' = MapAfterBuild
  /\ needMapUpdate' = FALSE
  /\ UNCHANGED <<vars, needGraphVis, tail, path, vis>>

\* need_graph_vis_update_.exchange(false), before anything is read.
StartVisualization ==
  /\ DefaultGroupFree
  /\ isInitialized /\ needGraphVis
  /\ needGraphVis' = FALSE
  /\ vis' = [vis EXCEPT !.stage = "copy"]
  /\ UNCHANGED <<vars, needMapUpdate, tail, map, path>>

\* corrected_esti_ (realtime_pose_mutex_), cut to the keyframes there are.
CopyEstimate ==
  /\ vis.stage = "copy"
  /\ vis' = [stage |-> "write", epoch |-> isam.epoch,
             count |-> IF Len(isam.keys) <= Len(keyframes) THEN Len(isam.keys) ELSE Len(keyframes)]
  /\ UNCHANGED <<vars, needMapUpdate, needGraphVis, tail, map, path>>

\* Mutant: the flag is cleared when the path is written, not when it is read.
WritePathAndClear ==
  /\ vis.stage = "write"
  /\ path' = [i \in 1 .. vis.count |-> vis.epoch]
  /\ vis' = IdleVis
  /\ needGraphVis' = FALSE
  /\ UNCHANGED <<vars, needMapUpdate, tail, map>>

WritePath ==
  /\ vis.stage = "write"
  /\ path' = [i \in 1 .. vis.count |-> vis.epoch]
  /\ vis' = IdleVis
  /\ UNCHANGED <<vars, needMapUpdate, needGraphVis, tail, map>>

-----------------------------------------------------------------------------
NextOutputs ==
  \/ RunCallback \/ RunRegistration \/ RunSearch
  \/ MarkMap \/ MarkGraph
  \/ BuildMap
  \/ StartVisualization \/ CopyEstimate \/ WritePath

SpecOutputs == InitOutputs /\ [][NextOutputs]_allVars

-----------------------------------------------------------------------------
\* The outputs have their types.
TypeOutputs ==
  /\ needMapUpdate \in BOOLEAN
  /\ needGraphVis \in BOOLEAN
  /\ tail \in {"none", "map", "graph"}
  /\ map \in Seq(Nat) /\ Len(map) <= Len(keyframes)
  /\ path \in Seq(Nat)
  /\ vis \in [stage : {"idle", "copy", "write"}, epoch : Nat, count : Nat]

StaleMap  == \E i \in DOMAIN map : map[i] # keyframes[i].epoch
StalePath == \E i \in DOMAIN path : path[i] < keyframes[i].epoch

\* No correction is lost on the map: while a scan lies in it where its keyframe
\* no longer is, the registration that moved it is still running or the flag
\* that makes buildMap start over is set.
StaleMapMarked ==
  StaleMap => needMapUpdate \/ pc["registration"] # "idle" \/ tail = "map"

\* No correction is lost on the path: while it shows a keyframe where it no
\* longer is, a redraw from the newest estimate is under way or still to come.
StalePathMarked ==
  StalePath => \/ needGraphVis \/ pc["registration"] # "idle" \/ tail # "none"
               \/ vis.stage = "copy" \/ (vis.stage = "write" /\ vis.epoch = isam.epoch)

\* The path shows every keyframe whenever the default group rests: a redraw
\* does not drop the poses that callbackNode appended.
PathCoversKeyframes == DefaultGroupFree /\ isInitialized => Len(path) = Len(keyframes)
=============================================================================
