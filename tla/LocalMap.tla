-------------------------------- MODULE LocalMap --------------------------------
(***************************************************************************)
(* The local map of SPARKFastLIO2 (mapping.cpp): a frame is matched in the *)
(* iterations of the filter against the nearest points of the ikd-tree,    *)
(* and when it is accepted the window follows the LiDAR, what it leaves is *)
(* deleted, and the scan is inserted.  The vectors that hold the matching  *)
(* live from frame to frame.                                               *)
(*                                                                         *)
(* The tree is followed through a few of its points.  Where the filter     *)
(* moves, what a search finds and whether a plane fits are choices.        *)
(***************************************************************************)
EXTENDS Integers, FiniteSets

CONSTANTS
    Axes,            \* x, y and z
    Coordinates,     \* bound: where points and the LiDAR may be
    SideLength,      \* local_map_side_length_
    DetectionRange,  \* detection_range_
    MaxPoints,       \* bound: points of the tree that are followed
    MaxFeatures,     \* bound: downsampled_point_count_
    MaxIterations    \* max_iterations_

ASSUME LocalMapAssumption ==
    /\ Coordinates \subseteq Int
    /\ DetectionRange \in Nat /\ SideLength \in Nat \ {0}
    /\ SideLength % 4 = 0 /\ DetectionRange % 2 = 0   \* the quotients below are exact
    /\ MaxPoints \in Nat /\ MaxFeatures \in Nat /\ MaxIterations \in Nat

VARIABLES
    built,       \* ikd_tree_.Root_Node is set
    map,         \* points of the tree
    entered,     \* history: the points that have been in the window
    initialized, \* local_map_initialized_
    window,      \* local_map_bounds_, by the lower vertex
    stage,       \* where processLidarAndImu stands
    iteration,   \* i of update_iterated_dyn_share_modified
    settled,     \* t of it: iterations after which the state hardly moved
    converge,    \* ekfom_data.converge
    nearest,     \* nearest_map_points_: what the search found
    chosen,      \* the points with surface_point_selected_
    fitted       \* history: the points with a plane of this iteration

tree == <<built, map, entered, initialized, window>>
loop == <<stage, iteration, settled, converge>>
matching == <<nearest, chosen, fitted>>
vars == <<tree, loop, matching>>

Positions == [Axes -> Coordinates]
Half == SideLength \div 2

\* What of a scan is followed.
Scans == UNION {{{f[i] : i \in 1 .. n} : f \in [1 .. n -> Positions]} : n \in 0 .. MaxPoints}

(***************************************************************************)
(* A vertex is half a side from where the LiDAR was; the tree's boxes hold *)
(* their lower vertex and not their upper one.                             *)
(***************************************************************************)
Max(w, a) == w[a] + SideLength
InWindow(p, w) == \A a \in Axes : w[a] <= p[a] /\ p[a] < Max(w, a)

Init ==
    /\ built = FALSE /\ map = {} /\ entered = {}
    /\ initialized = FALSE /\ window = [a \in Axes |-> 0]
    /\ stage = "idle" /\ iteration = 0 /\ settled = 0 /\ converge = TRUE
    /\ nearest = <<>> /\ chosen = {} /\ fitted = {}

-----------------------------------------------------------------------------
(***************************************************************************)
(* resetEstimatorState, as far as the map goes.                            *)
(***************************************************************************)
ResetMap ==
    /\ stage = "idle"
    /\ built' = FALSE /\ map' = {} /\ entered' = {} /\ initialized' = FALSE
    /\ nearest' = <<>> /\ chosen' = {} /\ fitted' = {}
    /\ UNCHANGED <<window, loop>>

(***************************************************************************)
(* initializeLocalMapIfNeeded: the window comes with the first commit.     *)
(***************************************************************************)
BuildMap ==
    /\ stage = "idle" /\ ~built
    /\ built' = TRUE
    /\ map' \in Scans
    /\ UNCHANGED <<entered, initialized, window, loop, matching>>

(***************************************************************************)
(* The end of prepareLioUpdate: resize keeps what it finds, also the       *)
(* neighbours of the frame before; assign starts anew.                     *)
(***************************************************************************)
ResizedNearest(n) ==
    [i \in 1 .. n |-> IF i \in DOMAIN nearest THEN "stale" ELSE "none"]

PrepareLioUpdate ==
    /\ stage = "idle" /\ built
    /\ \E n \in 1 .. MaxFeatures : nearest' = ResizedNearest(n)
    /\ chosen' = {} /\ fitted' = {}
    /\ stage' = "iterate" /\ iteration' = -1 /\ settled' = 0 /\ converge' = TRUE
    /\ UNCHANGED tree

(***************************************************************************)
(* computeMeasurementModel, up to the selection.  After a step that hardly *)
(* moved the state every point is searched anew; else the points that were *)
(* selected are fitted again to the neighbours they have.                  *)
(***************************************************************************)
Candidates ==
    IF converge
      THEN /\ nearest' \in [DOMAIN nearest -> {"few", "enough"}]
           /\ chosen' \in SUBSET {i \in DOMAIN nearest : nearest'[i] = "enough"}
      ELSE /\ nearest' = nearest
           /\ chosen' \in SUBSET chosen

\* Mutant: a point stays selected when its plane does not fit any more.
KeptWithoutFit == fitted' \in SUBSET chosen'

SelectFitted == fitted' = chosen'

(***************************************************************************)
(* One iteration of update_iterated_dyn_share_modified: without a selected *)
(* point the measurement is not valid and the state stays; else the step   *)
(* is small or not, and the last but one iteration asks for a search.      *)
(***************************************************************************)
Iterate ==
    /\ stage = "iterate"
    /\ Candidates /\ SelectFitted
    /\ \E small \in BOOLEAN :
         IF chosen' = {}
           THEN UNCHANGED <<settled, converge>>
           ELSE /\ settled' = IF small THEN settled + 1 ELSE settled
                /\ converge' = (small \/ (settled' = 0 /\ iteration = MaxIterations - 2))
    /\ iteration' = iteration + 1
    /\ stage' = IF settled' > 1 \/ iteration = MaxIterations - 1
                  THEN "verdict" ELSE "iterate"
    /\ UNCHANGED tree

(***************************************************************************)
(* rejectMotionFrame: map and window wait for a frame that is accepted.    *)
(***************************************************************************)
RejectMotionFrame ==
    /\ stage = "verdict"
    /\ stage' = "idle"
    /\ UNCHANGED <<tree, iteration, settled, converge, matching>>

-----------------------------------------------------------------------------
(***************************************************************************)
(* updateLocalMapWindow.  An axis on which the LiDAR came near an end of   *)
(* the window is centred on it.                                            *)
(***************************************************************************)
kMapMaxEdgeMargin == SideLength \div 4

\* Mutant: the margin may be as wide as the configuration asks.
RequestedMargin == (3 * DetectionRange) \div 2

EdgeMargin ==
    LET requested == (3 * DetectionRange) \div 2 IN
    IF requested < kMapMaxEdgeMargin THEN requested ELSE kMapMaxEdgeMargin

Centred(lidar) == [a \in Axes |-> lidar[a] - Half]

NewBounds(lidar) ==
    [a \in Axes |->
        IF lidar[a] - window[a] < EdgeMargin \/ Max(window, a) - lidar[a] < EdgeMargin
          THEN lidar[a] - Half
          ELSE window[a]]

\* Mutant: the ends of the two windows are mixed up.
SlabOfOverlap(p, new, a) ==
    \/ new[a] < window[a] /\ window[a] <= p[a] /\ p[a] < Max(new, a)
    \/ new[a] > window[a] /\ new[a] <= p[a] /\ p[a] < Max(window, a)

(***************************************************************************)
(* removed_bounds on an axis: from where the new window ends to where the  *)
(* old one did, and as wide as the old one on the other axes.              *)
(***************************************************************************)
Slab(p, new, a) ==
    \/ new[a] < window[a] /\ Max(new, a) <= p[a] /\ p[a] < Max(window, a)
    \/ new[a] > window[a] /\ window[a] <= p[a] /\ p[a] < new[a]

InRemovedBox(p, new) ==
    \E a \in Axes : Slab(p, new, a)
        /\ \A b \in Axes \ {a} : window[b] <= p[b] /\ p[b] < Max(window, b)

UpdateLocalMapWindow(lidar) ==
    /\ stage = "verdict"
    /\ stage' = "insert"
    /\ initialized' = TRUE
    /\ IF initialized
         THEN /\ window' = NewBounds(lidar)
              /\ map' = {p \in map : ~ InRemovedBox(p, window')}
         ELSE window' = Centred(lidar) /\ UNCHANGED map
    /\ entered' = (entered \cap map') \cup {p \in map' : InWindow(p, window')}
    /\ UNCHANGED <<built, iteration, settled, converge, matching>>

(***************************************************************************)
(* insertScanIntoMap: some points of the scan enter, wherever they are,    *)
(* and replace others of their voxel.                                      *)
(***************************************************************************)
InsertScanIntoMap ==
    /\ stage = "insert"
    /\ stage' = "idle"
    /\ \E scan \in Scans : \E kept \in SUBSET map :
         /\ map' = kept \cup scan
         /\ Cardinality(map') <= MaxPoints
         /\ entered' = (entered \cap kept) \cup {p \in map' : InWindow(p, window)}
    /\ UNCHANGED <<built, initialized, window, iteration, settled, converge, matching>>

Next ==
    \/ ResetMap \/ BuildMap \/ PrepareLioUpdate \/ Iterate \/ RejectMotionFrame
    \/ \E lidar \in Positions : UpdateLocalMapWindow(lidar)
    \/ InsertScanIntoMap

Spec == Init /\ [][Next]_vars

-----------------------------------------------------------------------------
(***************************************************************************)
(* Nothing is left behind: a point that has been in the window is either   *)
(* still in it or deleted, however far the LiDAR jumped, on however many   *)
(* axes at once, and however many frames were rejected in between.         *)
(***************************************************************************)
LeftPointsRemoved == initialized => \A p \in entered : InWindow(p, window)

(***************************************************************************)
(* "A stationary LiDAR must retain a central safety region": a move takes  *)
(* no point within the margin of the LiDAR on every axis, and an axis      *)
(* moves only when the LiDAR is more than a quarter of the side away from  *)
(* where it was centred, whatever the configuration asks.                  *)
(***************************************************************************)
SurroundingsKept ==
    [][\A lidar \in Positions : UpdateLocalMapWindow(lidar) =>
         /\ \A p \in map \ map' : \E a \in Axes :
               p[a] < lidar[a] - EdgeMargin \/ p[a] >= lidar[a] + EdgeMargin
         /\ initialized => \A a \in Axes : window'[a] # window[a] =>
               \/ lidar[a] - (window[a] + Half) > kMapMaxEdgeMargin
               \/ (window[a] + Half) - lidar[a] > kMapMaxEdgeMargin]_vars

(***************************************************************************)
(* The filter and the map use what this frame found: a selected point has  *)
(* a plane fitted in this iteration to neighbours searched in this frame,  *)
(* and when the frame is over no neighbours of an earlier frame are left   *)
(* for insertScanIntoMap to decide by.                                     *)
(***************************************************************************)
EvidenceOfThisFrame ==
    /\ chosen \subseteq fitted
    /\ \A i \in chosen : nearest[i] = "enough"
    /\ stage \in {"verdict", "insert"} =>
         \A i \in DOMAIN nearest : nearest[i] \in {"few", "enough"}
=============================================================================
