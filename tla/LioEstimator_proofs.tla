-------------------------- MODULE LioEstimator_proofs --------------------------
(***************************************************************************)
(* What holds of the estimator of the LIO front end from frame to frame:   *)
(* of its life, for every threshold, with and without the gravity          *)
(* alignment and the quality gate, and of its local map, for every set of  *)
(* axes, every side length, range and number of points and iterations.     *)
(***************************************************************************)
EXTENDS EstimatorLifecycle, LocalMap, TLAPS

-----------------------------------------------------------------------------
(* The life of the filter *)


(***************************************************************************)
(* CounterNamesWorld is not inductive: a new prediction has to be compared *)
(* with all before it.  What they have in common is that none is ahead of  *)
(* the counter, and that those level with it are in the present world.     *)
(***************************************************************************)
NoneAhead ==
    \A p \in predicted :
        /\ p.counter <= counter
        /\ p.counter = counter => p.world = World

(***************************************************************************)
(* PathInOneWorld is not inductive either: the alignment changes the world *)
(* of a path that must therefore be empty.                                 *)
(***************************************************************************)
NoPathBeforeAlignment == AlignEnabled /\ ~aligned => path = {}

(***************************************************************************)
(* Type correctness and the bound on the directions, for every threshold.  *)
(***************************************************************************)
THEOREM TypeCorrect == LifeSpec => []TypeOK
<1>1. InitLife => TypeOK
  <2> SUFFICES ASSUME InitLife PROVE TypeOK
    OBVIOUS
  <2>1. /\ started \in BOOLEAN /\ warmedUp \in BOOLEAN
        /\ imuInitialized \in BOOLEAN /\ warmPrior \in BOOLEAN /\ flown \in BOOLEAN
        /\ mapBuilt \in BOOLEAN /\ accepted \in BOOLEAN
        /\ armed \in BOOLEAN /\ aligned \in BOOLEAN
    BY DEF InitLife
  <2>2. moving \in 0 .. MovingThreshold + 1 /\ directions \in 0 .. DirectionsNeeded
    BY LifecycleAssumption DEF InitLife
  <2>3. counter \in Nat /\ resets \in 0 .. MaxResets
    BY LifecycleAssumption DEF InitLife
  <2>4. /\ path \subseteq Worlds /\ odometry \subseteq Worlds
        /\ predicted \subseteq [counter : Nat, world : Worlds]
    BY DEF InitLife
  <2> QED
    BY <2>1, <2>2, <2>3, <2>4 DEF TypeOK
<1>2. TypeOK /\ [NextFrame]_life => TypeOK'
  <2> SUFFICES ASSUME TypeOK, [NextFrame]_life PROVE TypeOK'
    OBVIOUS
  <2> USE LifecycleAssumption DEF TypeOK
  <2>1. World \in Worlds
    BY DEF World, Worlds
  <2>2. CASE Reset
    <3>1. moving' \in 0 .. MovingThreshold + 1 /\ directions' \in 0 .. DirectionsNeeded
      BY <2>2 DEF Reset
    <3>2. counter' \in Nat /\ resets' \in 0 .. MaxResets
      BY <2>2 DEF Reset
    <3>3. /\ started' \in BOOLEAN /\ warmedUp' \in BOOLEAN
          /\ imuInitialized' \in BOOLEAN /\ warmPrior' \in BOOLEAN
          /\ mapBuilt' \in BOOLEAN /\ accepted' \in BOOLEAN
          /\ armed' \in BOOLEAN /\ aligned' \in BOOLEAN
      BY <2>2 DEF Reset, PriorAfterReset
    <3> QED
      BY <3>1, <3>2, <3>3, <2>2 DEF Reset
  <2>3. CASE Predict
    BY <2>3, <2>1 DEF Predict, filter, alignment
  <2>4. CASE FirstScan
    BY <2>4 DEF FirstScan, alignment, outputs
  <2>5. CASE Initialize
    BY <2>5 DEF Initialize, WarmUp, alignment, outputs
  <2>6. CASE RollBack
    BY <2>6 DEF RollBack, FilterRuns, filter, alignment, outputs
  <2>7. CASE NoPoints
    BY <2>7, <2>1 DEF NoPoints, FilterRuns, WarmUp, PublishIfAccepted,
       PublishPropagated, filter, alignment, outputs
  <2>8. moving \in 0 .. MovingThreshold + 1 /\ CountMovement
          => moving' \in 0 .. MovingThreshold + 1
    BY DEF CountMovement, MovingFrames
  <2>9. CASE InitializeLocalMap
    BY <2>9, <2>8 DEF InitializeLocalMap, FilterRuns, WarmUp, filter, outputs
  <2>10. CASE TooFewFeatures
    BY <2>10, <2>8, <2>1 DEF TooFewFeatures, FilterRuns, WarmUp,
       PublishIfAccepted, PublishPropagated, filter, outputs
  <2>11. CASE Commit
    <3>1. /\ aligned' \in BOOLEAN
          /\ directions' \in 0 .. DirectionsNeeded
          /\ counter' \in Nat
      <4>1. CASE MayAlign /\ EnoughDirections
        BY <4>1, <2>11 DEF Commit, AlignAfterLio, CounterAligned
      <4>2. CASE MayAlign /\ ~EnoughDirections
        <5>1. directions' = directions + 1 /\ directions < DirectionsNeeded
          BY <4>2, <2>11 DEF Commit, AlignAfterLio, EnoughDirections
        <5> QED
          BY <5>1, <4>2, <2>11 DEF Commit, AlignAfterLio
      <4>3. CASE ~MayAlign
        BY <4>3, <2>11 DEF Commit, AlignAfterLio
      <4> QED
        BY <4>1, <4>2, <4>3
    <3>2. World' \in Worlds
      BY <3>1, <2>11 DEF Commit, FilterRuns, filter, World, Worlds
    <3>3. path' \subseteq Worlds /\ odometry' \subseteq Worlds
      BY <3>2, <2>11 DEF Commit
    <3> QED
      BY <3>1, <3>3, <2>11, <2>8 DEF Commit, FilterRuns, WarmUp, filter
  <2>12. CASE Reject
    BY <2>12, <2>1 DEF Reject, WorldAfterRestore, FilterRuns, WarmUp, AlignmentRestored,
       PublishPropagated, filter, alignment
  <2>13. CASE UNCHANGED life
    BY <2>13 DEF life, filter, alignment, outputs
  <2> QED
    BY <2>2, <2>3, <2>4, <2>5, <2>6, <2>7, <2>9, <2>10, <2>11, <2>12, <2>13
       DEF NextFrame
<1> QED
  BY <1>1, <1>2, PTL DEF LifeSpec

(***************************************************************************)
(* However many resets follow each other, and wherever they fall into the  *)
(* warm-up, a filter that flew once has a prior to start from.             *)
(***************************************************************************)
THEOREM ResetsStayWarm == LifeSpec => []WarmAfterFlight
<1>1. InitLife => WarmAfterFlight
  BY DEF InitLife, WarmAfterFlight
<1>2. TypeOK /\ WarmAfterFlight /\ [NextFrame]_life => WarmAfterFlight'
  <2> SUFFICES ASSUME TypeOK, WarmAfterFlight, [NextFrame]_life
               PROVE  WarmAfterFlight'
    OBVIOUS
  <2>1. CASE Reset
    BY <2>1 DEF Reset, PriorAfterReset, WarmAfterFlight
  <2>2. CASE Initialize
    BY <2>2 DEF Initialize, WarmAfterFlight
  <2>3. CASE UNCHANGED <<imuInitialized, warmPrior, flown>>
    BY <2>3 DEF WarmAfterFlight
  <2> QED
    BY <2>1, <2>2, <2>3 DEF NextFrame, life, Predict, FirstScan, RollBack, NoPoints,
       InitializeLocalMap, TooFewFeatures, Commit, Reject, FilterRuns, filter
<1> QED
  BY <1>1, <1>2, TypeCorrect, PTL DEF LifeSpec

(***************************************************************************)
(* The steps that move the counter or the world move the counter up.       *)
(***************************************************************************)
LEMMA CounterMarksJump ==
  ASSUME TypeOK, [NextFrame]_life
  PROVE  \/ counter' = counter /\ World' = World
         \/ counter' = counter + 1 /\ predicted' = predicted
<1> USE DEF World, filter, alignment, outputs
<1>1. CASE Reset
  BY <1>1 DEF Reset
<1>2. CASE Commit
  BY <1>2 DEF Commit, FilterRuns, AlignAfterLio, CounterAligned
<1>3. CASE Predict \/ FirstScan \/ Initialize
  BY <1>3 DEF Predict, FirstScan, Initialize
<1>4. CASE RollBack \/ NoPoints \/ InitializeLocalMap \/ TooFewFeatures \/ Reject
  BY <1>4 DEF RollBack, NoPoints, InitializeLocalMap, TooFewFeatures, Reject, FilterRuns,
     AlignmentRestored
<1>5. CASE UNCHANGED life
  BY <1>5 DEF life
<1> QED
  BY <1>1, <1>2, <1>3, <1>4, <1>5 DEF NextFrame

(***************************************************************************)
(* A step publishes at most the prediction of the present world.           *)
(***************************************************************************)
LEMMA PublishesPresent ==
  ASSUME [NextFrame]_life
  PROVE  predicted' \subseteq predicted \cup {[counter |-> counter, world |-> World]}
<1>1. CASE Predict
  BY <1>1 DEF Predict
<1>2. CASE predicted' = predicted
  BY <1>2
<1> QED
  BY <1>1, <1>2 DEF NextFrame, life, outputs, Reset, FirstScan, Initialize, RollBack,
     NoPoints, InitializeLocalMap, TooFewFeatures, Commit, Reject, PublishIfAccepted,
     PublishPropagated

(***************************************************************************)
(* Equal counters mean equal worlds, over all predictions ever published.  *)
(***************************************************************************)
THEOREM CountersNameWorlds == LifeSpec => []CounterNamesWorld
<1> DEFINE IInv == NoneAhead /\ CounterNamesWorld
<1>1. InitLife => IInv
  BY DEF InitLife, NoneAhead, CounterNamesWorld
<1>2. TypeOK /\ IInv /\ [NextFrame]_life => IInv'
  <2> SUFFICES ASSUME TypeOK, IInv, [NextFrame]_life PROVE IInv'
    OBVIOUS
  <2>1. counter \in Nat /\ \A p \in predicted : p.counter \in Nat
    BY DEF TypeOK
  <2> DEFINE new == [counter |-> counter, world |-> World]
  <2>2. \A p \in predicted \cup {new} :
            p.counter <= counter /\ (p.counter = counter => p.world = World)
    BY <2>1 DEF NoneAhead
  <2>3. \A p, q \in predicted \cup {new} : p.counter = q.counter => p.world = q.world
    BY <2>2 DEF CounterNamesWorld
  <2>4. CounterNamesWorld'
    BY <2>3, PublishesPresent DEF CounterNamesWorld
  <2>5. NoneAhead'
    <3>1. CASE counter' = counter /\ World' = World
      BY <3>1, <2>2, PublishesPresent DEF NoneAhead
    <3>2. CASE counter' = counter + 1 /\ predicted' = predicted
      BY <3>2, <2>1 DEF NoneAhead
    <3> QED
      BY <3>1, <3>2, CounterMarksJump
  <2> QED
    BY <2>4, <2>5
<1> QED
  BY <1>1, <1>2, TypeCorrect, PTL DEF LifeSpec

(***************************************************************************)
(* The path holds poses of the present world only.                         *)
(***************************************************************************)
THEOREM PathKeepsToOneWorld == LifeSpec => []PathInOneWorld
<1> DEFINE IInv == PathInOneWorld /\ NoPathBeforeAlignment
<1>1. InitLife => IInv
  BY DEF InitLife, PathInOneWorld, NoPathBeforeAlignment
<1>2. TypeOK /\ IInv /\ [NextFrame]_life => IInv'
  <2> SUFFICES ASSUME TypeOK, IInv, [NextFrame]_life PROVE IInv'
    OBVIOUS
  <2> USE DEF PathInOneWorld, NoPathBeforeAlignment
  <2>1. CASE Reset
    BY <2>1 DEF Reset
  <2>2. CASE Commit
    <3>1. CASE World' = World /\ aligned' = aligned
      BY <3>1, <2>2 DEF Commit, WaitsForAlignment
    <3>2. CASE path = {} /\ aligned'
      BY <3>2, <2>2 DEF Commit, WaitsForAlignment
    <3> QED
      BY <3>1, <3>2, <2>2 DEF Commit, FilterRuns, filter, AlignAfterLio, MayAlign,
         World
  <2>3. CASE UNCHANGED <<path, aligned, resets>>
    BY <2>3 DEF World
  <2> QED
    BY <2>1, <2>2, <2>3 DEF NextFrame, life, filter, alignment, outputs, Predict,
       FirstScan, Initialize, RollBack, NoPoints, InitializeLocalMap, TooFewFeatures, Reject,
       FilterRuns, PublishIfAccepted, PublishPropagated, AlignmentRestored
<1> QED
  BY <1>1, <1>2, TypeCorrect, PTL DEF LifeSpec

(***************************************************************************)
(* AlignmentShownIsKept needs that no odometry is from a later anchor, or  *)
(* a reset could move onto it.                                             *)
(***************************************************************************)
OdometryAnchored == \A w \in odometry : w.anchor <= resets

(***************************************************************************)
(* A step publishes odometry of the world it leaves behind at most, and    *)
(* only a reset takes the alignment back.                                  *)
(***************************************************************************)
LEMMA OdometryIsOfItsFrame ==
  ASSUME [NextFrame]_life
  PROVE  \/ resets' = resets + 1 /\ odometry' = odometry
         \/ /\ resets' = resets /\ (aligned => aligned')
            /\ odometry' \subseteq odometry \cup {World'}
<1> USE DEF World, filter, alignment, outputs
<1>1. CASE Reset
  BY <1>1 DEF Reset
<1>2. CASE Commit
  BY <1>2 DEF Commit, FilterRuns, AlignAfterLio
<1>3. CASE Predict \/ FirstScan \/ Initialize
  BY <1>3 DEF Predict, FirstScan, Initialize
<1>4. CASE RollBack \/ NoPoints \/ InitializeLocalMap \/ TooFewFeatures
  BY <1>4 DEF RollBack, NoPoints, InitializeLocalMap, TooFewFeatures, FilterRuns,
     PublishIfAccepted, PublishPropagated
<1>5. CASE Reject
  BY <1>5 DEF Reject, FilterRuns, AlignmentRestored, PublishPropagated,
     WorldAfterRestore
<1>6. CASE UNCHANGED life
  BY <1>6 DEF life
<1> QED
  BY <1>1, <1>2, <1>3, <1>4, <1>5, <1>6 DEF NextFrame

(***************************************************************************)
(* An alignment that odometry has shown lasts until the next reset.        *)
(***************************************************************************)
THEOREM ShownAlignmentsLast == LifeSpec => []AlignmentShownIsKept
<1> DEFINE IInv == OdometryAnchored /\ AlignmentShownIsKept
<1>1. InitLife => IInv
  BY DEF InitLife, OdometryAnchored, AlignmentShownIsKept
<1>2. TypeOK /\ IInv /\ [NextFrame]_life => IInv'
  <2> SUFFICES ASSUME TypeOK, IInv, [NextFrame]_life PROVE IInv'
    OBVIOUS
  <2> USE DEF OdometryAnchored, AlignmentShownIsKept
  <2>1. resets \in Nat /\ \A w \in odometry : w.anchor \in Nat
    BY LifecycleAssumption DEF TypeOK, Worlds
  <2>2. CASE resets' = resets + 1 /\ odometry' = odometry
    BY <2>1, <2>2
  <2>3. CASE /\ resets' = resets /\ (aligned => aligned')
             /\ odometry' \subseteq odometry \cup {World'}
    <3>1. World'.anchor = resets' /\ World'.rotated = aligned'
      BY DEF World
    <3>2. \A w \in odometry \cup {World'} :
              w.anchor <= resets' /\ (w.anchor = resets' /\ w.rotated => aligned')
      BY <2>1, <2>3, <3>1
    <3> QED
      BY <2>3, <3>2
  <2> QED
    BY <2>2, <2>3, OdometryIsOfItsFrame
<1> QED
  BY <1>1, <1>2, TypeCorrect, PTL DEF LifeSpec


-----------------------------------------------------------------------------
(* The tree *)

(***************************************************************************)
(* LeftPointsRemoved is inductive together with the domains, and with what *)
(* a reset must not forget: before there is a window, no point has been in *)
(* it and no scan is about to be inserted; before there is a tree, there   *)
(* is neither a window nor a frame.                                        *)
(***************************************************************************)
TreeInv ==
    /\ map \subseteq Positions
    /\ entered \subseteq map
    /\ initialized \in BOOLEAN
    /\ window \in [Axes -> Int]
    /\ ~initialized => entered = {} /\ stage # "insert"
    /\ ~built => ~initialized /\ stage = "idle"
    /\ LeftPointsRemoved

(***************************************************************************)
(* Positions are integers on every axis.                                   *)
(***************************************************************************)
LEMMA PositionsAreIntegers == \A p \in Positions, a \in Axes : p[a] \in Int
  BY LocalMapAssumption DEF Positions

(***************************************************************************)
(* A side length is four quarters, and half of it two.                     *)
(***************************************************************************)
LEMMA Quarters ==
    /\ kMapMaxEdgeMargin \in Nat /\ Half \in Nat /\ EdgeMargin \in Int
    /\ SideLength = 4 * kMapMaxEdgeMargin
    /\ Half = 2 * kMapMaxEdgeMargin
    /\ EdgeMargin <= kMapMaxEdgeMargin
  BY LocalMapAssumption DEF kMapMaxEdgeMargin, Half, EdgeMargin

(***************************************************************************)
(* The slabs cover what a window leaves, on however many axes it moves: a  *)
(* point of the old window in none of them is in the new one.              *)
(***************************************************************************)
LEMMA SlabsCover ==
    ASSUME NEW p \in Positions, window \in [Axes -> Int], NEW new \in [Axes -> Int],
           InWindow(p, window), ~ InRemovedBox(p, new)
    PROVE  InWindow(p, new)
<1> SUFFICES ASSUME NEW a \in Axes
             PROVE  new[a] <= p[a] /\ p[a] < Max(new, a)
  BY DEF InWindow
<1>1. p[a] \in Int /\ window[a] \in Int /\ new[a] \in Int /\ SideLength \in Nat
  BY PositionsAreIntegers, LocalMapAssumption
<1>2. \A b \in Axes : window[b] <= p[b] /\ p[b] < Max(window, b)
  BY DEF InWindow
<1>3. ~ Slab(p, new, a)
  BY <1>2 DEF InRemovedBox
<1> QED
  BY <1>1, <1>2, <1>3 DEF Slab, Max

(***************************************************************************)
(* A window centred on the LiDAR, on some axes or on all.                  *)
(***************************************************************************)
LEMMA WindowsHaveIntegerVertices ==
    ASSUME NEW lidar \in Positions, window \in [Axes -> Int]
    PROVE  Centred(lidar) \in [Axes -> Int] /\ NewBounds(lidar) \in [Axes -> Int]
<1>1. \A a \in Axes : lidar[a] \in Int /\ lidar[a] - Half \in Int
  BY PositionsAreIntegers, Quarters
<1> QED
  BY <1>1 DEF Centred, NewBounds

LEMMA ScansArePositions == \A scan \in Scans : scan \subseteq Positions
  BY DEF Scans

LEMMA TreeInit == Init => TreeInv
<1> SUFFICES ASSUME Init PROVE TreeInv
  OBVIOUS
<1>1. /\ map = {} /\ entered = {} /\ initialized = FALSE
      /\ window = [a \in Axes |-> 0] /\ stage = "idle" /\ ~built
  BY DEF Init
<1>2. window \in [Axes -> Int]
  BY <1>1
<1>5. initialized \in BOOLEAN
  BY <1>1, Zenon
<1>3. LeftPointsRemoved
  BY <1>1 DEF LeftPointsRemoved
<1>4. map \subseteq Positions /\ entered \subseteq map /\ stage # "insert"
  BY <1>1
<1> QED
  BY <1>1, <1>2, <1>3, <1>4, <1>5, Zenon DEF TreeInv

LEMMA WindowStep ==
    ASSUME TreeInv, NEW lidar \in Positions, UpdateLocalMapWindow(lidar)
    PROVE  TreeInv'
<1> USE DEF TreeInv, UpdateLocalMapWindow
<1>1. window' \in [Axes -> Int] /\ map' \subseteq map /\ initialized'
  BY WindowsHaveIntegerVertices
<1>2. \A p \in entered' : InWindow(p, window')
  <2> SUFFICES ASSUME NEW p \in entered \cap map', initialized
               PROVE  InWindow(p, window')
    OBVIOUS
  <2>1. p \in Positions /\ InWindow(p, window) /\ ~ InRemovedBox(p, window')
    BY DEF LeftPointsRemoved
  <2> QED
    BY <2>1, <1>1, SlabsCover
<1>3. \A p \in entered' : InWindow(p, window)'
  BY <1>2 DEF InWindow, Max
<1> QED
  BY <1>1, <1>3 DEF LeftPointsRemoved

LEMMA InsertStep == ASSUME TreeInv, InsertScanIntoMap PROVE TreeInv'
<1> USE DEF TreeInv, InsertScanIntoMap
<1>1. PICK scan \in Scans, kept \in SUBSET map :
        /\ map' = kept \cup scan
        /\ entered' = (entered \cap kept) \cup {p \in map' : InWindow(p, window)}
  OBVIOUS
<1>2. map' \subseteq Positions /\ entered' \subseteq map'
  BY <1>1, ScansArePositions
<1>3. initialized => \A p \in entered' : InWindow(p, window)
  BY <1>1 DEF LeftPointsRemoved
<1>4. initialized' => \A p \in entered' : InWindow(p, window)'
  BY <1>3 DEF InWindow, Max
<1>5. initialized' \in BOOLEAN /\ window' \in [Axes -> Int]
  OBVIOUS
<1>6. initialized' /\ stage' = "idle"
  OBVIOUS
<1> QED
  BY <1>2, <1>4, <1>5, <1>6 DEF LeftPointsRemoved

(***************************************************************************)
(* The other steps leave the tree alone or empty it.                       *)
(***************************************************************************)
LEMMA OtherTreeSteps ==
    ASSUME TreeInv,
           ResetMap \/ BuildMap \/ PrepareLioUpdate \/ Iterate \/ RejectMotionFrame
           \/ UNCHANGED vars
    PROVE  TreeInv'
<1>1. CASE ResetMap
  <2>1. /\ map' = {} /\ entered' = {} /\ initialized' = FALSE
        /\ window' = window /\ stage' = stage /\ stage = "idle" /\ ~built'
    BY <1>1 DEF ResetMap, loop
  <2>2. initialized' \in BOOLEAN
    BY <2>1, Zenon
  <2> QED
    BY <2>1, <2>2 DEF TreeInv, LeftPointsRemoved
<1>2. CASE BuildMap
  <2>1. /\ map' \subseteq Positions /\ entered' = entered /\ initialized' = initialized
        /\ window' = window /\ stage' = stage /\ ~built /\ built'
    BY <1>2, ScansArePositions DEF BuildMap, loop
  <2> QED
    BY <2>1 DEF TreeInv, LeftPointsRemoved, InWindow, Max
<1>3. ASSUME UNCHANGED tree, (built /\ stage' # "insert") \/ stage' = stage
      PROVE  TreeInv'
  BY <1>3 DEF tree, TreeInv, LeftPointsRemoved, InWindow, Max
<1> QED
  BY <1>1, <1>2, <1>3 DEF PrepareLioUpdate, Iterate, RejectMotionFrame, vars, loop,
      TreeInv

LEMMA TreeInductive == TreeInv /\ [Next]_vars => TreeInv'
  BY WindowStep, InsertStep, OtherTreeSteps DEF Next

LEMMA TreeInvariant == Spec => []TreeInv
  BY TreeInit, TreeInductive, PTL DEF Spec

(***************************************************************************)
(* What the window leaves is deleted: mapping.cpp:261-275 removes for each *)
(* axis the slab the window moves out of.                                  *)
(***************************************************************************)
THEOREM LeftPointsAreRemoved == Spec => []LeftPointsRemoved
<1>1. TreeInv => LeftPointsRemoved
  BY DEF TreeInv
<1> QED
  BY <1>1, TreeInvariant, PTL

-----------------------------------------------------------------------------
(* A move of the window *)

(***************************************************************************)
(* A centred axis ends half a side from the LiDAR, and it is centred only  *)
(* when the LiDAR has less than the margin left on it.                     *)
(***************************************************************************)
LEMMA MovedAxis ==
    ASSUME window \in [Axes -> Int], NEW lidar \in Positions, NEW a \in Axes,
           NewBounds(lidar)[a] # window[a]
    PROVE  /\ NewBounds(lidar)[a] = lidar[a] - Half
           /\ \/ lidar[a] - (window[a] + Half) > kMapMaxEdgeMargin
              \/ (window[a] + Half) - lidar[a] > kMapMaxEdgeMargin
<1>1. lidar[a] \in Int /\ window[a] \in Int
  BY PositionsAreIntegers
<1>2. /\ NewBounds(lidar)[a] = lidar[a] - Half
      /\ lidar[a] - window[a] < EdgeMargin \/ Max(window, a) - lidar[a] < EdgeMargin
  BY DEF NewBounds
<1> QED
  BY <1>1, <1>2, Quarters DEF Max

(***************************************************************************)
(* What a slab holds is further from the LiDAR than the margin.            *)
(***************************************************************************)
LEMMA SlabsAreFar ==
    ASSUME window \in [Axes -> Int], NEW lidar \in Positions, NEW a \in Axes,
           NEW p \in Positions, Slab(p, NewBounds(lidar), a)
    PROVE  p[a] < lidar[a] - EdgeMargin \/ p[a] >= lidar[a] + EdgeMargin
<1> DEFINE new == NewBounds(lidar)
<1>1. lidar[a] \in Int /\ window[a] \in Int /\ p[a] \in Int
  BY PositionsAreIntegers
<1>2. new[a] # window[a]
  BY <1>1, WindowsHaveIntegerVertices DEF Slab
<1>3. new[a] = lidar[a] - Half
  BY <1>2, MovedAxis
<1>4. p[a] < new[a] \/ Max(new, a) <= p[a]
  BY DEF Slab
<1> QED
  BY <1>1, <1>3, <1>4, Quarters DEF Max

(***************************************************************************)
(* "A stationary LiDAR must retain a central safety region":               *)
(* mapping.cpp:237-241 cuts the margin to a quarter of the side.           *)
(***************************************************************************)
THEOREM SurroundingsAreKept == Spec => SurroundingsKept
<1>1. ASSUME TreeInv, NEW lidar \in Positions, UpdateLocalMapWindow(lidar)
      PROVE  /\ \A p \in map \ map' : \E a \in Axes :
                   p[a] < lidar[a] - EdgeMargin \/ p[a] >= lidar[a] + EdgeMargin
             /\ initialized => \A a \in Axes : window'[a] # window[a] =>
                   \/ lidar[a] - (window[a] + Half) > kMapMaxEdgeMargin
                   \/ (window[a] + Half) - lidar[a] > kMapMaxEdgeMargin
  <2>1. window \in [Axes -> Int] /\ map \subseteq Positions
    BY <1>1 DEF TreeInv
  <2>2. CASE initialized
    <3>1. window' = NewBounds(lidar) /\ map' = {p \in map : ~ InRemovedBox(p, window')}
      BY <1>1, <2>2 DEF UpdateLocalMapWindow
    <3>2. ASSUME NEW p \in map \ map'
          PROVE  \E a \in Axes :
                    p[a] < lidar[a] - EdgeMargin \/ p[a] >= lidar[a] + EdgeMargin
      <4>1. PICK a \in Axes : Slab(p, NewBounds(lidar), a)
        BY <3>1 DEF InRemovedBox
      <4> QED
        BY <4>1, <2>1, SlabsAreFar
    <3> QED
      BY <2>1, <3>1, <3>2, MovedAxis
  <2>3. CASE ~initialized
    BY <1>1, <2>3 DEF UpdateLocalMapWindow
  <2> QED
    BY <2>2, <2>3
<1>2. TreeInv /\ [Next]_vars =>
        [\A lidar \in Positions : UpdateLocalMapWindow(lidar) =>
           /\ \A p \in map \ map' : \E a \in Axes :
                 p[a] < lidar[a] - EdgeMargin \/ p[a] >= lidar[a] + EdgeMargin
           /\ initialized => \A a \in Axes : window'[a] # window[a] =>
                 \/ lidar[a] - (window[a] + Half) > kMapMaxEdgeMargin
                 \/ (window[a] + Half) - lidar[a] > kMapMaxEdgeMargin]_vars
  BY <1>1
<1> QED
  BY <1>2, TreeInvariant, PTL DEF Spec, SurroundingsKept

-----------------------------------------------------------------------------
(* The matching *)

(***************************************************************************)
(* EvidenceOfThisFrame is inductive with the fact that the first iteration *)
(* of a frame searches, as long as the ones before had nothing to select.  *)
(***************************************************************************)
MatchingInv ==
    /\ EvidenceOfThisFrame
    /\ stage = "iterate" /\ ~converge =>
         \A i \in DOMAIN nearest : nearest[i] \in {"few", "enough"}

LEMMA IterateStep == ASSUME MatchingInv, Iterate PROVE MatchingInv'
<1> USE DEF MatchingInv, EvidenceOfThisFrame, Iterate
<1>1. chosen' \subseteq fitted'
  BY DEF SelectFitted
<1>2. CASE converge
  <2>1. /\ nearest' \in [DOMAIN nearest -> {"few", "enough"}]
        /\ chosen' \subseteq {i \in DOMAIN nearest : nearest'[i] = "enough"}
    BY <1>2 DEF Candidates
  <2> QED
    BY <1>1, <2>1
<1>3. CASE ~converge
  <2>1. nearest' = nearest /\ chosen' \subseteq chosen
    BY <1>3 DEF Candidates
  <2> QED
    BY <1>1, <1>3, <2>1
<1> QED
  BY <1>2, <1>3

LEMMA MatchingInductive == MatchingInv /\ [Next]_vars => MatchingInv'
<1> SUFFICES ASSUME MatchingInv, [Next]_vars PROVE MatchingInv'
  OBVIOUS
<1>1. CASE ResetMap
  BY <1>1 DEF ResetMap, loop, MatchingInv, EvidenceOfThisFrame
<1>2. CASE PrepareLioUpdate
  BY <1>2 DEF PrepareLioUpdate, MatchingInv, EvidenceOfThisFrame
<1>3. CASE Iterate
  BY <1>3, IterateStep
<1>4. ASSUME UNCHANGED <<converge, matching>>,
             stage' \in {"idle", stage} \/ (stage = "verdict" /\ stage' = "insert")
      PROVE  MatchingInv'
  BY <1>4 DEF matching, MatchingInv, EvidenceOfThisFrame
<1>5. CASE BuildMap
  BY <1>5, <1>4 DEF BuildMap, loop
<1>6. CASE RejectMotionFrame
  BY <1>6, <1>4 DEF RejectMotionFrame
<1>7. CASE \E lidar \in Positions : UpdateLocalMapWindow(lidar)
  BY <1>7, <1>4 DEF UpdateLocalMapWindow
<1>8. CASE InsertScanIntoMap
  BY <1>8, <1>4 DEF InsertScanIntoMap
<1>9. CASE UNCHANGED vars
  BY <1>9, <1>4 DEF vars, loop
<1> QED
  BY <1>1, <1>2, <1>3, <1>5, <1>6, <1>7, <1>8, <1>9 DEF Next

(***************************************************************************)
(* No plane of an earlier frame or iteration takes part in the update, and *)
(* none decides what is inserted: mapping.cpp:58-142 with the resize of    *)
(* estimation.cpp:284-290.                                                 *)
(***************************************************************************)
THEOREM EvidenceIsOfThisFrame == Spec => []EvidenceOfThisFrame
<1>1. Init => MatchingInv
  BY DEF Init, MatchingInv, EvidenceOfThisFrame
<1>2. MatchingInv => EvidenceOfThisFrame
  BY DEF MatchingInv
<1> QED
  BY <1>1, <1>2, MatchingInductive, PTL DEF Spec
=============================================================================
