------------------------- MODULE FeatureMatching_proofs -------------------------
(***************************************************************************)
(* What holds of keypoints and correspondences for every number of         *)
(* threads, every set of clouds, any descriptors and thresholds: neither   *)
(* the lost updates of is_valid_ nor the races on the table of the         *)
(* matching can spoil them.                                                *)
(***************************************************************************)
EXTENDS FeatureMatching, NumberLemmas

-----------------------------------------------------------------------------
(* Clouds and threads *)

(***************************************************************************)
(* A radius search returns points of the cloud, of which there are finitely*)
(* many.                                                                   *)
(***************************************************************************)
LEMMA NearIsFinite ==
    ASSUME NEW c \in Clouds, NEW p \in DOMAIN c.near
    PROVE  IsFiniteSet(c.near[p]) /\ DOMAIN c.near \subseteq Nat \ {0}
<1>1. c.near \in Seq(SUBSET (1 .. Len(c.near)))
  BY CloudsAssumption
<1>2. Len(c.near) \in Nat /\ DOMAIN c.near = 1 .. Len(c.near)
  BY <1>1
<1>3. c.near[p] \in SUBSET (1 .. Len(c.near))
  BY <1>1, <1>2
<1>4. IsFiniteSet(1 .. Len(c.near))
  BY <1>2, FS_Interval
<1>5. IsFiniteSet(c.near[p])
  BY <1>3, <1>4, FS_Subset
<1> QED
  BY <1>2, <1>5

(***************************************************************************)
(* is_valid_, what a thread has loaded of it, and the threads.             *)
(***************************************************************************)
Words == UNION {[1 .. n -> BOOLEAN] : n \in Nat}
Pcs == {"free", "load", "store", "collect", "back"}
Threads == [pc : Pcs, point : Nat, word : Words]

ThreadsType == worker \in [Workers -> Threads] /\ isValid \in Words

LEMMA WordsOf ==
    /\ <<>> \in Words
    /\ \A n \in Nat : [1 .. n -> BOOLEAN] \subseteq Words
<1>1. <<>> \in [1 .. 0 -> BOOLEAN]
  OBVIOUS
<1>2. \A n \in Nat : [1 .. n -> BOOLEAN] \subseteq Words
  BY DEF Words
<1> QED
  BY <1>1, <1>2

LEMMA IdleIsThread == Idle \in Threads
  BY WordsOf DEF Idle, Threads, Pcs

LEMMA FlagStored ==
    ASSUME NEW word \in Words, NEW p, NEW flag \in BOOLEAN
    PROVE  [word EXCEPT ![p] = flag] \in Words
<1>1. PICK n \in Nat : word \in [1 .. n -> BOOLEAN]
  BY DEF Words
<1>2. [word EXCEPT ![p] = flag] \in [1 .. n -> BOOLEAN]
  BY <1>1
<1> QED
  BY <1>2, WordsOf

LEMMA ResizedIsWord == ASSUME NEW n \in Nat PROVE Resized(isValid, n) \in Words
<1>1. Resized(isValid, n) \in [1 .. n -> BOOLEAN]
  BY DEF Resized
<1> QED
  BY <1>1, WordsOf

(***************************************************************************)
(* A point that a thread has done with, and that has enough neighbours,    *)
(* has a normal of this cloud, whether or not its flag says so.            *)
(***************************************************************************)
Served(p) == HasNeighbourhood(p) => p \in estimated

FeatureInv ==
    /\ stage \in {"idle", "source", "target", "match", "search", "undefined"}
    /\ ThreadsType
    /\ cloud = [s \in Sides |-> cloud[s]] /\ keypoints = [s \in Sides |-> keypoints[s]]
    /\ stage \in {"idle", "match", "undefined"} => Free
    /\ stage \in Sides =>
         /\ cloud["source"] \in Clouds /\ cloud["target"] \in Clouds
         /\ todo \subseteq DOMAIN cloud[stage].near
         /\ found \subseteq DOMAIN cloud[stage].near
         /\ \A p \in found : Served(p)
         /\ \A w \in Workers : worker[w] # Idle =>
              /\ worker[w].point \in DOMAIN cloud[stage].near
              /\ worker[w].pc \in {"load", "store", "collect"}
              /\ worker[w].pc = "collect" => Served(worker[w].point)
    /\ stage = "search" =>
         /\ todo \subseteq keypoints[SideJ]
         /\ \A w \in Workers : worker[w] # Idle =>
              worker[w].pc = "back" /\ worker[w].point \in keypoints[SideJ]
    /\ stage = "source" => keypoints["source"] = {}
    /\ stage \in Sides => keypoints["target"] = {}
    /\ \A s \in Sides : keypoints[s] \subseteq Nat \ {0}

LEMMA FeatureInit == Init => FeatureInv
  BY IdleIsThread, WordsOf DEF Init, FeatureInv, ThreadsType, Free, Sides

(***************************************************************************)
(* What passes the filter has at least two neighbours with a flag besides  *)
(* itself, so it has enough neighbours for a normal.                       *)
(***************************************************************************)
LEMMA FilteredAreServed ==
    ASSUME FeatureInv, stage \in Sides, NEW p \in WithoutNaN(found)
    PROVE  p \in estimated /\ NumAllValidPoints(p) > 0 /\ p \in Nat \ {0}
<1>1. /\ p \in found /\ Served(p) /\ cloud[stage] \in Clouds
      /\ p \in DOMAIN cloud[stage].near
      /\ Cardinality(ValidNear(p)) >= 3
  BY DEF WithoutNaN, FeatureInv, MinimumNumValid, Sides
<1>2. IsFiniteSet(Near(p)) /\ ValidNear(p) \in SUBSET Near(p) /\ p \in Nat \ {0}
  BY <1>1, NearIsFinite DEF Near, ValidNear
<1>3. /\ IsFiniteSet(ValidNear(p)) /\ Cardinality(Near(p)) \in Nat
      /\ Cardinality(ValidNear(p)) \in Nat
      /\ Cardinality(ValidNear(p)) <= Cardinality(Near(p))
  BY <1>2, FS_Subset, FS_CardinalityType
<1>4. HasNeighbourhood(p)
  BY <1>1, <1>3 DEF HasNeighbourhood
<1>5. Cardinality(ValidNear(p) \ {p}) =
        IF p \in ValidNear(p) THEN Cardinality(ValidNear(p)) - 1
                              ELSE Cardinality(ValidNear(p))
  BY <1>3, FS_RemoveElement
<1>6. NumAllValidPoints(p) > 0
  BY <1>1, <1>3, <1>5 DEF NumAllValidPoints
<1>7. p \in estimated
  BY <1>1, <1>4 DEF Served
<1> QED
  BY <1>2, <1>6, <1>7

(***************************************************************************)
(* A thread that moves on, while the others stay where they are.           *)
(***************************************************************************)
LEMMA OneThread ==
    ASSUME ThreadsType, NEW w \in Workers, NEW t \in Threads, isValid' \in Words,
           worker' = [worker EXCEPT ![w] = t]
    PROVE  /\ ThreadsType' /\ worker'[w] = t
           /\ \A v \in Workers \ {w} : worker'[v] = worker[v]
  BY DEF ThreadsType

LEMMA MatchStep ==
    ASSUME FeatureInv, NEW source \in Clouds, NEW target \in Clouds,
           Match(source, target)
    PROVE  FeatureInv'
<1>1. /\ stage = "idle" /\ stage' = "source" /\ worker' = worker
      /\ cloud' = [source |-> source, target |-> target]
      /\ keypoints' = [s \in Sides |-> {}]
      /\ found' = {} /\ todo' = DOMAIN source.near
      /\ isValid' = Resized(isValid, Len(source.near))
  BY DEF Match, SetInputCloud
<1>2. cloud' = [s \in Sides |-> cloud'[s]] /\ cloud'["source"] = source
      /\ cloud'["target"] = target
  BY <1>1 DEF Sides
<1>3. isValid' \in Words
  BY <1>1, ResizedIsWord, CloudsAssumption
<1> QED
  BY <1>1, <1>2, <1>3 DEF FeatureInv, ThreadsType, Free, Sides, Served

LEMMA TakePointStep ==
    ASSUME FeatureInv, NEW w \in Workers, TakePoint(w) PROVE FeatureInv'
<1>1. PICK p \in todo :
        /\ todo' = todo \ {p}
        /\ worker' = [worker EXCEPT ![w] =
             [Idle EXCEPT !.pc = IF HasNeighbourhood(p) THEN "load" ELSE "collect",
                          !.point = p]]
  BY DEF TakePoint
<1>2. /\ stage \in Sides
      /\ UNCHANGED <<stage, cloud, isValid, estimated, found, keypoints>>
  BY DEF TakePoint, features
<1>3. p \in DOMAIN cloud[stage].near /\ cloud[stage] \in Clouds
  BY <1>2 DEF FeatureInv, Sides
<1>4. p \in Nat
  BY <1>3, NearIsFinite
<1> DEFINE t == [Idle EXCEPT !.pc = IF HasNeighbourhood(p) THEN "load" ELSE "collect",
                             !.point = p]
<1>5. /\ t \in Threads /\ t.point = p
      /\ t.pc = IF HasNeighbourhood(p) THEN "load" ELSE "collect"
  BY <1>4, WordsOf DEF Idle, Threads, Pcs
<1> HIDE DEF t
<1>6. /\ ThreadsType' /\ worker'[w] = t
      /\ \A v \in Workers \ {w} : worker'[v] = worker[v]
  BY <1>1, <1>2, <1>5, OneThread DEF FeatureInv, ThreadsType, t
<1> QED
  BY <1>1, <1>2, <1>3, <1>5, <1>6
     DEF FeatureInv, Served, HasNeighbourhood, Near, Sides

(***************************************************************************)
(* The steps of a thread that has a point: only a stored flag takes it on  *)
(* to the collection.                                                      *)
(***************************************************************************)
LEMMA ThreadStep ==
    ASSUME FeatureInv, NEW w \in Workers, worker[w] # Idle, NEW t \in Threads,
           stage \in Sides, isValid' \in Words,
           UNCHANGED <<stage, cloud, todo, keypoints>>,
           worker' = [worker EXCEPT ![w] = t],
           estimated \subseteq estimated',
           \/ t = Idle
           \/ /\ t.point = worker[w].point /\ t.pc \in {"load", "store", "collect"}
              /\ t.pc = "collect" => t.point \in estimated',
           \/ found' = found
           \/ found' = found \cup {worker[w].point} /\ worker[w].pc = "collect"
    PROVE  FeatureInv'
<1>1. /\ ThreadsType' /\ worker'[w] = t
      /\ \A v \in Workers \ {w} : worker'[v] = worker[v]
  BY OneThread DEF FeatureInv
<1>2. \A p \in found' : p \in DOMAIN cloud[stage].near
                         /\ (HasNeighbourhood(p) => p \in estimated')
  BY DEF FeatureInv, Served
<1>3. ASSUME NEW v \in Workers, worker'[v] # Idle
      PROVE  /\ worker'[v].point \in DOMAIN cloud[stage].near
             /\ worker'[v].pc \in {"load", "store", "collect"}
             /\ worker'[v].pc = "collect" /\ HasNeighbourhood(worker'[v].point) =>
                  worker'[v].point \in estimated'
  <2>1. CASE v = w
    <3>1. t # Idle /\ worker'[v] = t
      BY <2>1, <1>1, <1>3
    <3>2. /\ t.point = worker[w].point
          /\ t.pc \in {"load", "store", "collect"}
          /\ t.pc = "collect" => t.point \in estimated'
      BY <3>1
    <3>3. worker[w].point \in DOMAIN cloud[stage].near
      BY DEF FeatureInv
    <3> QED
      BY <3>1, <3>2, <3>3
  <2>2. CASE v # w
    <3>1. worker'[v] = worker[v] /\ worker[v] # Idle
      BY <2>2, <1>1, <1>3
    <3>2. /\ worker[v].point \in DOMAIN cloud[stage].near
          /\ worker[v].pc \in {"load", "store", "collect"}
          /\ worker[v].pc = "collect" => Served(worker[v].point)
      BY <3>1 DEF FeatureInv
    <3> QED
      BY <3>1, <3>2 DEF Served
  <2> QED
    BY <2>1, <2>2
<1>4. /\ \A p \in found' : Served(p)'
      /\ \A v \in Workers : (worker[v] # Idle)' =>
           (worker[v].pc = "collect" => Served(worker[v].point))'
  BY <1>2, <1>3 DEF Served, HasNeighbourhood, Near
<1> QED
  BY <1>1, <1>2, <1>3, <1>4 DEF FeatureInv, Sides, Idle

LEMMA PointSteps ==
    ASSUME FeatureInv, NEW w \in Workers, LoadWord(w) \/ StoreWord(w) \/ CollectPoint(w)
    PROVE  FeatureInv'
<1>1. worker[w].pc \in {"load", "store", "collect"} /\ worker[w] # Idle
  BY DEF LoadWord, StoreWord, CollectPoint, Idle
<1>2. stage \in Sides
  BY <1>1 DEF FeatureInv, Free, Sides
<1>3. worker[w] \in Threads /\ worker[w].word \in Words /\ isValid \in Words
  BY DEF FeatureInv, ThreadsType, Threads
<1>4. CASE LoadWord(w)
  <2> DEFINE t == [worker[w] EXCEPT !.pc = "store", !.word = isValid]
  <2>1. worker' = [worker EXCEPT ![w] = t]
    BY <1>4 DEF LoadWord, FeatureInv, ThreadsType
  <2>2. t \in Threads /\ t.point = worker[w].point /\ t.pc = "store"
    BY <1>3 DEF Threads, Pcs
  <2>3. UNCHANGED <<stage, cloud, todo, keypoints, isValid, estimated, found>>
    BY <1>4 DEF LoadWord, features
  <2> HIDE DEF t
  <2> QED
    BY <1>1, <1>2, <1>3, <2>1, <2>2, <2>3, ThreadStep
<1>5. CASE StoreWord(w)
  <2> DEFINE t == [worker[w] EXCEPT !.pc = "collect", !.word = <<>>]
  <2>1. worker' = [worker EXCEPT ![w] = t]
    BY <1>5 DEF StoreWord, FeatureInv, ThreadsType
  <2>2. t \in Threads /\ t.point = worker[w].point /\ t.pc = "collect"
    BY <1>3, WordsOf DEF Threads, Pcs
  <2>3. /\ UNCHANGED <<stage, cloud, todo, keypoints, found>>
        /\ estimated' = estimated \cup {worker[w].point}
        /\ isValid' = [worker[w].word EXCEPT ![worker[w].point] =
                          worker[w].point \in cloud[stage].planar]
    BY <1>5 DEF StoreWord
  <2>4. isValid' \in Words
    <3>1. (worker[w].point \in cloud[stage].planar) \in BOOLEAN
      OBVIOUS
    <3> QED
      BY <1>3, <2>3, <3>1, FlagStored, Zenon
  <2> HIDE DEF t
  <2> QED
    BY <1>1, <1>2, <2>1, <2>2, <2>3, <2>4, ThreadStep
<1>6. CASE CollectPoint(w)
  <2>1. /\ UNCHANGED <<stage, cloud, todo, keypoints, isValid, estimated>>
        /\ worker' = [worker EXCEPT ![w] = Idle] /\ worker[w].pc = "collect"
        /\ found' = found \/ found' = found \cup {worker[w].point}
    BY <1>6 DEF CollectPoint
  <2> QED
    BY <1>1, <1>2, <1>3, <2>1, IdleIsThread, ThreadStep
<1> QED
  BY <1>4, <1>5, <1>6

LEMMA FinishStep == ASSUME FeatureInv, FinishFeatures PROVE FeatureInv'
<1>1. /\ stage \in Sides /\ todo = {} /\ Free /\ worker' = worker /\ cloud' = cloud
      /\ keypoints' = [keypoints EXCEPT ![stage] = WithoutNaN(found)]
  BY DEF FinishFeatures
<1>2. WithoutNaN(found) \subseteq Nat \ {0}
  BY <1>1, FilteredAreServed
<1>3. /\ keypoints' = [s \in Sides |-> keypoints'[s]]
      /\ \A s \in Sides : keypoints'[s] \subseteq Nat \ {0}
      /\ \A s \in Sides \ {stage} : keypoints'[s] = keypoints[s]
  BY <1>1, <1>2 DEF FeatureInv
<1>4. Free'
  BY <1>1 DEF Free
<1>5. CASE stage = "source"
  <2>1. /\ stage' = "target" /\ found' = {} /\ todo' = DOMAIN cloud["target"].near
        /\ isValid' = Resized(isValid, Len(cloud["target"].near))
    BY <1>5 DEF FinishFeatures, SetInputCloud
  <2>2. cloud["source"] \in Clouds /\ cloud["target"] \in Clouds
    BY <1>1 DEF FeatureInv
  <2>3. isValid' \in Words
    BY <2>1, <2>2, ResizedIsWord, CloudsAssumption
  <2>4. keypoints'["target"] = {}
    BY <1>1, <1>3, <1>5 DEF FeatureInv, Sides
  <2> QED
    BY <1>1, <1>3, <1>4, <2>1, <2>2, <2>3, <2>4
       DEF FeatureInv, ThreadsType, Free, Sides, Served
<1>6. CASE stage = "target"
  BY <1>1, <1>3, <1>4, <1>6 DEF FinishFeatures, features, FeatureInv, ThreadsType, Sides
<1> QED
  BY <1>1, <1>5, <1>6 DEF Sides

(***************************************************************************)
(* A step of a thread in the search.                                       *)
(***************************************************************************)
LEMMA SearchThread ==
    ASSUME FeatureInv, NEW w \in Workers, NEW t \in Threads, stage = "search",
           UNCHANGED <<stage, cloud, features, keypoints>>,
           todo' \subseteq todo, worker' = [worker EXCEPT ![w] = t],
           t = Idle \/ (t.pc = "back" /\ t.point \in keypoints[SideJ])
    PROVE  FeatureInv'
<1>1. isValid' \in Words /\ isValid' = isValid /\ estimated' = estimated /\ found' = found
  BY DEF FeatureInv, ThreadsType, features
<1>2. /\ ThreadsType' /\ worker'[w] = t
      /\ \A v \in Workers \ {w} : worker'[v] = worker[v]
  BY <1>1, OneThread DEF FeatureInv
<1>3. SideJ' = SideJ
  BY DEF SideJ, Swapped
<1> QED
  BY <1>1, <1>2, <1>3 DEF FeatureInv, Sides

LEMMA SidesInSides == SideI \in Sides /\ SideJ \in Sides
  BY DEF SideI, SideJ, Sides

LEMMA SearchSteps ==
    ASSUME FeatureInv, BeginSearch \/ PruneOutliers
                       \/ \E w \in Workers : SearchForward(w) \/ SearchBack(w)
    PROVE  FeatureInv'
<1>1. CASE BeginSearch
  <2>1. /\ stage = "match" /\ stage' \in {"undefined", "search"}
        /\ stage' = "search" => todo' = keypoints[SideJ]
        /\ UNCHANGED <<cloud, isValid, estimated, found, worker, keypoints>>
    BY <1>1 DEF BeginSearch, features
  <2>2. SideJ' = SideJ
    BY <2>1 DEF SideJ, Swapped
  <2> QED
    BY <2>1, <2>2 DEF FeatureInv, ThreadsType, Free, Sides
<1>2. CASE PruneOutliers
  BY <1>2 DEF PruneOutliers, features, FeatureInv, ThreadsType, Free, Sides
<1>3. ASSUME NEW w \in Workers, SearchForward(w) PROVE FeatureInv'
  <2>1. PICK j \in todo :
          /\ todo' = todo \ {j}
          /\ \/ worker' = worker
             \/ worker' = [worker EXCEPT ![w] = [Idle EXCEPT !.pc = "back", !.point = j]]
    BY <1>3 DEF SearchForward
  <2>2. /\ stage = "search" /\ worker[w] = Idle
        /\ UNCHANGED <<stage, cloud, features, keypoints>>
    BY <1>3 DEF SearchForward
  <2>3. j \in keypoints[SideJ] /\ j \in Nat
    BY <2>2, SidesInSides DEF FeatureInv
  <2>4. CASE worker' = worker
    <3>1. worker' = [worker EXCEPT ![w] = Idle]
      BY <2>2, <2>4 DEF FeatureInv, ThreadsType
    <3> QED
      BY <3>1, <2>1, <2>2, IdleIsThread, SearchThread
  <2>5. CASE worker' = [worker EXCEPT ![w] = [Idle EXCEPT !.pc = "back", !.point = j]]
    <3> DEFINE t == [Idle EXCEPT !.pc = "back", !.point = j]
    <3>1. t \in Threads /\ t.pc = "back" /\ t.point = j
      BY <2>3, WordsOf DEF Idle, Threads, Pcs
    <3> QED
      BY <3>1, <2>1, <2>2, <2>3, <2>5, SearchThread
  <2> QED
    BY <2>1, <2>4, <2>5
<1>4. ASSUME NEW w \in Workers, SearchBack(w) PROVE FeatureInv'
  <2>1. worker[w].pc = "back" /\ worker[w] # Idle
    BY <1>4 DEF SearchBack, Idle
  <2>2. stage = "search"
    BY <2>1 DEF FeatureInv, Free, Sides
  <2> QED
    BY <1>4, <2>2, IdleIsThread, SearchThread DEF SearchBack
<1> QED
  BY <1>1, <1>2, <1>3, <1>4

LEMMA FeatureInductive == FeatureInv /\ [Next]_vars => FeatureInv'
<1> SUFFICES ASSUME FeatureInv, [Next]_vars PROVE FeatureInv'
  OBVIOUS
<1>1. CASE UNCHANGED vars
  <2>1. SideJ' = SideJ
    BY <1>1 DEF vars, SideJ, Swapped
  <2> QED
    BY <1>1, <2>1 DEF vars, features, FeatureInv, ThreadsType, Free, Served,
         HasNeighbourhood, Near
<1> QED
  BY <1>1, MatchStep, TakePointStep, PointSteps, FinishStep, SearchSteps DEF Next

LEMMA FeatureInvariant == Spec => []FeatureInv
  BY FeatureInit, FeatureInductive, PTL DEF Spec

(***************************************************************************)
(* FilterIndicesCausingNaN (FasterPFH.cpp:474-499): whatever is lost of    *)
(* is_valid_ and whatever an earlier cloud left in it.                     *)
(***************************************************************************)
THEOREM KeypointsAreOfThisCloud == Spec => KeypointsOfThisCloud
<1>1. ASSUME FeatureInv, [Next]_vars, stage \in Sides, NEW p \in keypoints'[stage]
      PROVE  p \in estimated /\ NumAllValidPoints(p) > 0
  <2>1. CASE FinishFeatures
    <3>1. keypoints'[stage] = WithoutNaN(found)
      BY <1>1, <2>1 DEF FinishFeatures, FeatureInv
    <3> QED
      BY <1>1, <3>1, FilteredAreServed
  <2>2. CASE keypoints' = keypoints
    BY <1>1, <2>2 DEF FeatureInv, Sides
  <2>3. FinishFeatures \/ keypoints' = keypoints
    BY <1>1 DEF Next, vars, Match, TakePoint, LoadWord, StoreWord, CollectPoint,
         BeginSearch, SearchForward, SearchBack, PruneOutliers, Sides
  <2> QED
    BY <2>1, <2>2, <2>3
<1>2. FeatureInv /\ [Next]_vars =>
        [(stage \in Sides) =>
           \A p \in keypoints'[stage] : p \in estimated /\ NumAllValidPoints(p) > 0]_vars
  BY <1>1
<1> QED
  BY <1>2, FeatureInvariant, PTL DEF Spec, KeypointsOfThisCloud

-----------------------------------------------------------------------------
(* Nearest neighbours *)

(***************************************************************************)
(* j has no nearer keypoint than i in i's cloud, and the other way round.  *)
(***************************************************************************)
IsNearestI(i, j) ==
    i \in keypoints[SideI]
      /\ \A k \in keypoints[SideI] : DistanceIJ(i, j) <= DistanceIJ(k, j)
IsNearestJ(i, j) ==
    j \in keypoints[SideJ]
      /\ \A k \in keypoints[SideJ] : DistanceIJ(i, j) <= DistanceIJ(i, k)

(***************************************************************************)
(* What the threads have written so far, in whatever order: an entry of    *)
(* i_to_j_ is the nearest of its i, one of j_to_i_ the nearest of its j    *)
(* and within the threshold; a thread that searches back has found an i    *)
(* within it.                                                              *)
(***************************************************************************)
TableFacts ==
    /\ \A s \in Sides : /\ keypoints[s] # {}
                        /\ descriptor[s] \in [keypoints[s] -> Descriptors]
    /\ iToJ \in [keypoints[SideI] -> Nat] /\ jToI \in [keypoints[SideJ] -> Nat]
    /\ \A i \in keypoints[SideI] : iToJ[i] # 0 => IsNearestJ(i, iToJ[i])
    /\ \A j \in keypoints[SideJ] : jToI[j] # 0 =>
         IsNearestI(jToI[j], j) /\ DistanceIJ(jToI[j], j) <= ThrDist
    /\ \A w \in Workers : worker[w] # Idle =>
         \E i \in keypoints[SideI] : DistanceIJ(i, worker[w].point) <= ThrDist

SearchInv == (stage = "search" => TableFacts) /\ MatchesMutual

LEMMA SidesDiffer ==
    /\ Swapped => SideI = "target" /\ SideJ = "source"
    /\ ~Swapped => SideI = "source" /\ SideJ = "target"
  BY DEF SideI, SideJ

LEMMA Distances ==
    ASSUME TableFacts, NEW i \in keypoints[SideI], NEW j \in keypoints[SideJ]
    PROVE  DistanceIJ(i, j) \in Nat
<1>1. \A s \in keypoints["source"], t \in keypoints["target"] :
        descriptor["source"][s] \in Nat /\ descriptor["target"][t] \in Nat
  BY MatchingAssumption DEF TableFacts, Sides
<1>2. \A s \in keypoints["source"], t \in keypoints["target"] : Distance(s, t) \in Nat
  BY <1>1 DEF Distance
<1> QED
  BY <1>2, SidesDiffer DEF DistanceIJ

(***************************************************************************)
(* The searches of the k-d trees return a nearest one.                     *)
(***************************************************************************)
LEMMA NearestIExists ==
    ASSUME TableFacts, NEW j \in keypoints[SideJ]
    PROVE  IsNearestI(NearestI(j), j)
<1> DEFINE T == {DistanceIJ(k, j) : k \in keypoints[SideI]}
<1>1. T \in SUBSET Nat /\ T # {}
  BY Distances, SidesInSides DEF TableFacts
<1>2. \E x \in T : \A y \in T : x <= y
  <2> HIDE DEF T
  <2> QED
    BY <1>1, LeastNatural
<1>3. \E i \in keypoints[SideI] : \A k \in keypoints[SideI] :
        DistanceIJ(i, j) <= DistanceIJ(k, j)
  BY <1>2
<1> QED
  BY <1>3, Zenon DEF NearestI, IsNearestI

LEMMA NearestJExists ==
    ASSUME TableFacts, NEW i \in keypoints[SideI]
    PROVE  IsNearestJ(i, NearestJ(i))
<1> DEFINE T == {DistanceIJ(i, k) : k \in keypoints[SideJ]}
<1>1. T \in SUBSET Nat /\ T # {}
  BY Distances, SidesInSides DEF TableFacts
<1>2. \E x \in T : \A y \in T : x <= y
  <2> HIDE DEF T
  <2> QED
    BY <1>1, LeastNatural
<1>3. \E j \in keypoints[SideJ] : \A k \in keypoints[SideJ] :
        DistanceIJ(i, j) <= DistanceIJ(i, k)
  BY <1>2
<1> QED
  BY <1>3, Zenon DEF NearestJ, IsNearestJ

(***************************************************************************)
(* Keypoints and descriptors stay as they are in a search, and so do the   *)
(* distances.                                                              *)
(***************************************************************************)
LEMMA SameDistances ==
    ASSUME UNCHANGED <<keypoints, descriptor>>
    PROVE  /\ SideI' = SideI /\ SideJ' = SideJ
           /\ \A i, j : /\ DistanceIJ(i, j)' = DistanceIJ(i, j)
                        /\ IsNearestI(i, j)' = IsNearestI(i, j)
                        /\ IsNearestJ(i, j)' = IsNearestJ(i, j)
  BY DEF SideI, SideJ, Swapped, DistanceIJ, Distance, IsNearestI, IsNearestJ

LEMMA BeginSearchStep ==
    ASSUME FeatureInv, BeginSearch PROVE SearchInv'
<1>1. stage = "match" /\ stage' \in {"undefined", "search"} /\ keypoints' = keypoints
      /\ worker' = worker /\ Free
  BY DEF BeginSearch, FeatureInv
<1>2. ASSUME stage' = "search" PROVE TableFacts'
  <2>1. \A s \in Sides : keypoints[s] # {}
    BY <1>2 DEF BeginSearch
  <2>2. PICK s \in Descriptions(keypoints["source"]), t \in Descriptions(keypoints["target"]) :
          descriptor' = [source |-> s, target |-> t]
    BY <1>2, <2>1 DEF BeginSearch
  <2>3. \A side \in Sides : descriptor'[side] \in [keypoints[side] -> Descriptors]
    BY <2>2 DEF Sides, Descriptions
  <2>4. /\ iToJ' = [i \in keypoints[SideI] |-> 0] /\ jToI' = [j \in keypoints[SideJ] |-> 0]
    BY <1>2, <2>1 DEF BeginSearch
  <2>5. SideI' = SideI /\ SideJ' = SideJ
    BY <1>1 DEF SideI, SideJ, Swapped
  <2> QED
    BY <1>1, <2>1, <2>3, <2>4, <2>5 DEF TableFacts, Free
<1> QED
  BY <1>1, <1>2 DEF SearchInv, MatchesMutual

(***************************************************************************)
(* Only the tables and the threads change in the search.                   *)
(***************************************************************************)
LEMMA TablesPrimed ==
    ASSUME \A s \in Sides : /\ keypoints[s] # {}
                            /\ descriptor[s] \in [keypoints[s] -> Descriptors],
           UNCHANGED <<keypoints, descriptor>>,
           iToJ' \in [keypoints[SideI] -> Nat], jToI' \in [keypoints[SideJ] -> Nat],
           \A i \in keypoints[SideI] : iToJ'[i] # 0 => IsNearestJ(i, iToJ'[i]),
           \A j \in keypoints[SideJ] : jToI'[j] # 0 =>
             IsNearestI(jToI'[j], j) /\ DistanceIJ(jToI'[j], j) <= ThrDist,
           \A w \in Workers : worker'[w] # Idle =>
             \E i \in keypoints[SideI] : DistanceIJ(i, worker'[w].point) <= ThrDist
    PROVE  TableFacts'
<1>1. SideI' = SideI /\ SideJ' = SideJ /\ Swapped' = Swapped
  BY DEF SideI, SideJ, Swapped
<1>2. (\A s \in Sides : /\ keypoints[s] # {}
                        /\ descriptor[s] \in [keypoints[s] -> Descriptors])'
  OBVIOUS
<1>3. (\A i \in keypoints[SideI] : iToJ[i] # 0 => IsNearestJ(i, iToJ[i]))'
  BY <1>1 DEF IsNearestJ, DistanceIJ, Distance
<1>4. (\A j \in keypoints[SideJ] : jToI[j] # 0 =>
         IsNearestI(jToI[j], j) /\ DistanceIJ(jToI[j], j) <= ThrDist)'
  BY <1>1 DEF IsNearestI, DistanceIJ, Distance
<1>5. (\A w \in Workers : worker[w] # Idle =>
         \E i \in keypoints[SideI] : DistanceIJ(i, worker[w].point) <= ThrDist)'
  BY <1>1 DEF DistanceIJ, Distance, Idle
<1> QED
  BY <1>1, <1>2, <1>3, <1>4, <1>5 DEF TableFacts

LEMMA SearchForwardStep ==
    ASSUME FeatureInv, SearchInv, NEW w \in Workers, SearchForward(w)
    PROVE  SearchInv'
<1>1. /\ stage = "search" /\ stage' = "search" /\ worker[w] = Idle /\ TableFacts
      /\ UNCHANGED <<keypoints, descriptor, iToJ>>
  BY DEF SearchForward, SearchInv
<1>2. PICK j \in todo :
        \/ worker' = worker /\ jToI' = jToI
        \/ /\ DistanceIJ(NearestI(j), j) <= ThrDist
           /\ jToI' = [jToI EXCEPT ![j] = NearestI(j)] /\ worker' = worker
        \/ /\ ~ (DistanceIJ(NearestI(j), j) > ThrDist) /\ jToI' = jToI
           /\ worker' = [worker EXCEPT ![w] = [Idle EXCEPT !.pc = "back", !.point = j]]
  BY DEF SearchForward
<1>3. j \in keypoints[SideJ]
  BY <1>1 DEF FeatureInv
<1>4. IsNearestI(NearestI(j), j) /\ NearestI(j) \in keypoints[SideI]
  BY <1>1, <1>3, NearestIExists DEF IsNearestI
<1>5. /\ DistanceIJ(NearestI(j), j) \in Nat /\ ThrDist \in Nat
      /\ NearestI(j) \in Nat
  BY <1>1, <1>3, <1>4, Distances, SidesInSides, MatchingAssumption DEF FeatureInv
<1>7. /\ jToI' \in [keypoints[SideJ] -> Nat]
      /\ \A k \in keypoints[SideJ] : jToI'[k] # 0 =>
           IsNearestI(jToI'[k], k) /\ DistanceIJ(jToI'[k], k) <= ThrDist
  BY <1>1, <1>2, <1>3, <1>4, <1>5 DEF TableFacts
<1>8. ASSUME NEW v \in Workers, worker'[v] # Idle
      PROVE  \E i \in keypoints[SideI] : DistanceIJ(i, worker'[v].point) <= ThrDist
  <2>1. CASE worker'[v] = worker[v]
    BY <1>1, <1>8, <2>1 DEF TableFacts
  <2>2. CASE worker'[v] # worker[v]
    <3>1. /\ ~ (DistanceIJ(NearestI(j), j) > ThrDist)
          /\ worker' = [worker EXCEPT ![w] = [Idle EXCEPT !.pc = "back", !.point = j]]
      BY <1>2, <2>2
    <3>2. v = w /\ worker'[v].point = j
      BY <2>2, <3>1 DEF FeatureInv, ThreadsType, Idle
    <3> QED
      BY <1>4, <1>5, <3>1, <3>2
  <2> QED
    BY <2>1, <2>2
<1>9. TableFacts'
  BY <1>1, <1>7, <1>8, TablesPrimed DEF TableFacts
<1> QED
  BY <1>1, <1>9 DEF SearchInv, MatchesMutual

LEMMA SearchBackStep ==
    ASSUME FeatureInv, SearchInv, NEW w \in Workers, SearchBack(w)
    PROVE  SearchInv'
<1>1. worker[w].pc = "back" /\ worker[w] # Idle
  BY DEF SearchBack, Idle
<1>2. /\ stage = "search" /\ stage' = "search" /\ TableFacts
      /\ UNCHANGED <<keypoints, descriptor>>
  BY <1>1 DEF SearchBack, SearchInv, FeatureInv, Free, Sides
<1> DEFINE j == worker[w].point
           i == NearestI(j)
<1>3. /\ iToJ' = [iToJ EXCEPT ![i] = NearestJ(i)] /\ jToI' = [jToI EXCEPT ![j] = i]
      /\ worker' = [worker EXCEPT ![w] = Idle]
  BY DEF SearchBack, SearchedBack
<1>4. j \in keypoints[SideJ]
  BY <1>1, <1>2 DEF FeatureInv
<1>5. IsNearestI(i, j) /\ i \in keypoints[SideI]
  BY <1>2, <1>4, NearestIExists DEF IsNearestI
<1>6. IsNearestJ(i, NearestJ(i)) /\ NearestJ(i) \in keypoints[SideJ]
  BY <1>2, <1>5, NearestJExists DEF IsNearestJ
<1>7. i \in Nat /\ NearestJ(i) \in Nat
  BY <1>5, <1>6, SidesInSides DEF FeatureInv
<1>8. PICK k \in keypoints[SideI] : DistanceIJ(k, j) <= ThrDist
  BY <1>1, <1>2 DEF TableFacts
<1>9. DistanceIJ(i, j) <= ThrDist
  <2>1. DistanceIJ(i, j) \in Nat /\ DistanceIJ(k, j) \in Nat /\ ThrDist \in Nat
    BY <1>2, <1>4, <1>5, Distances, MatchingAssumption
  <2>2. DistanceIJ(i, j) <= DistanceIJ(k, j)
    BY <1>5 DEF IsNearestI
  <2> QED
    BY <1>8, <2>1, <2>2
<1> HIDE DEF i, j
<1>11. /\ iToJ' \in [keypoints[SideI] -> Nat]
       /\ \A a \in keypoints[SideI] : iToJ'[a] # 0 => IsNearestJ(a, iToJ'[a])
  BY <1>2, <1>3, <1>5, <1>6, <1>7 DEF TableFacts
<1>12. /\ jToI' \in [keypoints[SideJ] -> Nat]
       /\ \A b \in keypoints[SideJ] : jToI'[b] # 0 =>
            IsNearestI(jToI'[b], b) /\ DistanceIJ(jToI'[b], b) <= ThrDist
  BY <1>2, <1>3, <1>4, <1>5, <1>7, <1>9 DEF TableFacts
<1>13. ASSUME NEW v \in Workers, worker'[v] # Idle
       PROVE  worker'[v] = worker[v]
  BY <1>3, <1>13 DEF FeatureInv, ThreadsType
<1>14. \A v \in Workers : worker'[v] # Idle =>
         \E a \in keypoints[SideI] : DistanceIJ(a, worker'[v].point) <= ThrDist
  BY <1>2, <1>13 DEF TableFacts
<1>15. TableFacts'
  BY <1>2, <1>11, <1>12, <1>14, TablesPrimed DEF TableFacts
<1> QED
  BY <1>2, <1>15 DEF SearchInv, MatchesMutual

(***************************************************************************)
(* What the pruning may keep are pairs whose two entries agree: each of    *)
(* them the nearest of the other, and the tables make them one to one.     *)
(***************************************************************************)
LEMMA PairsAreMutual ==
    ASSUME TableFacts, \A s \in Sides : keypoints[s] \subseteq Nat \ {0}
    PROVE  /\ \A c \in MatchedPairs :
                /\ c = <<c[1], c[2]>>
                /\ IsNearestI(c[1], c[2]) /\ IsNearestJ(c[1], c[2])
                /\ DistanceIJ(c[1], c[2]) <= ThrDist
           /\ \A c, d \in MatchedPairs : c[1] = d[1] <=> c[2] = d[2]
<1>1. ASSUME NEW c \in MatchedPairs
      PROVE  /\ c = <<c[1], c[2]>> /\ c[2] \in keypoints[SideJ]
             /\ c[1] = jToI[c[2]] /\ iToJ[c[1]] = c[2] /\ jToI[c[2]] # 0
  BY DEF MatchedPairs, TableFacts
<1>2. ASSUME NEW c \in MatchedPairs
      PROVE  /\ IsNearestI(c[1], c[2]) /\ IsNearestJ(c[1], c[2])
             /\ DistanceIJ(c[1], c[2]) <= ThrDist
  <2>1. IsNearestI(c[1], c[2]) /\ DistanceIJ(c[1], c[2]) <= ThrDist
    BY <1>1 DEF TableFacts
  <2>2. c[1] \in keypoints[SideI]
    BY <2>1 DEF IsNearestI
  <2>3. c[2] # 0
    BY <1>1, SidesInSides
  <2> QED
    BY <1>1, <2>1, <2>2, <2>3 DEF TableFacts
<1> QED
  BY <1>1, <1>2

LEMMA PruneStep ==
    ASSUME FeatureInv, SearchInv, PruneOutliers PROVE SearchInv'
<1>1. /\ stage' = "idle" /\ TableFacts /\ UNCHANGED <<keypoints, descriptor>>
      /\ \A s \in Sides : keypoints[s] \subseteq Nat \ {0}
  BY DEF PruneOutliers, SearchInv, FeatureInv
<1>2. PICK pairs \in Truncated(MatchedPairs) :
        \E inliers \in Compatible(pairs) : corres' = InInputOrder(inliers)
  BY DEF PruneOutliers
<1>3. PICK inliers \in Compatible(pairs) : corres' = InInputOrder(inliers)
  BY <1>2
<1>4. inliers \subseteq MatchedPairs
  BY <1>2, <1>3 DEF Truncated, Compatible
<1>5. /\ \A c \in inliers : /\ c = <<c[1], c[2]>>
                            /\ IsNearestI(c[1], c[2]) /\ IsNearestJ(c[1], c[2])
                            /\ DistanceIJ(c[1], c[2]) <= ThrDist
      /\ \A c, d \in inliers : c[1] = d[1] <=> c[2] = d[2]
  BY <1>1, <1>4, PairsAreMutual
<1>6. \A s, t : Distance(s, t)' = Distance(s, t)
  BY <1>1 DEF Distance
<1>7. CASE Swapped
  <2>1. corres' = {<<c[2], c[1]>> : c \in inliers}
    BY <1>3, <1>7 DEF InInputOrder
  <2>2. ASSUME NEW e \in corres'
        PROVE  /\ e \in keypoints["source"] \X keypoints["target"]
               /\ Distance(e[1], e[2]) <= ThrDist
               /\ \A s \in keypoints["source"] : Distance(e[1], e[2]) <= Distance(s, e[2])
               /\ \A t \in keypoints["target"] : Distance(e[1], e[2]) <= Distance(e[1], t)
    <3>1. PICK c \in inliers : e = <<c[2], c[1]>>
      BY <2>1
    <3>2. /\ IsNearestI(c[1], c[2]) /\ IsNearestJ(c[1], c[2])
          /\ DistanceIJ(c[1], c[2]) <= ThrDist
      BY <1>5
    <3>3. e[1] = c[2] /\ e[2] = c[1]
      BY <3>1
    <3> QED
      BY <1>7, <3>1, <3>2, <3>3, SidesDiffer DEF IsNearestI, IsNearestJ, DistanceIJ
  <2>3. \A e, f \in corres' : e[1] = f[1] <=> e[2] = f[2]
    BY <1>5, <2>1
  <2> QED
    BY <1>1, <1>6, <2>2, <2>3 DEF SearchInv, MatchesMutual
<1>8. CASE ~Swapped
  <2>1. corres' = inliers
    BY <1>3, <1>8 DEF InInputOrder
  <2>2. ASSUME NEW e \in corres'
        PROVE  /\ e \in keypoints["source"] \X keypoints["target"]
               /\ Distance(e[1], e[2]) <= ThrDist
               /\ \A s \in keypoints["source"] : Distance(e[1], e[2]) <= Distance(s, e[2])
               /\ \A t \in keypoints["target"] : Distance(e[1], e[2]) <= Distance(e[1], t)
    <3>1. /\ e = <<e[1], e[2]>>
          /\ IsNearestI(e[1], e[2]) /\ IsNearestJ(e[1], e[2])
          /\ DistanceIJ(e[1], e[2]) <= ThrDist
      BY <1>5, <2>1
    <3> QED
      BY <1>8, <3>1, SidesDiffer DEF IsNearestI, IsNearestJ, DistanceIJ
  <2> QED
    BY <1>1, <1>5, <1>6, <2>1, <2>2 DEF SearchInv, MatchesMutual
<1> QED
  BY <1>7, <1>8

LEMMA SearchInductive == FeatureInv /\ SearchInv /\ [Next]_vars => SearchInv'
<1> SUFFICES ASSUME FeatureInv, SearchInv, [Next]_vars PROVE SearchInv'
  OBVIOUS
<1>1. CASE UNCHANGED vars
  <2>1. UNCHANGED <<stage, keypoints, descriptor, iToJ, jToI, corres, worker>>
    BY <1>1 DEF vars, matching
  <2>2. \A s, t : Distance(s, t)' = Distance(s, t)
    BY <2>1 DEF Distance
  <2>3. MatchesMutual'
    BY <2>1, <2>2 DEF SearchInv, MatchesMutual
  <2>4. TableFacts => TableFacts'
    BY <2>1, SameDistances DEF TableFacts, Idle
  <2> QED
    BY <2>1, <2>3, <2>4 DEF SearchInv
<1>2. CASE stage' \notin {"search", "idle"}
  BY <1>2 DEF SearchInv, MatchesMutual
<1>3. ASSUME Next, stage' \in {"search", "idle"}
      PROVE  \/ BeginSearch \/ PruneOutliers
             \/ \E w \in Workers : SearchForward(w) \/ SearchBack(w)
  <2>1. ASSUME NEW w \in Workers, LoadWord(w) \/ StoreWord(w) \/ CollectPoint(w)
        PROVE  FALSE
    <3>1. worker[w].pc \in {"load", "store", "collect"} /\ worker[w] # Idle
      BY <2>1 DEF LoadWord, StoreWord, CollectPoint, Idle
    <3>2. stage \in Sides
      BY <3>1 DEF FeatureInv, Free, Sides
    <3>3. stage' = stage
      BY <2>1 DEF LoadWord, StoreWord, CollectPoint
    <3> QED
      BY <1>3, <3>2, <3>3 DEF Sides
  <2> QED
    BY <1>3, <2>1 DEF Next, Match, TakePoint, FinishFeatures, Sides
<1> QED
  BY <1>1, <1>2, <1>3, BeginSearchStep, SearchForwardStep, SearchBackStep, PruneStep

(***************************************************************************)
(* establishCorrespondences and the search of ROBINMatching.cpp: whichever *)
(* thread searches back first, and in whichever order the entries of the   *)
(* two tables are written, the pairs that match returns are mutual nearest *)
(* neighbours within the threshold, source first, and one to one.          *)
(***************************************************************************)
THEOREM MatchesAreMutual == Spec => []MatchesMutual
<1>1. Init => SearchInv
  BY DEF Init, SearchInv, MatchesMutual
<1>2. SearchInv => MatchesMutual
  BY DEF SearchInv
<1> QED
  BY <1>1, <1>2, SearchInductive, FeatureInvariant, PTL DEF Spec
=============================================================================
