---------------------------- MODULE FeatureMatching ----------------------------
(***************************************************************************)
(* KISSMatcher::match on one matcher object, call after call: FasterPFH    *)
(* picks the keypoints of the source and then of the target cloud, both in *)
(* the same object and with TBB threads, and ROBINMatching pairs them by a *)
(* nearest-neighbour search whose second half is filled in on demand.      *)
(*                                                                         *)
(* A cloud is what the algorithm tells apart: which points are within the  *)
(* search radius of which, and whose neighbourhood gives a normal.         *)
(* Descriptors are numbers; the pruning of ROBIN is a choice.              *)
(***************************************************************************)
EXTENDS Naturals, Sequences, FiniteSets, Functions

CONSTANTS
    Clouds,         \* the clouds that may come: see CloudsAssumption
    Workers,        \* threads of tbb::parallel_reduce and tbb::parallel_for
    Descriptors,    \* what the descriptors of two keypoints may be
    ThrDist,        \* thr_dist_ between them
    MaxCorr         \* num_max_corr_

\* minimum_num_valid_
MinimumNumValid == 3

(***************************************************************************)
(* near[p]: the radius search of p, which returns p itself; planar: the    *)
(* points for which EstimateNormalVectorWithLinearityFiltering succeeds,   *)
(* which takes minimum_num_valid_ points within the normal radius.         *)
(***************************************************************************)
ASSUME CloudsAssumption ==
    \A c \in Clouds :
        /\ c.near \in Seq(SUBSET (1 .. Len(c.near)))
        /\ \A p \in DOMAIN c.near : p \in c.near[p]
        /\ \A p, q \in DOMAIN c.near : q \in c.near[p] => p \in c.near[q]
        /\ \A p \in c.planar : Cardinality(c.near[p]) >= MinimumNumValid

ASSUME MatchingAssumption ==
    /\ Workers # {} /\ Descriptors \subseteq Nat /\ ThrDist \in Nat /\ MaxCorr \in Nat

VARIABLES
    stage,       \* where match stands
    cloud,       \* src_processed_ and tgt_processed_
    isValid,     \* is_valid_: one machine word for all threads
    estimated,   \* history: the points whose normals_ is of this cloud
    todo,        \* the indices no thread has taken yet
    worker,      \* the threads
    found,       \* the local_indices of all threads
    keypoints,   \* src_keypoints_ and tgt_keypoints_, by their point
    descriptor,  \* src_descriptors_ and tgt_descriptors_
    iToJ,        \* i_to_j_multi_flann, 0 for -1
    jToI,        \* j_to_i_multi_flann, 0 for -1
    corres       \* corres_

features == <<isValid, estimated, found>>
matching == <<descriptor, iToJ, jToI, corres>>
vars == <<stage, cloud, features, todo, worker, keypoints, matching>>

Sides == {"source", "target"}
Idle == [pc |-> "free", point |-> 0, word |-> <<>>]
Free == \A w \in Workers : worker[w] = Idle
NoCloud == [near |-> <<>>, planar |-> {}]

Init ==
    /\ stage = "idle"
    /\ cloud = [s \in Sides |-> NoCloud]
    /\ isValid = <<>> /\ estimated = {} /\ found = {}
    /\ todo = {} /\ worker = [w \in Workers |-> Idle]
    /\ keypoints = [s \in Sides |-> {}]
    /\ descriptor = [s \in Sides |-> <<>>]
    /\ iToJ = <<>> /\ jToI = <<>> /\ corres = {}

-----------------------------------------------------------------------------
(***************************************************************************)
(* setInputCloud: Clear leaves is_valid_ and normals_ alone, and resize    *)
(* keeps the entries a vector already has.                                 *)
(***************************************************************************)
Resized(vector, n) == [p \in 1 .. n |-> p <= Len(vector) /\ vector[p]]

SetInputCloud(c) ==
    /\ isValid' = Resized(isValid, Len(c.near))
    /\ estimated' = {} /\ found' = {}
    /\ todo' = DOMAIN c.near

(***************************************************************************)
(* match, up to the features of the source cloud.                          *)
(***************************************************************************)
Match(source, target) ==
    /\ stage = "idle"
    /\ stage' = "source"
    /\ cloud' = [source |-> source, target |-> target]
    /\ keypoints' = [s \in Sides |-> {}]
    /\ descriptor' = [s \in Sides |-> <<>>]
    /\ SetInputCloud(source)
    /\ iToJ' = <<>> /\ jToI' = <<>> /\ corres' = {}
    /\ UNCHANGED worker

(***************************************************************************)
(* ComputeFeature, the first parallel loop.  A point with more than two    *)
(* neighbours gets a normal, and its bit of is_valid_: std::vector<bool>   *)
(* packs the bits of many points into one word, which a thread loads,      *)
(* changes and stores while others do the same.                            *)
(***************************************************************************)
Near(p) == cloud[stage].near[p]

HasNeighbourhood(p) == Cardinality(Near(p)) > 2

TakePoint(w) ==
    /\ stage \in Sides /\ worker[w] = Idle
    /\ \E p \in todo :
        /\ todo' = todo \ {p}
        /\ worker' = [worker EXCEPT ![w] =
             [Idle EXCEPT !.pc = IF HasNeighbourhood(p) THEN "load" ELSE "collect",
                          !.point = p]]
    /\ UNCHANGED <<stage, cloud, features, keypoints, matching>>

LoadWord(w) ==
    /\ worker[w].pc = "load"
    /\ worker' = [worker EXCEPT ![w].pc = "store", ![w].word = isValid]
    /\ UNCHANGED <<stage, cloud, features, todo, keypoints, matching>>

StoreWord(w) ==
    LET p == worker[w].point IN
    /\ worker[w].pc = "store"
    /\ isValid' = [worker[w].word EXCEPT ![p] = p \in cloud[stage].planar]
    /\ estimated' = estimated \cup {p}
    /\ worker' = [worker EXCEPT ![w].pc = "collect", ![w].word = <<>>]
    /\ UNCHANGED <<stage, cloud, found, todo, keypoints, matching>>

CollectPoint(w) ==
    /\ worker[w].pc = "collect"
    /\ found' = IF isValid[worker[w].point] THEN found \cup {worker[w].point} ELSE found
    /\ worker' = [worker EXCEPT ![w] = Idle]
    /\ UNCHANGED <<stage, cloud, isValid, estimated, todo, keypoints, matching>>

ValidNear(p) == {q \in Near(p) : isValid[q]}

\* Mutant: the filter is left out.
Unfiltered(indices) == indices

(***************************************************************************)
(* FilterIndicesCausingNaN.                                                *)
(***************************************************************************)
WithoutNaN(indices) ==
    {p \in indices : Cardinality(ValidNear(p)) >= MinimumNumValid}

(***************************************************************************)
(* num_all_valid_points of ComputePointSPFHSignature, by which it divides. *)
(***************************************************************************)
NumAllValidPoints(p) == Cardinality(ValidNear(p) \ {p})

(***************************************************************************)
(* The rest of ComputeFeature: the keypoints are those that pass the       *)
(* filter.  After the source it is the target's turn, in the same object.  *)
(***************************************************************************)
FinishFeatures ==
    /\ stage \in Sides /\ todo = {} /\ Free
    /\ keypoints' = [keypoints EXCEPT ![stage] = WithoutNaN(found)]
    /\ IF stage = "source"
         THEN stage' = "target" /\ SetInputCloud(cloud["target"])
         ELSE stage' = "match" /\ UNCHANGED <<features, todo>>
    /\ UNCHANGED <<cloud, worker, matching>>

-----------------------------------------------------------------------------
(***************************************************************************)
(* setStatuses: i is the cloud with more keypoints, the source on a tie.   *)
(***************************************************************************)
Swapped == Cardinality(keypoints["target"]) > Cardinality(keypoints["source"])
SideI == IF Swapped THEN "target" ELSE "source"
SideJ == IF Swapped THEN "source" ELSE "target"

(***************************************************************************)
(* WeightPointSPFHSignature: what describes a keypoint follows from its    *)
(* neighbourhood, of which nothing but the descriptor is kept.             *)
(***************************************************************************)
Descriptions(points) == [points -> Descriptors]

(***************************************************************************)
(* establishCorrespondences up to the search.  buildKDTree reads the first *)
(* descriptor of each cloud: without keypoints that is past the end.       *)
(***************************************************************************)
BeginSearch ==
    /\ stage = "match"
    /\ IF \E s \in Sides : keypoints[s] = {}
         THEN stage' = "undefined" /\ UNCHANGED <<todo, descriptor, iToJ, jToI>>
         ELSE /\ stage' = "search"
              /\ \E s \in Descriptions(keypoints["source"]),
                    t \in Descriptions(keypoints["target"]) :
                   descriptor' = [source |-> s, target |-> t]
              /\ iToJ' = [i \in keypoints[SideI] |-> 0]
              /\ jToI' = [j \in keypoints[SideJ] |-> 0]
              /\ todo' = keypoints[SideJ]
    /\ UNCHANGED <<cloud, features, worker, keypoints, corres>>

Distance(s, t) ==
    LET a == descriptor["source"][s]  b == descriptor["target"][t] IN
    IF a > b THEN a - b ELSE b - a

DistanceIJ(i, j) == IF Swapped THEN Distance(j, i) ELSE Distance(i, j)

(***************************************************************************)
(* searchKDTree: of equally near keypoints the tree returns always the     *)
(* same one.                                                               *)
(***************************************************************************)
NearestI(j) ==
    CHOOSE i \in keypoints[SideI] : \A k \in keypoints[SideI] :
        DistanceIJ(i, j) <= DistanceIJ(k, j)
NearestJ(i) ==
    CHOOSE j \in keypoints[SideJ] : \A k \in keypoints[SideJ] :
        DistanceIJ(i, j) <= DistanceIJ(i, k)

(***************************************************************************)
(* One j of the parallel loop: its nearest i, and whether some thread has  *)
(* already searched back from that i.                                      *)
(***************************************************************************)
SearchForward(w) ==
    /\ stage = "search" /\ worker[w] = Idle
    /\ \E j \in todo :
        /\ todo' = todo \ {j}
        /\ CASE DistanceIJ(NearestI(j), j) > ThrDist -> UNCHANGED <<worker, jToI>>
             [] DistanceIJ(NearestI(j), j) <= ThrDist /\ iToJ[NearestI(j)] # 0 ->
                  jToI' = [jToI EXCEPT ![j] = NearestI(j)] /\ UNCHANGED worker
             [] OTHER ->
                  /\ worker' = [worker EXCEPT ![w] =
                                  [Idle EXCEPT !.pc = "back", !.point = j]]
                  /\ UNCHANGED jToI
    /\ UNCHANGED <<stage, cloud, features, keypoints, descriptor, iToJ, corres>>

\* Mutant: the first j that finds i is taken for the nearest of i.
FirstToFind(j, i) == j

\* corres_K2
SearchedBack(j, i) == NearestJ(i)

SearchBack(w) ==
    LET j == worker[w].point  i == NearestI(j) IN
    /\ worker[w].pc = "back"
    /\ iToJ' = [iToJ EXCEPT ![i] = SearchedBack(j, i)]
    /\ jToI' = [jToI EXCEPT ![j] = i]
    /\ worker' = [worker EXCEPT ![w] = Idle]
    /\ UNCHANGED <<stage, cloud, features, todo, keypoints, descriptor, corres>>

(***************************************************************************)
(* matched_pairs, cut to num_max_corr_ by the ratio or by a shuffle.       *)
(***************************************************************************)
MatchedPairs ==
    {<<jToI[j], j>> : j \in {k \in DOMAIN jToI : jToI[k] # 0 /\ iToJ[jToI[k]] = k}}

Truncated(pairs) ==
    IF Cardinality(pairs) <= MaxCorr
      THEN {pairs}
      ELSE {cut \in SUBSET pairs : Cardinality(cut) = MaxCorr}

\* Mutant: the pairs are returned in the order of the search.
AsSearched(pairs) == pairs

InInputOrder(pairs) == IF Swapped THEN {<<c[2], c[1]>> : c \in pairs} ELSE pairs

(***************************************************************************)
(* applyOutlierPruning keeps the inlier structure ROBIN finds in the graph *)
(* of the pairs that agree in their distances: which one depends on the    *)
(* points' coordinates.                                                    *)
(***************************************************************************)
Compatible(pairs) == SUBSET pairs

(***************************************************************************)
(* The end of match: the compatible pairs, in the order source, target.    *)
(***************************************************************************)
PruneOutliers ==
    /\ stage = "search" /\ todo = {} /\ Free
    /\ stage' = "idle"
    /\ \E pairs \in Truncated(MatchedPairs) :
         \E inliers \in Compatible(pairs) : corres' = InInputOrder(inliers)
    /\ UNCHANGED <<cloud, features, todo, worker, keypoints, descriptor, iToJ, jToI>>

Next ==
    \/ \E s, t \in Clouds : Match(s, t)
    \/ \E w \in Workers : TakePoint(w) \/ LoadWord(w) \/ StoreWord(w) \/ CollectPoint(w)
    \/ FinishFeatures \/ BeginSearch
    \/ \E w \in Workers : SearchForward(w) \/ SearchBack(w)
    \/ PruneOutliers

Spec == Init /\ [][Next]_vars

-----------------------------------------------------------------------------
(***************************************************************************)
(* Whatever the threads lose of is_valid_ and whatever an earlier cloud    *)
(* left in it, a keypoint has a normal computed from this cloud, and its   *)
(* histograms are not divided by zero: the filter asks for one neighbour   *)
(* more than the normals need.                                             *)
(***************************************************************************)
KeypointsOfThisCloud ==
    [][(stage \in Sides) =>
         \A p \in keypoints'[stage] : p \in estimated /\ NumAllValidPoints(p) > 0]_vars

(***************************************************************************)
(* The correspondences pair a source keypoint with a target keypoint,      *)
(* each the nearest of the other, however the threads filled the table and *)
(* whichever cloud was searched first; no keypoint is in two of them.      *)
(***************************************************************************)
MatchesMutual ==
    stage = "idle" =>
        /\ \A c \in corres :
             /\ c \in keypoints["source"] \X keypoints["target"]
             /\ Distance(c[1], c[2]) <= ThrDist
             /\ \A s \in keypoints["source"] : Distance(c[1], c[2]) <= Distance(s, c[2])
             /\ \A t \in keypoints["target"] : Distance(c[1], c[2]) <= Distance(c[1], t)
        /\ \A c, d \in corres : c[1] = d[1] <=> c[2] = d[2]

(***************************************************************************)
(* FasterPFH.cpp:154-155: the indices left for the descriptors are         *)
(* "indices of points that have valid normals".                            *)
(***************************************************************************)
KeypointsHaveNormals == \A s \in Sides : keypoints[s] \subseteq cloud[s].planar
=============================================================================
