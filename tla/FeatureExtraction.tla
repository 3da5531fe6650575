--------------------------- MODULE FeatureExtraction ---------------------------
(***************************************************************************)
(* LidarProcessor::extractFeaturesFromScanLine: four passes over the       *)
(* points of one scan line.  The first finds planes and jumps over what it *)
(* has classified, the second finds edges, the third small planes, and the *)
(* last one thins the surface points out.                                  *)
(*                                                                         *)
(* What the geometry decides is a choice; the indices are computed.  They  *)
(* count from 1 here.                                                      *)
(***************************************************************************)
EXTENDS SensorAdapters

CONSTANT GroupSize      \* kFeatureGroupSize

ASSUME GroupAssumption == GroupSize \in Nat \ {0}

VARIABLES
    pass,       \* the pass that is next; "none" between the lines
    size,       \* points of the scan line
    visible,    \* its points with a range of at least blind_distance_
    index,      \* i of the plane pass
    hasPrevious,\* has_previous_plane
    feature     \* feature_type of each point

extraction == <<pass, size, visible, index, hasPrevious, feature>>

FeatureTypes == {"normal", "possiblePlane", "plane", "jumpEdge", "planeEdge",
                 "wire", "zeroPoint"}
SurfaceTypes == {"possiblePlane", "plane"}
EdgeTypes == {"jumpEdge", "planeEdge"}

InitExtraction ==
    /\ pass = "none" /\ size = 0 /\ visible = {} /\ index = 0
    /\ hasPrevious = FALSE /\ feature = <<>>

FirstVisible == Least(visible)

(***************************************************************************)
(* populatePointFeatureInfo and the search for the first visible point.    *)
(***************************************************************************)
BeginLine(n, seen) ==
    /\ size' = n /\ visible' = seen
    /\ feature' = [i \in 1 .. n |-> "normal"]
    /\ hasPrevious' = FALSE
    /\ index' = IF seen = {} THEN n ELSE Least(seen)
    /\ pass' = IF seen = {} THEN "emission" ELSE "planes"

-----------------------------------------------------------------------------
(* The plane pass *)

(***************************************************************************)
(* classifyPlaneSegment: where next_point_index can stop.  Behind the      *)
(* group it grows until the segment is long enough, which may be never: it *)
(* is one past the line then.                                              *)
(***************************************************************************)
BlindAhead == {j \in index .. size : j \notin visible}
SegmentEnds == {j \in index + GroupSize .. size + 1 :
                  \A k \in BlindAhead : j < k}

GoOn(i, previous) == index' = i /\ hasPrevious' = previous

(***************************************************************************)
(* A plane.  Its ends may yet turn out to be an edge between two planes.   *)
(* An end that is one past the line is written behind the vector.          *)
(***************************************************************************)
MarkPlane(next, bend) ==
    [j \in DOMAIN feature |->
       CASE j = index                   -> bend
         [] j \in index + 1 .. next - 1 -> "plane"
         [] j = next                    -> "possiblePlane"
         [] OTHER                       -> feature[j]]

Bends == IF hasPrevious THEN {"possiblePlane", "planeEdge", "plane"}
                        ELSE {"possiblePlane"}

ClassifyPlane ==
    \E next \in SegmentEnds, bend \in Bends :
        /\ feature' = MarkPlane(next, bend)
        /\ GoOn(next, TRUE)
        /\ pass' \in IF next > size THEN {"planes", "undefined"} ELSE {"planes"}

ClassifyOther ==
    /\ \E next \in SegmentEnds : GoOn(next + 1, FALSE)
    /\ UNCHANGED <<feature, pass>>

ContainsBlind ==
    /\ BlindAhead # {} /\ GoOn(Least(BlindAhead) + 1, FALSE)
    /\ UNCHANGED <<feature, pass>>

PlanePass ==
    /\ pass = "planes" /\ index <= size - GroupSize
    /\ UNCHANGED <<size, visible>>
    /\ \/ /\ index \notin visible /\ GoOn(index + 1, hasPrevious)
          /\ UNCHANGED <<feature, pass>>
       \/ index \in visible /\ (ClassifyPlane \/ ClassifyOther \/ ContainsBlind)

EndPlanePass ==
    /\ pass = "planes" /\ index > size - GroupSize
    /\ pass' = "edges"
    /\ UNCHANGED <<size, visible, index, hasPrevious, feature>>

-----------------------------------------------------------------------------
(* The edge pass *)

(***************************************************************************)
(* What the geometry of point i and its neighbours can make of it; a jump  *)
(* needs two visible points on one side (isEdgeJump).                      *)
(***************************************************************************)
EdgeOutcomes(i) ==
    {feature[i], "zeroPoint"}
      \cup (IF {i - 2, i - 1} \subseteq visible \/ {i + 1, i + 2} \subseteq visible
              THEN {"jumpEdge"} ELSE {})
      \cup (IF feature[i] = "normal" THEN {"wire"} ELSE {})

EdgeCandidates == {i \in (FirstVisible + 3 .. size - 3) \cap visible :
                     feature[i] \in {"normal", "possiblePlane"}}

EdgePass ==
    /\ pass = "edges" /\ pass' = "small"
    /\ \E found \in [EdgeCandidates -> FeatureTypes] :
          /\ \A i \in EdgeCandidates : found[i] \in EdgeOutcomes(i)
          /\ feature' = [i \in DOMAIN feature |->
                           IF i \in EdgeCandidates THEN found[i] ELSE feature[i]]
    /\ UNCHANGED <<size, visible, index, hasPrevious>>

-----------------------------------------------------------------------------
(* The small planes *)

WithSmallPlane(types, i) ==
    IF types[i] # "normal" THEN types
    ELSE [j \in DOMAIN types |->
            IF j = i \/ (j \in {i - 1, i + 1} /\ types[j] = "normal")
              THEN "plane" ELSE types[j]]

WithSmallPlanes(flat) ==
    LET types[i \in 0 .. size] ==
          IF i = 0 THEN feature
          ELSE IF i \in flat THEN WithSmallPlane(types[i - 1], i) ELSE types[i - 1]
    IN  types[size]

FlatCandidates == {i \in FirstVisible + 1 .. size - 1 : {i - 1, i, i + 1} \subseteq visible}

SmallPlanePass ==
    /\ pass = "small" /\ pass' = "emission"
    /\ \E flat \in SUBSET FlatCandidates :
          feature' = WithSmallPlanes(flat)
    /\ UNCHANGED <<size, visible, index, hasPrevious>>

-----------------------------------------------------------------------------
(* The surface points of a line, thinned out *)

IsSurface(i) == feature[i] \in SurfaceTypes

(***************************************************************************)
(* One step of the loop: `run' are the surface points since the last one   *)
(* that was emitted, `out' the points a cloud point is made of: one, or    *)
(* the rest of a run that something else ends, averaged.                   *)
(***************************************************************************)
\* Mutant: a rest is not forgotten when it has been averaged.
EmitAndKeepRest(acc, i) ==
    IF IsSurface(i)
      THEN IF Cardinality(acc.run) = Stride - 1
             THEN [run |-> {}, out |-> acc.out \cup {{i}}]
             ELSE [acc EXCEPT !.run = @ \cup {i}]
      ELSE [run |-> acc.run, out |-> acc.out \cup ({acc.run} \ {{}})]

EmitPoint(acc, i) ==
    IF IsSurface(i)
      THEN IF Cardinality(acc.run) = Stride - 1
             THEN [run |-> {}, out |-> acc.out \cup {{i}}]
             ELSE [acc EXCEPT !.run = @ \cup {i}]
      ELSE [run |-> {}, out |-> acc.out \cup ({acc.run} \ {{}})]

SurfaceOfLine ==
    LET emitted[i \in 0 .. size] ==
          IF i = 0 THEN [run |-> {}, out |-> {}] ELSE EmitPoint(emitted[i - 1], i)
    IN  emitted[size].out

CornersOfLine == {i \in 1 .. size : feature[i] \in EdgeTypes}

EndLine ==
    /\ pass = "emission" /\ pass' = "none"
    /\ size' = 0 /\ visible' = {} /\ index' = 0 /\ hasPrevious' = FALSE /\ feature' = <<>>

ExtractionStep == PlanePass \/ EndPlanePass \/ EdgePass \/ SmallPlanePass

(***************************************************************************)
(* What the thinning promises, said by runs: a run is a maximal sequence   *)
(* of surface points; it is cut into chunks of Stride points, a full chunk *)
(* is represented by its last point, and what is left over by its average  *)
(* unless the line ends with it.                                           *)
(***************************************************************************)
Run(a, b) ==
    /\ a <= b /\ \A i \in a .. b : IsSurface(i)
    /\ a = 1 \/ ~ IsSurface(a - 1)
    /\ b = size \/ ~ IsSurface(b + 1)

Chunks(a, b) == {c \in a .. b : (c - a) % Stride = 0}

ThinnedRun(a, b) ==
    {{c + Stride - 1} : c \in {d \in Chunks(a, b) : d + Stride - 1 <= b}}
      \cup {c .. b : c \in {d \in Chunks(a, b) : d + Stride - 1 > b /\ b < size}}

ThinnedLine == UNION {ThinnedRun(r[1], r[2]) :
                        r \in {s \in (1 .. size) \X (1 .. size) : Run(s[1], s[2])}}
=============================================================================
