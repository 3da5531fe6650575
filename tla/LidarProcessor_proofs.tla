------------------------- MODULE LidarProcessor_proofs -------------------------
(***************************************************************************)
(* What LidarProcessor hands over, for every message of every sensor, any  *)
(* number of scan lines, any stride, scan duration and group size.         *)
(***************************************************************************)
EXTENDS LidarProcessor, NumberLemmas

-----------------------------------------------------------------------------
(* The passes over a scan line *)

(***************************************************************************)
(* However the passes jump and overwrite each other's types, a surface     *)
(* point is a point with a range: the plane pass stops before the first    *)
(* blind point, the small planes have only visible points.                 *)
(***************************************************************************)
SurfaceSeen(types) == \A i \in 1 .. size : types[i] \in SurfaceTypes => i \in visible

ExtractionInv ==
    /\ pass \in {"none", "planes", "edges", "small", "emission", "undefined"}
    /\ size \in Nat /\ index \in Int /\ visible \in SUBSET (1 .. size)
    /\ feature \in [1 .. size -> FeatureTypes]
    /\ SurfaceSeen(feature)

LEMMA LeastOf ==
    ASSUME NEW S \in SUBSET Int, S # {}, NEW b \in Int, \A x \in S : b <= x
    PROVE  Least(S) \in S /\ \A y \in S : Least(S) <= y
BY LeastInteger DEF Least

LEMMA BeginLineSeen ==
    ASSUME NEW n \in Nat, NEW seen \in SUBSET (1 .. n), BeginLine(n, seen)
    PROVE  ExtractionInv' /\ pass' # "none" /\ size' = n /\ visible' = seen
<1>1. size' = n /\ visible' = seen /\ feature' = [i \in 1 .. n |-> "normal"]
  BY DEF BeginLine
<1>2. pass' \in {"planes", "emission"}
  BY DEF BeginLine
<1>3. index' \in Int
  <2>1. CASE seen = {}
    BY <2>1 DEF BeginLine
  <2>2. CASE seen # {}
    <3>1. seen \in SUBSET Int /\ 1 \in Int /\ \A x \in seen : 1 <= x
      OBVIOUS
    <3>2. Least(seen) \in Int
      BY <2>2, <3>1, LeastOf
    <3> QED
      BY <2>2, <3>2 DEF BeginLine
  <2> QED
    BY <2>1, <2>2
<1> QED
  BY <1>1, <1>2, <1>3 DEF ExtractionInv, SurfaceSeen, FeatureTypes, SurfaceTypes

LEMMA EndLineSeen ==
    ASSUME EndLine
    PROVE  ExtractionInv'
BY DEF EndLine, ExtractionInv, SurfaceSeen

(***************************************************************************)
(* classifyPlaneSegment and the marking of the plane.                      *)
(***************************************************************************)
LEMMA PlanePassSeen ==
    ASSUME ExtractionInv, PlanePass
    PROVE  /\ index' \in Int /\ pass' \in {"planes", "undefined"}
           /\ feature' \in [1 .. size -> FeatureTypes] /\ SurfaceSeen(feature)'
<1>1. /\ size \in Nat /\ index \in Int /\ visible \in SUBSET (1 .. size)
      /\ feature \in [1 .. size -> FeatureTypes] /\ SurfaceSeen(feature)
      /\ size' = size /\ visible' = visible /\ pass = "planes"
  BY DEF ExtractionInv, PlanePass
<1>2. \A next \in SegmentEnds : next \in Int
  BY <1>1, GroupAssumption DEF SegmentEnds
<1>3. CASE index \in visible /\ ClassifyPlane
  <2>1. PICK next \in SegmentEnds, bend \in Bends :
          /\ feature' = MarkPlane(next, bend) /\ GoOn(next, TRUE)
          /\ pass' \in {"planes", "undefined"}
    BY <1>3 DEF ClassifyPlane
  <2>2. next \in Int /\ \A k \in BlindAhead : next < k
    BY <1>2 DEF SegmentEnds
  <2>3. \A j \in index .. size : j <= next => j \in visible
    BY <1>1, <2>2 DEF BlindAhead
  <2>4. bend \in FeatureTypes
    BY DEF Bends, FeatureTypes
  <2>5. MarkPlane(next, bend) \in [1 .. size -> FeatureTypes]
    BY <1>1, <2>4 DEF MarkPlane, FeatureTypes
  <2>6. ASSUME NEW j \in 1 .. size, MarkPlane(next, bend)[j] \in SurfaceTypes
        PROVE  j \in visible
    <3>1. CASE j = index
      BY <1>3, <3>1
    <3>2. CASE j \in index + 1 .. next - 1 \/ j = next
      <4>1. index < next
        BY <1>1, <1>2, GroupAssumption DEF SegmentEnds
      <4>2. j \in index .. size /\ j <= next
        BY <1>1, <2>2, <3>2, <4>1
      <4> QED
        BY <2>3, <4>2
    <3>3. CASE j # index /\ j \notin index + 1 .. next - 1 /\ j # next
      <4>1. MarkPlane(next, bend)[j] = feature[j]
        BY <1>1, <3>3 DEF MarkPlane
      <4> QED
        BY <1>1, <2>6, <4>1 DEF SurfaceSeen
    <3> QED
      BY <3>1, <3>2, <3>3
  <2> QED
    BY <1>1, <2>1, <2>2, <2>5, <2>6 DEF GoOn, SurfaceSeen
<1>4. CASE index \in visible /\ ClassifyOther
  <2>1. PICK next \in SegmentEnds : GoOn(next + 1, FALSE)
    BY <1>4 DEF ClassifyOther
  <2>2. feature' = feature /\ pass' = pass
    BY <1>4 DEF ClassifyOther
  <2> QED
    BY <1>1, <1>2, <2>1, <2>2 DEF GoOn, SurfaceSeen
<1>5. CASE index \in visible /\ ContainsBlind
  <2>1. BlindAhead \in SUBSET Int /\ BlindAhead # {} /\ \A x \in BlindAhead : index <= x
    BY <1>1, <1>5 DEF BlindAhead, ContainsBlind
  <2>2. Least(BlindAhead) \in Int
    BY <1>1, <2>1, LeastOf
  <2>3. index' = Least(BlindAhead) + 1 /\ feature' = feature /\ pass' = pass
    BY <1>5 DEF ContainsBlind, GoOn
  <2> QED
    BY <1>1, <2>2, <2>3 DEF SurfaceSeen
<1>6. CASE index \notin visible
  BY <1>1, <1>6 DEF PlanePass, GoOn, SurfaceSeen
<1> QED
  BY <1>3, <1>4, <1>5, <1>6 DEF PlanePass

(***************************************************************************)
(* The loop over the small planes.                                         *)
(***************************************************************************)
LEMMA SmallPlanesSeen ==
    ASSUME ExtractionInv, NEW flat \in SUBSET FlatCandidates
    PROVE  /\ WithSmallPlanes(flat) \in [1 .. size -> FeatureTypes]
           /\ SurfaceSeen(WithSmallPlanes(flat))
<1> DEFINE V == {t \in [1 .. size -> FeatureTypes] : SurfaceSeen(t)}
           Step(t, i) == IF i \in flat THEN WithSmallPlane(t, i) ELSE t
           F == [x \in V \X (1 .. size) |-> Step(x[1], x[2])]
<1>1. size \in Nat /\ visible \in SUBSET (1 .. size) /\ feature \in V
  BY DEF ExtractionInv
<1>2. ASSUME NEW t \in V, NEW i \in 1 .. size PROVE Step(t, i) \in V
  <2>1. CASE i \notin flat \/ t[i] # "normal"
    BY <2>1 DEF WithSmallPlane
  <2>2. CASE i \in flat /\ t[i] = "normal"
    <3> DEFINE u == [j \in DOMAIN t |->
                       IF j = i \/ (j \in {i - 1, i + 1} /\ t[j] = "normal")
                         THEN "plane" ELSE t[j]]
    <3>1. Step(t, i) = u
      BY <2>2 DEF WithSmallPlane
    <3>2. {i - 1, i, i + 1} \subseteq visible
      BY <2>2 DEF FlatCandidates
    <3>3. u \in [1 .. size -> FeatureTypes]
      BY DEF FeatureTypes
    <3>4. \A j \in 1 .. size : u[j] \in SurfaceTypes => j \in visible
      BY <3>2 DEF SurfaceSeen
    <3> HIDE DEF u
    <3>5. u \in V
      BY <3>3, <3>4 DEF SurfaceSeen
    <3> QED
      BY <3>1, <3>5
  <2> QED
    BY <2>1, <2>2
<1>3. \A t \in V, i \in 1 .. size : F[<<t, i>>] = Step(t, i)
  OBVIOUS
<1> DEFINE Is(g) == g = [i \in 0 .. size |->
                           IF i = 0 THEN feature
                           ELSE IF i \in flat THEN WithSmallPlane(g[i - 1], i) ELSE g[i - 1]]
<1>4. WithSmallPlanes(flat) = (CHOOSE g : Is(g))[size]
  BY DEF WithSmallPlanes
<1>5. PICK h \in [0 .. size -> V] :
        h[0] = feature /\ \A k \in 1 .. size : h[k] = F[<<h[k - 1], k>>]
  <2>1. F \in Steps(size, V)
    BY <1>2 DEF Steps
  <2> HIDE DEF V, F
  <2>2. \E h : IsRun(h, size, V, feature, F)
    BY <1>1, <2>1, RunsExist
  <2> QED
    BY <2>2 DEF IsRun
<1>6. ASSUME NEW k \in 1 .. size PROVE h[k] = Step(h[k - 1], k)
  <2>1. h[k - 1] \in V
    <3>1. k - 1 \in 0 .. size
      BY <1>1
    <3> HIDE DEF V, F
    <3> QED
      BY <1>5, <3>1
  <2>2. h[k] = F[<<h[k - 1], k>>]
    BY <1>5
  <2> HIDE DEF V, F, Step
  <2> QED
    BY <1>3, <2>1, <2>2
<1>7. Is(h)
  <2> DEFINE r == [i \in 0 .. size |->
                           IF i = 0 THEN feature
                           ELSE IF i \in flat THEN WithSmallPlane(h[i - 1], i) ELSE h[i - 1]]
  <2>1. \A i \in 0 .. size : h[i] = r[i]
    BY <1>1, <1>5, <1>6
  <2>2. h = [i \in 0 .. size |-> h[i]] /\ r = [i \in 0 .. size |-> r[i]]
    BY <1>5
  <2>3. h = r
    <3> HIDE DEF r
    <3> QED
      BY <2>1, <2>2
  <2> QED
    BY <2>3
<1> DEFINE g == CHOOSE f : Is(f)
<1>8. Is(g)
  <2> HIDE DEF Is
  <2> QED
    BY <1>7
<1>9. /\ g[0] = feature
      /\ \A i \in 1 .. size : g[i] = Step(g[i - 1], i)
  <2> HIDE DEF g
  <2>1. 0 \in 0 .. size /\ \A i \in 1 .. size : i \in 0 .. size /\ i # 0
    BY <1>1
  <2> QED
    BY <1>8, <2>1
<1>10. \A i \in 0 .. size : g[i] = h[i]
  <2> DEFINE S == {i \in 0 .. size : g[i] = h[i]}
  <2>1. 0 \in S
    BY <1>1, <1>5, <1>9
  <2>2. \A k \in 1 .. size : k - 1 \in S => k \in S
    BY <1>6, <1>9
  <2>3. \A k \in 0 .. size : k \in S
    <3> HIDE DEF S, g
    <3> QED
      BY <1>1, <2>1, <2>2, Climb
  <2> QED
    BY <2>3
<1>11. h[size] \in V
  BY <1>1, <1>5
<1>12. WithSmallPlanes(flat) \in V
  <2>1. size \in 0 .. size
    BY <1>1
  <2> HIDE DEF V, Is
  <2> QED
    BY <1>4, <1>10, <1>11, <2>1
<1> QED
  BY <1>12

LEMMA StepSeen ==
    ASSUME ExtractionInv, ExtractionStep
    PROVE  ExtractionInv' /\ pass' # "none" /\ size' = size /\ visible' = visible
<1>1. /\ size \in Nat /\ index \in Int /\ visible \in SUBSET (1 .. size)
      /\ feature \in [1 .. size -> FeatureTypes] /\ SurfaceSeen(feature)
  BY DEF ExtractionInv
<1>2. CASE PlanePass
  BY <1>1, <1>2, PlanePassSeen DEF ExtractionInv, PlanePass
<1>3. CASE EndPlanePass
  BY <1>1, <1>3 DEF EndPlanePass, ExtractionInv, SurfaceSeen
<1>4. CASE EdgePass
  <2>1. PICK found \in [EdgeCandidates -> FeatureTypes] :
          feature' = [i \in DOMAIN feature |->
                        IF i \in EdgeCandidates THEN found[i] ELSE feature[i]]
    BY <1>4 DEF EdgePass
  <2>2. EdgeCandidates \subseteq visible
    BY DEF EdgeCandidates
  <2>3. feature' \in [1 .. size -> FeatureTypes]
    BY <1>1, <2>1
  <2>4. \A i \in 1 .. size : feature'[i] \in SurfaceTypes => i \in visible
    BY <1>1, <2>1, <2>2 DEF SurfaceSeen
  <2> QED
    BY <1>1, <1>4, <2>3, <2>4 DEF EdgePass, ExtractionInv, SurfaceSeen
<1>5. CASE SmallPlanePass
  <2>1. PICK flat \in SUBSET FlatCandidates : feature' = WithSmallPlanes(flat)
    BY <1>5 DEF SmallPlanePass
  <2>2. feature' \in [1 .. size -> FeatureTypes] /\ SurfaceSeen(feature')
    BY <2>1, SmallPlanesSeen
  <2> QED
    BY <1>1, <1>5, <2>2 DEF SmallPlanePass, ExtractionInv, SurfaceSeen
<1> QED
  BY <1>2, <1>3, <1>4, <1>5 DEF ExtractionStep

-----------------------------------------------------------------------------
(* The points that are emitted *)

SurfacePoints == {i \in 1 .. size : IsSurface(i)}

NothingEmitted == [run |-> {}, out |-> {}]

Emissions == [run : SUBSET SurfacePoints, out : SUBSET SUBSET SurfacePoints]

LEMMA EmitPointIs ==
    ASSUME NEW acc \in Emissions, NEW i
    PROVE  EmitPoint(acc, i) =
             IF IsSurface(i)
               THEN IF Cardinality(acc.run) = Stride - 1
                      THEN [run |-> {}, out |-> acc.out \cup {{i}}]
                      ELSE [run |-> acc.run \cup {i}, out |-> acc.out]
               ELSE [run |-> {}, out |-> acc.out \cup ({acc.run} \ {{}})]
<1>1. acc = [run |-> acc.run, out |-> acc.out]
  BY DEF Emissions
<1>2. \A r, o, u : [[run |-> r, out |-> o] EXCEPT !.run = u] = [run |-> u, out |-> o]
  OBVIOUS
<1>3. [acc EXCEPT !.run = acc.run \cup {i}] = [run |-> acc.run \cup {i}, out |-> acc.out]
  BY <1>1, <1>2
<1> QED
  BY <1>3 DEF EmitPoint

(***************************************************************************)
(* SurfaceOfLine is the end of a run of emitSurfacePoint over the points.  *)
(***************************************************************************)
LEMMA EmissionRuns ==
    ASSUME size \in Nat
    PROVE  \E h \in [0 .. size -> Emissions] :
             /\ h[0] = NothingEmitted
             /\ \A k \in 1 .. size : h[k] = EmitPoint(h[k - 1], k)
             /\ SurfaceOfLine = h[size].out
<1> DEFINE F == [x \in Emissions \X (1 .. size) |-> EmitPoint(x[1], x[2])]
           Is(g) == g = [i \in 0 .. size |-> IF i = 0 THEN [run |-> {}, out |-> {}]
                                                      ELSE EmitPoint(g[i - 1], i)]
           g == CHOOSE f : Is(f)
<1>1. NothingEmitted \in Emissions
  BY DEF NothingEmitted, Emissions
<1>2. ASSUME NEW acc \in Emissions, NEW i \in 1 .. size PROVE EmitPoint(acc, i) \in Emissions
  <2>1. /\ acc.run \in SUBSET SurfacePoints /\ acc.out \in SUBSET SUBSET SurfacePoints
        /\ acc = [run |-> acc.run, out |-> acc.out]
    BY DEF Emissions
  <2>2. CASE IsSurface(i)
    <3>1. i \in SurfacePoints
      BY <2>2 DEF SurfacePoints
    <3>2. /\ acc.run \cup {i} \in SUBSET SurfacePoints
          /\ acc.out \cup {{i}} \in SUBSET SUBSET SurfacePoints
      BY <2>1, <3>1
    <3>3. EmitPoint(acc, i) = IF Cardinality(acc.run) = Stride - 1
                                THEN [run |-> {}, out |-> acc.out \cup {{i}}]
                                ELSE [run |-> acc.run \cup {i}, out |-> acc.out]
      BY <2>2, EmitPointIs
    <3> QED
      BY <2>1, <3>2, <3>3 DEF Emissions
  <2>3. CASE ~ IsSurface(i)
    <3>1. EmitPoint(acc, i) = [run |-> {}, out |-> acc.out \cup ({acc.run} \ {{}})]
      BY <2>3, EmitPointIs
    <3> QED
      BY <2>1, <3>1 DEF Emissions
  <2> QED
    BY <2>2, <2>3
<1>3. PICK h \in [0 .. size -> Emissions] :
        h[0] = NothingEmitted /\ \A k \in 1 .. size : h[k] = F[<<h[k - 1], k>>]
  <2>1. F \in Steps(size, Emissions)
    BY <1>2 DEF Steps
  <2> HIDE DEF F
  <2>2. \E h : IsRun(h, size, Emissions, NothingEmitted, F)
    BY <1>1, <2>1, RunsExist
  <2> QED
    BY <2>2 DEF IsRun
<1>4. ASSUME NEW k \in 1 .. size PROVE h[k] = EmitPoint(h[k - 1], k)
  <2>1. k - 1 \in 0 .. size
    OBVIOUS
  <2>2. h[k - 1] \in Emissions
    BY <1>3, <2>1
  <2>3. F[<<h[k - 1], k>>] = EmitPoint(h[k - 1], k)
    BY <2>2
  <2> QED
    BY <1>3, <2>3
<1>5. Is(h)
  <2> DEFINE r == [i \in 0 .. size |-> IF i = 0 THEN [run |-> {}, out |-> {}]
                                                ELSE EmitPoint(h[i - 1], i)]
  <2>1. \A i \in 0 .. size : h[i] = r[i]
    BY <1>3, <1>4 DEF NothingEmitted
  <2>2. h = [i \in 0 .. size |-> h[i]] /\ r = [i \in 0 .. size |-> r[i]]
    BY <1>3
  <2>3. h = r
    <3> HIDE DEF r
    <3> QED
      BY <2>1, <2>2
  <2> QED
    BY <2>3
<1>6. Is(g)
  <2> HIDE DEF Is
  <2> QED
    BY <1>5
<1>7. g[0] = NothingEmitted /\ \A i \in 1 .. size : g[i] = EmitPoint(g[i - 1], i)
  <2> HIDE DEF g
  <2>1. 0 \in 0 .. size /\ \A i \in 1 .. size : i \in 0 .. size /\ i # 0
    OBVIOUS
  <2> QED
    BY <1>6, <2>1 DEF NothingEmitted
<1>8. SurfaceOfLine = g[size].out
  BY DEF SurfaceOfLine
<1> HIDE DEF g
<1>9. g[size] = h[size]
  <2> DEFINE S == {i \in 0 .. size : g[i] = h[i]}
  <2>1. 0 \in S
    BY <1>3, <1>7
  <2>2. \A k \in 1 .. size : k - 1 \in S => k \in S
    BY <1>4, <1>7
  <2>3. \A k \in 0 .. size : k \in S
    <3> HIDE DEF S
    <3> QED
      BY <2>1, <2>2, Climb
  <2> QED
    BY <2>3
<1> QED
  BY <1>3, <1>4, <1>8, <1>9

(***************************************************************************)
(* Emitted are surface points, so points with a range.                     *)
(***************************************************************************)
LEMMA EmittedSeen ==
    ASSUME ExtractionInv
    PROVE  /\ SurfaceOfLine \in SUBSET SUBSET visible
<1>1. PICK h \in [0 .. size -> Emissions] : SurfaceOfLine = h[size].out
  BY EmissionRuns DEF ExtractionInv
<1>2. h[size] \in Emissions
  BY DEF ExtractionInv
<1>3. SurfacePoints \subseteq visible
  BY DEF SurfacePoints, IsSurface, ExtractionInv, SurfaceSeen
<1> QED
  BY <1>1, <1>2, <1>3 DEF Emissions

-----------------------------------------------------------------------------
(* The thinning *)

(***************************************************************************)
(* c begins a chunk of a run that reaches j at least.                      *)
(***************************************************************************)
RunFrom(a, j) ==
    /\ a \in 1 .. j /\ \A i \in a .. j : IsSurface(i)
    /\ a = 1 \/ ~ IsSurface(a - 1)

Chunk(c, j) == \E a \in 1 .. j : RunFrom(a, j) /\ c \in a .. j /\ (c - a) % Stride = 0

LEMMA RunFromIsUnique ==
    ASSUME NEW j \in Nat, NEW a, NEW b, RunFrom(a, j), RunFrom(b, j)
    PROVE  a = b
<1>1. \A x, y \in 1 .. j : RunFrom(x, j) /\ RunFrom(y, j) => ~ (x < y)
  <2> SUFFICES ASSUME NEW x \in 1 .. j, NEW y \in 1 .. j, RunFrom(x, j), RunFrom(y, j), x < y
               PROVE  FALSE
    OBVIOUS
  <2>1. y - 1 \in x .. j /\ y # 1
    OBVIOUS
  <2> QED
    BY <2>1 DEF RunFrom
<1>2. a \in 1 .. j /\ b \in 1 .. j
  BY DEF RunFrom
<1>3. ~ (a < b) /\ ~ (b < a)
  BY <1>1, <1>2
<1> QED
  BY <1>2, <1>3

LEMMA ChunkIs ==
    ASSUME NEW j \in Nat, NEW c, Chunk(c, j)
    PROVE  c \in 1 .. j /\ IsSurface(j)
<1>1. PICK a \in 1 .. j : RunFrom(a, j) /\ c \in a .. j
  BY DEF Chunk
<1>2. j \in a .. j
  BY <1>1
<1> QED
  BY <1>1, <1>2 DEF RunFrom

(***************************************************************************)
(* Two chunks of a run are at least Stride apart.                          *)
(***************************************************************************)
LEMMA ChunksApart ==
    ASSUME NEW j \in Nat, NEW c, NEW d, Chunk(c, j), Chunk(d, j), c < d
    PROVE  c + Stride <= d
<1>1. PICK a \in 1 .. j : RunFrom(a, j) /\ c \in a .. j /\ (c - a) % Stride = 0
  BY DEF Chunk
<1>2. PICK b \in 1 .. j : RunFrom(b, j) /\ d \in b .. j /\ (d - b) % Stride = 0
  BY DEF Chunk
<1>3. a = b
  BY <1>1, <1>2, RunFromIsUnique
<1>4. c - a \in Nat /\ d - a \in Nat /\ c - a < d - a
  BY <1>1, <1>2, <1>3
<1>5. (c - a) + Stride <= d - a
  BY <1>1, <1>2, <1>3, <1>4, Multiples, AdapterAssumption
<1> QED
  BY <1>1, <1>2, <1>5, AdapterAssumption

(***************************************************************************)
(* A run goes on, or starts.                                               *)
(***************************************************************************)
LEMMA ChunkGoesOn ==
    ASSUME NEW k \in Nat \ {0}, NEW c, IsSurface(k), Chunk(c, k - 1)
    PROVE  /\ Chunk(c, k)
           /\ c + Stride - 1 = k - 1 => Chunk(k, k)
<1>1. PICK a \in 1 .. k - 1 : RunFrom(a, k - 1) /\ c \in a .. k - 1 /\ (c - a) % Stride = 0
  BY DEF Chunk
<1>2. RunFrom(a, k)
  <2>1. \A i \in a .. k : i = k \/ i \in a .. k - 1
    OBVIOUS
  <2> QED
    BY <1>1, <2>1 DEF RunFrom
<1>3. Chunk(c, k)
  BY <1>1, <1>2 DEF Chunk
<1>4. ASSUME c + Stride - 1 = k - 1 PROVE Chunk(k, k)
  <2>1. c - a \in Nat /\ k - a = (c - a) + Stride
    BY <1>1, <1>4, AdapterAssumption
  <2>2. (k - a) % Stride = 0
    BY ZenonT(30), <1>1, <2>1, Multiples, AdapterAssumption
  <2> QED
    BY <1>2, <2>2 DEF Chunk
<1> QED
  BY <1>3, <1>4

LEMMA ChunkStarts ==
    ASSUME NEW k \in Nat \ {0}, IsSurface(k), k = 1 \/ ~ IsSurface(k - 1)
    PROVE  Chunk(k, k)
<1>1. RunFrom(k, k)
  BY DEF RunFrom
<1>2. (k - k) % Stride = 0
  <2>1. k - k = 0
    OBVIOUS
  <2> QED
    BY <2>1, Multiples, AdapterAssumption
<1> QED
  BY <1>1, <1>2 DEF Chunk

(***************************************************************************)
(* What the loop has emitted after k points: of every chunk that is full,  *)
(* its last point; of every run that ended, what was left over.  The run   *)
(* it keeps is the chunk that is not yet full.                             *)
(***************************************************************************)
FullChunk(g, k) ==
    \E c \in 1 .. k : c + Stride - 1 <= k /\ Chunk(c, c + Stride - 1) /\ g = {c + Stride - 1}

Leftover(g, k) ==
    \E c \in 1 .. k, b \in 1 .. k : /\ b < k /\ Chunk(c, b) /\ b < c + Stride - 1
                                    /\ ~ IsSurface(b + 1) /\ g = c .. b

Kept(run, k) ==
    \/ /\ run = {}
       /\ k = 0 \/ ~ IsSurface(k) \/ \E c \in 1 .. k : Chunk(c, k) /\ c + Stride - 1 = k
    \/ \E c \in 1 .. k : Chunk(c, k) /\ k < c + Stride - 1 /\ run = c .. k

EmittedTo(acc, k) ==
    /\ Kept(acc.run, k)
    /\ \A g : g \in acc.out <=> FullChunk(g, k) \/ Leftover(g, k)

LEMMA EmitSurface ==
    ASSUME NEW k \in Nat \ {0}, NEW acc \in Emissions, EmittedTo(acc, k - 1), IsSurface(k)
    PROVE  EmittedTo(EmitPoint(acc, k), k)
<1> DEFINE next == EmitPoint(acc, k)
<1>0. Stride \in Nat \ {0}
  BY AdapterAssumption
<1>1. PICK c \in 1 .. k : Chunk(c, k) /\ acc.run = c .. k - 1 /\ k <= c + Stride - 1
  <2>1. CASE acc.run = {} /\ (k - 1 = 0 \/ ~ IsSurface(k - 1))
    <3>1. Chunk(k, k) /\ k .. k - 1 = {} /\ k \in 1 .. k /\ k <= k + Stride - 1
      BY <1>0, <2>1, ChunkStarts
    <3> QED
      BY <2>1, <3>1
  <2>2. ASSUME acc.run = {}, NEW c \in 1 .. k - 1, Chunk(c, k - 1), c + Stride - 1 = k - 1
        PROVE  \E d \in 1 .. k : Chunk(d, k) /\ acc.run = d .. k - 1 /\ k <= d + Stride - 1
    <3>1. Chunk(k, k) /\ k .. k - 1 = {} /\ k \in 1 .. k /\ k <= k + Stride - 1
      BY <1>0, <2>2, ChunkGoesOn
    <3> QED
      BY <2>2, <3>1
  <2>3. ASSUME NEW c \in 1 .. k - 1, Chunk(c, k - 1), k - 1 < c + Stride - 1, acc.run = c .. k - 1
        PROVE  \E d \in 1 .. k : Chunk(d, k) /\ acc.run = d .. k - 1 /\ k <= d + Stride - 1
    <3>1. Chunk(c, k) /\ c \in 1 .. k /\ k <= c + Stride - 1
      BY <1>0, <2>3, ChunkGoesOn
    <3> QED
      BY <2>3, <3>1
  <2> QED
    BY <2>1, <2>2, <2>3 DEF EmittedTo, Kept
<1>2. Cardinality(acc.run) = k - c
  <2>1. Cardinality(c .. k - 1) = IF c > k - 1 THEN 0 ELSE (k - 1) - c + 1
    BY FS_Interval
  <2> QED
    BY <1>1, <2>1
<1>3. ASSUME NEW g PROVE Leftover(g, k) <=> Leftover(g, k - 1)
  <2>1. ASSUME NEW d \in 1 .. k, NEW b \in 1 .. k, b < k, Chunk(d, b), ~ IsSurface(b + 1)
        PROVE  d \in 1 .. k - 1 /\ b \in 1 .. k - 1 /\ b < k - 1
    <3>1. b + 1 # k
      BY <2>1
    <3>2. d <= b
      BY <2>1, ChunkIs
    <3> QED
      BY <2>1, <3>1, <3>2
  <2>2. \A d, b \in 1 .. k - 1 : d \in 1 .. k /\ b \in 1 .. k /\ (b < k - 1 => b < k)
    OBVIOUS
  <2>3. Leftover(g, k) => Leftover(g, k - 1)
    BY <2>1 DEF Leftover
  <2>4. Leftover(g, k - 1) => Leftover(g, k)
    BY <2>2 DEF Leftover
  <2> QED
    BY <2>3, <2>4
<1>4. ASSUME NEW g
      PROVE  FullChunk(g, k) <=> FullChunk(g, k - 1) \/ (c + Stride - 1 = k /\ g = {k})
  <2>1. ASSUME NEW d \in 1 .. k, d + Stride - 1 = k, Chunk(d, k)
        PROVE  d = c
    <3>1. ~ (d < c)
      <4>1. d < c => d + Stride <= c
        BY <1>1, <2>1, ChunksApart
      <4> QED
        BY <1>0, <1>1, <2>1, <4>1
    <3> QED
      BY <1>0, <1>1, <2>1, <3>1
  <2>2. ASSUME NEW d \in 1 .. k, d + Stride - 1 <= k, d + Stride - 1 # k
        PROVE  d \in 1 .. k - 1 /\ d + Stride - 1 <= k - 1
    BY <1>0, <2>2
  <2>3. FullChunk(g, k) => FullChunk(g, k - 1) \/ (c + Stride - 1 = k /\ g = {k})
    <3> SUFFICES ASSUME NEW d \in 1 .. k, d + Stride - 1 <= k, Chunk(d, d + Stride - 1),
                        g = {d + Stride - 1}
                 PROVE  FullChunk(g, k - 1) \/ (c + Stride - 1 = k /\ g = {k})
      BY DEF FullChunk
    <3>1. CASE d + Stride - 1 = k
      BY <2>1, <3>1
    <3>2. CASE d + Stride - 1 # k
      BY <2>2, <3>2 DEF FullChunk
    <3> QED
      BY <3>1, <3>2
  <2>4. FullChunk(g, k - 1) => FullChunk(g, k)
    <3>1. \A d \in 1 .. k - 1 : d \in 1 .. k /\ (d + Stride - 1 <= k - 1 => d + Stride - 1 <= k)
      BY <1>0
    <3> QED
      BY <3>1 DEF FullChunk
  <2>5. c + Stride - 1 = k /\ g = {k} => FullChunk(g, k)
    BY <1>1 DEF FullChunk
  <2> QED
    BY <2>3, <2>4, <2>5
<1>5. \A g : g \in acc.out <=> FullChunk(g, k - 1) \/ Leftover(g, k - 1)
  BY DEF EmittedTo
<1>6. CASE c + Stride - 1 = k
  <2>1. next.run = {} /\ next.out = acc.out \cup {{k}}
    <3>1. Cardinality(acc.run) = Stride - 1
      BY <1>0, <1>2, <1>6
    <3> QED
      BY <3>1, EmitPointIs
  <2>2. Kept(next.run, k)
    BY <1>1, <1>6, <2>1 DEF Kept
  <2>3. \A g : g \in next.out <=> FullChunk(g, k) \/ Leftover(g, k)
    BY <1>3, <1>4, <1>5, <1>6, <2>1
  <2> QED
    BY <2>2, <2>3 DEF EmittedTo
<1>7. CASE c + Stride - 1 # k
  <2>1. next.run = acc.run \cup {k} /\ next.out = acc.out
    <3>1. Cardinality(acc.run) # Stride - 1
      BY <1>0, <1>2, <1>7
    <3> QED
      BY <3>1, EmitPointIs
  <2>2. Kept(next.run, k)
    <3>1. k < c + Stride - 1 /\ next.run = c .. k
      BY <1>0, <1>1, <1>7, <2>1
    <3> QED
      BY <1>1, <3>1 DEF Kept
  <2>3. \A g : g \in next.out <=> FullChunk(g, k) \/ Leftover(g, k)
    BY <1>3, <1>4, <1>5, <1>7, <2>1
  <2> QED
    BY <2>2, <2>3 DEF EmittedTo
<1> QED
  BY <1>6, <1>7

LEMMA EmitOther ==
    ASSUME NEW k \in Nat \ {0}, NEW acc \in Emissions, EmittedTo(acc, k - 1), ~ IsSurface(k)
    PROVE  EmittedTo(EmitPoint(acc, k), k)
<1> DEFINE next == EmitPoint(acc, k)
<1>0. Stride \in Nat \ {0}
  BY AdapterAssumption
<1>1. next.run = {} /\ next.out = acc.out \cup ({acc.run} \ {{}})
  BY EmitPointIs
<1>2. Kept(next.run, k)
  BY <1>1 DEF Kept
<1>3. ASSUME NEW g PROVE FullChunk(g, k) <=> FullChunk(g, k - 1)
  <2>1. ASSUME NEW d \in 1 .. k, d + Stride - 1 <= k, Chunk(d, d + Stride - 1)
        PROVE  d \in 1 .. k - 1 /\ d + Stride - 1 <= k - 1
    <3>1. d + Stride - 1 # k
      BY <2>1, ChunkIs
    <3> QED
      BY <1>0, <2>1, <3>1
  <2>2. \A d \in 1 .. k - 1 : d \in 1 .. k /\ (d + Stride - 1 <= k - 1 => d + Stride - 1 <= k)
    BY <1>0
  <2> QED
    BY <2>1, <2>2 DEF FullChunk
<1>4. ASSUME NEW d \in 1 .. k - 1, Chunk(d, k - 1), k - 1 < d + Stride - 1
      PROVE  acc.run = d .. k - 1
  <2>1. IsSurface(k - 1) /\ k - 1 \in Nat
    BY <1>4, ChunkIs
  <2>2. ASSUME NEW c \in 1 .. k - 1, Chunk(c, k - 1) PROVE ~ (c < d) \/ c + Stride - 1 < k - 1
    <3>1. c < d => c + Stride <= d
      BY <1>4, <2>1, <2>2, ChunksApart
    <3> QED
      BY <1>0, <3>1
  <2>3. ASSUME NEW c \in 1 .. k - 1, Chunk(c, k - 1), k - 1 <= c + Stride - 1 PROVE c = d
    <3>1. ~ (c < d)
      BY <1>0, <2>2, <2>3
    <3>2. ~ (d < c)
      <4>1. d < c => d + Stride <= c
        BY <1>4, <2>1, <2>3, ChunksApart
      <4> QED
        BY <1>0, <1>4, <4>1
    <3> QED
      BY <3>1, <3>2
  <2>4. ~ (\E c \in 1 .. k - 1 : Chunk(c, k - 1) /\ c + Stride - 1 = k - 1)
    <3> SUFFICES ASSUME NEW c \in 1 .. k - 1, Chunk(c, k - 1), c + Stride - 1 = k - 1
                 PROVE  FALSE
      OBVIOUS
    <3>1. c = d
      BY <1>0, <2>3
    <3> QED
      BY <1>4, <3>1
  <2>5. PICK c \in 1 .. k - 1 : Chunk(c, k - 1) /\ k - 1 < c + Stride - 1 /\ acc.run = c .. k - 1
    <3>1. k - 1 # 0
      BY <1>4
    <3> QED
      BY <2>1, <2>4, <3>1 DEF EmittedTo, Kept
  <2> QED
    BY <1>0, <2>3, <2>5
<1>5. acc.run # {} => \E c \in 1 .. k - 1 :
                        Chunk(c, k - 1) /\ k - 1 < c + Stride - 1 /\ acc.run = c .. k - 1
  BY DEF EmittedTo, Kept
<1>6. ASSUME NEW g
      PROVE  Leftover(g, k) <=> Leftover(g, k - 1) \/ (acc.run # {} /\ g = acc.run)
  <2>1. Leftover(g, k) => Leftover(g, k - 1) \/ (acc.run # {} /\ g = acc.run)
    <3> SUFFICES ASSUME NEW d \in 1 .. k, NEW b \in 1 .. k, b < k, Chunk(d, b),
                        b < d + Stride - 1, ~ IsSurface(b + 1), g = d .. b
                 PROVE  Leftover(g, k - 1) \/ (acc.run # {} /\ g = acc.run)
      BY DEF Leftover
    <3>1. d \in 1 .. b
      BY ChunkIs
    <3>2. CASE b = k - 1
      <4>1. acc.run = d .. k - 1
        BY <1>4, <3>1, <3>2
      <4>2. d \in d .. k - 1
        BY <3>1, <3>2
      <4> QED
        BY <3>2, <4>1, <4>2
    <3>3. CASE b # k - 1
      <4>1. d \in 1 .. k - 1 /\ b \in 1 .. k - 1 /\ b < k - 1
        BY <3>1, <3>3
      <4> QED
        BY <4>1 DEF Leftover
    <3> QED
      BY <3>2, <3>3
  <2>2. Leftover(g, k - 1) => Leftover(g, k)
    <3>1. \A d, b \in 1 .. k - 1 : d \in 1 .. k /\ b \in 1 .. k /\ (b < k - 1 => b < k)
      OBVIOUS
    <3> QED
      BY <3>1 DEF Leftover
  <2>3. ASSUME acc.run # {}, g = acc.run PROVE Leftover(g, k)
    <3>1. PICK c \in 1 .. k - 1 :
            Chunk(c, k - 1) /\ k - 1 < c + Stride - 1 /\ acc.run = c .. k - 1
      BY <1>5, <2>3
    <3>2. c \in 1 .. k /\ k - 1 \in 1 .. k /\ k - 1 < k /\ (k - 1) + 1 = k
      OBVIOUS
    <3> QED
      BY <2>3, <3>1, <3>2 DEF Leftover
  <2> QED
    BY <2>1, <2>2, <2>3
<1>7. \A g : g \in acc.out <=> FullChunk(g, k - 1) \/ Leftover(g, k - 1)
  BY DEF EmittedTo
<1>8. \A g : g \in next.out <=> FullChunk(g, k) \/ Leftover(g, k)
  BY <1>1, <1>3, <1>6, <1>7
<1> QED
  BY <1>2, <1>8 DEF EmittedTo

(***************************************************************************)
(* A run that begins ends somewhere on the line.                           *)
(***************************************************************************)
LEMMA RunEnds ==
    ASSUME size \in Nat, NEW j \in 1 .. size, NEW a \in 1 .. j, RunFrom(a, j)
    PROVE  \E b \in j .. size : Run(a, b)
<1> DEFINE S == {b \in j .. size : \A i \in a .. b : IsSurface(i)}
<1>1. j \in S /\ S \in SUBSET Int /\ \A b \in S : b <= size
  BY DEF RunFrom
<1>2. PICK b \in S : \A d \in S : d <= b
  <2> HIDE DEF S
  <2>1. S # {} /\ size \in Int
    BY <1>1
  <2>2. Max(S) \in S /\ \A y \in S : y <= Max(S)
    BY <1>1, <2>1, MaxIsGreatest
  <2> QED
    BY <2>2
<1>3. b = size \/ ~ IsSurface(b + 1)
  <2> SUFFICES ASSUME b # size, IsSurface(b + 1) PROVE FALSE
    OBVIOUS
  <2>1. \A i \in a .. b + 1 : i = b + 1 \/ i \in a .. b
    OBVIOUS
  <2>2. b + 1 \in S
    BY <2>1
  <2> QED
    BY <1>2, <2>2
<1>4. b \in j .. size /\ a <= b
  OBVIOUS
<1> QED
  BY <1>3, <1>4 DEF Run, RunFrom

(***************************************************************************)
(* The loop thins a line out as the runs say.                              *)
(***************************************************************************)
LEMMA ThinnedAs ==
    ASSUME size \in Nat, NEW g
    PROVE  g \in ThinnedLine <=> FullChunk(g, size) \/ Leftover(g, size)
<1> DEFINE FullOf(a, b) == \E c \in a .. b : /\ (c - a) % Stride = 0 /\ c + Stride - 1 <= b
                                             /\ g = {c + Stride - 1}
           RestOf(a, b) == \E c \in a .. b : /\ (c - a) % Stride = 0 /\ c + Stride - 1 > b
                                             /\ b < size /\ g = c .. b
<1>0. Stride \in Nat \ {0}
  BY AdapterAssumption
<1>1. g \in ThinnedLine <=> \E a, b \in 1 .. size : Run(a, b) /\ g \in ThinnedRun(a, b)
  <2> DEFINE R == {s \in (1 .. size) \X (1 .. size) : Run(s[1], s[2])}
  <2>1. g \in ThinnedLine <=> \E r \in R : g \in ThinnedRun(r[1], r[2])
    BY DEF ThinnedLine
  <2>2. \A a, b \in 1 .. size : Run(a, b) => <<a, b>> \in R
    OBVIOUS
  <2>3. \A r \in R : r[1] \in 1 .. size /\ r[2] \in 1 .. size /\ Run(r[1], r[2])
    OBVIOUS
  <2> HIDE DEF R
  <2> QED
    BY <2>1, <2>2, <2>3
<1>2. \A a, b : g \in ThinnedRun(a, b) <=> FullOf(a, b) \/ RestOf(a, b)
  BY DEF ThinnedRun, Chunks
<1>3. ASSUME NEW a \in 1 .. size, NEW b \in 1 .. size, Run(a, b), FullOf(a, b)
      PROVE  FullChunk(g, size)
  <2>1. PICK c \in a .. b : /\ (c - a) % Stride = 0 /\ c + Stride - 1 <= b
                            /\ g = {c + Stride - 1}
    BY <1>3
  <2>2. /\ a \in 1 .. c + Stride - 1 /\ c \in a .. c + Stride - 1 /\ c \in 1 .. size
        /\ c + Stride - 1 <= size /\ \A i \in a .. c + Stride - 1 : i \in a .. b
    BY <1>0, <2>1
  <2>3. RunFrom(a, c + Stride - 1)
    BY <1>3, <2>2 DEF Run, RunFrom
  <2> QED
    BY <2>1, <2>2, <2>3 DEF FullChunk, Chunk
<1>4. ASSUME NEW a \in 1 .. size, NEW b \in 1 .. size, Run(a, b), RestOf(a, b)
      PROVE  Leftover(g, size)
  <2>1. PICK c \in a .. b : /\ (c - a) % Stride = 0 /\ c + Stride - 1 > b
                            /\ b < size /\ g = c .. b
    BY <1>4
  <2>2. a \in 1 .. b /\ c \in 1 .. size /\ b < c + Stride - 1 /\ b # size
    BY <1>0, <2>1
  <2>3. RunFrom(a, b) /\ ~ IsSurface(b + 1)
    BY <1>4, <2>2 DEF Run, RunFrom
  <2> QED
    BY <2>1, <2>2, <2>3 DEF Leftover, Chunk
<1>5. ASSUME FullChunk(g, size) PROVE \E a, b \in 1 .. size : Run(a, b) /\ FullOf(a, b)
  <2>1. PICK c \in 1 .. size : /\ c + Stride - 1 <= size /\ Chunk(c, c + Stride - 1)
                               /\ g = {c + Stride - 1}
    BY <1>5 DEF FullChunk
  <2> DEFINE j == c + Stride - 1
  <2>2. PICK a \in 1 .. j : RunFrom(a, j) /\ c \in a .. j /\ (c - a) % Stride = 0
    BY <2>1 DEF Chunk
  <2>3. j \in 1 .. size
    BY <1>0, <2>1
  <2> HIDE DEF j
  <2>4. PICK b \in j .. size : Run(a, b)
    BY <2>2, <2>3, RunEnds
  <2>5. a \in 1 .. size /\ b \in 1 .. size /\ c \in a .. b /\ j <= b
    BY <2>2, <2>3, <2>4
  <2>6. FullOf(a, b)
    BY <2>1, <2>2, <2>5 DEF j
  <2> HIDE DEF FullOf
  <2> QED
    BY <2>4, <2>5, <2>6
<1>6. ASSUME Leftover(g, size) PROVE \E a, b \in 1 .. size : Run(a, b) /\ RestOf(a, b)
  <2>1. PICK c \in 1 .. size, b \in 1 .. size :
          /\ b < size /\ Chunk(c, b) /\ b < c + Stride - 1 /\ ~ IsSurface(b + 1) /\ g = c .. b
    BY <1>6 DEF Leftover
  <2>2. PICK a \in 1 .. b : RunFrom(a, b) /\ c \in a .. b /\ (c - a) % Stride = 0
    BY <2>1 DEF Chunk
  <2>3. a \in 1 .. size /\ Run(a, b)
    BY <2>1, <2>2 DEF Run, RunFrom
  <2>4. RestOf(a, b)
    BY <1>0, <2>1, <2>2
  <2> HIDE DEF RestOf
  <2> QED
    BY <2>3, <2>4
<1> HIDE DEF FullOf, RestOf
<1> QED
  BY <1>1, <1>2, <1>3, <1>4, <1>5, <1>6

LEMMA SurfaceIsThinned ==
    ASSUME size \in Nat
    PROVE  SurfaceOfLine = ThinnedLine
<1>1. PICK h \in [0 .. size -> Emissions] :
        /\ h[0] = NothingEmitted
        /\ \A k \in 1 .. size : h[k] = EmitPoint(h[k - 1], k)
        /\ SurfaceOfLine = h[size].out
  BY EmissionRuns
<1> DEFINE S == {k \in 0 .. size : EmittedTo(h[k], k)}
<1>2. 0 \in S
  <2>1. \A g : ~ FullChunk(g, 0) /\ ~ Leftover(g, 0)
    BY DEF FullChunk, Leftover
  <2>2. EmittedTo(h[0], 0)
    BY <1>1, <2>1 DEF EmittedTo, Kept, NothingEmitted
  <2> QED
    BY <2>2
<1>3. ASSUME NEW k \in 1 .. size, k - 1 \in S PROVE k \in S
  <2>1. /\ k \in Nat \ {0} /\ k - 1 \in 0 .. size /\ h[k - 1] \in Emissions
        /\ EmittedTo(h[k - 1], k - 1)
    BY <1>3
  <2>2. EmittedTo(EmitPoint(h[k - 1], k), k)
    BY <2>1, EmitSurface, EmitOther
  <2> QED
    BY <1>1, <2>2
<1>4. size \in S
  <2>1. size \in 0 .. size
    OBVIOUS
  <2> HIDE DEF S
  <2> QED
    BY <1>2, <1>3, <2>1, Climb
<1>5. \A g : g \in SurfaceOfLine <=> g \in ThinnedLine
  BY <1>1, <1>4, ThinnedAs DEF EmittedTo
<1> QED
  BY <1>5

-----------------------------------------------------------------------------
(* Ascending order *)

(***************************************************************************)
(* A finite set of elements with integer keys has an n-th key.             *)
(***************************************************************************)
Reach(S, f, x) == {k \in S : f[k] <= x}
Under(S, f, x) == {k \in S : f[k] < x}

LEMMA AscendingIs ==
    ASSUME NEW S, IsFiniteSet(S), NEW f, \A k \in S : f[k] \in Int
    PROVE  \A n \in 1 .. Cardinality(S) :
             /\ \E k \in S : Ascending(S, f)[n] = f[k]
             /\ Cardinality(Under(S, f, Ascending(S, f)[n])) < n
             /\ Cardinality(Reach(S, f, Ascending(S, f)[n])) >= n
<1>1. \A T \in SUBSET S : /\ IsFiniteSet(T) /\ Cardinality(T) \in Nat
                          /\ Cardinality(T) <= Cardinality(S)
  BY FS_Subset, FS_CardinalityType
<1>2. Cardinality(S) \in Nat
  BY FS_CardinalityType
<1>3. \A x : Reach(S, f, x) \in SUBSET S /\ Under(S, f, x) \in SUBSET S
  BY DEF Reach, Under
<1>4. SUFFICES ASSUME NEW n \in 1 .. Cardinality(S)
               PROVE  \E k \in S : /\ Cardinality(Under(S, f, f[k])) < n
                                   /\ Cardinality(Reach(S, f, f[k])) >= n
  <2> DEFINE values == {f[k] : k \in S}
             Nth(n, x) == /\ Cardinality({k \in S : f[k] < x}) < n
                          /\ Cardinality({k \in S : f[k] <= x}) >= n
  <2>1. ASSUME NEW n \in 1 .. Cardinality(S) PROVE
            /\ \E k \in S : Ascending(S, f)[n] = f[k]
            /\ Nth(n, Ascending(S, f)[n])
    <3>1. Ascending(S, f)[n] = CHOOSE x \in values : Nth(n, x)
      BY DEF Ascending
    <3>2. \E x \in values : Nth(n, x)
      BY <1>4 DEF Under, Reach
    <3> HIDE DEF Nth
    <3> QED
      BY <3>1, <3>2
  <2> QED
    BY <2>1 DEF Under, Reach
<1> DEFINE X == {k \in S : Cardinality(Reach(S, f, f[k])) >= n}
<1>5. S # {}
  BY <1>2, FS_EmptySet
<1>6. X # {}
  <2>1. PICK a \in S : \A b \in S : f[b] <= f[a]
    BY <1>5, FiniteHasExtremes
  <2>2. Reach(S, f, f[a]) = S
    BY <2>1 DEF Reach
  <2> QED
    BY <1>2, <2>2
<1>7. PICK a \in X : \A b \in X : f[a] <= f[b]
  <2>1. IsFiniteSet(X) /\ \A k \in X : f[k] \in Int
    BY <1>1
  <2> HIDE DEF X
  <2> QED
    BY <1>6, <2>1, FiniteHasExtremes
<1>8. Cardinality(Under(S, f, f[a])) < n
  <2> DEFINE U == Under(S, f, f[a])
  <2>1. SUFFICES ASSUME Cardinality(U) >= n PROVE FALSE
    BY <1>1, <1>2, <1>3
  <2>2. IsFiniteSet(U) /\ U # {} /\ U \subseteq S /\ \A k \in U : f[k] \in Int
    <3>1. Cardinality(U) # 0
      BY <1>2, <2>1
    <3>2. IsFiniteSet(U) /\ U \subseteq S
      BY <1>1, <1>3
    <3> HIDE DEF U
    <3> QED
      BY <3>1, <3>2, FS_EmptySet
  <2>3. PICK b \in U : \A c \in U : f[c] <= f[b]
    <3> HIDE DEF U
    <3> QED
      BY <2>2, FiniteHasExtremes
  <2>4. b \in S /\ f[b] < f[a] /\ f[a] \in Int /\ f[b] \in Int
    BY <2>2 DEF Under
  <2>5. U = Reach(S, f, f[b])
    <3>1. \A c \in S : c \in U => f[c] <= f[b]
      BY <2>3
    <3>2. \A c \in S : f[c] <= f[b] => f[c] < f[a]
      BY <2>4
    <3> QED
      BY <3>1, <3>2 DEF Under, Reach
  <2>6. b \in X
    BY <2>1, <2>4, <2>5
  <2> QED
    BY <1>7, <2>4, <2>6
<1> QED
  BY <1>7, <1>8

LEMMA AscendingIsSequence ==
    ASSUME NEW S, IsFiniteSet(S), NEW f, \A k \in S : f[k] \in Int
    PROVE  /\ Ascending(S, f) \in Seq(Int) /\ Len(Ascending(S, f)) = Cardinality(S)
           /\ Cardinality(S) \in Nat
<1> DEFINE Nth(n) == CHOOSE x \in {f[k] : k \in S} :
                       /\ Cardinality({k \in S : f[k] < x}) < n
                       /\ Cardinality({k \in S : f[k] <= x}) >= n
<1>1. Ascending(S, f) = [n \in 1 .. Cardinality(S) |-> Nth(n)]
  BY DEF Ascending
<1>2. \A n \in 1 .. Cardinality(S) : Ascending(S, f)[n] = Nth(n)
  BY <1>1
<1> HIDE DEF Nth
<1>3. \A n \in 1 .. Cardinality(S) : Nth(n) \in Int
  <2>1. \A n \in 1 .. Cardinality(S) : \E k \in S : Ascending(S, f)[n] = f[k]
    BY AscendingIs
  <2> QED
    BY <1>2, <2>1
<1>4. Cardinality(S) \in Nat
  BY FS_CardinalityType
<1>5. Ascending(S, f) \in [1 .. Cardinality(S) -> Int]
  BY <1>1, <1>3
<1>6. Ascending(S, f) \in Seq(Int) /\ DOMAIN Ascending(S, f) = 1 .. Cardinality(S)
  BY <1>4, <1>5
<1> QED
  BY <1>4, <1>6

(***************************************************************************)
(* What is counted to find the n-th key says that the keys ascend, and how *)
(* many elements have a key between two of them.                           *)
(***************************************************************************)
Between(S, f, x, y) == {k \in S : x <= f[k] /\ f[k] <= y}

LEMMA CountBetween ==
    ASSUME NEW S, IsFiniteSet(S), NEW f, \A k \in S : f[k] \in Int,
           NEW x \in Int, NEW y \in Int, x <= y
    PROVE  /\ Cardinality(Between(S, f, x, y)) \in Nat
           /\ Cardinality(Reach(S, f, y)) \in Nat
           /\ Cardinality(Under(S, f, x)) \in Nat
           /\ Cardinality(Between(S, f, x, y))
                = Cardinality(Reach(S, f, y)) - Cardinality(Under(S, f, x))
<1>1. Between(S, f, x, y) = Reach(S, f, y) \ Under(S, f, x)
  BY DEF Between, Reach, Under
<1>2. Reach(S, f, y) \cap Under(S, f, x) = Under(S, f, x)
  BY DEF Reach, Under
<1>3. Reach(S, f, y) \in SUBSET S /\ Under(S, f, x) \in SUBSET S /\ Between(S, f, x, y) \in SUBSET S
  BY DEF Reach, Under, Between
<1>4. \A T \in SUBSET S : IsFiniteSet(T) /\ Cardinality(T) \in Nat
  BY FS_Subset, FS_CardinalityType
<1> QED
  BY <1>1, <1>2, <1>3, <1>4, FS_Difference

LEMMA KeysAscend ==
    ASSUME NEW S, IsFiniteSet(S), NEW f, \A k \in S : f[k] \in Int,
           NEW i \in 1 .. Cardinality(S), NEW j \in 1 .. Cardinality(S), i <= j
    PROVE  /\ Ascending(S, f)[i] <= Ascending(S, f)[j]
           /\ Cardinality(Between(S, f, Ascending(S, f)[i], Ascending(S, f)[j])) >= j - i + 1
<1> DEFINE x == Ascending(S, f)[i]
           y == Ascending(S, f)[j]
<1>1. /\ Cardinality(Under(S, f, x)) < i /\ Cardinality(Reach(S, f, y)) >= j
      /\ (\E k \in S : x = f[k]) /\ (\E k \in S : y = f[k])
  BY AscendingIs
<1> HIDE DEF x, y
<1>2. x \in Int /\ y \in Int
  BY <1>1
<1>3. Cardinality(S) \in Nat /\ i \in Int /\ j \in Int
  BY FS_CardinalityType
<1>4. \A T \in SUBSET S : IsFiniteSet(T) /\ Cardinality(T) \in Nat
  BY FS_Subset, FS_CardinalityType
<1>5. Reach(S, f, y) \in SUBSET S /\ Under(S, f, x) \in SUBSET S
  BY DEF Reach, Under
<1>6. x <= y
  <2> SUFFICES ASSUME y < x PROVE FALSE
    BY <1>2
  <2>1. Reach(S, f, y) \subseteq Under(S, f, x)
    BY <1>2 DEF Reach, Under
  <2>2. Cardinality(Reach(S, f, y)) <= Cardinality(Under(S, f, x))
    BY <1>4, <1>5, <2>1, FS_Subset
  <2> QED
    BY <1>1, <1>3, <1>4, <1>5, <2>2
<1>7. /\ Cardinality(Between(S, f, x, y))
           = Cardinality(Reach(S, f, y)) - Cardinality(Under(S, f, x))
      /\ Cardinality(Reach(S, f, y)) \in Nat /\ Cardinality(Under(S, f, x)) \in Nat
  BY <1>2, <1>6, CountBetween
<1>8. Cardinality(Between(S, f, x, y)) >= j - i + 1
  BY <1>1, <1>3, <1>7
<1> QED
  BY <1>6, <1>8 DEF x, y

(***************************************************************************)
(* Elements with keys from x to y are no more than there are indices from  *)
(* the first of their keys to the last.                                    *)
(***************************************************************************)
LEMMA CountedByIndices ==
    ASSUME NEW S, IsFiniteSet(S), NEW f, \A k \in S : f[k] \in Int,
           NEW x \in Int, NEW y \in Int, x <= y, Between(S, f, x, y) # {}
    PROVE  \E i, j \in 1 .. Cardinality(S) :
             /\ i <= j /\ Cardinality(Between(S, f, x, y)) = j - i + 1
             /\ x <= Ascending(S, f)[i] /\ Ascending(S, f)[j] <= y
<1> DEFINE i == Cardinality(Under(S, f, x)) + 1
           j == Cardinality(Reach(S, f, y))
<1>1. \A T \in SUBSET S : /\ IsFiniteSet(T) /\ Cardinality(T) \in Nat
                          /\ Cardinality(T) <= Cardinality(S)
  BY FS_Subset, FS_CardinalityType
<1>2. \A z : Reach(S, f, z) \in SUBSET S /\ Under(S, f, z) \in SUBSET S
  BY DEF Reach, Under
<1>3. Between(S, f, x, y) \in SUBSET S
  BY DEF Between
<1>4. Cardinality(Between(S, f, x, y)) = j - i + 1 /\ i \in Nat /\ j \in Nat /\ 1 <= i
  BY CountBetween
<1>5. Cardinality(Between(S, f, x, y)) >= 1
  BY <1>1, <1>3, FS_EmptySet
<1>6. Cardinality(S) \in Nat /\ j <= Cardinality(S)
  BY <1>1, <1>2
<1> HIDE DEF i, j
<1>7. i <= j /\ i \in 1 .. Cardinality(S) /\ j \in 1 .. Cardinality(S)
  BY <1>4, <1>5, <1>6
<1> DEFINE a == Ascending(S, f)[i]
           b == Ascending(S, f)[j]
<1>8. /\ Cardinality(Reach(S, f, a)) >= i /\ Cardinality(Under(S, f, b)) < j
      /\ (\E k \in S : a = f[k]) /\ (\E k \in S : b = f[k])
  BY <1>7, AscendingIs
<1> HIDE DEF a, b
<1>9. a \in Int /\ b \in Int
  BY <1>8
<1>10. x <= a
  <2> SUFFICES ASSUME a < x PROVE FALSE
    BY <1>9
  <2>1. Reach(S, f, a) \subseteq Under(S, f, x)
    BY <1>9 DEF Reach, Under
  <2>2. Cardinality(Reach(S, f, a)) <= Cardinality(Under(S, f, x))
    BY <1>1, <1>2, <2>1, FS_Subset
  <2> QED
    BY <1>1, <1>2, <1>8, <2>2 DEF i
<1>11. b <= y
  <2> SUFFICES ASSUME y < b PROVE FALSE
    BY <1>9
  <2>1. Reach(S, f, y) \subseteq Under(S, f, b)
    BY <1>9 DEF Reach, Under
  <2>2. Cardinality(Reach(S, f, y)) <= Cardinality(Under(S, f, b))
    BY <1>1, <1>2, <2>1, FS_Subset
  <2> QED
    BY <1>1, <1>2, <1>8, <2>2 DEF j
<1> QED
  BY <1>4, <1>7, <1>10, <1>11 DEF a, b

-----------------------------------------------------------------------------
(* The window of a stamped scan *)

AscendingStamps(ts) ==
    /\ ts \in Seq(Int) /\ ts # <<>>
    /\ \A i, j \in 1 .. Len(ts) : i <= j => ts[i] <= ts[j]

LEMMA WindowBeginIs ==
    ASSUME NEW ts, AscendingStamps(ts), NEW begin \in 1 .. Len(ts), NEW end \in begin .. Len(ts)
    PROVE  /\ WindowBegin(ts, begin, end) \in begin .. end
           /\ ts[end] - ts[WindowBegin(ts, begin, end)] <= MaxDuration
           /\ \A c \in begin .. WindowBegin(ts, begin, end) - 1 : ts[end] - ts[c] > MaxDuration
<1> DEFINE S == {b \in begin .. end : ts[end] - ts[b] <= MaxDuration}
           First(b) == /\ ts[end] - ts[b] <= MaxDuration
                       /\ \A c \in begin .. b - 1 : ts[end] - ts[c] > MaxDuration
<1>1. Len(ts) \in Nat /\ \A k \in 1 .. Len(ts) : ts[k] \in Int
  BY DEF AscendingStamps
<1>2. begin \in Int /\ end \in Int /\ MaxDuration \in Nat
  BY <1>1, AdapterAssumption
<1>3. end \in S
  <2>1. ts[end] \in Int
    BY <1>1
  <2>2. ts[end] - ts[end] = 0
    BY <2>1
  <2> QED
    BY <1>2, <2>2
<1>4. PICK b \in S : \A y \in S : b <= y
  <2>1. S \in SUBSET Int /\ \A x \in S : begin <= x
    BY <1>2
  <2> HIDE DEF S
  <2> QED
    BY <1>2, <1>3, <2>1, LeastInteger
<1>5. First(b)
  <2>1. ASSUME NEW c \in begin .. b - 1 PROVE ts[end] - ts[c] > MaxDuration
    <3>1. c \in begin .. end /\ c < b
      BY <1>2
    <3>2. c \notin S
      BY <1>2, <1>4, <3>1
    <3>3. ts[end] \in Int /\ ts[c] \in Int
      BY <1>1, <1>2, <3>1
    <3> QED
      BY <1>2, <3>1, <3>2, <3>3
  <2> QED
    BY <2>1
<1>6. WindowBegin(ts, begin, end) = CHOOSE x \in begin .. end : First(x)
  BY DEF WindowBegin
<1>7. b \in begin .. end
  OBVIOUS
<1>8. WindowBegin(ts, begin, end) \in begin .. end /\ First(WindowBegin(ts, begin, end))
  <2> HIDE DEF First
  <2> QED
    BY <1>5, <1>6, <1>7
<1> QED
  BY <1>8

(***************************************************************************)
(* findDominantTimestampWindow when its window has reached the m-th stamp: *)
(* what it has left behind is out of reach, and of the windows it has seen *)
(* that are no longer than a scan, the best one has most stamps.           *)
(***************************************************************************)
Windows(ts) == [begin : 1 .. Len(ts), best : (1 .. Len(ts)) \X (1 .. Len(ts))]

SweptTo(ts, s, m) ==
    /\ s \in Windows(ts) /\ s.begin <= m + 1
    /\ \A c \in 1 .. s.begin - 1 : ts[m] - ts[c] > MaxDuration
    /\ s.best[1] <= s.best[2] /\ ts[s.best[2]] - ts[s.best[1]] <= MaxDuration
    /\ \A i, j \in 1 .. m : i <= j /\ ts[j] - ts[i] <= MaxDuration
         => j - i <= s.best[2] - s.best[1]

LEMMA SweepStarts ==
    ASSUME NEW ts, AscendingStamps(ts)
    PROVE  SweptTo(ts, [begin |-> 1, best |-> <<1, 1>>], 0)
<1>1. Len(ts) \in Nat /\ 1 \in 1 .. Len(ts) /\ ts[1] \in Int
  BY DEF AscendingStamps
<1>2. [begin |-> 1, best |-> <<1, 1>>] \in Windows(ts)
  BY <1>1 DEF Windows
<1>3. ts[1] - ts[1] = 0
  BY <1>1
<1> QED
  BY <1>2, <1>3, AdapterAssumption DEF SweptTo

LEMMA SweepMoves ==
    ASSUME NEW ts, AscendingStamps(ts), NEW m \in 1 .. Len(ts), NEW s, SweptTo(ts, s, m - 1)
    PROVE  SweptTo(ts, MoveWindow(ts, s, m), m)
<1> DEFINE b == WindowBegin(ts, s.begin, m)
           t == MoveWindow(ts, s, m)
<1>1. Len(ts) \in Nat /\ m \in Nat /\ MaxDuration \in Nat /\ \A k \in 1 .. Len(ts) : ts[k] \in Int
  BY AdapterAssumption DEF AscendingStamps
<1>2. /\ s.begin \in 1 .. Len(ts) /\ s.best \in (1 .. Len(ts)) \X (1 .. Len(ts))
      /\ s.best = <<s.best[1], s.best[2]>>
      /\ s.begin <= m
      /\ \A c \in 1 .. s.begin - 1 : ts[m - 1] - ts[c] > MaxDuration
      /\ s.best[1] <= s.best[2] /\ ts[s.best[2]] - ts[s.best[1]] <= MaxDuration
      /\ \A i, j \in 1 .. m - 1 : i <= j /\ ts[j] - ts[i] <= MaxDuration
           => j - i <= s.best[2] - s.best[1]
  BY <1>1 DEF SweptTo, Windows
<1>3. /\ b \in s.begin .. m /\ ts[m] - ts[b] <= MaxDuration
      /\ \A c \in s.begin .. b - 1 : ts[m] - ts[c] > MaxDuration
  <2>1. m \in s.begin .. Len(ts)
    BY <1>1, <1>2
  <2> QED
    BY <1>2, <2>1, WindowBeginIs
<1>4. t = [begin |-> b,
           best  |-> IF m - b > s.best[2] - s.best[1] THEN <<b, m>> ELSE s.best]
  BY DEF MoveWindow
<1> HIDE DEF b, t
<1>5. b \in 1 .. Len(ts) /\ b <= m
  BY <1>1, <1>2, <1>3
<1>6. t \in Windows(ts) /\ t.begin = b
  BY <1>2, <1>4, <1>5 DEF Windows
<1>7. ASSUME NEW c \in 1 .. b - 1 PROVE ts[m] - ts[c] > MaxDuration
  <2>1. c \in 1 .. Len(ts) /\ c \in Int /\ s.begin \in Int /\ b \in Int
    BY <1>1, <1>2, <1>5
  <2>2. CASE c >= s.begin
    <3>1. c \in s.begin .. b - 1
      BY <2>1, <2>2
    <3> QED
      BY <1>3, <3>1
  <2>3. CASE c < s.begin
    <3>1. c \in 1 .. s.begin - 1 /\ m - 1 \in 1 .. Len(ts)
      BY <1>1, <1>2, <2>1, <2>3
    <3>2. ts[m - 1] - ts[c] > MaxDuration /\ ts[m - 1] <= ts[m]
      <4>1. m \in 1 .. Len(ts) /\ m - 1 <= m
        BY <1>1
      <4>2. ts[m - 1] <= ts[m]
        BY <3>1, <4>1 DEF AscendingStamps
      <4> QED
        BY <1>2, <3>1, <4>2
    <3>3. ts[m - 1] \in Int /\ ts[m] \in Int /\ ts[c] \in Int
      BY <1>1, <2>1, <3>1
    <3> QED
      BY <1>1, <3>2, <3>3
  <2> QED
    BY <2>1, <2>2, <2>3
<1>8. /\ t.best[1] <= t.best[2] /\ ts[t.best[2]] - ts[t.best[1]] <= MaxDuration
      /\ m - b <= t.best[2] - t.best[1] /\ s.best[2] - s.best[1] <= t.best[2] - t.best[1]
  <2>1. s.best[1] \in Int /\ s.best[2] \in Int /\ b \in Int
    BY <1>1, <1>2, <1>5
  <2>2. CASE m - b > s.best[2] - s.best[1]
    <3>1. t.best[1] = b /\ t.best[2] = m
      BY <1>4, <2>2
    <3> QED
      BY <1>1, <1>3, <1>5, <2>1, <2>2, <3>1
  <2>3. CASE ~ (m - b > s.best[2] - s.best[1])
    <3>1. t.best = s.best
      BY <1>4, <2>3
    <3> QED
      BY SMTT(20), <1>1, <1>2, <2>1, <2>3, <3>1
  <2> QED
    BY <2>2, <2>3
<1>9. ASSUME NEW i \in 1 .. m, NEW j \in 1 .. m, i <= j, ts[j] - ts[i] <= MaxDuration
      PROVE  j - i <= t.best[2] - t.best[1]
  <2>1. /\ s.best[1] \in Int /\ s.best[2] \in Int /\ t.best[1] \in Int /\ t.best[2] \in Int
        /\ b \in Int
    BY <1>1, <1>2, <1>5, <1>6 DEF Windows
  <2>2. CASE j = m
    <3>1. ~ (i \in 1 .. b - 1)
      <4>1. ts[m] \in Int /\ ts[i] \in Int
        BY <1>1
      <4> QED
        BY <1>1, <1>7, <1>9, <2>2, <4>1
    <3>2. b <= i
      BY <2>1, <3>1
    <3>3. m - b <= t.best[2] - t.best[1] /\ i \in Int /\ m \in Int
      BY <1>1, <1>8
    <3> QED
      BY <2>1, <2>2, <3>2, <3>3
  <2>3. CASE j # m
    <3>1. i \in 1 .. m - 1 /\ j \in 1 .. m - 1
      BY <1>9, <2>3
    <3>2. j - i <= s.best[2] - s.best[1]
      BY <1>2, <1>9, <3>1
    <3> QED
      BY SMTT(20), <1>8, <2>1, <3>2
  <2> QED
    BY <2>2, <2>3
<1> QED
  BY <1>5, <1>6, <1>7, <1>8, <1>9 DEF SweptTo, t

LEMMA SweptIs ==
    ASSUME NEW ts, AscendingStamps(ts)
    PROVE  SweptTo(ts, Swept(ts), Len(ts))
<1> DEFINE n == Len(ts)
           V == Windows(ts)
           s0 == [begin |-> 1, best |-> <<1, 1>>]
           F == [x \in V \X (1 .. n) |-> IF SweptTo(ts, x[1], x[2] - 1)
                                           THEN MoveWindow(ts, x[1], x[2]) ELSE x[1]]
           Is(g) == g = [end \in 0 .. n |-> IF end = 0 THEN [begin |-> 1, best |-> <<1, 1>>]
                                                        ELSE MoveWindow(ts, g[end - 1], end)]
           g == CHOOSE f : Is(f)
<1>1. n \in Nat
  BY DEF AscendingStamps
<1>2. SweptTo(ts, s0, 0) /\ s0 \in V
  BY SweepStarts DEF SweptTo
<1>3. \A s \in V, k \in 1 .. n : SweptTo(ts, s, k - 1)
          => MoveWindow(ts, s, k) \in V /\ SweptTo(ts, MoveWindow(ts, s, k), k)
  BY SweepMoves DEF SweptTo
<1>4. F \in Steps(n, V)
  BY <1>3 DEF Steps
<1>5. \A s \in V, k \in 1 .. n : SweptTo(ts, s, k - 1) => F[<<s, k>>] = MoveWindow(ts, s, k)
  OBVIOUS
<1>6. Swept(ts) = g[n]
  BY DEF Swept
<1> HIDE DEF n, V, F, s0
<1>7. PICK h \in [0 .. n -> V] : h[0] = s0 /\ \A k \in 1 .. n : h[k] = F[<<h[k - 1], k>>]
  <2>1. \E h : IsRun(h, n, V, s0, F)
    BY <1>1, <1>2, <1>4, RunsExist
  <2> QED
    BY <2>1 DEF IsRun
<1>8. \A k \in 1 .. n : k - 1 \in 0 .. n /\ k \in 0 .. n /\ k # 0
  BY <1>1
<1>9. \A k \in 0 .. n : SweptTo(ts, h[k], k)
  <2> DEFINE S == {k \in 0 .. n : SweptTo(ts, h[k], k)}
  <2>1. 0 \in S
    BY <1>1, <1>2, <1>7
  <2>2. ASSUME NEW k \in 1 .. n, k - 1 \in S PROVE k \in S
    <3>1. h[k - 1] \in V /\ SweptTo(ts, h[k - 1], k - 1)
      BY <1>7, <1>8, <2>2
    <3> QED
      BY ZenonT(30), <1>3, <1>5, <1>7, <1>8, <3>1
  <2>3. \A k \in 0 .. n : k \in S
    <3> HIDE DEF S
    <3> QED
      BY <1>1, <2>1, <2>2, Climb
  <2> QED
    BY <2>3
<1>10. \A k \in 1 .. n : h[k] = MoveWindow(ts, h[k - 1], k)
  BY <1>5, <1>7, <1>8, <1>9
<1>11. Is(h)
  <2> DEFINE r == [end \in 0 .. n |-> IF end = 0 THEN [begin |-> 1, best |-> <<1, 1>>]
                                                 ELSE MoveWindow(ts, h[end - 1], end)]
  <2>1. \A i \in 0 .. n : h[i] = r[i]
    BY <1>1, <1>7, <1>10 DEF s0
  <2>2. h = [i \in 0 .. n |-> h[i]] /\ r = [i \in 0 .. n |-> r[i]]
    BY <1>7
  <2>3. h = r
    <3> HIDE DEF r
    <3> QED
      BY <2>1, <2>2
  <2> QED
    BY <2>3
<1>12. Is(g)
  <2> HIDE DEF Is
  <2> QED
    BY <1>11
<1>13. g[0] = s0 /\ \A k \in 1 .. n : g[k] = MoveWindow(ts, g[k - 1], k)
  <2> HIDE DEF g
  <2>1. 0 \in 0 .. n
    BY <1>1
  <2> QED
    BY <1>8, <1>12, <2>1 DEF s0
<1> HIDE DEF g
<1>14. \A k \in 0 .. n : g[k] = h[k]
  <2> DEFINE S == {k \in 0 .. n : g[k] = h[k]}
  <2>1. 0 \in S
    BY <1>1, <1>7, <1>13
  <2>2. \A k \in 1 .. n : k - 1 \in S => k \in S
    BY <1>8, <1>10, <1>13
  <2>3. \A k \in 0 .. n : k \in S
    <3> HIDE DEF S
    <3> QED
      BY <1>1, <2>1, <2>2, Climb
  <2> QED
    BY <2>3
<1>15. n \in 0 .. n
  BY <1>1
<1> QED
  BY <1>6, <1>9, <1>14, <1>15 DEF n

LEMMA TimeIsInteger ==
    ASSUME NEW msg \in Seq(Point)
    PROVE  \A k \in DOMAIN msg : msg[k].time \in Int
<1>1. \A k \in DOMAIN msg : msg[k] \in Point
  OBVIOUS
<1>2. \A p \in Point : p.time \in Int
  BY DEF Point
<1> QED
  BY <1>1, <1>2

(***************************************************************************)
(* findTimestampWindow: the window it finds is dominant.                   *)
(***************************************************************************)
Inside(msg, w) == {k \in ValidPoints(msg) : InWindow(msg[k], w)}
WithinScan(msg, from) == {k \in ValidPoints(msg) : msg[k].time \in from .. from + MaxDuration}

LEMMA WindowIsDominant ==
    ASSUME NEW msg \in Seq(Point), FindTimestampWindow(msg) # NoWindow,
           NEW w, w = FindTimestampWindow(msg)
    PROVE  /\ w.start \in Int /\ w.end \in Int /\ w.end - w.start <= MaxDuration
           /\ 2 * Cardinality(Inside(msg, w)) > Cardinality(ValidPoints(msg))
           /\ \A k \in ValidPoints(msg) :
                Cardinality(WithinScan(msg, msg[k].time)) <= Cardinality(Inside(msg, w))
<1> DEFINE S == ValidPoints(msg)
           f == [k \in S |-> msg[k].time]
           ts == Ascending(S, f)
           n == Cardinality(S)
<1>1. /\ S \subseteq 1 .. Len(msg) /\ IsFiniteSet(S)
      /\ \A k \in S : f[k] = msg[k].time /\ f[k] \in Int
  <2>1. S \subseteq 1 .. Len(msg) /\ Len(msg) \in Nat
    BY DEF ValidPoints
  <2>2. IsFiniteSet(1 .. Len(msg))
    BY <2>1, FS_Interval
  <2>3. IsFiniteSet(S)
    <3> HIDE DEF S
    <3> QED
      BY <2>1, <2>2, FS_Subset
  <2>4. \A k \in S : msg[k].time \in Int
    BY TimeIsInteger DEF ValidPoints
  <2> QED
    BY <2>1, <2>3, <2>4
<1>2. ts = SortedTimestamps(msg)
  BY DEF SortedTimestamps
<1>3. \A k \in S : f[k] \in Int
  BY <1>1
<1>4. \A x, y : Between(S, f, x, y) = {k \in S : x <= msg[k].time /\ msg[k].time <= y}
  BY <1>1 DEF Between
<1>5. Inside(msg, w) = Between(S, f, w.start, w.end)
  BY <1>4 DEF Inside, InWindow
<1> HIDE DEF S, f
<1>6. ts \in Seq(Int) /\ Len(ts) = n /\ n \in Nat
  BY <1>1, <1>3, AscendingIsSequence
<1>7. \A i, j \in 1 .. n : i <= j =>
        ts[i] <= ts[j] /\ Cardinality(Between(S, f, ts[i], ts[j])) >= j - i + 1
  BY <1>1, <1>3, KeysAscend
<1>8. \A x, y \in Int : x <= y /\ Between(S, f, x, y) # {} =>
        \E i, j \in 1 .. n : /\ i <= j /\ Cardinality(Between(S, f, x, y)) = j - i + 1
                             /\ x <= ts[i] /\ ts[j] <= y
  BY <1>1, <1>3, CountedByIndices
<1>9. \A T \in SUBSET S : Cardinality(T) \in Nat
  BY <1>1, FS_Subset, FS_CardinalityType
<1> HIDE DEF ts, n
<1>10. n >= 1 /\ AscendingStamps(ts)
  <2>1. ts # <<>>
    BY <1>2 DEF FindTimestampWindow
  <2>2. n >= 1
    BY <1>6, <2>1
  <2> QED
    BY <1>6, <1>7, <2>1, <2>2 DEF AscendingStamps
<1>11. MaxDuration \in Nat
  BY AdapterAssumption
<1>12. PICK a \in 1 .. n, b \in 1 .. n :
         /\ a <= b /\ w.start = ts[a] /\ w.end = ts[b]
         /\ ts[b] - ts[a] <= MaxDuration /\ 2 * (b - a + 1) > n
         /\ \A i, j \in 1 .. n : i <= j /\ ts[j] - ts[i] <= MaxDuration => j - i <= b - a
  <2>1. CASE ts[Len(ts)] - ts[1] <= MaxDuration
    <3>1. w = [start |-> ts[1], end |-> ts[n]]
      BY <1>2, <1>6, <1>10, <2>1 DEF FindTimestampWindow, AscendingStamps
    <3>2. 1 \in 1 .. n /\ n \in 1 .. n /\ 1 <= n /\ 2 * (n - 1 + 1) > n
      BY <1>6, <1>10
    <3>3. \A i, j \in 1 .. n : j - i <= n - 1
      BY <1>6
    <3> QED
      BY <1>6, <2>1, <3>1, <3>2, <3>3
  <2>2. CASE ~ (ts[Len(ts)] - ts[1] <= MaxDuration)
    <3> DEFINE s == Swept(ts)
    <3>1. FindTimestampWindow(msg) = FindDominantTimestampWindow(ts)
      BY <1>2, <1>10, <2>2 DEF FindTimestampWindow, AscendingStamps
    <3>2. SweptTo(ts, s, n)
      BY <1>6, <1>10, SweptIs
    <3>3. /\ IsDominant(s.best[2] - s.best[1] + 1, n)
          /\ w = [start |-> ts[s.best[1]], end |-> ts[s.best[2]]]
      BY <1>6, <3>1 DEF FindDominantTimestampWindow
    <3> HIDE DEF s
    <3>4. s.best[1] \in 1 .. n /\ s.best[2] \in 1 .. n
      BY <1>6, <3>2 DEF SweptTo, Windows
    <3>5. 2 * (s.best[2] - s.best[1] + 1) > n
      <4>1. \A x \in Int : x > n \div 2 => 2 * x > n
        BY <1>6
      <4>2. s.best[2] - s.best[1] + 1 \in Int
        BY <3>4
      <4> QED
        BY <3>3, <4>1, <4>2 DEF IsDominant
    <3>6. w.start = ts[s.best[1]] /\ w.end = ts[s.best[2]]
      BY <3>3
    <3>7. /\ s.best[1] <= s.best[2] /\ ts[s.best[2]] - ts[s.best[1]] <= MaxDuration
          /\ \A i, j \in 1 .. n : i <= j /\ ts[j] - ts[i] <= MaxDuration
               => j - i <= s.best[2] - s.best[1]
      BY <3>2 DEF SweptTo
    <3> QED
      BY <3>4, <3>5, <3>6, <3>7
  <2> QED
    BY <2>1, <2>2
<1>13. ts[a] \in Int /\ ts[b] \in Int /\ \A i \in 1 .. n : ts[i] \in Int
  BY <1>6, <1>12
<1>14. /\ Cardinality(Inside(msg, w)) \in Nat
       /\ Cardinality(Inside(msg, w)) >= b - a + 1
  <2>1. Inside(msg, w) \in SUBSET S
    BY <1>5 DEF Between
  <2> QED
    BY <1>5, <1>7, <1>9, <1>12, <2>1
<1>15. 2 * Cardinality(Inside(msg, w)) > n
  BY <1>6, <1>12, <1>14
<1>16. ASSUME NEW k \in S
       PROVE  Cardinality(WithinScan(msg, msg[k].time)) <= Cardinality(Inside(msg, w))
  <2> DEFINE x == msg[k].time
             y == x + MaxDuration
  <2>1. x \in Int /\ y \in Int /\ x <= y /\ \A l \in S : msg[l].time \in Int
    BY <1>1, <1>11
  <2> HIDE DEF x, y
  <2>2. WithinScan(msg, x) = Between(S, f, x, y)
    BY <1>4, <2>1 DEF WithinScan, S, y
  <2>3. k \in Between(S, f, x, y)
    BY <1>4, <2>1 DEF x
  <2>4. PICK i \in 1 .. n, j \in 1 .. n :
          /\ i <= j /\ Cardinality(Between(S, f, x, y)) = j - i + 1
          /\ x <= ts[i] /\ ts[j] <= y
    BY <1>8, <2>1, <2>3
  <2>5. ts[j] - ts[i] <= MaxDuration
    BY SMTT(20), <1>11, <1>13, <2>1, <2>4 DEF y
  <2>6. j - i <= b - a
    BY <1>12, <2>4, <2>5
  <2> QED
    BY <1>6, <1>12, <1>14, <2>2, <2>4, <2>6 DEF x
<1> QED
  BY <1>12, <1>13, <1>15, <1>16 DEF S, n

(***************************************************************************)
(* The offsets of a Velodyne message have a least and a greatest one.      *)
(***************************************************************************)
LEMMA TimesAreFinite ==
    ASSUME NEW msg \in Seq(Point)
    PROVE  /\ Times(msg) \in SUBSET Int /\ IsFiniteSet(Times(msg))
           /\ \A k \in DOMAIN msg : msg[k].timed => msg[k].time \in Times(msg)
<1> DEFINE D == {l \in DOMAIN msg : msg[l].timed}
<1>1. DOMAIN msg = 1 .. Len(msg) /\ Len(msg) \in Nat /\ \A l \in DOMAIN msg : msg[l].time \in Int
  BY TimeIsInteger
<1>2. IsFiniteSet(1 .. Len(msg))
  BY <1>1, FS_Interval
<1>3. IsFiniteSet(D)
  <2>1. D \subseteq 1 .. Len(msg)
    BY <1>1
  <2> HIDE DEF D
  <2> QED
    BY <1>2, <2>1, FS_Subset
<1>4. Times(msg) = {msg[k].time : k \in D}
  BY DEF Times
<1>5. IsFiniteSet({msg[k].time : k \in D})
  <2> DEFINE g == [k \in D |-> msg[k].time]
             I == {msg[k].time : k \in D}
  <2>1. g \in Surjection(D, I)
    BY DEF Surjection
  <2> HIDE DEF g, I, D
  <2>2. IsFiniteSet(I)
    BY <1>3, <2>1, FS_Surjection
  <2> QED
    BY <2>2 DEF I
<1> QED
  BY <1>1, <1>4, <1>5

LEMMA ExtremesAre ==
    ASSUME NEW S \in SUBSET Int, IsFiniteSet(S), S # {}
    PROVE  /\ Least(S \cup {0}) \in S \cup {0} /\ \A x \in S \cup {0} : Least(S \cup {0}) <= x
           /\ Greatest(S) \in S /\ \A y \in S : y <= Greatest(S)
<1> DEFINE T == S \cup {0}
           f == [k \in T |-> k]
<1>1. T \in SUBSET Int /\ T # {} /\ IsFiniteSet(T) /\ \A k \in T : f[k] \in Int
  BY FS_AddElement
<1>2. \E a \in T : \A b \in T : f[a] <= f[b]
  <2> HIDE DEF T, f
  <2> QED
    BY <1>1, FiniteHasExtremes
<1>3. \E a \in S : \A b \in S : f[b] <= f[a]
  <2>1. \A k \in S : f[k] \in Int
    OBVIOUS
  <2> HIDE DEF f
  <2> QED
    BY <2>1, FiniteHasExtremes
<1>4. \E x \in T : \A y \in T : x <= y
  BY <1>2
<1>5. \E x \in S : \A y \in S : y <= x
  BY <1>3
<1>6. Least(T) \in T /\ \A y \in T : Least(T) <= y
  <2> HIDE DEF T
  <2> QED
    BY <1>4 DEF Least
<1>7. Greatest(S) \in S /\ \A y \in S : y <= Greatest(S)
  BY <1>5 DEF Greatest
<1> QED
  BY <1>6, <1>7

-----------------------------------------------------------------------------
(* What a scan leaves for the next one *)

TakenPoints == {<<message, k>> : k \in Convert(sensor, message).points}
NotBlind == {q \in TakenPoints : message[q[2]].spot # "blind"}

(***************************************************************************)
(* While the lines of a scan are searched for features, they hold points   *)
(* that the adapter took of this message, and the points called visible    *)
(* are those with a range.                                                 *)
(***************************************************************************)
LinesInv ==
    /\ lines \in [1 .. ScanLines -> Seq(TakenPoints)]
    /\ line \in 0 .. ScanLines
    /\ surface \subseteq SUBSET NotBlind
    /\ pass # "none" => /\ line < ScanLines /\ size = Len(Points)
                        /\ \A n \in visible : PointAt(n).spot \in VisibleSpots

(***************************************************************************)
(* EmittedFromThisScan and PointTimesMatchScan are not inductive.  What    *)
(* makes them so is what each phase finds in the clouds, in the lines and  *)
(* in the window: nothing of an earlier message where it adds to them.     *)
(***************************************************************************)
ScanInv ==
    /\ sensor \in Sensors /\ enabled \in BOOLEAN /\ message \in Seq(Point)
    /\ phase \in {"idle", "convert", "lines", "return", "done"}
    /\ ExtractionInv
    /\ phase # "lines" => pass = "none"
    /\ phase # "idle" => window \in {NoWindow, Convert(sensor, message).window}
    /\ phase \in {"idle", "convert", "lines"} => output = {}
    /\ phase = "convert" /\ (sensor \notin Stamped \/ (sensor # "seyond" /\ enabled))
         => surface = {}
    /\ phase = "convert" => line = 0
    /\ phase = "lines" => LinesInv
    /\ phase = "return" => IF sensor \in Stamped THEN output \subseteq SUBSET NotBlind
                                                 ELSE surface \subseteq SUBSET NotBlind
    /\ phase = "done" => output \subseteq SUBSET NotBlind

(***************************************************************************)
(* The adapters take points of the message.                                *)
(***************************************************************************)
LEMMA ConvertTakes ==
    ASSUME NEW s \in Sensors, NEW msg \in Seq(Point)
    PROVE  Convert(s, msg).points \subseteq 1 .. Len(msg)
<1>1. DOMAIN msg = 1 .. Len(msg) /\ ValidPoints(msg) \subseteq DOMAIN msg
  BY DEF ValidPoints
<1>2. ConvertOuster(msg).points \subseteq DOMAIN msg
  BY DEF ConvertOuster
<1>3. ConvertVelodyne(msg).points \subseteq DOMAIN msg
  BY DEF ConvertVelodyne
<1>4. ConvertStamped(msg).points \subseteq DOMAIN msg
  BY <1>1 DEF ConvertStamped
<1> QED
  BY <1>1, <1>2, <1>3, <1>4 DEF Convert, Sensors

(***************************************************************************)
(* The points of one line, in the order of the message.                    *)
(***************************************************************************)
LEMMA OnLineTaken ==
    ASSUME ScanInv, NEW r
    PROVE  /\ DOMAIN OnLine(Convert(sensor, message), r) = 1 .. Len(OnLine(Convert(sensor, message), r))
           /\ Len(OnLine(Convert(sensor, message), r)) \in Nat
           /\ \A n \in DOMAIN OnLine(Convert(sensor, message), r) :
                OnLine(Convert(sensor, message), r)[n] \in Convert(sensor, message).points
<1> DEFINE scan == Convert(sensor, message)
           T == {k \in scan.points : /\ message[k].ring = r - 1
                                     /\ sensor \in {"ouster", "kimera"} => InRange(message[k])}
           key == [k \in T |-> k]
<1>1. scan.points \subseteq 1 .. Len(message) /\ Len(message) \in Nat
  BY ConvertTakes DEF ScanInv
<1>2. IsFiniteSet(T) /\ T \subseteq scan.points /\ \A k \in T : key[k] \in Int /\ key[k] = k
  <2>1. T \subseteq scan.points
    OBVIOUS
  <2>2. IsFiniteSet(T)
    <3> HIDE DEF T, scan
    <3>1. IsFiniteSet(1 .. Len(message))
      BY <1>1, FS_Interval
    <3>2. T \subseteq 1 .. Len(message)
      BY <1>1, <2>1
    <3> QED
      BY <3>1, <3>2, FS_Subset
  <2> QED
    BY <1>1, <2>1, <2>2
<1>3. OnLine(scan, r) = Ascending(T, key)
  BY DEF OnLine, InOrder
<1> HIDE DEF T, key
<1>4. \A n \in 1 .. Cardinality(T) : \E k \in T : Ascending(T, key)[n] = key[k]
  BY <1>2, AscendingIs
<1>5. /\ Len(Ascending(T, key)) = Cardinality(T) /\ Cardinality(T) \in Nat
      /\ Ascending(T, key) \in Seq(Int)
  BY <1>2, AscendingIsSequence
<1>6. DOMAIN Ascending(T, key) = 1 .. Len(Ascending(T, key))
  BY <1>5
<1> QED
  BY <1>2, <1>3, <1>4, <1>5, <1>6

(***************************************************************************)
(* Whatever path a filtered point takes, it is not blind.                  *)
(***************************************************************************)
LEMMA FilteredTaken ==
    ASSUME sensor \in Sensors
    PROVE  Single(Filtered(Convert(sensor, message))) \subseteq SUBSET NotBlind
<1>1. \A k \in Filtered(Convert(sensor, message)) :
        k \in Convert(sensor, message).points /\ InRange(message[k])
  BY DEF Filtered
<1>2. \A p : InRange(p) => p.spot # "blind"
  BY DEF InRange
<1> QED
  BY <1>1, <1>2 DEF Single, NotBlind, TakenPoints

LEMMA ScanInitial == Init => ScanInv
<1> SUFFICES ASSUME Init PROVE ScanInv
  OBVIOUS
<1>1. ExtractionInv
  BY DEF Init, InitExtraction, ExtractionInv, SurfaceSeen
<1>2. message \in Seq(Point)
  BY DEF Init
<1> QED
  BY <1>1, <1>2 DEF Init, InitExtraction, ScanInv

(***************************************************************************)
(* A step that leaves the passes alone leaves their invariant alone.       *)
(***************************************************************************)
LEMMA ExtractionRests ==
    ASSUME ExtractionInv, UNCHANGED extraction
    PROVE  ExtractionInv'
BY DEF extraction, ExtractionInv, SurfaceSeen

LEMMA ScanInductive ==
    ASSUME ScanInv, [Next]_vars
    PROVE  ScanInv'
<1>1. /\ sensor \in Sensors /\ enabled \in BOOLEAN /\ message \in Seq(Point)
      /\ phase \in {"idle", "convert", "lines", "return", "done"}
      /\ ExtractionInv
  BY DEF ScanInv
<1>2. sensor' = sensor /\ enabled' = enabled
  BY DEF Next, vars, TakeMessage, RejectMessage, FilterCloud, FilterStamped, SplitIntoLines,
     NextLine, ClassifyPoints, EmitLine, EndLines, Return, TakeResult
<1>3. message' = message => NotBlind' = NotBlind /\ TakenPoints' = TakenPoints
  BY <1>2 DEF NotBlind, TakenPoints
<1>4. ASSUME NEW m \in Messages[<<sensor, enabled>>], TakeMessage(m) PROVE ScanInv'
  <2>1. m \in Seq(Point)
    BY <1>1, MessagesAssumption
  <2>2. ExtractionInv'
    BY <1>1, <1>4, ExtractionRests DEF TakeMessage
  <2>3. sensor \notin Stamped \/ (sensor # "seyond" /\ enabled) => surface' = {}
    BY <1>4 DEF TakeMessage, ResetFrameClouds
  <2> QED
    BY <1>1, <1>2, <1>4, <2>1, <2>2, <2>3 DEF TakeMessage, ScanInv, extraction
<1>5. CASE RejectMessage
  <2>1. ExtractionInv' /\ pass' = pass
    BY <1>1, <1>5, ExtractionRests DEF RejectMessage, extraction
  <2>2. surface' = surface /\ output' = output /\ message' = message /\ window' = window
        /\ phase = "convert" /\ phase' = "return"
    BY <1>5 DEF RejectMessage, clouds
  <2>3. IF sensor \in Stamped THEN output = {} ELSE surface = {}
    BY <2>2 DEF ScanInv
  <2> QED
    BY <1>1, <1>2, <2>1, <2>2, <2>3 DEF ScanInv
<1>6. CASE FilterCloud
  <2> DEFINE kept == Filtered(Convert(sensor, message))
  <2>1. ExtractionInv' /\ pass' = pass
    BY <1>1, <1>6, ExtractionRests DEF FilterCloud, extraction
  <2>2. /\ phase = "convert" /\ phase' = "return" /\ sensor \notin Stamped
        /\ window' = Convert(sensor, message).window /\ message' = message
        /\ surface' = surface \cup Single(kept \ PilotZone(kept))
    BY <1>6 DEF FilterCloud
  <2>3. surface = {}
    BY <2>2 DEF ScanInv
  <2>4. Single(kept \ PilotZone(kept)) \subseteq Single(kept)
    BY DEF Single
  <2>5. surface' \subseteq SUBSET NotBlind
    BY <1>1, <2>2, <2>3, <2>4, FilteredTaken
  <2> HIDE DEF kept
  <2> QED
    BY <1>1, <1>2, <1>3, <2>1, <2>2, <2>5 DEF ScanInv
<1>7. CASE FilterStamped
  <2>1. ExtractionInv' /\ pass' = pass
    BY <1>1, <1>7, ExtractionRests DEF FilterStamped, extraction
  <2>2. /\ phase = "convert" /\ phase' = "return" /\ sensor \in Stamped
        /\ window' = Convert(sensor, message).window /\ message' = message
        /\ output' = Single(Filtered(Convert(sensor, message)))
    BY <1>7 DEF FilterStamped
  <2>3. output' \subseteq SUBSET NotBlind
    BY <1>1, <2>2, FilteredTaken
  <2> QED
    BY <1>1, <1>2, <1>3, <2>1, <2>2, <2>3 DEF ScanInv
<1>8. CASE SplitIntoLines
  <2> DEFINE scan == Convert(sensor, message)
             Line(r) == [n \in DOMAIN OnLine(scan, r) |-> <<message, OnLine(scan, r)[n]>>]
  <2>1. ExtractionInv' /\ pass' = pass
    BY <1>1, <1>8, ExtractionRests DEF SplitIntoLines, extraction
  <2>2. /\ phase = "convert" /\ phase' = "lines" /\ enabled /\ sensor # "seyond"
        /\ window' = scan.window /\ message' = message /\ line' = line
        /\ surface' = surface /\ output' = output
        /\ lines' = [r \in 1 .. ScanLines |-> PrepareFeatureScanLines[r] \o Line(r)]
    BY <1>8 DEF SplitIntoLines, clouds
  <2>3. pass = "none" /\ surface = {} /\ line = 0 /\ output = {}
    BY <2>2 DEF ScanInv
  <2>4. ASSUME NEW r \in 1 .. ScanLines
        PROVE  PrepareFeatureScanLines[r] \o Line(r) \in Seq(TakenPoints)
    <3>1. PrepareFeatureScanLines[r] = <<>>
      BY DEF PrepareFeatureScanLines
    <3>2. Line(r) \in Seq(TakenPoints)
      <4>1. /\ Len(OnLine(scan, r)) \in Nat /\ DOMAIN OnLine(scan, r) = 1 .. Len(OnLine(scan, r))
            /\ \A n \in DOMAIN OnLine(scan, r) : OnLine(scan, r)[n] \in scan.points
        BY OnLineTaken
      <4>2. \A n \in DOMAIN OnLine(scan, r) : <<message, OnLine(scan, r)[n]>> \in TakenPoints
        BY <4>1 DEF TakenPoints
      <4>3. Line(r) \in [1 .. Len(OnLine(scan, r)) -> TakenPoints]
        <5> HIDE DEF scan
        <5> QED
          BY <4>1, <4>2
      <4> HIDE DEF scan, Line
      <4> QED
        BY <4>1, <4>3
    <3> QED
      BY <3>1, <3>2
  <2>5. lines' \in [1 .. ScanLines -> Seq(TakenPoints)]
    BY <2>2, <2>4
  <2>6. LinesInv'
    BY <1>3, <2>1, <2>2, <2>3, <2>5, AdapterAssumption DEF LinesInv
  <2> HIDE DEF Line
  <2> QED
    BY <1>1, <1>2, <2>1, <2>2, <2>3, <2>6 DEF ScanInv
<1>9. CASE NextLine
  <2>1. /\ phase = "lines" /\ phase' = phase /\ pass = "none" /\ line < ScanLines
        /\ message' = message /\ window' = window /\ lines' = lines
        /\ surface' = surface /\ output' = output
    BY <1>9 DEF NextLine, clouds
  <2>2. LinesInv /\ output = {} /\ window \in {NoWindow, Convert(sensor, message).window}
    BY <2>1 DEF ScanInv
  <2>3. line \in 0 .. ScanLines /\ line + 1 \in 1 .. ScanLines /\ Points \in Seq(TakenPoints)
    BY <2>1, <2>2, AdapterAssumption DEF LinesInv, Points
  <2>4. CASE Len(Points) < 2
    <3>1. line' = line + 1 /\ UNCHANGED extraction
      BY <1>9, <2>4 DEF NextLine
    <3>2. ExtractionInv' /\ pass' = pass
      BY <1>1, <3>1, ExtractionRests DEF extraction
    <3>3. LinesInv'
      BY <1>3, <2>1, <2>2, <2>3, <3>1, <3>2 DEF LinesInv
    <3> QED
      BY <1>1, <1>2, <2>1, <2>2, <3>2, <3>3 DEF ScanInv
  <2>5. CASE ~ (Len(Points) < 2)
    <3> DEFINE seen == {n \in DOMAIN Points : PointAt(n).spot \in VisibleSpots}
    <3>1. BeginLine(Len(Points), seen) /\ line' = line
      BY <1>9, <2>5 DEF NextLine
    <3>2. Len(Points) \in Nat /\ seen \in SUBSET (1 .. Len(Points))
      BY <2>3
    <3>3. ExtractionInv' /\ pass' # "none" /\ size' = Len(Points) /\ visible' = seen
      <4> HIDE DEF seen
      <4> QED
        BY <3>1, <3>2, BeginLineSeen
    <3>4. Points' = Points /\ \A n : PointAt(n)' = PointAt(n)
      BY <2>1, <3>1 DEF Points, PointAt
    <3>5. LinesInv'
      BY <1>3, <2>1, <2>2, <3>1, <3>3, <3>4 DEF LinesInv
    <3> HIDE DEF seen
    <3> QED
      BY <1>1, <1>2, <2>1, <2>2, <3>3, <3>5 DEF ScanInv
  <2> QED
    BY <2>4, <2>5
<1>10. CASE ClassifyPoints
  <2>1. /\ phase = "lines" /\ phase' = phase /\ ExtractionStep
        /\ message' = message /\ window' = window /\ lines' = lines /\ line' = line
        /\ surface' = surface /\ output' = output
    BY <1>10 DEF ClassifyPoints, clouds
  <2>2. LinesInv /\ output = {} /\ window \in {NoWindow, Convert(sensor, message).window}
    BY <2>1 DEF ScanInv
  <2>3. ExtractionInv' /\ pass' # "none" /\ size' = size /\ visible' = visible
    BY <1>1, <2>1, StepSeen
  <2>4. pass # "none"
    BY <2>1 DEF ExtractionStep, PlanePass, EndPlanePass, EdgePass, SmallPlanePass
  <2>5. Points' = Points /\ \A n : PointAt(n)' = PointAt(n)
    BY <2>1 DEF Points, PointAt
  <2>6. LinesInv'
    BY <1>3, <2>1, <2>2, <2>3, <2>4, <2>5 DEF LinesInv
  <2> QED
    BY <1>1, <1>2, <2>1, <2>2, <2>3, <2>6 DEF ScanInv
<1>11. CASE EmitLine
  <2>1. /\ phase = "lines" /\ phase' = phase /\ EndLine /\ pass = "emission" /\ pass' = "none"
        /\ message' = message /\ window' = window /\ lines' = lines /\ line' = line + 1
        /\ surface' = surface \cup {{Points[n] : n \in group} : group \in SurfaceOfLine}
        /\ output' = output
    BY <1>11 DEF EmitLine, EndLine
  <2>2. LinesInv /\ output = {} /\ window \in {NoWindow, Convert(sensor, message).window}
    BY <2>1 DEF ScanInv
  <2>3. /\ line \in 0 .. ScanLines /\ line < ScanLines /\ size = Len(Points)
        /\ \A n \in visible : PointAt(n).spot \in VisibleSpots
        /\ lines \in [1 .. ScanLines -> Seq(TakenPoints)]
    BY <2>1, <2>2 DEF LinesInv
  <2>4. Points \in Seq(TakenPoints) /\ line + 1 \in 0 .. ScanLines
    BY <2>3, AdapterAssumption DEF Points
  <2>5. visible \subseteq 1 .. Len(Points)
    BY <1>1, <2>3 DEF ExtractionInv
  <2>6. ASSUME NEW n \in visible PROVE Points[n] \in NotBlind
    <3>1. Points[n] \in TakenPoints
      BY <2>4, <2>5
    <3>2. PICK k \in Convert(sensor, message).points : Points[n] = <<message, k>>
      BY <3>1 DEF TakenPoints
    <3>3. PointAt(n) = message[k]
      BY <3>2 DEF PointAt
    <3>4. message[k].spot # "blind"
      BY <2>3, <3>3 DEF VisibleSpots
    <3> QED
      BY <3>1, <3>2, <3>4 DEF NotBlind
  <2>7. SurfaceOfLine \in SUBSET SUBSET visible
    BY <1>1, EmittedSeen
  <2>8. {{Points[n] : n \in group} : group \in SurfaceOfLine} \subseteq SUBSET NotBlind
    BY <2>6, <2>7
  <2>9. surface' \subseteq SUBSET NotBlind
    BY <2>1, <2>2, <2>8 DEF LinesInv
  <2>10. ExtractionInv'
    BY <2>1, EndLineSeen
  <2>11. LinesInv'
    BY <1>3, <2>1, <2>3, <2>4, <2>9 DEF LinesInv
  <2> QED
    BY <1>1, <1>2, <2>1, <2>2, <2>10, <2>11 DEF ScanInv
<1>12. CASE EndLines
  <2>1. /\ phase = "lines" /\ phase' = "return" /\ pass = "none" /\ UNCHANGED extraction
        /\ message' = message /\ window' = window /\ surface' = surface /\ output' = surface
    BY <1>12 DEF EndLines, clouds
  <2>2. LinesInv /\ window \in {NoWindow, Convert(sensor, message).window}
    BY <2>1 DEF ScanInv
  <2>3. ExtractionInv' /\ pass' = pass
    BY <1>1, <2>1, ExtractionRests DEF extraction
  <2>4. surface \subseteq SUBSET NotBlind
    BY <2>2 DEF LinesInv
  <2> QED
    BY <1>1, <1>2, <1>3, <2>1, <2>2, <2>3, <2>4 DEF ScanInv
<1>13. CASE Return
  <2>1. /\ phase = "return" /\ phase' = "done" /\ UNCHANGED extraction
        /\ message' = message /\ window' = window
        /\ output' = IF sensor \in Stamped THEN output ELSE surface
    BY <1>13 DEF Return
  <2>2. ExtractionInv' /\ pass' = pass /\ pass = "none"
    BY <1>1, <2>1, ExtractionRests DEF extraction, ScanInv
  <2>3. /\ window \in {NoWindow, Convert(sensor, message).window}
        /\ output' \subseteq SUBSET NotBlind
    BY <2>1 DEF ScanInv
  <2> QED
    BY <1>1, <1>2, <1>3, <2>1, <2>2, <2>3 DEF ScanInv
<1>14. CASE TakeResult
  <2>1. ExtractionInv' /\ pass' = pass /\ pass = "none"
    BY <1>1, <1>14, ExtractionRests DEF TakeResult, extraction, ScanInv
  <2>2. message' \in Seq(Point) /\ output' = {} /\ phase' = "idle"
    BY <1>14 DEF TakeResult
  <2> QED
    BY <1>1, <1>2, <2>1, <2>2 DEF ScanInv
<1>15. CASE UNCHANGED vars
  <2>1. ExtractionInv'
    BY <1>1, <1>15, ExtractionRests DEF vars
  <2>2. /\ message' = message /\ phase' = phase /\ window' = window /\ surface' = surface
        /\ lines' = lines /\ line' = line /\ output' = output /\ pass' = pass
        /\ size' = size /\ visible' = visible
    BY <1>15 DEF vars, clouds, extraction
  <2>3. LinesInv' = LinesInv
    BY <1>3, <2>2 DEF LinesInv, Points, PointAt
  <2> QED
    BY <1>1, <1>2, <1>3, <2>1, <2>2, <2>3 DEF ScanInv
<1> QED
  BY <1>4, <1>5, <1>6, <1>7, <1>8, <1>9, <1>10, <1>11, <1>12, <1>13, <1>14, <1>15 DEF Next

LEMMA ScanInvariant == Spec => []ScanInv
BY ScanInitial, ScanInductive, PTL DEF Spec

(***************************************************************************)
(* LidarProcessor::process hands over points of the message it was given,  *)
(* none of them blind, whatever clouds and lines the messages before left  *)
(* and whichever of its paths it takes.                                    *)
(***************************************************************************)
THEOREM OutputIsOfThisScan == Spec => []EmittedFromThisScan
<1>1. ScanInv => EmittedFromThisScan
  <2> SUFFICES ASSUME ScanInv, phase = "done", NEW q \in Emitted
               PROVE  q[1] = message /\ message[q[2]].spot # "blind"
    BY DEF EmittedFromThisScan
  <2>1. q \in NotBlind
    BY DEF ScanInv, Emitted
  <2> QED
    BY <2>1 DEF NotBlind, TakenPoints
<1> QED
  BY <1>1, ScanInvariant, PTL

(***************************************************************************)
(* Past the adapter, a scan has a time only if it has the window that the  *)
(* adapter found: a rejected message leaves none.                          *)
(***************************************************************************)
LEMMA DoneScan ==
    ASSUME ScanInv, phase = "done", HasScanTime
    PROVE  /\ sensor \in Sensors /\ message \in Seq(Point)
           /\ window = Convert(sensor, message).window /\ window # NoWindow
           /\ \A q \in Emitted : q[2] \in Convert(sensor, message).points
<1>1. window # NoWindow
  BY DEF HasScanTime, NoWindow
<1>2. \A q \in Emitted : q \in TakenPoints
  BY DEF ScanInv, Emitted, NotBlind
<1> QED
  BY <1>1, <1>2 DEF ScanInv, TakenPoints

(***************************************************************************)
(* findTimestampWindow of the RoboSense and Seyond adapters gives the scan *)
(* the best window there is, with most of its valid points, and what is    *)
(* handed over lies in it.                                                 *)
(***************************************************************************)
THEOREM WindowsAreDominant == Spec => []DominantWindow
<1>1. ScanInv => DominantWindow
  <2> SUFFICES ASSUME ScanInv, phase = "done", sensor \in Stamped, HasScanTime
               PROVE  /\ window.end - window.start <= MaxDuration
                      /\ 2 * Cardinality(Inside(message, window))
                           > Cardinality(ValidPoints(message))
                      /\ \A k \in ValidPoints(message) :
                           Cardinality(Within(message[k].time))
                             <= Cardinality(Inside(message, window))
                      /\ \A q \in Emitted : InWindow(message[q[2]], window)
    BY DEF DominantWindow, Inside
  <2>1. /\ message \in Seq(Point) /\ window # NoWindow
        /\ window = Convert(sensor, message).window
        /\ \A q \in Emitted : q[2] \in Convert(sensor, message).points
    BY DoneScan
  <2>2. Convert(sensor, message) = ConvertStamped(message)
    BY DEF Convert, Stamped
  <2>3. window = FindTimestampWindow(message)
    BY <2>1, <2>2 DEF ConvertStamped
  <2>4. \A q \in Emitted : InWindow(message[q[2]], window)
    BY <2>1, <2>2, <2>3 DEF ConvertStamped
  <2>5. \A t : Within(t) = WithinScan(message, t)
    BY DEF Within, WithinScan
  <2> QED
    BY <2>1, <2>3, <2>4, <2>5, WindowIsDominant
<1> QED
  BY <1>1, ScanInvariant, PTL

(***************************************************************************)
(* The curvature of every timed point that is handed over with a scan time *)
(* is its time since the start of the scan, whether the sensor stamps its  *)
(* points or gives offsets from the header, negative ones included.        *)
(***************************************************************************)
THEOREM CurvaturesAreTimes == Spec => []PointTimesMatchScan
<1>1. ScanInv => PointTimesMatchScan
  <2> SUFFICES ASSUME ScanInv, phase = "done", HasScanTime, NEW q \in Emitted,
                      message[q[2]].timed
               PROVE  /\ window.start + Curvature(q[2]) = TakenAt(q[2])
                      /\ Curvature(q[2]) \in 0 .. window.end - window.start
    BY DEF PointTimesMatchScan
  <2> DEFINE k == q[2]
             t == message[k].time
  <2>1. /\ sensor \in Sensors /\ message \in Seq(Point) /\ window # NoWindow
        /\ window = Convert(sensor, message).window
        /\ k \in Convert(sensor, message).points
    BY DoneScan
  <2>2. k \in DOMAIN message /\ DOMAIN message = 1 .. Len(message) /\ Len(message) \in Nat
    BY <2>1, ConvertTakes
  <2>3. \A l \in DOMAIN message : message[l].time \in Int
    BY <2>1, TimeIsInteger
  <2>4. CASE sensor \in Stamped
    <3>1. Convert(sensor, message) = ConvertStamped(message)
      BY <2>4 DEF Convert, Stamped
    <3>2. window = FindTimestampWindow(message) /\ InWindow(message[k], window)
      BY <2>1, <3>1 DEF ConvertStamped
    <3>3. window.start \in Int /\ window.end \in Int
      BY <2>1, <3>2, WindowIsDominant
    <3>4. Curvature(k) = t - window.start /\ TakenAt(k) = t + 0
      BY <2>4, <3>2 DEF Curvature, StampedCurvature, TakenAt, Stamped
    <3>5. window.start <= t /\ t <= window.end /\ t \in Int
      BY <2>2, <2>3, <3>2 DEF InWindow
    <3> HIDE DEF t, k
    <3>6. /\ window.start + Curvature(k) = TakenAt(k)
          /\ Curvature(k) \in 0 .. window.end - window.start
      BY <3>3, <3>4, <3>5
    <3> QED
      BY <3>6 DEF k
  <2>5. CASE sensor = "velodyne"
    <3> DEFINE times == Times(message)
               least == Least(times \cup {0})
               last == Greatest(times)
    <3>1. Convert(sensor, message) = ConvertVelodyne(message)
      BY <2>5 DEF Convert
    <3>2. window = [start |-> Header + least, end |-> Header + last]
      BY <2>1, <3>1 DEF ConvertVelodyne
    <3>3. times \in SUBSET Int /\ IsFiniteSet(times) /\ t \in times
      <4>1. message[k].timed
        OBVIOUS
      <4> HIDE DEF k
      <4> QED
        BY <2>1, <2>2, <4>1, TimesAreFinite
    <3>4. /\ least \in times \cup {0} /\ last \in times
          /\ \A x \in times \cup {0} : least <= x /\ \A y \in times : y <= last
      <4> HIDE DEF times, t
      <4> QED
        BY <3>3, ExtremesAre
    <3>5. Curvature(k) = t - least /\ TakenAt(k) = t + Header
      BY <2>5 DEF Curvature, VelodyneCurvature, TakenAt
    <3> HIDE DEF times, least, last, t, k
    <3>6. /\ least \in Int /\ last \in Int /\ t \in Int /\ least <= t /\ t <= last
          /\ Header \in Int /\ window.start = Header + least /\ window.end = Header + last
      BY <3>2, <3>3, <3>4 DEF Header
    <3>7. /\ window.start + Curvature(k) = TakenAt(k)
          /\ Curvature(k) \in 0 .. window.end - window.start
      BY <3>5, <3>6
    <3> QED
      BY <3>7 DEF k
  <2>6. CASE sensor \in {"ouster", "kimera"}
    BY <2>1, <2>6 DEF Convert, ConvertOuster
  <2> QED
    BY <2>1, <2>4, <2>5, <2>6 DEF Sensors, Stamped
<1> QED
  BY <1>1, ScanInvariant, PTL

(***************************************************************************)
(* emitSurfacePoint and flushSurfaceRest: the surface cloud grows by what  *)
(* the runs of a line promise, whatever runs the passes leave behind.      *)
(***************************************************************************)
THEOREM RunsAreThinned == Spec => SurfaceThinned
<1>1. ScanInv /\ [Next]_vars =>
        [pass = "emission" /\ pass' = "none" =>
           surface' = surface \cup {{Points[n] : n \in group} : group \in ThinnedLine}]_vars
  <2> SUFFICES ASSUME ScanInv, [Next]_vars, pass = "emission", pass' = "none"
               PROVE  surface' = surface \cup {{Points[n] : n \in group} : group \in ThinnedLine}
    OBVIOUS
  <2>1. EmitLine
    BY DEF Next, vars, extraction, TakeMessage, RejectMessage, FilterCloud, FilterStamped,
       SplitIntoLines, NextLine, ClassifyPoints, ExtractionStep, PlanePass, EndPlanePass,
       EdgePass, SmallPlanePass, EndLines, Return, TakeResult
  <2>2. SurfaceOfLine = ThinnedLine
    BY SurfaceIsThinned DEF ScanInv, ExtractionInv
  <2> QED
    BY <2>1, <2>2 DEF EmitLine
<1> QED
  BY <1>1, ScanInvariant, PTL DEF Spec, SurfaceThinned
=============================================================================
