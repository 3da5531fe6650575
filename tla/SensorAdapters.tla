----------------------------- MODULE SensorAdapters -----------------------------
(***************************************************************************)
(* What the sensor adapters make of a point cloud (spark_fast_lio/src/     *)
(* adapters): which points they hand on and, where the points are stamped, *)
(* the time window of the scan.                                            *)
(*                                                                         *)
(* A message is a sequence of points.  A point has a time (absolute for    *)
(* RoboSense and Seyond, relative to the header for Velodyne), which may   *)
(* be no number, a ring, and a spot: what the range checks tell apart.     *)
(***************************************************************************)
EXTENDS Integers, Sequences, FiniteSets

CONSTANTS
    ScanLines,      \* scan_line_count_
    Stride,         \* point_filter_stride_
    MaxDuration     \* maximum_scan_duration: 1.2 / scan_rate_hz_

ASSUME AdapterAssumption ==
    ScanLines \in Nat \ {0} /\ Stride \in Nat \ {0} /\ MaxDuration \in Nat \ {0}

(***************************************************************************)
(* nan: a coordinate that is not finite; blind: nearer than                *)
(* blind_distance_; rim: at that distance; high: beyond it, but within it  *)
(* in the plane; pilot: in the pilot zone of the sensor.                   *)
(***************************************************************************)
Spots == {"nan", "blind", "rim", "high", "pilot", "far"}
Point == [time : Int, timed : BOOLEAN, ring : Nat, spot : Spots]

NoWindow == [start |-> -1, end |-> -1]

-----------------------------------------------------------------------------
(* In ascending order *)

(***************************************************************************)
(* The values f has on S, in ascending order: fewer than n elements of S   *)
(* have a smaller value than the n-th, at least n one that is not greater. *)
(***************************************************************************)
Ascending(S, f) ==
    [n \in 1 .. Cardinality(S) |->
       CHOOSE x \in {f[k] : k \in S} :
           /\ Cardinality({k \in S : f[k] < x}) < n
           /\ Cardinality({k \in S : f[k] <= x}) >= n]

\* In the order of the message.
InOrder(S) == Ascending(S, [k \in S |-> k])

-----------------------------------------------------------------------------
(* RoboSense and Seyond *)

(***************************************************************************)
(* isValidPoint (Seyond's asks for a finite intensity as well).            *)
(***************************************************************************)
IsValidPoint(p) == p.timed /\ p.time > 0 /\ p.spot # "nan"
ValidPoints(msg) == {k \in DOMAIN msg : IsValidPoint(msg[k])}

SortedTimestamps(msg) ==
    Ascending(ValidPoints(msg), [k \in ValidPoints(msg) |-> msg[k].time])

(***************************************************************************)
(* findDominantTimestampWindow: a window as long as a scan is moved over   *)
(* the sorted timestamps; the first with the most of them is the scan, if  *)
(* they are more than half.                                                *)
(***************************************************************************)
WindowBegin(ts, begin, end) ==
    CHOOSE b \in begin .. end :
        /\ ts[end] - ts[b] <= MaxDuration
        /\ \A c \in begin .. b - 1 : ts[end] - ts[c] > MaxDuration

MoveWindow(ts, s, end) ==
    LET b == WindowBegin(ts, s.begin, end) IN
    [begin |-> b,
     best  |-> IF end - b > s.best[2] - s.best[1] THEN <<b, end>> ELSE s.best]

Swept(ts) ==
    LET moved[end \in 0 .. Len(ts)] ==
          IF end = 0 THEN [begin |-> 1, best |-> <<1, 1>>]
                     ELSE MoveWindow(ts, moved[end - 1], end)
    IN  moved[Len(ts)]

\* Mutant: half of the timestamps are enough.
HalfIsDominant(inliers, n) == 2 * inliers >= n

IsDominant(inliers, n) == inliers > n \div 2

FindDominantTimestampWindow(ts) ==
    LET best == Swept(ts).best IN
    IF IsDominant(best[2] - best[1] + 1, Len(ts))
      THEN [start |-> ts[best[1]], end |-> ts[best[2]]]
      ELSE NoWindow

FindTimestampWindow(msg) ==
    LET ts == SortedTimestamps(msg) IN
    CASE ts = <<>> -> NoWindow
      [] ts # <<>> /\ ts[Len(ts)] - ts[1] <= MaxDuration ->
           [start |-> ts[1], end |-> ts[Len(ts)]]
      [] OTHER -> FindDominantTimestampWindow(ts)

InWindow(p, window) == window.start <= p.time /\ p.time <= window.end

ConvertStamped(msg) ==
    LET window == FindTimestampWindow(msg) IN
    [ok |-> window # NoWindow, window |-> window,
     points |-> {k \in ValidPoints(msg) : InWindow(msg[k], window)}]

-----------------------------------------------------------------------------
(* Velodyne *)

Header == 10
Times(msg) == {msg[k].time : k \in {l \in DOMAIN msg : msg[l].timed}}
Least(S) == CHOOSE x \in S : \A y \in S : x <= y
Greatest(S) == CHOOSE x \in S : \A y \in S : y <= x

(***************************************************************************)
(* VelodyneAdapter::convert: offsets that differ give the window, which    *)
(* begins before the header when an offset is negative.  Without them the  *)
(* times follow from the yaw, and the first point of a ring only starts    *)
(* its ring.                                                               *)
(***************************************************************************)
HasOffsetTime(msg) == Cardinality(Times(msg)) > 1

FirstOfRing(msg, k) == \A l \in 1 .. k - 1 : msg[l].ring # msg[k].ring

ConvertVelodyne(msg) ==
    IF HasOffsetTime(msg)
      THEN [ok |-> TRUE, points |-> DOMAIN msg,
            window |-> [start |-> Header + Least(Times(msg) \cup {0}),
                        end   |-> Header + Greatest(Times(msg))]]
      ELSE [ok |-> msg # <<>>, window |-> NoWindow,
            points |-> {k \in DOMAIN msg : msg[k].ring < ScanLines
                                             /\ ~ FirstOfRing(msg, k)}]

(***************************************************************************)
(* fillPoint: the curvature, a time since the start of the scan.           *)
(***************************************************************************)
\* Mutant: the offsets are not shifted.
UnshiftedCurvature(msg, k) == msg[k].time

VelodyneCurvature(msg, k) == msg[k].time - Least(Times(msg) \cup {0})

StampedCurvature(msg, k) == msg[k].time - FindTimestampWindow(msg).start

-----------------------------------------------------------------------------
(* Ouster, in both variants *)

ConvertOuster(msg) == [ok |-> msg # <<>>, window |-> NoWindow, points |-> DOMAIN msg]

Convert(sensor, msg) ==
    CASE sensor \in {"ouster", "kimera"}    -> ConvertOuster(msg)
      [] sensor = "velodyne"                -> ConvertVelodyne(msg)
      [] sensor \in {"robosense", "seyond"} -> ConvertStamped(msg)
=============================================================================
