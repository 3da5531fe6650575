---------------------------- MODULE LidarProcessor ----------------------------
(***************************************************************************)
(* LidarProcessor::process: a message of the configured sensor is          *)
(* converted, filtered point by point or by scan-line features, and handed *)
(* to the LiDAR callback as a cloud with the time window of the scan.  The *)
(* processor lives as long as the node, and so do its clouds and lines.    *)
(*                                                                         *)
(* A point of a cloud is <<the message it came with, its index in it>>; a  *)
(* cloud is a set of groups of points: one, or several that were averaged. *)
(* Avia, whose code is only compiled with the Livox driver, is left out.   *)
(***************************************************************************)
EXTENDS FeatureExtraction

CONSTANT Messages       \* <<sensor, features enabled>> -> the messages it may send

Sensors == {"ouster", "kimera", "velodyne", "robosense", "seyond"}
Stamped == {"robosense", "seyond"}

ASSUME MessagesAssumption ==
    /\ DOMAIN Messages = Sensors \X BOOLEAN
    /\ \A c \in DOMAIN Messages : Messages[c] \subseteq Seq(Point)

VARIABLES
    sensor,     \* lidar_type_
    enabled,    \* feature_extraction_enabled_
    message,    \* the message in process
    phase,      \* idle, convert, lines (of its features), return, or done
    window,     \* scan_start_time_ and scan_end_time_
    surface,    \* surface_cloud_
    corner,     \* corner_cloud_
    pilot,      \* pilot_zone_cloud_
    lines,      \* scan_line_clouds_
    line,       \* scan lines extracted so far
    output,     \* *pcl_out, the caller's new cloud
    accepted    \* what process returned

clouds == <<surface, corner, pilot>>
vars == <<extraction, sensor, enabled, message, phase, window, clouds, lines, line,
          output, accepted>>

Init ==
    /\ InitExtraction
    /\ sensor \in Sensors /\ enabled \in BOOLEAN
    /\ message = <<>> /\ phase = "idle" /\ window = NoWindow
    /\ surface = {} /\ corner = {} /\ pilot = {}
    /\ lines = [r \in 1 .. ScanLines |-> <<>>] /\ line = 0
    /\ output = {} /\ accepted = FALSE

HasScanTime == window.start > 0 /\ window.end >= window.start

-----------------------------------------------------------------------------
(* The filters *)

(***************************************************************************)
(* The range tests.  The Ouster handlers reject what is nearer than        *)
(* blind_distance_, the others keep what is farther.  isFromPilotZone is   *)
(* asked by Kimera and, for the output, by Velodyne.                       *)
(***************************************************************************)
InRange(p) ==
    CASE sensor = "ouster" -> p.spot # "blind"
      [] sensor = "kimera" -> p.spot \notin {"blind", "pilot"}
      [] OTHER             -> p.spot \in {"high", "pilot", "far"}

OnStride(k) == (k - 1) % Stride = 0

InLines(p) == p.ring < ScanLines

Filtered(scan) ==
    {k \in scan.points : /\ OnStride(k) /\ InRange(message[k])
                         /\ sensor = "robosense" => InLines(message[k])}

PilotZone(points) == {k \in points : sensor = "velodyne" /\ message[k].spot = "pilot"}

Single(points) == {{<<message, k>>} : k \in points}

-----------------------------------------------------------------------------
(* The handlers *)

\* Mutant: the clouds of the scan before stay.
KeepFrameClouds == UNCHANGED <<corner, pilot>> /\ surface' = surface

ResetFrameClouds == surface' = {} /\ corner' = {} /\ pilot' = {}

TakeMessage(m) ==
    /\ phase = "idle" /\ pass = "none"
    /\ message' = m /\ window' = NoWindow /\ line' = 0 /\ phase' = "convert"
    /\ IF sensor \in Stamped /\ (sensor = "seyond" \/ ~ enabled)
         THEN UNCHANGED clouds
         ELSE ResetFrameClouds
    /\ UNCHANGED <<extraction, sensor, enabled, lines, output, accepted>>

(***************************************************************************)
(* An adapter that rejects the message leaves everything as it is.         *)
(***************************************************************************)
RejectMessage ==
    /\ phase = "convert" /\ phase' = "return"
    /\ ~ Convert(sensor, message).ok \/ (sensor = "seyond" /\ enabled)
    /\ UNCHANGED <<extraction, sensor, enabled, message, window, clouds, lines, line,
                   output, accepted>>

(***************************************************************************)
(* handleOuster, handleKimeraOuster and handleVelodyne without features.   *)
(***************************************************************************)
FilterCloud ==
    /\ phase = "convert" /\ phase' = "return"
    /\ ~ enabled /\ sensor \notin Stamped
    /\ LET scan == Convert(sensor, message)
           kept == Filtered(scan)
       IN  /\ scan.ok /\ window' = scan.window
           /\ surface' = surface \cup Single(kept \ PilotZone(kept))
           /\ pilot' = pilot \cup Single(PilotZone(kept))
    /\ UNCHANGED <<extraction, sensor, enabled, message, corner, lines, line,
                   output, accepted>>

(***************************************************************************)
(* convertToFilteredCloud: the stamped sensors write the output cloud.     *)
(***************************************************************************)
FilterStamped ==
    /\ phase = "convert" /\ phase' = "return"
    /\ ~ enabled /\ sensor \in Stamped
    /\ LET scan == Convert(sensor, message) IN
       /\ scan.ok /\ window' = scan.window
       /\ output' = Single(Filtered(scan))
    /\ UNCHANGED <<extraction, sensor, enabled, message, clouds, lines, line, accepted>>

(***************************************************************************)
(* prepareFeatureScanLines and the loop that fills the lines.  Velodyne    *)
(* and RoboSense keep what is blind or in the pilot zone.                  *)
(***************************************************************************)
PrepareFeatureScanLines == [r \in 1 .. ScanLines |-> <<>>]

OnLine(scan, r) ==
    InOrder({k \in scan.points : /\ message[k].ring = r - 1
                                 /\ sensor \in {"ouster", "kimera"} => InRange(message[k])})

SplitIntoLines ==
    /\ phase = "convert" /\ phase' = "lines"
    /\ enabled /\ sensor # "seyond"
    /\ LET scan == Convert(sensor, message) IN
       /\ scan.ok /\ window' = scan.window
       /\ lines' = [r \in 1 .. ScanLines |->
                      PrepareFeatureScanLines[r]
                        \o [n \in DOMAIN OnLine(scan, r) |-> <<message, OnLine(scan, r)[n]>>]]
    /\ UNCHANGED <<extraction, sensor, enabled, message, clouds, line, output, accepted>>

-----------------------------------------------------------------------------
(* extractFeaturesFromScanLines *)

Points == lines[line + 1]
PointAt(n) == Points[n][1][Points[n][2]]

\* range is the distance in the plane: nothing high is visible
VisibleSpots == {"nan", "rim", "pilot", "far"}

NextLine ==
    /\ phase = "lines" /\ pass = "none" /\ line < ScanLines
    /\ IF Len(Points) < 2
         THEN line' = line + 1 /\ UNCHANGED extraction
         ELSE /\ BeginLine(Len(Points), {n \in DOMAIN Points : PointAt(n).spot \in VisibleSpots})
              /\ UNCHANGED line
    /\ UNCHANGED <<sensor, enabled, message, phase, window, clouds, lines, output, accepted>>

ClassifyPoints ==
    /\ phase = "lines" /\ ExtractionStep
    /\ UNCHANGED <<sensor, enabled, message, phase, window, clouds, lines, line, output,
                   accepted>>

EmitLine ==
    /\ phase = "lines" /\ EndLine /\ line' = line + 1
    /\ surface' = surface \cup {{Points[n] : n \in group} : group \in SurfaceOfLine}
    /\ corner' = corner \cup {{Points[n]} : n \in CornersOfLine}
    /\ UNCHANGED <<sensor, enabled, message, phase, window, pilot, lines, output, accepted>>

EndLines ==
    /\ phase = "lines" /\ pass = "none" /\ line = ScanLines
    /\ phase' = "return" /\ output' = surface
    /\ UNCHANGED <<extraction, sensor, enabled, message, window, clouds, lines, line, accepted>>

(***************************************************************************)
(* The end of process: the stamped sensors have written the output.        *)
(***************************************************************************)
Return ==
    /\ phase = "return" /\ phase' = "done"
    /\ output' = IF sensor \in Stamped THEN output ELSE surface
    /\ accepted' = (output' # {} /\ (sensor \in Stamped => HasScanTime))
    /\ UNCHANGED <<extraction, sensor, enabled, message, window, clouds, lines, line>>

(***************************************************************************)
(* standardLiDARCallback has read the window and buffered the cloud.       *)
(***************************************************************************)
TakeResult ==
    /\ phase = "done" /\ phase' = "idle"
    /\ message' = <<>> /\ output' = {} /\ accepted' = FALSE
    /\ UNCHANGED <<extraction, sensor, enabled, window, clouds, lines, line>>

Next ==
    \/ \E m \in Messages[<<sensor, enabled>>] : TakeMessage(m)
    \/ RejectMessage
    \/ FilterCloud
    \/ FilterStamped
    \/ SplitIntoLines
    \/ NextLine
    \/ ClassifyPoints
    \/ EmitLine
    \/ EndLines
    \/ Return
    \/ TakeResult

Spec == Init /\ [][Next]_vars

-----------------------------------------------------------------------------
(* Correctness *)

Emitted == UNION output

(***************************************************************************)
(* What process hands over is of the message it was given, whatever the    *)
(* messages before it left in the processor's clouds and lines, and on     *)
(* none of its paths nearer than the blind distance.                       *)
(***************************************************************************)
EmittedFromThisScan ==
    phase = "done" =>
        \A q \in Emitted : q[1] = message /\ message[q[2]].spot # "blind"

(***************************************************************************)
(* The window of an accepted stamped scan holds more than half of the      *)
(* valid points, no window of a scan's length holds more, and every point  *)
(* handed over lies in it: one bad stamp neither stretches the scan nor    *)
(* drops it.                                                               *)
(***************************************************************************)
Within(from) == {k \in ValidPoints(message) : message[k].time \in from .. from + MaxDuration}

DominantWindow ==
    phase = "done" /\ sensor \in Stamped /\ HasScanTime =>
        LET inside == {k \in ValidPoints(message) : InWindow(message[k], window)} IN
        /\ window.end - window.start <= MaxDuration
        /\ 2 * Cardinality(inside) > Cardinality(ValidPoints(message))
        /\ \A k \in ValidPoints(message) : Cardinality(Within(message[k].time)) <= Cardinality(inside)
        /\ \A q \in Emitted : InWindow(message[q[2]], window)

(***************************************************************************)
(* A point's curvature is its time since the start of the scan: added to   *)
(* the start the callback reads from the processor, it is the time the     *)
(* point was taken at, and lies within the scan.  The adapter and the      *)
(* window normalise negative Velodyne offsets on their own.                *)
(***************************************************************************)
Curvature(k) == IF sensor = "velodyne" THEN VelodyneCurvature(message, k)
                                       ELSE StampedCurvature(message, k)
TakenAt(k) == message[k].time + (IF sensor = "velodyne" THEN Header ELSE 0)

PointTimesMatchScan ==
    phase = "done" /\ accepted /\ HasScanTime =>
        \A q \in Emitted : message[q[2]].timed =>
            /\ window.start + Curvature(q[2]) = TakenAt(q[2])
            /\ Curvature(q[2]) \in 0 .. window.end - window.start

(***************************************************************************)
(* However the passes classified a line, the surface cloud gets of each    *)
(* run of surface points one in Stride, and the average of a rest that     *)
(* something else ends: nothing twice, and no average over what lies       *)
(* between two runs.                                                       *)
(***************************************************************************)
SurfaceThinned ==
    [][pass = "emission" /\ pass' = "none" =>
         surface' = surface \cup {{Points[n] : n \in group} : group \in ThinnedLine}]_vars
=============================================================================
