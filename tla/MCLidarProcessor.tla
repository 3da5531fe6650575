--------------------------- MODULE MCLidarProcessor ---------------------------
(***************************************************************************)
(* Messages for TLC: every short sequence of stamps, and a few lines that  *)
(* are long enough for planes, with something blind at different places.   *)
(***************************************************************************)
EXTENDS LidarProcessor

Pt(t, r, s) == [time |-> t, timed |-> TRUE, ring |-> r, spot |-> s]
NoTime == [time |-> 0, timed |-> FALSE, ring |-> 0, spot |-> "far"]

UpTo(S, n) == UNION {[1 .. l -> S] : l \in 0 .. n}

Stamps == UpTo({Pt(1, 0, "far"), Pt(2, 0, "far"), Pt(4, 0, "far"), Pt(6, 0, "far")}, 4)
BadStamps == UpTo({Pt(1, 0, "blind"), Pt(2, 9, "far"), Pt(2, 0, "pilot"), NoTime}, 2)
Offsets == UpTo({Pt(-2, 0, "far"), Pt(0, 0, "far"), Pt(1, 0, "pilot"), NoTime}, 3)
Rings == UpTo({Pt(0, 0, "far"), Pt(0, 0, "blind"), Pt(0, 9, "far")}, 3)
Ranges == UpTo({Pt(0, 0, s) : s \in Spots}, 2)

\* one point of a line to be replaced by something else
Line(n, at, s) == [k \in 1 .. n |-> Pt(k \div 4, 0, IF k = at THEN s ELSE "far")]
Lines == {Line(8, 9, "far"), Line(7, 5, "high")} \cup {Line(7, k, "blind") : k \in 1 .. 7}
           \cup {Line(6, 9, "far") \o [k \in 1 .. 4 |-> Pt(1, 1, "far")]}

Later(l) == [k \in DOMAIN l |-> [l[k] EXCEPT !.time = @ + 1]]

Short(s) ==
    CASE s \in {"ouster", "kimera"} -> Ranges
      [] s = "velodyne"             -> Ranges \cup Offsets \cup Rings
      [] s \in Stamped              -> Stamps \cup BadStamps

Long(s) == IF s \in Stamped THEN {Later(l) : l \in Lines} ELSE Lines

MCMessages == [c \in Sensors \X BOOLEAN |-> IF c[2] THEN Long(c[1]) \cup BadStamps ELSE Short(c[1])]
=============================================================================
