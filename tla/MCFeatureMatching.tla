--------------------------- MODULE MCFeatureMatching ---------------------------
(***************************************************************************)
(* Two clouds of four points: a patch whose points all see each other, one *)
(* of them too close to an edge for a normal, and a fan whose rays see     *)
(* only the middle.                                                        *)
(***************************************************************************)
EXTENDS FeatureMatching, TLC

Patch == [near |-> [p \in 1 .. 4 |-> 1 .. 4], planar |-> 2 .. 4]
Fan   == [near |-> <<1 .. 4, {1, 2}, {1, 3}, {1, 4}>>, planar |-> {1}]

MCClouds == {Patch, Fan}
Threads  == Permutations(Workers)
=============================================================================
