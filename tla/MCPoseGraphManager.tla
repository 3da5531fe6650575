-------------------------- MODULE MCPoseGraphManager --------------------------
(***************************************************************************)
(* Instances of PoseGraphManager for TLC.                                  *)
(***************************************************************************)
EXTENDS PoseGraphManager

\* The stub detector of the repository never returns a pair.
StubDetector == {0}

\* A plugged-in detector that returns at most one pair, or a batch the queue can never hold.
OnePair == {0, 1}
ManyPairs == {0, 1, 3}
=============================================================================
