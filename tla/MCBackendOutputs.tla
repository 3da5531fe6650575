--------------------------- MODULE MCBackendOutputs ---------------------------
(***************************************************************************)
(* Instances of BackendOutputs for TLC.                                    *)
(***************************************************************************)
EXTENDS BackendOutputs

\* The stub detector of the repository never returns a pair.
StubDetector == {0}
=============================================================================
