----------------------------- MODULE LoopCorrection -----------------------------
(***************************************************************************)
(* What the loop-closure machinery of the back end promises, without its   *)
(* threads and locks: candidates are offered against the trajectory as it  *)
(* is, a correction is caused by a candidate of the trajectory it          *)
(* replaces, it throws away whatever else was waiting, and nothing is      *)
(* offered until it is over.  PoseGraphManager implements it.              *)
(***************************************************************************)
EXTENDS Naturals, Sequences

CONSTANT Capacity       \* how many candidates may wait

VARIABLES
  trajectory,   \* how many corrections the trajectory has absorbed
  correcting,   \* a correction is being applied
  waiting,      \* for each waiting candidate, the trajectory it was chosen on
  taken         \* the trajectories of the candidate being registered, if any

vars == <<trajectory, correcting, waiting, taken>>

Init ==
  /\ trajectory = 0
  /\ correcting = FALSE
  /\ waiting = <<>>
  /\ taken = {}

\* A batch of n candidates enters whole.
Offer(n) ==
  /\ ~correcting
  /\ Len(waiting) + n <= Capacity
  /\ waiting' = waiting \o [i \in 1 .. n |-> trajectory]
  /\ UNCHANGED <<trajectory, correcting, taken>>

Take ==
  /\ ~correcting
  /\ waiting # <<>> /\ taken = {}
  /\ taken' = {Head(waiting)}
  /\ waiting' = Tail(waiting)
  /\ UNCHANGED <<trajectory, correcting>>

Reject ==
  /\ ~correcting
  /\ taken # {}
  /\ taken' = {}
  /\ UNCHANGED <<trajectory, correcting, waiting>>

\* Accepting a loop on the trajectory at hand.
Begin ==
  /\ ~correcting
  /\ taken = {trajectory}
  /\ correcting' = TRUE
  /\ waiting' = <<>>
  /\ UNCHANGED <<trajectory, taken>>

Finish ==
  /\ correcting
  /\ correcting' = FALSE
  /\ trajectory' = trajectory + 1
  /\ taken' = {}
  /\ UNCHANGED waiting

Next == (\E n \in 0 .. Capacity : Offer(n)) \/ Take \/ Reject \/ Begin \/ Finish

Spec == Init /\ [][Next]_vars
=============================================================================
