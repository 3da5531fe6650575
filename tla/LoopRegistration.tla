--------------------------- MODULE LoopRegistration ---------------------------
(***************************************************************************)
(* One LoopClosure object, registration after registration: coarse         *)
(* alignment by KISSMatcher with its RobustRegistrationSolver (graduated   *)
(* non-convexity for the rotation, truncated least squares for each row of *)
(* the translation), then ICP.  The objects live on between the calls, so  *)
(* what an early return leaves in them is there for the next one.          *)
(*                                                                         *)
(* How many correspondences the matching of FeatureMatching finds, the     *)
(* weights of the rotation and the verdicts of ICP are choices; the        *)
(* translation is computed.  Everything an answer is made of carries the   *)
(* number of the registration that computed it.                            *)
(***************************************************************************)
EXTENDS Integers, FiniteSets, FiniteSetsExt

CONSTANTS
    MaxCorr,        \* bound: correspondences of a registration
    Rows,           \* rows of the translation
    Offsets,        \* bound: what dst - src may be, in units of Unit
    NoiseBound,     \* noise_bound_ of the translation solver
    Unit,           \* how many of the integers below make up 1
    MaxIterations,  \* rotation_max_iterations
    NumInliersThreshold,  \* num_inliers_threshold_
    MaxCalls        \* bound: registrations

ASSUME RegistrationAssumption ==
    /\ MaxCorr \in Nat /\ MaxIterations \in Nat \ {0} /\ MaxCalls \in Nat
    /\ NumInliersThreshold \in Nat \ {0}
    /\ Rows # {} /\ Offsets # {} /\ Offsets \subseteq Int
    /\ Unit \in Nat \ {0} /\ NoiseBound \in Nat \ {0}

\* Doubles: the bounds of two correspondences never coincide.
ASSUME NoTies ==
    \A x, y \in Offsets : Unit * x - NoiseBound # Unit * y + NoiseBound

VARIABLES
    stage,          \* where coarseToFineAlignment or icpAlignment stands
    call,           \* the number of the registration
    global,         \* enable_global_registration_
    correspondences,  \* columns of src_matched
    solver,         \* solver_: solution_ and what its getters tell
    iteration,      \* i of GNCTLSRotationSolver::solveForRotation
    weighty,        \* the correspondences with a weight of at least 0.5
    rowInliers,     \* inliers_temp of each row
    coarseAligned,  \* coarse_aligned_, by registration; 0: empty
    aligned,        \* aligned_, by registration; 0: empty
    shown,          \* src_cloud_ and tgt_cloud_, by registration
    output          \* the RegOutput returned last

numerics == <<correspondences, iteration, weighty, rowInliers>>
clouds == <<coarseAligned, aligned, shown>>
registration == <<stage, call, global, numerics, solver, clouds, output>>

(***************************************************************************)
(* RobustRegistrationSolver after reset, and a RegOutput as constructed;   *)
(* the numbers say which registration rotation, translation, coarse and    *)
(* fine pose are of, 0 for the identity.                                   *)
(***************************************************************************)
NewSolver == [valid |-> FALSE, rotation |-> 0, translation |-> 0,
              rotationInliers |-> 0, inliers |-> 0]
NoOutput == [valid |-> FALSE, converged |-> FALSE, coarse |-> 0, fine |-> 0]

InitRegistration ==
    /\ stage = "idle" /\ call = 0 /\ global \in BOOLEAN
    /\ correspondences = 0 /\ iteration = 0 /\ weighty = {}
    /\ solver = NewSolver
    /\ rowInliers = [r \in Rows |-> {}]
    /\ coarseAligned = 0 /\ aligned = 0 /\ shown = 0
    /\ output = NoOutput

-----------------------------------------------------------------------------
(***************************************************************************)
(* ScalarTLSEstimator::estimate.  The intervals X(i) -+ NoiseBound are     *)
(* swept in ascending order; between two of their ends the consensus is    *)
(* the set of intervals that are open.                                     *)
(***************************************************************************)
Scaled(X) == [i \in DOMAIN X |-> Unit * X[i]]
Ends(X) == UNION {{X[i] - NoiseBound, X[i] + NoiseBound} : i \in DOMAIN X}
OpenAt(X, c) == {i \in DOMAIN X : X[i] - NoiseBound <= c /\ c < X[i] + NoiseBound}
Consensuses(X) == {OpenAt(X, c) : c \in Ends(X)} \ {{}}

SumOver(S, f(_)) == MapThenSumSet(f, S)

(***************************************************************************)
(* x_hat = SumX / |C|, and x_cost: the squared residuals of the consensus  *)
(* plus the range of every other measurement, times |C| and squared units. *)
(***************************************************************************)
SumX(X, C) == SumOver(C, LAMBDA i : X[i])
Cost(X, C) ==
    Cardinality(C) * SumOver(C, LAMBDA i : X[i] * X[i]) - SumX(X, C) * SumX(X, C)
      + Cardinality(C) * Unit * NoiseBound * (Cardinality(DOMAIN X) - Cardinality(C))

\* Mutant: the mean is taken over all measurements, not over the consensus.
InliersOfMean(X, C) ==
    {i \in DOMAIN X : LET n == Cardinality(DOMAIN X)  d == n * X[i] - SumX(X, DOMAIN X)
                      IN  -n * NoiseBound <= d /\ d <= n * NoiseBound}

InliersOf(X, C) ==
    {i \in DOMAIN X : LET n == Cardinality(C)  d == n * X[i] - SumX(X, C)
                      IN  -n * NoiseBound <= d /\ d <= n * NoiseBound}

Cheapest(X) ==
    {C \in Consensuses(X) : \A D \in Consensuses(X) :
        Cost(X, C) * Cardinality(D) <= Cost(X, D) * Cardinality(C)}

(***************************************************************************)
(* The inlier masks a row of n correspondences can have.                   *)
(***************************************************************************)
RowMasks == [n \in 0 .. MaxCorr |->
    UNION {{InliersOf(Scaled(X), C) : C \in Cheapest(Scaled(X))} :
             X \in [1 .. n -> Offsets]}]

-----------------------------------------------------------------------------
(***************************************************************************)
(* performLoopClosure, and the head of coarseToFineAlignment: the matching *)
(* yields some correspondences, or ICP follows at once.                    *)
(***************************************************************************)
PerformLoopClosure ==
    /\ stage = "idle" /\ call < MaxCalls
    /\ call' = call + 1
    /\ shown' = call'
    /\ output' = NoOutput
    /\ IF global
         THEN /\ stage' = "solve" /\ coarseAligned' = 0
              /\ correspondences' \in 0 .. MaxCorr
         ELSE stage' = "icp" /\ UNCHANGED <<coarseAligned, correspondences>>
    /\ UNCHANGED <<global, solver, iteration, weighty, rowInliers, aligned>>

\* Mutant: too few correspondences leave the solver of the call before.
SolverIfEnough == IF correspondences < 2 THEN solver ELSE NewSolver

\* resetSolver, on either path of KISSMatcher::solve.
SolverReset == NewSolver

(***************************************************************************)
(* KISSMatcher::solve and RobustRegistrationSolver::solve up to the        *)
(* rotation.                                                               *)
(***************************************************************************)
Solve ==
    /\ stage = "solve"
    /\ solver' = SolverReset
    /\ stage' = IF correspondences < 2 THEN "verdict" ELSE "rotation"
    /\ iteration' = 0
    /\ weighty' = 1 .. correspondences
    /\ rowInliers' = [r \in Rows |-> {}]
    /\ UNCHANGED <<call, global, correspondences, clouds, output>>

(***************************************************************************)
(* One iteration of solveForRotation (QuatroSolver's is the same but for   *)
(* the weight it asks of an inlier).  When all residuals are small at      *)
(* first, the weights stay 1; the cost is compared from the second on.     *)
(***************************************************************************)
AlignRotation ==
    /\ stage = "rotation"
    /\ solver' = [solver EXCEPT !.rotation = call]
    /\ iteration' = iteration + 1
    /\ \/ iteration = 0 /\ stage' = "inliers" /\ UNCHANGED weighty
       \/ /\ weighty' \in SUBSET (1 .. correspondences)
          /\ \/ iteration' < MaxIterations /\ stage' = "rotation"
             \/ (iteration > 0 \/ iteration' = MaxIterations) /\ stage' = "inliers"
    /\ UNCHANGED <<call, global, correspondences, rowInliers, clouds, output>>

EnoughRotationInliers == Cardinality(weighty) >= 2

(***************************************************************************)
(* The end of the rotation in RobustRegistrationSolver::solve.  What it    *)
(* returns early is a new solution; its caller asks for solution_.         *)
(***************************************************************************)
CountRotationInliers ==
    /\ stage = "inliers"
    /\ solver' = [solver EXCEPT !.rotationInliers = Cardinality(weighty)]
    /\ stage' = IF EnoughRotationInliers THEN "translation" ELSE "verdict"
    /\ UNCHANGED <<call, global, numerics, clouds, output>>

(***************************************************************************)
(* solveForTranslation: a correspondence has to be an inlier of every row. *)
(***************************************************************************)
SolveTranslation ==
    /\ stage = "translation"
    /\ rowInliers' \in [Rows -> RowMasks[correspondences]]
    /\ LET mask == {i \in 1 .. correspondences : \A r \in Rows : i \in rowInliers'[r]} IN
       solver' = [solver EXCEPT !.translation = call, !.inliers = Cardinality(mask),
                                !.valid = mask # {}]
    /\ stage' = "verdict"
    /\ UNCHANGED <<call, global, correspondences, iteration, weighty, clouds, output>>

GoodSolution == solver.valid /\ solver.inliers >= NumInliersThreshold

(***************************************************************************)
(* The verdict of coarseToFineAlignment on the coarse alignment, whose     *)
(* numbers may also not be finite.                                         *)
(***************************************************************************)
RejectCoarse ==
    /\ stage = "verdict"
    /\ stage' = "idle"
    /\ UNCHANGED <<call, global, numerics, solver, clouds, output>>

AcceptCoarse ==
    /\ stage = "verdict" /\ GoodSolution
    /\ coarseAligned' = call
    /\ stage' = "icp"
    /\ UNCHANGED <<call, global, numerics, solver, aligned, shown, output>>

(***************************************************************************)
(* icpAlignment, composed with the coarse alignment: an empty cloud, no    *)
(* convergence, too little overlap or a transformation that is not finite  *)
(* reject it.  (The time of the last success, which only widens or narrows *)
(* the search, is in Batches of PoseGraphManager.)                         *)
(***************************************************************************)
Coarse == IF global THEN solver.translation ELSE 0

AlignEmpty ==
    /\ stage = "icp" /\ ~global
    /\ stage' = "idle" /\ aligned' = 0 /\ output' = NoOutput
    /\ UNCHANGED <<call, global, numerics, solver, coarseAligned, shown>>

AlignICP ==
    /\ stage = "icp"
    /\ stage' = "idle" /\ aligned' = call
    /\ \/ \E converged \in BOOLEAN :
             output' = [valid |-> FALSE, converged |-> converged, coarse |-> 0,
                        fine |-> call]
       \/ output' = [valid |-> TRUE, converged |-> TRUE, coarse |-> Coarse, fine |-> call]
       \/ global /\ output' = NoOutput
    /\ UNCHANGED <<call, global, numerics, solver, coarseAligned, shown>>

RegistrationStep ==
    \/ Solve \/ AlignRotation \/ CountRotationInliers \/ SolveTranslation
    \/ RejectCoarse \/ AcceptCoarse \/ AlignEmpty \/ AlignICP

-----------------------------------------------------------------------------
(***************************************************************************)
(* KISSMatcher, SparseCorrespondencesDoNotReusePreviousSolution, and more: *)
(* an answer that is accepted is converged and made of this registration   *)
(* only.  Coarse rotation and translation, the inliers that speak for them *)
(* and the clouds shown beside it come from it, whatever the calls before  *)
(* were and wherever they were left.                                       *)
(***************************************************************************)
AcceptedIsOfThisCall ==
    output.valid =>
        /\ output.converged /\ output.fine = call /\ aligned = call /\ shown = call
        /\ global => /\ output.coarse = call /\ solver.rotation = call
                     /\ coarseAligned = call
                     /\ solver.inliers >= NumInliersThreshold
                     /\ solver.inliers <= correspondences

(***************************************************************************)
(* A translation rests on a rotation with at least two inliers, and the    *)
(* sweep leaves every row with an inlier: the estimate is the mean of a    *)
(* consensus, whose nearest member is never further than the noise bound.  *)
(***************************************************************************)
TranslationSupported ==
    solver.translation # 0 =>
        solver.rotationInliers >= 2 /\ \A r \in Rows : rowInliers[r] # {}
=============================================================================
