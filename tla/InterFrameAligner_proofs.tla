------------------------ MODULE InterFrameAligner_proofs ------------------------
(***************************************************************************)
(* What holds of the registrations and of the aligner for every number of  *)
(* correspondences, rows, offsets, iterations, calls and maps.             *)
(***************************************************************************)
EXTENDS InterFrameAligner, NumberLemmas

(***************************************************************************)
(* The domains of what an answer is made of.                               *)
(***************************************************************************)
RegistrationType ==
    /\ call \in Nat /\ global \in BOOLEAN /\ correspondences \in Nat
    /\ solver \in [valid : BOOLEAN, rotation : Nat, translation : Nat,
                   rotationInliers : Nat, inliers : Nat]
    /\ output \in [valid : BOOLEAN, converged : BOOLEAN, coarse : Nat, fine : Nat]

(***************************************************************************)
(* How much of the answer a stage has made anew.  After resetSolver the    *)
(* solution is not valid; it becomes so with the translation, by when the  *)
(* rotation is of this call too.                                           *)
(***************************************************************************)
SolutionOfThisCall ==
    /\ solver.translation = call /\ solver.rotation = call
    /\ solver.inliers <= correspondences

Progress ==
    /\ stage # "idle" => shown = call /\ ~output.valid
    /\ stage \in {"rotation", "inliers", "translation"} => ~solver.valid
    /\ stage \in {"rotation", "inliers"} => weighty \subseteq 1 .. correspondences
    /\ stage \in {"inliers", "translation"} => solver.rotation = call
    /\ stage \in {"solve", "rotation", "inliers", "translation", "verdict"} => global
    /\ stage = "verdict" /\ solver.valid => SolutionOfThisCall
    /\ stage = "icp" /\ global =>
         SolutionOfThisCall /\ coarseAligned = call /\ GoodSolution

(***************************************************************************)
(* AcceptedIsOfThisCall is inductive with the progress of the call.        *)
(***************************************************************************)
RegistrationInv == RegistrationType /\ Progress /\ AcceptedIsOfThisCall

LEMMA NewObjects ==
    /\ NewSolver \in [valid : BOOLEAN, rotation : Nat, translation : Nat,
                      rotationInliers : Nat, inliers : Nat]
    /\ NewSolver.valid = FALSE
    /\ NoOutput \in [valid : BOOLEAN, converged : BOOLEAN, coarse : Nat, fine : Nat]
    /\ NoOutput.valid = FALSE
  BY DEF NewSolver, NoOutput

(***************************************************************************)
(* Correspondences that are marked are no more than there are.             *)
(***************************************************************************)
LEMMA MarkedAreFewer ==
    ASSUME NEW n \in Nat, NEW mask \in SUBSET (1 .. n)
    PROVE  Cardinality(mask) \in Nat /\ Cardinality(mask) <= n
<1>1. IsFiniteSet(1 .. n) /\ Cardinality(1 .. n) = n
  BY FS_Interval
<1> QED
  BY <1>1, FS_Subset, FS_CardinalityType

LEMMA RegistrationInit == InitRegistration => RegistrationInv
<1> SUFFICES ASSUME InitRegistration PROVE RegistrationInv
  OBVIOUS
<1>1. /\ stage = "idle" /\ call = 0 /\ global \in BOOLEAN /\ correspondences = 0
      /\ solver = NewSolver /\ output = NoOutput
  BY DEF InitRegistration
<1> QED
  BY <1>1, NewObjects DEF RegistrationInv, RegistrationType, Progress,
       AcceptedIsOfThisCall

LEMMA PerformStep == ASSUME RegistrationInv, PerformLoopClosure PROVE RegistrationInv'
<1>1. /\ call' = call + 1 /\ shown' = call' /\ output' = NoOutput /\ solver' = solver
      /\ global' = global
  BY DEF PerformLoopClosure
<1>2. /\ global => stage' = "solve" /\ correspondences' \in Nat
      /\ ~global => stage' = "icp" /\ correspondences' = correspondences
  BY RegistrationAssumption DEF PerformLoopClosure
<1> QED
  BY <1>1, <1>2, NewObjects DEF RegistrationInv, RegistrationType, Progress,
       AcceptedIsOfThisCall

LEMMA SolveStep == ASSUME RegistrationInv, Solve PROVE RegistrationInv'
<1>1. /\ stage = "solve" /\ stage' \in {"verdict", "rotation"} /\ solver' = NewSolver
      /\ weighty' = 1 .. correspondences /\ correspondences' = correspondences
      /\ call' = call /\ global' = global /\ shown' = shown /\ output' = output
  BY DEF Solve, SolverReset, clouds
<1> QED
  BY <1>1, NewObjects DEF RegistrationInv, RegistrationType, Progress,
       AcceptedIsOfThisCall

LEMMA RotationStep == ASSUME RegistrationInv, AlignRotation PROVE RegistrationInv'
<1> USE DEF RegistrationInv, RegistrationType
<1>1. /\ stage = "rotation" /\ stage' \in {"rotation", "inliers"}
      /\ solver' = [solver EXCEPT !.rotation = call]
      /\ weighty' \subseteq 1 .. correspondences /\ correspondences' = correspondences
      /\ call' = call /\ global' = global /\ shown' = shown /\ output' = output
  BY DEF AlignRotation, clouds, Progress
<1>2. solver'.rotation = call /\ solver'.valid = solver.valid
  BY <1>1
<1> QED
  BY <1>1, <1>2 DEF Progress, AcceptedIsOfThisCall

LEMMA InliersStep == ASSUME RegistrationInv, CountRotationInliers PROVE RegistrationInv'
<1> USE DEF RegistrationInv, RegistrationType
<1>1. /\ stage = "inliers" /\ stage' \in {"translation", "verdict"}
      /\ solver' = [solver EXCEPT !.rotationInliers = Cardinality(weighty)]
      /\ correspondences' = correspondences
      /\ call' = call /\ global' = global /\ shown' = shown /\ output' = output
  BY DEF CountRotationInliers, clouds, numerics
<1>2. Cardinality(weighty) \in Nat
  BY <1>1, MarkedAreFewer DEF Progress
<1>3. solver'.rotation = solver.rotation /\ solver'.valid = solver.valid
  BY <1>1
<1> QED
  BY <1>1, <1>2, <1>3 DEF Progress, AcceptedIsOfThisCall

LEMMA TranslationStep == ASSUME RegistrationInv, SolveTranslation PROVE RegistrationInv'
<1> USE DEF RegistrationInv, RegistrationType
<1> DEFINE mask == {i \in 1 .. correspondences : \A r \in Rows : i \in rowInliers'[r]}
<1>1. /\ stage = "translation" /\ stage' = "verdict"
      /\ solver' = [solver EXCEPT !.translation = call, !.inliers = Cardinality(mask),
                                  !.valid = mask # {}]
      /\ correspondences' = correspondences
      /\ call' = call /\ global' = global /\ shown' = shown /\ output' = output
  BY DEF SolveTranslation, clouds
<1>2. Cardinality(mask) \in Nat /\ Cardinality(mask) <= correspondences
  BY MarkedAreFewer
<1> HIDE DEF mask
<1>3. /\ solver'.translation = call /\ solver'.rotation = solver.rotation
      /\ solver'.inliers = Cardinality(mask)
  BY <1>1
<1>4. solver' \in [valid : BOOLEAN, rotation : Nat, translation : Nat,
                   rotationInliers : Nat, inliers : Nat]
  BY <1>1, <1>2
<1> QED
  BY <1>1, <1>2, <1>3, <1>4 DEF Progress, AcceptedIsOfThisCall, SolutionOfThisCall

LEMMA VerdictStep ==
    ASSUME RegistrationInv, RejectCoarse \/ AcceptCoarse PROVE RegistrationInv'
<1>1. /\ stage = "verdict" /\ UNCHANGED <<call, global, correspondences, solver, shown,
                                         output>>
      /\ \/ stage' = "idle" /\ coarseAligned' = coarseAligned
         \/ stage' = "icp" /\ GoodSolution /\ coarseAligned' = call
  BY DEF RejectCoarse, AcceptCoarse, numerics, clouds
<1> QED
  BY <1>1 DEF RegistrationInv, RegistrationType, Progress, AcceptedIsOfThisCall,
       SolutionOfThisCall, GoodSolution

LEMMA IcpStep == ASSUME RegistrationInv, AlignEmpty \/ AlignICP PROVE RegistrationInv'
<1> USE DEF RegistrationInv, RegistrationType
<1>1. /\ stage = "icp" /\ stage' = "idle"
      /\ UNCHANGED <<call, global, correspondences, solver, coarseAligned, shown>>
  BY DEF AlignEmpty, AlignICP, numerics
<1>2. \/ output' = NoOutput
      \/ \E converged \in BOOLEAN :
           output' = [valid |-> FALSE, converged |-> converged, coarse |-> 0, fine |-> call]
      \/ /\ output' = [valid |-> TRUE, converged |-> TRUE, coarse |-> Coarse, fine |-> call]
         /\ aligned' = call
  BY DEF AlignEmpty, AlignICP
<1>3. Coarse \in Nat /\ (global => Coarse = call)
  BY <1>1 DEF Coarse, Progress, SolutionOfThisCall
<1>4. output' \in [valid : BOOLEAN, converged : BOOLEAN, coarse : Nat, fine : Nat]
  <2>1. CASE output' = NoOutput
    BY <2>1, NewObjects
  <2>2. ASSUME NEW valid \in BOOLEAN, NEW converged \in BOOLEAN, NEW coarse \in Nat,
               output' = [valid |-> valid, converged |-> converged, coarse |-> coarse,
                          fine |-> call]
        PROVE  output' \in [valid : BOOLEAN, converged : BOOLEAN, coarse : Nat, fine : Nat]
    BY <2>2
  <2> QED
    BY <1>2, <1>3, <2>1, <2>2
<1>5. output'.valid => /\ output'.converged /\ output'.fine = call
                       /\ output'.coarse = Coarse /\ aligned' = call
  BY <1>2, NewObjects
<1> QED
  BY <1>1, <1>3, <1>4, <1>5 DEF Progress, AcceptedIsOfThisCall, SolutionOfThisCall,
       GoodSolution

(***************************************************************************)
(* The aligner's own steps leave the registration alone, but for the call  *)
(* that starts it.                                                         *)
(***************************************************************************)
LEMMA RegistrationInductive == RegistrationInv /\ [Next]_vars => RegistrationInv'
<1> SUFFICES ASSUME RegistrationInv, [Next]_vars PROVE RegistrationInv'
  OBVIOUS
<1>1. CASE PerformLoopClosure
  BY <1>1, PerformStep
<1>2. CASE RegistrationStep
  BY <1>2, SolveStep, RotationStep, InliersStep, TranslationStep, VerdictStep, IcpStep
     DEF RegistrationStep
<1>3. CASE UNCHANGED registration
  BY <1>3 DEF registration, numerics, clouds, RegistrationInv, RegistrationType,
       Progress, SolutionOfThisCall, GoodSolution, AcceptedIsOfThisCall
<1> QED
  BY <1>1, <1>2, <1>3 DEF Next, vars, ManagerRegisters, ReceiveMap, Tick, TfTimer,
       PerformAlignment, FinishAlignment

(***************************************************************************)
(* KISSMatcher, SparseCorrespondencesDoNotReusePreviousSolution, for any   *)
(* sequence of registrations and early returns: resetSolver on every path  *)
(* and the verdict of loop_closure.cpp:318-331 keep an accepted answer to  *)
(* its own call.                                                           *)
(***************************************************************************)
THEOREM AcceptedAnswersAreNew == Spec => []AcceptedIsOfThisCall
<1>1. Init => RegistrationInv
  BY RegistrationInit DEF Init
<1>2. RegistrationInv => AcceptedIsOfThisCall
  BY DEF RegistrationInv
<1> QED
  BY <1>1, <1>2, RegistrationInductive, PTL DEF Spec

-----------------------------------------------------------------------------
(* The rows of the translation *)

(***************************************************************************)
(* n * x over what is between two numbers.                                 *)
(***************************************************************************)
LEMMA TimesKeepsOrder ==
    ASSUME NEW n \in Nat, NEW a \in Int, NEW b \in Int, a <= b
    PROVE  n * a <= n * b /\ n * a \in Int /\ n * b \in Int
<1>1. b - a \in Nat /\ n * (b - a) \in Nat
  OBVIOUS
<1>2. n * (b - a) = n * b - n * a /\ n * a \in Int /\ n * b \in Int
  OBVIOUS
<1> QED
  BY <1>1, <1>2

(***************************************************************************)
(* The intervals of a consensus share a point, so its measurements are     *)
(* less than two noise bounds apart: the mean, which is between the least  *)
(* and the greatest of them, is within the noise bound of one of the two.  *)
(***************************************************************************)
LEMMA MeanHasInlier ==
    ASSUME NEW X, IsFiniteSet(DOMAIN X), \A i \in DOMAIN X : X[i] \in Int,
           NEW C \in Consensuses(X)
    PROVE  InliersOf(X, C) \cap C # {}
<1>1. PICK c \in Ends(X) : C = OpenAt(X, c)
  BY DEF Consensuses
<1>2. C # {} /\ C \subseteq DOMAIN X
  BY <1>1 DEF Consensuses, OpenAt
<1>3. NoiseBound \in Int /\ NoiseBound > 0
  BY RegistrationAssumption
<1>4. c \in Int
  BY <1>1, <1>3 DEF Ends
<1>5. \A i \in C : X[i] \in Int /\ X[i] <= c + NoiseBound /\ c - NoiseBound < X[i]
  <2> SUFFICES ASSUME NEW i \in C
               PROVE  X[i] \in Int /\ X[i] <= c + NoiseBound /\ c - NoiseBound < X[i]
    OBVIOUS
  <2>1. X[i] \in Int /\ X[i] - NoiseBound <= c /\ c < X[i] + NoiseBound
    BY <1>1, <1>2 DEF OpenAt
  <2> QED
    BY <1>3, <1>4, <2>1
<1> DEFINE V == {X[i] : i \in C}
           n == Cardinality(C)
           s == SumX(X, C)
<1>6. V \in SUBSET Int /\ V # {} /\ \A x \in V : x <= c + NoiseBound /\ c - NoiseBound <= x
  <2>1. \A i \in C : c - NoiseBound <= X[i]
    BY <1>3, <1>4, <1>5
  <2> QED
    BY <1>2, <1>5, <2>1
<1>7. c + NoiseBound \in Int /\ c - NoiseBound \in Int
  BY <1>3, <1>4
<1>8. PICK lo \in V : \A y \in V : lo <= y
  <2> HIDE DEF V
  <2> QED
    BY <1>6, <1>7, LeastInteger
<1>9. PICK hi \in V : \A y \in V : y <= hi
  <2> HIDE DEF V
  <2> QED
    BY <1>6, <1>7, MaxIsGreatest
<1>10. PICK a \in C : X[a] = lo
  OBVIOUS
<1>11. PICK z \in C : X[z] = hi
  OBVIOUS
<1>12. lo \in Int /\ hi \in Int /\ hi - lo < 2 * NoiseBound
  BY <1>3, <1>4, <1>5, <1>10, <1>11
<1>13. \A i \in C : X[i] \in Int /\ lo <= X[i] /\ X[i] <= hi
  BY <1>5, <1>8, <1>9
<1>14. IsFiniteSet(C) /\ n \in Nat
  BY <1>2, FS_Subset, FS_CardinalityType
<1>15. s \in Int /\ n * lo <= s /\ s <= n * hi
  <2>1. s = SumOf(X, C)
    BY DEF SumX, SumOver, SumOf
  <2>2. SumOf(X, C) \in Int
    BY <1>13, <1>14, SumIsInteger
  <2>3. n * lo <= SumOf(X, C) /\ SumOf(X, C) <= n * hi
    BY <1>12, <1>13, <1>14, SumIsBounded
  <2> QED
    BY <2>1, <2>2, <2>3
<1> HIDE DEF V, n, s
<1>16. /\ n * lo \in Int /\ n * hi \in Int /\ n * NoiseBound \in Int
       /\ n * hi - n * lo <= 2 * (n * NoiseBound)
  <2>1. lo + 2 * NoiseBound \in Int /\ hi <= lo + 2 * NoiseBound
    BY <1>3, <1>12
  <2>2. n * hi <= n * (lo + 2 * NoiseBound) /\ n * hi \in Int
    BY <1>12, <1>14, <2>1, TimesKeepsOrder
  <2>3. n * (lo + 2 * NoiseBound) = n * lo + 2 * (n * NoiseBound)
    BY <1>3, <1>12, <1>14
  <2>4. n * lo \in Int /\ n * NoiseBound \in Int
    BY <1>3, <1>12, <1>14
  <2> QED
    BY <2>2, <2>3, <2>4
<1>17. \A i \in C : -n * NoiseBound <= n * X[i] - s /\ n * X[i] - s <= n * NoiseBound
                      => i \in InliersOf(X, C)
  BY <1>2 DEF InliersOf, n, s
<1>18. -n * NoiseBound = - (n * NoiseBound)
  BY <1>3, <1>14
<1>19. n * NoiseBound >= 0
  BY <1>3, <1>14
<1>20. CASE s - n * lo <= n * NoiseBound
  <2>1. -n * NoiseBound <= n * X[a] - s /\ n * X[a] - s <= n * NoiseBound
    BY <1>10, <1>15, <1>16, <1>18, <1>19, <1>20
  <2> QED
    BY <1>17, <2>1
<1>21. CASE ~ (s - n * lo <= n * NoiseBound)
  <2>1. -n * NoiseBound <= n * X[z] - s /\ n * X[z] - s <= n * NoiseBound
    BY <1>11, <1>15, <1>16, <1>18, <1>19, <1>21
  <2> QED
    BY <1>17, <2>1
<1> QED
  BY <1>20, <1>21

LEMMA RowsHaveInliers ==
    ASSUME NEW n \in 0 .. MaxCorr, NEW mask \in RowMasks[n]
    PROVE  mask # {}
<1>1. PICK X \in [1 .. n -> Offsets] :
        mask \in {InliersOf(Scaled(X), C) : C \in Cheapest(Scaled(X))}
  BY DEF RowMasks
<1>2. PICK C \in Cheapest(Scaled(X)) : mask = InliersOf(Scaled(X), C)
  BY <1>1
<1> DEFINE Y == Scaled(X)
<1>3. /\ DOMAIN Y = 1 .. n /\ \A i \in DOMAIN Y : Y[i] \in Int
  <2>0. Y = [i \in DOMAIN X |-> Unit * X[i]] /\ DOMAIN X = 1 .. n
    BY DEF Scaled
  <2>1. Unit \in Int /\ \A i \in 1 .. n : X[i] \in Int
    <3>1. Unit \in Int /\ Offsets \subseteq Int
      BY RegistrationAssumption
    <3>2. \A i \in 1 .. n : X[i] \in Offsets
      BY <1>1
    <3> QED
      BY <3>1, <3>2
  <2>2. \A i \in 1 .. n : Unit * X[i] \in Int
    BY <2>1
  <2> QED
    BY <2>0, <2>2
<1>4. IsFiniteSet(DOMAIN Y) /\ C \in Consensuses(Y)
  BY <1>3, RegistrationAssumption, FS_Interval DEF Cheapest
<1> HIDE DEF Y
<1>5. InliersOf(Y, C) \cap C # {}
  BY <1>3, <1>4, MeanHasInlier
<1> QED
  BY <1>2, <1>5 DEF Y

(***************************************************************************)
(* Until a rotation with two inliers is found the translation is that of   *)
(* the new solver: none.                                                   *)
(***************************************************************************)
SupportInv ==
    /\ correspondences \in 0 .. MaxCorr
    /\ stage \in {"rotation", "inliers"} => solver.translation = 0
    /\ stage = "translation" => solver.rotationInliers >= 2
    /\ TranslationSupported

LEMMA SupportInit == InitRegistration => SupportInv
  BY RegistrationAssumption
  DEF InitRegistration, SupportInv, TranslationSupported, NewSolver

LEMMA SupportInductive ==
    RegistrationInv /\ SupportInv /\ [Next]_vars => SupportInv'
<1> SUFFICES ASSUME RegistrationInv, SupportInv, [Next]_vars PROVE SupportInv'
  OBVIOUS
<1>0. solver \in [valid : BOOLEAN, rotation : Nat, translation : Nat,
                  rotationInliers : Nat, inliers : Nat]
  BY DEF RegistrationInv, RegistrationType
<1>1. CASE PerformLoopClosure
  BY <1>1 DEF PerformLoopClosure, SupportInv, TranslationSupported
<1>2. CASE Solve
  <2>1. solver' = NewSolver /\ NewSolver.translation = 0
    BY <1>2 DEF Solve, SolverReset, NewSolver
  <2>2. stage' \in {"verdict", "rotation"} /\ correspondences' = correspondences
    BY <1>2 DEF Solve
  <2> QED
    BY <2>1, <2>2 DEF SupportInv, TranslationSupported
<1>3. CASE AlignRotation
  <2>1. solver'.translation = 0 /\ stage' \in {"rotation", "inliers"}
    BY <1>0, <1>3 DEF AlignRotation, SupportInv
  <2>2. correspondences' = correspondences
    BY <1>3 DEF AlignRotation
  <2> QED
    BY <2>1, <2>2 DEF SupportInv, TranslationSupported
<1>4. CASE CountRotationInliers
  <2>1. /\ stage = "inliers" /\ solver.translation = 0
        /\ solver' = [solver EXCEPT !.rotationInliers = Cardinality(weighty)]
        /\ stage' = IF Cardinality(weighty) >= 2 THEN "translation" ELSE "verdict"
        /\ correspondences' = correspondences
    BY <1>4 DEF CountRotationInliers, EnoughRotationInliers, SupportInv, numerics
  <2>2. solver'.translation = 0 /\ solver'.rotationInliers = Cardinality(weighty)
    BY <1>0, <2>1
  <2> QED
    BY <2>1, <2>2 DEF SupportInv, TranslationSupported
<1>5. CASE SolveTranslation
  <2> DEFINE mask == {i \in 1 .. correspondences : \A r \in Rows : i \in rowInliers'[r]}
  <2>1. /\ stage = "translation" /\ stage' = "verdict"
        /\ rowInliers' \in [Rows -> RowMasks[correspondences]]
        /\ solver' = [solver EXCEPT !.translation = call, !.inliers = Cardinality(mask),
                                    !.valid = mask # {}]
        /\ correspondences' = correspondences
    BY <1>5 DEF SolveTranslation
  <2> HIDE DEF mask
  <2>2. solver'.rotationInliers >= 2
    BY <1>0, <2>1 DEF SupportInv
  <2>3. \A r \in Rows : rowInliers'[r] # {}
    BY <2>1, RowsHaveInliers DEF SupportInv
  <2> QED
    BY <2>1, <2>2, <2>3 DEF SupportInv, TranslationSupported
<1>6. CASE RejectCoarse \/ AcceptCoarse \/ AlignEmpty \/ AlignICP
  BY <1>6 DEF RejectCoarse, AcceptCoarse, AlignEmpty, AlignICP, numerics, SupportInv,
              TranslationSupported
<1>7. CASE UNCHANGED registration
  BY <1>7 DEF registration, numerics, SupportInv, TranslationSupported
<1> QED
  BY <1>1, <1>2, <1>3, <1>4, <1>5, <1>6, <1>7 DEF Next, vars, RegistrationStep,
       ManagerRegisters, ReceiveMap, Tick, TfTimer, PerformAlignment, FinishAlignment

(***************************************************************************)
(* ScalarTLSEstimator::estimate leaves every row an inlier, whatever the   *)
(* measurements, and RobustRegistrationSolver::solve translates only after *)
(* a rotation with two inliers: for every number of correspondences, rows  *)
(* and offsets, and every noise bound.                                     *)
(***************************************************************************)
THEOREM TranslationsAreSupported == Spec => []TranslationSupported
<1>1. Init => RegistrationInv /\ SupportInv
  BY RegistrationInit, SupportInit DEF Init
<1>2. (RegistrationInv /\ SupportInv) /\ [Next]_vars => (RegistrationInv /\ SupportInv)'
  BY RegistrationInductive, SupportInductive
<1>3. SupportInv => TranslationSupported
  BY DEF SupportInv
<1> QED
  BY <1>1, <1>2, <1>3, PTL DEF Spec

-----------------------------------------------------------------------------
(* The aligner *)

(***************************************************************************)
(* A flag that is up stands for a map newer than the last alignment.       *)
(***************************************************************************)
AlignerInv ==
    /\ stamp \in [Maps -> Nat] /\ lastAligned \in [Maps -> Nat]
    /\ updated \in [Maps -> BOOLEAN]
    /\ \A m \in Maps : lastAligned[m] <= stamp[m]
    /\ ~aligning => \A m \in Maps : updated[m] => stamp[m] > lastAligned[m]

LEMMA AlignerInit == Init => AlignerInv
  BY DEF Init, AlignerInv, Both

LEMMA AlignerInductive == AlignerInv /\ [Next]_vars => AlignerInv'
<1> SUFFICES ASSUME AlignerInv, [Next]_vars PROVE AlignerInv'
  OBVIOUS
<1> USE DEF AlignerInv
<1>1. ASSUME NEW m \in Maps, ReceiveMap(m) PROVE AlignerInv'
  <2>1. PICK t \in stamp[m] + 1 .. MaxStamp : stamp' = [stamp EXCEPT ![m] = t]
    BY <1>1 DEF ReceiveMap
  <2>2. t \in Nat /\ t > stamp[m]
    BY <2>1, AlignerAssumption
  <2> QED
    BY <1>1, <2>1, <2>2 DEF ReceiveMap, Quiet
<1>2. CASE PerformAlignment
  BY <1>2 DEF PerformAlignment, Quiet
<1>3. CASE FinishAlignment
  BY <1>3 DEF FinishAlignment, UpdatedAfterwards, Both
<1>4. CASE UNCHANGED <<stamp, lastAligned, updated, aligning>>
  BY <1>4
<1> QED
  BY <1>1, <1>2, <1>3, <1>4 DEF Next, vars, aligner, ManagerRegisters, Tick, TfTimer

(***************************************************************************)
(* A rejected alignment is not tried again with the same maps: the flags   *)
(* go down "no matter how the result is imprecise"                         *)
(* (inter_frame_alignment.cpp:145-149).                                    *)
(***************************************************************************)
THEOREM MapsAreAlignedOnce == Spec => AlignedOnce
<1>1. AlignerInv /\ [Next]_vars =>
        [PerformAlignment => \A m \in Maps : stamp[m] > lastAligned[m]]_vars
  BY DEF AlignerInv, PerformAlignment, Quiet
<1> QED
  BY <1>1, AlignerInit, AlignerInductive, PTL DEF Spec, AlignedOnce
=============================================================================
