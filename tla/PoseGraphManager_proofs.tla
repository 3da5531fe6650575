------------------------- MODULE PoseGraphManager_proofs -------------------------
(***************************************************************************)
(* Machine-checked proofs about PoseGraphManager and, from the section on  *)
(* the outputs on, about BackendOutputs, which composes it with the timers *)
(* that show its poses: for every capacity, every detector and any number  *)
(* of keyframes and corrections.  The last sections are about the mutexes  *)
(* of BackendLocks, and why a section of one of them is one action here.   *)
(***************************************************************************)
EXTENDS BackendOutputs, BackendLocks, SequenceTheorems, TLAPS

-----------------------------------------------------------------------------
(* The inductive invariant, in named parts.                                *)

\* graph_mutex_ is held between actions exactly by a thread that has still to
\* rewrite the keyframes; callbackNode does so only on behalf of a
\* registration that waits for the mutex.
LockInv ==
  /\ \A t \in {"callback", "registration"} : graphOwner = t <=> pc[t] = "rewrite"
  /\ pc["callback"] = "rewrite" => pc["registration"] = "apply"

\* Before the first keyframe is initialised nothing else has happened;
\* afterwards there is a keyframe and the graph has a key for it.
StartInv ==
  /\ ~isInitialized =>
       /\ pc["callback"] \in {"idle", "first", "prior"}
       /\ pc["callback"] = "prior" <=> keyframes # <<>>
       /\ TrajectoryEpoch = 0 /\ current.epoch = 0 /\ lastCorrected.epoch = 0
       /\ pc["registration"] = "idle" /\ queue = <<>>
       /\ pc["search"] \in {"idle", "accepted", "claim"}
  /\ isInitialized =>
       /\ pc["callback"] \notin {"first", "prior"}
       /\ keyframes # <<>>
       /\ isam.keys # <<>> \/ initEsti # <<>>
  /\ \A t \in Threads : pc[t] = "rewrite" => isam.keys # <<>>

\* generation counts the corrections begun, isam.epoch the loop factors
\* absorbed and TrajectoryEpoch the ones written back.
EpochInv ==
  /\ inProgress <=> pc["registration"] \in {"reset", "factor", "apply", "rewrite", "cooldown"}
  /\ loopClosureAdded <=> \E f \in graph : f.kind = "loop"
  /\ loopClosureAdded => pc["registration"] = "apply"
  /\ generation = isam.epoch +
       (IF loopClosureAdded \/ pc["registration"] \in {"reset", "factor"} THEN 1 ELSE 0)
  /\ lastCorrected.epoch = isam.epoch
  /\ isam.epoch = TrajectoryEpoch +
       (IF \E t \in Threads : pc[t] = "rewrite" THEN 1 ELSE 0)

\* A search that carries the current generation runs outside any correction,
\* and its candidates were fetched on the current trajectory.
SearchInv ==
  /\ pc["search"] # "idle" =>
       /\ search.generation <= generation
       /\ search.generation = generation => ~inProgress
  /\ pc["search"] = "enqueue" /\ search.generation = generation =>
       search.epoch = TrajectoryEpoch

\* Queries are keyframes, and a search in flight keeps the other one out.
QueryInv ==
  /\ \A s \in Sources : pending[s] < Len(keyframes)
  /\ pc["search"] \in {"fetch", "enqueue", "settle"} =>
       /\ pending[Other(search.source)] = NoKey
       /\ search.query \in 0 .. Len(keyframes) - 1
  /\ pc["registration"] # "idle" => reg.query \in Nat

IInv ==
  /\ TypeOK
  /\ LockInv
  /\ StartInv
  /\ EpochInv
  /\ SearchInv
  /\ QueryInv
  /\ CandidatesOnCurrentTrajectory
  /\ QueueDisciplined
  /\ OneWaitingSearch

-----------------------------------------------------------------------------
(* Sequences                                                                *)

\* A function on 1..n is a sequence of length n.
LEMMA FunctionIsSeq ==
  ASSUME NEW S, NEW n \in Nat, NEW f \in [1 .. n -> S]
  PROVE  f \in Seq(S) /\ Len(f) = n /\ DOMAIN f = 1 .. n
<1>1. f \in Seq(S)
  BY SeqDef
<1> QED
  BY <1>1, LenProperties

\* Rewriting the keyframes in place keeps them keyframes, and as many.
LEMMA KeyframesRewritten ==
  ASSUME keyframes \in Seq(Keyframe), NEW f \in [DOMAIN keyframes -> Keyframe]
  PROVE  f \in Seq(Keyframe) /\ Len(f) = Len(keyframes) /\ DOMAIN f = 1 .. Len(keyframes)
<1>1. Len(keyframes) \in Nat /\ DOMAIN keyframes = 1 .. Len(keyframes)
  BY LenProperties
<1> QED
  BY <1>1, FunctionIsSeq

\* A keyframe with another epoch, or other searches done, is a keyframe.
LEMMA KeyframeUpdated ==
  ASSUME NEW k \in Keyframe
  PROVE  /\ k.epoch \in Nat /\ k.processed \in SUBSET Sources
         /\ \A e \in Nat : [k EXCEPT !.epoch = e] \in Keyframe /\ [k EXCEPT !.epoch = e].epoch = e
         /\ \A P \in SUBSET Sources :
              [k EXCEPT !.processed = P] \in Keyframe /\ [k EXCEPT !.processed = P].epoch = k.epoch
BY DEF Keyframe

LEMMA TrajectoryIsNat ==
  ASSUME keyframes \in Seq(Keyframe)
  PROVE  TrajectoryEpoch \in Nat
<1>1. CASE keyframes = <<>>
  BY <1>1 DEF TrajectoryEpoch
<1>2. CASE keyframes # <<>>
  <2>1. 1 \in 1 .. Len(keyframes)
    BY <1>2, EmptySeq
  <2>2. keyframes[1] \in Keyframe
    BY <2>1, ElementOfSeq
  <2> QED
    BY <1>2, <2>2, KeyframeUpdated DEF TrajectoryEpoch
<1> QED
  BY <1>1, <1>2

-----------------------------------------------------------------------------
(* What a step leaves alone                                                 *)

\* Some thread writes the estimate to the keyframes.
Rewritten == \E t \in Threads : pc[t] = "rewrite" /\ pc'[t] # "rewrite"

\* A step of the loop search callback touches neither the graph nor the poses
\* nor the other callbacks.
LEMMA SearchFrame ==
  ASSUME IInv, SearchStep \/ \E s \in Sources : StartSearch(s)
  PROVE  /\ UNCHANGED <<graphVars, realtimeVars, frameVars, reg>>
         /\ UNCHANGED <<inProgress, generation, hasAccepted, coolingDown>>
         /\ pc' = [pc EXCEPT !["search"] = pc'["search"]]
         /\ pc'["callback"] = pc["callback"] /\ pc'["registration"] = pc["registration"]
         /\ pc["search"] # "rewrite" /\ pc'["search"] # "rewrite" /\ ~Rewritten
<1> USE DEF SearchLabels, Threads, Goto, Rewritten, queueVars, IInv, TypeOK
<1>1. CASE \E s \in Sources : StartSearch(s)
  BY <1>1 DEF StartSearch
<1>2. CASE ReadHasAccepted \/ AbandonSearch
  BY <1>2 DEF ReadHasAccepted, AbandonSearch
<1>3. CASE \E s \in Sources : ClaimQuery(s)
  BY <1>3 DEF ClaimQuery
<1>4. CASE FetchCandidates
  BY <1>4 DEF FetchCandidates
<1>5. CASE EnqueueCandidates
  BY <1>5 DEF EnqueueCandidates
<1>6. CASE SettleSearch
  BY <1>6 DEF SettleSearch
<1> QED
  BY <1>1, <1>2, <1>3, <1>4, <1>5, <1>6 DEF SearchStep

\* What a step does to keyframes_: it keeps every keyframe, and only the
\* rewrite of a finished correction changes the trajectory they form.
LEMMA KeyframesStep ==
  ASSUME IInv, [Next]_vars
  PROVE  /\ keyframes' \in Seq(Keyframe)
         /\ Len(keyframes') >= Len(keyframes)
         /\ TrajectoryEpoch' = IF Rewritten THEN isam.epoch ELSE TrajectoryEpoch
<1> USE DEF Threads, Goto, Rewritten
<1> DEFINE Kept == /\ keyframes' \in Seq(Keyframe)
                   /\ Len(keyframes') >= Len(keyframes)
                   /\ TrajectoryEpoch' = TrajectoryEpoch
                   /\ ~Rewritten
<1>0. /\ keyframes \in Seq(Keyframe) /\ Len(keyframes) \in Nat /\ DOMAIN keyframes = 1 .. Len(keyframes)
      /\ \A i \in DOMAIN keyframes : keyframes[i] \in Keyframe
  BY LenProperties DEF IInv, TypeOK
<1>1. CASE UNCHANGED keyframes /\ ~Rewritten
  BY <1>0, <1>1 DEF TrajectoryEpoch
<1>2. ASSUME NEW f \in [DOMAIN keyframes -> Keyframe], keyframes' = f, ~Rewritten,
             \A i \in DOMAIN keyframes : f[i].epoch = keyframes[i].epoch
      PROVE  Kept
  <2>1. keyframes' \in Seq(Keyframe) /\ Len(keyframes') = Len(keyframes)
    BY <1>0, <1>2, KeyframesRewritten
  <2> QED
    BY <1>0, <1>2, <2>1 DEF TrajectoryEpoch
<1>3. CASE CallbackStep
  <2>1. CASE PushFirstKeyframe
    <3>1. NewKeyframe \in Keyframe /\ NewKeyframe.epoch = current.epoch
      BY DEF NewKeyframe, Keyframe, IInv, TypeOK, KeyPose
    <3>2. keyframes' = Append(keyframes, NewKeyframe) /\ ~Rewritten
      BY <2>1 DEF PushFirstKeyframe, IInv, TypeOK
    <3>3. TrajectoryEpoch = 0 /\ current.epoch = 0 /\ keyframes = <<>>
      BY <2>1 DEF PushFirstKeyframe, IInv, TypeOK, StartInv
    <3> QED
      BY <1>0, <3>1, <3>2, <3>3 DEF TrajectoryEpoch
  <2>2. CASE AddKeyframe
    <3>1. NewKeyframe \in Keyframe
      BY DEF NewKeyframe, Keyframe, IInv, TypeOK, KeyPose
    <3>2. keyframes' = Append(keyframes, NewKeyframe) /\ ~Rewritten
      BY <2>2 DEF AddKeyframe, IInv, TypeOK
    <3>3. keyframes # <<>>
      BY <2>2 DEF AddKeyframe, IInv, TypeOK, StartInv
    <3> QED
      BY <1>0, <3>1, <3>2, <3>3 DEF TrajectoryEpoch
  <2>3. CASE ReceiveFrame \/ AddPriorFactor \/ SkipFrame
    BY <1>1, <2>3 DEF ReceiveFrame, AddPriorFactor, SkipFrame, IInv, TypeOK
  <2> QED
    BY <1>3, <2>1, <2>2, <2>3 DEF CallbackStep
<1>4. CASE SearchStep \/ \E s \in Sources : StartSearch(s)
  <2>0. ~Rewritten
    BY <1>4, SearchFrame
  <2>1. ASSUME NEW s \in Sources, ClaimQuery(s)
        PROVE  Kept
    <3> DEFINE q == QueryOf(s) + 1
               f == [keyframes EXCEPT ![q].processed = @ \cup {s}]
    <3>1. f \in [DOMAIN keyframes -> Keyframe] /\ \A i \in DOMAIN keyframes : f[i].epoch = keyframes[i].epoch
      <4>1. ASSUME NEW i \in DOMAIN keyframes
            PROVE  f[i] \in Keyframe /\ f[i].epoch = keyframes[i].epoch
        <5> DEFINE P == keyframes[i].processed \cup {s}
        <5>1. P \in SUBSET Sources
          BY <1>0, KeyframeUpdated
        <5>2. f[i] = keyframes[i] \/ f[i] = [keyframes[i] EXCEPT !.processed = P]
          OBVIOUS
        <5> HIDE DEF P, f
        <5>3. keyframes[i] \in Keyframe
          BY <1>0
        <5>4. /\ [keyframes[i] EXCEPT !.processed = P] \in Keyframe
              /\ [keyframes[i] EXCEPT !.processed = P].epoch = keyframes[i].epoch
          BY <5>1, <5>3, KeyframeUpdated
        <5> QED
          BY <5>2, <5>3, <5>4
      <4> QED
        BY <4>1
    <3>2. keyframes' = f
      BY <2>1 DEF ClaimQuery
    <3> HIDE DEF f
    <3> QED
      BY <1>2, <2>0, <3>1, <3>2
  <2>2. CASE SettleSearch
    <3> DEFINE q == search.query + 1
               f == [keyframes EXCEPT ![q].processed = @ \ {search.source}]
    <3>1. f \in [DOMAIN keyframes -> Keyframe] /\ \A i \in DOMAIN keyframes : f[i].epoch = keyframes[i].epoch
      <4>1. ASSUME NEW i \in DOMAIN keyframes
            PROVE  f[i] \in Keyframe /\ f[i].epoch = keyframes[i].epoch
        <5> DEFINE P == keyframes[i].processed \ {search.source}
        <5>1. P \in SUBSET Sources
          BY <1>0, KeyframeUpdated DEF IInv, TypeOK
        <5>2. f[i] = keyframes[i] \/ f[i] = [keyframes[i] EXCEPT !.processed = P]
          OBVIOUS
        <5> HIDE DEF P, f
        <5>3. keyframes[i] \in Keyframe
          BY <1>0
        <5>4. /\ [keyframes[i] EXCEPT !.processed = P] \in Keyframe
              /\ [keyframes[i] EXCEPT !.processed = P].epoch = keyframes[i].epoch
          BY <5>1, <5>3, KeyframeUpdated
        <5> QED
          BY <5>2, <5>3, <5>4
      <4> QED
        BY <4>1
    <3>2. keyframes' = f \/ UNCHANGED keyframes
      BY <2>2 DEF SettleSearch
    <3> HIDE DEF f
    <3> QED
      BY <1>1, <1>2, <2>0, <3>1, <3>2
  <2>3. CASE UNCHANGED keyframes
    BY <1>1, <2>0, <2>3
  <2> QED
    BY <1>4, <2>0, <2>1, <2>2, <2>3
    DEF SearchStep, StartSearch, ReadHasAccepted, AbandonSearch, FetchCandidates, EnqueueCandidates
<1>5. CASE RegistrationStep
  <2>1. CASE ResetSearches
    <3>0. ~Rewritten
      BY <2>1 DEF ResetSearches, IInv, TypeOK
    <3> DEFINE dropped == reg.discarded \cup {<<pending[s], s>> : s \in Sources}
               f == [i \in DOMAIN keyframes |->
                       [keyframes[i] EXCEPT !.processed = {s \in @ : <<i - 1, s>> \notin dropped}]]
    <3>1. f \in [DOMAIN keyframes -> Keyframe] /\ \A i \in DOMAIN keyframes : f[i].epoch = keyframes[i].epoch
      <4> HIDE DEF dropped
      <4> QED BY <1>0, KeyframeUpdated
    <3>2. keyframes' = f
      BY <2>1 DEF ResetSearches
    <3> HIDE DEF f
    <3> QED
      BY <1>2, <3>0, <3>1, <3>2
  <2>2. CASE UNCHANGED keyframes /\ ~ResetSearches
    BY <1>1, <1>5, <2>2
    DEF RegistrationStep, PopCandidate, RejectLoop, AcceptLoop, BeginLoopCorrection,
        AddLoopFactor, StartLoopSearchCooldown, IInv, TypeOK
  <2> QED
    BY <1>5, <2>1, <2>2
    DEF RegistrationStep, PopCandidate, RejectLoop, AcceptLoop, BeginLoopCorrection,
        AddLoopFactor, StartLoopSearchCooldown
<1>6. ASSUME NEW t \in {"callback", "registration"}, OptimizeGraph(t)
      PROVE  Kept
  BY <1>1, <1>6 DEF OptimizeGraph, IInv, TypeOK
<1>7. ASSUME NEW t \in {"callback", "registration"}, RewriteKeyframes(t)
      PROVE  /\ keyframes' \in Seq(Keyframe)
             /\ Len(keyframes') >= Len(keyframes)
             /\ TrajectoryEpoch' = isam.epoch
             /\ Rewritten
  <2> DEFINE f == [i \in DOMAIN keyframes |->
                     IF InEstimate(i) THEN [keyframes[i] EXCEPT !.epoch = isam.epoch] ELSE keyframes[i]]
  <2>1. f \in [DOMAIN keyframes -> Keyframe]
    BY <1>0, KeyframeUpdated DEF IInv, TypeOK, Estimate
  <2>2. keyframes' = f
    BY <1>7 DEF RewriteKeyframes
  <2>3. keyframes # <<>> /\ InEstimate(1)
    <3>1. pc[t] = "rewrite"
      BY <1>7 DEF RewriteKeyframes
    <3>2. isInitialized /\ isam.keys # <<>>
      BY <3>1 DEF IInv, TypeOK, StartInv
    <3>3. isam.keys \in Seq(Nat)
      BY DEF IInv, TypeOK, Estimate
    <3> QED
      BY <3>2, <3>3, EmptySeq DEF InEstimate, IInv, StartInv
  <2>4. keyframes'[1].epoch = isam.epoch
    BY <1>0, <2>2, <2>3, EmptySeq, KeyframeUpdated DEF IInv, TypeOK
  <2>5. Rewritten
    BY <1>7 DEF RewriteKeyframes, AfterApply, IInv, TypeOK
  <2> HIDE DEF f
  <2>6. keyframes' \in Seq(Keyframe) /\ Len(keyframes') = Len(keyframes)
    BY <1>0, <2>1, <2>2, KeyframesRewritten
  <2> QED
    BY <1>0, <2>3, <2>4, <2>5, <2>6 DEF TrajectoryEpoch
<1>8. CASE CooldownExpires \/ UNCHANGED vars
  BY <1>1, <1>8 DEF CooldownExpires, vars
<1> QED
  BY <1>3, <1>4, <1>5, <1>6, <1>7, <1>8 DEF Next, ApplyStep

-----------------------------------------------------------------------------
(* Each part of the invariant is preserved                                  *)

\* graph_mutex_ changes hands only in applyPendingGraphUpdate.
LEMMA LockStep ==
  ASSUME IInv, [Next]_vars
  PROVE  LockInv'
<1> USE DEF Threads, Rewritten, Goto, NoOwner, graphVars, realtimeVars, queueVars, frameVars, LockInv
<1>0. LockInv /\ pc \in [Threads -> CallbackLabels \cup SearchLabels \cup RegistrationLabels]
  BY DEF IInv, TypeOK
<1>1. CASE ReceiveFrame
  BY <1>1, <1>0 DEF ReceiveFrame
<1>2. CASE PushFirstKeyframe
  BY <1>2, <1>0 DEF PushFirstKeyframe
<1>3. CASE AddPriorFactor
  BY <1>3, <1>0 DEF AddPriorFactor
<1>4. CASE SkipFrame
  BY <1>4, <1>0 DEF SkipFrame
<1>5. CASE AddKeyframe
  BY <1>5, <1>0 DEF AddKeyframe
<1>6. CASE SearchStep \/ \E s \in Sources : StartSearch(s)
  BY <1>6, <1>0, SearchFrame
<1>7. CASE PopCandidate
  BY <1>7, <1>0 DEF PopCandidate
<1>8. CASE RejectLoop
  BY <1>8, <1>0 DEF RejectLoop
<1>9. CASE AcceptLoop
  BY <1>9, <1>0 DEF AcceptLoop
<1>10. CASE BeginLoopCorrection
  BY <1>10, <1>0 DEF BeginLoopCorrection
<1>11. CASE ResetSearches
  BY <1>11, <1>0 DEF ResetSearches
<1>12. CASE AddLoopFactor
  BY <1>12, <1>0 DEF AddLoopFactor
<1>13. CASE StartLoopSearchCooldown
  BY <1>13, <1>0 DEF StartLoopSearchCooldown
<1>14. ASSUME NEW t \in {"callback", "registration"}, OptimizeGraph(t)
      PROVE  LockInv'
  <2>1. loopClosureAdded => pc["registration"] = "apply"
    BY DEF IInv, EpochInv
  <2> QED
    BY <1>0, <1>14, <2>1 DEF OptimizeGraph, AfterApply, NeedsRewrite
<1>15. ASSUME NEW t \in {"callback", "registration"}, RewriteKeyframes(t)
      PROVE  LockInv'
  BY <1>15, <1>0 DEF RewriteKeyframes, AfterApply, InEstimate
<1>16. CASE CooldownExpires \/ UNCHANGED vars
  BY <1>16, <1>0 DEF CooldownExpires, vars
<1> QED
  BY <1>1, <1>2, <1>3, <1>4, <1>5, <1>6, <1>7, <1>8, <1>9, <1>10, <1>11, <1>12, <1>13, <1>14, <1>15, <1>16
  DEF Next, CallbackStep, RegistrationStep, ApplyStep

\* Nothing but the first keyframe ends the start-up.
LEMMA StartStep ==
  ASSUME IInv, [Next]_vars
  PROVE  StartInv'
<1> USE DEF Threads, Rewritten, Goto, NoOwner, graphVars, realtimeVars, queueVars, frameVars, StartInv
<1>0. /\ StartInv /\ pc \in [Threads -> CallbackLabels \cup SearchLabels \cup RegistrationLabels]
      /\ isInitialized \in BOOLEAN
      /\ isam.keys \in Seq(Nat) /\ initEsti \in Seq(Nat)
      /\ latestKeyframeIdx \in Nat
      /\ keyframes # <<>> => keyframes' # <<>>
      /\ TrajectoryEpoch' = IF Rewritten THEN isam.epoch ELSE TrajectoryEpoch
  <2>1. keyframes \in Seq(Keyframe) /\ keyframes' \in Seq(Keyframe)
    BY KeyframesStep DEF IInv, TypeOK
  <2>2. keyframes # <<>> => keyframes' # <<>>
    BY <2>1, KeyframesStep, EmptySeq
  <2> QED
    BY <2>2, KeyframesStep DEF IInv, TypeOK, Estimate
<1>1. CASE ReceiveFrame
  BY <1>1, <1>0 DEF ReceiveFrame
<1>2. CASE PushFirstKeyframe
  BY <1>2, <1>0 DEF PushFirstKeyframe
<1>3. CASE AddPriorFactor
  <2>1. initEsti' # <<>>
    <3>1. initEsti' = Append(initEsti, latestKeyframeIdx)
      BY <1>3 DEF AddPriorFactor
    <3> QED
      BY <1>0, <3>1, AppendProperties
  <2>2. pc["callback"] = "prior" /\ keyframes # <<>>
    BY <1>3, <1>0 DEF AddPriorFactor
  <2>3. isInitialized' = TRUE /\ isam' = isam /\ pc' = [pc EXCEPT !["callback"] = "idle"]
    BY <1>3 DEF AddPriorFactor
  <2>4. keyframes' # <<>>
    BY <1>0, <2>2
  <2> QED
    BY <1>0, <2>1, <2>2, <2>3, <2>4
<1>4. CASE SkipFrame
  BY <1>4, <1>0 DEF SkipFrame
<1>5. CASE AddKeyframe
  <2>1. initEsti' # <<>>
    <3>1. initEsti' = Append(initEsti, latestKeyframeIdx)
      BY <1>5 DEF AddKeyframe
    <3> QED
      BY <1>0, <3>1, AppendProperties
  <2>2. isInitialized
    BY <1>5, <1>0 DEF AddKeyframe
  <2>3. isInitialized' = isInitialized /\ isam' = isam /\ pc' = [pc EXCEPT !["callback"] = "apply"]
    BY <1>5 DEF AddKeyframe
  <2>4. keyframes' # <<>>
    BY <1>0, <2>2
  <2> QED
    BY <1>0, <2>1, <2>2, <2>3, <2>4
<1>6. CASE SearchStep \/ \E s \in Sources : StartSearch(s)
  <2>0. ~Rewritten
    BY <1>6, SearchFrame
  <2>1. CASE isInitialized
    <3>1. isInitialized' /\ isam' = isam /\ initEsti' = initEsti
      BY <1>6, <2>1, SearchFrame
    <3>2. pc'["callback"] = pc["callback"] /\ \A t \in Threads : pc'[t] = "rewrite" => pc[t] = "rewrite"
      BY <1>6, SearchFrame
    <3> QED
      BY <1>0, <2>1, <3>1, <3>2
  <2>2. CASE ~isInitialized /\ \E s \in Sources : StartSearch(s)
    BY <1>0, <2>0, <2>2 DEF StartSearch
  <2>3. CASE ~isInitialized /\ SearchStep
    <3>1. ReadHasAccepted \/ AbandonSearch
      BY <1>0, <2>3
      DEF SearchStep, FetchCandidates, EnqueueCandidates, SettleSearch, ClaimQuery, MayClaim
    <3> QED
      BY <1>0, <2>0, <2>3, <3>1 DEF ReadHasAccepted, AbandonSearch
  <2> QED
    BY <1>6, <2>1, <2>2, <2>3
<1>7. CASE PopCandidate
  BY <1>7, <1>0 DEF PopCandidate
<1>8. CASE RejectLoop
  BY <1>8, <1>0 DEF RejectLoop
<1>9. CASE AcceptLoop
  BY <1>9, <1>0 DEF AcceptLoop
<1>10. CASE BeginLoopCorrection
  BY <1>10, <1>0 DEF BeginLoopCorrection
<1>11. CASE ResetSearches
  BY <1>11, <1>0 DEF ResetSearches
<1>12. CASE AddLoopFactor
  BY <1>12, <1>0 DEF AddLoopFactor
<1>13. CASE StartLoopSearchCooldown
  BY <1>13, <1>0 DEF StartLoopSearchCooldown
<1>14. ASSUME NEW t \in {"callback", "registration"}, OptimizeGraph(t)
      PROVE  StartInv'
  BY <1>14, <1>0 DEF OptimizeGraph, AfterApply, NeedsRewrite
<1>15. ASSUME NEW t \in {"callback", "registration"}, RewriteKeyframes(t)
      PROVE  StartInv'
  BY <1>15, <1>0 DEF RewriteKeyframes, AfterApply, InEstimate
<1>16. CASE CooldownExpires \/ UNCHANGED vars
  BY <1>16, <1>0 DEF CooldownExpires, vars
<1> QED
  BY <1>1, <1>2, <1>3, <1>4, <1>5, <1>6, <1>7, <1>8, <1>9, <1>10, <1>11, <1>12, <1>13, <1>14, <1>15, <1>16
  DEF Next, CallbackStep, RegistrationStep, ApplyStep

\* The counts of begun, absorbed and written corrections move together.
LEMMA EpochStep ==
  ASSUME IInv, [Next]_vars
  PROVE  EpochInv'
<1> USE DEF Threads, Rewritten, Goto, NoOwner, graphVars, realtimeVars, queueVars, frameVars, EpochInv
<1>0. /\ EpochInv /\ LockInv /\ pc \in [Threads -> CallbackLabels \cup SearchLabels \cup RegistrationLabels]
      /\ inProgress \in BOOLEAN /\ loopClosureAdded \in BOOLEAN
      /\ generation \in Nat /\ isam.epoch \in Nat /\ TrajectoryEpoch \in Nat
      /\ TrajectoryEpoch' = IF Rewritten THEN isam.epoch ELSE TrajectoryEpoch
  BY KeyframesStep, TrajectoryIsNat DEF IInv, TypeOK
<1>1. CASE ReceiveFrame
  BY <1>1, <1>0 DEF ReceiveFrame
<1>2. CASE PushFirstKeyframe
  BY <1>2, <1>0 DEF PushFirstKeyframe
<1>3. CASE AddPriorFactor
  BY <1>3, <1>0 DEF AddPriorFactor
<1>4. CASE SkipFrame
  BY <1>4, <1>0 DEF SkipFrame
<1>5. CASE AddKeyframe
  BY <1>5, <1>0 DEF AddKeyframe
<1>6. CASE SearchStep \/ \E s \in Sources : StartSearch(s)
  BY <1>6, <1>0, SearchFrame
<1>7. CASE PopCandidate
  BY <1>7, <1>0 DEF PopCandidate
<1>8. CASE RejectLoop
  BY <1>8, <1>0 DEF RejectLoop
<1>9. CASE AcceptLoop
  BY <1>9, <1>0 DEF AcceptLoop
<1>10. CASE BeginLoopCorrection
  BY <1>10, <1>0 DEF BeginLoopCorrection
<1>11. CASE ResetSearches
  BY <1>11, <1>0 DEF ResetSearches
<1>12. CASE AddLoopFactor
  <2>1. \E f \in graph' : f.kind = "loop"
    <3>1. [kind |-> "loop", key |-> reg.query] \in graph'
      BY <1>12 DEF AddLoopFactor
    <3> QED
      BY <3>1
  <2>2. ~Rewritten /\ \A t \in Threads : pc'[t] = "rewrite" <=> pc[t] = "rewrite"
    BY <1>12, <1>0 DEF AddLoopFactor
  <2>3. pc["registration"] = "factor" /\ ~loopClosureAdded
    BY <1>12, <1>0 DEF AddLoopFactor
  <2> QED
    BY <1>12, <1>0, <2>1, <2>2, <2>3 DEF AddLoopFactor
<1>13. CASE StartLoopSearchCooldown
  BY <1>13, <1>0 DEF StartLoopSearchCooldown
<1>14. ASSUME NEW t \in {"callback", "registration"}, OptimizeGraph(t)
      PROVE  EpochInv'
  <2>1. isam'.epoch = isam.epoch + (IF loopClosureAdded THEN 1 ELSE 0) /\ lastCorrected'.epoch = isam'.epoch
    BY <1>14, <1>0 DEF OptimizeGraph
  <2>2. graph' = {} /\ loopClosureAdded' = FALSE
    BY <1>14 DEF OptimizeGraph
  <2>3. \A u \in Threads : pc[u] # "rewrite"
    BY <1>14, <1>0 DEF OptimizeGraph, LockInv, IInv, TypeOK, SearchLabels
  <2>4. pc' = [pc EXCEPT ![t] = IF loopClosureAdded THEN "rewrite" ELSE AfterApply(t)] /\ pc[t] = "apply"
    BY <1>14 DEF OptimizeGraph, NeedsRewrite
  <2>5. ~Rewritten /\ ((\E u \in Threads : pc'[u] = "rewrite") <=> loopClosureAdded)
    BY <1>0, <2>3, <2>4, <1>14 DEF AfterApply
  <2>6. UNCHANGED <<inProgress, generation>>
    BY <1>14 DEF OptimizeGraph
  <2>7. TrajectoryEpoch' = TrajectoryEpoch
    BY <1>0, <2>5
  <2>8. pc'["registration"] = IF t = "callback" THEN pc["registration"]
                              ELSE IF loopClosureAdded THEN "rewrite" ELSE "cooldown"
    BY <1>0, <2>4 DEF AfterApply
  <2> QED
    BY <1>14, <1>0, <2>1, <2>2, <2>3, <2>4, <2>5, <2>6, <2>7, <2>8
<1>15. ASSUME NEW t \in {"callback", "registration"}, RewriteKeyframes(t)
      PROVE  EpochInv'
  <2>1. UNCHANGED <<isam, graph, loopClosureAdded, inProgress, generation, lastCorrected>>
    BY <1>15 DEF RewriteKeyframes
  <2>2. pc' = [pc EXCEPT ![t] = AfterApply(t)] /\ pc[t] = "rewrite"
    BY <1>15 DEF RewriteKeyframes
  <2>3. Rewritten /\ \A u \in Threads : pc'[u] # "rewrite"
    BY <1>0, <2>2 DEF AfterApply, LockInv, IInv, TypeOK, SearchLabels
  <2>4. TrajectoryEpoch' = isam.epoch
    BY <1>0, <2>3
  <2>5. pc'["registration"] = IF t = "callback" THEN pc["registration"] ELSE "cooldown"
    BY <1>0, <2>2 DEF AfterApply
  <2> QED
    BY <1>15, <1>0, <2>1, <2>2, <2>3, <2>4, <2>5
<1>16. CASE CooldownExpires \/ UNCHANGED vars
  BY <1>16, <1>0 DEF CooldownExpires, vars
<1> QED
  BY <1>1, <1>2, <1>3, <1>4, <1>5, <1>6, <1>7, <1>8, <1>9, <1>10, <1>11, <1>12, <1>13, <1>14, <1>15, <1>16
  DEF Next, CallbackStep, RegistrationStep, ApplyStep

\* What the callback, registration and clock steps leave alone: the loop search
\* only sees the query it waits for, the generation and the queue change, and
\* those at one step each.
LEMMA OtherFrame ==
  ASSUME IInv, [Next]_vars, ~(SearchStep \/ \E s \in Sources : StartSearch(s))
  PROVE  /\ UNCHANGED search /\ pc'["search"] = pc["search"]
         /\ ResetSearches \/ pending' = pending
         /\ BeginLoopCorrection \/ (generation' = generation /\ (inProgress' => inProgress))
         /\ PopCandidate \/ BeginLoopCorrection \/ queue' = queue
         /\ RegistrationStep \/ (reg' = reg /\ (pc'["registration"] = pc["registration"]
                                    \/ pc'["registration"] \in {"rewrite", "cooldown"}))
<1> USE DEF Threads, Goto, queueVars
<1>0. /\ pc \in [Threads -> CallbackLabels \cup SearchLabels \cup RegistrationLabels]
      /\ inProgress \in BOOLEAN
  BY DEF IInv, TypeOK
<1>1. CASE CallbackStep
  BY <1>0, <1>1
  DEF CallbackStep, ReceiveFrame, PushFirstKeyframe, AddPriorFactor, SkipFrame, AddKeyframe
<1>2. CASE PopCandidate \/ RejectLoop \/ AcceptLoop \/ BeginLoopCorrection
  BY <1>0, <1>2
  DEF RegistrationStep, PopCandidate, RejectLoop, AcceptLoop, BeginLoopCorrection
<1>3. CASE ResetSearches \/ AddLoopFactor \/ StartLoopSearchCooldown
  BY <1>0, <1>3 DEF RegistrationStep, ResetSearches, AddLoopFactor, StartLoopSearchCooldown
<1>4. ASSUME NEW t \in {"callback", "registration"}, ApplyStep(t)
      PROVE  /\ UNCHANGED <<search, pending, generation, inProgress, queue, reg>>
             /\ pc'["search"] = pc["search"]
             /\ \/ pc'["registration"] = pc["registration"]
                \/ pc'["registration"] \in {"rewrite", "cooldown"}
  <2>1. CASE OptimizeGraph(t)
    BY <1>0, <2>1, <1>4 DEF OptimizeGraph, AfterApply
  <2>2. CASE RewriteKeyframes(t)
    BY <1>0, <2>2, <1>4 DEF RewriteKeyframes, AfterApply
  <2> QED
    BY <1>4, <2>1, <2>2 DEF ApplyStep
<1>5. CASE CooldownExpires \/ UNCHANGED vars
  BY <1>5 DEF CooldownExpires, vars
<1> QED
  BY <1>1, <1>2, <1>3, <1>4, <1>5 DEF Next, RegistrationStep

\* Keyframes are only rewritten while a correction is in progress.
LEMMA RewriteInCorrection ==
  ASSUME IInv, Rewritten
  PROVE  inProgress /\ pc["registration"] \notin {"align", "begin"}
BY DEF IInv, TypeOK, LockInv, EpochInv, Rewritten, Threads, SearchLabels

\* A search that survives with the current generation keeps its trajectory.
LEMMA SearchInvStep ==
  ASSUME IInv, [Next]_vars
  PROVE  SearchInv'
<1>0. /\ SearchInv
      /\ generation \in Nat /\ search.generation \in Nat /\ inProgress \in BOOLEAN
      /\ pc \in [Threads -> CallbackLabels \cup SearchLabels \cup RegistrationLabels]
      /\ pc["search"] \in SearchLabels
      /\ TrajectoryEpoch' = IF Rewritten THEN isam.epoch ELSE TrajectoryEpoch
  BY KeyframesStep DEF IInv, TypeOK, SearchLocals
<1>1. CASE SearchStep \/ \E s \in Sources : StartSearch(s)
  <2>0. /\ UNCHANGED <<generation, inProgress>> /\ TrajectoryEpoch' = TrajectoryEpoch
    BY <1>0, <1>1, SearchFrame
  <2> USE DEF SearchInv, Goto, Threads, SearchLabels
  <2>1. CASE \E s \in Sources : StartSearch(s)
    BY <1>0, <2>0, <2>1 DEF StartSearch, SearchBlocked, IdleSearch
  <2>2. CASE AbandonSearch \/ SettleSearch
    BY <1>0, <2>0, <2>2 DEF AbandonSearch, SettleSearch
  <2>2a. CASE ReadHasAccepted
    <3>1. /\ pc["search"] = "accepted" /\ pc'["search"] = "claim"
          /\ search'.generation = search.generation
      BY <1>0, <2>2a DEF ReadHasAccepted, IInv, TypeOK, SearchLocals
    <3> QED
      BY <1>0, <2>0, <3>1
  <2>3. ASSUME NEW s \in Sources, ClaimQuery(s)
        PROVE  SearchInv'
    <3>1. pc["search"] = "claim" /\ search'.generation = search.generation
      BY <2>3 DEF ClaimQuery, IInv, TypeOK, SearchLocals
    <3>2. /\ pc'["search"] # "enqueue" \/ search'.epoch = TrajectoryEpoch
          /\ pc'["search"] \in {"fetch", "enqueue"}
      <4>1. CASE s = Detector
        <5>1. PICK n \in Batches(s, QueryOf(s)) :
                search' = [search EXCEPT !.query = QueryOf(s), !.batch = n, !.epoch = TrajectoryEpoch]
          BY <2>3, <4>1 DEF ClaimQuery
        <5>2. pc' = [pc EXCEPT !["search"] = "enqueue"]
          BY <2>3, <4>1 DEF ClaimQuery
        <5> QED
          BY <1>0, <5>1, <5>2 DEF IInv, TypeOK, SearchLocals
      <4>2. CASE s # Detector
        <5>1. pc' = [pc EXCEPT !["search"] = "fetch"]
          BY <2>3, <4>2 DEF ClaimQuery
        <5> QED
          BY <1>0, <5>1
      <4> QED
        BY <4>1, <4>2
    <3> QED
      BY <1>0, <2>0, <3>1, <3>2
  <2>4. CASE FetchCandidates
    <3>1. /\ pc["search"] = "fetch" /\ pc'["search"] = "enqueue"
          /\ search'.generation = search.generation /\ search'.epoch = TrajectoryEpoch
      BY <1>0, <2>4 DEF FetchCandidates, IInv, TypeOK
    <3> QED
      BY <1>0, <2>0, <3>1
  <2>5. CASE EnqueueCandidates
    <3>1. /\ pc["search"] = "enqueue" /\ pc'["search"] = "settle"
          /\ search'.generation = search.generation
      BY <1>0, <2>5 DEF EnqueueCandidates, IInv, TypeOK
    <3> QED
      BY <1>0, <2>0, <3>1
  <2> QED
    BY <1>1, <2>1, <2>2, <2>2a, <2>3, <2>4, <2>5 DEF SearchStep
<1>2. CASE ~(SearchStep \/ \E s \in Sources : StartSearch(s))
  <2>1. UNCHANGED search /\ pc'["search"] = pc["search"]
    BY <1>2, OtherFrame
  <2>2. CASE BeginLoopCorrection
    BY <1>0, <2>1, <2>2 DEF BeginLoopCorrection, SearchInv
  <2>3. CASE ~BeginLoopCorrection
    BY <1>0, <1>2, <2>1, <2>3, OtherFrame, RewriteInCorrection DEF SearchInv
  <2> QED
    BY <2>2, <2>3
<1> QED
  BY <1>1, <1>2

\* The queue never exceeds its capacity and a correction keeps it empty.
LEMMA QueueStep ==
  ASSUME IInv, [Next]_vars
  PROVE  QueueDisciplined'
<1> USE DEF QueueDisciplined
<1>0. /\ QueueDisciplined
      /\ queue \in Seq(Candidates) /\ Len(queue) \in Nat /\ inProgress \in BOOLEAN
      /\ search.batch \in Nat /\ Capacity \in Nat
  BY CapacityAssumption, LenProperties DEF IInv, TypeOK, SearchLocals
<1>1. CASE EnqueueCandidates
  <2>1. inProgress' = inProgress
    BY <1>1 DEF EnqueueCandidates
  <2>2. CASE EnqueueResult = "kEnqueued"
    <3> DEFINE batch == [i \in 1 .. search.batch |->
                           Candidate(search.query, search.source, search.epoch)]
    <3>1. ~inProgress /\ search.batch <= Capacity - Len(queue)
      BY <1>0, <2>2 DEF EnqueueResult, SearchBlocked
    <3>2. queue' = queue \o batch
      BY <1>1, <2>2 DEF EnqueueCandidates
    <3>3. queue \in Seq(Candidates \cup {batch[i] : i \in 1 .. search.batch})
      BY <1>0, SeqMonotonic
    <3>4. /\ batch \in Seq(Candidates \cup {batch[i] : i \in 1 .. search.batch})
          /\ Len(batch) = search.batch
      BY <1>0, FunctionIsSeq
    <3> HIDE DEF batch
    <3>5. Len(queue') = Len(queue) + search.batch
      BY <3>2, <3>3, <3>4, ConcatProperties
    <3> QED
      BY <1>0, <2>1, <3>1, <3>5
  <2>3. CASE EnqueueResult # "kEnqueued"
    BY <1>0, <1>1, <2>1, <2>3 DEF EnqueueCandidates
  <2> QED
    BY <2>2, <2>3
<1>2. CASE ~EnqueueCandidates /\ (SearchStep \/ \E s \in Sources : StartSearch(s))
  <2>1. queue' = queue
    BY <1>2
    DEF SearchStep, StartSearch, ReadHasAccepted, AbandonSearch, ClaimQuery, FetchCandidates, SettleSearch, queueVars
  <2> QED
    BY <1>0, <1>2, <2>1, SearchFrame
<1>3. CASE PopCandidate
  <2>1. queue' = Tail(queue) /\ queue # <<>> /\ inProgress' = inProgress
    BY <1>3 DEF PopCandidate
  <2>2. Len(queue') = Len(queue) - 1
    BY <1>0, <2>1, HeadTailProperties
  <2> QED
    BY <1>0, <2>1, <2>2
<1>4. CASE BeginLoopCorrection
  BY <1>0, <1>4, EmptySeq DEF BeginLoopCorrection
<1>5. CASE ~(SearchStep \/ \E s \in Sources : StartSearch(s)) /\ ~PopCandidate /\ ~BeginLoopCorrection
  BY <1>0, <1>5, OtherFrame
<1> QED
  BY <1>1, <1>2, <1>3, <1>4, <1>5 DEF SearchStep

\* A batch enters the queue only on the trajectory it was fetched on.
LEMMA CandidatesStep ==
  ASSUME IInv, [Next]_vars
  PROVE  CandidatesOnCurrentTrajectory'
<1> USE DEF CandidatesOnCurrentTrajectory
<1>0. /\ CandidatesOnCurrentTrajectory
      /\ queue \in Seq(Candidates) /\ Len(queue) \in Nat /\ DOMAIN queue = 1 .. Len(queue)
      /\ search.batch \in Nat
      /\ TrajectoryEpoch' = IF Rewritten THEN isam.epoch ELSE TrajectoryEpoch
  BY KeyframesStep, LenProperties DEF IInv, TypeOK, SearchLocals
<1>1. CASE EnqueueCandidates
  <2>1. /\ TrajectoryEpoch' = TrajectoryEpoch /\ reg' = reg
        /\ pc'["registration"] = pc["registration"]
    BY <1>0, <1>1, SearchFrame DEF SearchStep
  <2>2. CASE EnqueueResult = "kEnqueued"
    <3> DEFINE new == Candidate(search.query, search.source, search.epoch)
               batch == [i \in 1 .. search.batch |-> new]
               S == Candidates \cup {new}
    <3>1. search.epoch = TrajectoryEpoch
      BY <1>1, <2>2 DEF EnqueueResult, EnqueueCandidates, IInv, SearchInv
    <3>2. queue' = queue \o batch
      BY <1>1, <2>2 DEF EnqueueCandidates
    <3>3. queue \in Seq(S)
      BY <1>0, SeqMonotonic
    <3>4. batch \in Seq(S) /\ Len(batch) = search.batch /\ \A i \in 1 .. search.batch : batch[i] = new
      BY <1>0, FunctionIsSeq
    <3>5. new.epoch = TrajectoryEpoch
      BY <3>1 DEF Candidate
    <3> HIDE DEF batch, new, S
    <3>6. /\ DOMAIN queue' = 1 .. Len(queue) + search.batch
          /\ \A i \in 1 .. Len(queue) + search.batch :
               queue'[i] = IF i <= Len(queue) THEN queue[i] ELSE batch[i - Len(queue)]
      <4>1. queue' \in Seq(S) /\ Len(queue') = Len(queue) + search.batch
        <5>1. queue \o batch \in Seq(S) /\ Len(queue \o batch) = Len(queue) + Len(batch)
          BY <3>3, <3>4, ConcatProperties
        <5> QED
          BY <3>2, <3>4, <5>1
      <4>2. DOMAIN queue' = 1 .. Len(queue')
        BY <4>1, LenProperties
      <4> QED
        BY <3>2, <3>3, <3>4, <4>1, <4>2, ConcatProperties
    <3>7. ASSUME NEW i \in DOMAIN queue' PROVE queue'[i].epoch = TrajectoryEpoch
      <4>1. CASE i <= Len(queue)
        BY <1>0, <3>6, <3>7, <4>1
      <4>2. CASE ~(i <= Len(queue))
        <5>1. i - Len(queue) \in 1 .. search.batch
          BY <1>0, <3>6, <3>7, <4>2
        <5> QED
          BY <3>4, <3>5, <3>6, <3>7, <4>2, <5>1
      <4> QED
        BY <4>1, <4>2
    <3> QED
      BY <1>0, <2>1, <3>7
  <2>3. CASE EnqueueResult # "kEnqueued"
    BY <1>0, <1>1, <2>1, <2>3 DEF EnqueueCandidates
  <2> QED
    BY <2>2, <2>3
<1>2. CASE ~EnqueueCandidates /\ (SearchStep \/ \E s \in Sources : StartSearch(s))
  <2>1. queue' = queue
    BY <1>2
    DEF SearchStep, StartSearch, ReadHasAccepted, AbandonSearch, ClaimQuery, FetchCandidates, SettleSearch, queueVars
  <2> QED
    BY <1>0, <1>2, <2>1, SearchFrame
<1>3. CASE PopCandidate
  <2>0. ~Rewritten
    BY <1>3 DEF PopCandidate, Rewritten, Goto, IInv, TypeOK, Threads
  <2>1. /\ queue' = Tail(queue) /\ queue # <<>>
        /\ reg'.epoch = Head(queue).epoch
    BY <1>3 DEF PopCandidate, IdleReg
  <2>2. /\ queue' \in Seq(Candidates) /\ Len(queue') = Len(queue) - 1
        /\ \A i \in 1 .. Len(queue') : queue'[i] = queue[i + 1]
    BY <1>0, <2>1, HeadTailProperties
  <2>3. DOMAIN queue' = 1 .. Len(queue') /\ Head(queue) = queue[1] /\ 1 \in DOMAIN queue
    BY <1>0, <2>1, <2>2, LenProperties, EmptySeq
  <2> QED
    BY <1>0, <2>0, <2>1, <2>2, <2>3
<1>4. CASE BeginLoopCorrection
  <2>1. queue' = <<>> /\ pc'["registration"] = "reset"
    BY <1>4 DEF BeginLoopCorrection, Goto, IInv, TypeOK, Threads
  <2> QED
    BY <2>1
<1>5. CASE ~(SearchStep \/ \E s \in Sources : StartSearch(s)) /\ ~PopCandidate /\ ~BeginLoopCorrection
  <2>1. queue' = queue
    BY <1>5, OtherFrame
  <2>2. pc'["registration"] \in {"align", "begin"} =>
           reg' = reg /\ pc["registration"] \in {"align", "begin"}
    <3>1. CASE RegistrationStep
      BY <1>5, <3>1
      DEF RegistrationStep, RejectLoop, AcceptLoop, ResetSearches, AddLoopFactor,
          StartLoopSearchCooldown, Goto, IInv, TypeOK, Threads
    <3>2. CASE ~RegistrationStep
      BY <1>5, <3>2, OtherFrame
    <3> QED
      BY <3>1, <3>2
  <2>3. CASE Rewritten
    BY <1>0, <2>1, <2>2, <2>3, RewriteInCorrection DEF IInv, QueueDisciplined
  <2>4. CASE ~Rewritten
    BY <1>0, <2>1, <2>2, <2>4
  <2> QED
    BY <2>3, <2>4
<1> QED
  BY <1>1, <1>2, <1>3, <1>4, <1>5 DEF SearchStep

\* Only the source of the search in flight can start to wait for queue room.
LEMMA OneWaitingStep ==
  ASSUME IInv, [Next]_vars
  PROVE  OneWaitingSearch'
<1> USE DEF OneWaitingSearch, Sources, Detector, NNSearch, Other
<1>0. OneWaitingSearch /\ pending \in [Sources -> Keys] /\ search.source \in Sources
  BY DEF IInv, TypeOK, SearchLocals
<1>1. CASE SettleSearch
  <2>1. pending[Other(search.source)] = NoKey
    BY <1>1 DEF SettleSearch, IInv, QueryInv
  <2> QED
    BY <1>0, <1>1, <2>1 DEF SettleSearch
<1>2. CASE ResetSearches
  BY <1>2 DEF ResetSearches
<1>3. CASE ~SettleSearch /\ (SearchStep \/ \E s \in Sources : StartSearch(s))
  BY <1>0, <1>3
  DEF SearchStep, StartSearch, ReadHasAccepted, AbandonSearch, ClaimQuery, FetchCandidates, EnqueueCandidates
<1>4. CASE ~(SearchStep \/ \E s \in Sources : StartSearch(s)) /\ ~ResetSearches
  BY <1>0, <1>4, OtherFrame
<1> QED
  BY <1>1, <1>2, <1>3, <1>4 DEF SearchStep

\* Queries stay keyframes, because keyframes are never removed.
LEMMA QueryStep ==
  ASSUME IInv, [Next]_vars
  PROVE  QueryInv'
<1> USE DEF QueryInv
<1>0. /\ QueryInv /\ OneWaitingSearch
      /\ pending \in [Sources -> Keys] /\ search.source \in Sources
      /\ pc \in [Threads -> CallbackLabels \cup SearchLabels \cup RegistrationLabels]
      /\ Len(keyframes) \in Nat /\ Len(keyframes') \in Nat
      /\ Len(keyframes') >= Len(keyframes)
      /\ keyframes # <<>> => Len(keyframes) > 0
  BY KeyframesStep, LenProperties, EmptySeq DEF IInv, TypeOK, SearchLocals
<1>a. \A k \in Keys : k \in Int /\ (k # NoKey => k \in Nat)
  BY DEF Keys, NoKey
<1>1. CASE SearchStep \/ \E s \in Sources : StartSearch(s)
  <2>0. reg' = reg /\ pc'["registration"] = pc["registration"]
    BY <1>1, SearchFrame
  <2> USE DEF Goto, Threads
  <2>1. CASE (\E s \in Sources : StartSearch(s)) \/ ReadHasAccepted \/ AbandonSearch
    <3>1. pc'["search"] \in {"idle", "accepted", "claim"} /\ pending' = pending
      BY <1>0, <2>1 DEF StartSearch, ReadHasAccepted, AbandonSearch
    <3> QED
      BY <1>0, <1>a, <2>0, <3>1
  <2>2. ASSUME NEW s \in Sources, ClaimQuery(s)
        PROVE  QueryInv'
    <3>1. /\ pending' = pending /\ s = search.source
          /\ search'.source = s /\ search'.query = QueryOf(s)
          /\ keyframes # <<>>
      BY ZenonT(30), <2>2 DEF ClaimQuery, MayClaim, IInv, TypeOK, SearchLocals
    <3>2. pending[Other(s)] = NoKey
      <4>1. CASE pending[s] # NoKey
        BY <1>0, <4>1 DEF OneWaitingSearch, Other, Sources, Detector, NNSearch
      <4>2. CASE pending[s] = NoKey
        BY <2>2, <4>2 DEF ClaimQuery, MayClaim
      <4> QED
        BY <4>1, <4>2
    <3>3. QueryOf(s) \in 0 .. Len(keyframes) - 1
      BY <1>0, <1>a, <3>1 DEF QueryOf
    <3> QED
      BY <1>0, <1>a, <2>0, <3>1, <3>2, <3>3
  <2>3. CASE FetchCandidates \/ EnqueueCandidates
    <3>1. /\ pending' = pending /\ search'.source = search.source /\ search'.query = search.query
          /\ pc["search"] \in {"fetch", "enqueue"}
      BY <2>3 DEF FetchCandidates, EnqueueCandidates, IInv, TypeOK, SearchLocals
    <3> QED
      BY <1>0, <1>a, <2>0, <3>1
  <2>4. CASE SettleSearch
    <3>1. /\ pc["search"] = "settle" /\ pc'["search"] = "idle"
          /\ \A s \in Sources : pending'[s] \in {pending[s], search.query, NoKey}
      BY <1>0, <2>4 DEF SettleSearch
    <3> QED
      BY <1>0, <1>a, <2>0, <3>1 DEF NoKey
  <2> QED
    BY <1>1, <2>1, <2>2, <2>3, <2>4 DEF SearchStep
<1>2. CASE ~(SearchStep \/ \E s \in Sources : StartSearch(s))
  <2>1. UNCHANGED search /\ pc'["search"] = pc["search"]
    BY <1>2, OtherFrame
  <2>2. /\ \A s \in Sources : pending'[s] \in {pending[s], NoKey}
        /\ \A s \in Sources : pending[s] = NoKey => pending'[s] = NoKey
    BY <1>0, <1>2, OtherFrame DEF ResetSearches
  <2>3. pc'["registration"] # "idle" => reg'.query \in Nat
    <3>1. CASE PopCandidate
      <4>1. queue \in Seq(Candidates) /\ queue # <<>> /\ reg'.query = Head(queue).query
        BY <3>1 DEF PopCandidate, IdleReg, IInv, TypeOK
      <4>2. Head(queue) \in Candidates
        BY <4>1, HeadTailProperties
      <4> QED
        BY <4>1, <4>2 DEF Candidates
    <3>2. CASE RegistrationStep /\ ~PopCandidate
      BY <1>0, <3>2
      DEF RegLocals, RegistrationStep, RejectLoop, AcceptLoop, BeginLoopCorrection, ResetSearches,
          AddLoopFactor, StartLoopSearchCooldown, Goto, Threads, IInv, TypeOK
    <3>3. CASE ~RegistrationStep
      BY <1>0, <1>2, <3>3, OtherFrame
      DEF Next, CallbackStep, ReceiveFrame, PushFirstKeyframe, AddPriorFactor, SkipFrame,
          AddKeyframe, ApplyStep, OptimizeGraph, RewriteKeyframes, AfterApply, CooldownExpires,
          vars, Goto, Threads
    <3> QED
      BY <3>1, <3>2, <3>3
  <2>4. Other(search.source) \in Sources
    BY <1>0 DEF Other, Sources, Detector, NNSearch
  <2>5. \A s \in Sources : pending'[s] < Len(keyframes')
    BY <1>0, <1>a, <2>2 DEF NoKey
  <2> QED
    BY <1>0, <2>1, <2>2, <2>3, <2>4, <2>5
<1> QED
  BY <1>1, <1>2

\* An idle registration has no query, and an idle search nothing at all.
LEMMA IdleTypes ==
  /\ IdleReg \in RegLocals
  /\ IdleSearch \in SearchLocals
BY DEF IdleReg, IdleSearch, Keys, NoKey, Sources, Results, SearchLocals, RegLocals

\* A search step keeps the types of what it writes.
LEMMA SearchTypeStep ==
  ASSUME IInv, SearchStep \/ \E s \in Sources : StartSearch(s)
  PROVE  /\ search' \in SearchLocals
         /\ queue' \in Seq(Candidates)
         /\ pending' \in [Sources -> Keys]
         /\ pc'["search"] \in SearchLabels
<1> DEFINE S == SearchLocals
<1>0. /\ search \in S /\ queue \in Seq(Candidates) /\ pending \in [Sources -> Keys]
      /\ pc \in [Threads -> CallbackLabels \cup SearchLabels \cup RegistrationLabels]
      /\ generation \in Nat /\ hasAccepted \in BOOLEAN /\ TrajectoryEpoch \in Nat
  BY TrajectoryIsNat DEF IInv, TypeOK
<1>1. \A s \in Sources, q \in Keys : Batches(s, q) \subseteq Nat
  <2> TAKE s \in Sources, q \in Keys
  <2>1. CASE s = Detector
    BY <2>1, DetectorAssumption DEF Batches
  <2>2. CASE s # Detector
    <3>1. (IF search.accepted THEN 1 ELSE MaxCandidates) \in Nat
      BY CandidatesAssumption
    <3> QED
      BY <2>2, <3>1 DEF Batches
  <2> QED
    BY <2>1, <2>2
<1> USE DEF Goto, Threads, SearchLabels, queueVars
<1>2. ASSUME NEW s \in Sources, StartSearch(s)
      PROVE  search' \in S /\ UNCHANGED <<queue, pending>> /\ pc'["search"] \in SearchLabels
  BY <1>0, <1>2, IdleTypes DEF StartSearch, SearchLocals
<1>3. CASE AbandonSearch
  BY <1>0, <1>3, IdleTypes DEF AbandonSearch
<1>3a. CASE ReadHasAccepted
  BY <1>0, <1>3a DEF ReadHasAccepted, SearchLocals
<1>4. ASSUME NEW s \in Sources, ClaimQuery(s)
      PROVE  search' \in S /\ UNCHANGED <<queue, pending>> /\ pc'["search"] \in SearchLabels
  <2>1. QueryOf(s) \in Keys
    <3>1. Len(keyframes) \in Nat
      BY LenProperties DEF IInv, TypeOK
    <3> QED
      BY <1>0, <3>1 DEF QueryOf, Keys, NoKey
  <2>2. \A n \in Batches(s, QueryOf(s)) : n \in Nat
    BY <1>1, <2>1
  <2> QED
    <3>1. UNCHANGED <<queue, pending>> /\ pc["search"] = "claim"
      BY <1>4 DEF ClaimQuery
    <3>2. CASE s = Detector
      <4>1. PICK n \in Batches(s, QueryOf(s)) :
              /\ search' = [search EXCEPT !.query = QueryOf(s), !.batch = n, !.epoch = TrajectoryEpoch]
              /\ pc' = [pc EXCEPT !["search"] = "enqueue"]
        BY <1>4, <3>2 DEF ClaimQuery
      <4>2. n \in Nat
        BY <2>2
      <4> QED
        BY <1>0, <2>1, <3>1, <4>1, <4>2 DEF SearchLocals
    <3>3. CASE s # Detector
      BY SMTT(20), <1>0, <1>4, <2>1, <3>1, <3>3 DEF ClaimQuery, SearchLocals
    <3> QED
      BY <3>2, <3>3
<1>5. CASE FetchCandidates
  <2>1. \A n \in Batches(NNSearch, search.query) : n \in Nat
    BY <1>0, <1>1 DEF Sources, SearchLocals
  <2> QED
    BY <1>0, <1>5, <2>1 DEF FetchCandidates, SearchLocals
<1>6. CASE EnqueueCandidates
  <2>1. Candidate(search.query, search.source, search.epoch) \in Candidates
    BY <1>0, <1>6 DEF EnqueueCandidates, IInv, QueryInv, Candidate, Candidates, SearchLocals
  <2>2. [i \in 1 .. search.batch |-> Candidate(search.query, search.source, search.epoch)]
           \in Seq(Candidates)
    BY <1>0, <2>1, FunctionIsSeq DEF SearchLocals
  <2>3. queue' \in Seq(Candidates)
    BY <1>0, <1>6, <2>2, ConcatProperties DEF EnqueueCandidates
  <2>4. EnqueueResult \in Results
    BY DEF EnqueueResult, Results
  <2>5. search' \in S
    BY <1>0, <1>6, <2>4 DEF EnqueueCandidates, SearchLocals
  <2> QED
    BY <1>0, <1>6, <2>3, <2>5 DEF EnqueueCandidates
<1>7. CASE SettleSearch
  BY <1>0, <1>7, IdleTypes DEF SettleSearch, Keys, SearchLocals
<1> QED
  BY <1>0, <1>2, <1>3, <1>3a, <1>4, <1>5, <1>6, <1>7 DEF SearchStep

\* Every step keeps the types.
LEMMA TypeStep ==
  ASSUME IInv, [Next]_vars
  PROVE  TypeOK'
<1> USE DEF TypeOK, Threads, Goto, NoOwner, NoKey, Keys, graphVars, realtimeVars, queueVars, frameVars, CallbackLabels, SearchLabels, RegistrationLabels
<1>0. TypeOK /\ keyframes' \in Seq(Keyframe)
  BY KeyframesStep DEF IInv
<1>1. CASE ReceiveFrame
  BY <1>1, <1>0 DEF ReceiveFrame, KeyPose
<1>2. CASE PushFirstKeyframe
  BY <1>2, <1>0 DEF PushFirstKeyframe
<1>3. CASE AddPriorFactor
  <2>1. graph' \in SUBSET Factor
    BY <1>3, <1>0 DEF AddPriorFactor, Factor
  <2>2. initEsti' \in Seq(Nat)
    BY <1>3, <1>0, AppendProperties DEF AddPriorFactor
  <2>3. latestKeyframeIdx' \in Nat
    BY <1>3, <1>0 DEF AddPriorFactor, NextKeyframeIdx
  <2>4. current' \in KeyPose
    BY <1>3, <1>0 DEF AddPriorFactor
  <2>5. /\ UNCHANGED <<isam, loopClosureAdded, graphOwner, search, reg, pending, realtimeVars, queueVars>>
        /\ isInitialized' \in BOOLEAN /\ pendingKeyframe' \in BOOLEAN
    BY <1>3, <1>0 DEF AddPriorFactor
  <2>6. pc' = [pc EXCEPT !["callback"] = "idle"]
    BY <1>3 DEF AddPriorFactor
  <2> QED
    BY <1>0, <2>1, <2>2, <2>3, <2>4, <2>5, <2>6
<1>4. CASE SkipFrame
  BY <1>4, <1>0 DEF SkipFrame
<1>5. CASE AddKeyframe
  <2>1. graph' \in SUBSET Factor
    BY <1>5, <1>0 DEF AddKeyframe, Factor
  <2>2. initEsti' \in Seq(Nat)
    BY <1>5, <1>0, AppendProperties DEF AddKeyframe
  <2>3. latestKeyframeIdx' \in Nat
    BY <1>5, <1>0 DEF AddKeyframe, NextKeyframeIdx
  <2>4. current' \in KeyPose
    BY <1>5, <1>0 DEF AddKeyframe, KeyPose
  <2>5. /\ UNCHANGED <<isam, loopClosureAdded, graphOwner, search, reg, pending, realtimeVars, queueVars>>
        /\ isInitialized' \in BOOLEAN /\ pendingKeyframe' \in BOOLEAN
    BY <1>5, <1>0 DEF AddKeyframe
  <2>6. pc' = [pc EXCEPT !["callback"] = "apply"]
    BY <1>5 DEF AddKeyframe
  <2> QED
    BY <1>0, <2>1, <2>2, <2>3, <2>4, <2>5, <2>6
<1>6. CASE SearchStep \/ \E s \in Sources : StartSearch(s)
  <2>1. /\ UNCHANGED <<graphVars, realtimeVars, frameVars, reg>>
        /\ UNCHANGED <<inProgress, generation, hasAccepted, coolingDown>>
        /\ pc' = [pc EXCEPT !["search"] = pc'["search"]]
    BY <1>6, SearchFrame
  <2>2. /\ search' \in SearchLocals
        /\ queue' \in Seq(Candidates) /\ pending' \in [Sources -> Keys]
        /\ pc'["search"] \in SearchLabels
    BY <1>6, SearchTypeStep
  <2> QED
    BY <1>0, <2>1, <2>2
<1>7. CASE PopCandidate
  <2>1. Head(queue) \in Candidates /\ Tail(queue) \in Seq(Candidates)
    BY <1>7, <1>0, HeadTailProperties DEF PopCandidate
  <2>2. reg' \in RegLocals
    BY <1>7, <2>1, IdleTypes DEF PopCandidate, Candidates, RegLocals
  <2>3. /\ queue' = Tail(queue) /\ pc' = [pc EXCEPT !["registration"] = "align"]
        /\ UNCHANGED <<keyframes, pending, search, inProgress, generation, hasAccepted,
                       coolingDown, graphVars, realtimeVars, frameVars>>
    BY <1>7 DEF PopCandidate
  <2> QED
    BY <1>0, <2>1, <2>2, <2>3
<1>8. CASE RejectLoop
  BY <1>8, <1>0, IdleTypes DEF RejectLoop
<1>9. CASE AcceptLoop
  BY <1>9, <1>0 DEF AcceptLoop
<1>10. CASE BeginLoopCorrection
  <2>1. {<<queue[i].query, queue[i].source>> : i \in DOMAIN queue} \in SUBSET (Nat \X Sources)
    <3>1. \A i \in DOMAIN queue : queue[i] \in Candidates
      BY <1>0, LenProperties, ElementOfSeq
    <3> QED
      BY <3>1 DEF Candidates
  <2>2. reg' \in RegLocals
    BY <1>10, <1>0, <2>1 DEF BeginLoopCorrection, RegLocals
  <2>3. /\ queue' \in Seq(Candidates) /\ inProgress' = TRUE /\ generation' \in Nat
        /\ pc' = [pc EXCEPT !["registration"] = "reset"]
        /\ UNCHANGED <<keyframes, pending, search, hasAccepted, coolingDown,
                       graphVars, realtimeVars, frameVars>>
    BY <1>10, <1>0, EmptySeq DEF BeginLoopCorrection
  <2> QED
    BY <1>0, <2>2, <2>3
<1>11. CASE ResetSearches
  BY <1>11, <1>0 DEF ResetSearches
<1>12. CASE AddLoopFactor
  <2>1. reg.query \in Nat
    BY <1>12 DEF AddLoopFactor, IInv, QueryInv
  <2>2. graph' \in SUBSET Factor
    BY <1>12, <1>0, <2>1 DEF AddLoopFactor, Factor
  <2>3. /\ loopClosureAdded' = TRUE /\ pc' = [pc EXCEPT !["registration"] = "apply"]
        /\ UNCHANGED <<keyframes, pending, search, reg, initEsti, isam, pendingKeyframe,
                       graphOwner, realtimeVars, queueVars, frameVars>>
    BY <1>12 DEF AddLoopFactor
  <2> QED
    BY <1>0, <2>2, <2>3
<1>13. CASE StartLoopSearchCooldown
  <2>1. /\ hasAccepted' = TRUE /\ inProgress' = FALSE /\ coolingDown' = TRUE /\ reg' = IdleReg
        /\ pc' = [pc EXCEPT !["registration"] = "idle"]
        /\ UNCHANGED <<keyframes, pending, search, queue, generation,
                       graphVars, realtimeVars, frameVars>>
    BY <1>13 DEF StartLoopSearchCooldown
  <2> QED
    BY ZenonT(30), <1>0, <2>1, IdleTypes
<1>14. ASSUME NEW t \in {"callback", "registration"}, OptimizeGraph(t)
      PROVE  TypeOK'
  <2> DEFINE keys  == isam.keys \o initEsti
             loops == IF \E f \in graph : f.kind = "loop" THEN 1 ELSE 0
  <2>1. keys \in Seq(Nat) /\ Len(keys) \in Nat
    BY <1>0, ConcatProperties, LenProperties DEF Estimate
  <2>2. loops \in Nat
    OBVIOUS
  <2>3. /\ isam' = [keys |-> keys, epoch |-> isam.epoch + loops]
        /\ lastCorrected' = [key |-> Len(keys) - 1, epoch |-> isam.epoch + loops]
    BY <1>14 DEF OptimizeGraph
  <2> HIDE DEF keys, loops
  <2>4. isam' \in Estimate /\ lastCorrected' \in KeyPose
    BY SMTT(20), <1>0, <2>1, <2>2, <2>3 DEF Estimate, KeyPose
  <2>5. initEsti' \in Seq(Nat) /\ graph' = {} /\ deltaSince' \in Keys
    BY <1>14, <1>0, EmptySeq DEF OptimizeGraph, DeltaAfterUpdate, KeyPose
  <2>6. /\ pendingKeyframe' = FALSE /\ loopClosureAdded' = FALSE
        /\ graphOwner' \in {t, NoOwner}
        /\ UNCHANGED <<keyframes, pending, search, reg, queueVars, frameVars>>
    BY <1>14 DEF OptimizeGraph
  <2>7. \E l \in {"rewrite", AfterApply(t)} : pc' = [pc EXCEPT ![t] = l]
    BY <1>14 DEF OptimizeGraph
  <2> QED
    <3>1. CASE t = "callback"
      BY <1>0, <2>4, <2>5, <2>6, <2>7, <3>1 DEF AfterApply
    <3>2. CASE t = "registration"
      BY ZenonT(30), <1>0, <2>4, <2>5, <2>6, <2>7, <3>2 DEF AfterApply
    <3> QED
      BY <3>1, <3>2
<1>15. ASSUME NEW t \in {"callback", "registration"}, RewriteKeyframes(t)
      PROVE  TypeOK'
  BY <1>15, <1>0 DEF RewriteKeyframes, AfterApply, InEstimate
<1>16. CASE CooldownExpires \/ UNCHANGED vars
  <2>1. CASE CooldownExpires
    <3>1. UNCHANGED <<pc, search, reg, pending, queue, inProgress, generation,
                      hasAccepted, graphVars, realtimeVars, frameVars>>
      BY <2>1 DEF CooldownExpires
    <3>2. coolingDown' \in BOOLEAN
      BY <2>1 DEF CooldownExpires
    <3> QED
      BY <1>0, <3>1, <3>2
  <2>2. CASE UNCHANGED vars
    BY <1>0, <2>2 DEF vars
  <2> QED
    BY <1>16, <2>1, <2>2
<1> QED
  BY <1>1, <1>2, <1>3, <1>4, <1>5, <1>6, <1>7, <1>8, <1>9, <1>10, <1>11, <1>12, <1>13, <1>14, <1>15, <1>16
  DEF Next, CallbackStep, RegistrationStep, ApplyStep

-----------------------------------------------------------------------------
(* The invariant holds, and what follows from it                            *)

LEMMA InitIInv == Init => IInv
<1> SUFFICES ASSUME Init PROVE IInv
  OBVIOUS
<1> USE DEF Init, NoOwner, Threads
<1>1. TypeOK
  <2>1. <<>> \in Seq(Keyframe) /\ <<>> \in Seq(Nat) /\ <<>> \in Seq(Candidates)
    BY EmptySeq
  <2>2. isam \in Estimate /\ lastCorrected \in KeyPose /\ current \in KeyPose
    BY <2>1 DEF Estimate, KeyPose, Keys, NoKey
  <2> QED
    BY <2>1, <2>2, IdleTypes
    DEF TypeOK, Keys, NoKey, CallbackLabels, SearchLabels, RegistrationLabels
<1>2. LockInv /\ StartInv /\ EpochInv
  BY DEF LockInv, StartInv, EpochInv, TrajectoryEpoch
<1>3. SearchInv /\ QueryInv
  BY EmptySeq DEF SearchInv, QueryInv, Sources, NoKey
<1>4. CandidatesOnCurrentTrajectory /\ QueueDisciplined /\ OneWaitingSearch
  BY CapacityAssumption, EmptySeq
  DEF CandidatesOnCurrentTrajectory, QueueDisciplined, OneWaitingSearch, Sources
<1> QED
  BY <1>1, <1>2, <1>3, <1>4 DEF IInv

LEMMA NextIInv == IInv /\ [Next]_vars => IInv'
BY TypeStep, LockStep, StartStep, EpochStep, SearchInvStep, QueryStep, CandidatesStep,
   QueueStep, OneWaitingStep DEF IInv

\* The inductive invariant holds of every behaviour of the back end.
THEOREM Invariance == Spec => []IInv
BY InitIInv, NextIInv, PTL DEF Spec

\* Type correctness: the three callback groups keep the back end's state typed.
THEOREM TypeCorrect == Spec => []TypeOK
<1>1. IInv => TypeOK
  BY DEF IInv
<1> QED
  BY <1>1, Invariance, PTL

\* However the searches, the odometry callback and a correction interleave, no
\* loop candidate waits or is registered that was chosen on a trajectory a
\* correction has replaced (loop_correction_generation_, takeAll).
THEOREM CandidatesAreCurrent == Spec => []CandidatesOnCurrentTrajectory
<1>1. IInv => CandidatesOnCurrentTrajectory
  BY DEF IInv
<1> QED
  BY <1>1, Invariance, PTL

\* LoopCandidateQueue never exceeds its capacity and stays empty while a loop
\* correction is in progress.
THEOREM QueueIsDisciplined == Spec => []QueueDisciplined
<1>1. IInv => QueueDisciplined
  BY DEF IInv
<1> QED
  BY <1>1, Invariance, PTL

\* The two loop searches never both wait for queue room.
THEOREM OneSearchWaits == Spec => []OneWaitingSearch
<1>1. IInv => OneWaitingSearch
  BY DEF IInv
<1> QED
  BY <1>1, Invariance, PTL

\* Whichever thread runs iSAM2 on the loop factor, once the correction is over
\* the estimate, the real-time pose and keyframes_ have absorbed every
\* accepted loop.
THEOREM CorrectionsComplete == Spec => []CorrectionComplete
<1>1. IInv => CorrectionComplete
  <2> SUFFICES ASSUME IInv, ~inProgress PROVE CorrectionComplete
    BY DEF CorrectionComplete
  <2>1. pc["registration"] \in {"idle", "align", "begin"}
    BY DEF IInv, TypeOK, RegistrationLabels, EpochInv
  <2>2. ~loopClosureAdded /\ generation = isam.epoch /\ lastCorrected.epoch = generation
    BY <2>1 DEF IInv, TypeOK, Estimate, EpochInv
  <2>3. ~\E t \in Threads : pc[t] = "rewrite"
    BY <2>1 DEF IInv, TypeOK, SearchLabels, Threads, LockInv
  <2>4. TrajectoryEpoch = generation
    BY <2>2, <2>3, TrajectoryIsNat DEF IInv, TypeOK, EpochInv
  <2> QED
    BY <2>2, <2>4 DEF CorrectionComplete
<1> QED
  BY <1>1, Invariance, PTL

-----------------------------------------------------------------------------
(***************************************************************************)
(* The keys of keyframes, graph and estimate stay in step, for every       *)
(* capacity, detector and number of keyframes and corrections: what makes  *)
(* a correction reach every keyframe and the accumulated odometry start    *)
(* where the corrected pose is.                                            *)
(***************************************************************************)

(***************************************************************************)
(* iSAM2 and the pending estimates together know the keys 0, 1, ... of the *)
(* keyframes, of which the first is pushed before its prior factor is.     *)
(***************************************************************************)
Known == Len(isam.keys) + Len(initEsti)

KeyInv ==
    /\ \A i \in 1 .. Len(isam.keys) : isam.keys[i] = i - 1
    /\ \A i \in 1 .. Len(initEsti) : initEsti[i] = Len(isam.keys) + i - 1
    /\ latestKeyframeIdx = Known
    /\ pc["callback"] # "prior" => Known = Len(keyframes)
    /\ pc["callback"] = "prior" => Known = 0 /\ Len(keyframes) = 1
    /\ \A f \in graph : f.key < Known
    /\ \A t \in Threads : pc[t] = "rewrite" => initEsti = <<>>

(***************************************************************************)
(* A loop has a query with something before it, so a registration needs    *)
(* two keyframes.                                                          *)
(***************************************************************************)
LoopInv ==
    /\ pc["search"] = "enqueue" /\ search.batch > 0 => search.query >= 1
    /\ \A i \in 1 .. Len(queue) : queue[i].query \in 1 .. Len(keyframes) - 1
    /\ pc["registration"] # "idle" => reg.query \in 1 .. Len(keyframes) - 1

(***************************************************************************)
(* With two keyframes an estimate waits for iSAM2 only while the callback  *)
(* that added its keyframe waits for graph_mutex_.                         *)
(***************************************************************************)
DeltaInv ==
    /\ deltaSince = Len(isam.keys) - 1
    /\ lastCorrected.key = Len(isam.keys) - 1
    /\ pendingKeyframe => pc["callback"] = "apply" /\ current.key = Known - 1
    /\ ~pendingKeyframe => initEsti = <<>> \/ Len(keyframes) <= 1
    /\ pc["callback"] \in {"apply", "rewrite"} => Len(keyframes) >= 2

(***************************************************************************)
(* Only callbackNode adds keyframes, one at a time.                        *)
(***************************************************************************)
LEMMA LengthStep ==
    ASSUME IInv, [Next]_vars
    PROVE  /\ PushFirstKeyframe => keyframes = <<>> /\ Len(keyframes') = 1
           /\ AddKeyframe => keyframes # <<>> /\ Len(keyframes') = Len(keyframes) + 1
           /\ ~ (PushFirstKeyframe \/ AddKeyframe) => Len(keyframes') = Len(keyframes)
<1>1. /\ keyframes \in Seq(Keyframe) /\ Len(keyframes) \in Nat
      /\ DOMAIN keyframes = 1 .. Len(keyframes)
      /\ keyframes' \in Seq(Keyframe) /\ Len(keyframes') \in Nat
      /\ DOMAIN keyframes' = 1 .. Len(keyframes')
  BY KeyframesStep, LenProperties DEF IInv, TypeOK
<1>2. ASSUME DOMAIN keyframes' = DOMAIN keyframes PROVE Len(keyframes') = Len(keyframes)
  <2>1. \A m, n \in Nat : 1 .. m = 1 .. n => m = n
    OBVIOUS
  <2> QED
    BY <1>1, <1>2, <2>1
<1>3. NewKeyframe \in Keyframe
  BY DEF NewKeyframe, Keyframe, IInv, TypeOK, KeyPose
<1>4. CASE PushFirstKeyframe
  <2>1. keyframes = <<>> /\ pc["callback"] = "first"
    BY <1>4 DEF PushFirstKeyframe, IInv, StartInv, TypeOK
  <2> QED
    BY <1>1, <1>3, <1>4, <2>1, AppendProperties DEF PushFirstKeyframe, AddKeyframe
<1>5. CASE AddKeyframe
  <2>1. keyframes # <<>> /\ pc["callback"] = "select"
    BY <1>5 DEF AddKeyframe, IInv, StartInv
  <2> QED
    BY <1>1, <1>3, <1>5, <2>1, AppendProperties DEF PushFirstKeyframe, AddKeyframe
<1>6. CASE ~ (PushFirstKeyframe \/ AddKeyframe)
  <2>1. CASE keyframes' = keyframes
    BY <2>1, <1>6
  <2>2. CASE keyframes' # keyframes
    <3>1. \/ \E s \in Sources : ClaimQuery(s)
          \/ SettleSearch \/ ResetSearches
          \/ \E t \in {"callback", "registration"} : RewriteKeyframes(t)
      BY <1>6, <2>2 DEF Next, vars, CallbackStep, SearchStep, RegistrationStep, ApplyStep,
           ReceiveFrame, AddPriorFactor, SkipFrame, StartSearch, ReadHasAccepted, AbandonSearch,
           FetchCandidates, EnqueueCandidates, PopCandidate, RejectLoop, AcceptLoop,
           BeginLoopCorrection, AddLoopFactor, StartLoopSearchCooldown, OptimizeGraph,
           CooldownExpires
    <3>2. DOMAIN keyframes' = DOMAIN keyframes
      BY <3>1 DEF ClaimQuery, SettleSearch, ResetSearches, RewriteKeyframes
    <3> QED
      BY <1>2, <1>6, <3>2
  <2> QED
    BY <2>1, <2>2
<1> QED
  BY <1>4, <1>5, <1>6

LEMMA KeyTypes ==
    ASSUME IInv
    PROVE  /\ isam.keys \in Seq(Nat) /\ initEsti \in Seq(Nat)
           /\ Len(isam.keys) \in Nat /\ Len(initEsti) \in Nat /\ Known \in Nat
           /\ Len(keyframes) \in Nat /\ latestKeyframeIdx \in Nat
           /\ pc \in [Threads -> CallbackLabels \cup SearchLabels \cup RegistrationLabels]
           /\ \A f \in graph : f.key \in Nat
           /\ keyframes # <<>> => Len(keyframes) >= 1
  BY LenProperties, EmptySeq DEF IInv, TypeOK, Estimate, Known, Factor

(***************************************************************************)
(* An estimate of the next key is appended to the pending ones.            *)
(***************************************************************************)
LEMMA KeyAppended ==
    ASSUME IInv, KeyInv, initEsti' = Append(initEsti, latestKeyframeIdx), isam' = isam,
           latestKeyframeIdx' = NextKeyframeIdx
    PROVE  /\ Known' = Known + 1 /\ latestKeyframeIdx' = Known'
           /\ \A i \in 1 .. Len(isam'.keys) : isam'.keys[i] = i - 1
           /\ \A i \in 1 .. Len(initEsti') : initEsti'[i] = Len(isam'.keys) + i - 1
<1>1. Len(initEsti') = Len(initEsti) + 1
  BY KeyTypes, AppendProperties
<1>2. \A i \in 1 .. Len(initEsti) : initEsti'[i] = initEsti[i]
  BY KeyTypes, AppendProperties
<1>3. initEsti'[Len(initEsti) + 1] = latestKeyframeIdx
  BY KeyTypes, AppendProperties
<1>4. Known' = Known + 1 /\ latestKeyframeIdx = Known /\ latestKeyframeIdx' = Known'
  <2>1. latestKeyframeIdx = Known /\ latestKeyframeIdx' = Known + 1
    BY DEF KeyInv, NextKeyframeIdx
  <2>2. Known' = Len(isam.keys) + Len(initEsti')
    BY DEF Known
  <2>3. Known = Len(isam.keys) + Len(initEsti) /\ Len(isam.keys) \in Nat /\ Len(initEsti) \in Nat
    BY KeyTypes DEF Known
  <2>4. \A a, b, c \in Nat : c = b + 1 => a + c = a + b + 1
    OBVIOUS
  <2>5. Len(initEsti') \in Nat
    BY <1>1, KeyTypes
  <2>6. Known' = Known + 1
    BY <1>1, <2>2, <2>3, <2>4, <2>5, Zenon
  <2> QED
    BY <2>1, <2>6
<1>5. ASSUME NEW i \in 1 .. Len(initEsti') PROVE initEsti'[i] = Len(isam'.keys) + i - 1
  <2>1. CASE i \in 1 .. Len(initEsti)
    BY <1>2, <2>1 DEF KeyInv
  <2>2. CASE i = Len(initEsti) + 1
    BY <1>3, <1>4, <2>2, KeyTypes DEF Known
  <2> QED
    BY <1>1, <1>5, <2>1, <2>2, KeyTypes
<1> QED
  BY <1>4, <1>5 DEF KeyInv

LEMMA KeyStep ==
    ASSUME IInv, KeyInv, LoopInv, [Next]_vars
    PROVE  KeyInv'
<1> USE DEF Threads, Goto
<1>0. /\ pc \in [Threads -> CallbackLabels \cup SearchLabels \cup RegistrationLabels]
      /\ pc["search"] # "rewrite"
  BY KeyTypes DEF IInv, TypeOK, SearchLabels
<1>1. CASE UNCHANGED <<graph, initEsti, isam, latestKeyframeIdx>>
           /\ pc'["callback"] # "prior" /\ pc["callback"] # "prior"
           /\ Len(keyframes') = Len(keyframes)
           /\ (\A t \in Threads : pc'[t] = "rewrite" => pc[t] = "rewrite")
  BY <1>1 DEF KeyInv, Known
<1>2. CASE UNCHANGED <<graph, initEsti, isam, latestKeyframeIdx>>
           /\ pc'["callback"] = pc["callback"]
           /\ Len(keyframes') = Len(keyframes)
           /\ (\A t \in Threads : pc'[t] = "rewrite" => pc[t] = "rewrite")
  BY <1>2 DEF KeyInv, Known
<1>3. CASE CallbackStep
  <2>1. CASE ReceiveFrame \/ SkipFrame
    <3>1. ~ (PushFirstKeyframe \/ AddKeyframe) /\ pc["callback"] # "prior"
      BY <2>1 DEF ReceiveFrame, SkipFrame, PushFirstKeyframe, AddKeyframe
    <3>2. Len(keyframes') = Len(keyframes)
      BY <3>1, LengthStep
    <3> QED
      BY <1>0, <1>1, <2>1, <3>1, <3>2 DEF ReceiveFrame, SkipFrame, graphVars, frameVars
  <2>2. CASE PushFirstKeyframe
    <3>1. keyframes = <<>> /\ Len(keyframes') = 1 /\ Len(keyframes) = 0
      BY <2>2, LengthStep
    <3>2. /\ UNCHANGED <<graph, initEsti, isam, latestKeyframeIdx>>
          /\ pc["callback"] = "first" /\ pc'["callback"] = "prior"
          /\ \A t \in Threads : pc'[t] = "rewrite" => pc[t] = "rewrite"
      BY <1>0, <2>2 DEF PushFirstKeyframe, graphVars, frameVars
    <3> QED
      BY <3>1, <3>2, KeyTypes DEF KeyInv, Known
  <2>3. CASE AddPriorFactor
    <3>1. /\ initEsti' = Append(initEsti, latestKeyframeIdx) /\ isam' = isam
          /\ latestKeyframeIdx' = NextKeyframeIdx
          /\ graph' = graph \cup {[kind |-> "prior", key |-> 0]}
          /\ pc["callback"] = "prior" /\ pc'["callback"] = "idle" /\ keyframes' = keyframes
          /\ \A t \in {"search", "registration"} : pc'[t] = pc[t]
      BY <1>0, <2>3 DEF AddPriorFactor
    <3>2. pc["registration"] = "idle" /\ pc["search"] # "rewrite"
      BY <1>0, <3>1 DEF IInv, StartInv
    <3>3. Known' = Known + 1 /\ Known = 0 /\ Len(keyframes) = 1
      BY <3>1, KeyAppended DEF KeyInv
    <3> QED
      BY <3>1, <3>2, <3>3, KeyAppended, KeyTypes DEF KeyInv
  <2>4. CASE AddKeyframe
    <3>1. /\ initEsti' = Append(initEsti, latestKeyframeIdx) /\ isam' = isam
          /\ latestKeyframeIdx' = NextKeyframeIdx
          /\ graph' = graph \cup {[kind |-> "odom", key |-> latestKeyframeIdx]}
          /\ pc["callback"] = "select" /\ pc'["callback"] = "apply" /\ graphOwner = NoOwner
          /\ \A t \in {"search", "registration"} : pc'[t] = pc[t]
      BY <1>0, <2>4 DEF AddKeyframe
    <3>2. pc["registration"] # "rewrite" /\ pc["search"] # "rewrite"
      BY <1>0, <3>1 DEF IInv, LockInv, NoOwner
    <3>3. Len(keyframes') = Len(keyframes) + 1
      BY <2>4, LengthStep
    <3>4. Known' = Known + 1 /\ Known = Len(keyframes) /\ latestKeyframeIdx = Known
      BY <3>1, KeyAppended DEF KeyInv
    <3> QED
      BY <3>1, <3>2, <3>3, <3>4, KeyAppended, KeyTypes DEF KeyInv
  <2> QED
    BY <1>3, <2>1, <2>2, <2>3, <2>4 DEF CallbackStep
<1>4. CASE SearchStep \/ \E s \in Sources : StartSearch(s)
  <2>1. /\ UNCHANGED <<graph, initEsti, isam, latestKeyframeIdx>>
        /\ \A t \in Threads : pc'[t] = "rewrite" => pc[t] = "rewrite"
        /\ pc'["callback"] = pc["callback"]
    BY <1>4, SearchFrame DEF graphVars, frameVars
  <2>2. ~ (PushFirstKeyframe \/ AddKeyframe)
    BY <1>0, <2>1 DEF PushFirstKeyframe, AddKeyframe
  <2> QED
    BY <1>2, <2>1, <2>2, LengthStep
<1>5. CASE RegistrationStep
  <2>1. /\ UNCHANGED <<initEsti, isam, latestKeyframeIdx>> /\ pc'["callback"] = pc["callback"]
        /\ \A t \in Threads : pc'[t] = "rewrite" => pc[t] = "rewrite"
    BY <1>0, <1>5 DEF RegistrationStep, PopCandidate, RejectLoop, AcceptLoop,
         BeginLoopCorrection, ResetSearches, AddLoopFactor, StartLoopSearchCooldown,
         graphVars, frameVars
  <2>2. ~ (PushFirstKeyframe \/ AddKeyframe)
    BY <1>0, <2>1 DEF PushFirstKeyframe, AddKeyframe
  <2>3. Len(keyframes') = Len(keyframes)
    BY <2>2, LengthStep
  <2>4. CASE graph' = graph
    BY <1>2, <2>1, <2>3, <2>4
  <2>5. CASE graph' # graph
    <3>1. AddLoopFactor
      BY <1>5, <2>5 DEF RegistrationStep, PopCandidate, RejectLoop, AcceptLoop,
           BeginLoopCorrection, ResetSearches, StartLoopSearchCooldown, graphVars
    <3>2. graph' = graph \cup {[kind |-> "loop", key |-> reg.query]}
          /\ pc["registration"] = "factor"
      BY <3>1 DEF AddLoopFactor
    <3>3. isInitialized /\ pc["callback"] # "prior"
      BY <3>2 DEF IInv, StartInv
    <3>4. reg.query < Known
      BY <3>2, <3>3, KeyTypes DEF LoopInv, KeyInv
    <3> QED
      <4>1. Known' = Known /\ latestKeyframeIdx = Known /\ Known = Len(keyframes)
        BY <2>1, <3>3 DEF KeyInv, Known
      <4>2. \A f \in graph' : f.key < Known
        BY <3>2, <3>4 DEF KeyInv
      <4> QED
        BY <2>1, <2>3, <3>3, <4>1, <4>2 DEF KeyInv
  <2> QED
    BY <2>4, <2>5
<1>6. ASSUME NEW t \in {"callback", "registration"}, ApplyStep(t)
      PROVE  KeyInv'
  <2>0. /\ pc["callback"] # "prior" /\ pc'["callback"] # "prior"
        /\ latestKeyframeIdx' = latestKeyframeIdx
    <3>1. isInitialized
      BY <1>6 DEF ApplyStep, OptimizeGraph, RewriteKeyframes, IInv, StartInv, LockInv
    <3> QED
      BY <1>0, <1>6, <3>1 DEF ApplyStep, OptimizeGraph, RewriteKeyframes, AfterApply,
           frameVars, IInv, StartInv
  <2>1. Len(keyframes') = Len(keyframes)
    <3>1. ~ (PushFirstKeyframe \/ AddKeyframe)
      BY <1>0, <1>6 DEF ApplyStep, OptimizeGraph, RewriteKeyframes, PushFirstKeyframe,
           AddKeyframe, AfterApply
    <3> QED
      BY <3>1, LengthStep
  <2>2. CASE OptimizeGraph(t)
    <3>1. isam'.keys = isam.keys \o initEsti /\ initEsti' = <<>> /\ graph' = {}
      BY <2>2 DEF OptimizeGraph
    <3>2. /\ Len(isam'.keys) = Known /\ Len(initEsti') = 0
          /\ \A i \in 1 .. Len(isam'.keys) : isam'.keys[i] = i - 1
      <4>1. /\ Len(isam.keys \o initEsti) = Len(isam.keys) + Len(initEsti)
            /\ \A i \in 1 .. Len(isam.keys) + Len(initEsti) : (isam.keys \o initEsti)[i] =
                 IF i <= Len(isam.keys) THEN isam.keys[i] ELSE initEsti[i - Len(isam.keys)]
        BY KeyTypes, ConcatProperties
      <4>2. \A i \in 1 .. Len(isam.keys) + Len(initEsti) : i > Len(isam.keys) =>
              initEsti[i - Len(isam.keys)] = i - 1
        <5> TAKE i \in 1 .. Len(isam.keys) + Len(initEsti)
        <5> HAVE i > Len(isam.keys)
        <5> DEFINE j == i - Len(isam.keys)
        <5>1. j \in 1 .. Len(initEsti) /\ Len(isam.keys) + j - 1 = i - 1
          BY KeyTypes
        <5> HIDE DEF j
        <5>2. initEsti[j] = i - 1
          BY <5>1 DEF KeyInv
        <5> QED
          BY <5>2 DEF j
      <4> QED
        BY <3>1, <4>1, <4>2, KeyTypes DEF KeyInv, Known
    <3>3. Known' = Known
      BY <3>2, KeyTypes DEF Known
    <3> QED
      BY <2>0, <2>1, <3>1, <3>2, <3>3, KeyTypes DEF KeyInv
  <2>3. CASE RewriteKeyframes(t)
    BY <1>0, <1>1, <1>6, <2>0, <2>1, <2>3 DEF RewriteKeyframes, AfterApply
  <2> QED
    BY <1>6, <2>2, <2>3 DEF ApplyStep
<1>7. CASE CooldownExpires \/ UNCHANGED vars
  BY <1>2, <1>7 DEF CooldownExpires, vars, graphVars, frameVars
<1> QED
  BY <1>3, <1>4, <1>5, <1>6, <1>7 DEF Next

(***************************************************************************)
(* Keyframes are never removed, so a query that was valid stays so.        *)
(***************************************************************************)
LEMMA LoopSearchStep ==
    ASSUME IInv, LoopInv, [Next]_vars
    PROVE  pc'["search"] = "enqueue" /\ search'.batch > 0 => search'.query >= 1
<1> USE DEF Threads, Goto
<1>0. /\ pc \in [Threads -> CallbackLabels \cup SearchLabels \cup RegistrationLabels]
      /\ search \in SearchLocals /\ QueryInv'
  BY KeyTypes, QueryStep DEF IInv, TypeOK
<1> SUFFICES ASSUME pc'["search"] = "enqueue", search'.batch > 0 PROVE search'.query >= 1
  OBVIOUS
<1>1. search'.query \in 0 .. Len(keyframes') - 1
  BY <1>0 DEF QueryInv
<1>2. CASE \E s \in Sources : ClaimQuery(s)
  <2>1. PICK s \in Sources : ClaimQuery(s)
    BY <1>2
  <2>2. s = Detector
    BY <1>0, <2>1 DEF ClaimQuery
  <2>3. PICK n \in Batches(s, QueryOf(s)) :
          search' = [search EXCEPT !.query = QueryOf(s), !.batch = n, !.epoch = TrajectoryEpoch]
    BY <2>1, <2>2 DEF ClaimQuery
  <2>4. search'.query = QueryOf(s) /\ search'.batch = n
    BY <1>0, <2>3 DEF SearchLocals
  <2>5. QueryOf(s) # 0
    BY <2>2, <2>3, <2>4 DEF Batches
  <2> QED
    BY <1>1, <2>4, <2>5
<1>3. CASE FetchCandidates
  <2>1. PICK n \in Batches(NNSearch, search.query) :
          search' = [search EXCEPT !.batch = n, !.epoch = TrajectoryEpoch]
    BY <1>3 DEF FetchCandidates
  <2>2. search'.query = search.query /\ search'.batch = n
    BY <1>0, <2>1 DEF SearchLocals
  <2>3. n \in Nat /\ n <= search.query
    BY <2>1, CandidatesAssumption DEF Batches, NNSearch, Detector
  <2> QED
    BY <1>1, <2>2, <2>3
<1>4. CASE (\E s \in Sources : StartSearch(s)) \/ ReadHasAccepted \/ AbandonSearch
           \/ EnqueueCandidates \/ SettleSearch
  BY <1>0, <1>4 DEF StartSearch, ReadHasAccepted, AbandonSearch, EnqueueCandidates, SettleSearch
<1>5. CASE ~ (SearchStep \/ \E s \in Sources : StartSearch(s))
  BY <1>5, OtherFrame DEF LoopInv
<1> QED
  BY <1>2, <1>3, <1>4, <1>5 DEF SearchStep

LEMMA LoopStep ==
    ASSUME IInv, LoopInv, [Next]_vars
    PROVE  LoopInv'
<1> USE DEF Threads, Goto
<1>0. /\ pc \in [Threads -> CallbackLabels \cup SearchLabels \cup RegistrationLabels]
      /\ search \in SearchLocals /\ queue \in Seq(Candidates) /\ QueryInv
      /\ Len(queue) \in Nat /\ \A i \in 1 .. Len(queue) : queue[i] \in Candidates
      /\ Len(keyframes) \in Nat /\ Len(keyframes') \in Nat /\ Len(keyframes) <= Len(keyframes')
  BY KeyTypes, KeyframesStep, LenProperties DEF IInv, TypeOK
<1>1. ASSUME NEW q \in 1 .. Len(keyframes) - 1 PROVE q \in 1 .. Len(keyframes') - 1
  BY <1>0
<1>2. \A i \in 1 .. Len(queue') : queue'[i].query \in 1 .. Len(keyframes') - 1
  <2>1. CASE queue' = queue
    BY <1>1, <2>1 DEF LoopInv
  <2>2. CASE PopCandidate
    <3>1. queue # <<>> /\ queue' = Tail(queue)
      BY <2>2 DEF PopCandidate
    <3>2. /\ Len(queue') = Len(queue) - 1
          /\ \A i \in 1 .. Len(queue') : queue'[i] = queue[i + 1]
      BY <1>0, <3>1, HeadTailProperties
    <3>3. ASSUME NEW i \in 1 .. Len(queue') PROVE queue'[i].query \in 1 .. Len(keyframes') - 1
      <4>1. i + 1 \in 1 .. Len(queue) /\ queue'[i] = queue[i + 1]
        BY <1>0, <3>2
      <4>2. \A k \in 1 .. Len(queue) : queue[k].query \in 1 .. Len(keyframes) - 1
        BY DEF LoopInv
      <4> QED
        BY <1>1, <4>1, <4>2
    <3> QED
      BY <3>3
  <2>3. CASE BeginLoopCorrection
    BY <2>3, EmptySeq DEF BeginLoopCorrection
  <2>4. CASE EnqueueCandidates
    <3>1. CASE queue' = queue
      BY <2>1, <3>1
    <3>2. CASE queue' # queue
      <4> DEFINE c == Candidate(search.query, search.source, search.epoch)
                 batch == [i \in 1 .. search.batch |-> c]
      <4>1. queue' = queue \o batch /\ pc["search"] = "enqueue"
        BY <2>4, <3>2 DEF EnqueueCandidates
      <4>2. search.batch \in Nat /\ search.query \in 0 .. Len(keyframes) - 1
        BY <1>0, <4>1 DEF SearchLocals, QueryInv
      <4>3. c \in Candidates /\ c.query = search.query
        BY <1>0, <4>2 DEF Candidate, Candidates, SearchLocals
      <4> HIDE DEF c
      <4>4. /\ batch \in Seq(Candidates) /\ Len(batch) = search.batch
            /\ \A i \in 1 .. search.batch : batch[i] = c
        BY <4>2, <4>3, FunctionIsSeq
      <4> HIDE DEF batch
      <4>5. /\ Len(queue') = Len(queue) + search.batch
            /\ \A i \in 1 .. Len(queue) + search.batch : queue'[i] =
                 IF i <= Len(queue) THEN queue[i] ELSE batch[i - Len(queue)]
        <5>1. /\ Len(queue \o batch) = Len(queue) + Len(batch)
              /\ \A i \in 1 .. Len(queue) + Len(batch) : (queue \o batch)[i] =
                   IF i <= Len(queue) THEN queue[i] ELSE batch[i - Len(queue)]
          BY ZenonT(30), <1>0, <4>4, ConcatProperties
        <5> QED
          BY <4>1, <4>4, <5>1
      <4>6. ASSUME NEW i \in 1 .. Len(queue')
            PROVE  queue'[i].query \in 1 .. Len(keyframes') - 1
        <5>1. CASE i <= Len(queue)
          <6>1. i \in 1 .. Len(queue) /\ queue'[i] = queue[i]
            BY <1>0, <4>2, <4>5, <4>6, <5>1
          <6> QED
            BY <1>1, <6>1 DEF LoopInv
        <5>2. CASE i > Len(queue)
          <6>1. i - Len(queue) \in 1 .. search.batch /\ queue'[i] = batch[i - Len(queue)]
            BY SMTT(20), <1>0, <4>2, <4>5, <4>6, <5>2
          <6>2. search.batch > 0 /\ queue'[i].query = search.query
            BY <4>2, <4>3, <4>4, <6>1
          <6>3. search.query \in 1 .. Len(keyframes) - 1
            BY <1>0, <4>1, <4>2, <6>2 DEF LoopInv
          <6> QED
            BY <1>1, <6>2, <6>3
        <5> QED
          BY <1>0, <4>2, <4>5, <4>6, <5>1, <5>2
      <4> QED
        BY <4>6
    <3> QED
      BY <3>1, <3>2
  <2>5. queue' = queue \/ PopCandidate \/ BeginLoopCorrection \/ EnqueueCandidates
    <3>1. CASE SearchStep \/ \E s \in Sources : StartSearch(s)
      BY <3>1 DEF SearchStep, StartSearch, ReadHasAccepted, AbandonSearch, FetchCandidates,
           SettleSearch, ClaimQuery, queueVars
    <3> QED
      BY <3>1, OtherFrame
  <2> QED
    BY <2>1, <2>2, <2>3, <2>4, <2>5
<1>3. pc'["registration"] # "idle" => reg'.query \in 1 .. Len(keyframes') - 1
  <2>1. CASE PopCandidate
    <3>1. queue # <<>> /\ reg'.query = Head(queue).query
      BY <2>1 DEF PopCandidate, IdleReg
    <3>2. Head(queue) = queue[1] /\ 1 \in 1 .. Len(queue)
      BY <1>0, <3>1, EmptySeq, HeadTailProperties
    <3> QED
      BY <1>1, <3>1, <3>2 DEF LoopInv
  <2>2. CASE RegistrationStep /\ ~PopCandidate
    <3>1. /\ pc["registration"] # "idle"
          /\ pc'["registration"] # "idle" => reg'.query = reg.query
      BY <1>0, <2>2 DEF RegistrationStep, RejectLoop, AcceptLoop, BeginLoopCorrection,
           ResetSearches, AddLoopFactor, StartLoopSearchCooldown, RegLocals, IInv, TypeOK
    <3> QED
      BY <1>1, <3>1 DEF LoopInv
  <2>3. CASE ~RegistrationStep
    <3>1. /\ reg' = reg
          /\ pc'["registration"] # "idle" => pc["registration"] # "idle"
      <4>1. CASE SearchStep \/ \E s \in Sources : StartSearch(s)
        BY <4>1, SearchFrame
      <4>2. CASE CallbackStep \/ CooldownExpires \/ UNCHANGED vars
        BY <1>0, <4>2 DEF CallbackStep, ReceiveFrame, PushFirstKeyframe, AddPriorFactor,
             SkipFrame, AddKeyframe, CooldownExpires, vars
      <4>3. ASSUME NEW t \in {"callback", "registration"}, ApplyStep(t)
            PROVE  /\ reg' = reg
                   /\ pc'["registration"] # "idle" => pc["registration"] # "idle"
        BY <1>0, <4>3 DEF ApplyStep, OptimizeGraph, RewriteKeyframes
      <4> QED
        BY <2>3, <4>1, <4>2, <4>3 DEF Next
    <3> QED
      BY <1>1, <3>1 DEF LoopInv
  <2> QED
    BY <2>1, <2>2, <2>3
<1> QED
  BY <1>2, <1>3, LoopSearchStep DEF LoopInv

LEMMA DeltaStep ==
    ASSUME IInv, KeyInv, LoopInv, DeltaInv, [Next]_vars
    PROVE  DeltaInv'
<1> USE DEF Threads, Goto
<1>0. /\ pc \in [Threads -> CallbackLabels \cup SearchLabels \cup RegistrationLabels]
      /\ Len(keyframes) \in Nat /\ Len(isam.keys) \in Nat /\ Len(initEsti) \in Nat
      /\ current \in KeyPose /\ lastCorrected \in KeyPose
      /\ keyframes # <<>> => Len(keyframes) >= 1
  BY KeyTypes DEF IInv, TypeOK
<1>1. ASSUME UNCHANGED <<initEsti, isam, pendingKeyframe, deltaSince, lastCorrected>>,
             UNCHANGED current \/ ~pendingKeyframe,
             pendingKeyframe => pc'["callback"] = pc["callback"],
             pc'["callback"] \in {"apply", "rewrite"} =>
               pc["callback"] \in {"apply", "rewrite"},
             Len(keyframes') = Len(keyframes)
      PROVE  DeltaInv'
  BY <1>1 DEF DeltaInv, Known
<1>2. CASE ReceiveFrame \/ SkipFrame
  <2>1. ~ (PushFirstKeyframe \/ AddKeyframe) /\ ~pendingKeyframe
    BY <1>2 DEF ReceiveFrame, SkipFrame, PushFirstKeyframe, AddKeyframe, DeltaInv
  <2>2. Len(keyframes') = Len(keyframes)
    BY <2>1, LengthStep
  <2>3. /\ UNCHANGED <<initEsti, isam, pendingKeyframe, deltaSince, lastCorrected>>
        /\ pc'["callback"] \notin {"apply", "rewrite"}
    BY <1>0, <1>2 DEF ReceiveFrame, SkipFrame, graphVars, realtimeVars
  <2> QED
    BY <1>1, <2>1, <2>2, <2>3
<1>3. CASE PushFirstKeyframe
  <2>1. /\ UNCHANGED <<initEsti, isam, pendingKeyframe, deltaSince, lastCorrected>>
        /\ pc'["callback"] = "prior" /\ ~pendingKeyframe /\ Len(keyframes') = 1
    BY <1>0, <1>3, LengthStep DEF PushFirstKeyframe, graphVars, realtimeVars, DeltaInv
  <2> QED
    BY <2>1 DEF DeltaInv
<1>4. CASE AddPriorFactor
  <2>1. /\ UNCHANGED <<isam, pendingKeyframe, deltaSince, lastCorrected>>
        /\ pc["callback"] = "prior" /\ pc'["callback"] = "idle" /\ ~pendingKeyframe
        /\ keyframes' = keyframes
    BY <1>0, <1>4 DEF AddPriorFactor, realtimeVars, DeltaInv
  <2>2. Len(keyframes) = 1
    BY <2>1 DEF KeyInv
  <2> QED
    BY <2>1, <2>2 DEF DeltaInv
<1>5. CASE AddKeyframe
  <2>1. /\ UNCHANGED <<isam, deltaSince, lastCorrected>> /\ pendingKeyframe' = TRUE
        /\ current' = [current EXCEPT !.key = latestKeyframeIdx]
        /\ initEsti' = Append(initEsti, latestKeyframeIdx)
        /\ latestKeyframeIdx' = NextKeyframeIdx /\ pc'["callback"] = "apply"
    BY <1>0, <1>5 DEF AddKeyframe, realtimeVars
  <2>2. Known' = Known + 1 /\ latestKeyframeIdx = Known /\ Known \in Nat
    BY <2>1, KeyAppended, KeyTypes DEF KeyInv
  <2>3. current'.key = Known
    BY <1>0, <2>1, <2>2 DEF KeyPose
  <2>4. Len(keyframes') >= 2
    BY <1>0, <1>5, LengthStep
  <2>5. current'.key = Known' - 1
    BY <2>2, <2>3
  <2> QED
    BY <2>1, <2>4, <2>5 DEF DeltaInv
<1>6. CASE SearchStep \/ \E s \in Sources : StartSearch(s)
  <2>1. UNCHANGED <<graphVars, realtimeVars, frameVars>> /\ pc'["callback"] = pc["callback"]
    BY <1>6, SearchFrame
  <2>2. ~ (PushFirstKeyframe \/ AddKeyframe)
    BY <1>0, <2>1 DEF PushFirstKeyframe, AddKeyframe
  <2> QED
    BY <1>1, <2>1, <2>2, LengthStep DEF graphVars, realtimeVars, frameVars
<1>7. CASE RegistrationStep
  <2>1. /\ UNCHANGED <<initEsti, isam, pendingKeyframe, realtimeVars, frameVars>>
        /\ pc'["callback"] = pc["callback"]
    BY <1>0, <1>7 DEF RegistrationStep, PopCandidate, RejectLoop, AcceptLoop,
         BeginLoopCorrection, ResetSearches, AddLoopFactor, StartLoopSearchCooldown, graphVars
  <2>2. ~ (PushFirstKeyframe \/ AddKeyframe)
    BY <1>0, <2>1 DEF PushFirstKeyframe, AddKeyframe
  <2> QED
    BY <1>1, <2>1, <2>2, LengthStep DEF realtimeVars, frameVars
<1>8. ASSUME NEW t \in {"callback", "registration"}, ApplyStep(t)
      PROVE  DeltaInv'
  <2>1. ~ (PushFirstKeyframe \/ AddKeyframe)
    BY <1>0, <1>8 DEF ApplyStep, OptimizeGraph, RewriteKeyframes, PushFirstKeyframe,
         AddKeyframe, AfterApply
  <2>2. Len(keyframes') = Len(keyframes)
    BY <2>1, LengthStep
  <2>3. Len(keyframes) >= 2
    <3>1. CASE t = "callback"
      BY <1>8, <3>1 DEF ApplyStep, OptimizeGraph, RewriteKeyframes, DeltaInv
    <3>2. CASE t = "registration"
      <4>1. pc["registration"] # "idle"
        BY <1>8, <3>2 DEF ApplyStep, OptimizeGraph, RewriteKeyframes
      <4>2. reg.query \in 1 .. Len(keyframes) - 1
        BY <4>1 DEF LoopInv
      <4> QED
        BY <1>0, <4>2
    <3> QED
      BY <3>1, <3>2
  <2>4. CASE OptimizeGraph(t)
    <3>1. /\ isam'.keys = isam.keys \o initEsti /\ initEsti' = <<>> /\ pendingKeyframe' = FALSE
          /\ lastCorrected'.key = Len(isam.keys \o initEsti) - 1
          /\ deltaSince' = IF pendingKeyframe THEN current.key ELSE deltaSince
      BY <2>4 DEF OptimizeGraph, DeltaAfterUpdate
    <3>2. Len(isam.keys \o initEsti) = Known
      BY KeyTypes, ConcatProperties DEF Known
    <3>3. ~pendingKeyframe => deltaSince = Known - 1
      <4>1. ~pendingKeyframe => initEsti = <<>>
        BY <1>0, <2>3 DEF DeltaInv
      <4> QED
        BY <1>0, <4>1, EmptySeq DEF DeltaInv, Known
    <3>4. deltaSince' = Known - 1
      BY <3>1, <3>3 DEF DeltaInv
    <3> QED
      BY <2>2, <2>3, <3>1, <3>2, <3>4 DEF DeltaInv
  <2>5. CASE RewriteKeyframes(t)
    <3>1. /\ UNCHANGED <<initEsti, isam, pendingKeyframe, realtimeVars, frameVars>>
          /\ pc'["callback"] # pc["callback"] =>
               pc["callback"] = "rewrite" /\ pc'["callback"] = "idle"
      BY <1>0, <1>8, <2>5 DEF RewriteKeyframes, AfterApply
    <3>2. pendingKeyframe => pc["callback"] = "apply"
      BY DEF DeltaInv
    <3> QED
      BY <1>1, <2>2, <3>1, <3>2 DEF realtimeVars, frameVars
  <2> QED
    BY <1>8, <2>4, <2>5 DEF ApplyStep
<1>9. CASE CooldownExpires \/ UNCHANGED vars
  BY <1>1, <1>9 DEF CooldownExpires, vars, graphVars, realtimeVars, frameVars
<1> QED
  BY <1>2, <1>3, <1>4, <1>5, <1>6, <1>7, <1>8, <1>9 DEF Next, CallbackStep

KInv == IInv /\ KeyInv /\ LoopInv /\ DeltaInv

LEMMA InitKInv == Init => KInv
<1> SUFFICES ASSUME Init PROVE KInv
  OBVIOUS
<1>1. Len(<<>>) = 0
  BY EmptySeq
<1> QED
  BY <1>1, InitIInv DEF Init, KInv, KeyInv, LoopInv, DeltaInv, Known, NoKey, Threads

LEMMA KeysInvariant == Spec => []KInv
<1>1. KInv /\ [Next]_vars => KInv'
  BY NextIInv, KeyStep, LoopStep, DeltaStep DEF KInv
<1> QED
  BY <1>1, InitKInv, PTL DEF Spec

(***************************************************************************)
(* appendKeyframePose, addLoopFactor and iSAM2 (pose_graph_manager.cpp):   *)
(* whichever thread updates iSAM2, with however many keyframes between two *)
(* updates, no factor refers to a key without an estimate and the i-th     *)
(* estimate is the i-th keyframe's.                                        *)
(***************************************************************************)
THEOREM KeysFollow == Spec => []KeysFollowKeyframes
<1>1. KInv => KeysFollowKeyframes
  <2> SUFFICES ASSUME KInv PROVE KeysFollowKeyframes
    OBVIOUS
  <2> DEFINE known == isam.keys \o initEsti
  <2>1. /\ IInv /\ KeyInv /\ keyframes \in Seq(Keyframe)
        /\ DOMAIN keyframes = 1 .. Len(keyframes)
    BY LenProperties DEF KInv, IInv, TypeOK
  <2>2. /\ known \in Seq(Nat) /\ Len(known) = Known /\ DOMAIN known = 1 .. Known
        /\ \A i \in 1 .. Known : known[i] =
             IF i <= Len(isam.keys) THEN isam.keys[i] ELSE initEsti[i - Len(isam.keys)]
    BY <2>1, KeyTypes, ConcatProperties, LenProperties DEF Known
  <2>3. ASSUME NEW i \in 1 .. Known PROVE known[i] = i - 1
    <3>1. CASE i <= Len(isam.keys)
      <4>1. i \in 1 .. Len(isam.keys) /\ known[i] = isam.keys[i]
        BY <2>1, <2>2, <2>3, <3>1, KeyTypes
      <4> HIDE DEF known
      <4> QED
        BY <2>1, <4>1 DEF KeyInv
    <3>2. CASE i > Len(isam.keys)
      <4> DEFINE j == i - Len(isam.keys)
      <4>1. j \in 1 .. Len(initEsti) /\ Len(isam.keys) + j - 1 = i - 1
        BY <2>1, <3>2, KeyTypes DEF Known
      <4>2. known[i] = initEsti[j]
        BY <2>1, <2>2, <3>2, KeyTypes
      <4> HIDE DEF j
      <4> QED
        BY <2>1, <4>1, <4>2 DEF KeyInv
    <3>3. i <= Len(isam.keys) \/ i > Len(isam.keys)
      BY <2>1, <2>3, KeyTypes
    <3> QED
      BY <3>1, <3>2, <3>3
  <2> HIDE DEF known
  <2>4. pc["callback"] # "prior" => known = [i \in DOMAIN keyframes |-> i - 1]
    <3>1. known = [i \in 1 .. Known |-> known[i]]
      BY <2>2
    <3> QED
      BY <2>1, <2>3, <3>1 DEF KeyInv
  <2>5. \A f \in graph : f.key < Len(known)
    BY <2>1, <2>2 DEF KeyInv
  <2> QED
    BY <2>4, <2>5 DEF KeysFollowKeyframes, known
<1> QED
  BY <1>1, KeysInvariant, PTL

(***************************************************************************)
(* odom_delta_ is reset where last_corrected_pose_ is set: although the    *)
(* registration may run the update that the callback prepared, the one is  *)
(* always accumulated since the other.                                     *)
(***************************************************************************)
THEOREM DeltaFollowsAnchor == Spec => []DeltaMatchesAnchor
<1>1. KInv => DeltaMatchesAnchor
  BY DEF KInv, DeltaInv, DeltaMatchesAnchor
<1> QED
  BY <1>1, KeysInvariant, PTL

(***************************************************************************)
(* Between the update of iSAM2 and the rewriting of keyframes_ no keyframe *)
(* comes in: graph_mutex_ is held, so the estimate covers them all.        *)
(***************************************************************************)
THEOREM CorrectionsReachAll == Spec => CorrectionReachesAll
<1>1. ASSUME KInv, [Next]_vars, NEW t \in Threads, pc[t] = "rewrite", pc'[t] # "rewrite",
             NEW i \in DOMAIN keyframes'
      PROVE  keyframes'[i].epoch = isam'.epoch
  <2>1. /\ IInv /\ KeyInv /\ keyframes \in Seq(Keyframe)
        /\ DOMAIN keyframes = 1 .. Len(keyframes)
        /\ pc \in [Threads -> CallbackLabels \cup SearchLabels \cup RegistrationLabels]
        /\ pc["search"] \in SearchLabels
    BY <1>1, LenProperties DEF KInv, IInv, TypeOK
  <2>2. t \in {"callback", "registration"}
    BY <1>1, <2>1 DEF Threads, SearchLabels
  <2>3. RewriteKeyframes(t)
    <3>1. CASE SearchStep \/ \E s \in Sources : StartSearch(s)
      BY <1>1, <2>1, <2>2, <3>1, SearchFrame
    <3>2. CASE CallbackStep \/ RegistrationStep
      <4>1. pc["callback"] = "rewrite" => pc["registration"] = "apply"
        BY <2>1 DEF IInv, LockInv
      <4>2. graphOwner = t
        BY <1>1, <2>1, <2>2 DEF IInv, LockInv
      <4> QED
        BY <1>1, <2>1, <2>2, <3>2, <4>1, <4>2 DEF CallbackStep, RegistrationStep, Threads, Goto,
           ReceiveFrame, PushFirstKeyframe, AddPriorFactor, SkipFrame, AddKeyframe, PopCandidate,
           RejectLoop, AcceptLoop, BeginLoopCorrection, ResetSearches, AddLoopFactor,
           StartLoopSearchCooldown
    <3>3. CASE CooldownExpires \/ UNCHANGED vars
      BY <1>1, <3>3 DEF CooldownExpires, vars
    <3>4. ASSUME NEW u \in {"callback", "registration"}, ApplyStep(u)
          PROVE  RewriteKeyframes(t)
      <4>1. u = t
        BY <1>1, <2>1, <2>2, <3>4 DEF ApplyStep, OptimizeGraph, RewriteKeyframes, Goto, Threads,
             AfterApply
      <4> QED
        BY <1>1, <3>4, <4>1 DEF ApplyStep, OptimizeGraph
    <3> QED
      BY <1>1, <3>1, <3>2, <3>3, <3>4 DEF Next
  <2>4. /\ keyframes' = [k \in DOMAIN keyframes |->
                            IF InEstimate(k) THEN [keyframes[k] EXCEPT !.epoch = isam.epoch]
                                             ELSE keyframes[k]]
        /\ isam' = isam
    BY <2>3 DEF RewriteKeyframes
  <2>5. Len(isam.keys) = Len(keyframes)
    <3>1. initEsti = <<>> /\ Len(initEsti) = 0
      BY <1>1, <2>1, EmptySeq DEF KeyInv
    <3>2. isInitialized
      BY <1>1, <2>1, <2>2 DEF IInv, StartInv, LockInv
    <3>3. Known = Len(keyframes)
      BY <2>1, <3>2 DEF KeyInv, IInv, StartInv
    <3> QED
      BY <2>1, <3>1, <3>3, KeyTypes DEF Known
  <2>6. i \in 1 .. Len(keyframes) /\ InEstimate(i)
    BY <1>1, <2>1, <2>4, <2>5, KeyTypes DEF InEstimate
  <2>7. keyframes[i] \in Keyframe /\ isam.epoch \in Nat
    BY <2>1, <2>6, ElementOfSeq DEF IInv, TypeOK, Estimate
  <2>8. keyframes'[i] = [keyframes[i] EXCEPT !.epoch = isam.epoch] /\ isam' = isam
    BY <2>1, <2>4, <2>6
  <2> QED
    BY <2>7, <2>8, KeyframeUpdated
<1>2. KInv /\ [Next]_vars =>
        [\A t \in Threads : pc[t] = "rewrite" /\ pc'[t] # "rewrite" =>
           \A i \in DOMAIN keyframes' : keyframes'[i].epoch = isam'.epoch]_vars
  BY <1>1
<1> QED
  BY <1>2, KeysInvariant, PTL DEF Spec, CorrectionReachesAll

-----------------------------------------------------------------------------
(* The abstract protocol *)

(***************************************************************************)
(* A registration that rests holds no candidate.                           *)
(***************************************************************************)
RegInv == pc["registration"] = "idle" => reg.query = NoKey

LEMMA RegStep == ASSUME KInv, RegInv, [Next]_vars PROVE RegInv'
<1> USE DEF Threads, Goto
<1>0. IInv /\ pc \in [Threads -> CallbackLabels \cup SearchLabels \cup RegistrationLabels]
  BY KeyTypes DEF KInv
<1>1. CASE SearchStep \/ \E s \in Sources : StartSearch(s)
  BY <1>0, <1>1, SearchFrame DEF RegInv
<1>2. CASE RegistrationStep
  BY <1>0, <1>2 DEF RegistrationStep, PopCandidate, RejectLoop, AcceptLoop,
     BeginLoopCorrection, ResetSearches, AddLoopFactor, StartLoopSearchCooldown, RegInv, IdleReg
<1>3. CASE CallbackStep \/ CooldownExpires \/ UNCHANGED vars
  BY <1>0, <1>3 DEF CallbackStep, ReceiveFrame, PushFirstKeyframe, AddPriorFactor, SkipFrame,
     AddKeyframe, CooldownExpires, vars, RegInv
<1>4. ASSUME NEW t \in {"callback", "registration"}, ApplyStep(t) PROVE RegInv'
  BY <1>0, <1>4 DEF ApplyStep, OptimizeGraph, RewriteKeyframes, AfterApply, RegInv
<1> QED
  BY <1>1, <1>2, <1>3, <1>4 DEF Next

(***************************************************************************)
(* The refinement mapping of Protocol.                                     *)
(***************************************************************************)
Trajectory == IF inProgress THEN generation - 1 ELSE generation
Waiting    == [i \in DOMAIN queue |-> queue[i].epoch]
Taken      == IF reg.query = NoKey THEN {} ELSE {reg.epoch}

LEMMA RefinementTypes ==
    ASSUME KInv, RegInv
    PROVE  /\ IInv /\ queue \in Seq(Candidates) /\ Len(queue) \in Nat
           /\ DOMAIN queue = 1 .. Len(queue) /\ generation \in Nat
           /\ \A i \in 1 .. Len(queue) : queue[i].epoch \in Nat /\ queue[i] \in Candidates
           /\ Waiting \in Seq(Nat) /\ Len(Waiting) = Len(queue)
           /\ \A i \in 1 .. Len(queue) : Waiting[i] = queue[i].epoch
           /\ pc["registration"] = "idle" <=> reg.query = NoKey
           /\ pc \in [Threads -> CallbackLabels \cup SearchLabels \cup RegistrationLabels]
           /\ inProgress \in BOOLEAN
<1>1. /\ IInv /\ queue \in Seq(Candidates) /\ generation \in Nat /\ inProgress \in BOOLEAN
      /\ pc \in [Threads -> CallbackLabels \cup SearchLabels \cup RegistrationLabels]
  BY DEF KInv, IInv, TypeOK
<1>2. /\ Len(queue) \in Nat /\ DOMAIN queue = 1 .. Len(queue)
      /\ \A i \in 1 .. Len(queue) : queue[i] \in Candidates
  BY <1>1, LenProperties, ElementOfSeq
<1>3. \A i \in 1 .. Len(queue) : queue[i].epoch \in Nat
  BY <1>2 DEF Candidates
<1>4. Waiting \in [1 .. Len(queue) -> Nat]
  BY <1>2, <1>3 DEF Waiting
<1>5. Waiting \in Seq(Nat) /\ Len(Waiting) = Len(queue)
  BY <1>2, <1>4, FunctionIsSeq
<1>6. pc["registration"] # "idle" => reg.query # NoKey
  BY DEF KInv, LoopInv, NoKey
<1> QED
  BY <1>1, <1>2, <1>3, <1>5, <1>6 DEF Waiting, RegInv

(***************************************************************************)
(* A batch that finds room is an offer on the current trajectory.          *)
(***************************************************************************)
LEMMA EnqueueRefines ==
    ASSUME KInv, RegInv, EnqueueCandidates, EnqueueResult = "kEnqueued"
    PROVE  \E n \in 0 .. Capacity :
             /\ ~inProgress /\ Len(Waiting) + n <= Capacity
             /\ Waiting' = Waiting \o [i \in 1 .. n |-> Trajectory]
             /\ UNCHANGED <<generation, inProgress, reg>>
<1>0. IInv /\ search \in SearchLocals
  BY DEF KInv, IInv, TypeOK
<1>1. /\ ~inProgress /\ search.generation = generation /\ pc["search"] = "enqueue"
      /\ ~ (search.batch > Capacity) /\ ~ (search.batch > Capacity - Len(queue))
  BY DEF EnqueueResult, SearchBlocked, EnqueueCandidates
<1>2. search.batch \in Nat /\ search.epoch = TrajectoryEpoch /\ search.query \in Nat
  BY <1>0, <1>1 DEF SearchLocals, IInv, SearchInv, QueryInv
<1>3. TrajectoryEpoch = generation
  <2>1. pc["registration"] \in {"idle", "align", "begin"}
    BY <1>0, <1>1 DEF IInv, TypeOK, RegistrationLabels, EpochInv
  <2>2. ~loopClosureAdded /\ generation = isam.epoch
    BY <1>0, <2>1 DEF IInv, TypeOK, Estimate, EpochInv
  <2>3. ~\E t \in Threads : pc[t] = "rewrite"
    BY <1>0, <2>1 DEF IInv, TypeOK, SearchLabels, Threads, LockInv
  <2> QED
    BY <1>0, <2>2, <2>3, TrajectoryIsNat DEF IInv, TypeOK, EpochInv
<1> DEFINE c == Candidate(search.query, search.source, search.epoch)
           batch == [i \in 1 .. search.batch |-> c]
           offer == [i \in 1 .. search.batch |-> Trajectory]
<1>4. queue' = queue \o batch /\ UNCHANGED <<generation, inProgress, reg>>
  BY DEF EnqueueCandidates
<1>5. c \in Candidates /\ c.epoch = generation
  BY <1>0, <1>2, <1>3 DEF Candidate, Candidates, SearchLocals
<1>6. Trajectory = generation /\ generation \in Nat
  BY <1>1, RefinementTypes DEF Trajectory
<1> HIDE DEF c
<1>7. /\ batch \in Seq(Candidates) /\ Len(batch) = search.batch
      /\ \A i \in 1 .. search.batch : batch[i] = c
  BY <1>2, <1>5, FunctionIsSeq
<1>8. /\ offer \in Seq(Nat) /\ Len(offer) = search.batch
      /\ \A i \in 1 .. search.batch : offer[i] = generation
  BY <1>2, <1>6, FunctionIsSeq
<1> HIDE DEF batch, offer
<1>9. /\ queue \o batch \in Seq(Candidates)
      /\ Len(queue \o batch) = Len(queue) + search.batch
      /\ \A i \in 1 .. Len(queue) + search.batch : (queue \o batch)[i] =
           IF i <= Len(queue) THEN queue[i] ELSE batch[i - Len(queue)]
  <2>1. /\ queue \o batch \in Seq(Candidates)
        /\ Len(queue \o batch) = Len(queue) + Len(batch)
        /\ \A i \in 1 .. Len(queue) + Len(batch) : (queue \o batch)[i] =
             IF i <= Len(queue) THEN queue[i] ELSE batch[i - Len(queue)]
    BY ZenonT(30), <1>7, RefinementTypes, ConcatProperties
  <2> QED
    BY <1>7, <2>1
<1>10. /\ Waiting \o offer \in Seq(Nat)
       /\ Len(Waiting \o offer) = Len(queue) + search.batch
       /\ \A i \in 1 .. Len(queue) + search.batch : (Waiting \o offer)[i] =
            IF i <= Len(queue) THEN Waiting[i] ELSE offer[i - Len(queue)]
  <2>1. /\ Waiting \in Seq(Nat) /\ Len(Waiting) = Len(queue)
    BY RefinementTypes
  <2>2. /\ Waiting \o offer \in Seq(Nat)
        /\ Len(Waiting \o offer) = Len(Waiting) + Len(offer)
        /\ \A i \in 1 .. Len(Waiting) + Len(offer) : (Waiting \o offer)[i] =
             IF i <= Len(Waiting) THEN Waiting[i] ELSE offer[i - Len(Waiting)]
    BY <1>8, <2>1, ConcatProperties
  <2> QED
    BY <1>8, <2>1, <2>2
<1>11. ASSUME NEW i \in 1 .. Len(queue) + search.batch
       PROVE  (queue \o batch)[i].epoch = (Waiting \o offer)[i]
  <2>1. CASE i <= Len(queue)
    <3>1. i \in 1 .. Len(queue)
      BY <1>2, <2>1, RefinementTypes
    <3> QED
      BY <1>9, <1>10, <2>1, <3>1, RefinementTypes
  <2>2. CASE i > Len(queue)
    <3>1. i - Len(queue) \in 1 .. search.batch /\ ~ (i <= Len(queue))
      BY <1>2, <2>2, RefinementTypes
    <3> QED
      BY <1>5, <1>7, <1>8, <1>9, <1>10, <3>1
  <2>3. i <= Len(queue) \/ i > Len(queue)
    BY <1>2, RefinementTypes
  <2> QED
    BY <2>1, <2>2, <2>3
<1>12. Waiting' = Waiting \o offer
  <2>1. DOMAIN (queue \o batch) = 1 .. Len(queue) + search.batch
    BY <1>9, LenProperties
  <2>2. Waiting' = [i \in 1 .. Len(queue) + search.batch |-> (queue \o batch)[i].epoch]
    BY <1>4, <2>1 DEF Waiting
  <2>3. Waiting \o offer = [i \in 1 .. Len(queue) + search.batch |-> (Waiting \o offer)[i]]
    <3>1. Waiting \o offer \in [1 .. Len(queue) + search.batch -> Nat]
      BY <1>10, LenProperties
    <3> QED
      BY <3>1
  <2> QED
    BY <1>11, <2>2, <2>3
<1>13. search.batch \in 0 .. Capacity /\ Len(Waiting) + search.batch <= Capacity
  BY <1>1, <1>2, CapacityAssumption, RefinementTypes
<1> QED
  BY <1>1, <1>4, <1>12, <1>13 DEF offer

(***************************************************************************)
(* Every step of the back end is a step of the protocol or leaves all that *)
(* it sees alone.                                                          *)
(***************************************************************************)
LEMMA StepRefines ==
    ASSUME KInv, RegInv, [Next]_vars
    PROVE  \/ \E n \in 0 .. Capacity :
                /\ ~inProgress /\ Len(Waiting) + n <= Capacity
                /\ Waiting' = Waiting \o [i \in 1 .. n |-> Trajectory]
                /\ UNCHANGED <<Trajectory, inProgress, Taken>>
           \/ /\ ~inProgress /\ Waiting # <<>> /\ Taken = {}
              /\ Taken' = {Head(Waiting)} /\ Waiting' = Tail(Waiting)
              /\ UNCHANGED <<Trajectory, inProgress>>
           \/ /\ ~inProgress /\ Taken # {} /\ Taken' = {}
              /\ UNCHANGED <<Trajectory, inProgress, Waiting>>
           \/ /\ ~inProgress /\ Taken = {Trajectory}
              /\ inProgress' = TRUE /\ Waiting' = <<>>
              /\ UNCHANGED <<Trajectory, Taken>>
           \/ /\ inProgress /\ inProgress' = FALSE
              /\ Trajectory' = Trajectory + 1 /\ Taken' = {}
              /\ UNCHANGED Waiting
           \/ UNCHANGED <<Trajectory, inProgress, Waiting, Taken>>
<1> USE DEF Threads, Goto
<1>0. /\ IInv /\ queue \in Seq(Candidates) /\ Len(queue) \in Nat
      /\ DOMAIN queue = 1 .. Len(queue) /\ generation \in Nat
      /\ \A i \in 1 .. Len(queue) : queue[i].epoch \in Nat
      /\ Waiting \in Seq(Nat) /\ Len(Waiting) = Len(queue)
      /\ \A i \in 1 .. Len(queue) : Waiting[i] = queue[i].epoch
      /\ pc["registration"] = "idle" <=> reg.query = NoKey
      /\ pc \in [Threads -> CallbackLabels \cup SearchLabels \cup RegistrationLabels]
      /\ inProgress \in BOOLEAN /\ reg \in RegLocals
      /\ inProgress <=> pc["registration"] \in {"reset", "factor", "apply", "rewrite", "cooldown"}
  BY RefinementTypes DEF IInv, TypeOK, EpochInv
<1>1. ASSUME UNCHANGED <<queue, generation, inProgress>>,
             reg'.query = reg.query /\ reg'.epoch = reg.epoch
      PROVE  UNCHANGED <<Trajectory, inProgress, Waiting, Taken>>
  BY <1>1 DEF Trajectory, Waiting, Taken
<1>2. CASE SearchStep \/ \E s \in Sources : StartSearch(s)
  <2>1. reg' = reg /\ UNCHANGED <<inProgress, generation>>
    BY <1>0, <1>2, SearchFrame
  <2>2. CASE queue' = queue
    BY <1>1, <2>1, <2>2
  <2>3. CASE queue' # queue
    <3>1. EnqueueCandidates /\ EnqueueResult = "kEnqueued"
      BY <1>2, <2>3 DEF SearchStep, StartSearch, ReadHasAccepted, AbandonSearch, ClaimQuery,
         FetchCandidates, EnqueueCandidates, SettleSearch, queueVars
    <3>2. UNCHANGED <<Trajectory, inProgress, Taken>>
      BY <2>1 DEF Trajectory, Taken
    <3> QED
      BY <3>1, <3>2, EnqueueRefines
  <2> QED
    BY <2>2, <2>3
<1>3. CASE PopCandidate
  <2>1. /\ pc["registration"] = "idle" /\ queue # <<>> /\ queue' = Tail(queue)
        /\ reg'.query = Head(queue).query /\ reg'.epoch = Head(queue).epoch
        /\ UNCHANGED <<inProgress, generation>>
    BY <1>3 DEF PopCandidate, IdleReg
  <2>2. /\ Head(queue) = queue[1] /\ 1 \in 1 .. Len(queue)
        /\ queue' \in Seq(Candidates) /\ Len(queue') = Len(queue) - 1
        /\ \A i \in 1 .. Len(queue') : queue'[i] = queue[i + 1]
    BY <1>0, <2>1, EmptySeq, HeadTailProperties
  <2>3. Head(queue).query # NoKey
    <3>1. queue[1] \in Candidates
      BY <1>0, <2>2, ElementOfSeq
    <3>2. queue[1].query \in Nat
      BY <3>1 DEF Candidates
    <3> QED
      BY <2>2, <3>2 DEF NoKey
  <2>4. Waiting # <<>> /\ Head(Waiting) = queue[1].epoch
    BY <1>0, <2>1, <2>2, EmptySeq, HeadTailProperties
  <2>5. Waiting' = Tail(Waiting)
    <3>1. /\ Tail(Waiting) \in Seq(Nat) /\ Len(Tail(Waiting)) = Len(queue) - 1
          /\ \A i \in 1 .. Len(Tail(Waiting)) : Tail(Waiting)[i] = Waiting[i + 1]
      BY <1>0, <2>4, HeadTailProperties
    <3>2. Tail(Waiting) = [i \in 1 .. Len(queue) - 1 |-> Tail(Waiting)[i]]
      BY <3>1, LenProperties
    <3>3. DOMAIN queue' = 1 .. Len(queue) - 1
      BY <2>2, LenProperties
    <3>4. Waiting' = [i \in 1 .. Len(queue) - 1 |-> queue'[i].epoch]
      BY <3>3 DEF Waiting
    <3>5. ASSUME NEW i \in 1 .. Len(queue) - 1 PROVE queue'[i].epoch = Tail(Waiting)[i]
      <4>1. i + 1 \in 1 .. Len(queue)
        BY <1>0
      <4> QED
        BY <1>0, <2>2, <3>1, <4>1
    <3> QED
      BY <3>2, <3>4, <3>5
  <2>6. Taken = {} /\ Taken' = {Head(Waiting)} /\ ~inProgress
    BY <1>0, <2>1, <2>2, <2>3, <2>4 DEF Taken
  <2> QED
    BY <2>1, <2>4, <2>5, <2>6 DEF Trajectory
<1>4. CASE RejectLoop
  <2>1. /\ pc["registration"] = "align" /\ reg'.query = NoKey
        /\ UNCHANGED <<queue, inProgress, generation>>
    BY <1>4 DEF RejectLoop, IdleReg, queueVars
  <2> QED
    BY <1>0, <2>1 DEF Trajectory, Waiting, Taken
<1>5. CASE BeginLoopCorrection
  <2>1. /\ pc["registration"] = "begin" /\ queue' = <<>> /\ inProgress' = TRUE
        /\ generation' = generation + 1
        /\ reg'.query = reg.query /\ reg'.epoch = reg.epoch
    BY <1>0, <1>5 DEF BeginLoopCorrection, RegLocals
  <2>2. ~inProgress /\ reg.epoch = TrajectoryEpoch
    BY <1>0, <2>1 DEF IInv, CandidatesOnCurrentTrajectory
  <2>3. TrajectoryEpoch = generation
    <3>1. ~loopClosureAdded /\ generation = isam.epoch
      BY <1>0, <2>1 DEF IInv, TypeOK, Estimate, EpochInv
    <3>2. ~\E t \in Threads : pc[t] = "rewrite"
      BY <1>0, <2>1 DEF IInv, TypeOK, SearchLabels, LockInv
    <3> QED
      BY <1>0, <3>1, <3>2, TrajectoryIsNat DEF IInv, TypeOK, EpochInv
  <2>4. Waiting' = <<>>
    BY <2>1, EmptySeq DEF Waiting
  <2>5. Taken = {generation} /\ Taken' = Taken
    BY <1>0, <2>1, <2>2, <2>3 DEF Taken
  <2>6. Trajectory = generation /\ Trajectory' = generation
    BY <1>0, <2>1, <2>2 DEF Trajectory
  <2> QED
    BY <2>1, <2>2, <2>4, <2>5, <2>6
<1>6. CASE StartLoopSearchCooldown
  <2>1. /\ pc["registration"] = "cooldown" /\ inProgress' = FALSE /\ reg'.query = NoKey
        /\ UNCHANGED <<queue, generation>>
    BY <1>6 DEF StartLoopSearchCooldown, IdleReg
  <2>2. inProgress
    BY <1>0, <2>1
  <2>3. Trajectory = generation - 1 /\ Trajectory' = generation
    BY <2>1, <2>2 DEF Trajectory
  <2>4. Trajectory' = Trajectory + 1
    BY <1>0, <2>3
  <2>5. Taken' = {} /\ Waiting' = Waiting
    BY <2>1 DEF Taken, Waiting
  <2> QED
    BY <2>1, <2>2, <2>4, <2>5
<1>7. CASE AcceptLoop \/ ResetSearches \/ AddLoopFactor
  BY <1>1, <1>7 DEF AcceptLoop, ResetSearches, AddLoopFactor, queueVars
<1>8. CASE CallbackStep \/ CooldownExpires \/ UNCHANGED vars
  BY <1>1, <1>8 DEF CallbackStep, ReceiveFrame, PushFirstKeyframe, AddPriorFactor, SkipFrame,
     AddKeyframe, CooldownExpires, queueVars, vars
<1>9. CASE \E t \in {"callback", "registration"} : ApplyStep(t)
  BY <1>1, <1>9 DEF ApplyStep, OptimizeGraph, RewriteKeyframes, queueVars
<1> QED
  BY <1>2, <1>3, <1>4, <1>5, <1>6, <1>7, <1>8, <1>9 DEF Next, RegistrationStep

(***************************************************************************)
(* LoopCandidateQueue and performRegistration keep the protocol of         *)
(* LoopCorrection, whatever the searches and callbackNode do meanwhile.    *)
(***************************************************************************)
THEOREM BackEndImplementsLoopCorrection == Spec => ImplementsLoopCorrection
<1> USE DEF Protocol!vars
<1>1. Init => Protocol!Init /\ RegInv
  BY DEF Init, Protocol!Init, RegInv, IdleReg
<1>2. KInv /\ RegInv /\ [Next]_vars => RegInv' /\ [Protocol!Next]_(Protocol!vars)
  <2> SUFFICES ASSUME KInv, RegInv, [Next]_vars PROVE [Protocol!Next]_(Protocol!vars)
    BY RegStep
  <2> QED
    BY StepRefines DEF Protocol!Next, Protocol!Offer, Protocol!Take, Protocol!Reject,
       Protocol!Begin, Protocol!Finish, Trajectory, Waiting, Taken
<1> QED
  BY <1>1, <1>2, KeysInvariant, PTL DEF Spec, ImplementsLoopCorrection, Protocol!Spec

-----------------------------------------------------------------------------
(***************************************************************************)
(* The outputs: no correction is lost on the accumulated map or on the     *)
(* corrected path, for any number of keyframes and corrections.  The two   *)
(* flags of performRegistration are enough, whenever the timers consume    *)
(* them.                                                                   *)
(***************************************************************************)

(***************************************************************************)
(* From the moment its loop may be absorbed to the end of its correction.  *)
(***************************************************************************)
Busy == pc["registration"] \in {"apply", "rewrite", "cooldown"}

(***************************************************************************)
(* No keyframe is newer than the estimate.                                 *)
(***************************************************************************)
EpochBound ==
    /\ \A i \in DOMAIN keyframes : keyframes[i].epoch <= isam.epoch
    /\ current.epoch <= isam.epoch

(***************************************************************************)
(* A redraw keeps the default callback group to itself, and what it writes *)
(* is the whole path, though perhaps of an estimate that is replaced before*)
(* it is written: then the redraw after it is announced.                   *)
(***************************************************************************)
VisInv ==
    /\ vis \in [stage : {"idle", "copy", "write"}, epoch : Nat, count : Nat]
    /\ vis.stage # "idle" => pc["callback"] = "idle" /\ isInitialized
    /\ vis.stage = "write" =>
         /\ vis.count = Len(keyframes) /\ vis.epoch \in Nat /\ vis.epoch <= isam.epoch
         /\ vis.epoch # isam.epoch => Busy \/ tail # "none" \/ needGraphVis
    /\ needGraphVis \/ tail # "none" \/ vis.stage # "idle" => Len(keyframes) >= 2

MapInv ==
    /\ map \in Seq(Nat) /\ Len(map) <= Len(keyframes)
    /\ \A i \in 1 .. Len(map) : map[i] # keyframes[i].epoch =>
         needMapUpdate \/ Busy \/ tail = "map"

PathInv ==
    /\ path \in Seq(Nat) /\ Len(path) = Len(keyframes)
    /\ \A i \in 1 .. Len(path) : path[i] < keyframes[i].epoch =>
         \/ Busy \/ tail # "none" \/ needGraphVis
         \/ vis.stage = "copy" \/ (vis.stage = "write" /\ vis.epoch = isam.epoch)

OInv ==
    /\ needMapUpdate \in BOOLEAN /\ needGraphVis \in BOOLEAN
    /\ tail \in {"none", "map", "graph"}
    /\ KInv /\ EpochBound /\ VisInv /\ MapInv /\ PathInv

LEMMA OutputTypes ==
    ASSUME KInv
    PROVE  /\ keyframes \in Seq(Keyframe) /\ Len(keyframes) \in Nat
           /\ DOMAIN keyframes = 1 .. Len(keyframes)
           /\ \A i \in 1 .. Len(keyframes) : keyframes[i] \in Keyframe /\ keyframes[i].epoch \in Nat
           /\ isam.epoch \in Nat /\ current.epoch \in Nat /\ lastCorrected.epoch = isam.epoch
           /\ pc \in [Threads -> CallbackLabels \cup SearchLabels \cup RegistrationLabels]
<1>1. IInv
  BY DEF KInv
<1>2. keyframes \in Seq(Keyframe)
  BY <1>1 DEF IInv, TypeOK
<1>3. \A i \in 1 .. Len(keyframes) : keyframes[i] \in Keyframe
  BY <1>2, ElementOfSeq
<1> QED
  BY <1>1, <1>2, <1>3, LenProperties DEF IInv, TypeOK, EpochInv, Keyframe, KeyPose, Estimate

(***************************************************************************)
(* What the outputs see of a step of the back end: the estimate and the    *)
(* keyframes move only while a registration is busy, which it then stays.  *)
(***************************************************************************)
LEMMA BackEndStep ==
    ASSUME KInv, EpochBound, [Next]_vars
    PROVE  /\ KInv' /\ EpochBound'
           /\ Len(keyframes') >= Len(keyframes)
           /\ isam'.epoch >= isam.epoch
           /\ isam'.epoch # isam.epoch => Busy'
           /\ \A i \in 1 .. Len(keyframes) :
                keyframes'[i].epoch # keyframes[i].epoch => Busy'
           /\ Len(keyframes') # Len(keyframes) =>
                /\ PushFirstKeyframe \/ AddKeyframe
                /\ Len(keyframes') = Len(keyframes) + 1
                /\ keyframes'[Len(keyframes) + 1].epoch = current.epoch
           /\ Busy /\ ~Busy' => pc["registration"] = "cooldown"
<1> USE DEF Threads, Goto
<1>0. /\ keyframes \in Seq(Keyframe) /\ Len(keyframes) \in Nat
      /\ DOMAIN keyframes = 1 .. Len(keyframes)
      /\ \A i \in 1 .. Len(keyframes) : keyframes[i] \in Keyframe /\ keyframes[i].epoch \in Nat
      /\ isam.epoch \in Nat /\ current.epoch \in Nat /\ lastCorrected.epoch = isam.epoch
      /\ pc \in [Threads -> CallbackLabels \cup SearchLabels \cup RegistrationLabels]
      /\ IInv
  BY OutputTypes DEF KInv
<1>1. KInv'
  BY NextIInv, KeyStep, LoopStep, DeltaStep DEF KInv
<1>2. Len(keyframes') >= Len(keyframes) /\ Len(keyframes') \in Nat
      /\ DOMAIN keyframes' = 1 .. Len(keyframes')
  BY <1>0, <1>1, OutputTypes, KeyframesStep
<1> DEFINE Same == /\ Len(keyframes') = Len(keyframes)
                   /\ \A i \in 1 .. Len(keyframes) : keyframes'[i].epoch = keyframes[i].epoch
<1>3. ASSUME Same, isam' = isam, current' = current,
             Busy /\ ~Busy' => pc["registration"] = "cooldown"
      PROVE  /\ EpochBound' /\ isam'.epoch >= isam.epoch
             /\ Len(keyframes') = Len(keyframes)
             /\ \A i \in 1 .. Len(keyframes) : keyframes'[i].epoch = keyframes[i].epoch
             /\ Busy /\ ~Busy' => pc["registration"] = "cooldown"
  BY SMTT(20), <1>0, <1>2, <1>3 DEF EpochBound
<1>4. CASE ReceiveFrame
  <2>1. /\ keyframes' = keyframes /\ isam' = isam /\ current'.epoch = isam.epoch
        /\ pc'["registration"] = pc["registration"]
    BY <1>0, <1>4 DEF ReceiveFrame, graphVars
  <2> QED
    BY <1>0, <1>1, <2>1 DEF EpochBound, Busy
<1>5. CASE AddPriorFactor \/ SkipFrame \/ CooldownExpires \/ UNCHANGED vars
  <2>1. /\ keyframes' = keyframes /\ isam' = isam /\ current' = current
        /\ pc'["registration"] = pc["registration"]
    BY <1>0, <1>5 DEF AddPriorFactor, SkipFrame, CooldownExpires, vars, graphVars, frameVars
  <2> QED
    BY <1>0, <1>1, <1>3, <2>1 DEF Busy
<1>6. CASE PushFirstKeyframe \/ AddKeyframe
  <2>1. /\ keyframes' = Append(keyframes, NewKeyframe) /\ isam' = isam
        /\ current'.epoch = current.epoch /\ pc'["registration"] = pc["registration"]
    BY <1>0, <1>6 DEF PushFirstKeyframe, AddKeyframe, graphVars, frameVars, IInv, TypeOK, KeyPose
  <2>2. NewKeyframe \in Keyframe /\ NewKeyframe.epoch = current.epoch
    BY <1>0 DEF NewKeyframe, Keyframe
  <2>3. /\ Len(keyframes') = Len(keyframes) + 1
        /\ keyframes'[Len(keyframes) + 1] = NewKeyframe
        /\ \A i \in 1 .. Len(keyframes) : keyframes'[i] = keyframes[i]
    BY <1>0, <2>1, <2>2, AppendProperties
  <2>4. ASSUME NEW i \in 1 .. Len(keyframes') PROVE keyframes'[i].epoch <= isam.epoch
    <3>1. CASE i \in 1 .. Len(keyframes)
      BY <1>0, <2>3, <3>1 DEF EpochBound
    <3>2. CASE i = Len(keyframes) + 1
      BY <2>2, <2>3, <3>2 DEF EpochBound
    <3> QED
      BY <1>0, <2>3, <2>4, <3>1, <3>2
  <2>5. EpochBound'
    BY <1>2, <2>1, <2>4 DEF EpochBound
  <2> QED
    <3>1. /\ isam'.epoch >= isam.epoch /\ isam'.epoch = isam.epoch
          /\ Len(keyframes') >= Len(keyframes)
          /\ \A i \in 1 .. Len(keyframes) : keyframes'[i].epoch = keyframes[i].epoch
          /\ keyframes'[Len(keyframes) + 1].epoch = current.epoch
      BY <1>0, <2>1, <2>2, <2>3
    <3>2. Busy' <=> Busy
      BY <2>1 DEF Busy
    <3> QED
      BY <1>1, <1>6, <2>3, <2>5, <3>1, <3>2
<1>7. CASE SearchStep \/ \E s \in Sources : StartSearch(s)
  <2>1. /\ isam' = isam /\ current' = current /\ pc'["registration"] = pc["registration"]
        /\ pc'["callback"] = pc["callback"]
    BY <1>0, <1>7, SearchFrame DEF graphVars, frameVars
  <2>2. ~ (PushFirstKeyframe \/ AddKeyframe)
    BY <1>0, <2>1 DEF PushFirstKeyframe, AddKeyframe
  <2>3. Len(keyframes') = Len(keyframes)
    BY <1>0, <2>2, LengthStep
  <2>4. \A i \in 1 .. Len(keyframes) : keyframes'[i].epoch = keyframes[i].epoch
    <3>1. ASSUME NEW P, NEW k, NEW i \in 1 .. Len(keyframes), k \in DOMAIN keyframes,
                 keyframes' = [keyframes EXCEPT ![k].processed = P]
          PROVE  keyframes'[i].epoch = keyframes[i].epoch
      <4>1. keyframes'[i] = keyframes[i] \/ keyframes'[i] = [keyframes[i] EXCEPT !.processed = P]
        BY <1>0, <3>1
      <4>2. [keyframes[i] EXCEPT !.processed = P].epoch = keyframes[i].epoch
        BY <1>0 DEF Keyframe
      <4> QED
        BY <4>1, <4>2
    <3>2. \/ keyframes' = keyframes
          \/ \E k \in DOMAIN keyframes, P \in {keyframes'[j].processed : j \in DOMAIN keyframes} :
               keyframes' = [keyframes EXCEPT ![k].processed = P]
      <4>1. CASE \E s \in Sources : ClaimQuery(s)
        <5>1. PICK s \in Sources : ClaimQuery(s)
          BY <4>1
        <5> DEFINE k == QueryOf(s) + 1
                   P == keyframes[k].processed \cup {s}
        <5>2. keyframes' = [keyframes EXCEPT ![k].processed = P]
          BY <5>1 DEF ClaimQuery
        <5>3. k \in DOMAIN keyframes
          <6>1. keyframes # <<>> /\ search'.query = QueryOf(s) /\ s = search.source
                /\ pc'["search"] \in {"fetch", "enqueue"}
            BY ZenonT(30), <1>0, <5>1 DEF ClaimQuery, MayClaim, IInv, TypeOK, SearchLocals
          <6>2. QueryOf(s) \in 0 .. Len(keyframes') - 1
            BY <1>1, <6>1 DEF KInv, IInv, QueryInv
          <6> QED
            BY <1>0, <2>3, <6>2
        <5> HIDE DEF k, P
        <5>4. keyframes'[k].processed = P
          BY <1>0, <5>2, <5>3 DEF Keyframe
        <5> QED
          BY <5>2, <5>3, <5>4
      <4>2. CASE SettleSearch
        <5> DEFINE k == search.query + 1
                   P == keyframes[k].processed \ {search.source}
        <5>1. keyframes' = keyframes \/ keyframes' = [keyframes EXCEPT ![k].processed = P]
          BY <4>2 DEF SettleSearch
        <5>2. k \in DOMAIN keyframes
          BY <1>0, <4>2 DEF SettleSearch, IInv, QueryInv
        <5> HIDE DEF k, P
        <5>3. keyframes' = [keyframes EXCEPT ![k].processed = P] => keyframes'[k].processed = P
          BY <1>0, <5>2 DEF Keyframe
        <5> QED
          BY <5>1, <5>2, <5>3
      <4>3. CASE ~ ((\E s \in Sources : ClaimQuery(s)) \/ SettleSearch)
        BY <1>7, <4>3 DEF SearchStep, StartSearch, ReadHasAccepted, AbandonSearch,
             FetchCandidates, EnqueueCandidates
      <4> QED
        BY <4>1, <4>2, <4>3
    <3> QED
      BY <3>1, <3>2
  <2> QED
    BY <1>0, <1>1, <1>3, <2>1, <2>3, <2>4 DEF Busy
<1>8. CASE RegistrationStep
  <2>1. /\ isam' = isam /\ current' = current /\ pc'["callback"] = pc["callback"]
        /\ Busy /\ ~Busy' => pc["registration"] = "cooldown"
    BY <1>0, <1>8 DEF RegistrationStep, PopCandidate, RejectLoop, AcceptLoop,
         BeginLoopCorrection, ResetSearches, AddLoopFactor, StartLoopSearchCooldown,
         graphVars, frameVars, Busy
  <2>2. ~ (PushFirstKeyframe \/ AddKeyframe)
    BY <1>0, <2>1 DEF PushFirstKeyframe, AddKeyframe
  <2>3. Len(keyframes') = Len(keyframes)
    BY <1>0, <2>2, LengthStep
  <2>4. \A i \in 1 .. Len(keyframes) : keyframes'[i].epoch = keyframes[i].epoch
    <3>1. CASE keyframes' = keyframes
      BY <3>1
    <3>2. CASE ResetSearches
      <4> DEFINE dropped == reg.discarded \cup {<<pending[s], s>> : s \in Sources}
      <4>1. keyframes' = [i \in DOMAIN keyframes |->
                            [keyframes[i] EXCEPT !.processed =
                               {s \in @ : <<i - 1, s>> \notin dropped}]]
        BY <3>2 DEF ResetSearches
      <4> HIDE DEF dropped
      <4>2. ASSUME NEW i \in 1 .. Len(keyframes)
            PROVE  keyframes'[i].epoch = keyframes[i].epoch
        <5> DEFINE P == {s \in keyframes[i].processed : <<i - 1, s>> \notin dropped}
        <5>1. keyframes'[i] = [keyframes[i] EXCEPT !.processed = P]
          BY <1>0, <4>1
        <5> HIDE DEF P
        <5> QED
          BY <1>0, <5>1 DEF Keyframe
      <4> QED
        BY <4>2
    <3> QED
      BY <1>8, <3>1, <3>2 DEF RegistrationStep, PopCandidate, RejectLoop, AcceptLoop,
           BeginLoopCorrection, AddLoopFactor, StartLoopSearchCooldown
  <2> QED
    BY <1>0, <1>1, <1>3, <2>1, <2>3, <2>4
<1>9. ASSUME NEW t \in {"callback", "registration"}, OptimizeGraph(t)
      PROVE  /\ EpochBound' /\ Len(keyframes') = Len(keyframes)
             /\ isam'.epoch >= isam.epoch /\ (isam'.epoch # isam.epoch => Busy')
             /\ \A i \in 1 .. Len(keyframes) : keyframes'[i].epoch = keyframes[i].epoch
             /\ Busy /\ ~Busy' => pc["registration"] = "cooldown"
  <2>1. /\ keyframes' = keyframes /\ current' = current
        /\ isam'.epoch = isam.epoch + (IF \E f \in graph : f.kind = "loop" THEN 1 ELSE 0)
    BY <1>9 DEF OptimizeGraph, frameVars
  <2>2. isam'.epoch # isam.epoch => pc["registration"] = "apply"
    BY <1>0, <2>1 DEF IInv, EpochInv
  <2>3. \/ pc'["registration"] = pc["registration"]
        \/ pc["registration"] = "apply" /\ pc'["registration"] \in {"rewrite", "cooldown"}
    BY <1>0, <1>9 DEF OptimizeGraph, AfterApply
  <2>4. isam'.epoch \in Nat /\ isam'.epoch >= isam.epoch
    BY <1>0, <2>1
  <2>5. EpochBound'
    BY <1>0, <2>1, <2>4 DEF EpochBound
  <2> QED
    BY <2>1, <2>2, <2>3, <2>4, <2>5 DEF Busy
<1>10. ASSUME NEW t \in {"callback", "registration"}, RewriteKeyframes(t)
       PROVE  /\ EpochBound' /\ Len(keyframes') = Len(keyframes) /\ isam' = isam
              /\ Busy /\ Busy'
  <2>1. /\ isam' = isam /\ current' = current /\ pc[t] = "rewrite"
        /\ keyframes' = [i \in DOMAIN keyframes |->
                           IF InEstimate(i) THEN [keyframes[i] EXCEPT !.epoch = isam.epoch]
                                            ELSE keyframes[i]]
        /\ pc' = [pc EXCEPT ![t] = AfterApply(t)]
    BY <1>10 DEF RewriteKeyframes, frameVars
  <2>2. pc["registration"] \in {"apply", "rewrite"}
    BY <1>0, <1>10, <2>1 DEF IInv, LockInv
  <2>3. Busy /\ Busy'
    BY <1>0, <1>10, <2>1, <2>2 DEF Busy, AfterApply
  <2>4. ASSUME NEW i \in 1 .. Len(keyframes)
        PROVE  keyframes'[i].epoch <= isam.epoch
    <3>1. \/ keyframes'[i] = keyframes[i]
          \/ keyframes'[i] = [keyframes[i] EXCEPT !.epoch = isam.epoch]
      BY <1>0, <2>1
    <3>2. [keyframes[i] EXCEPT !.epoch = isam.epoch].epoch = isam.epoch
      BY <1>0, KeyframeUpdated
    <3>3. keyframes[i].epoch <= isam.epoch
      BY <1>0 DEF EpochBound
    <3>4. CASE keyframes'[i] = keyframes[i]
      BY <3>3, <3>4
    <3>5. CASE keyframes'[i] = [keyframes[i] EXCEPT !.epoch = isam.epoch]
      <4>1. isam.epoch <= isam.epoch
        BY <1>0
      <4> QED
        BY <3>2, <3>5, <4>1
    <3> QED
      BY <3>1, <3>4, <3>5
  <2>5. Len(keyframes') = Len(keyframes)
    <3>1. DOMAIN keyframes' = DOMAIN keyframes
      BY <2>1
    <3>2. \A m, n \in Nat : 1 .. m = 1 .. n => m = n
      OBVIOUS
    <3> QED
      BY <1>0, <1>2, <3>1, <3>2
  <2> QED
    BY <1>0, <1>2, <2>1, <2>3, <2>4, <2>5 DEF EpochBound
<1>11. CASE \E t \in {"callback", "registration"} : ApplyStep(t)
  <2>1. /\ EpochBound' /\ Len(keyframes') = Len(keyframes) /\ isam'.epoch >= isam.epoch
        /\ isam'.epoch # isam.epoch => Busy'
        /\ \A i \in 1 .. Len(keyframes) : keyframes'[i].epoch # keyframes[i].epoch => Busy'
        /\ Busy /\ ~Busy' => pc["registration"] = "cooldown"
    <3>1. CASE \E t \in {"callback", "registration"} : RewriteKeyframes(t)
      BY <1>0, <1>10, <3>1
    <3>2. CASE \E t \in {"callback", "registration"} : OptimizeGraph(t)
      BY <1>9, <3>2
    <3> QED
      BY <1>11, <3>1, <3>2 DEF ApplyStep
  <2> QED
    BY <1>1, <1>2, <2>1
<1> QED
  BY <1>4, <1>5, <1>6, <1>7, <1>8, <1>11 DEF Next, CallbackStep

-----------------------------------------------------------------------------
(* The outputs *)

(***************************************************************************)
(* A step of the back end under the outputs: what makes a scan or a pose   *)
(* stale is busy, and when it ends it has announced itself in tail.        *)
(***************************************************************************)
LEMMA OutputsUnderStep ==
    ASSUME OInv, [Next]_vars, UNCHANGED <<needMapUpdate, needGraphVis, map, vis>>,
           tail' = (IF Busy /\ ~Busy' THEN "map" ELSE tail),
           path' = (IF Len(keyframes') > Len(keyframes) THEN Append(path, current.epoch)
                                                        ELSE path),
           Len(keyframes') > Len(keyframes) => VisIdle,
           vis.stage # "idle" => pc'["callback"] = "idle" /\ isInitialized',
           tail' # "none" => Len(keyframes) >= 2
    PROVE  OInv'
<1>0. /\ KInv /\ EpochBound /\ tail \in {"none", "map", "graph"}
      /\ needMapUpdate \in BOOLEAN /\ needGraphVis \in BOOLEAN
  BY DEF OInv
<1>1. /\ Len(keyframes) \in Nat /\ Len(keyframes') \in Nat
      /\ isam.epoch \in Nat /\ isam'.epoch \in Nat /\ current.epoch \in Nat
      /\ \A i \in 1 .. Len(keyframes) : keyframes[i].epoch \in Nat
      /\ \A i \in 1 .. Len(keyframes') : keyframes'[i].epoch \in Nat
  <2>1. keyframes' \in Seq(Keyframe) /\ isam'.epoch \in Nat
    BY <1>0, BackEndStep DEF KInv, IInv, TypeOK, Estimate
  <2>2. Len(keyframes') \in Nat /\ \A i \in 1 .. Len(keyframes') : keyframes'[i] \in Keyframe
    BY <2>1, LenProperties, ElementOfSeq
  <2>3. \A k \in Keyframe : k.epoch \in Nat
    BY DEF Keyframe
  <2> QED
    BY <1>0, <2>1, <2>2, <2>3, OutputTypes
<1>2. /\ KInv' /\ EpochBound'
      /\ Len(keyframes') >= Len(keyframes)
      /\ isam'.epoch >= isam.epoch
      /\ isam'.epoch # isam.epoch => Busy'
      /\ \A i \in 1 .. Len(keyframes) : keyframes'[i].epoch # keyframes[i].epoch => Busy'
      /\ Len(keyframes') # Len(keyframes) =>
           /\ Len(keyframes') = Len(keyframes) + 1
           /\ keyframes'[Len(keyframes) + 1].epoch = current.epoch
  BY <1>0, BackEndStep
<1>3. tail' \in {"none", "map", "graph"}
  BY <1>0
<1>4. Busy => Busy' \/ tail' = "map"
  OBVIOUS
<1>5. tail # "none" => tail' # "none"
  BY <1>0
<1>6. tail = "map" => tail' = "map"
  OBVIOUS
<1>7. VisInv'
  <2>1. VisInv /\ vis' = vis
    BY DEF OInv
  <2>2. vis.stage = "write" =>
          /\ vis.count = Len(keyframes') /\ vis.epoch \in Nat /\ vis.epoch <= isam'.epoch
          /\ vis.epoch # isam'.epoch => Busy' \/ tail' # "none" \/ needGraphVis
    BY <1>1, <1>2, <1>4, <1>5, <2>1 DEF VisInv, VisIdle
  <2>3. needGraphVis \/ tail' # "none" \/ vis.stage # "idle" => Len(keyframes') >= 2
    BY <1>1, <1>2, <2>1 DEF VisInv
  <2> QED
    BY <2>1, <2>2, <2>3 DEF VisInv
<1>8. MapInv'
  <2>1. MapInv /\ map' = map
    BY DEF OInv
  <2>2. Len(map) \in Nat /\ Len(map) <= Len(keyframes) /\ map \in Seq(Nat)
    BY <2>1, LenProperties DEF MapInv
  <2>3. ASSUME NEW i \in 1 .. Len(map), map[i] # keyframes'[i].epoch
        PROVE  needMapUpdate \/ Busy' \/ tail' = "map"
    <3>1. i \in 1 .. Len(keyframes)
      BY <1>1, <2>2
    <3>2. CASE keyframes'[i].epoch # keyframes[i].epoch
      BY <1>2, <3>1, <3>2
    <3>3. CASE keyframes'[i].epoch = keyframes[i].epoch
      BY <1>4, <1>6, <2>1, <2>3, <3>3 DEF MapInv
    <3> QED
      BY <3>2, <3>3
  <2>4. Len(map) <= Len(keyframes')
    BY <1>1, <1>2, <2>2
  <2> QED
    BY <2>1, <2>2, <2>3, <2>4 DEF MapInv
<1>9. PathInv'
  <2>1. PathInv /\ vis' = vis /\ needGraphVis' = needGraphVis
    BY DEF OInv
  <2>2. /\ path \in Seq(Nat) /\ Len(path) = Len(keyframes)
        /\ \A i \in 1 .. Len(path) : path[i] \in Nat
    BY <2>1, ElementOfSeq DEF PathInv
  <2>3. /\ path' \in Seq(Nat) /\ Len(path') = Len(keyframes')
        /\ \A i \in 1 .. Len(keyframes) : path'[i] = path[i]
        /\ Len(keyframes') # Len(keyframes) => path'[Len(keyframes) + 1] = current.epoch
    <3>1. CASE Len(keyframes') > Len(keyframes)
      BY <1>1, <1>2, <2>2, <3>1, AppendProperties
    <3>2. CASE ~ (Len(keyframes') > Len(keyframes))
      BY <1>1, <1>2, <2>2, <3>2
    <3> QED
      BY <3>1, <3>2
  <2>4. ASSUME NEW i \in 1 .. Len(path'), path'[i] < keyframes'[i].epoch
        PROVE  \/ Busy' \/ tail' # "none" \/ needGraphVis
               \/ vis.stage = "copy" \/ (vis.stage = "write" /\ vis.epoch = isam'.epoch)
    <3>1. CASE i \in 1 .. Len(keyframes) /\ keyframes'[i].epoch = keyframes[i].epoch
      <4>1. path[i] < keyframes[i].epoch /\ i \in 1 .. Len(path)
        BY <2>2, <2>3, <2>4, <3>1
      <4>2. \/ Busy \/ tail # "none" \/ needGraphVis
            \/ vis.stage = "copy" \/ (vis.stage = "write" /\ vis.epoch = isam.epoch)
        BY <2>1, <4>1 DEF PathInv
      <4> QED
        BY <1>2, <1>4, <1>5, <4>2
    <3>2. CASE i \in 1 .. Len(keyframes) /\ keyframes'[i].epoch # keyframes[i].epoch
      BY <1>2, <3>2
    <3>3. CASE i \notin 1 .. Len(keyframes)
      <4>1. i = Len(keyframes) + 1 /\ Len(keyframes') # Len(keyframes)
        BY <1>1, <1>2, <2>3, <3>3
      <4>2. path'[i] = current.epoch /\ keyframes'[i].epoch = current.epoch
        BY <1>2, <2>3, <4>1
      <4>3. FALSE
        BY <1>1, <2>4, <4>2
      <4> QED
        BY <4>3
    <3> QED
      BY <3>1, <3>2, <3>3
  <2> QED
    BY <2>1, <2>3, <2>4 DEF PathInv
<1> QED
  BY <1>0, <1>2, <1>3, <1>7, <1>8, <1>9 DEF OInv

LEMMA RunSteps ==
    ASSUME OInv, RunCallback \/ RunRegistration \/ RunSearch
    PROVE  OInv'
<1> USE DEF Threads, Goto
<1>0. /\ KInv /\ IInv /\ VisInv /\ tail \in {"none", "map", "graph"}
      /\ pc \in [Threads -> CallbackLabels \cup SearchLabels \cup RegistrationLabels]
      /\ Len(keyframes) \in Nat
  BY OutputTypes DEF OInv, KInv
<1>1. CASE RunCallback
  <2>1. /\ [Next]_vars /\ VisIdle
        /\ UNCHANGED <<needMapUpdate, needGraphVis, map, vis, tail>>
        /\ path' = (IF Len(keyframes') > Len(keyframes) THEN Append(path, current.epoch)
                                                        ELSE path)
    BY <1>1 DEF RunCallback, Next
  <2>2. pc'["registration"] = pc["registration"]
    BY <1>0, <1>1 DEF RunCallback, CallbackStep, ReceiveFrame, PushFirstKeyframe,
       AddPriorFactor, SkipFrame, AddKeyframe, ApplyStep, OptimizeGraph, RewriteKeyframes
  <2>3. tail' = (IF Busy /\ ~Busy' THEN "map" ELSE tail)
    BY <2>1, <2>2 DEF Busy
  <2> QED
    BY <1>0, <2>1, <2>3, OutputsUnderStep DEF VisIdle, VisInv
<1>2. CASE RunSearch \/ RunRegistration
  <2>1. /\ [Next]_vars /\ UNCHANGED <<needMapUpdate, needGraphVis, map, vis, path>>
    BY <1>2 DEF RunSearch, RunRegistration, Next, outputVars
  <2>2. pc'["callback"] = pc["callback"] /\ isInitialized' = isInitialized
    <3>1. CASE SearchStep \/ \E s \in Sources : StartSearch(s)
      BY <3>1, <1>0, SearchFrame DEF frameVars
    <3>2. CASE RegistrationStep
      BY <1>0, <3>2 DEF RegistrationStep, PopCandidate, RejectLoop, AcceptLoop,
         BeginLoopCorrection, ResetSearches, AddLoopFactor, StartLoopSearchCooldown, frameVars
    <3>3. CASE ApplyStep("registration") \/ CooldownExpires
      BY <1>0, <3>3 DEF ApplyStep, OptimizeGraph, RewriteKeyframes, CooldownExpires, frameVars
    <3> QED
      BY <1>2, <3>1, <3>2, <3>3 DEF RunSearch, RunRegistration
  <2>3. Len(keyframes') = Len(keyframes)
    <3>1. ~ (PushFirstKeyframe \/ AddKeyframe)
      BY <1>0, <2>2 DEF PushFirstKeyframe, AddKeyframe
    <3> QED
      BY <1>0, <2>1, <3>1, LengthStep
  <2>4. tail' = (IF Busy /\ ~Busy' THEN "map" ELSE tail)
    <3>1. CASE RunSearch
      <4>1. pc'["registration"] = pc["registration"] /\ tail' = tail
        BY <1>0, <3>1, SearchFrame DEF RunSearch, CooldownExpires, outputVars
      <4> QED
        BY <4>1 DEF Busy
    <3>2. CASE RunRegistration
      <4>1. tail = "none" /\ tail' = IF pc["registration"] = "cooldown" THEN "map" ELSE "none"
        BY <3>2 DEF RunRegistration
      <4>2. pc["registration"] = "cooldown" => Busy /\ ~Busy'
        BY <1>0, <3>2 DEF RunRegistration, RegistrationStep, PopCandidate, RejectLoop,
           AcceptLoop, BeginLoopCorrection, ResetSearches, AddLoopFactor,
           StartLoopSearchCooldown, ApplyStep, OptimizeGraph, RewriteKeyframes, Busy
      <4>3. Busy /\ ~Busy' => pc["registration"] = "cooldown"
        BY <2>1, BackEndStep DEF OInv
      <4> QED
        BY <4>1, <4>2, <4>3
    <3> QED
      BY <1>2, <3>1, <3>2
  <2>5. tail' # "none" => Len(keyframes) >= 2
    <3>1. CASE Busy
      <4>1. reg.query \in 1 .. Len(keyframes) - 1
        BY <1>0, <3>1 DEF Busy, KInv, LoopInv
      <4> QED
        BY <1>0, <4>1
    <3>2. CASE ~Busy
      BY <1>0, <2>4, <3>2 DEF VisInv
    <3> QED
      BY <3>1, <3>2
  <2> QED
    BY <1>0, <2>1, <2>2, <2>3, <2>4, <2>5, OutputsUnderStep DEF VisInv
<1> QED
  BY <1>1, <1>2

LEMMA EpochsFromProperties ==
    ASSUME KInv, NEW first \in 0 .. Len(keyframes)
    PROVE  /\ EpochsFrom(first) \in Seq(Nat)
           /\ Len(EpochsFrom(first)) = Len(keyframes) - first
           /\ \A i \in 1 .. Len(keyframes) - first :
                EpochsFrom(first)[i] = keyframes[first + i].epoch
<1>1. /\ Len(keyframes) \in Nat /\ Len(keyframes) - first \in Nat
      /\ \A i \in 1 .. Len(keyframes) : keyframes[i].epoch \in Nat
  BY OutputTypes
<1>2. \A i \in 1 .. Len(keyframes) - first : first + i \in 1 .. Len(keyframes)
  BY <1>1
<1>3. EpochsFrom(first) \in [1 .. Len(keyframes) - first -> Nat]
  BY <1>1, <1>2 DEF EpochsFrom
<1> QED
  BY <1>1, <1>3, FunctionIsSeq DEF EpochsFrom

LEMMA BuildMapStep ==
    ASSUME OInv, BuildMap PROVE OInv'
<1>0. /\ KInv /\ MapInv /\ needMapUpdate \in BOOLEAN /\ needMapUpdate' = FALSE
      /\ UNCHANGED <<vars, needGraphVis, tail, path, vis>> /\ map' = MapAfterBuild
  BY DEF OInv, BuildMap
<1>1. /\ Len(keyframes) \in Nat /\ map \in Seq(Nat) /\ Len(map) \in 0 .. Len(keyframes)
      /\ keyframes' = keyframes /\ pc' = pc /\ isam' = isam
      /\ current' = current /\ isInitialized' = isInitialized
  BY <1>0, OutputTypes, LenProperties DEF MapInv, vars, graphVars, frameVars
<1>2. MapInv'
  <2>1. CASE needMapUpdate
    <3>1. map' = EpochsFrom(0)
      BY <1>0, <2>1 DEF MapAfterBuild
    <3>2. /\ map' \in Seq(Nat) /\ Len(map') = Len(keyframes)
          /\ \A i \in 1 .. Len(keyframes) : map'[i] = keyframes[i].epoch
      BY <1>0, <1>1, <3>1, EpochsFromProperties
    <3> QED
      BY <1>1, <3>2 DEF MapInv
  <2>2. CASE ~needMapUpdate
    <3> DEFINE added == EpochsFrom(Len(map))
    <3>1. map' = map \o added
      BY <1>0, <2>2 DEF MapAfterBuild
    <3>2. /\ added \in Seq(Nat) /\ Len(added) = Len(keyframes) - Len(map)
          /\ \A i \in 1 .. Len(keyframes) - Len(map) : added[i] = keyframes[Len(map) + i].epoch
      BY <1>0, <1>1, EpochsFromProperties
    <3> HIDE DEF added
    <3>3. /\ map \o added \in Seq(Nat) /\ Len(map \o added) = Len(map) + Len(added)
          /\ \A i \in 1 .. Len(map) + Len(added) : (map \o added)[i] =
               IF i <= Len(map) THEN map[i] ELSE added[i - Len(map)]
      BY <1>1, <3>2, ConcatProperties
    <3>4. Len(map \o added) = Len(keyframes)
      BY <1>1, <3>2, <3>3
    <3>5. ASSUME NEW i \in 1 .. Len(keyframes), (map \o added)[i] # keyframes[i].epoch
          PROVE  Busy \/ tail = "map"
      <4>1. CASE i <= Len(map)
        <5>1. i \in 1 .. Len(map) /\ map[i] # keyframes[i].epoch
          BY <1>1, <3>2, <3>3, <3>5, <4>1
        <5> QED
          BY <1>0, <2>2, <5>1 DEF MapInv
      <4>2. CASE i > Len(map)
        <5> DEFINE k == i - Len(map)
        <5>1. k \in 1 .. Len(keyframes) - Len(map) /\ Len(map) + k = i
          BY <1>1, <4>2
        <5>2. (map \o added)[i] = added[k]
          BY <1>1, <3>2, <3>3, <4>2
        <5> HIDE DEF k
        <5>3. added[k] = keyframes[i].epoch
          BY <3>2, <5>1
        <5> QED
          BY <3>5, <5>2, <5>3
      <4> QED
        BY <1>1, <4>1, <4>2
    <3> QED
      BY <1>0, <1>1, <3>1, <3>3, <3>4, <3>5 DEF MapInv, Busy
  <2> QED
    BY <2>1, <2>2
<1>3. KInv'
  <2>1. UNCHANGED vars /\ [Next]_vars
    BY <1>0
  <2> QED
    BY <2>1, BackEndStep DEF OInv
<1> QED
  BY <1>0, <1>1, <1>2, <1>3 DEF OInv, EpochBound, VisInv, PathInv, Busy

LEMMA VisualizationSteps ==
    ASSUME OInv, MarkMap \/ MarkGraph \/ StartVisualization \/ CopyEstimate \/ WritePath
    PROVE  OInv'
<1>0. /\ KInv /\ EpochBound /\ VisInv /\ MapInv /\ PathInv
      /\ needMapUpdate \in BOOLEAN /\ needGraphVis \in BOOLEAN
      /\ tail \in {"none", "map", "graph"}
  BY DEF OInv
<1>1. UNCHANGED vars /\ [Next]_vars
  BY DEF MarkMap, MarkGraph, StartVisualization, CopyEstimate, WritePath
<1>2. /\ KInv' /\ EpochBound'
      /\ keyframes' = keyframes /\ pc' = pc /\ isam' = isam
      /\ current' = current /\ isInitialized' = isInitialized /\ (Busy' <=> Busy)
  BY <1>0, <1>1, BackEndStep DEF vars, graphVars, frameVars, Busy
<1>3. Len(keyframes) \in Nat /\ isam.epoch \in Nat /\ IInv
      /\ \A i \in 1 .. Len(keyframes) : keyframes[i].epoch \in Nat
      /\ DOMAIN keyframes = 1 .. Len(keyframes)
  BY <1>0, OutputTypes DEF KInv
<1>4. CASE MarkMap
  <2>1. tail = "map" /\ needMapUpdate' = TRUE /\ tail' = "graph"
        /\ UNCHANGED <<needGraphVis, map, path, vis>>
    BY <1>4 DEF MarkMap
  <2> QED
    BY <1>0, <1>2, <2>1 DEF OInv, VisInv, MapInv, PathInv
<1>5. CASE MarkGraph
  <2>1. tail = "graph" /\ needGraphVis' = TRUE /\ tail' = "none"
        /\ UNCHANGED <<needMapUpdate, map, path, vis>>
    BY <1>5 DEF MarkGraph
  <2> QED
    BY <1>0, <1>2, <2>1 DEF OInv, VisInv, MapInv, PathInv
<1>6. CASE StartVisualization
  <2>1. /\ VisIdle /\ pc["callback"] = "idle" /\ isInitialized /\ needGraphVis
        /\ needGraphVis' = FALSE /\ vis' = [vis EXCEPT !.stage = "copy"]
        /\ UNCHANGED <<needMapUpdate, tail, map, path>>
    BY <1>6 DEF StartVisualization, DefaultGroupFree
  <2>2. vis'.stage = "copy" /\ vis' \in [stage : {"idle", "copy", "write"}, epoch : Nat, count : Nat]
    BY <1>0, <2>1 DEF VisInv
  <2> QED
    BY <1>0, <1>2, <2>1, <2>2 DEF OInv, VisInv, MapInv, PathInv
<1>7. CASE CopyEstimate
  <2>1. /\ vis.stage = "copy" /\ vis'.stage = "write" /\ vis'.epoch = isam.epoch
        /\ vis'.count = IF Len(isam.keys) <= Len(keyframes) THEN Len(isam.keys)
                                                            ELSE Len(keyframes)
        /\ UNCHANGED <<needMapUpdate, needGraphVis, tail, map, path>>
    BY <1>7 DEF CopyEstimate
  <2>2. Len(isam.keys) = Len(keyframes)
    <3>1. pc["callback"] = "idle" /\ Len(keyframes) >= 2
      BY <1>0, <2>1 DEF VisInv
    <3>2. ~pendingKeyframe /\ pendingKeyframe \in BOOLEAN
      BY <1>0, <1>3, <3>1 DEF KInv, DeltaInv, IInv, TypeOK
    <3>3. initEsti = <<>> /\ Len(initEsti) = 0
      BY <1>0, <1>3, <3>1, <3>2, EmptySeq DEF KInv, DeltaInv
    <3> QED
      BY <1>0, <1>3, <3>1, <3>3, KeyTypes DEF KInv, KeyInv, Known
  <2>3. vis' = [stage |-> "write", epoch |-> isam.epoch, count |-> Len(keyframes)]
    BY <1>7, <2>2 DEF CopyEstimate
  <2>4. vis' \in [stage : {"idle", "copy", "write"}, epoch : Nat, count : Nat]
    BY <1>3, <2>3
  <2> QED
    BY <1>0, <1>2, <1>3, <2>1, <2>2, <2>3, <2>4 DEF OInv, VisInv, MapInv, PathInv
<1>8. CASE WritePath
  <2>1. /\ vis.stage = "write" /\ vis' = IdleVis
        /\ path' = [i \in 1 .. vis.count |-> vis.epoch]
        /\ UNCHANGED <<needMapUpdate, needGraphVis, tail, map>>
    BY <1>8 DEF WritePath
  <2>2. /\ vis.count = Len(keyframes) /\ vis.epoch \in Nat
        /\ vis.epoch # isam.epoch => Busy \/ tail # "none" \/ needGraphVis
        /\ Len(keyframes) >= 2
    BY <1>0, <2>1 DEF VisInv
  <2>3. path' \in [1 .. Len(keyframes) -> Nat]
    BY <2>1, <2>2
  <2>4. path' \in Seq(Nat) /\ Len(path') = Len(keyframes)
    BY <1>3, <2>3, FunctionIsSeq
  <2>5. ASSUME NEW i \in 1 .. Len(keyframes), path'[i] < keyframes[i].epoch
        PROVE  Busy \/ tail # "none" \/ needGraphVis
    <3>1. path'[i] = vis.epoch /\ keyframes[i].epoch <= isam.epoch
      BY <1>0, <1>3, <2>1, <2>2 DEF EpochBound
    <3>2. vis.epoch # isam.epoch
      BY <1>3, <2>2, <2>5, <3>1
    <3> QED
      BY <2>2, <3>2
  <2>6. vis'.stage = "idle" /\ vis' \in [stage : {"idle", "copy", "write"}, epoch : Nat, count : Nat]
    BY <2>1 DEF IdleVis
  <2>7. PathInv'
    BY <1>2, <2>1, <2>4, <2>5 DEF PathInv
  <2> QED
    BY <1>0, <1>2, <2>1, <2>2, <2>6, <2>7 DEF OInv, VisInv, MapInv
<1> QED
  BY <1>4, <1>5, <1>6, <1>7, <1>8

LEMMA OutputsInvariant == SpecOutputs => []OInv
<1>1. InitOutputs => OInv
  <2> SUFFICES ASSUME InitOutputs PROVE OInv
    OBVIOUS
  <2>1. Len(<<>>) = 0 /\ <<>> \in Seq(Nat) /\ DOMAIN <<>> = {}
    BY EmptySeq
  <2>2. KInv
    BY InitKInv DEF InitOutputs
  <2>3. vis \in [stage : {"idle", "copy", "write"}, epoch : Nat, count : Nat] /\ vis.stage = "idle"
    BY DEF InitOutputs, IdleVis
  <2>4. EpochBound
    BY <2>1 DEF InitOutputs, Init, EpochBound
  <2>5. VisInv
    BY <2>1, <2>3 DEF InitOutputs, VisInv
  <2>6. MapInv /\ PathInv
    BY <2>1 DEF InitOutputs, Init, MapInv, PathInv
  <2> QED
    BY <2>2, <2>4, <2>5, <2>6 DEF InitOutputs, OInv
<1>2. OInv /\ [NextOutputs]_allVars => OInv'
  <2> SUFFICES ASSUME OInv, [NextOutputs]_allVars PROVE OInv'
    OBVIOUS
  <2>1. CASE UNCHANGED allVars
    <3>1. UNCHANGED vars /\ [Next]_vars /\ UNCHANGED outputVars
      BY <2>1 DEF allVars
    <3>2. KInv'
      BY <3>1, BackEndStep DEF OInv
    <3> QED
      BY <3>1, <3>2 DEF vars, graphVars, frameVars, outputVars, OInv, EpochBound, VisInv,
         MapInv, PathInv, Busy
  <2> QED
    BY <2>1, RunSteps, BuildMapStep, VisualizationSteps DEF NextOutputs
<1> QED
  BY <1>1, <1>2, PTL DEF SpecOutputs

(***************************************************************************)
(* need_map_update_ (pose_graph_manager.cpp): buildMap may consume the flag*)
(* at any moment of a registration; no scan keeps a place that its         *)
(* keyframe has left.                                                      *)
(***************************************************************************)
THEOREM StaleMapsAreMarked == SpecOutputs => []StaleMapMarked
<1>1. OInv => StaleMapMarked
  <2>1. ASSUME OInv, NEW i \in DOMAIN map, map[i] # keyframes[i].epoch
        PROVE  needMapUpdate \/ pc["registration"] # "idle" \/ tail = "map"
    <3>1. i \in 1 .. Len(map)
      BY <2>1, LenProperties DEF OInv, MapInv
    <3> QED
      BY <2>1, <3>1 DEF OInv, MapInv, Busy
  <2> QED
    BY <2>1 DEF StaleMapMarked, StaleMap
<1> QED
  BY <1>1, OutputsInvariant, PTL

(***************************************************************************)
(* need_graph_vis_update_: visualizePoseGraph clears it before it copies   *)
(* the estimate, so a correction that comes in between is drawn again.     *)
(***************************************************************************)
THEOREM StalePathsAreMarked == SpecOutputs => []StalePathMarked
<1>1. OInv => StalePathMarked
  <2>1. ASSUME OInv, NEW i \in DOMAIN path, path[i] < keyframes[i].epoch
        PROVE  \/ needGraphVis \/ pc["registration"] # "idle" \/ tail # "none"
               \/ vis.stage = "copy" \/ (vis.stage = "write" /\ vis.epoch = isam.epoch)
    <3>1. i \in 1 .. Len(path)
      BY <2>1, LenProperties DEF OInv, PathInv
    <3> QED
      BY <2>1, <3>1 DEF OInv, PathInv, Busy
  <2> QED
    BY <2>1 DEF StalePathMarked, StalePath
<1> QED
  BY <1>1, OutputsInvariant, PTL

(***************************************************************************)
(* The redraw replaces the path by as many poses as the estimate has: with *)
(* the default group at rest, as many as there are keyframes.              *)
(***************************************************************************)
THEOREM PathsAreComplete == SpecOutputs => []PathCoversKeyframes
<1>1. OInv => PathCoversKeyframes
  BY DEF OInv, PathInv, PathCoversKeyframes
<1> QED
  BY <1>1, OutputsInvariant, PTL

-----------------------------------------------------------------------------
(* The order of the locks *)

(***************************************************************************)
(* How deep a mutex stands in the sections of the callbacks.  A mutex is   *)
(* only locked by a group all of whose mutexes are less deep, and only the *)
(* deepest is unlocked: what lock_guard scopes do that keep to this order. *)
(***************************************************************************)
Depth(m) == CASE m = "registration" -> 0
              [] m \in {"lc", "graph"} -> 1
              [] OTHER -> 2

Below(A, m) == \A a \in A : Depth(a) < Depth(m)

LockOps == [op : {"lock", "unlock"}, mutex : Mutexes]

Takes(A, step, B) ==
    \/ step.op = "lock" /\ Below(A, step.mutex) /\ B = A \cup {step.mutex}
    \/ step.op = "unlock" /\ step.mutex \in A /\ Below(B, step.mutex)
         /\ B = A \ {step.mutex}

(***************************************************************************)
(* A program leads from one set of locked mutexes to another, in order.    *)
(***************************************************************************)
Leads(A, program, B) ==
    \E h \in [0 .. Len(program) -> SUBSET Mutexes] :
        /\ h[0] = A /\ h[Len(program)] = B
        /\ \A k \in 1 .. Len(program) : Takes(h[k - 1], program[k], h[k])

(***************************************************************************)
(* Nothing to do leads nowhere else.                                       *)
(***************************************************************************)
LEMMA LeadsNowhere ==
    ASSUME NEW A \in SUBSET Mutexes
    PROVE  /\ Leads(A, <<>>, A)
           /\ \A B : Leads(A, <<>>, B) => B = A
<1>1. Leads(A, <<>>, A)
  <2> DEFINE h == [k \in 0 .. 0 |-> A]
  <2>1. h \in [0 .. Len(<<>>) -> SUBSET Mutexes] /\ h[0] = A /\ h[Len(<<>>)] = A
    OBVIOUS
  <2>2. 1 .. Len(<<>>) = {}
    OBVIOUS
  <2> QED
    BY <2>1, <2>2 DEF Leads
<1>2. \A B : Leads(A, <<>>, B) => B = A
  BY DEF Leads
<1> QED
  BY <1>1, <1>2

(***************************************************************************)
(* One step is a program.                                                  *)
(***************************************************************************)
LEMMA LeadsInOneStep ==
    ASSUME NEW A \in SUBSET Mutexes, NEW B \in SUBSET Mutexes, NEW step \in LockOps,
           Takes(A, step, B)
    PROVE  Leads(A, <<step>>, B)
<1> DEFINE h == [k \in 0 .. 1 |-> IF k = 0 THEN A ELSE B]
<1>1. Len(<<step>>) = 1 /\ <<step>>[1] = step
  OBVIOUS
<1>2. h \in [0 .. 1 -> SUBSET Mutexes] /\ h[0] = A /\ h[1] = B
  OBVIOUS
<1>3. \A k \in 1 .. 1 : k = 1 /\ k - 1 = 0
  OBVIOUS
<1> HIDE DEF h
<1> QED
  BY <1>1, <1>2, <1>3 DEF Leads

(***************************************************************************)
(* Programs one after the other.                                           *)
(***************************************************************************)
LEMMA LeadsOn ==
    ASSUME NEW A, NEW B, NEW C, NEW s \in Seq(LockOps), NEW t \in Seq(LockOps),
           Leads(A, s, B), Leads(B, t, C)
    PROVE  Leads(A, s \o t, C)
<1>1. PICK f \in [0 .. Len(s) -> SUBSET Mutexes] :
        /\ f[0] = A /\ f[Len(s)] = B
        /\ \A k \in 1 .. Len(s) : Takes(f[k - 1], s[k], f[k])
  BY DEF Leads
<1>2. PICK g \in [0 .. Len(t) -> SUBSET Mutexes] :
        /\ g[0] = B /\ g[Len(t)] = C
        /\ \A k \in 1 .. Len(t) : Takes(g[k - 1], t[k], g[k])
  BY DEF Leads
<1>3. /\ Len(s) \in Nat /\ Len(t) \in Nat /\ Len(s \o t) = Len(s) + Len(t)
      /\ \A k \in 1 .. Len(s) + Len(t) :
           (s \o t)[k] = IF k <= Len(s) THEN s[k] ELSE t[k - Len(s)]
  OBVIOUS
<1> DEFINE n == Len(s)
           h == [k \in 0 .. n + Len(t) |-> IF k <= n THEN f[k] ELSE g[k - n]]
<1>4. h \in [0 .. n + Len(t) -> SUBSET Mutexes]
  BY <1>1, <1>2, <1>3
<1>5. h[0] = A /\ h[n + Len(t)] = C
  BY <1>1, <1>2, <1>3
<1>6. ASSUME NEW k \in 1 .. n + Len(t) PROVE Takes(h[k - 1], (s \o t)[k], h[k])
  <2>1. CASE k <= n
    <3>1. h[k - 1] = f[k - 1] /\ h[k] = f[k] /\ (s \o t)[k] = s[k] /\ k \in 1 .. Len(s)
      BY <1>3, <2>1
    <3> QED
      BY <1>1, <3>1
  <2>2. CASE k > n
    <3>1. k - n \in 1 .. Len(t) /\ (s \o t)[k] = t[k - n] /\ h[k] = g[k - n]
      BY <1>3, <2>2
    <3>2. h[k - 1] = g[(k - n) - 1]
      <4>1. CASE k = n + 1
        <5>1. k - 1 = n /\ (k - n) - 1 = 0 /\ k - 1 \in 0 .. n + Len(t)
          BY <1>3, <4>1
        <5>2. h[k - 1] = f[n]
          BY <1>3, <5>1
        <5> QED
          BY <1>1, <1>2, <5>1, <5>2
      <4>2. CASE k # n + 1
        <5>1. k - 1 \in 0 .. n + Len(t) /\ ~ (k - 1 <= n) /\ (k - 1) - n = (k - n) - 1
          BY <1>3, <2>2, <4>2
        <5> QED
          BY <5>1
      <4> QED
        BY <4>1, <4>2
    <3> QED
      BY <1>2, <3>1, <3>2
  <2> QED
    BY <1>3, <2>1, <2>2
<1> HIDE DEF h
<1> QED
  BY <1>3, <1>4, <1>5, <1>6 DEF Leads

(***************************************************************************)
(* The first step, and what is left of a program after it.                 *)
(***************************************************************************)
LEMMA LeadsByFirst ==
    ASSUME NEW A, NEW C, NEW s \in Seq(LockOps), s # <<>>, Leads(A, s, C)
    PROVE  \E B \in SUBSET Mutexes : Takes(A, Head(s), B) /\ Leads(B, Tail(s), C)
<1>1. PICK f \in [0 .. Len(s) -> SUBSET Mutexes] :
        /\ f[0] = A /\ f[Len(s)] = C
        /\ \A k \in 1 .. Len(s) : Takes(f[k - 1], s[k], f[k])
  BY DEF Leads
<1>2. /\ Len(s) \in Nat \ {0} /\ Head(s) = s[1] /\ Len(Tail(s)) = Len(s) - 1
      /\ \A k \in 1 .. Len(s) - 1 : Tail(s)[k] = s[k + 1]
  OBVIOUS
<1> DEFINE h == [k \in 0 .. Len(s) - 1 |-> f[k + 1]]
<1>3. f[1] \in SUBSET Mutexes /\ Takes(A, Head(s), f[1])
  <2>1. 1 \in 1 .. Len(s) /\ 1 \in 0 .. Len(s) /\ 1 - 1 = 0
    BY <1>2
  <2> QED
    BY <1>1, <1>2, <2>1
<1>4. h \in [0 .. Len(s) - 1 -> SUBSET Mutexes]
  BY <1>1, <1>2
<1>5. h[0] = f[1] /\ h[Len(s) - 1] = C
  BY <1>1, <1>2
<1>6. ASSUME NEW k \in 1 .. Len(s) - 1 PROVE Takes(h[k - 1], Tail(s)[k], h[k])
  <2>1. k + 1 \in 1 .. Len(s) /\ (k + 1) - 1 = k /\ h[k - 1] = f[k] /\ h[k] = f[k + 1]
    BY <1>2
  <2> QED
    BY <1>1, <1>2, <2>1
<1> HIDE DEF h
<1>7. Leads(f[1], Tail(s), C)
  BY <1>2, <1>4, <1>5, <1>6 DEF Leads
<1> QED
  BY <1>3, <1>7

-----------------------------------------------------------------------------
(* The callbacks *)

(***************************************************************************)
(* A program that can be run with the mutexes A locked, and leaves them.   *)
(***************************************************************************)
Keeps(A, program) == program \in Seq(LockOps) /\ Leads(A, program, A)

(***************************************************************************)
(* Sections one after the other, and one around another.                   *)
(***************************************************************************)
LEMMA KeepsBoth ==
    ASSUME NEW A, NEW s, NEW t, Keeps(A, s), Keeps(A, t)
    PROVE  Keeps(A, s \o t)
<1>1. s \in Seq(LockOps) /\ t \in Seq(LockOps)
  BY DEF Keeps
<1>2. s \o t \in Seq(LockOps)
  BY <1>1
<1>3. Leads(A, s \o t, A)
  BY <1>1, LeadsOn DEF Keeps
<1> QED
  BY <1>2, <1>3 DEF Keeps

LEMMA KeepsNothing ==
    ASSUME NEW A \in SUBSET Mutexes
    PROVE  Keeps(A, <<>>)
<1>1. <<>> \in Seq(LockOps)
  OBVIOUS
<1> QED
  BY <1>1, LeadsNowhere DEF Keeps

LEMMA KeepsScope ==
    ASSUME NEW A \in SUBSET Mutexes, NEW m \in Mutexes, NEW body,
           Below(A, m), Keeps(A \cup {m}, body)
    PROVE  Keeps(A, Scope(m, body))
<1> DEFINE lock == [op |-> "lock", mutex |-> m]
           unlock == [op |-> "unlock", mutex |-> m]
           B == A \cup {m}
<1>1. lock \in LockOps /\ unlock \in LockOps /\ B \in SUBSET Mutexes
  BY DEF LockOps
<1>2. m \notin A
  <2>1. SUFFICES ASSUME m \in A PROVE FALSE
    OBVIOUS
  <2>2. Depth(m) < Depth(m) /\ Depth(m) \in Int
    BY <2>1 DEF Below, Depth
  <2> QED
    BY <2>2
<1>3. Takes(A, lock, B)
  BY DEF Takes
<1>4. Takes(B, unlock, A)
  BY <1>2 DEF Takes
<1>5. Leads(A, <<lock>>, B) /\ Leads(B, <<unlock>>, A)
  <2> HIDE DEF lock, unlock, B
  <2> QED
    BY <1>1, <1>3, <1>4, LeadsInOneStep
<1>6. body \in Seq(LockOps) /\ Leads(B, body, B)
  BY DEF Keeps
<1>7. <<lock>> \in Seq(LockOps) /\ <<unlock>> \in Seq(LockOps)
  BY <1>1
<1>8. <<lock>> \o body \in Seq(LockOps) /\ <<lock>> \o body \o <<unlock>> \in Seq(LockOps)
  BY <1>6, <1>7
<1>9. Leads(A, <<lock>> \o body \o <<unlock>>, A)
  <2> HIDE DEF lock, unlock, B
  <2>1. Leads(A, <<lock>> \o body, B)
    BY <1>5, <1>6, <1>7, LeadsOn
  <2> QED
    BY <1>5, <1>7, <1>8, <2>1, LeadsOn
<1> QED
  BY <1>8, <1>9 DEF Keeps, Scope

LEMMA KeepsSection ==
    ASSUME NEW A \in SUBSET Mutexes, NEW m \in Mutexes, Below(A, m)
    PROVE  Keeps(A, Section(m))
<1>1. A \cup {m} \in SUBSET Mutexes
  OBVIOUS
<1> QED
  BY <1>1, KeepsNothing, KeepsScope DEF Section

(***************************************************************************)
(* The sections of leaf mutexes, wherever a callback has come to.          *)
(***************************************************************************)
LEMMA LeafSections ==
    ASSUME NEW A \in SUBSET {"registration", "lc", "graph"}, NEW m \in LeafMutexes
    PROVE  Keeps(A, Section(m))
<1>1. A \in SUBSET Mutexes /\ m \in Mutexes /\ Below(A, m)
  BY DEF Mutexes, LeafMutexes, Below, Depth
<1> QED
  BY <1>1, KeepsSection

(***************************************************************************)
(* applyPendingGraphUpdate, and the sections of lc_mutex_ and graph_mutex_ *)
(* around one of keyframes_mutex_.                                         *)
(***************************************************************************)
LEMMA NestedSections ==
    ASSUME NEW A \in SUBSET {"registration"}
    PROVE  /\ \A loop \in BOOLEAN : Keeps(A, ApplyUpdate(loop))
           /\ Keeps(A, AddUnderLocks) /\ Keeps(A, FetchUnderLocks)
           /\ Keeps(A, Section("graph")) /\ Keeps(A, Section("lc"))
<1>1. /\ A \in SUBSET Mutexes /\ "graph" \in Mutexes /\ "lc" \in Mutexes
      /\ Below(A, "graph") /\ Below(A, "lc")
  BY DEF Mutexes, Below, Depth
<1>2. /\ A \cup {"graph"} \in SUBSET {"registration", "lc", "graph"}
      /\ A \cup {"lc"} \in SUBSET {"registration", "lc", "graph"}
      /\ "keyframes" \in LeafMutexes /\ "realtime_pose" \in LeafMutexes
  BY DEF LeafMutexes
<1>3. ASSUME NEW loop \in BOOLEAN PROVE Keeps(A, ApplyUpdate(loop))
  <2>1. /\ Keeps(A \cup {"graph"}, Section("realtime_pose"))
        /\ Keeps(A \cup {"graph"}, Section("keyframes"))
    BY <1>2, LeafSections
  <2>2. A \cup {"graph"} \in SUBSET Mutexes
    BY <1>1
  <2>3. Keeps(A \cup {"graph"}, IF loop THEN Section("keyframes") ELSE <<>>)
    BY <2>1, <2>2, KeepsNothing
  <2>4. Keeps(A \cup {"graph"},
              Section("realtime_pose") \o (IF loop THEN Section("keyframes") ELSE <<>>))
    BY <2>1, <2>3, KeepsBoth
  <2> QED
    BY <1>1, <2>4, KeepsScope DEF ApplyUpdate
<1>4. Keeps(A, AddUnderLocks)
  BY <1>1, <1>2, LeafSections, KeepsScope DEF AddUnderLocks
<1>5. Keeps(A, FetchUnderLocks)
  BY <1>1, <1>2, LeafSections, KeepsScope DEF FetchUnderLocks
<1>6. Keeps(A, Section("graph")) /\ Keeps(A, Section("lc"))
  BY <1>1, KeepsSection
<1> QED
  BY <1>3, <1>4, <1>5, <1>6

(***************************************************************************)
(* Every path through every callback keeps to the order and leaves nothing *)
(* locked.                                                                 *)
(***************************************************************************)
LEMMA CallbacksKeepOrder ==
    ASSUME NEW g \in Groups, NEW p \in Programs[g]
    PROVE  Keeps({}, p)
<1>1. /\ {} \in SUBSET {"registration", "lc", "graph"} /\ {} \in SUBSET {"registration"}
      /\ \A m \in LeafMutexes : Keeps({}, Section(m))
  BY LeafSections
<1>2. /\ Keeps({}, Section("realtime_pose")) /\ Keeps({}, Section("keyframes"))
      /\ Keeps({}, Section("vis")) /\ Keeps({}, Section("loop_queue"))
  BY <1>1 DEF LeafMutexes
<1>3. /\ \A loop \in BOOLEAN : Keeps({}, ApplyUpdate(loop))
      /\ Keeps({}, AddUnderLocks) /\ Keeps({}, FetchUnderLocks)
      /\ Keeps({}, Section("graph")) /\ Keeps({}, Section("lc"))
  BY <1>1, NestedSections
<1>4. CASE g = "default"
  <2>1. Keeps({}, VisualizeCurrent)
    BY <1>2, KeepsBoth DEF VisualizeCurrent
  <2>2. Keeps({}, FirstFrame)
    <3>1. Keeps({}, VisualizeCurrent \o Section("keyframes"))
      BY <1>2, <2>1, KeepsBoth
    <3>2. Keeps({}, VisualizeCurrent \o Section("keyframes") \o Section("vis"))
      BY <1>2, <3>1, KeepsBoth
    <3> QED
      BY <1>3, <3>2, KeepsBoth DEF FirstFrame
  <2>3. Keeps({}, SkippedFrame)
    BY <1>3, <2>1, KeepsBoth DEF SkippedFrame
  <2>4. ASSUME NEW loop \in BOOLEAN PROVE Keeps({}, KeyframeAdded(loop))
    <3>1. Keeps({}, SkippedFrame \o Section("vis"))
      BY <1>2, <2>3, KeepsBoth
    <3>2. Keeps({}, SkippedFrame \o Section("vis") \o ApplyUpdate(loop))
      BY <1>3, <3>1, KeepsBoth
    <3> QED
      BY <1>2, <3>2, KeepsBoth DEF KeyframeAdded
  <2>5. Keeps({}, BuildMapSections) /\ Keeps({}, RepublishPath) /\ Keeps({}, SaveMap)
    BY <1>2, KeepsBoth DEF BuildMapSections, RepublishPath, SaveMap
  <2>6. Keeps({}, VisualizePoseGraph)
    <3>1. Keeps({}, Section("realtime_pose") \o Section("keyframes"))
      BY <1>2, KeepsBoth
    <3>2. Keeps({}, Section("realtime_pose") \o Section("keyframes") \o Section("vis"))
      BY <1>2, <3>1, KeepsBoth
    <3> QED
      BY <1>2, <3>2, KeepsBoth DEF VisualizePoseGraph
  <2>7. p \in DefaultPrograms
    BY <1>4 DEF Programs
  <2> QED
    BY <2>2, <2>3, <2>4, <2>5, <2>6, <2>7 DEF DefaultPrograms
<1>5. CASE g = "search"
  <2>1. Keeps({}, BlockedSearch)
    BY <1>2 DEF BlockedSearch
  <2>2. Keeps({}, ClaimByLoopDetector) /\ Keeps({}, SettledSearch)
    BY <1>2, KeepsBoth DEF ClaimByLoopDetector, SettledSearch
  <2>3. Keeps({}, ClaimByNNSearch)
    BY <1>2, <2>2, KeepsBoth DEF ClaimByNNSearch
  <2>4. Keeps({}, ClaimByLoopDetector \o SettledSearch)
    BY <2>2, KeepsBoth
  <2>5. Keeps({}, ClaimByNNSearch \o FetchUnderLocks)
    BY <1>3, <2>3, KeepsBoth
  <2>6. Keeps({}, ClaimByNNSearch \o FetchUnderLocks \o SettledSearch)
    BY <2>2, <2>5, KeepsBoth
  <2>7. p \in SearchPrograms
    BY <1>5 DEF Programs
  <2> QED
    BY <2>1, <2>2, <2>3, <2>4, <2>6, <2>7 DEF SearchPrograms
<1>6. CASE g = "registration"
  <2> DEFINE R == {"registration"}
  <2>1. /\ R \in SUBSET {"registration", "lc", "graph"}
        /\ \A m \in LeafMutexes : Keeps(R, Section(m))
    BY LeafSections
  <2>2. /\ Keeps(R, Section("keyframes")) /\ Keeps(R, Section("vis"))
        /\ Keeps(R, Section("loop_queue"))
    BY <2>1 DEF LeafMutexes
  <2>3. /\ \A loop \in BOOLEAN : Keeps(R, ApplyUpdate(loop))
        /\ Keeps(R, Section("graph")) /\ Keeps(R, Section("lc"))
    <3>1. R \in SUBSET {"registration"}
      OBVIOUS
    <3> QED
      BY <3>1, NestedSections
  <2>4. ASSUME NEW body, Keeps(R, body) PROVE Keeps({}, Scope("registration", body))
    <3>1. {} \cup {"registration"} = R
      OBVIOUS
    <3>2. "registration" \in Mutexes /\ Below({}, "registration") /\ {} \in SUBSET Mutexes
      BY DEF Mutexes, Below
    <3> HIDE DEF R
    <3> QED
      BY <2>4, <3>1, <3>2, KeepsScope
  <2> HIDE DEF R
  <2>5. Keeps(R, Section("loop_queue") \o Section("keyframes"))
    BY <2>2, KeepsBoth
  <2>6. Keeps(R, PopAndAlign)
    BY <2>3, <2>5, KeepsBoth DEF PopAndAlign
  <2>7. ASSUME NEW loop \in BOOLEAN PROVE Keeps(R, CorrectLoop(loop))
    <3>1. Keeps(R, Section("loop_queue") \o Section("keyframes") \o Section("graph"))
      BY <2>3, <2>5, KeepsBoth
    <3>2. Keeps(R, Section("loop_queue") \o Section("keyframes") \o Section("graph")
                     \o ApplyUpdate(loop))
      BY <2>3, <3>1, KeepsBoth
    <3>3. Keeps(R, Section("loop_queue") \o Section("keyframes") \o Section("graph")
                     \o ApplyUpdate(loop) \o Section("loop_queue"))
      BY <2>2, <3>2, KeepsBoth
    <3> QED
      BY <2>2, <3>3, KeepsBoth DEF CorrectLoop
  <2>8. Keeps(R, PopAndAlign \o CorrectLoop(TRUE)) /\ Keeps(R, PopAndAlign \o CorrectLoop(FALSE))
    BY <2>6, <2>7, KeepsBoth
  <2>9. Keeps({}, Section("lc") \o Section("keyframes"))
    BY <1>2, <1>3, KeepsBoth
  <2>10. p \in RegistrationPrograms
    BY <1>6 DEF Programs
  <2>11. /\ Keeps({}, Scope("registration", Section("loop_queue")))
         /\ Keeps({}, Scope("registration", Section("loop_queue") \o Section("keyframes")))
         /\ Keeps({}, Scope("registration", PopAndAlign))
         /\ Keeps({}, Scope("registration", PopAndAlign \o CorrectLoop(TRUE)))
         /\ Keeps({}, Scope("registration", PopAndAlign \o CorrectLoop(FALSE)))
    BY <2>2, <2>4, <2>5, <2>6, <2>8
  <2> QED
    BY <2>9, <2>10, <2>11 DEF RegistrationPrograms
<1> QED
  BY <1>4, <1>5, <1>6 DEF Groups

-----------------------------------------------------------------------------
(* The invariant *)

Held(g) == {m \in Mutexes : owner[m] = g}

(***************************************************************************)
(* What is left of a callback leads, in order, from the mutexes its group  *)
(* holds to none.                                                          *)
(***************************************************************************)
LocksInv ==
    /\ owner \in [Mutexes -> Groups \cup {Nobody}]
    /\ todo \in [Groups -> Seq(LockOps)]
    /\ \A g \in Groups : Leads(Held(g), todo[g], {})

LEMMA LocksInvInductive == LocksSpec => []LocksInv
<1>1. InitLocks => LocksInv
  <2> SUFFICES ASSUME InitLocks PROVE LocksInv
    OBVIOUS
  <2>1. owner \in [Mutexes -> Groups \cup {Nobody}] /\ todo \in [Groups -> Seq(LockOps)]
    BY DEF InitLocks
  <2>2. \A g \in Groups : Held(g) = {} /\ todo[g] = <<>>
    BY DEF InitLocks, Held, Groups, Nobody
  <2>3. Leads({}, <<>>, {})
    BY LeadsNowhere
  <2> QED
    BY <2>1, <2>2, <2>3 DEF LocksInv
<1>2. LocksInv /\ [NextLock]_locks => LocksInv'
  <2> SUFFICES ASSUME LocksInv, [NextLock]_locks PROVE LocksInv'
    OBVIOUS
  <2>0. /\ owner \in [Mutexes -> Groups \cup {Nobody}]
        /\ todo \in [Groups -> Seq(LockOps)]
        /\ \A g \in Groups : Leads(Held(g), todo[g], {})
    BY DEF LocksInv
  <2>1. ASSUME NEW g \in Groups, Start(g) PROVE LocksInv'
    <3>1. PICK p \in Programs[g] : todo' = [todo EXCEPT ![g] = p]
      BY <2>1 DEF Start
    <3>2. p \in Seq(LockOps) /\ Leads({}, p, {})
      BY CallbacksKeepOrder DEF Keeps
    <3>3. Held(g) = {}
      <4>1. Leads(Held(g), <<>>, {}) /\ Held(g) \in SUBSET Mutexes
        BY <2>0, <2>1 DEF Start, Held
      <4> QED
        BY <4>1, LeadsNowhere
    <3>4. owner' = owner /\ todo' \in [Groups -> Seq(LockOps)]
      BY <2>0, <2>1, <3>1, <3>2 DEF Start
    <3>5. \A f \in Groups : Held(f)' = Held(f) /\ (f # g => todo'[f] = todo[f]) 
      BY <2>0, <3>1, <3>4 DEF Held
    <3>6. todo'[g] = p
      BY <2>0, <3>1
    <3>7. \A f \in Groups : Leads(Held(f)', todo'[f], {})
      BY <2>0, <3>2, <3>3, <3>5, <3>6
    <3> QED
      BY <2>0, <3>4, <3>7 DEF LocksInv
  <2>2. ASSUME NEW g \in Groups, Lock(g) \/ Unlock(g) PROVE LocksInv'
    <3> DEFINE step == Head(todo[g])
    <3>1. todo[g] # <<>> /\ todo' = [todo EXCEPT ![g] = Tail(todo[g])]
      BY <2>0, <2>2 DEF Lock, Unlock
    <3>2. step \in LockOps /\ Tail(todo[g]) \in Seq(LockOps) /\ Nobody \notin Groups
      BY <2>0, <3>1 DEF Groups, Nobody
    <3>3. step.mutex \in Mutexes
      BY <3>2 DEF LockOps
    <3>4. PICK B \in SUBSET Mutexes : Takes(Held(g), step, B) /\ Leads(B, Tail(todo[g]), {})
      BY <2>0, <3>1, LeadsByFirst
    <3>5. todo' \in [Groups -> Seq(LockOps)] /\ todo'[g] = Tail(todo[g])
          /\ \A f \in Groups \ {g} : todo'[f] = todo[f]
      BY <2>0, <3>1, <3>2
    <3>6. /\ owner' \in [Mutexes -> Groups \cup {Nobody}]
          /\ Held(g)' = B
          /\ \A f \in Groups \ {g} : Held(f)' = Held(f)
      <4>1. CASE Lock(g)
        <5>1. /\ step.op = "lock" /\ owner[step.mutex] = Nobody
              /\ owner' = [owner EXCEPT ![step.mutex] = g]
          BY <4>1 DEF Lock
        <5>2. B = Held(g) \cup {step.mutex}
          BY <3>4, <5>1 DEF Takes
        <5> HIDE DEF step
        <5> QED
          BY <2>0, <3>2, <3>3, <5>1, <5>2 DEF Held
      <4>2. CASE Unlock(g)
        <5>1. step.op = "unlock" /\ owner' = [owner EXCEPT ![step.mutex] = Nobody]
          BY <4>2 DEF Unlock
        <5>2. B = Held(g) \ {step.mutex} /\ step.mutex \in Held(g)
          BY <3>4, <5>1 DEF Takes
        <5> HIDE DEF step
        <5> QED
          BY <2>0, <3>2, <3>3, <5>1, <5>2 DEF Held
      <4> QED
        BY <2>2, <4>1, <4>2
    <3>7. \A f \in Groups : Leads(Held(f)', todo'[f], {})
      BY <2>0, <3>4, <3>5, <3>6
    <3> QED
      BY <3>5, <3>6, <3>7 DEF LocksInv
  <2>3. CASE UNCHANGED locks
    BY <2>0, <2>3 DEF LocksInv, locks, Held
  <2> QED
    BY <2>1, <2>2, <2>3 DEF NextLock
<1> QED
  BY <1>1, <1>2, PTL DEF LocksSpec

(***************************************************************************)
(* A group locks only what is deeper than all it holds, and unlocks the    *)
(* deepest.                                                                *)
(***************************************************************************)
LEMMA HeadKeepsOrder ==
    ASSUME LocksInv, NEW g \in Groups, todo[g] # <<>>
    PROVE  /\ Head(todo[g]) \in LockOps
           /\ \E B : Takes(Held(g), Head(todo[g]), B)
<1>1. todo[g] \in Seq(LockOps) /\ Leads(Held(g), todo[g], {})
  BY DEF LocksInv
<1>2. \E B \in SUBSET Mutexes : Takes(Held(g), Head(todo[g]), B)
  BY <1>1, LeadsByFirst
<1> QED
  BY <1>1, <1>2

(***************************************************************************)
(* No deadlock among the mutexes of the back end, whatever paths the       *)
(* callbacks of the three groups take: of the groups of a circle the one   *)
(* that waits for the deepest mutex waits for a group that waits for a     *)
(* deeper one.                                                             *)
(***************************************************************************)
THEOREM NobodyWaitsInCircles == LocksSpec => []NoCircularWait
<1>1. LocksInv => NoCircularWait
  <2> SUFFICES ASSUME LocksInv, NEW G \in (SUBSET Groups) \ {{}},
                      \A g \in G : WaitsFor(g) \in G
               PROVE  FALSE
    BY DEF NoCircularWait
  <2> DEFINE wanted(g) == Head(todo[g]).mutex
  <2>1. ASSUME NEW g \in G
        PROVE  /\ todo[g] # <<>> /\ Head(todo[g]).op = "lock"
               /\ owner[wanted(g)] \in G /\ wanted(g) \in Mutexes
               /\ Below(Held(g), wanted(g))
    <3>1. g \in Groups /\ Nobody \notin G
      BY DEF Groups, Nobody
    <3>2. todo[g] # <<>> /\ Head(todo[g]).op = "lock" /\ owner[wanted(g)] \in G
      BY <3>1 DEF WaitsFor
    <3>3. Head(todo[g]) \in LockOps /\ \E B : Takes(Held(g), Head(todo[g]), B)
      BY <3>1, <3>2, HeadKeepsOrder
    <3> QED
      BY <3>2, <3>3 DEF LockOps, Takes
  <2>2. ASSUME NEW g \in G
        PROVE  \E f \in G : Depth(wanted(g)) < Depth(wanted(f))
    <3>1. owner[wanted(g)] \in G /\ wanted(g) \in Held(owner[wanted(g)])
      BY <2>1 DEF Held
    <3> QED
      BY <2>1, <3>1 DEF Below
  <2>3. \A g \in G : Depth(wanted(g)) \in {0, 1, 2}
    BY DEF Depth
  <2> HIDE DEF wanted
  <2>4. \A g \in G : Depth(wanted(g)) # 2
    BY <2>2, <2>3
  <2>5. \A g \in G : Depth(wanted(g)) # 1
    BY <2>2, <2>3, <2>4
  <2>6. \A g \in G : Depth(wanted(g)) # 0
    BY <2>2, <2>3, <2>4, <2>5
  <2>7. PICK g : g \in G
    OBVIOUS
  <2> QED
    BY <2>3, <2>4, <2>5, <2>6, <2>7
<1> QED
  BY <1>1, LocksInvInductive, PTL

(***************************************************************************)
(* What PoseGraphManager relies on when it makes a section of one of these *)
(* mutexes one action: whoever holds one is about to unlock it.            *)
(***************************************************************************)
THEOREM SectionsAreAtomic == LocksSpec => []LeafSectionsAtomic
<1>1. LocksInv => LeafSectionsAtomic
  <2> SUFFICES ASSUME LocksInv, NEW m \in LeafMutexes, owner[m] # Nobody
               PROVE  /\ todo[owner[m]] # <<>>
                      /\ Head(todo[owner[m]]) = [op |-> "unlock", mutex |-> m]
    BY DEF LeafSectionsAtomic
  <2> DEFINE g == owner[m]
             step == Head(todo[g])
  <2>1. m \in Mutexes /\ g \in Groups /\ m \in Held(g) /\ Depth(m) = 2
    BY DEF LocksInv, LeafMutexes, Mutexes, Held, Depth
  <2>2. Held(g) \in SUBSET Mutexes /\ Leads(Held(g), todo[g], {})
    BY <2>1 DEF LocksInv, Held
  <2>3. todo[g] # <<>>
    BY <2>1, <2>2, LeadsNowhere
  <2>4. step \in LockOps /\ \E B : Takes(Held(g), step, B)
    BY <2>1, <2>3, HeadKeepsOrder
  <2>5. PICK B : Takes(Held(g), step, B)
    BY <2>4
  <2>6. \A x : Depth(x) \in {0, 1, 2}
    BY DEF Depth
  <2>7. \A A, x : m \in A /\ Below(A, x) => FALSE
    BY <2>1, <2>6 DEF Below
  <2> HIDE DEF step
  <2>8. step.op # "lock"
    BY <2>1, <2>5, <2>7 DEF Takes
  <2>9. step.op = "unlock" /\ step.mutex = m
    BY <2>1, <2>5, <2>7, <2>8 DEF Takes
  <2>10. step = [op |-> "unlock", mutex |-> m]
    BY <2>4, <2>9 DEF LockOps
  <2> QED
    BY <2>3, <2>10 DEF step
<1> QED
  BY <1>1, LocksInvInductive, PTL

(***************************************************************************)
(* Type correctness; a group whose callback returned holds nothing.        *)
(***************************************************************************)
THEOREM LocksTypeCorrect == LocksSpec => []LocksTypeOK
<1>1. LocksInv => LocksTypeOK
  <2> SUFFICES ASSUME LocksInv PROVE LocksTypeOK
    OBVIOUS
  <2>1. ASSUME NEW m \in Mutexes, owner[m] # Nobody PROVE todo[owner[m]] # <<>>
    <3>1. owner[m] \in Groups /\ m \in Held(owner[m])
      BY <2>1 DEF LocksInv, Held
    <3>2. Held(owner[m]) \in SUBSET Mutexes /\ Leads(Held(owner[m]), todo[owner[m]], {})
      BY <3>1 DEF LocksInv, Held
    <3> QED
      BY <3>1, <3>2, LeadsNowhere
  <2> QED
    BY <2>1 DEF LocksInv, LocksTypeOK, LockOps
<1> QED
  BY <1>1, LocksInvInductive, PTL
=============================================================================
