--------------------------- MODULE InterFrameAligner ---------------------------
(***************************************************************************)
(* The nodes that drive a LoopClosure object: the pose graph manager, one  *)
(* candidate after the other, or the inter-frame aligner, which keeps the  *)
(* transform between two maps.  The aligner's callbacks share the default, *)
(* mutually exclusive group: none of them runs during an alignment.        *)
(***************************************************************************)
EXTENDS LoopRegistration

CONSTANTS
    MaxStamp,       \* bound: stamps of the incoming maps
    MaxNow          \* bound: the node's clock

ASSUME AlignerAssumption == MaxStamp \in Nat /\ MaxNow \in Nat

VARIABLES
    client,         \* the node the LoopClosure object belongs to
    updated,        \* is_source_updated_ and is_target_updated_
    stamp,          \* source_timestamp_ and target_timestamp_; 0: none yet
    base,           \* source_timestamp_base_ and target_timestamp_base_
    lastReal,       \* last_real_time_
    now,            \* the node's clock
    aligning,       \* performAlignment is in coarseToFineAlignment
    lastAligned,    \* history: the stamps of the maps aligned last
    transform,      \* target_T_source_, by registration; 0: the identity
    tf              \* the stamps of the transforms sent last

aligner == <<client, updated, stamp, base, lastReal, now, aligning, lastAligned,
             transform, tf>>
vars == <<registration, aligner>>

Maps == {"source", "target"}
Both(v) == [m \in Maps |-> v]

Init ==
    /\ InitRegistration
    /\ client \in {"manager", "aligner"}
    /\ client = "aligner" => global
    /\ updated = Both(FALSE) /\ stamp = Both(0) /\ base = Both(0)
    /\ lastReal = 0 /\ now = 0
    /\ aligning = FALSE /\ lastAligned = Both(0)
    /\ transform = 0 /\ tf = Both(0)

Quiet == client = "aligner" /\ ~aligning

(***************************************************************************)
(* callbackSource and callbackTarget.                                      *)
(***************************************************************************)
ReceiveMap(m) ==
    /\ Quiet
    /\ \E t \in stamp[m] + 1 .. MaxStamp : stamp' = [stamp EXCEPT ![m] = t]
    /\ updated' = [updated EXCEPT ![m] = TRUE]
    /\ UNCHANGED <<registration, client, base, lastReal, now, aligning, lastAligned,
                   transform, tf>>

Tick ==
    /\ Quiet /\ now < MaxNow
    /\ now' = now + 1
    /\ UNCHANGED <<registration, client, updated, stamp, base, lastReal, aligning,
                   lastAligned, transform, tf>>

(***************************************************************************)
(* publishTF: the stamps go on from those of the maps with the clock since *)
(* either map came anew.                                                   *)
(***************************************************************************)
PublishTF ==
    IF \E m \in Maps : stamp[m] = 0
      THEN UNCHANGED <<base, lastReal, tf>>
      ELSE /\ base' = stamp
           /\ lastReal' = IF base # stamp THEN now ELSE lastReal
           /\ tf' = [m \in Maps |-> stamp[m] + now - lastReal']

TfTimer ==
    /\ Quiet
    /\ PublishTF
    /\ UNCHANGED <<registration, client, updated, stamp, now, aligning, lastAligned,
                   transform>>

(***************************************************************************)
(* performAlignment, up to the registration and from its end.              *)
(***************************************************************************)
PerformAlignment ==
    /\ Quiet
    /\ \A m \in Maps : updated[m]
    /\ PerformLoopClosure
    /\ aligning' = TRUE /\ lastAligned' = stamp
    /\ UNCHANGED <<client, updated, stamp, base, lastReal, now, transform, tf>>

\* Mutant: the flags stay when the alignment is rejected.
UpdatedUnlessAccepted == IF output.valid THEN Both(FALSE) ELSE updated

\* "No matter how the result is imprecise, flags should be updated".
UpdatedAfterwards == Both(FALSE)

FinishAlignment ==
    /\ aligning /\ stage = "idle"
    /\ aligning' = FALSE
    /\ updated' = UpdatedAfterwards
    /\ IF output.valid
         THEN transform' = output.fine /\ PublishTF
         ELSE UNCHANGED <<transform, base, lastReal, tf>>
    /\ UNCHANGED <<registration, client, stamp, now, lastAligned>>

ManagerRegisters ==
    /\ client = "manager"
    /\ PerformLoopClosure
    /\ UNCHANGED aligner

Next ==
    \/ ManagerRegisters
    \/ RegistrationStep /\ UNCHANGED aligner
    \/ \E m \in Maps : ReceiveMap(m)
    \/ Tick \/ TfTimer \/ PerformAlignment \/ FinishAlignment

Spec == Init /\ [][Next]_vars

-----------------------------------------------------------------------------
(***************************************************************************)
(* A map is aligned once, whatever became of the alignment: the next one   *)
(* waits for a newer source and a newer target.                            *)
(***************************************************************************)
AlignedOnce ==
    [][PerformAlignment => \A m \in Maps : stamp[m] > lastAligned[m]]_vars

(***************************************************************************)
(* inter_frame_alignment.cpp: the comment of publishTF says "we have to    *)
(* incrementally increase the timestamp": as long as no newer source map   *)
(* comes, the stamps of its transform do not go back.                      *)
(***************************************************************************)
SourceTfForward ==
    [][stamp'["source"] = base["source"] => tf'["source"] >= tf["source"]]_vars
=============================================================================
