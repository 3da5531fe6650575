------------------------------ MODULE BackendLocks ------------------------------
(***************************************************************************)
(* The mutexes of PoseGraphManager.  Three mutually exclusive callback     *)
(* groups run concurrently; a callback is the sequence of lock_guard       *)
(* scopes it opens and closes, on each path through it that differs in     *)
(* what it locks.  std::mutex is not recursive.                            *)
(***************************************************************************)
EXTENDS Sequences, FiniteSets

Mutexes == {"realtime_pose", "keyframes", "graph", "lc", "vis", "loop_queue", "registration"}
Groups  == {"default", "search", "registration"}
Nobody  == "nobody"

\* Mutant: a lock without its unlock.
ScopeLeftLocked(m, body) == <<[op |-> "lock", mutex |-> m]>> \o body

\* A lock_guard scope around a body.
Scope(m, body) == <<[op |-> "lock", mutex |-> m]>> \o body \o <<[op |-> "unlock", mutex |-> m]>>
Section(m)     == Scope(m, <<>>)

\* applyPendingGraphUpdate, with and without a loop closure to write back.
ApplyUpdate(loop) ==
  Scope("graph", Section("realtime_pose") \o (IF loop THEN Section("keyframes") ELSE <<>>))

\* visualizeCurrentData
VisualizeCurrent == Section("realtime_pose") \o Section("vis")

\* callbackNode: the first frame, a frame that is no keyframe, a keyframe.
FirstFrame == VisualizeCurrent \o Section("keyframes") \o Section("vis") \o Section("graph")

\* Mutant: the keyframe enters with keyframes_mutex_ taken first.
AddUnderReversedLocks == Scope("keyframes", Section("graph"))

AddUnderLocks == Scope("graph", Section("keyframes"))
SkippedFrame == VisualizeCurrent \o AddUnderLocks
KeyframeAdded(loop) ==
  SkippedFrame \o Section("vis") \o ApplyUpdate(loop) \o Section("keyframes")

BuildMapSections           == Section("keyframes")
VisualizePoseGraph == Section("realtime_pose") \o Section("keyframes") \o Section("vis")
                        \o Section("vis")
RepublishPath      == Section("vis")
SaveMap            == Section("keyframes") \o Section("keyframes")

DefaultPrograms ==
  {FirstFrame, SkippedFrame, KeyframeAdded(TRUE), KeyframeAdded(FALSE),
   BuildMapSections, VisualizePoseGraph, RepublishPath, SaveMap}

\* The loop searches; a blocked search ends after its first section, one with
\* nothing to search after its claim.
BlockedSearch == Section("loop_queue")
ClaimByLoopDetector == Section("loop_queue") \o Section("keyframes")
ClaimByNNSearch     == Section("loop_queue") \o ClaimByLoopDetector
SettledSearch == Section("loop_queue") \o Section("keyframes")

\* Mutant: the search waits for the registration's lc_mutex_ with the keyframes locked.
FetchUnderReversedLocks == Scope("keyframes", Section("lc"))

FetchUnderLocks == Scope("lc", Section("keyframes"))

SearchPrograms ==
  {BlockedSearch, ClaimByLoopDetector, ClaimByNNSearch,
   ClaimByLoopDetector \o SettledSearch,
   ClaimByNNSearch \o FetchUnderLocks \o SettledSearch}

\* performRegistration holds registration_mutex_ throughout.
PopAndAlign == Section("loop_queue") \o Section("keyframes") \o Section("lc")
CorrectLoop(loop) ==
  Section("loop_queue") \o Section("keyframes") \o Section("graph") \o ApplyUpdate(loop)
    \o Section("loop_queue") \o Section("vis")

RegistrationPrograms ==
  {Scope("registration", Section("loop_queue")),
   Scope("registration", Section("loop_queue") \o Section("keyframes")),
   Scope("registration", PopAndAlign),
   Scope("registration", PopAndAlign \o CorrectLoop(TRUE)),
   Scope("registration", PopAndAlign \o CorrectLoop(FALSE)),
   Section("lc") \o Section("keyframes")}

Programs == [g \in Groups |-> CASE g = "default"      -> DefaultPrograms
                                [] g = "search"       -> SearchPrograms
                                [] g = "registration" -> RegistrationPrograms]

VARIABLES
  owner,  \* who holds each mutex
  todo    \* what each group's callback still has to lock and unlock

locks == <<owner, todo>>

InitLocks ==
  /\ owner = [m \in Mutexes |-> Nobody]
  /\ todo = [g \in Groups |-> <<>>]

\* The executor starts a callback of an idle group.
Start(g) ==
  /\ todo[g] = <<>>
  /\ \E p \in Programs[g] : todo' = [todo EXCEPT ![g] = p]
  /\ UNCHANGED owner

Lock(g) ==
  /\ todo[g] # <<>> /\ Head(todo[g]).op = "lock"
  /\ owner[Head(todo[g]).mutex] = Nobody
  /\ owner' = [owner EXCEPT ![Head(todo[g]).mutex] = g]
  /\ todo' = [todo EXCEPT ![g] = Tail(@)]

Unlock(g) ==
  /\ todo[g] # <<>> /\ Head(todo[g]).op = "unlock"
  /\ owner' = [owner EXCEPT ![Head(todo[g]).mutex] = Nobody]
  /\ todo' = [todo EXCEPT ![g] = Tail(@)]

NextLock == \E g \in Groups : Start(g) \/ Lock(g) \/ Unlock(g)

LocksSpec == InitLocks /\ [][NextLock]_locks

-----------------------------------------------------------------------------
\* Callbacks are lock programs, mutexes are held by groups, and a group whose
\* callback returned holds none.
LocksTypeOK ==
  /\ owner \in [Mutexes -> Groups \cup {Nobody}]
  /\ todo \in [Groups -> Seq([op : {"lock", "unlock"}, mutex : Mutexes])]
  /\ \A m \in Mutexes : owner[m] # Nobody => todo[owner[m]] # <<>>

WaitsFor(g) ==
  IF todo[g] # <<>> /\ Head(todo[g]).op = "lock" THEN owner[Head(todo[g]).mutex] ELSE Nobody

\* No deadlock: no callbacks wait for each other in a circle, or for themselves,
\* whatever the three groups are running.
NoCircularWait == \A G \in (SUBSET Groups) \ {{}} : \E g \in G : WaitsFor(g) \notin G

\* The sections of these mutexes lock nothing inside, so nothing but their own
\* body happens between their ends as far as other groups can see: what allows
\* PoseGraphManager to make each of them one action.
LeafMutexes == {"realtime_pose", "keyframes", "vis", "loop_queue"}
LeafSectionsAtomic ==
  \A m \in LeafMutexes : owner[m] # Nobody => todo[owner[m]] # <<>> /\ Head(todo[owner[m]]) =
                                                [op |-> "unlock", mutex |-> m]
=============================================================================
