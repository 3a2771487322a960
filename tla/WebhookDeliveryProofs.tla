----------------------- MODULE WebhookDeliveryProofs -----------------------
(***************************************************************************)
(* Proofs about WebhookDelivery, for any number of jobs, any number of     *)
(* attempts, any threshold and any set of failures.                        *)
(***************************************************************************)
EXTENDS WebhookDelivery, TLAPS

(* A running attempt belongs to a running job, and only a job with an      *)
(* attempt left waits for one.                                             *)
JobShape ==
    \A j \in Jobs :
      /\ pc[j] # "idle" <=> job[j] = "running"
      /\ job[j] \in {"none", "listed"} => attempt[j] = 0
      /\ job[j] = "available" => attempt[j] < MaxAttempts

(* The attempt that has not posted yet is not among the requests. *)
PostsAtStep ==
    \A j \in Jobs :
      /\ received[j] <= posts[j]
      /\ posts[j] <= attempt[j]
      /\ pc[j] \in {"get", "post"} => posts[j] < attempt[j]

(* What leads to "completed" has been received. *)
ReceivedAtStep ==
    \A j \in Jobs :
      pc[j] \in {"reset", "complete"} \/ job[j] = "completed" => received[j] > 0

(* An attempt that found the webhook active is not one that never did. *)
StoppedAtStep ==
    /\ stopped # {} => ~(exists /\ active)
    /\ \A j \in Jobs : pc[j] = "post" => j \notin stopped

Counter == ThresholdDisables /\ DisabledStaysInactive

IInv == TypeOK /\ JobShape /\ PostsAtStep /\ ReceivedAtStep /\ StoppedAtStep /\ Counter
-----------------------------------------------------------------------------
(* The initial state satisfies the invariant. *)
LEMMA InitIInv == Init => IInv
<1> SUFFICES ASSUME Init PROVE IInv
  OBVIOUS
<1> USE WebhookBoundsAssumption DEF Init
<1>1. TypeOK
  <2>1. exists \in BOOLEAN /\ active \in BOOLEAN /\ disabled \in BOOLEAN /\ edited \in BOOLEAN
        /\ dirty \in [Jobs -> BOOLEAN] /\ stopped \subseteq Jobs /\ \A row \in edit : row \in Rows
    BY Zenon
  <2> QED
    BY <2>1 DEF TypeOK, JobStates, Steps
<1>2. JobShape /\ PostsAtStep /\ ReceivedAtStep
  BY DEF JobShape, PostsAtStep, ReceivedAtStep
<1>3. StoppedAtStep /\ Counter
  BY DEF StoppedAtStep, Counter, ThresholdDisables, DisabledStaysInactive
<1> QED
  BY <1>1, <1>2, <1>3 DEF IInv

(* Every step keeps the types; a fetched job has an attempt left. *)
LEMMA TypePreserved == ASSUME IInv, [Next]_vars PROVE TypeOK'
<1> USE WebhookBoundsAssumption DEF IInv, TypeOK, JobShape, PostsAtStep, JobStates, Steps,
      rowVars, jobVars, httpVars, editVars, GoTo
<1>1. ASSUME NEW j \in Jobs, GetActiveByWorkspace(j) PROVE TypeOK'
  BY <1>1 DEF GetActiveByWorkspace
<1>2. ASSUME NEW j \in Jobs, EnqueueWebhook(j) PROVE TypeOK'
  BY <1>2 DEF EnqueueWebhook
<1>3. ASSUME NEW j \in Jobs, Fetch(j) PROVE TypeOK'
  BY <1>3 DEF Fetch
<1>4. ASSUME NEW j \in Jobs, Finish(j) PROVE TypeOK'
  BY <1>4 DEF Finish, AfterError
<1>5. ASSUME NEW j \in Jobs, Crash(j) PROVE TypeOK'
  BY <1>5 DEF Crash
<1>6. ASSUME NEW j \in Jobs, Rescue(j) PROVE TypeOK'
  BY <1>6 DEF Rescue, AfterError
<1>7. ASSUME NEW j \in Jobs, GetByID(j) PROVE TypeOK'
  <2>1. \A b \in BOOLEAN : [dirty EXCEPT ![j] = b] \in [Jobs -> BOOLEAN]
    OBVIOUS
  <2>2. (failures > 0) \in BOOLEAN
    OBVIOUS
  <2>3. dirty' \in [Jobs -> BOOLEAN]
    BY <1>7, <2>1, <2>2, Zenon DEF GetByID
  <2> QED
    BY <1>7, <2>3 DEF GetByID
<1>8. ASSUME NEW j \in Jobs, Post(j) PROVE TypeOK'
  BY <1>8 DEF Post
<1>9. ASSUME NEW j \in Jobs, handleFailure(j) PROVE TypeOK'
  <2>1. active' \in BOOLEAN /\ disabled' \in BOOLEAN
    BY <1>9, Zenon DEF handleFailure, IncrementFailureCount
  <2>2. failures' \in Nat
    BY <1>9 DEF handleFailure, IncrementFailureCount
  <2> QED
    BY <1>9, <2>1, <2>2 DEF handleFailure, StillStopped
<1>10. ASSUME NEW j \in Jobs, ResetFailureCount(j) PROVE TypeOK'
  BY <1>10 DEF ResetFailureCount
<1>11. ASSUME UpdateRead PROVE TypeOK'
  BY <1>11 DEF UpdateRead, Rows
<1>12. ASSUME NEW r \in {{}, {TRUE}, {FALSE}}, UpdateWrite(r) PROVE TypeOK'
  <2>1. \A row \in edit : row.active \in BOOLEAN /\ row.failures \in Nat /\ row.disabled \in BOOLEAN
    BY DEF Rows
  <2>2. active' \in BOOLEAN
    <3>1. (TRUE \in r) \in BOOLEAN
      OBVIOUS
    <3>2. active' = active \/ (active' = (TRUE \in r)) \/ \E row \in edit : active' = row.active
      BY <1>12, Zenon DEF UpdateWrite
    <3> QED
      BY <2>1, <3>1, <3>2, Zenon
  <2>3. failures' \in Nat /\ disabled' \in BOOLEAN
    BY <1>12, <2>1 DEF UpdateWrite
  <2> QED
    BY <1>12, <2>2, <2>3 DEF UpdateWrite, StillStopped
<1>13. ASSUME Delete PROVE TypeOK'
  BY <1>13 DEF Delete
<1>14. CASE UNCHANGED vars
  BY <1>14 DEF vars
<1> QED
  BY <1>1, <1>2, <1>3, <1>4, <1>5, <1>6, <1>7, <1>8, <1>9,
     <1>10, <1>11, <1>12, <1>13, <1>14
  DEF Next, River, Work, Admin

(* Job and attempt go together. *)
LEMMA ShapePreserved == ASSUME IInv, [Next]_vars PROVE JobShape'
<1> USE WebhookBoundsAssumption DEF IInv, TypeOK, JobShape, JobStates, Steps,
      rowVars, jobVars, httpVars, editVars, GoTo
<1>1. ASSUME NEW j \in Jobs, GetActiveByWorkspace(j) PROVE JobShape'
  BY <1>1 DEF GetActiveByWorkspace
<1>2. ASSUME NEW j \in Jobs, EnqueueWebhook(j) PROVE JobShape'
  BY <1>2 DEF EnqueueWebhook
<1>3. ASSUME NEW j \in Jobs, Fetch(j) PROVE JobShape'
  BY <1>3 DEF Fetch
<1>4. ASSUME NEW j \in Jobs, Finish(j) PROVE JobShape'
  BY <1>4 DEF Finish, AfterError
<1>5. ASSUME NEW j \in Jobs, Crash(j) PROVE JobShape'
  BY <1>5 DEF Crash
<1>6. ASSUME NEW j \in Jobs, Rescue(j) PROVE JobShape'
  BY <1>6 DEF Rescue, AfterError
<1>7. ASSUME NEW j \in Jobs, GetByID(j) PROVE JobShape'
  BY <1>7 DEF GetByID
<1>8. ASSUME NEW j \in Jobs, Post(j) PROVE JobShape'
  BY <1>8 DEF Post
<1>9. ASSUME NEW j \in Jobs, handleFailure(j) PROVE JobShape'
  BY <1>9 DEF handleFailure, IncrementFailureCount, StillStopped
<1>10. ASSUME NEW j \in Jobs, ResetFailureCount(j) PROVE JobShape'
  BY <1>10 DEF ResetFailureCount
<1>11. ASSUME UpdateRead PROVE JobShape'
  BY <1>11 DEF UpdateRead, Rows
<1>12. ASSUME NEW r \in {{}, {TRUE}, {FALSE}}, UpdateWrite(r) PROVE JobShape'
  BY <1>12 DEF UpdateWrite, StillStopped, Rows
<1>13. ASSUME Delete PROVE JobShape'
  BY <1>13 DEF Delete
<1>14. CASE UNCHANGED vars
  BY <1>14 DEF vars
<1> QED
  BY <1>1, <1>2, <1>3, <1>4, <1>5, <1>6, <1>7, <1>8, <1>9,
     <1>10, <1>11, <1>12, <1>13, <1>14
  DEF Next, River, Work, Admin

(* Only Post makes a request, and it was charged for. *)
LEMMA PostsPreserved == ASSUME IInv, [Next]_vars PROVE PostsAtStep'
<1> USE WebhookBoundsAssumption DEF IInv, TypeOK, JobShape, PostsAtStep,
      rowVars, jobVars, httpVars, editVars, GoTo
<1>1. ASSUME NEW j \in Jobs, GetActiveByWorkspace(j) PROVE PostsAtStep'
  BY <1>1 DEF GetActiveByWorkspace
<1>2. ASSUME NEW j \in Jobs, EnqueueWebhook(j) PROVE PostsAtStep'
  BY <1>2 DEF EnqueueWebhook
<1>3. ASSUME NEW j \in Jobs, Fetch(j) PROVE PostsAtStep'
  BY <1>3 DEF Fetch
<1>4. ASSUME NEW j \in Jobs, Finish(j) PROVE PostsAtStep'
  BY <1>4 DEF Finish, AfterError
<1>5. ASSUME NEW j \in Jobs, Crash(j) PROVE PostsAtStep'
  BY <1>5 DEF Crash
<1>6. ASSUME NEW j \in Jobs, Rescue(j) PROVE PostsAtStep'
  BY <1>6 DEF Rescue, AfterError
<1>7. ASSUME NEW j \in Jobs, GetByID(j) PROVE PostsAtStep'
  BY <1>7 DEF GetByID
<1>8. ASSUME NEW j \in Jobs, Post(j) PROVE PostsAtStep'
  BY <1>8 DEF Post
<1>9. ASSUME NEW j \in Jobs, handleFailure(j) PROVE PostsAtStep'
  BY <1>9 DEF handleFailure, IncrementFailureCount, StillStopped
<1>10. ASSUME NEW j \in Jobs, ResetFailureCount(j) PROVE PostsAtStep'
  BY <1>10 DEF ResetFailureCount
<1>11. ASSUME UpdateRead PROVE PostsAtStep'
  BY <1>11 DEF UpdateRead, Rows
<1>12. ASSUME NEW r \in {{}, {TRUE}, {FALSE}}, UpdateWrite(r) PROVE PostsAtStep'
  BY <1>12 DEF UpdateWrite, StillStopped, Rows
<1>13. ASSUME Delete PROVE PostsAtStep'
  BY <1>13 DEF Delete
<1>14. CASE UNCHANGED vars
  BY <1>14 DEF vars
<1> QED
  BY <1>1, <1>2, <1>3, <1>4, <1>5, <1>6, <1>7, <1>8, <1>9,
     <1>10, <1>11, <1>12, <1>13, <1>14
  DEF Next, River, Work, Admin

(* Only a received event reaches the steps before completion. *)
LEMMA ReceivedPreserved == ASSUME IInv, [Next]_vars PROVE ReceivedAtStep'
<1> USE WebhookBoundsAssumption DEF IInv, TypeOK, JobShape, ReceivedAtStep,
      rowVars, jobVars, httpVars, editVars, GoTo
<1>1. ASSUME NEW j \in Jobs, GetActiveByWorkspace(j) PROVE ReceivedAtStep'
  BY <1>1 DEF GetActiveByWorkspace
<1>2. ASSUME NEW j \in Jobs, EnqueueWebhook(j) PROVE ReceivedAtStep'
  BY <1>2 DEF EnqueueWebhook
<1>3. ASSUME NEW j \in Jobs, Fetch(j) PROVE ReceivedAtStep'
  BY <1>3 DEF Fetch
<1>4. ASSUME NEW j \in Jobs, Finish(j) PROVE ReceivedAtStep'
  BY <1>4 DEF Finish, AfterError
<1>5. ASSUME NEW j \in Jobs, Crash(j) PROVE ReceivedAtStep'
  BY <1>5 DEF Crash
<1>6. ASSUME NEW j \in Jobs, Rescue(j) PROVE ReceivedAtStep'
  BY <1>6 DEF Rescue, AfterError
<1>7. ASSUME NEW j \in Jobs, GetByID(j) PROVE ReceivedAtStep'
  BY <1>7 DEF GetByID
<1>8. ASSUME NEW j \in Jobs, Post(j) PROVE ReceivedAtStep'
  BY <1>8 DEF Post
<1>9. ASSUME NEW j \in Jobs, handleFailure(j) PROVE ReceivedAtStep'
  BY <1>9 DEF handleFailure, IncrementFailureCount, StillStopped
<1>10. ASSUME NEW j \in Jobs, ResetFailureCount(j) PROVE ReceivedAtStep'
  BY <1>10 DEF ResetFailureCount
<1>11. ASSUME UpdateRead PROVE ReceivedAtStep'
  BY <1>11 DEF UpdateRead, Rows
<1>12. ASSUME NEW r \in {{}, {TRUE}, {FALSE}}, UpdateWrite(r) PROVE ReceivedAtStep'
  BY <1>12 DEF UpdateWrite, StillStopped, Rows
<1>13. ASSUME Delete PROVE ReceivedAtStep'
  BY <1>13 DEF Delete
<1>14. CASE UNCHANGED vars
  BY <1>14 DEF vars
<1> QED
  BY <1>1, <1>2, <1>3, <1>4, <1>5, <1>6, <1>7, <1>8, <1>9,
     <1>10, <1>11, <1>12, <1>13, <1>14
  DEF Next, River, Work, Admin

(* The history of inactive attempts is about the attempt in progress. *)
LEMMA StoppedPreserved == ASSUME IInv, [Next]_vars PROVE StoppedAtStep'
<1> USE WebhookBoundsAssumption DEF IInv, TypeOK, JobShape, StoppedAtStep,
      rowVars, jobVars, httpVars, editVars, GoTo
<1>1. ASSUME NEW j \in Jobs, GetActiveByWorkspace(j) PROVE StoppedAtStep'
  BY <1>1 DEF GetActiveByWorkspace
<1>2. ASSUME NEW j \in Jobs, EnqueueWebhook(j) PROVE StoppedAtStep'
  BY <1>2 DEF EnqueueWebhook
<1>3. ASSUME NEW j \in Jobs, Fetch(j) PROVE StoppedAtStep'
  BY <1>3 DEF Fetch
<1>4. ASSUME NEW j \in Jobs, Finish(j) PROVE StoppedAtStep'
  BY <1>4 DEF Finish, AfterError
<1>5. ASSUME NEW j \in Jobs, Crash(j) PROVE StoppedAtStep'
  BY <1>5 DEF Crash
<1>6. ASSUME NEW j \in Jobs, Rescue(j) PROVE StoppedAtStep'
  BY <1>6 DEF Rescue, AfterError
<1>7. ASSUME NEW j \in Jobs, GetByID(j) PROVE StoppedAtStep'
  BY <1>7 DEF GetByID
<1>8. ASSUME NEW j \in Jobs, Post(j) PROVE StoppedAtStep'
  BY <1>8 DEF Post
<1>9. ASSUME NEW j \in Jobs, handleFailure(j) PROVE StoppedAtStep'
  BY <1>9 DEF handleFailure, IncrementFailureCount, StillStopped
<1>10. ASSUME NEW j \in Jobs, ResetFailureCount(j) PROVE StoppedAtStep'
  BY <1>10 DEF ResetFailureCount
<1>11. ASSUME UpdateRead PROVE StoppedAtStep'
  BY <1>11 DEF UpdateRead, Rows
<1>12. ASSUME NEW r \in {{}, {TRUE}, {FALSE}}, UpdateWrite(r) PROVE StoppedAtStep'
  BY <1>12 DEF UpdateWrite, StillStopped, Rows
<1>13. ASSUME Delete PROVE StoppedAtStep'
  BY <1>13 DEF Delete
<1>14. CASE UNCHANGED vars
  BY <1>14 DEF vars
<1> QED
  BY <1>1, <1>2, <1>3, <1>4, <1>5, <1>6, <1>7, <1>8, <1>9,
     <1>10, <1>11, <1>12, <1>13, <1>14
  DEF Next, River, Work, Admin

(* Counter and switches move together until a PUT. *)
LEMMA CounterPreserved == ASSUME IInv, [Next]_vars PROVE Counter'
<1> USE WebhookBoundsAssumption DEF IInv, TypeOK, Counter, ThresholdDisables, DisabledStaysInactive,
      rowVars, jobVars, httpVars, editVars, GoTo
<1>1. ASSUME NEW j \in Jobs, GetActiveByWorkspace(j) PROVE Counter'
  BY <1>1 DEF GetActiveByWorkspace
<1>2. ASSUME NEW j \in Jobs, EnqueueWebhook(j) PROVE Counter'
  BY <1>2 DEF EnqueueWebhook
<1>3. ASSUME NEW j \in Jobs, Fetch(j) PROVE Counter'
  BY <1>3 DEF Fetch
<1>4. ASSUME NEW j \in Jobs, Finish(j) PROVE Counter'
  BY <1>4 DEF Finish, AfterError
<1>5. ASSUME NEW j \in Jobs, Crash(j) PROVE Counter'
  BY <1>5 DEF Crash
<1>6. ASSUME NEW j \in Jobs, Rescue(j) PROVE Counter'
  BY <1>6 DEF Rescue, AfterError
<1>7. ASSUME NEW j \in Jobs, GetByID(j) PROVE Counter'
  BY <1>7 DEF GetByID
<1>8. ASSUME NEW j \in Jobs, Post(j) PROVE Counter'
  BY <1>8 DEF Post
<1>9. ASSUME NEW j \in Jobs, handleFailure(j) PROVE Counter'
  BY <1>9 DEF handleFailure, IncrementFailureCount, StillStopped
<1>10. ASSUME NEW j \in Jobs, ResetFailureCount(j) PROVE Counter'
  BY <1>10 DEF ResetFailureCount
<1>11. ASSUME UpdateRead PROVE Counter'
  BY <1>11 DEF UpdateRead, Rows
<1>12. ASSUME NEW r \in {{}, {TRUE}, {FALSE}}, UpdateWrite(r) PROVE Counter'
  BY <1>12 DEF UpdateWrite, StillStopped, Rows
<1>13. ASSUME Delete PROVE Counter'
  BY <1>13 DEF Delete
<1>14. CASE UNCHANGED vars
  BY <1>14 DEF vars
<1> QED
  BY <1>1, <1>2, <1>3, <1>4, <1>5, <1>6, <1>7, <1>8, <1>9,
     <1>10, <1>11, <1>12, <1>13, <1>14
  DEF Next, River, Work, Admin
-----------------------------------------------------------------------------
(* The invariant is inductive, so it holds in every reachable state. *)
LEMMA Inductive == Spec => []IInv
<1>1. IInv /\ [Next]_vars => IInv'
  BY TypePreserved, ShapePreserved, PostsPreserved, ReceivedPreserved, StoppedPreserved,
     CounterPreserved DEF IInv
<1> QED
  BY InitIInv, <1>1, PTL DEF Spec
-----------------------------------------------------------------------------
(***************************************************************************)
(* The theorems                                                            *)
(***************************************************************************)

\* Every variable keeps its type: no job is charged more than MaxAttempts
\* attempts (AfterError, Fetch).
THEOREM TypeCorrect == Spec => []TypeOK
<1>1. IInv => TypeOK
  BY DEF IInv
<1> QED
  BY Inductive, <1>1, PTL

\* A job is completed only if the endpoint took the event (WebhookWorker.Work).
THEOREM CompletedWasAlwaysReceived == Spec => []CompletedWasReceived
<1>1. IInv => CompletedWasReceived
  BY DEF IInv, ReceivedAtStep, CompletedWasReceived
<1> QED
  BY Inductive, <1>1, PTL

\* Crashes, rescues and lost answers never make more requests than attempts.
THEOREM PostsAlwaysBounded == Spec => []PostsBounded
<1>1. IInv => PostsBounded
  BY DEF IInv, PostsAtStep, PostsBounded
<1> QED
  BY Inductive, <1>1, PTL

\* Until a PUT, a webhook whose counter has reached the threshold is disabled
\* (IncrementFailureCount).
THEOREM ThresholdAlwaysDisables == Spec => []ThresholdDisables
<1>1. IInv => ThresholdDisables
  BY DEF IInv, Counter
<1> QED
  BY Inductive, <1>1, PTL

\* Until a PUT, a disabled webhook stays inactive: no late success brings it
\* back (ResetFailureCount).
THEOREM DisabledAlwaysInactive == Spec => []DisabledStaysInactive
<1>1. IInv => DisabledStaysInactive
  BY DEF IInv, Counter
<1> QED
  BY Inductive, <1>1, PTL

\* An attempt during which the webhook was never active makes no request
\* (WebhookWorker.Work, step 2).
THEOREM InactiveNeverCalled == Spec => InactiveIsNotCalled
<1>1. ASSUME IInv, [Next]_vars
      PROVE  [\A j \in Jobs : posts'[j] # posts[j] => j \notin stopped]_vars
  <2>1. SUFFICES ASSUME Next, NEW j \in Jobs, posts'[j] # posts[j]
                 PROVE  pc[j] = "post"
    BY <1>1 DEF IInv, StoppedAtStep
  <2>2. \E k \in Jobs : Post(k)
    BY <2>1 DEF Next, River, Work, Admin, GetActiveByWorkspace, EnqueueWebhook, Fetch, Finish,
       Crash, Rescue, GetByID, handleFailure, ResetFailureCount, UpdateRead, UpdateWrite,
       Delete, httpVars
  <2>3. PICK k \in Jobs : Post(k)
    BY <2>2
  <2>4. k = j
    BY <1>1, <2>1, <2>3 DEF Post, IInv, TypeOK
  <2> QED
    BY <2>3, <2>4 DEF Post
<1> QED
  BY Inductive, <1>1, PTL DEF Spec, InactiveIsNotCalled
=============================================================================
