-------------------------- MODULE WebhookDelivery --------------------------
(***************************************************************************)
(* One workspace webhook: the row with its failure counter, the jobs that  *)
(* WebhookService.Dispatch enqueues for it, the WebhookWorker attempts     *)
(* that POST to the endpoint, and the administrator's PUT and DELETE.      *)
(*                                                                         *)
(* Up to 15 attempts run at once and each works with the row it read: the  *)
(* counter moves between the read, the endpoint's answer and the write.    *)
(***************************************************************************)
EXTENDS Integers

CONSTANTS
    Jobs,         \* events dispatched to the webhook, one job each
    MaxAttempts,  \* WebhookJobArgs.InsertOpts: 6 in the code
    Threshold,    \* IncrementFailureCount: 10 in the code
    Faults        \* which failures and which administrator actions may happen

ASSUME WebhookBoundsAssumption ==
    /\ MaxAttempts \in Nat \ {0}
    /\ Threshold \in Nat \ {0}
    /\ Faults \subseteq {"crash", "db", "ambiguous", "update", "delete"}

VARIABLES
    exists, active,      \* webhooks: the row, is_active
    failures, disabled,  \* consecutive_failures; disabled_at is set
    job, attempt,        \* River: state of the job, attempts charged
    pc, dirty,           \* next step; before its request: it read consecutive_failures > 0
    posts, received,     \* requests made for the job; answered 2xx (or accepted unheard)
    edit,                \* the row as the administrator's PUT read it
    edited,              \* history: a PUT has been written
    stopped              \* history: jobs whose attempt saw the webhook inactive throughout

vars == <<exists, active, failures, disabled, job, attempt, pc, dirty, posts, received,
          edit, edited, stopped>>
editVars == <<edit, edited>>
rowVars  == <<exists, active, failures, disabled>>
jobVars  == <<job, attempt>>
httpVars == <<posts, received>>

Rows == [active : BOOLEAN, failures : Nat, disabled : BOOLEAN]

JobStates == {"none", "listed", "available", "running", "completed", "cancelled", "discarded"}
Steps == {"idle", "get", "post", "transient", "permanent", "reset", "complete", "retry",
          "cancel", "crashed"}

TypeOK ==
    /\ exists \in BOOLEAN /\ active \in BOOLEAN /\ disabled \in BOOLEAN
    /\ failures \in Nat /\ edited \in BOOLEAN
    /\ job \in [Jobs -> JobStates] /\ attempt \in [Jobs -> 0..MaxAttempts]
    /\ pc \in [Jobs -> Steps] /\ dirty \in [Jobs -> BOOLEAN]
    /\ posts \in [Jobs -> 0..MaxAttempts] /\ received \in [Jobs -> 0..MaxAttempts]
    /\ \A row \in edit : row \in Rows
    /\ stopped \subseteq Jobs

\* WebhookHandler.Create: an active row with no failures.
Init ==
    /\ exists = TRUE /\ active = TRUE /\ failures = 0 /\ disabled = FALSE
    /\ job = [j \in Jobs |-> "none"] /\ attempt = [j \in Jobs |-> 0]
    /\ pc = [j \in Jobs |-> "idle"] /\ dirty = [j \in Jobs |-> FALSE]
    /\ posts = [j \in Jobs |-> 0] /\ received = [j \in Jobs |-> 0]
    /\ edit = {} /\ edited = FALSE /\ stopped = {}

GoTo(j, step) == pc' = [pc EXCEPT ![j] = step]

\* The history of which attempts are being made against an inactive webhook.
StillStopped == stopped' = IF active' THEN {} ELSE stopped
-----------------------------------------------------------------------------
(***************************************************************************)
(* WebhookService.Dispatch: read the active webhooks, then enqueue.        *)
(***************************************************************************)
GetActiveByWorkspace(j) ==
    /\ job[j] = "none"
    /\ exists /\ active /\ ~disabled
    /\ job' = [job EXCEPT ![j] = "listed"]
    /\ UNCHANGED <<rowVars, attempt, pc, dirty, httpVars, editVars, stopped>>

\* A failed insert is logged and the event is lost for this webhook.
EnqueueWebhook(j) ==
    /\ job[j] = "listed"
    /\ \/ job' = [job EXCEPT ![j] = "available"]
       \/ "db" \in Faults /\ job' = [job EXCEPT ![j] = "cancelled"]
    /\ UNCHANGED <<rowVars, attempt, pc, dirty, httpVars, editVars, stopped>>
-----------------------------------------------------------------------------
(***************************************************************************)
(* River (external)                                                        *)
(***************************************************************************)
Fetch(j) ==
    /\ job[j] = "available"
    /\ job' = [job EXCEPT ![j] = "running"]
    /\ attempt' = [attempt EXCEPT ![j] = @ + 1]
    /\ GoTo(j, "get")
    /\ stopped' = IF exists /\ active THEN stopped \ {j} ELSE stopped \union {j}
    /\ UNCHANGED <<rowVars, dirty, httpVars, editVars>>

AfterError(j) == IF attempt[j] < MaxAttempts THEN "available" ELSE "discarded"

Finish(j) ==
    /\ \/ pc[j] = "complete" /\ job' = [job EXCEPT ![j] = "completed"]
       \/ pc[j] = "cancel" /\ job' = [job EXCEPT ![j] = "cancelled"]
       \/ pc[j] = "retry" /\ job' = [job EXCEPT ![j] = AfterError(j)]
    /\ GoTo(j, "idle")
    /\ UNCHANGED <<rowVars, attempt, dirty, httpVars, editVars, stopped>>

Crash(j) ==
    /\ "crash" \in Faults /\ pc[j] \notin {"idle", "crashed"}
    /\ GoTo(j, "crashed")
    /\ dirty' = [dirty EXCEPT ![j] = FALSE]
    /\ UNCHANGED <<rowVars, jobVars, httpVars, editVars, stopped>>

Rescue(j) ==
    /\ pc[j] = "crashed"
    /\ job' = [job EXCEPT ![j] = AfterError(j)]
    /\ GoTo(j, "idle")
    /\ UNCHANGED <<rowVars, attempt, dirty, httpVars, editVars, stopped>>
-----------------------------------------------------------------------------
(***************************************************************************)
(* WebhookWorker.Work                                                      *)
(***************************************************************************)

\* Mutant: the worker does not look at IsActive.
GetByID_IgnoresActive(j) ==
    /\ pc[j] = "get"
    /\ IF exists THEN GoTo(j, "post") /\ dirty' = [dirty EXCEPT ![j] = failures > 0]
                 ELSE GoTo(j, "cancel") /\ UNCHANGED dirty
    /\ UNCHANGED <<rowVars, jobVars, httpVars, editVars, stopped>>

\* Mutant: the worker waits until the webhook is active again.
GetByID_WaitsForActive(j) ==
    /\ pc[j] = "get" /\ exists /\ active
    /\ GoTo(j, "post")
    /\ dirty' = [dirty EXCEPT ![j] = failures > 0]
    /\ UNCHANGED <<rowVars, jobVars, httpVars, editVars, stopped>>

\* Steps 1 and 2: a missing row, a failed read, an inactive webhook or a
\* blocked host cancel the job.
GetByID(j) ==
    /\ pc[j] = "get"
    /\ \/ /\ exists /\ active
          /\ GoTo(j, "post")
          /\ dirty' = [dirty EXCEPT ![j] = failures > 0]
       \/ GoTo(j, "cancel") /\ UNCHANGED dirty
    /\ UNCHANGED <<rowVars, jobVars, httpVars, editVars, stopped>>

\* Steps 4 and 5: the endpoint (external) answers 2xx, 429 or 5xx (or not at
\* all), or anything else; its answer may be lost on the way back.
Post(j) ==
    /\ pc[j] = "post"
    /\ posts' = [posts EXCEPT ![j] = @ + 1]
    /\ dirty' = [dirty EXCEPT ![j] = FALSE]
    /\ \/ /\ received' = [received EXCEPT ![j] = @ + 1]
                /\ GoTo(j, IF dirty[j] THEN "reset" ELSE "complete")
       \/ /\ "ambiguous" \in Faults
          /\ received' = [received EXCEPT ![j] = @ + 1]
          /\ GoTo(j, "transient")
       \/ /\ UNCHANGED received
          /\ GoTo(j, "transient") \/ GoTo(j, "permanent")
    /\ UNCHANGED <<rowVars, jobVars, editVars, stopped>>

\* Mutant: the counter stops one failure late.
IncrementFailureCount_OffByOne ==
    /\ failures' = failures + 1
    /\ active' = (active /\ failures + 1 <= Threshold)
    /\ disabled' = (disabled \/ failures + 1 > Threshold)

\* One UPDATE statement.
IncrementFailureCount ==
    /\ failures' = failures + 1
    /\ active' = (active /\ failures + 1 < Threshold)
    /\ disabled' = (disabled \/ failures + 1 >= Threshold)

\* handleFailure and handlePermanentFailure: a failed update is only logged.
handleFailure(j) ==
    /\ pc[j] \in {"transient", "permanent"}
    /\ \/ exists /\ IncrementFailureCount
       \/ (~exists \/ "db" \in Faults) /\ UNCHANGED <<failures, active, disabled>>
    /\ GoTo(j, IF pc[j] = "transient" THEN "retry" ELSE "cancel")
    /\ StillStopped
    /\ UNCHANGED <<exists, jobVars, dirty, httpVars, editVars>>

\* Mutant: the reset also reactivates the webhook.
ResetFailureCount_Reactivates(j) ==
    /\ pc[j] = "reset"
    /\ failures' = 0 /\ active' = TRUE
    /\ GoTo(j, "complete")
    /\ StillStopped
    /\ UNCHANGED <<exists, disabled, jobVars, dirty, httpVars, editVars>>

\* After a 2xx, and only if the attempt had read a counter above zero.
ResetFailureCount(j) ==
    /\ pc[j] = "reset"
    /\ \/ exists /\ failures' = 0
       \/ (~exists \/ "db" \in Faults) /\ UNCHANGED failures
    /\ GoTo(j, "complete")
    /\ UNCHANGED <<exists, active, disabled, jobVars, dirty, httpVars, editVars, stopped>>
-----------------------------------------------------------------------------
(***************************************************************************)
(* WebhookHandler.Update reads the whole row, applies the fields of the    *)
(* request and writes the whole row back; Delete removes it.               *)
(***************************************************************************)
UpdateRead ==
    /\ "update" \in Faults /\ exists /\ edit = {}
    /\ edit' = {[active |-> active, failures |-> failures, disabled |-> disabled]}
    /\ UNCHANGED <<rowVars, jobVars, pc, dirty, httpVars, edited, stopped>>

\* requested: the is_active of the request, or {} when it names none.
UpdateWrite(requested) ==
    /\ edit # {}
    /\ IF exists
       THEN \E row \in edit :
              /\ active' = IF requested = {} THEN row.active ELSE TRUE \in requested
              /\ failures' = row.failures
              /\ disabled' = row.disabled
       ELSE UNCHANGED <<active, failures, disabled>>
    /\ edit' = {} /\ edited' = TRUE
    /\ StillStopped
    /\ UNCHANGED <<exists, jobVars, pc, dirty, httpVars>>

Delete ==
    /\ "delete" \in Faults /\ exists
    /\ exists' = FALSE
    /\ UNCHANGED <<active, failures, disabled, jobVars, pc, dirty, httpVars, editVars, stopped>>
-----------------------------------------------------------------------------
Work(j) == GetByID(j) \/ Post(j) \/ handleFailure(j) \/ ResetFailureCount(j)
River(j) == Fetch(j) \/ Finish(j) \/ Rescue(j)
Admin == UpdateRead \/ Delete \/ \E r \in {{}, {TRUE}, {FALSE}} : UpdateWrite(r)

Next ==
    \/ \E j \in Jobs : \/ GetActiveByWorkspace(j) \/ EnqueueWebhook(j)
                       \/ River(j) \/ Crash(j) \/ Work(j)
    \/ Admin

Spec == Init /\ [][Next]_vars

(***************************************************************************)
(* Workers finish what they start, River fetches, finishes and rescues.    *)
(***************************************************************************)
Fairness == \A j \in Jobs : WF_vars(EnqueueWebhook(j)) /\ WF_vars(River(j)) /\ WF_vars(Work(j))

FairSpec == Spec /\ Fairness
-----------------------------------------------------------------------------
(***************************************************************************)
(* Properties                                                              *)
(***************************************************************************)

\* A job is over as completed only if the endpoint really took the event.
CompletedWasReceived == \A j \in Jobs : job[j] = "completed" => received[j] > 0

\* Retries, crashes and lost answers never make more requests than attempts.
PostsBounded == \A j \in Jobs : posts[j] <= attempt[j]

\* An endpoint that was inactive when the attempt began, and has been since, is
\* not called, whoever deactivated it and whatever was queued before.
InactiveIsNotCalled == [][\A j \in Jobs : posts'[j] # posts[j] => j \notin stopped]_vars

\* Until an administrator edits it, a webhook whose counter has reached the
\* threshold is disabled, whichever of the concurrent attempts counted the last
\* failure (IncrementFailureCount).
ThresholdDisables == failures >= Threshold => (~active /\ disabled) \/ edited

\* Nothing but an administrator brings a disabled webhook back: a late success
\* that resets the counter does not.
DisabledStaysInactive == disabled => ~active \/ edited

\* Every event that was dispatched is delivered or given up.
JobEnds ==
    \A j \in Jobs : job[j] = "listed" ~> job[j] \in {"completed", "cancelled", "discarded"}
=============================================================================
