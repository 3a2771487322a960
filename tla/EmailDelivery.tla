--------------------------- MODULE EmailDelivery ---------------------------
(***************************************************************************)
(* One email from POST /send to its settled status: the row in "emails",   *)
(* the River job that carries it, and the steps of SendWorker.Work, with   *)
(* the failures the worker is written to survive.                          *)
(*                                                                         *)
(* A worker step is one access to the database or to the provider; steps   *)
(* of different actors (workers, the pg_cron sweep, River's rescuer, a     *)
(* runtime reset, changes to the suppression lists) interleave freely.     *)
(* A job belongs to one email, so the state of the running attempt is      *)
(* indexed by the email.                                                   *)
(***************************************************************************)
EXTENDS Integers

CONSTANTS
    Emails,       \* identities of the email rows
    MaxAttempts,  \* SendJobArgs.InsertOpts: 5 in the code
    Faults        \* which failures the environment may inject

FaultKinds == {"crash", "db", "limiter", "resolve", "ambiguous", "noid"}

ASSUME MaxAttemptsAssumption == MaxAttempts \in Nat \ {0}
ASSUME FaultsAssumption == Faults \subseteq FaultKinds

VARIABLES
    status,    \* emails.status, plus "new" (no row yet) and "purged" (row deleted)
    pmid,      \* emails.provider_message_id: 0, or which acceptance it names
    age,       \* how long ago emails.updated_at was written
    events,    \* event types recorded in email_events
    gate,      \* SendService's view of the suppression lists for this email
    job,       \* state of the River job
    attempt,   \* attempts River has charged to the job
    pc,        \* next step of the running attempt
    rec,       \* recoveringProcessingSend of the running attempt
    listed,    \* emails whose recipient is on the global or workspace list
    optedOut,  \* emails whose recipient opted out of the template type
    accepted,  \* messages the provider has accepted for the email
    held,      \* history: listed during the whole attempt, re-check not failed
    nameless   \* history: the last message accepted for it came back without an id

rowVars  == <<status, pmid, age, events>>
jobVars  == <<job, attempt>>
listVars == <<listed, optedOut>>
vars     == <<status, pmid, age, events, gate, job, attempt, pc, rec,
              listed, optedOut, accepted, held, nameless>>

Statuses == {"new", "queued", "processing", "sent", "delivered", "opened",
             "bounced", "complained", "failed", "suppressed", "purged"}

EventTypes == Statuses \ {"new", "purged"}

JobStates == {"none", "available", "running", "completed", "cancelled", "discarded"}

Ages == {"fresh", "stale", "dead"}

Steps == {"idle", "load", "recover", "limit", "claim", "payload", "check", "suppress",
          "prepare", "deliver", "senderr", "record", "mark", "fail",
          "complete", "cancel", "retry", "snooze", "crashed"}

TypeOK ==
    /\ status   \in [Emails -> Statuses]
    /\ pmid     \in [Emails -> 0..MaxAttempts]
    /\ age      \in [Emails -> Ages]
    /\ events   \in [Emails -> SUBSET EventTypes]
    /\ gate     \in [Emails -> {"unseen", "clear", "blocked"}]
    /\ job      \in [Emails -> JobStates]
    /\ attempt  \in [Emails -> 0..MaxAttempts]
    /\ pc       \in [Emails -> Steps]
    /\ rec      \in [Emails -> BOOLEAN]
    /\ listed   \subseteq Emails
    /\ optedOut \subseteq Emails
    /\ accepted \in [Emails -> 0..MaxAttempts]
    /\ held     \subseteq Emails
    /\ nameless \subseteq Emails

Init ==
    /\ status   = [e \in Emails |-> "new"]
    /\ pmid     = [e \in Emails |-> 0]
    /\ age      = [e \in Emails |-> "fresh"]
    /\ events   = [e \in Emails |-> {}]
    /\ gate     = [e \in Emails |-> "unseen"]
    /\ job      = [e \in Emails |-> "none"]
    /\ attempt  = [e \in Emails |-> 0]
    /\ pc       = [e \in Emails |-> "idle"]
    /\ rec      = [e \in Emails |-> FALSE]
    /\ listed   = {}
    /\ optedOut = {}
    /\ accepted = [e \in Emails |-> 0]
    /\ held     = {}
    /\ nameless = {}
-----------------------------------------------------------------------------
(***************************************************************************)
(* EmailRepo.  A write either reaches the row or fails; the caller sees    *)
(* which.  Every write refreshes updated_at.                               *)
(***************************************************************************)
GoTo(e, step) == pc' = [pc EXCEPT ![e] = step]

\* UPDATE emails SET status = new WHERE id = e AND status = old: the row matched.
UpdateStatus(e, new, old) ==
    /\ status[e] = old
    /\ status' = [status EXCEPT ![e] = new]
    /\ age' = [age EXCEPT ![e] = "fresh"]

\* The same statement when it matched no row (ErrStatusConflict) or failed.
UpdateStatusFails(e, old) ==
    /\ status[e] # old \/ "db" \in Faults
    /\ UNCHANGED <<status, age>>

\* INSERT INTO email_events by a caller that only logs a failure.
AddEvent(e, type) ==
    \/ events' = [events EXCEPT ![e] = @ \union {type}]
    \/ "db" \in Faults /\ UNCHANGED events

\* DELETE of the events, payloads and emails of a workspace in one transaction.
\* The jobs are left in the queue.
PurgeWorkspaceRuntime ==
    /\ \E e \in Emails : status[e] \notin {"new", "purged"}
    /\ status' = [e \in Emails |-> IF status[e] = "new" THEN "new" ELSE "purged"]
    /\ events' = [e \in Emails |-> {}]
    /\ UNCHANGED <<pmid, age, gate, jobVars, pc, rec, listVars, accepted, held, nameless>>
-----------------------------------------------------------------------------
(***************************************************************************)
(* SendService: the lists are read first, the row is written later.        *)
(***************************************************************************)
EvaluateSuppression(e) ==
    /\ gate[e] = "unseen"
    /\ gate' = [gate EXCEPT ![e] =
                   IF e \in listed \union optedOut THEN "blocked" ELSE "clear"]
    /\ UNCHANGED <<rowVars, jobVars, pc, rec, listVars, accepted, held, nameless>>

\* Row, payload, job and "queued" event in one transaction.
CreateQueued(e) ==
    /\ gate[e] = "clear" /\ status[e] = "new"
    /\ status' = [status EXCEPT ![e] = "queued"]
    /\ events' = [events EXCEPT ![e] = {"queued"}]
    /\ job' = [job EXCEPT ![e] = "available"]
    /\ UNCHANGED <<pmid, age, gate, attempt, pc, rec, listVars, accepted, held, nameless>>

\* Row and "suppressed" event in one transaction; no job.
CreateSuppressed(e) ==
    /\ gate[e] = "blocked" /\ status[e] = "new"
    /\ status' = [status EXCEPT ![e] = "suppressed"]
    /\ events' = [events EXCEPT ![e] = {"suppressed"}]
    /\ UNCHANGED <<pmid, age, gate, jobVars, pc, rec, listVars, accepted, held, nameless>>

(***************************************************************************)
(* The lists change while the email is queued or being sent: bounces,      *)
(* complaints, opt-out-all and manual blocks; removals by an administrator *)
(* or by "resubscribe"; one-click and preference-centre opt-outs per type. *)
(***************************************************************************)
List(e) ==
    /\ e \notin listed
    /\ listed' = listed \union {e}
    /\ UNCHANGED <<rowVars, gate, jobVars, pc, rec, optedOut, accepted, held, nameless>>

Unlist(e) ==
    /\ e \in listed
    /\ listed' = listed \ {e}
    /\ held' = held \ {e}
    /\ UNCHANGED <<rowVars, gate, jobVars, pc, rec, optedOut, accepted, nameless>>

OptOut(e) ==
    /\ e \notin optedOut
    /\ optedOut' = optedOut \union {e}
    /\ UNCHANGED <<rowVars, gate, jobVars, pc, rec, listed, accepted, held, nameless>>
-----------------------------------------------------------------------------
(***************************************************************************)
(* River (external): fetching a job charges an attempt; what Work returned *)
(* decides the job's next state; a job whose worker died is rescued after  *)
(* an hour, long after its row has become "dead".                          *)
(***************************************************************************)
Fetch(e) ==
    /\ job[e] = "available"
    /\ job' = [job EXCEPT ![e] = "running"]
    /\ attempt' = [attempt EXCEPT ![e] = @ + 1]
    /\ GoTo(e, "load")
    /\ rec' = [rec EXCEPT ![e] = FALSE]
    /\ held' = IF e \in listed THEN held \union {e} ELSE held \ {e}
    /\ UNCHANGED <<rowVars, gate, listVars, accepted, nameless>>

AfterError(e) == IF attempt[e] < MaxAttempts THEN "available" ELSE "discarded"

Finish(e) ==
    /\ \/ pc[e] = "complete" /\ job' = [job EXCEPT ![e] = "completed"] /\ UNCHANGED attempt
       \/ pc[e] = "cancel"   /\ job' = [job EXCEPT ![e] = "cancelled"] /\ UNCHANGED attempt
       \/ pc[e] = "retry"    /\ job' = [job EXCEPT ![e] = AfterError(e)] /\ UNCHANGED attempt
       \/ pc[e] = "snooze"   /\ job' = [job EXCEPT ![e] = "available"]
                             /\ attempt' = [attempt EXCEPT ![e] = @ - 1]
    /\ GoTo(e, "idle")
    /\ UNCHANGED <<rowVars, gate, rec, listVars, accepted, held, nameless>>

\* The process dies between two steps; the job stays "running".
Crash(e) ==
    /\ "crash" \in Faults
    /\ pc[e] \notin {"idle", "crashed"}
    /\ GoTo(e, "crashed")
    /\ UNCHANGED <<rowVars, gate, jobVars, rec, listVars, accepted, held, nameless>>

Rescue(e) ==
    /\ pc[e] = "crashed"
    /\ status[e] = "processing" => age[e] = "dead"
    /\ job' = [job EXCEPT ![e] = AfterError(e)]
    /\ GoTo(e, "idle")
    /\ UNCHANGED <<rowVars, gate, attempt, rec, listVars, accepted, held, nameless>>
-----------------------------------------------------------------------------
(***************************************************************************)
(* Time.  updated_at passes 10 minutes (staleProcessingThreshold), then    *)
(* the 30 minutes of the sweep.  An attempt is cut off after one minute,   *)
(* so a row ages between attempts, not during one.                         *)
(***************************************************************************)
Age(e) ==
    /\ status[e] = "processing" /\ pc[e] \in {"idle", "crashed"} /\ age[e] # "dead"
    /\ age' = [age EXCEPT ![e] = IF @ = "fresh" THEN "stale" ELSE "dead"]
    /\ UNCHANGED <<status, pmid, events, gate, jobVars, pc, rec, listVars, accepted, held, nameless>>

\* Mutant: the sweep skips rows that carry a provider message id.
Sweep_SkipsRecorded(e) ==
    /\ status[e] = "processing" /\ age[e] = "dead" /\ pmid[e] = 0
    /\ status' = [status EXCEPT ![e] = "failed"]
    /\ age' = [age EXCEPT ![e] = "fresh"]
    /\ events' = [events EXCEPT ![e] = @ \union {"failed"}]
    /\ UNCHANGED <<pmid, gate, jobVars, pc, rec, listVars, accepted, held, nameless>>

\* pg_cron job stuck-processing-sweep: status and event in one statement.
Sweep(e) ==
    /\ status[e] = "processing" /\ age[e] = "dead"
    /\ status' = [status EXCEPT ![e] = "failed"]
    /\ age' = [age EXCEPT ![e] = "fresh"]
    /\ events' = [events EXCEPT ![e] = @ \union {"failed"}]
    /\ UNCHANGED <<pmid, gate, jobVars, pc, rec, listVars, accepted, held, nameless>>
-----------------------------------------------------------------------------
(***************************************************************************)
(* SendWorker.Work                                                         *)
(***************************************************************************)
attemptLocal == <<gate, jobVars, listVars>>

\* Mutant: the provider-id guard dropped.
Load_IgnoresProviderId(e) ==
    /\ pc[e] = "load"
    /\ \/ /\ status[e] \in {"purged", "sent", "failed", "suppressed"}
          /\ GoTo(e, "cancel") /\ UNCHANGED rec
       \/ /\ status[e] = "processing"
          /\ GoTo(e, "limit") /\ rec' = [rec EXCEPT ![e] = TRUE]
       \/ /\ status[e] = "queued"
          /\ GoTo(e, "limit") /\ UNCHANGED rec
    /\ UNCHANGED <<rowVars, attemptLocal, accepted, held, nameless>>

\* Steps 1 and 1b: read the row, then the three idempotency guards.
Load(e) ==
    /\ pc[e] = "load"
    /\ \/ /\ \/ status[e] \in {"purged", "sent", "failed", "suppressed"}
             \/ "db" \in Faults
          /\ GoTo(e, "cancel") /\ UNCHANGED rec
       \/ /\ status[e] = "processing" /\ pmid[e] # 0
          /\ GoTo(e, "recover") /\ UNCHANGED rec
       \/ /\ status[e] = "processing" /\ pmid[e] = 0 /\ age[e] # "fresh"
          /\ GoTo(e, "fail") /\ UNCHANGED rec
       \/ /\ status[e] = "processing" /\ pmid[e] = 0 /\ age[e] = "fresh"
          /\ GoTo(e, "limit") /\ rec' = [rec EXCEPT ![e] = TRUE]
       \/ /\ status[e] \notin {"purged", "sent", "failed", "suppressed", "processing"}
          /\ GoTo(e, "limit") /\ UNCHANGED rec
    /\ UNCHANGED <<rowVars, attemptLocal, accepted, held, nameless>>

\* Sent but not marked: only the status is updated.
Recover(e) ==
    /\ pc[e] = "recover"
    /\ \/ UpdateStatus(e, "sent", "processing") /\ GoTo(e, "complete")
       \/ UpdateStatusFails(e, "processing") /\ GoTo(e, "retry")
    /\ UNCHANGED <<pmid, events, attemptLocal, rec, accepted, held, nameless>>

\* Mutant: a denied token cancels the job instead of snoozing it.
AcquireToken_CancelsWhenDenied(e) ==
    /\ pc[e] = "limit"
    /\ GoTo(e, IF rec[e] THEN "payload" ELSE "claim") \/ GoTo(e, "cancel")
    /\ UNCHANGED <<rowVars, attemptLocal, rec, accepted, held, nameless>>

\* Step 2: a token, a snooze that costs no attempt, or an error.
AcquireToken(e) ==
    /\ pc[e] = "limit"
    /\ \/ GoTo(e, IF rec[e] THEN "payload" ELSE "claim")
       \/ GoTo(e, "snooze")
       \/ "limiter" \in Faults /\ GoTo(e, "retry")
    /\ UNCHANGED <<rowVars, attemptLocal, rec, accepted, held, nameless>>

\* Step 3: compare-and-set queued -> processing.
Claim(e) ==
    /\ pc[e] = "claim"
    /\ \/ /\ UpdateStatus(e, "processing", "queued")
          /\ AddEvent(e, "processing")
          /\ GoTo(e, "payload")
       \/ /\ status[e] # "queued"
          /\ GoTo(e, "cancel") /\ UNCHANGED <<status, age, events>>
       \/ /\ "db" \in Faults
          /\ GoTo(e, "retry") /\ UNCHANGED <<status, age, events>>
    /\ UNCHANGED <<pmid, attemptLocal, rec, accepted, held, nameless>>

\* Mutant: a resumed attempt skips the suppression re-check.
GetPayload_ResumeSkipsCheck(e) ==
    /\ pc[e] = "payload"
    /\ \/ status[e] # "purged" /\ GoTo(e, IF rec[e] THEN "prepare" ELSE "check")
       \/ status[e] = "purged" /\ GoTo(e, "fail")
    /\ UNCHANGED <<rowVars, attemptLocal, rec, accepted, held, nameless>>

\* Step 4: the payload is deleted with its row.
GetPayload(e) ==
    /\ pc[e] = "payload"
    /\ \/ status[e] # "purged" /\ GoTo(e, "check")
       \/ (status[e] = "purged" \/ "db" \in Faults) /\ GoTo(e, "fail")
    /\ UNCHANGED <<rowVars, attemptLocal, rec, accepted, held, nameless>>

\* Step 4b: global and workspace lists only; an error lets the send proceed.
IsSuppressed(e) ==
    /\ pc[e] = "check"
    /\ \/ e \in listed /\ GoTo(e, "suppress") /\ UNCHANGED held
       \/ e \notin listed /\ GoTo(e, "prepare") /\ UNCHANGED held
       \/ "db" \in Faults /\ GoTo(e, "prepare") /\ held' = held \ {e}
    /\ UNCHANGED <<rowVars, attemptLocal, rec, accepted, nameless>>

MarkSuppressed(e) ==
    /\ pc[e] = "suppress"
    /\ \/ UpdateStatus(e, "suppressed", "processing")
       \/ UpdateStatusFails(e, "processing")
    /\ AddEvent(e, "suppressed")
    /\ GoTo(e, "cancel")
    /\ UNCHANGED <<pmid, attemptLocal, rec, accepted, held, nameless>>

\* Steps 5 to 10a: render, compile, build, resolve the sender.  A bad template
\* or adapter fails the email; a failed lookup of the adapter is retried.
Prepare(e) ==
    /\ pc[e] = "prepare"
    /\ \/ GoTo(e, "deliver")
       \/ GoTo(e, "fail")
       \/ "resolve" \in Faults /\ GoTo(e, "retry")
    /\ UNCHANGED <<rowVars, attemptLocal, rec, accepted, held, nameless>>

\* Step 10b: the provider (external) accepts, with or without a message id,
\* refuses, or accepts and the answer is lost on the way back.  Without an id
\* there is nothing for step 11 to store.
Deliver(e) ==
    /\ pc[e] = "deliver"
    /\ \/ /\ accepted' = [accepted EXCEPT ![e] = @ + 1]
          /\ \/ GoTo(e, "record") /\ nameless' = nameless \ {e}
             \/ "noid" \in Faults /\ GoTo(e, "mark") /\ nameless' = nameless \union {e}
             \/ "ambiguous" \in Faults /\ GoTo(e, "senderr") /\ nameless' = nameless \ {e}
       \/ /\ UNCHANGED <<accepted, nameless>>
          /\ GoTo(e, "fail") \/ GoTo(e, "senderr")
    /\ UNCHANGED <<rowVars, attemptLocal, rec, held>>

\* Mutants of HandleSendError: retried in place; the last attempt not recognised;
\* the email put back in the queue.
HandleSendError_RetriesInPlace(e) ==
    /\ pc[e] = "senderr"
    /\ GoTo(e, "deliver")
    /\ UNCHANGED <<rowVars, attemptLocal, rec, accepted, held, nameless>>

HandleSendError_OffByOne(e) ==
    /\ pc[e] = "senderr"
    /\ GoTo(e, IF attempt[e] > MaxAttempts THEN "fail" ELSE "retry")
    /\ UNCHANGED <<rowVars, attemptLocal, rec, accepted, held, nameless>>

HandleSendError_Requeues(e) ==
    /\ pc[e] = "senderr"
    /\ UpdateStatus(e, "queued", "processing")
    /\ GoTo(e, "retry")
    /\ UNCHANGED <<pmid, events, attemptLocal, rec, accepted, held, nameless>>

\* handleSendError for a transient error: the last attempt fails the email,
\* any other records the retry (which refreshes updated_at) and is retried.
HandleSendError(e) ==
    /\ pc[e] = "senderr"
    /\ \/ attempt[e] >= MaxAttempts /\ GoTo(e, "fail") /\ UNCHANGED age
       \/ /\ attempt[e] < MaxAttempts
          /\ GoTo(e, "retry")
          /\ \/ age' = [age EXCEPT ![e] = "fresh"]
             \/ "db" \in Faults /\ UNCHANGED age
    /\ UNCHANGED <<status, pmid, events, attemptLocal, rec, accepted, held, nameless>>

\* Mutant: a failed write of the id is ignored.
SetProviderMessageID_IgnoresError(e) ==
    /\ pc[e] = "record"
    /\ \/ pmid' = [pmid EXCEPT ![e] = accepted[e]]
       \/ "db" \in Faults /\ UNCHANGED pmid
    /\ GoTo(e, "mark")
    /\ UNCHANGED <<status, age, events, attemptLocal, rec, accepted, held, nameless>>

\* Step 11: no condition on the status, only on the row's existence.
SetProviderMessageID(e) ==
    /\ pc[e] = "record"
    /\ \/ /\ status[e] # "purged"
          /\ pmid' = [pmid EXCEPT ![e] = accepted[e]]
          /\ age' = [age EXCEPT ![e] = "fresh"]
          /\ GoTo(e, "mark")
       \/ /\ status[e] = "purged" \/ "db" \in Faults
          /\ GoTo(e, "retry") /\ UNCHANGED <<pmid, age>>
    /\ UNCHANGED <<status, events, attemptLocal, rec, accepted, held, nameless>>

\* Mutant: the "sent" event is written whether or not the row was updated.
MarkSent_EventRegardless(e) ==
    /\ pc[e] = "mark"
    /\ \/ UpdateStatus(e, "sent", "processing") /\ GoTo(e, "complete")
       \/ UpdateStatusFails(e, "processing") /\ GoTo(e, "retry")
    /\ AddEvent(e, "sent")
    /\ UNCHANGED <<pmid, attemptLocal, rec, accepted, held, nameless>>

\* Step 12.
MarkSent(e) ==
    /\ pc[e] = "mark"
    /\ \/ UpdateStatus(e, "sent", "processing") /\ AddEvent(e, "sent") /\ GoTo(e, "complete")
       \/ UpdateStatusFails(e, "processing") /\ GoTo(e, "retry") /\ UNCHANGED events
    /\ UNCHANGED <<pmid, attemptLocal, rec, accepted, held, nameless>>

\* failPermanently: a failed update of the status is only logged.
FailPermanently(e) ==
    /\ pc[e] = "fail"
    /\ UpdateStatus(e, "failed", "processing") \/ UpdateStatusFails(e, "processing")
    /\ AddEvent(e, "failed")
    /\ GoTo(e, "cancel")
    /\ UNCHANGED <<pmid, attemptLocal, rec, accepted, held, nameless>>
-----------------------------------------------------------------------------
Service(e) == EvaluateSuppression(e) \/ CreateQueued(e) \/ CreateSuppressed(e)
Lists(e)   == List(e) \/ Unlist(e) \/ OptOut(e)
River(e)   == Fetch(e) \/ Finish(e) \/ Rescue(e)
Clock(e)   == Age(e) \/ Sweep(e)
Work(e)    ==
    \/ Load(e) \/ Recover(e) \/ AcquireToken(e) \/ Claim(e) \/ GetPayload(e)
    \/ IsSuppressed(e) \/ MarkSuppressed(e) \/ Prepare(e) \/ Deliver(e)
    \/ HandleSendError(e) \/ SetProviderMessageID(e) \/ MarkSent(e) \/ FailPermanently(e)

Next ==
    \/ \E e \in Emails : Service(e) \/ Lists(e) \/ River(e) \/ Crash(e) \/ Clock(e) \/ Work(e)
    \/ PurgeWorkspaceRuntime

Spec == Init /\ [][Next]_vars

(***************************************************************************)
(* Fairness.  Workers keep taking steps, River keeps fetching, finishing   *)
(* and rescuing jobs, time keeps passing and the cron job keeps running.   *)
(* The token bucket refills continuously, so a job that asks for a token   *)
(* again and again is granted one.                                         *)
(***************************************************************************)
Fairness ==
    \A e \in Emails :
        /\ WF_vars(River(e)) /\ WF_vars(Work(e)) /\ WF_vars(Sweep(e))
        /\ SF_vars(Age(e))
        /\ SF_vars(AcquireToken(e) /\ pc'[e] \notin {"snooze", "retry"})

FairSpec == Spec /\ Fairness
-----------------------------------------------------------------------------
(***************************************************************************)
(* Safety                                                                  *)
(***************************************************************************)

\* An email is reported sent only after the provider accepted a message, and the
\* row names the last message accepted, through retries, rescues and lost
\* answers, unless the provider gave that very message no id: then no provider
\* event can find the email.
SentIsRecorded ==
    \A e \in Emails : status[e] = "sent" =>
        /\ accepted[e] > 0
        /\ pmid[e] = accepted[e] \/ e \in nameless

\* Once the provider message id is stored no attempt hands the email to the
\* provider again, whatever failed or crashed afterwards.
NeverResentOnceRecorded ==
    [][\A e \in Emails : pmid[e] # 0 => accepted'[e] = accepted[e]]_vars

\* The provider is only called for an email this attempt holds in "processing"
\* (or that a runtime reset deleted under the attempt): never for one that is
\* still queued, suppressed, already sent, or failed by the sweep.
DeliveredOnlyWhileClaimed ==
    [][\A e \in Emails :
          accepted'[e] # accepted[e] => status[e] \in {"processing", "purged"}]_vars

\* A recipient listed during the whole attempt is not written to, unless the
\* re-check itself failed: no step between the re-check and the provider call
\* can lose the decision.
SuppressionHonoured ==
    [][\A e \in Emails : accepted'[e] # accepted[e] => e \notin held]_vars

\* Retries, snoozes, rescues and lost answers never make more deliveries than
\* the attempts River charged to the job.
DeliveriesBounded == \A e \in Emails : accepted[e] <= attempt[e]

\* The event log never names an end that the row contradicts, even when only
\* one of the two writes of a step succeeded.  A row still in "processing"
\* beside its logged end is tolerated: it is what a lost update leaves behind.
EventsAgreeWithStatus ==
    \A e \in Emails :
        /\ "failed" \in events[e] => status[e] \in {"processing", "failed", "purged"}
        /\ "sent" \in events[e] => status[e] \in {"sent", "purged"}
        /\ "suppressed" \in events[e] =>
               status[e] \in {"processing", "suppressed", "failed", "purged"}

\* When no database write is lost and no process dies, a job that is over has
\* settled its email: nothing is left queued or processing without a job.
JobEndSettlesEmail ==
    \A e \in Emails : job[e] \in {"completed", "cancelled", "discarded"} =>
        status[e] \notin {"queued", "processing"}

(***************************************************************************)
(* Liveness                                                                *)
(***************************************************************************)

\* No email stays in "processing", under every failure: an attempt settles it
\* or the sweep does.
ProcessingSettles ==
    \A e \in Emails : status[e] = "processing" ~> status[e] # "processing"

\* Without crashes and lost writes every queued email is settled.
QueuedSettles ==
    \A e \in Emails : status[e] = "queued" ~> status[e] \notin {"queued", "processing"}

(***************************************************************************)
(* The worker implements the forward-only state machine.                   *)
(***************************************************************************)
Lifecycle == INSTANCE EmailLifecycle WITH handed <- {e \in Emails : accepted[e] > 0}

\* Every step of the service, the workers, the sweep and a reset is a step of
\* the state machine: no status is skipped, revived or set without the provider.
FollowsLifecycle == Lifecycle!Spec
=============================================================================
