--------------------------- MODULE ProviderEvents ---------------------------
(***************************************************************************)
(* What happens to one email after the provider accepted it: SES publishes *)
(* notifications to SNS, SNS delivers each at least once and in any order, *)
(* SESWebhookHandler claims the message and EventProcessor.Process applies *)
(* it to the row; the open-tracking pixel applies opens on the side.       *)
(*                                                                         *)
(* A step is one access to the database.  A handler works with the status  *)
(* it read, while other handlers, the pixel, the send worker and a runtime *)
(* reset change the row.                                                   *)
(***************************************************************************)
EXTENDS Integers

CONSTANTS
    Messages,  \* SNS messages about this email (or about the subscription)
    Kind,      \* what each message says
    Handlers,  \* server processes, each with a POST /webhooks/ses/inbound in flight
    Pixels,    \* server processes that serve GET /t/o/:tracking_id
    MaxOpens,  \* bound on the opens that are recorded
    Expected,  \* sns.expected_topic_arn: not set, this topic, or another one
    Faults     \* which failures the environment may inject

Negative == {"hard", "soft", "complained"}
Kinds    == {"delivered", "subscribe"} \union Negative

ASSUME KindAssumption == Kind \in [Messages -> Kinds]
ASSUME ProcsAssumption == Handlers \intersect Pixels = {}
ASSUME MaxOpensAssumption == MaxOpens \in Nat
ASSUME ExpectedAssumption == Expected \in {"none", "topic", "other"}
ASSUME EventFaultsAssumption ==
    Faults \subseteq {"crash", "restart", "db", "claim", "verify", "garbled", "duplicate",
                     "late", "confirm", "noid", "sweep", "reset"}

VARIABLES
    status,      \* emails.status
    recorded,    \* emails.provider_message_id is stored
    log,         \* email_events: how many of each kind
    lists,       \* which suppression lists hold the recipient because of this email
    dispatched,  \* events handed to the workspace's webhooks
    sns,         \* SNS's view of each message
    old,         \* messages whose timestamp has left the replay window
    claimed,     \* sns_message_replays
    confirm,     \* the subscription: last confirmation attempt
    bound,       \* processes whose registeredTopicArns holds the topic
    pc, msg,     \* each handler's next step and message
    seen,        \* status the handler or the pixel read
    recent       \* the processes whose recentOpens holds the tracking id

vars == <<status, recorded, log, lists, dispatched, sns, old, claimed, confirm,
          bound, pc, msg, seen, recent>>
rowVars   == <<status, recorded>>
trailVars == <<log, lists, dispatched>>
snsVars   == <<sns, old, claimed, confirm>>
procVars  == <<bound, recent>>

NoMessage == [none |-> TRUE]
Procs    == Handlers \union Pixels
Logged   == {"delivered", "opened"} \union Negative
Statuses == {"processing", "sent", "failed", "delivered", "opened", "bounced",
             "complained", "purged"}
Steps    == {"idle", "claim", "confirm", "lookup", "update", "event", "suppress",
             "dispatch", "ok", "error", "refuse"}

TypeOK ==
    /\ status \in Statuses /\ recorded \in BOOLEAN
    /\ log \in [Logged -> Nat] /\ dispatched \in [Logged -> Nat]
    /\ lists \subseteq {"global", "workspace"}
    /\ sns \in [Messages -> {"unpublished", "pending", "done"}]
    /\ old \subseteq Messages /\ claimed \subseteq Messages
    /\ confirm \in {"none", "failed", "confirmed"}
    /\ bound \subseteq Handlers /\ (Expected = "topic" => bound = Handlers)
    /\ pc \in [Procs -> Steps]
    /\ msg \in [Handlers -> Messages \union {NoMessage}] /\ seen \in [Procs -> Statuses]
    /\ recent \subseteq Pixels

\* The provider has accepted the message; the worker is about to record it.
Init ==
    /\ status = "processing" /\ recorded = FALSE
    /\ log = [k \in Logged |-> 0] /\ dispatched = [k \in Logged |-> 0]
    /\ lists = {}
    /\ sns = [m \in Messages |-> "unpublished"]
    /\ old = {} /\ claimed = {} /\ confirm = "none"
    /\ bound = IF Expected = "topic" THEN Handlers ELSE {}
    /\ pc = [p \in Procs |-> "idle"]
    /\ msg = [h \in Handlers |-> NoMessage]
    /\ seen = [p \in Procs |-> "processing"]
    /\ recent = {}

GoTo(p, step) == pc' = [pc EXCEPT ![p] = step]

\* The request or goroutine is over, its locals with it.
End(p) ==
    /\ GoTo(p, "idle")
    /\ seen' = [seen EXCEPT ![p] = "processing"]
    /\ msg' = [h \in Handlers |-> IF h = p THEN NoMessage ELSE msg[h]]
-----------------------------------------------------------------------------
(***************************************************************************)
(* The rest of the system, as these handlers meet it.                      *)
(***************************************************************************)

\* SendWorker, step 11.
SetProviderMessageID ==
    /\ status = "processing" /\ ~recorded
    /\ recorded' = TRUE
    /\ UNCHANGED <<status, trailVars, snsVars, pc, msg, seen, procVars>>

\* SendWorker, step 12, and its crash recovery.  A provider may have given no id
\* to store: then no notification finds the row.
MarkSent ==
    /\ status = "processing" /\ (recorded \/ "noid" \in Faults)
    /\ status' = "sent"
    /\ UNCHANGED <<recorded, trailVars, snsVars, pc, msg, seen, procVars>>

\* The stuck-processing sweep.
Sweep ==
    /\ "sweep" \in Faults /\ status = "processing"
    /\ status' = "failed"
    /\ UNCHANGED <<recorded, trailVars, snsVars, pc, msg, seen, procVars>>

\* PurgeWorkspaceRuntime: rows and events go, the suppression lists stay.
Purge ==
    /\ "reset" \in Faults /\ status # "purged"
    /\ status' = "purged" /\ recorded' = FALSE
    /\ log' = [k \in Logged |-> 0]
    /\ UNCHANGED <<lists, dispatched, snsVars, pc, msg, seen, procVars>>
-----------------------------------------------------------------------------
(***************************************************************************)
(* SNS (external): a message is delivered until a request for it is        *)
(* answered 200, and may be delivered again even then.                     *)
(***************************************************************************)
Publish(m) ==
    /\ sns[m] = "unpublished"
    /\ sns' = [sns EXCEPT ![m] = "pending"]
    /\ UNCHANGED <<rowVars, trailVars, old, claimed, confirm, pc, msg, seen, procVars>>

Redeliver(m) ==
    /\ "duplicate" \in Faults /\ sns[m] = "done"
    /\ sns' = [sns EXCEPT ![m] = "pending"]
    /\ UNCHANGED <<rowVars, trailVars, old, claimed, confirm, pc, msg, seen, procVars>>

\* The message leaves the replay window (once it is claimed that makes no
\* difference: it is answered 200 either way).
GrowOld(m) ==
    /\ "late" \in Faults /\ sns[m] = "pending" /\ m \notin old \union claimed
    /\ old' = old \union {m}
    /\ UNCHANGED <<rowVars, trailVars, sns, claimed, confirm, pc, msg, seen, procVars>>

\* validateExpectedSNSDestination, then validateSNSBinding.
Admitted(h) == Expected # "other" /\ h \in bound

\* HandleInbound up to the claim: signature (403), translation, destination (400)
\* and binding (403).  The certificate may be out of reach or the envelope
\* unreadable; a payload that cannot be parsed is answered 200 and forgotten.
Receive(h, m) ==
    /\ pc[h] = "idle" /\ sns[m] = "pending"
    /\ msg' = [msg EXCEPT ![h] = m]
    /\ \/ GoTo(h, IF Admitted(h) THEN "claim" ELSE "refuse")
       \/ "verify" \in Faults /\ GoTo(h, "refuse")
       \/ "garbled" \in Faults /\ GoTo(h, "ok")
    /\ UNCHANGED <<rowVars, trailVars, snsVars, seen, procVars>>

\* The answer: 200 ends the message; an error, a refusal (400, 403) or no answer
\* leaves it to a retry.
Respond(h) ==
    /\ pc[h] \in {"ok", "error", "refuse"}
    /\ sns' = IF pc[h] = "ok" THEN [sns EXCEPT ![msg[h]] = "done"] ELSE sns
    /\ End(h)
    /\ UNCHANGED <<rowVars, trailVars, old, claimed, confirm, procVars>>

\* What a process keeps in memory goes with it: the allowlist of topics, unless
\* the topic is configured, and the opens it has seen.
LosesMemory(p) ==
    /\ bound' = IF Expected = "topic" THEN bound ELSE bound \ {p}
    /\ recent' = recent \ {p}

\* The process dies, or the context of the request or of the goroutine ends.
Crash(p) ==
    /\ "crash" \in Faults /\ pc[p] # "idle"
    /\ End(p)
    /\ LosesMemory(p)
    /\ UNCHANGED <<rowVars, trailVars, snsVars>>

\* A restart that waits for the requests in flight (graceful shutdown).
Restart(p) ==
    /\ "restart" \in Faults /\ pc[p] = "idle"
    /\ LosesMemory(p)
    /\ UNCHANGED <<rowVars, trailVars, snsVars, pc, msg, seen>>

\* The provisioner, run on this process, registers the topic.
RegisterSNSBinding(h) ==
    /\ h \notin bound
    /\ bound' = bound \union {h}
    /\ UNCHANGED <<rowVars, trailVars, snsVars, pc, msg, seen, recent>>
-----------------------------------------------------------------------------
(***************************************************************************)
(* SESWebhookHandler                                                       *)
(***************************************************************************)
AfterClaim(m) == IF Kind[m] = "subscribe" THEN "confirm" ELSE "lookup"

\* Mutant: a duplicate is answered as an error.
Claim_DuplicateIsError(h) ==
    /\ pc[h] = "claim"
    /\ IF msg[h] \in claimed
       THEN GoTo(h, "error") /\ UNCHANGED claimed
       ELSE GoTo(h, AfterClaim(msg[h])) /\ claimed' = claimed \union {msg[h]}
    /\ UNCHANGED <<rowVars, trailVars, sns, old, confirm, msg, seen, procVars>>

\* INSERT ... ON CONFLICT DO NOTHING on the message id.
Claim(h) ==
    LET m == msg[h] IN
    /\ pc[h] = "claim"
    /\ \/ m \in old /\ GoTo(h, "ok") /\ UNCHANGED claimed
       \/ m \notin old /\ m \in claimed /\ GoTo(h, "ok") /\ UNCHANGED claimed
       \/ /\ m \notin old /\ m \notin claimed
          /\ claimed' = claimed \union {m}
          /\ GoTo(h, AfterClaim(m))
       \/ /\ Faults \intersect {"db", "claim"} # {} /\ m \notin old
          /\ claimed' \in {claimed, claimed \union {m}}
          /\ GoTo(h, "error")
    /\ UNCHANGED <<rowVars, trailVars, sns, old, confirm, msg, seen, procVars>>

\* handleSubscriptionConfirmation: both outcomes are answered 200.
ConfirmSubscription(h) ==
    /\ pc[h] = "confirm"
    /\ \/ confirm' = "confirmed"
       \/ "confirm" \in Faults /\ confirm' = (IF confirm = "confirmed" THEN confirm ELSE "failed")
    /\ GoTo(h, "ok")
    /\ UNCHANGED <<rowVars, trailVars, sns, old, claimed, msg, seen, procVars>>
-----------------------------------------------------------------------------
(***************************************************************************)
(* EventProcessor                                                          *)
(***************************************************************************)
mapEventToStatus(kind) == IF kind \in {"hard", "soft"} THEN "bounced" ELSE kind

validTransitions == [s \in Statuses |->
    CASE s = "sent"      -> {"delivered", "bounced", "complained"}
      [] s = "delivered" -> {"bounced", "complained", "opened"}
      [] s = "opened"    -> {"bounced", "complained"}
      [] s = "processing" -> {"sent", "failed"}
      [] OTHER           -> {}]

\* Mutant: the status machine is not consulted.
GetByProviderMessageID_NoTransitionCheck(h) ==
    /\ pc[h] = "lookup"
    /\ IF recorded THEN seen' = [seen EXCEPT ![h] = status] /\ GoTo(h, "update")
                   ELSE UNCHANGED seen /\ GoTo(h, "ok")
    /\ UNCHANGED <<rowVars, trailVars, snsVars, msg, procVars>>

\* Process, steps 1 to 3.  An email that is not found, or a transition that is
\* not forward, ends the request with 200.
GetByProviderMessageID(h) ==
    /\ pc[h] = "lookup"
    /\ \/ /\ recorded
          /\ seen' = [seen EXCEPT ![h] = status]
          /\ GoTo(h, IF mapEventToStatus(Kind[msg[h]]) \in validTransitions[status]
                     THEN "update" ELSE "ok")
       \/ (~recorded \/ "db" \in Faults) /\ GoTo(h, "ok") /\ UNCHANGED seen
    /\ UNCHANGED <<rowVars, trailVars, snsVars, msg, procVars>>

\* Mutant: the event is applied to whatever the row holds now.
UpdateStatus_NotConditional(h) ==
    /\ pc[h] = "update"
    /\ status' = IF status = "purged" THEN status ELSE mapEventToStatus(Kind[msg[h]])
    /\ GoTo(h, "event")
    /\ UNCHANGED <<recorded, trailVars, snsVars, msg, seen, procVars>>

\* Step 4: compare-and-set on the status that was read.
UpdateStatus(h) ==
    /\ pc[h] = "update"
    /\ \/ /\ status = seen[h]
          /\ status' = mapEventToStatus(Kind[msg[h]])
          /\ GoTo(h, "event")
       \/ (status # seen[h] \/ "db" \in Faults) /\ GoTo(h, "ok") /\ UNCHANGED status
    /\ UNCHANGED <<recorded, trailVars, snsVars, msg, seen, procVars>>

\* Step 5: a failed insert ends the request.
AddEvent(h) ==
    /\ pc[h] = "event"
    /\ \/ log' = [log EXCEPT ![Kind[msg[h]]] = @ + 1] /\ GoTo(h, "suppress")
       \/ "db" \in Faults /\ GoTo(h, "ok") /\ UNCHANGED log
    /\ UNCHANGED <<rowVars, lists, dispatched, snsVars, msg, seen, procVars>>

\* Mutant: every bounce, soft ones included, is suppressed globally.
handleSuppression_AnyBounce(h) ==
    /\ pc[h] = "suppress"
    /\ lists' = lists \union (IF Kind[msg[h]] \in {"hard", "soft"} THEN {"global"} ELSE {})
                      \union (IF Kind[msg[h]] = "complained" THEN {"workspace"} ELSE {})
    /\ GoTo(h, "dispatch")
    /\ UNCHANGED <<rowVars, log, dispatched, snsVars, msg, seen, procVars>>

\* Mutant: a hard bounce goes to the list of the workspace.
handleSuppression_HardToWorkspace(h) ==
    /\ pc[h] = "suppress"
    /\ lists' = lists \union (IF Kind[msg[h]] \in {"hard", "complained"}
                              THEN {"workspace"} ELSE {})
    /\ GoTo(h, "dispatch")
    /\ UNCHANGED <<rowVars, log, dispatched, snsVars, msg, seen, procVars>>

\* Step 6: a failed insert is only logged.
handleSuppression(h) ==
    /\ pc[h] = "suppress"
    /\ \/ lists' = lists \union (IF Kind[msg[h]] = "hard" THEN {"global"} ELSE {})
                         \union (IF Kind[msg[h]] = "complained" THEN {"workspace"} ELSE {})
       \/ "db" \in Faults /\ UNCHANGED lists
    /\ GoTo(h, "dispatch")
    /\ UNCHANGED <<rowVars, log, dispatched, snsVars, msg, seen, procVars>>

\* Step 7: a failed dispatch is only logged.
Dispatch(h) ==
    /\ pc[h] = "dispatch"
    /\ \/ dispatched' = [dispatched EXCEPT ![Kind[msg[h]]] = @ + 1]
       \/ "db" \in Faults /\ UNCHANGED dispatched
    /\ GoTo(h, "ok")
    /\ UNCHANGED <<rowVars, log, lists, snsVars, msg, seen, procVars>>
-----------------------------------------------------------------------------
(***************************************************************************)
(* TrackingHandler.HandleOpen and EventProcessor.ProcessDirect             *)
(***************************************************************************)

\* isDuplicate: one goroutine per process, tracking id and dedup window.
HandleOpen(p) ==
    /\ pc[p] = "idle" /\ p \notin recent
    /\ log["opened"] < MaxOpens
    /\ recent' = recent \union {p}
    /\ GoTo(p, "lookup")
    /\ UNCHANGED <<rowVars, trailVars, snsVars, bound, msg, seen>>

\* The 30 seconds of dedupTTL pass; the goroutine has 5.
DedupExpires(p) ==
    /\ pc[p] = "idle" /\ p \in recent
    /\ recent' = recent \ {p}
    /\ UNCHANGED <<rowVars, trailVars, snsVars, bound, pc, msg, seen>>

\* GetByTrackingID, then the eligibility test of ProcessDirect on what it read.
GetByTrackingID(p) ==
    /\ pc[p] = "lookup"
    /\ \/ /\ status # "purged"
          /\ seen' = [seen EXCEPT ![p] = status]
          /\ GoTo(p, IF status \in {"sent", "delivered"} THEN "update" ELSE "event")
          /\ UNCHANGED msg
       \/ (status = "purged" \/ "db" \in Faults) /\ End(p)
    /\ UNCHANGED <<rowVars, trailVars, snsVars, procVars>>

\* Mutant: the open overwrites whatever the row holds now.
ProcessDirectUpdate_NotConditional(p) ==
    /\ pc[p] = "update"
    /\ status' = IF status = "purged" THEN status ELSE "opened"
    /\ GoTo(p, "event")
    /\ UNCHANGED <<recorded, trailVars, snsVars, msg, seen, procVars>>

ProcessDirectUpdate(p) ==
    /\ pc[p] = "update"
    /\ \/ status = seen[p] /\ status' = "opened" /\ GoTo(p, "event") /\ UNCHANGED <<seen, msg>>
       \/ (status # seen[p] \/ "db" \in Faults) /\ End(p) /\ UNCHANGED status
    /\ UNCHANGED <<recorded, trailVars, snsVars, procVars>>

ProcessDirectEvent(p) ==
    /\ pc[p] = "event"
    /\ \/ log' = [log EXCEPT !["opened"] = @ + 1] /\ GoTo(p, "dispatch")
          /\ UNCHANGED <<seen, msg>>
       \/ "db" \in Faults /\ End(p) /\ UNCHANGED log
    /\ UNCHANGED <<rowVars, lists, dispatched, snsVars, procVars>>

ProcessDirectDispatch(p) ==
    /\ pc[p] = "dispatch"
    /\ \/ dispatched' = [dispatched EXCEPT !["opened"] = @ + 1]
       \/ "db" \in Faults /\ UNCHANGED dispatched
    /\ End(p)
    /\ UNCHANGED <<rowVars, log, lists, snsVars, procVars>>
-----------------------------------------------------------------------------
Worker == SetProviderMessageID \/ MarkSent \/ Sweep \/ Purge
Topic(m) == Publish(m) \/ Redeliver(m) \/ GrowOld(m)
HandleInbound(h) ==
    \/ Claim(h) \/ ConfirmSubscription(h) \/ GetByProviderMessageID(h) \/ UpdateStatus(h)
    \/ AddEvent(h) \/ handleSuppression(h) \/ Dispatch(h) \/ Respond(h)
ProcessDirect(p) ==
    \/ GetByTrackingID(p) \/ ProcessDirectUpdate(p) \/ ProcessDirectEvent(p)
    \/ ProcessDirectDispatch(p)

Next ==
    \/ Worker
    \/ \E m \in Messages : Topic(m) \/ \E h \in Handlers : Receive(h, m)
    \/ \E h \in Handlers : HandleInbound(h) \/ RegisterSNSBinding(h)
    \/ \E p \in Pixels : HandleOpen(p) \/ ProcessDirect(p) \/ DedupExpires(p)
    \/ \E p \in Procs : Crash(p) \/ Restart(p)

Spec == Init /\ [][Next]_vars

(***************************************************************************)
(* Requests and goroutines run to their end, the worker finishes, and SNS  *)
(* keeps delivering what was not answered 200.  A certificate that could   *)
(* not be fetched and a claim that failed are transient: a message that is *)
(* retried for ever gets past them.                                        *)
(***************************************************************************)
Fairness ==
    /\ WF_vars(SetProviderMessageID) /\ WF_vars(MarkSent)
    /\ \A h \in Handlers : WF_vars(HandleInbound(h))
    /\ \A m \in Messages :
          /\ WF_vars(Publish(m))
          /\ SF_vars(\E h \in Handlers : Receive(h, m) /\ pc'[h] = "claim")
          /\ SF_vars(\E h \in Handlers : msg[h] = m /\ Claim(h) /\ pc'[h] # "error")
    /\ \A p \in Pixels : WF_vars(ProcessDirect(p))

FairSpec == Spec /\ Fairness
-----------------------------------------------------------------------------
(***************************************************************************)
(* Safety                                                                  *)
(***************************************************************************)

\* However often SNS delivers, and however the handlers interleave or die, a
\* delivery, a bounce and a complaint of an email are each recorded and passed
\* to the workspace's webhooks at most once: the status machine is the dedup.
AppliedOnce ==
    /\ log["delivered"] <= 1 /\ log["complained"] <= 1 /\ log["hard"] + log["soft"] <= 1
    /\ \A k \in Logged \ {"opened"} : dispatched[k] <= 1

\* A bounce or a complaint is the last word on an email: no late delivery
\* notification and no open, read before it and written after it, replaces it.
NegativeIsFinal ==
    [][(status \in {"bounced", "complained"}) => (status' \in {status, "purged"})]_vars

\* The log, the suppression lists and the row tell one story.  A recipient is
\* suppressed only by an email whose row says why: globally after a bounce that
\* was permanent, in the workspace after a complaint.
TrailAgrees ==
    status # "purged" =>
        /\ log["hard"] + log["soft"] > 0 => status = "bounced"
        /\ log["complained"] > 0 => status = "complained"
        /\ log["delivered"] > 0 => status \in {"delivered", "opened", "bounced", "complained"}
        /\ "global" \in lists => status = "bounced" /\ log["hard"] = 1
        /\ "workspace" \in lists => status = "complained"

(***************************************************************************)
(* The handlers implement the forward-only state machine.                  *)
(***************************************************************************)
Lifecycle == INSTANCE EmailLifecycle WITH
    Emails <- {"email"},
    status <- [e \in {"email"} |-> status],
    handed <- {"email"}

\* Every change these handlers make to the row is an edge of the state machine.
AdvancesLifecycle == [][Lifecycle!Next]_status

(***************************************************************************)
(* Liveness                                                                *)
(***************************************************************************)

\* Once every process keeps the topic on its allowlist, SNS is rid of every
\* message of the topic, duplicates and retries after a failed claim included:
\* none is answered with an error for ever.
EveryMessageEnds ==
    Expected # "other" /\ <>[](bound = Handlers) =>
        \A m \in Messages : sns[m] = "pending" ~> sns[m] = "done"

\* Where nothing fails, a permanent bounce or a complaint that reached the row
\* reaches the suppression list.
NegativeSuppresses ==
    /\ log["hard"] > 0 ~> "global" \in lists
    /\ log["complained"] > 0 ~> "workspace" \in lists
=============================================================================
