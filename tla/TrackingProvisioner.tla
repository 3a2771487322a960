------------------------- MODULE TrackingProvisioner -------------------------
(***************************************************************************)
(* Provisioning of SES tracking for one adapter: TrackingProvisioner.      *)
(* Provision behind POST .../auto-provision-tracking, Deprovision and the  *)
(* soft delete behind DELETE .../adapters/:id, and PUT .../adapters/:id,   *)
(* which writes the same row (internal/adapter/ses/                        *)
(* tracking_provisioner.go, postgres/provisioning_step_repo.go,            *)
(* postgres/adapter_repo.go, http/handler/adapter.go, adapter_setup.go).   *)
(*                                                                         *)
(* Every call to AWS and every statement is a step of its own.  A call to  *)
(* AWS can fail with or without its effect, a statement can be lost (its   *)
(* error is only logged where the code only logs it), the process can die, *)
(* and requests overlap.  A config stands for the account and region that  *)
(* its credentials and its region address: a call works where the config   *)
(* it loaded points to, and a PUT may point it elsewhere.  "overwritten",  *)
(* "moved", "torn", "excused", "orphans" and "met" are history variables.  *)
(***************************************************************************)
EXTENDS Integers, Sequences, FiniteSets, SequencesExt

CONSTANTS Procs,        \* concurrent requests
          Configs,      \* accounts and regions the adapter's config may point to
          Config0,
          MaxRequests,  \* bound: requests of a behaviour
          MaxFaults     \* bound: failed calls, lost statements and crashes

ASSUME ProvisionAssumption ==
    Config0 \in Configs /\ MaxRequests \in Nat /\ MaxFaults \in Nat

ProvisionSteps == <<"create_configuration_set", "create_sns_topic", "create_event_destination",
                    "subscribe_webhook", "save_configuration", "verify_subscription">>
DeprovisionSteps == <<"unsubscribe_webhook", "delete_event_destination",
                      "delete_sns_topic", "delete_configuration_set">>
StepNames == ToSet(ProvisionSteps) \cup ToSet(DeprovisionSteps)

Resources == {"set", "topic", "dest", "sub"}
ByARN == {"topic", "sub"}
\* What a step creates or deletes.
ResourceOf == [s \in StepNames |->
    IF s \in {"create_configuration_set", "delete_configuration_set"} THEN "set"
    ELSE IF s \in {"create_sns_topic", "delete_sns_topic"} THEN "topic"
    ELSE IF s \in {"create_event_destination", "delete_event_destination"} THEN "dest"
    ELSE "sub"]
Creates == {"create_configuration_set", "create_sns_topic", "create_event_destination",
            "subscribe_webhook"}

VARIABLES adapter,     \* the adapters row: live, rest of the config, configuration_set_name
          rows,        \* adapter_provisioning_steps
          gen,         \* generation of their ids: they are deleted all at once
          aws,         \* resources that exist at AWS, with the place they exist at
          bound,       \* the places whose topic the webhook handler accepts
          proc,        \* the requests in progress
          requests, faults,
          overwritten, \* history: a PUT wrote the row without the name that was saved,
                       \* on request or because it had read the row before
          moved,       \* history: a PUT has changed the account or the region
          torn,        \* history: a deprovisioning may have removed resources of live rows
          excused,     \* history: a statement was lost, the process died, or a
                       \* provisioning overlapped a deletion
          orphans      \* history: resources a deletion had no ARN of, or that are not
                       \* where the config it loaded points to

history == <<overwritten, moved, torn, excused, orphans>>
vars == <<adapter, rows, gen, aws, bound, proc, requests, faults,
          overwritten, moved, torn, excused, orphans>>

\* "at" is where the step was done: part of the ARN, where there is one.
Row(status, arn, at) == [status |-> status, arn |-> arn, at |-> at]
NoRow == Row("absent", FALSE, Config0)

\* known: what the rows listed by the call, and its own steps, say exists.
Idle == [pc |-> "idle", i |-> 1, done |-> {}, listed |-> {}, known |-> {}, gen |-> 0,
         cfg |-> Config0, set |-> FALSE, err |-> FALSE, met |-> FALSE]

ProvisionPcs == {"init", "reset", "list", "step", "save", "fail"}
DeletePcs == {"dinit", "dlist", "dstep", "dsave", "dfail", "dclear", "dsoft"}

TypeOK ==
    /\ adapter \in [live : BOOLEAN, cfg : Configs, set : BOOLEAN]
    /\ rows \in [StepNames -> [status : {"absent", "pending", "completed", "failed"},
                              arn : BOOLEAN, at : Configs]]
    /\ gen \in Nat /\ aws \subseteq Configs \X Resources /\ bound \subseteq Configs
    /\ proc \in [Procs -> [pc : {"idle", "put"} \cup ProvisionPcs \cup DeletePcs, i : 1..7,
                           done : SUBSET StepNames, listed : SUBSET StepNames,
                           known : SUBSET (Configs \X Resources), gen : Nat, cfg : Configs,
                           set : BOOLEAN, err : BOOLEAN, met : BOOLEAN]]
    /\ requests \in 0..MaxRequests /\ faults \in 0..MaxFaults
    /\ overwritten \in BOOLEAN /\ moved \in BOOLEAN /\ torn \in BOOLEAN /\ excused \in BOOLEAN
    /\ orphans \subseteq Configs \X Resources

Init ==
    /\ adapter = [live |-> TRUE, cfg |-> Config0, set |-> FALSE]
    /\ rows = [s \in StepNames |-> NoRow] /\ gen = 0
    /\ aws = {} /\ bound = {}
    /\ proc = [p \in Procs |-> Idle]
    /\ requests = 0 /\ faults = 0
    /\ overwritten = FALSE /\ moved = FALSE /\ torn = FALSE /\ excused = FALSE /\ orphans = {}

Provisioning(p) == proc[p].pc \in ProvisionPcs
Deleting(p) == proc[p].pc \in DeletePcs
Overlap == \E p \in Procs : Deleting(p)

-----------------------------------------------------------------------------
(* Building blocks *)

Fault == faults < MaxFaults /\ faults' = faults + 1
Go(p, pc) == proc' = [proc EXCEPT ![p].pc = pc]
Meets(p, pc) == proc' = [proc EXCEPT ![p].pc = pc, ![p].met = TRUE]

\* All requests start by loading the adapter, which must not be deleted, and
\* work with the config they loaded (the handlers' own look at it before
\* loadAdapterClients changes nothing).
Begin(p, pc) ==
    /\ proc[p].pc = "idle" /\ adapter.live
    /\ requests < MaxRequests /\ requests' = requests + 1
    /\ proc' = [proc EXCEPT ![p] = [Idle EXCEPT !.pc = pc, !.cfg = adapter.cfg, !.set = adapter.set]]
    /\ UNCHANGED <<adapter, rows, gen, aws, bound, faults, history>>

\* INSERT ... ON CONFLICT DO NOTHING, for all names in one batch.
initStepDefs(names) ==
    rows' = [s \in StepNames |-> IF s \in names /\ rows[s].status = "absent"
                                 THEN Row("pending", FALSE, Config0) ELSE rows[s]]

\* Updates by the id that was listed: a row that was deleted meanwhile is not
\* found, also when another one has taken its name.
Found(p, s) == s \in proc[p].listed /\ proc[p].gen = gen

MarkCompleted(p, s, arn) ==
    rows' = IF Found(p, s) THEN [rows EXCEPT ![s] = Row("completed", arn, proc[p].cfg)] ELSE rows

MarkFailed(p, s) ==
    rows' = IF Found(p, s) THEN [rows EXCEPT ![s].status = "failed"] ELSE rows

\* The statement of a persist is lost; the error is logged and the request goes on.
Lost ==
    /\ Fault /\ excused' = TRUE
    /\ UNCHANGED <<adapter, rows, gen, aws, bound, requests, overwritten, moved, torn, orphans>>

-----------------------------------------------------------------------------
(* Provision *)

autoProvision(p) == Begin(p, "init")

InitSteps(p) ==
    /\ proc[p].pc = "init"
    /\ initStepDefs(ToSet(ProvisionSteps))
    /\ Go(p, "reset")
    /\ UNCHANGED <<adapter, gen, aws, bound, requests, faults, history>>

\* Failed rows become pending, those of a deprovisioning too; ARNs stay.
ResetFailed(p) ==
    /\ proc[p].pc = "reset"
    /\ rows' = [s \in StepNames |-> IF rows[s].status = "failed"
                                    THEN [rows[s] EXCEPT !.status = "pending"] ELSE rows[s]]
    /\ Go(p, "list")
    /\ excused' = (excused \/ Overlap \/ ~adapter.live)
    /\ UNCHANGED <<adapter, gen, aws, bound, requests, faults, overwritten, moved, torn, orphans>>

\* The rows as of now decide which steps this call skips.
ListByAdapter(p) ==
    /\ proc[p].pc = "list"
    /\ proc' = [proc EXCEPT ![p].pc = "step", ![p].gen = gen,
                            ![p].listed = {s \in StepNames : rows[s].status # "absent"},
                            ![p].done = {s \in StepNames : rows[s].status = "completed"},
                            ![p].known = {<<rows[s].at, ResourceOf[s]>> :
                                s \in {x \in Creates : rows[x].status = "completed"}}]
    /\ UNCHANGED <<adapter, rows, gen, aws, bound, requests, faults, history>>

\* A statement fails: the call ends before it touches AWS.
LoadFails(p) ==
    /\ proc[p].pc \in {"init", "reset", "list"} /\ Fault
    /\ proc' = [proc EXCEPT ![p] = Idle]
    /\ UNCHANGED <<adapter, rows, gen, aws, bound, requests, history>>

Step(p) == ProvisionSteps[proc[p].i]
AtStep(p) == proc[p].pc = "step" /\ proc[p].i <= Len(ProvisionSteps)

Skip_NotRegistered(p) ==
    /\ AtStep(p) /\ Step(p) \in proc[p].done
    /\ proc' = [proc EXCEPT ![p].i = @ + 1]
    /\ UNCHANGED <<adapter, rows, gen, aws, bound, requests, faults, history>>

\* A completed topic step registers the topic on record, for this process.
Skip(p) ==
    /\ AtStep(p) /\ Step(p) \in proc[p].done
    /\ bound' = bound \cup {c \in Configs : Step(p) = "create_sns_topic" /\ <<c, "topic">> \in proc[p].known}
    /\ proc' = [proc EXCEPT ![p].i = @ + 1]
    /\ UNCHANGED <<adapter, rows, gen, aws, requests, faults, history>>

\* External: a destination needs its configuration set and the topic of the
\* call, a subscription the topic of the call, where the call works.
Creatable(p, r) ==
    LET here(x) == <<proc[p].cfg, x>> \in aws IN
    /\ r = "dest" => here("set")
    /\ r \in {"dest", "sub"} => here("topic") /\ <<proc[p].cfg, "topic">> \in proc[p].known

Created(p, r) == proc' = [proc EXCEPT ![p].pc = "save", ![p].known = @ \cup {<<proc[p].cfg, r>>}]

registerSNSBinding(p) ==
    bound' = bound \cup {c \in {proc[p].cfg} : Step(p) = "create_sns_topic" /\ proc'[p].pc = "save"}

Create_ExistsIsError(p) ==
    LET r == ResourceOf[Step(p)]  made == aws \cup {<<proc[p].cfg, r>>} IN
    /\ AtStep(p) /\ Step(p) \in Creates \ proc[p].done
    /\ \/ Creatable(p, r) /\ made # aws /\ aws' = made /\ Created(p, r) /\ UNCHANGED faults
       \/ ~(Creatable(p, r) /\ made # aws) /\ Go(p, "fail") /\ UNCHANGED <<aws, faults>>
       \/ Fault /\ Meets(p, "fail") /\ aws' \in {aws} \cup {x \in {made} : Creatable(p, r)}
    /\ registerSNSBinding(p)
    /\ excused' = (excused \/ Overlap \/ ~adapter.live)
    /\ UNCHANGED <<adapter, rows, gen, requests, overwritten, moved, torn, orphans>>

Create_ErrorIsExists(p) ==
    LET r == ResourceOf[Step(p)]  made == aws \cup {<<proc[p].cfg, r>>} IN
    /\ AtStep(p) /\ Step(p) \in Creates \ proc[p].done
    /\ \/ Creatable(p, r) /\ aws' = made /\ Created(p, r) /\ UNCHANGED faults
       \/ ~Creatable(p, r) /\ Go(p, "fail") /\ UNCHANGED <<aws, faults>>
       \/ Fault /\ UNCHANGED aws /\ Created(p, r)
    /\ registerSNSBinding(p)
    /\ excused' = (excused \/ Overlap \/ ~adapter.live)
    /\ UNCHANGED <<adapter, rows, gen, requests, overwritten, moved, torn, orphans>>

\* createConfigurationSet, createSNSTopic, createEventDestination, subscribeTopic:
\* what exists already is a success, an error may hide an effect.
Create(p) ==
    LET r == ResourceOf[Step(p)]  made == aws \cup {<<proc[p].cfg, r>>} IN
    /\ AtStep(p) /\ Step(p) \in Creates \ proc[p].done
    /\ \/ Creatable(p, r) /\ aws' = made /\ Created(p, r) /\ UNCHANGED faults
       \/ ~Creatable(p, r) /\ Go(p, "fail") /\ UNCHANGED <<aws, faults>>
       \/ Fault /\ Meets(p, "fail") /\ aws' \in {aws} \cup {x \in {made} : Creatable(p, r)}
    /\ registerSNSBinding(p)
    /\ excused' = (excused \/ Overlap \/ ~adapter.live)
    /\ UNCHANGED <<adapter, rows, gen, requests, overwritten, moved, torn, orphans>>

\* Writes the whole row as it was when the call began, with the name set.
saveConfigSetName(p) ==
    LET saved == [adapter EXCEPT !.cfg = proc[p].cfg, !.set = TRUE] IN
    /\ AtStep(p) /\ Step(p) = "save_configuration" /\ Step(p) \notin proc[p].done
    /\ \/ /\ adapter.live /\ adapter' = saved /\ overwritten' = FALSE
          /\ Go(p, "save") /\ UNCHANGED faults
       \/ /\ ~adapter.live /\ Go(p, "fail") /\ UNCHANGED <<adapter, overwritten, faults>>
       \/ /\ Fault /\ Meets(p, "fail") /\ UNCHANGED overwritten
          /\ adapter' \in {adapter} \cup (IF adapter.live THEN {saved} ELSE {})
    /\ UNCHANGED <<rows, gen, aws, bound, requests, moved, torn, excused, orphans>>

\* One look at the topic's subscriptions.  Pending is recorded as completed, and so is an
\* answer that says the credentials may not list subscriptions.
verifySubscription(p) ==
    /\ AtStep(p) /\ Step(p) = "verify_subscription" /\ Step(p) \notin proc[p].done
    /\ \/ Go(p, IF <<proc[p].cfg, "topic">> \in proc[p].known /\ <<proc[p].cfg, "sub">> \in aws
                THEN "save" ELSE "fail") /\ UNCHANGED faults
       \/ Go(p, "save") /\ UNCHANGED faults
       \/ Fault /\ Meets(p, "fail")
    /\ UNCHANGED <<adapter, rows, gen, aws, bound, requests, history>>

\* Topic and subscription are recorded with their ARN.
persistStepSuccess(p) ==
    /\ proc[p].pc = "save"
    /\ proc' = [proc EXCEPT ![p].pc = "step", ![p].i = @ + 1]
    /\ \/ /\ MarkCompleted(p, Step(p), Step(p) \in {"create_sns_topic", "subscribe_webhook"})
          /\ UNCHANGED <<adapter, gen, aws, bound, requests, faults, history>>
       \/ Lost

\* Ends the call, except after the verification.
persistStepFailure(p) ==
    /\ proc[p].pc = "fail"
    /\ proc' = [proc EXCEPT ![p] = IF Step(p) = "verify_subscription"
                                   THEN [proc[p] EXCEPT !.pc = "step", !.i = @ + 1] ELSE Idle]
    /\ \/ /\ MarkFailed(p, Step(p))
          /\ UNCHANGED <<adapter, gen, aws, bound, requests, faults, history>>
       \/ Lost

Answered(p) == proc[p].pc = "step" /\ proc[p].i > Len(ProvisionSteps)

Respond(p) ==
    /\ Answered(p)
    /\ proc' = [proc EXCEPT ![p] = Idle]
    /\ UNCHANGED <<adapter, rows, gen, aws, bound, requests, faults, history>>

-----------------------------------------------------------------------------
(* Deprovision and soft delete *)

softDelete(p) == Begin(p, "dinit")

InitDeprovisionSteps(p) ==
    /\ proc[p].pc = "dinit"
    /\ initStepDefs(ToSet(DeprovisionSteps))
    /\ Go(p, "dlist")
    /\ UNCHANGED <<adapter, gen, aws, bound, requests, faults, history>>

\* Where a call that loaded cfg looks for r: set and destination by their names
\* where it works, topic and subscription by the ARN on record.
Asked(cfg, known, r) == IF r \in ByARN THEN {c \in Configs : <<c, r>> \in known} ELSE {cfg}

ListForDeprovision(p) ==
    LET known == {<<rows[s].at, ResourceOf[s]>> : s \in {x \in Creates : rows[x].arn}} IN
    /\ proc[p].pc = "dlist"
    /\ proc' = [proc EXCEPT ![p].pc = "dstep", ![p].gen = gen, ![p].known = known,
                            ![p].listed = {s \in StepNames : rows[s].status # "absent"}]
    /\ torn' = TRUE
    /\ orphans' = orphans \cup {x \in aws : x[1] # proc[p].cfg \/ x[1] \notin Asked(proc[p].cfg, known, x[2])}
    /\ UNCHANGED <<adapter, rows, gen, aws, bound, requests, faults, overwritten, moved, excused>>

\* Deprovision fails before its first call: the deletion goes on without it.
LoadForDeprovisionFails(p) ==
    /\ proc[p].pc \in {"dinit", "dlist"}
    /\ Fault /\ excused' = TRUE
    /\ Go(p, "dsoft")
    /\ UNCHANGED <<adapter, rows, gen, aws, bound, requests, overwritten, moved, torn, orphans>>

DStep(p) == DeprovisionSteps[proc[p].i]

\* External: deleting a set or a topic takes what hangs on it along.
Without(c, r) == aws \ ({c} \X (IF r = "set" THEN {"set", "dest"}
                                ELSE IF r = "topic" THEN {"topic", "sub"} ELSE {r}))

\* NotFound is a success, in another account or region too; without an ARN
\* nothing is asked of AWS.  External: SNS may also answer with an error that
\* isNotFound does not know if the ARN names nothing where the call works.
Delete(p) ==
    LET r == ResourceOf[DStep(p)]  cfg == proc[p].cfg
        asked == Asked(cfg, proc[p].known, r)
        left == IF cfg \in asked THEN Without(cfg, r) ELSE aws IN
    /\ proc[p].pc = "dstep"
    /\ \/ aws' = left /\ Go(p, "dsave") /\ UNCHANGED faults
       \/ /\ asked # {} /\ r \in ByARN /\ ~(cfg \in asked /\ <<cfg, r>> \in aws)
          /\ Go(p, "dfail") /\ UNCHANGED <<aws, faults>>
       \/ asked # {} /\ Fault /\ Meets(p, "dfail") /\ aws' \in {aws, left}
    /\ UNCHANGED <<adapter, rows, gen, bound, requests, history>>

NextDelete_StopsAtError(p, failed) ==
    [proc EXCEPT ![p].err = @ \/ failed, ![p].i = IF @ < Len(DeprovisionSteps) THEN @ + 1 ELSE @,
                 ![p].pc = IF ~failed /\ proc[p].i < Len(DeprovisionSteps) THEN "dstep"
                           ELSE IF proc[p].err \/ failed THEN "dsoft" ELSE "dclear"]

\* All four are tried; the rows go only if none failed.
NextDelete(p, failed) ==
    [proc EXCEPT ![p].err = @ \/ failed, ![p].i = IF @ < Len(DeprovisionSteps) THEN @ + 1 ELSE @,
                 ![p].pc = IF proc[p].i < Len(DeprovisionSteps) THEN "dstep"
                           ELSE IF proc[p].err \/ failed THEN "dsoft" ELSE "dclear"]

persistDelete(p) ==
    LET failed == proc[p].pc = "dfail" IN
    /\ proc[p].pc \in {"dsave", "dfail"}
    /\ proc' = NextDelete(p, failed)
    /\ \/ /\ IF failed THEN MarkFailed(p, DStep(p)) ELSE MarkCompleted(p, DStep(p), FALSE)
          /\ UNCHANGED <<adapter, gen, aws, bound, requests, faults, history>>
       \/ Lost

DeleteByAdapter(p) ==
    /\ proc[p].pc = "dclear"
    /\ Go(p, "dsoft")
    /\ \/ /\ rows' = [s \in StepNames |-> NoRow] /\ gen' = gen + 1
          /\ torn' = \E q \in Procs \ {p} : Provisioning(q) \/ Deleting(q)
          /\ UNCHANGED <<adapter, aws, bound, requests, faults, overwritten, moved, excused, orphans>>
       \/ Lost

\* The row is marked deleted, is deleted already, or the statement fails and the
\* adapter stays.
SoftDelete(p) ==
    /\ proc[p].pc = "dsoft"
    /\ proc' = [proc EXCEPT ![p] = Idle]
    /\ \/ adapter' = [adapter EXCEPT !.live = FALSE] /\ UNCHANGED faults
       \/ Fault /\ adapter.live /\ UNCHANGED adapter
    /\ UNCHANGED <<rows, gen, aws, bound, requests, history>>

-----------------------------------------------------------------------------
(* PUT and the process *)

updateRead(p) == Begin(p, "put")

\* The whole row as it was read, with the request's changes: region and
\* credentials, and the name of the configuration set, which a request may also
\* give, replace or clear.
updateWrite(p, cfg, set) ==
    /\ proc[p].pc = "put"
    /\ proc' = [proc EXCEPT ![p] = Idle]
    /\ adapter' = IF adapter.live THEN [adapter EXCEPT !.cfg = cfg, !.set = set] ELSE adapter
    /\ overwritten' = (overwritten \/ (adapter.live /\ adapter.set /\ ~set))
    /\ moved' = (moved \/ cfg # proc[p].cfg)
    /\ UNCHANGED <<rows, gen, aws, bound, requests, faults, torn, excused, orphans>>

\* The process dies with all its requests; topics are registered in memory only.
Crash ==
    /\ Fault /\ \E p \in Procs : proc[p].pc # "idle"
    /\ proc' = [p \in Procs |-> Idle]
    /\ bound' = {} /\ excused' = TRUE
    /\ UNCHANGED <<adapter, rows, gen, aws, requests, overwritten, moved, torn, orphans>>

ProvisionNext(p) ==
    \/ InitSteps(p) \/ ResetFailed(p) \/ ListByAdapter(p) \/ LoadFails(p)
    \/ Skip(p) \/ Create(p) \/ saveConfigSetName(p) \/ verifySubscription(p)
    \/ persistStepSuccess(p) \/ persistStepFailure(p) \/ Respond(p)

DeleteNext(p) ==
    \/ InitDeprovisionSteps(p) \/ ListForDeprovision(p) \/ LoadForDeprovisionFails(p)
    \/ Delete(p) \/ persistDelete(p) \/ DeleteByAdapter(p) \/ SoftDelete(p)

Next ==
    \/ \E p \in Procs : \/ autoProvision(p) \/ softDelete(p) \/ updateRead(p)
                        \/ \E cfg \in Configs, set \in BOOLEAN : updateWrite(p, cfg, set)
                        \/ ProvisionNext(p) \/ DeleteNext(p)
    \/ Crash

Spec == Init /\ [][Next]_vars

-----------------------------------------------------------------------------
(* Properties *)

\* GET .../provisioning-status.
provisioningStatus ==
    LET present == {s \in StepNames : rows[s].status # "absent"}
        some(status) == \E s \in present : rows[s].status = status IN
    IF \A s \in present : rows[s].status = "pending" THEN "not_started"
    ELSE IF some("failed") THEN "failed"
    ELSE IF some("pending") THEN "in_progress" ELSE "completed"

NameKept == adapter.set \/ overwritten

\* The call skips a step that was completed in another account or region.
Away(p) == \E x \in proc[p].known : x[1] # proc[p].cfg

Everything(c) == {c} \X Resources

\* What the step rows say exists at AWS: after lost answers, crashes, overlapping
\* calls and PUTs of another region a step is on record as completed only if its
\* resource is there, where the step was done; and as long as no PUT has pointed
\* the adapter elsewhere, a status of "completed" means that everything is in
\* place for it.  The adapter then names the configuration set, unless a PUT has
\* taken the name away.  A deletion that was given up half way is outside of
\* this (Provision, persistStepSuccess, provisioningStatus, AdapterHandler.update).
StatusIsHonest ==
    ~torn =>
      /\ \A s \in Creates : rows[s].status = "completed" => <<rows[s].at, ResourceOf[s]>> \in aws
      /\ provisioningStatus = "completed" =>
           NameKept /\ (~moved => Everything(adapter.cfg) \subseteq aws)

\* A call that is answered 200 has this process accept the topic its events go
\* to and has left everything in place, also when it skipped what earlier, failed
\* calls or an earlier process had completed: where the config it loaded points
\* to, unless what it skipped is elsewhere, and under the name that the adapter
\* uses, unless a PUT has taken it away (Provision, registerSNSBinding).
AnsweredIsReal ==
    \A p \in Procs : Answered(p) =>
      /\ \E c \in bound : torn \/ <<c, "topic">> \in aws
      /\ ~torn => NameKept /\ (~Away(p) => proc[p].cfg \in bound /\ Everything(proc[p].cfg) \subseteq aws)

\* Resuming works from every state that earlier calls can leave behind: a call
\* fails only if it meets a failure itself, the adapter is deleted, a
\* deprovisioning has run, or a PUT has pointed the adapter elsewhere after a
\* step was completed (the already-exists cases of the create helpers).
RetryCompletes ==
    \A p \in Procs : proc[p].pc = "fail" => proc[p].met \/ torn \/ ~adapter.live \/ Away(p)

\* What a deletion leaves behind at AWS is on record as failed, or could not be
\* addressed: the answer or the statement with its ARN was lost, or a PUT has
\* pointed the adapter elsewhere since.  Lost statements, crashes and overlapping
\* provisioning calls are excused (Deprovision tries every step and keeps the
\* rows if one fails).
NothingLeaks ==
    (~adapter.live /\ ~excused /\ \A p \in Procs : proc[p].pc = "idle") =>
      \A x \in aws \ orphans :
        \E s \in ToSet(DeprovisionSteps) : ResourceOf[s] = x[2] /\ rows[s].status = "failed"
=============================================================================
