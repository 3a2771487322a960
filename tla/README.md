# Senda: a TLA+ model of email delivery

Senda is a multi-tenant transactional email service: an HTTP API accepts a send
for a template type, a PostgreSQL-backed queue (River) carries it to a provider
(SES, SMTP, Gmail), and provider notifications, tracking pixels, unsubscribe
links and outbound webhooks keep its status and its suppression lists up to
date. This directory holds the TLA+ modules that model it, the TLC
configurations that check them, and the TLAPS proofs. `PROJECT.json` maps each
definition to the source lines it models.

## 1. The system

| part | state it keeps | operations | hard because |
|---|---|---|---|
| send worker (`adapter/river/send_worker.go`) | `emails`, `email_events`, the River job | claim, re-check, render, deliver, record, mark; retry, snooze, fail | crashes and lost writes around the provider call; retries; the sweep |
| provider events (`http/handler/provider_webhook.go`, `service/event_processor.go`, `http/handler/tracking.go`) | status, events, lists, `sns_message_replays` | claim a message, apply an event, record an open | duplicates, reordering, concurrent handlers with a stale read |
| webhooks (`adapter/river/webhook_worker.go`, `service/webhook.go`, `postgres/webhook_repo.go`) | `webhooks` with failure counter, jobs | dispatch, POST, count or reset failures, PUT, DELETE | concurrent attempts around the threshold; read-modify-write PUT |
| rate limiter (`send_worker.go`, `postgres/rate_limiter.go`, migration 000044) | token bucket; in-process reservations | acquire, refill, expire, clean up | lock-free cleanup against users of the same object |
| suppression and unsubscribe (`postgres/suppression_repo.go`, `service/send_suppression.go`, `service/unsubscribe.go`) | global list, workspace lists, per-type subscriptions, tokens | evaluate, block, lift, opt out, preference centre | several queries without a transaction; reasons of different strength; address spellings |
| send service, batch (`service/send.go`, `send_batch.go`) | creates rows and jobs | validate, resolve, evaluate, persist per recipient | type, lists and policy read at different moments; partial failure; lost commits |
| resolution and cache (`resolution/`, `adapter/pgcache`) | cached templates and adapters | resolve along the scope chain, store, invalidate, expire | a store that overtakes an invalidation; keys that nobody invalidates |
| templates and versions (`handler/template*.go`, `postgres/template_repo.go`) | types, templates, versions, locales, kill switch, tenant policies | draft, update, publish, fork, clone, disable, delete | check-then-write in every handler |
| adapters, access, identities (`service/adapter_access.go`, `identity.go`, `handler/template_type.go`) | adapters, grants, identities, the selection of each type | grant, revoke, create, sync, assign, check at send | grant and selection are checked and written without a lock; caches |
| SES tracking (`adapter/ses/tracking_provisioner.go`) | step rows, AWS resources, in-memory topic binding, the adapters row | provision, resume, deprovision, PUT, DELETE | AWS calls whose answer is lost, process death, overlapping requests |
| members, roles, onboarding, API keys | members, roles, keys | invite, change roles, rotate | hierarchy rules |
| everything else (injectors, media, audit, dashboard, configuration, HTTP wiring, SDK, UI, generated code) | | | plain CRUD, I/O or stateless |

The parts meet in six places: the `emails` row (worker, provider events, pixel,
sweep, runtime reset), the suppression lists (send service, worker, provider
events, admin API, recipients), the job queue (send service and webhooks produce,
workers consume), the token bucket (all workers of one adapter), the resolution
cache (sends fill it, administration empties part of it), and the adapters row
with its grants (administration, provisioning, sends).

What makes each part correct: an email is reported sent only if the provider has
it, and is not sent twice when that can be known; no status moves backwards; an
email never hangs; a provider event is applied once and a bounce is final; a
standing block stops a send; a webhook is disabled at its threshold, not called
while inactive, and its events end; the limiter neither loses track of a
reservation nor spends a token twice, and returns; what is rendered was published
and a stale cache heals; nobody who is suppressed is queued, test mail stays in
its inboxes and the answer to a send is true; a workspace sends only with what it
was granted; provisioning can always be resumed and says what is true.

## 2. Modules

| module | models |
|---|---|
| `EmailLifecycle` | abstract: the forward-only status machine and "sent only if handed over" |
| `EmailDelivery` | one row, one job and `SendWorker.Work` per email; implements `EmailLifecycle` |
| `ProviderEvents` | one email after hand-over: SNS, `SESWebhookHandler`, `EventProcessor`, the pixel; moves along `EmailLifecycle`'s edges |
| `WebhookDelivery` | one webhook row, its jobs, `WebhookWorker.Work`, PUT and DELETE |
| `RateLimitReservation` | one adapter's bucket and reservations, `acquireRateLimitToken`, cleanup |
| `Suppression` | lists, opt-outs, links; the send pipeline as their reader |
| `TemplateCatalog` | types, templates, versions, locales, policies and the requests that change them |
| `TemplateResolution` | `TemplateResolver.Resolve` and its cache on top of `TemplateCatalog` |
| `SendRequest` | one single, batch or bulk send from the handler to its answer |
| `TrackingProvisioner` | provisioning and removal of SES tracking, PUT and DELETE of the adapter |
| `AdapterAccess` | grants, identities, selections, and the check a send makes of them |
| `EmailDeliveryProofs`, `ProviderEventsProofs`, `WebhookDeliveryProofs`, `RateLimitReservationProofs`, `SuppressionProofs`, `TemplateResolutionProofs`, `AdapterAccessProofs`, `TrackingProvisionerProofs` | theorems; `SuppressionProofs` also holds those about `SendRequest` |
| `MC*` | constants for TLC |

Definitions keep the names of the Go functions. A `pc` value is the next step of
a handler; one step is one SQL statement, one provider or endpoint call, or (in
the limiter) one atomic access. Definitions marked *Mutant* next to an action are
wrong variants of it; each property has one that violates it.

**EmailDelivery.** `status`, `pmid`, `age`, `events` are the row and its log
("new" before it exists, "purged" after a reset); `job`, `attempt` are River's;
`pc`, `rec` the running attempt; `listed`, `optedOut` the lists; `accepted` counts
what the provider took. `held` and `nameless` are history variables: listed since
the attempt began and the re-check did not fail; the last message accepted came
without an id (SES may answer so), and there was nothing to store. `Work` is `Load` (steps 1, 1b), `Recover`,
`AcquireToken` (2), `Claim` (3), `GetPayload` (4), `IsSuppressed`,
`MarkSuppressed` (4b), `Prepare` (5-10a), `Deliver` (10b), `HandleSendError`,
`SetProviderMessageID` (11), `MarkSent` (12), `FailPermanently`. `Faults` selects
which failures may happen.

River is external; from its use and defaults: an attempt is charged when a job is
fetched, a snooze gives it back, an error retries until `MaxAttempts` and then
discards, a job times out after a minute, and a job whose worker died is rescued
after an hour. Hence a row ages (10 minutes "stale", 30 "dead") between attempts
and not during one, and a rescued job finds a row that is at least "dead".

**ProviderEvents.** The worker is the environment here (`SetProviderMessageID`,
`MarkSent`, `Sweep`, `Purge`). SNS repeats a message until it is answered 200.
Each handler keeps the status it read (`seen`) and writes with compare-and-set.
`bound` are the processes whose allowlist holds the topic: filled by the
configuration (`Expected`) or by a provisioning run on that very process, lost with
the process. `Receive` makes the handler's checks in their order: what fails
verification, cannot be read, or comes from a topic that is not expected or not
bound is refused (400, 403) and comes back; a notification that cannot be parsed
is answered 200 and is gone. Messages of other topics and of kinds that the handler
ignores change nothing and are left out.

**WebhookDelivery.** `dirty` is what the attempt read of the counter before its
request; `edit` is the row as a PUT read it. `edited` and `stopped` are history
variables. A blocked host is the nondeterministic "cancel" of `GetByID`.

**RateLimitReservation.** `refs` is the set of goroutines that incremented the
counter; Go's atomics are sequentially consistent. `touched` abstracts time to
"recent" and "expired" with clocks read early allowed for. Object identities that
nothing refers to are reused for new objects.

**Suppression.** One mailbox with several spellings of its address: lists are
keyed by spelling, lookups use the canonical one. Types are created, renamed, made
bulk or not and deleted while sends are under way; a workspace's own type hides the
`_system` type with the same slug, and the worker looks the slug up again. That
lookup and the worker's re-check of the lists fail open, as in the code.
`standing` (blocks in force since the request), `serious` (ever blocked for more
than an unsubscribe) and `took` (types that took the email's slug since the
request) are history variables. Reading preferences changes nothing and is left
out. CC and BCC are not modelled; the code filters them with the
same evaluation and does not re-check them in the worker.

**TemplateCatalog, TemplateResolution.** The rows of one tenant environment;
`adm[a]` is an administration request: what the handler checked when it began,
then the write, which looks again only at what its SQL looks at, then the
invalidation of the workspace's keys where the handler asks for it. `res[r]` is a
resolution between its four queries; `cache` its stored results. A version's
content is one value, its locale overrides a set. `late` and `raced` are history
variables: a result that was read before a kill switch and stored after it. The
unique keys of the schema count deleted rows, hence "deleted" is not "absent".

**SendRequest.** `send` is the request with what it has read so far (`base`: the
snapshot of the type a batch was evaluated with, `snap`: the one of the current
item, `barred`: the suppressed addresses), `emails` what it has written. Editing
the type, filling and dropping cache entries, suppressing and lifting go on around
it. `suppressed` holds the rows of the lists, under the spelling they came in, and
of the type's opt-outs, under the canonical one; they are asked one after the other
(`EvaluateMany`, then `EvaluateSend` or `primeSendBatchSuppressionStatuses`).
`lost` marks a row whose commit was not confirmed, `always` the rows there all
along, `seen` the rows the type has had.

**TrackingProvisioner.** `rows` are the step rows, each with where it was done,
`gen` the generation of their ids, `bound` the in-memory registration of topics. A
member of `Configs` is what the clients are built from, an account and a region,
and `aws` holds what exists in each. A call works where the row it loaded points to;
set and destination are addressed by name there, topic and subscription by the ARN
on record, wherever that is. A PUT may change the place, and give, replace or clear
the name of the configuration set. `proc[p]` is a request: the steps it found
completed, the resources it knows of, its position, what it read of the adapters
row. Five history variables name what no caller is promised: `overwritten` (a PUT
took the name away, by its own value or by writing an older row back), `moved` (a
PUT pointed the adapter elsewhere), `torn` (a deprovisioning is or was left half
way), `excused` (a lost statement, a crash, an overlap with a deletion) and
`orphans` (resources that a deletion could not address: no ARN on record, or made
elsewhere).

**AdapterAccess.** `sel` is the adapter and sender of each workspace's type,
`former` every selection a cached template may still carry. Validation is three
reads (`ReadAdapter`, `ReadSender`, `ReadGrant`), shared by an assignment and by a
send, as in the code. Replacing grants lists them, looks for uses of the ones to be
revoked, and replaces them in a READ COMMITTED transaction: what its DELETE finds,
and what it inserts later beside the rows that an overlapping replacement committed
in between, so that two replacements may leave the union of both sets or one of
them may fail at the primary key. `barred` and `raced` are history variables.

## 3. Runs

| run | instance | shows |
|---|---|---|
| `delivery_faults` | 1 email, 5 attempts, every failure | `SentIsRecorded`, `DeliveriesBounded`, `EventsAgreeWithStatus`, `NeverResentOnceRecorded`, `SuppressionHonoured`, `FollowsLifecycle`, `ProcessingSettles` |
| `delivery_clean` | 1 email, 5 attempts, answers lost or without an id only | `JobEndSettlesEmail`, `QueuedSettles` |
| `events_faults` | 3 messages (delivered, hard, soft), 2 handlers, 1 pixel, crashes, lost writes, no id | `AppliedOnce`, `TrailAgrees`, `NegativeIsFinal`, `AdvancesLifecycle` |
| `events_live` | 3 messages (subscription, hard, complaint), 1 handler that may forget the topic, failing verification and claims, unreadable payloads, duplicates, late messages, sweep, reset | `EveryMessageEnds`, `NegativeSuppresses` |
| `webhook_faults` | 2 jobs, 2 attempts, threshold 2, all failures, PUT, DELETE | `ThresholdDisables`, `DisabledStaysInactive`, `InactiveIsNotCalled`, `JobEnds` |
| `limiter_races` | 2 goroutines, cleanup, 3 objects, burst 2, limits 1 and 2, 4 tokens | `InUseIsCurrent`, `TokensConserved`, `BurstWithinLimit`, `AcquireReturns` |
| `suppression_safety` | 1 workspace and `_system`, 3 types, 1 edit of them, 2 spellings, 2 sends, forms of 1 toggle | `StandingBlocksHold`, `SeriousIsPermanent`, `LinkNamesTheType` |
| `templates_races` | `_system` and 1 workspace, 2 slugs, 2 types, 2 templates, 4 versions, 2 locales, 2 administrators, 1 resolution, 2 keys | `ServedIsPublished`, `KillSwitchInvalidates`, `PublishedIsFrozen`, `CacheConverges` |
| `send_faults` | 8 requests (single, batch, bulk; prod, test), 3 mailboxes in 4 spellings, 3 changes around the request, 2 faults | `SuppressionHonoured`, `TestMailIsContained`, `AnswerAgrees` |
| `provision_faults` | 2 accounts or regions, 2 overlapping requests of 3, 2 faults | `StatusIsHonest`, `AnsweredIsReal`, `RetryCompletes`, `NothingLeaks` |
| `access_races` | a Gmail, an SES and a global SMTP adapter, 3 identities, 2 workspaces and `_system`, 2 overlapping requests of 3 | `SendsWereGranted`, `InUseIsGranted`, `SelectionIsCoherent` |
| `doc_environment` | as `send_faults` | `EnvironmentsNeverMix` is violated |

Emails do not interact except through a reset and the limiter, so one is enough;
the proofs cover any number. Two handlers and a pixel are every pair of stale
readers; two jobs with two attempts meet at a threshold of 2 in every order; two
goroutines and the cleanup need three objects so that allocation never blocks. Two
administrators and one resolution are every race of two check-then-write handlers
and of a handler with a read; two faults reach a lost answer followed by a failing
retry; three requests are a first one, what races it, and the retry.
Bounds that are not the code's: `MaxOpens` (opens recorded), `MaxIssued` (tokens
handed out), `MaxSends`, `MaxChanges`, `MaxTypeEdits`, `MaxEdits`, `MaxFaults`, `MaxRequests`, and
the attempts and threshold of `webhook_faults` (6 and 10 in the code). The runs
whose system may come to rest switch the deadlock check off; `delivery_*` and
`limiter_races` check it. `access_races` uses symmetry of workspaces and of
requests; it checks invariants only.

Type correctness is proved (section 4) and not checked again by the runs.

Fairness. Workers, handlers and goroutines that can step do (processes are
scheduled and every call has a timeout); River fetches, finishes and rescues; the
cron job runs; time passes (strong for `Age`, because an attempt in between
interrupts it and the next gap between attempts goes on); the bucket refills, so a
job that asks again and again is eventually granted a token (strong). SNS keeps
delivering what was not answered 200, and a certificate that could not be fetched
or a claim that failed does not fail for ever (strong, handlers may be busy);
nothing is asked of provisioning: `EveryMessageEnds` is about the behaviours in
which the topic is registered for good from some moment on, and after a restart
without `expected_topic_arn` it need not be. `sync.Mutex`
hands a waiter the lock after a millisecond at most (strong). A cache entry reaches
its TTL (`Expire`); nothing is asked of administrators or resolutions. The other
new modules have safety properties only.

One statement of the repository is refuted by a run (`findings` in `PROJECT.json`
quotes it): `doc_environment`, a bulk send under `/environments/test` is resolved
and sent in production, because `BulkSend` gives the service no workspace of its
own and the lookup falls back to prod.

Others met while modelling, reachable in the modules but without a run of their own:

- attempts used up in the rate limiter leave the email queued (`EmailDelivery`);
- a type opt-out while the email is queued is not caught (`Suppression`);
- a hard bounce that overtakes the worker suppresses nobody (`ProviderEvents`);
- an auto-disabled webhook that a PUT enables again keeps `disabled_at`, so
  `GetActiveByWorkspace` never dispatches to it (`WebhookDelivery`);
- a bounce, complaint or manual entry of a mixed-case address is stored as it is
  spelled and blocks nothing, since every lookup asks for the canonical address
  (`Suppression`, `SendRequest`);
- an email that SES accepted without a message id is marked sent, and no notification
  about it ever finds its row (`EmailDelivery`, `ProviderEvents`);
- a type that takes the slug of the email's type between the request and the worker
  is the one the unsubscribe link opts out of (`Suppression`);
- a send whose recipients are suppressed, some or all, answers `accepted`;
  `EMAIL_FLOWS.md:86` says all recipients were queued, and `:87` calls a mix of
  queued and suppressed `partial` (`SendRequest`: `AnswerAgrees` states what the code
  answers);
- the locale overrides of a published version are edited in place, although
  `versions-locales-and-builder.md:154` calls published versions immutable;
  `PublishedIsFrozen` is about the body;
- the sweep fails a row with a provider id before its recovery
  (`EMAIL_FLOWS.md:134`); a recent row in processing is resumed, not cancelled
  (`:135`); failures that disable a webhook need not be consecutive when attempts
  overlap (`:410`); a PUT without `is_active` can undo an auto-disable;
- inherited bulk types get no unsubscribe link and are missing in the preference
  centre (`:495`, `:519`); non-bulk types can be opted out of (`:511`); the form
  applies its toggles one by one and may stop in the middle;
- a failed subscription confirmation is not retried (`provider_webhook.go:215`);
- publishing does not invalidate the cache, and disabling a `_system` template
  leaves the entries of the workspaces that inherit it for their TTL; a resolution
  that overlaps the kill switch may store the disabled template after it;
- a failed read of "has a published version" lets the deletion of a template through;
- a batch item whose locale resolves to another snapshot of the type is judged by
  suppression statuses that were read for the first snapshot's recipients, so it may
  reach a suppressed inbox that only the other snapshot names;
- grant replacement and assignment, when they overlap, leave a workspace with a
  selection it may not use: its sends are refused until someone edits the type; two
  overlapping replacements can leave the union of both sets;
- PUT and `saveConfigSetName` both write the whole adapters row as read earlier and
  can undo each other: a name that provisioning saved, or a region that a PUT set;
  a later call skips the saved step and answers 200 without the name;
- after a PUT of another region or account provisioning skips what is on record from
  the old one and fails at the event destination, for good; a DELETE looks in the new
  place, takes NotFound for success, drops the rows and leaves the old resources;
- the topic of an adapter is known in memory only, by the process that provisioned
  it: after a restart its events are refused until a call registers it, unless
  `expected_topic_arn` is configured (`provider_webhook.go:227`).

## 4. Proofs

For every value of the constants, from the `ASSUME`s of the modules.

**EmailDeliveryProofs.** `TypeCorrect`, `SentIsRecordedAlways`,
`DeliveriesBoundedAlways`, `EventsAgreeAlways`, `NeverResent`,
`DeliveredWhileClaimed`, `SuppressionIsHonoured`, `ImplementsLifecycle`,
`JobEndAlwaysSettles`. None of
the properties is inductive: what a step may do depends on how the attempt got
there. `CoreInv` says, per step of the attempt, what is known of the job
(`JobShape`: a running attempt belongs to a running job), of the count (`Charged`:
acceptances so far are below the charged attempts until this attempt delivers) and
of the row (`RowAtStep`: between claim and mark the row is in processing without
an id, or purged, and only an accepted message is recorded). `IInv` adds what is
known of the history (`HeldAtStep`: past the re-check no held email goes on) and
of the log (`EventsAtStep`). Each action preserves each conjunct; the theorems
follow. The refinement maps `handed` to the emails with an acceptance: each step
is `Advance`, `Hand`, `Reset` or a stutter.

`JobEndAlwaysSettles` has the hypothesis `Faults \subseteq {"ambiguous", "noid"}`: the
provider may refuse, fail, lose its answer or give no id, but nothing crashes and no statement or lookup
fails. It is needed: a crash, a lost status write, a failing limiter or a failing
lookup can each use up the last attempt with the row still queued or processing
(the sweep settles only those in processing). `SettledAtStep` adds to the property where the
attempt stands: past `complete` or `cancel` the row is settled, a retry leaves it
open only with attempts to spare, and an attempt that is not a recovery never
meets a row in processing.

**SuppressionProofs.** `TypeCorrect`, `StandingBlocksAlwaysHold`,
`SeriousAlwaysPermanent`, `LinkAlwaysNamesTheType`. The invariant adds
`FreeAtStep` (what each of the two queries has ruled out of `standing` so far, so
that a block lifted or added between them is accounted for), `Unique` (a scope has
at most one type with a slug) and `Resolved` (what the workspace has under the
email's slug is the type that was evaluated or one in `took`), which every creation,
renaming and deletion of a type keeps and from which `LinkNamesTheType` follows.

The second half of the module is about the reader of those lists, `SendRequest`:
`SendTypeCorrect`, `SuppressionAlwaysHonoured`, `TestMailAlwaysContained`,
`AnswerAlwaysAgrees`. The module extends both; they share no name, which is why the
specification of `SendRequest` is called `SendSpec`. A request reads the type row
several times, through the cache, its own memo and the table, and other requests edit
it in between, so the invariant follows each of these copies:

- `Sighted`: every row in the cache, the memo, the base or the snapshot is one the
  type has had since the request began (`seen`);
- `HeldBack`: after the first query an address whose row in the lists has stayed is
  in `barred`, after the second one every address asked about that has stayed
  suppressed, for every item of a batch; at the write none of the copies is in
  `barred`, and with the first snapshot nobody is left that was not asked about;
- `Contained`: the recipients a test request still has to write are inboxes of its
  snapshot's policy, unless that says append;
- `Position`, `Counted`, `Written`, `Reported`: where the request stands in its
  items, that no recipient was told "failed" just if `fails` is 0, and all were just if it is
  their number,
  that each recipient told has its row with or without a job, and that each result
  of an earlier item agrees with its rows. `AnswerAgrees` alone is not inductive: an
  item's result is computed from the two counters, not from the rows.

`NormalizeRecipientAddresses` is stated by what it keeps (the first of the
addresses that share a canonical form, in order) and by rank, not as a fold: that
every rank is taken by one address follows from the library's theorems on
cardinality (`FirstsFinite` and the lemma after it), where a fold would need
induction over the sequence.

**RateLimitReservationProofs.** `TypeCorrect`, `CurrentInUse`, `NoTokenSpentTwice`,
`DroppedWasExpired`, `BurstClamped`. The invariant says who owns what: a goroutine
with a reservation in hand holds the current one or one whose `deleting` flag is up
(`HeldIsCurrentOrFlagged`), the cleanup works on the current one with the flag up
(`CleanerOnCurrent`, `FlagIsUp`), the mutex excludes (`Mutex`), and once the cleanup
has decided to delete nobody is past the second look at the flag
(`DeleteIsAlone`). That is why the second look under the mutex is needed: without it
`InUseIsCurrent` is not inductive. `HandIsFresh` and `VerdictHolds` say that what was
read under the mutex still holds when it is acted on; the token balance and the
cleanup's verdict follow. The proof also shows that `refs` is not needed for safety:
no conjunct but its type mentions it. `refs` only keeps the cleanup from
disturbing goroutines that are waiting.

**WebhookDeliveryProofs.** `TypeCorrect`, `CompletedWasAlwaysReceived`,
`PostsAlwaysBounded`, `ThresholdAlwaysDisables`, `DisabledAlwaysInactive`,
`InactiveNeverCalled`. `JobShape` says which job states a running attempt allows,
`PostsAtStep` that before its request an attempt has one request fewer than
attempts charged, `ReceivedAtStep` that an attempt finishes as completed only
behind an answer the endpoint gave, `StoppedAtStep` that the history variable
`stopped` is empty while the row is active and excludes attempts at their request.

**ProviderEventsProofs.** `TypeCorrect`, `AppliedAtMostOnce`, `TrailAlwaysAgrees`,
`NegativeAlwaysFinal`, `AlwaysAdvances`, for any number of messages and handlers.
The argument is that the compare-and-set on the status elects one handler per
status class: two handlers past it never have the same class (`Alone`), such a
handler's event is not in the log or the webhooks yet (`NotYetRecorded`), it logs
before it suppresses (`LoggedFirst`), and the row stays at or beyond the class for
good (`ShowsInRow`, with `Beyond` closed under the edges of the machine by
`BeyondStable`), so a second claim of the class cannot succeed. `HandlerAtStep` and
`PixelAtStep` say what the stale reads may still be.

**TemplateResolutionProofs.** `TypeCorrect`, `AlwaysOnePublished`,
`AlwaysServesPublished`, `KillSwitchAlwaysInvalidates`, `AlwaysFrozen`.
`OnlyWriters` says which steps write which part of the state, so that the other
lemmas look at those only. `Rooted` (nothing names a template that was never
inserted) is what makes a fork's copies a new group, hence `OnePublished`. Sealed
versions never change (`SealedPersist`), so what a resolution read is still true
when it stores it (`VersionAtStep`), hence `ServedIsPublished`. For the kill switch,
`RacedAtStep` says that a resolution which goes on with a disabled template of its
workspace was overtaken by the switch; every other entry was there when the switch
was written and waits for the invalidation of the same request.

**AdapterAccessProofs.** `TypeCorrect`, `SendsAlwaysGranted`, `InUseAlwaysGranted`,
`SelectionAlwaysCoherent`, for any number of overlapping requests. Each request
carries what its reads established: `KindAtStep` and `CheckedAtStep` from the
control alone; `SendAtStep`, that the history marks `dead` and `barred` stay set
only while the adapter or the grant was never there, so a send past its check has
lost them; `AssignAtStep`, that an assignment at its write still has the grant it
read, unless a replacement marked it or its identity is gone, in which case the
write's foreign key refuses it. `ReplaceAtStep` is the strengthening that
`InUseIsGranted` needs: a replacement past its listing of uses keeps or has
listed every workspace that needs the grant, except those whose assignment
overlapped it (`raced`). `DefaultIsOwn` ties an adapter's default sender to the
adapter, which the fallback of `resolveFromEmail` relies on.

**TrackingProvisionerProofs.** `TypeCorrect`, `StatusAlwaysHonest`,
`AnswerAlwaysReal`, `RetryAlwaysCompletes`, `NothingEverLeaks`, for any number of
overlapping requests, failures and crashes. A call trusts rows that it listed once
and that others go on writing, so the invariant says what a listing is still worth:

- `RowsTogether` and `IdsAreFound`: the rows come and go all at once, so an id
  listed in this generation is found, and one of an earlier generation never hits a
  row inserted since. `InRange` ties the steps to their lists, and the steps of a
  removal to `torn`;
- `OnRecord` and `ProgressIsReal`: as long as no removal has begun, a completed row
  has its resource where it was done, and so has each step a call has behind it
  (`Behind`), whether it made the resource or skipped it. `Settled` says that there
  is one place as long as no PUT has moved the adapter. `torn` is what makes this inductive: it is raised
  by the first removal to list its rows, and lowered only when the rows are dropped
  while nobody else is under way, since a second call would still hold the old list;
- `RemovalIsReal`: behind step *j* of a removal the resource is gone, or an orphan
  (`Gone`), or its row says failed (`Accounted`), what is left can be addressed
  (`Reached`), and a removal that drops the rows has met no error.
  `NothingLeaks` speaks of the moment when everyone is idle; this is the part that
  holds on the way there.

There is one lemma per action (`...Keeps`); `...Moves` and `...Rows` say once what
the control and the row statements do to the request and the table.

Every invariant and every action property that a run checks is stated by a theorem.
Only model-checked: liveness (`ProcessingSettles`, `QueuedSettles`,
`EveryMessageEnds`, `NegativeSuppresses`, `JobEnds`, `AcquireReturns`,
`CacheConverges`), which needs fairness and `ENABLED`. That
`NormalizeRecipientAddresses` returns what the loop of the code does was compared
with TLC for all sequences of up to four addresses, when it was restated without
the fold.

## 5. Not modelled

Left out of the modelled parts: rendering, MIME, signatures, token encryption,
validation of input, listing, history and pagination, metrics, logging. Parts without a
module:

- injectors: a pure merge by precedence inside one request, and CRUD of one
  statement;
- members, roles, onboarding, API keys: guards of one request on one row, which a
  model would only restate;
- media, screenshots, audit, dashboard: I/O, appends and read-only aggregates;
- HTTP wiring, configuration, SDK, UI, generated code (about half of the Go lines
  of the repository): no state of their own.

`PROJECT.json` lists every component. What would come next: an induction over the
step list of `TrackingProvisioner` so that its properties hold for any list, the
role hierarchy of members, and the injector merge against a reference definition.
