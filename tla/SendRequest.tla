----------------------------- MODULE SendRequest -----------------------------
(***************************************************************************)
(* One send request from the handler to its answer: POST /send, POST       *)
(* /send/batch and the bulk send of a template (internal/service/send.go,  *)
(* send_batch.go, send_suppression.go, send_persistence.go and the         *)
(* handlers in front of them).                                             *)
(*                                                                         *)
(* The request reads the template type, the suppression lists and the      *)
(* recipient policy in separate steps, and writes one transaction per      *)
(* recipient; administration, bounces and opt-outs run between any two of  *)
(* them, every write may fail, a commit may succeed without its answer     *)
(* arriving, and the process may die.  What a rendered message says is     *)
(* left out; failures of rendering, injectors and access checks are the    *)
(* failures of the step they belong to.                                    *)
(***************************************************************************)
EXTENDS Integers, Sequences, FiniteSets, Functions

CONSTANTS Addresses,      \* as written in requests and policies
          Canonical,      \* the lower-case form of an address
          Locales, NoLocale,
          DefaultLocale,  \* of the workspace, or NoLocale
          Sends,          \* the requests considered: [kind, env, ref, items]
          TypeRows,       \* what the template type row can be, per environment
          WorkspacePolicy,\* recipient policy of the test workspace: [mode, inbox]
          FirstBlocks,    \* the contents of the suppression tables considered at the start
          NoRow,
          MaxEdits,       \* bound: changes made around the request
          MaxFaults       \* bound: writes that fail or whose answer is lost

Envs == {"prod", "test"}
Keys == Locales \cup {NoLocale}
Kinds == {"single", "batch", "bulk"}

(* A row of the lists, global or of the workspace, holds the address as a    *)
(* bounce, a complaint or an administrator spelled it, an opt-out of the     *)
(* type the canonical address of the token.                                  *)
Tables == {"lists", "optouts"}
Block(t, a) == <<t, IF t = "lists" THEN a ELSE Canonical[a]>>

Items == [to : Seq(Addresses), copies : SUBSET Addresses, loc : Keys]

ASSUME SendAssumption ==
    /\ Canonical \in [Addresses -> Addresses]
    /\ DefaultLocale \in Keys /\ NoLocale \notin Locales
    /\ \A e \in Envs : /\ NoRow \notin TypeRows[e] /\ TypeRows[e] # {}
                       /\ TypeRows[e] \subseteq [mode : {"none", "replace", "append"},
                                                 inbox : Seq(Addresses), adapter : BOOLEAN]
    /\ \A b \in FirstBlocks : b \subseteq {Block(t, a) : t \in Tables, a \in Addresses}
    /\ WorkspacePolicy \in [mode : {"replace", "append"}, inbox : Seq(Addresses)]
    /\ \A q \in Sends : /\ q.kind \in Kinds /\ q.env \in Envs
                        /\ q.items \in Seq(Items) /\ Len(q.items) > 0
    /\ MaxEdits \in Nat /\ MaxFaults \in Nat

VARIABLES typ,       \* the template type row, in the workspace the request works in
          cached,    \* its snapshots in the cache of resolved templates, per locale
          suppressed,\* rows that bear on that workspace and type: <<table, address>>
          send,      \* the request in progress
          emails,    \* rows of `emails`, each with its job if it has one
          changes, faults,
          seen,      \* history: rows the type has had
          always     \* history: the rows there ever since the request began

outside == <<typ, cached, suppressed, changes, seen, always>>
requestVars == <<typ, cached, suppressed, send, emails, changes, faults, seen, always>>

Row == TypeRows["prod"] \cup TypeRows["test"]
Statuses == {"accepted", "suppressed", "failed", "partial"}

SendTypeOK ==
    /\ typ \in TypeRows[send.ws] /\ seen \subseteq TypeRows[send.ws]
    /\ cached \in [Keys -> Row \cup {NoRow}]
    /\ suppressed \subseteq Tables \X Addresses
    /\ send.pc \in {"start", "sender", "evaluate", "optouts", "item", "write", "done", "dead"}
    /\ send.base \in Row \cup {NoRow} /\ send.snap \in Row \cup {NoRow}
    /\ send.memo \in [Keys -> Row \cup {NoRow}]
    /\ send.barred \subseteq Addresses /\ send.copies \subseteq Addresses
    /\ send.i \in 0..Len(send.items) /\ send.fails \in 0..Len(send.told)
    /\ send.told \in Seq(Statuses) /\ send.results \in Seq(Statuses)
    /\ send.answer \in {"none", "error", "accepted", "partial", "failed"}
    /\ \A m \in emails : m.to \in Addresses /\ m.copies \subseteq Addresses
                         /\ m.status \in {"queued", "suppressed"} /\ m.job \in BOOLEAN
                         /\ m.lost \in BOOLEAN
    /\ changes \in 0..MaxEdits /\ faults \in 0..MaxFaults
    /\ always \subseteq Tables \X Addresses

\* The workspace row a request works in.  The data plane takes the environment
\* of its key; a bulk send names no key, so the lookup falls to prod.
WorkspaceOf(q) == IF q.kind = "bulk" THEN "prod" ELSE q.env

SendInit ==
    /\ cached = [k \in Keys |-> NoRow]
    /\ suppressed \in FirstBlocks
    /\ always = suppressed
    /\ \E q \in Sends :
         /\ typ \in TypeRows[WorkspaceOf(q)]
         /\ send = [pc |-> "start", kind |-> q.kind, env |-> q.env, ref |-> q.ref,
                    items |-> q.items, ws |-> WorkspaceOf(q), base |-> NoRow, snap |-> NoRow,
                    memo |-> [k \in Keys |-> NoRow], barred |-> {}, i |-> 0, todo |-> <<>>,
                    copies |-> {}, told |-> <<>>, fails |-> 0, results |-> <<>>,
                    answer |-> "none"]
    /\ emails = {} /\ changes = 0 /\ faults = 0
    /\ seen = {typ}

-----------------------------------------------------------------------------
(* What others do meanwhile in the workspace; nothing else reaches the      *)
(* request.                                                                 *)

Change ==
    /\ changes < MaxEdits /\ send.pc \notin {"done", "dead"}
    /\ changes' = changes + 1
    /\ UNCHANGED <<send, emails, faults>>

\* The template type is edited; cached snapshots stay until they are invalidated
\* (an inherited type's never are) or reach their TTL.
EditType(row) ==
    /\ Change
    /\ typ' = row
    /\ seen' = seen \cup {row}
    /\ UNCHANGED <<cached, suppressed, always>>

\* Another request resolves the type, or an entry goes.
Refresh(k) ==
    /\ Change
    /\ cached' = [cached EXCEPT ![k] = IF @ = NoRow THEN typ ELSE NoRow]
    /\ UNCHANGED <<typ, suppressed, seen, always>>

Suppress(t, a) ==
    /\ Change
    /\ suppressed' = suppressed \cup {Block(t, a)}
    /\ UNCHANGED <<typ, cached, seen, always>>

Unsuppress(t, a) ==
    /\ Change
    /\ suppressed' = suppressed \ {Block(t, a)}
    /\ always' = always \ {Block(t, a)}
    /\ UNCHANGED <<typ, cached, seen>>

-----------------------------------------------------------------------------
(* Helpers *)

\* Of the addresses that differ in case only, the first one stays.
Firsts(s) == {i \in DOMAIN s : \A j \in DOMAIN s : Canonical[s[j]] = Canonical[s[i]] => i <= j}

NormalizeRecipientAddresses(s) ==
    [k \in 1..Cardinality(Firsts(s)) |->
       s[CHOOSE i \in Firsts(s) : Cardinality({j \in Firsts(s) : j <= i}) = k]]

\* The test workspace's policy, or the one of the template type.
Policy(row) ==
    IF row.mode = "none" THEN WorkspacePolicy ELSE [mode |-> row.mode, inbox |-> row.inbox]

applyTestRecipientPolicy_KeepsCopies(ws, row, to, copies) ==
    LET p == Policy(row)
        inbox == NormalizeRecipientAddresses(p.inbox) IN
    IF ws = "prod" THEN [ok |-> TRUE, to |-> to, copies |-> copies]
    ELSE IF inbox = <<>> THEN [ok |-> FALSE, to |-> <<>>, copies |-> {}]
    ELSE [ok |-> TRUE, copies |-> copies,
          to |-> IF p.mode = "append" THEN NormalizeRecipientAddresses(to) \o inbox ELSE inbox]

applyTestRecipientPolicy(ws, row, to, copies) ==
    LET p == Policy(row)
        inbox == NormalizeRecipientAddresses(p.inbox) IN
    IF ws = "prod" THEN [ok |-> TRUE, to |-> to, copies |-> copies]
    ELSE IF inbox = <<>> THEN [ok |-> FALSE, to |-> <<>>, copies |-> {}]
    ELSE IF p.mode = "append"
         THEN [ok |-> TRUE, to |-> NormalizeRecipientAddresses(to) \o inbox, copies |-> copies]
    ELSE [ok |-> TRUE, to |-> inbox, copies |-> {}]

Effective(row, item) == applyTestRecipientPolicy(send.ws, row, item.to, item.copies)

\* The queries are made with canonical addresses and answered for the addresses
\* as they were written.
Suppressed(t, addrs) == {a \in addrs : <<t, Canonical[a]>> \in suppressed}

Asked(row, item) == Range(Effective(row, item).to) \cup Effective(row, item).copies

\* Whom the request asks about: the recipients that its first snapshot gives.
Consulted == UNION {Asked(send.base, send.items[i]) : i \in DOMAIN send.items}

effectiveLocaleKey(l) == IF l # NoLocale THEN l ELSE DefaultLocale

Batch == send.kind \in {"batch", "bulk"}

\* TemplateResolver.Resolve: the cached snapshot, or the row, which it stores.
ResolveType(k, row) ==
    IF cached[k] # NoRow
    THEN row = cached[k] /\ UNCHANGED outside
    ELSE /\ row = typ
         /\ cached' = [cached EXCEPT ![k] = row]
         /\ UNCHANGED <<typ, suppressed, changes, seen, always>>

-----------------------------------------------------------------------------
(* The request *)

Answer(a) == send' = [send EXCEPT !.pc = "done", !.answer = a]

\* A reference to `_system` or to a workspace that is not the key's is refused;
\* the path of a bulk send is its own reference.
Refused == send.ref = "system" \/ (send.ref = "other" /\ send.kind # "bulk")

ResolveContext ==
    /\ send.pc = "start" /\ ~Refused
    /\ \E row \in Row :
         LET k == effectiveLocaleKey(IF Batch THEN NoLocale ELSE send.items[1].loc) IN
         /\ ResolveType(k, row)
         /\ send' = [send EXCEPT !.pc = "sender", !.base = row, !.snap = row,
                                !.memo[NoLocale] = row, !.memo[k] = row]
    /\ UNCHANGED <<emails, faults>>

\* Adapter, access to it and from address, all of the first snapshot.
ResolveSender ==
    /\ send.pc = "sender" /\ send.base.adapter
    /\ send' = [send EXCEPT !.pc = "evaluate"]
    /\ UNCHANGED <<outside, emails, faults>>

\* What Send and a batch item do once they know their recipients.
Recipients(q, row, item, barred) ==
    [q EXCEPT !.pc = "write", !.snap = row, !.barred = barred,
              !.todo = Effective(row, item).to,
              !.copies = Effective(row, item).copies \ barred,
              !.told = <<>>, !.fails = 0]

\* One query over the lists for all items.
EvaluateMany ==
    /\ send.pc = "evaluate"
    /\ \A i \in DOMAIN send.items : Effective(send.base, send.items[i]).ok
    /\ send' = [send EXCEPT !.pc = "optouts", !.barred = Suppressed("lists", Consulted)]
    /\ UNCHANGED <<outside, emails, faults>>

\* Then another one over the opt-outs of the type.
EvaluateSend ==
    /\ send.pc = "optouts" /\ ~Batch
    /\ send' = [Recipients(send, send.base, send.items[1],
                           send.barred \cup Suppressed("optouts", Consulted))
                  EXCEPT !.i = 1]
    /\ UNCHANGED <<outside, emails, faults>>

primeSendBatchSuppressionStatuses_To ==
    /\ send.pc = "optouts" /\ Batch
    /\ LET to == UNION {Range(Effective(send.base, x).to) : x \in Range(send.items)} IN
       send' = [send EXCEPT !.pc = "item", !.i = 1,
                            !.barred = @ \cup Suppressed("optouts", to)]
    /\ UNCHANGED <<outside, emails, faults>>

primeSendBatchSuppressionStatuses ==
    /\ send.pc = "optouts" /\ Batch
    /\ send' = [send EXCEPT !.pc = "item", !.i = 1,
                            !.barred = @ \cup Suppressed("optouts", Consulted)]
    /\ UNCHANGED <<outside, emails, faults>>

\* Any error before the first write is the answer to the whole request.
Abort ==
    /\ send.pc \in {"start", "sender", "evaluate", "optouts"}
    /\ Answer("error")
    /\ UNCHANGED <<outside, emails, faults>>

\* templateForLocale, policy and suppression of one item.  Its snapshot of the
\* type may be older or newer than the first one.
PrepareItem ==
    /\ send.pc = "item"
    /\ \E row \in Row :
         LET item == send.items[send.i]
             k == effectiveLocaleKey(item.loc) IN
         /\ IF send.memo[k] # NoRow THEN row = send.memo[k] /\ UNCHANGED outside
            ELSE ResolveType(k, row)
         /\ Effective(row, item).ok
         /\ send' = [Recipients(send, row, item, send.barred) EXCEPT !.memo[k] = row]
    /\ UNCHANGED <<emails, faults>>

\* SendBatch's answer from the items' results.
BatchStatus(results) ==
    IF \A i \in DOMAIN results : results[i] = "failed" THEN "failed"
    ELSE IF \E i \in DOMAIN results : results[i] \in {"failed", "partial"} THEN "partial"
    ELSE "accepted"

EndItem(q, result) ==
    LET results == Append(q.results, result) IN
    IF q.i = Len(q.items)
    THEN [q EXCEPT !.results = results, !.pc = "done", !.answer = BatchStatus(results)]
    ELSE [q EXCEPT !.results = results, !.pc = "item", !.i = q.i + 1]

\* Template, injectors, rendering or policy of one item fail: the others go on.
FailItem ==
    /\ send.pc = "item"
    /\ send' = EndItem(send, "failed")
    /\ UNCHANGED <<outside, emails, faults>>

Email(lost) ==
    LET barred == Head(send.todo) \in send.barred IN
    [item |-> send.i, pos |-> Len(send.told) + 1, to |-> Head(send.todo), copies |-> send.copies,
     status |-> IF barred THEN "suppressed" ELSE "queued", job |-> ~barred,
     env |-> send.ws, snap |-> send.snap, base |-> send.base, lost |-> lost]

Told(status) ==
    [send EXCEPT !.told = Append(@, status), !.todo = Tail(@),
                !.fails = IF status = "failed" THEN @ + 1 ELSE @]

CreateEmail_JobLater ==
    /\ send.pc = "write" /\ send.todo # <<>>
    /\ \/ /\ emails' = emails \cup {Email(FALSE)}
          /\ send' = Told(IF Email(FALSE).job THEN "accepted" ELSE "suppressed")
          /\ UNCHANGED faults
       \/ /\ faults < MaxFaults /\ faults' = faults + 1
          /\ emails' \in {emails, emails \cup {[Email(FALSE) EXCEPT !.job = FALSE]}}
          /\ send' = Told("failed")
    /\ UNCHANGED outside

\* CreateQueued writes the row, its job and its event in one transaction,
\* CreateSuppressed the row and its event.  A failure is reported for the
\* recipient, also when only the answer of the commit was lost.
CreateEmail ==
    /\ send.pc = "write" /\ send.todo # <<>>
    /\ \/ /\ emails' = emails \cup {Email(FALSE)}
          /\ send' = Told(IF Email(FALSE).job THEN "accepted" ELSE "suppressed")
          /\ UNCHANGED faults
       \/ /\ faults < MaxFaults /\ faults' = faults + 1
          /\ emails' \in {emails, emails \cup {Email(TRUE)}}
          /\ send' = Told("failed")
    /\ UNCHANGED outside

FinishSend ==
    /\ send.pc = "write" /\ send.todo = <<>> /\ ~Batch
    /\ Answer(IF send.fails = Len(send.told) THEN "error"
              ELSE IF send.fails > 0 THEN "partial" ELSE "accepted")
    /\ UNCHANGED <<outside, emails, faults>>

\* An item that wrote everything has the status of its first recipient.
finalizeSendPlanResult(told, fails) ==
    IF fails = Len(told) THEN "failed"
    ELSE IF fails > 0 THEN "partial" ELSE told[1]

FinishItem ==
    /\ send.pc = "write" /\ send.todo = <<>> /\ Batch
    /\ send' = EndItem(send, finalizeSendPlanResult(send.told, send.fails))
    /\ UNCHANGED <<outside, emails, faults>>

\* The process dies: the client gets no answer.
Crash ==
    /\ send.pc \notin {"done", "dead"}
    /\ send' = [send EXCEPT !.pc = "dead"]
    /\ UNCHANGED <<outside, emails, faults>>

SendNext ==
    \/ \E row \in TypeRows[send.ws] : EditType(row)
    \/ \E k \in Keys : Refresh(k)
    \/ \E t \in Tables, a \in Addresses : Suppress(t, a) \/ Unsuppress(t, a)
    \/ ResolveContext \/ ResolveSender \/ Abort
    \/ EvaluateMany \/ EvaluateSend \/ CreateEmail \/ FinishSend
    \/ primeSendBatchSuppressionStatuses \/ PrepareItem \/ FailItem \/ FinishItem
    \/ Crash

SendSpec == SendInit /\ [][SendNext]_requestVars

-----------------------------------------------------------------------------
(* Properties *)

\* Whom an email goes to.
Targets(m) == m.copies \cup (IF m.job THEN {m.to} ELSE {})

\* A row under the canonical spelling has been there since the request began.
Blocked(a) == \E t \in Tables : <<t, Canonical[a]>> \in always

\* An address whose canonical spelling is on a list, or opted out of the type,
\* for as long as the request runs gets no email of it, neither as recipient nor
\* as copy, whatever case the request writes it in, although lists and opt-outs
\* are asked one after the other (Send, SendBatch, the suppression evaluators).
\* The exception: an item of a batch whose snapshot of the type is not the one
\* the batch was evaluated with may reach an address nobody asked about.  A list
\* row in another spelling blocks nothing.
SuppressionHonoured ==
    \A m \in emails : \A a \in Targets(m) :
      Blocked(a) => m.snap # m.base /\ a \notin Consulted

\* In the test environment an email goes to an address outside the configured
\* inboxes only where the policy of the workspace or of some version of the
\* template type says append; the copies of a request likewise
\* (applyTestRecipientPolicy on every path).
TestMailIsContained ==
    LET inboxes == UNION {Range(Policy(row).inbox) : row \in seen} IN
    (\A row \in seen : Policy(row).mode # "append") =>
      \A m \in emails : m.env = "test" => m.to \in inboxes /\ m.copies = {}

Of(i) == {m \in emails : m.item = i}

\* The answer agrees with what was written.  A recipient reported as accepted
\* has a queued row with its job, one reported as suppressed a row without, and
\* one reported as failed none, or one whose commit was not confirmed; a request
\* that ends in an error, and an item that failed, wrote nothing else.  No row
\* is ever without its job unless it is suppressed, also after a crash.  Accepted
\* is also what a request answers whose recipients are suppressed, some or all.
AnswerAgrees ==
    /\ \A m \in emails : m.job <=> m.status = "queued"
    /\ send.pc \in {"write", "done"} /\ ~Batch /\ send.i = 1 =>
         \A p \in DOMAIN send.told :
           LET rows == {m \in Of(1) : m.pos = p} IN
           /\ send.told[p] = "accepted" => \E m \in rows : m.job
           /\ send.told[p] = "suppressed" => \E m \in rows : ~m.job
           /\ send.told[p] = "failed" => \A m \in rows : m.lost
    /\ send.answer = "error" => \A m \in emails : m.lost
    /\ send.answer = "accepted" => \A m \in emails : ~m.lost
    /\ \A i \in DOMAIN send.results :
         /\ send.results[i] = "failed" => \A m \in Of(i) : m.lost
         /\ send.results[i] = "accepted" => (\E m \in Of(i) : m.job) /\ \A m \in Of(i) : ~m.lost
         /\ send.results[i] = "partial" => \E m \in Of(i) : ~m.lost
         /\ send.results[i] = "suppressed" => \A m \in Of(i) : ~m.lost

\* "The runtime never mixes prod and test resources": what a request made in one
\* environment writes belongs to that environment.
EnvironmentsNeverMix == \A m \in emails : m.env = send.env
=============================================================================
