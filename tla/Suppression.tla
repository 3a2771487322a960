---------------------------- MODULE Suppression ----------------------------
(***************************************************************************)
(* Who may not be written to, and who finds out in time: the global list,  *)
(* the workspace lists and the per-type subscriptions; the send pipeline   *)
(* that consults them (twice, in separate queries) and the provider        *)
(* events, the admin API and the recipient's unsubscribe link that change  *)
(* them.  The template types behind the opt-outs are themselves created,   *)
(* renamed and deleted while emails are under way.                         *)
(*                                                                         *)
(* Every step is one SQL statement.  An address is kept as it was spelled: *)
(* the lists are keyed by the spelling they were given, a lookup always    *)
(* asks for the canonical one.                                             *)
(***************************************************************************)
EXTENDS Sequences, Integers

CONSTANTS
    Workspaces,   \* ordinary workspaces of one tenant and environment
    System,       \* the tenant's _system workspace
    Types,        \* template types: those that exist and those yet to be created
    Slugs,        \* the slugs they may carry
    NoSlug,       \* of a type that is not created yet
    FirstSlug,    \* the slug of each type at the start
    FirstBulk,    \* the types with is_bulk = true at the start
    Scope,        \* the workspace that owns each type
    Spellings,    \* the ways one mailbox's address is written
    Lower,        \* the canonical one: trimmed, lower case
    Senders,      \* concurrent sends
    MaxSends,     \* bound on the sends of a behaviour
    MaxChanges,   \* bound on the toggles of one preference form
    MaxTypeEdits  \* bound on the creations, updates and deletions of types

ASSUME ScopeAssumption == /\ System \notin Workspaces
                          /\ Scope \in [Types -> Workspaces \union {System}]
                          /\ FirstBulk \subseteq Types
ASSUME SlugAssumption ==
    /\ NoSlug \notin Slugs /\ FirstSlug \in [Types -> Slugs \union {NoSlug}]
    /\ \A t, u \in Types :
         FirstSlug[t] = FirstSlug[u] /\ FirstSlug[t] # NoSlug /\ Scope[t] = Scope[u] => t = u
ASSUME SpellingAssumption == Lower \in Spellings
ASSUME SuppressionBoundsAssumption == 
    MaxSends \in Nat /\ MaxChanges \in Nat /\ MaxTypeEdits \in Nat

VARIABLES
    global,     \* suppression_global: the spellings with an active row
    workspace,  \* suppression_workspace: reason of the active row
    slugOf,     \* template_types: the slug of each row,
    deleted,    \* the rows with deleted_at set,
    bulk,       \* and those with is_bulk set
    subs,       \* template_type_subscriptions
    tokens,     \* unsubscribe links in delivered emails
    pc, req,    \* each send's next step and request
    reason,     \* what its evaluation found so far
    link,       \* types named by the unsubscribe link of its email
    holder,     \* the token of the UpdatePreferences request in progress
    toggles,    \* its changes that are still to be applied
    requested,  \* number of sends requested
    edits,      \* number of changes to types
    took,       \* types that took a send's slug in its workspace since the request
    standing,   \* blocks in force ever since the send was requested
    serious     \* addresses ever blocked for another reason than unsubscribe

vars == <<global, workspace, slugOf, deleted, bulk, subs, tokens, pc, req, reason,
          link, holder, toggles, requested, edits, took, standing, serious>>
typeVars == <<slugOf, deleted, bulk, edits>>
listVars == <<global, workspace, subs, serious>>
sendVars == <<pc, req, reason, link, requested>>
formVars == <<holder, toggles>>

(* Of the reasons that the API may give, hard_bounce fares as manual does. *)
Serious == {"manual", "complaint"}
Reasons == {"none", "unsubscribe"} \union Serious
Levels  == {"global", "workspace", "type"}
Tokens  == [ws : Workspaces, type : Types]
Changes == [slug : Slugs, subscribed : BOOLEAN]
Requests == [ws : Workspaces, slug : Slugs, type : Types, to : Spellings]
NoToken   == [ws |-> System]
NoRequest == [to |-> System]
Steps   == {"idle", "lists", "types", "create", "queued", "deliver", "sent"}

TypeOK ==
    /\ global \subseteq Spellings
    /\ workspace \in [Workspaces -> [Spellings -> Reasons]]
    /\ slugOf \in [Types -> Slugs \union {NoSlug}]
    /\ deleted \subseteq Types /\ bulk \subseteq Types
    /\ edits \in 0 .. MaxTypeEdits
    /\ subs \in [Workspaces -> [Types -> {"none", "in", "out"}]]
    /\ tokens \subseteq Tokens
    /\ pc \in [Senders -> Steps]
    /\ req \in [Senders -> Requests \union {NoRequest}]
    /\ \A s \in Senders : pc[s] # "idle" => req[s] \in Requests
    /\ reason \in [Senders -> {"none", "listed", "type_optout"}]
    /\ link \in [Senders -> SUBSET Types]
    /\ toggles \in Seq(Changes)
    /\ holder \in Tokens \union {NoToken}
    /\ toggles # <<>> => holder \in Tokens
    /\ requested \in 0 .. MaxSends
    /\ standing \in [Senders -> SUBSET Levels]
    /\ took \in [Senders -> SUBSET Types]
    /\ serious \in [Workspaces -> SUBSET Spellings]

Init ==
    /\ global = {} /\ workspace = [w \in Workspaces |-> [a \in Spellings |-> "none"]]
    /\ slugOf = FirstSlug /\ deleted = {} /\ bulk = FirstBulk /\ edits = 0
    /\ subs = [w \in Workspaces |-> [t \in Types |-> "none"]]
    /\ tokens = {} /\ requested = 0
    /\ pc = [s \in Senders |-> "idle"] /\ req = [s \in Senders |-> NoRequest]
    /\ reason = [s \in Senders |-> "none"] /\ link = [s \in Senders |-> {}]
    /\ toggles = <<>> /\ holder = NoToken
    /\ standing = [s \in Senders |-> {}] /\ took = [s \in Senders |-> {}]
    /\ serious = [w \in Workspaces |-> {}]

(***************************************************************************)
(* Template types: a workspace's own type hides the _system type with the  *)
(* same slug.  A set with at most one member stands for "found or not".    *)
(***************************************************************************)
FindTypeBySlugInScope(slug, ws) ==
    {t \in Types \ deleted : slugOf[t] = slug /\ Scope[t] = ws}

GetTypeBySlug(slug, ws) ==
    LET own == FindTypeBySlugInScope(slug, ws)
    IN  IF own # {} THEN own ELSE FindTypeBySlugInScope(slug, System)

(* The unique index on (slug, workspace_id); it counts the deleted rows too. *)
IsFree(slug, t) ==
    \A u \in Types \ {t} : ~(slugOf[u] = slug /\ Scope[u] = Scope[t])

(* PUT and DELETE reach the workspace's own types only.  A PUT writes the     *)
(* whole row, so also what another PUT has changed since it was read.         *)
CreateType(t, slug, isBulk) ==
    /\ edits < MaxTypeEdits /\ slugOf[t] = NoSlug /\ IsFree(slug, t)
    /\ slugOf' = [slugOf EXCEPT ![t] = slug]
    /\ bulk' = IF isBulk THEN bulk \union {t} ELSE bulk \ {t}
    /\ edits' = edits + 1 /\ UNCHANGED deleted

UpdateType(t, slug, isBulk) ==
    /\ edits < MaxTypeEdits /\ slugOf[t] # NoSlug /\ t \notin deleted /\ IsFree(slug, t)
    /\ slugOf' = [slugOf EXCEPT ![t] = slug]
    /\ bulk' = IF isBulk THEN bulk \union {t} ELSE bulk \ {t}
    /\ edits' = edits + 1 /\ UNCHANGED deleted

SoftDeleteType(t) ==
    /\ edits < MaxTypeEdits /\ slugOf[t] # NoSlug /\ t \notin deleted
    /\ deleted' = deleted \union {t}
    /\ edits' = edits + 1 /\ UNCHANGED <<slugOf, bulk>>

(***************************************************************************)
(* The stores.                                                             *)
(***************************************************************************)
AddGlobal(addr) == global' = global \union {addr}

\* Mutant: the row takes whatever reason comes last.
AddWorkspace_Overwrites(ws, addr, why) ==
    workspace' = [workspace EXCEPT ![ws][addr] = why]

(* A row blocked for a serious reason is left as it is. *)
AddWorkspace(ws, addr, why) ==
    workspace' = IF workspace[ws][addr] \in Serious THEN workspace
                 ELSE [workspace EXCEPT ![ws][addr] = why]

RemoveWorkspaceSuppression(ws, addr) ==
    workspace' = IF workspace[ws][addr] # "unsubscribe" THEN workspace
                 ELSE [workspace EXCEPT ![ws][addr] = "none"]

(* Subscription rows only ever come from tokens, whose address is canonical. *)
Upsert(ws, type, subscribed) ==
    subs' = [subs EXCEPT ![ws][type] = IF subscribed THEN "in" ELSE "out"]

IsListed(ws, addr) == addr \in global \/ workspace[ws][addr] # "none"

(* The blocks a send of this type to this recipient should run into. *)
InForce(ws, type) ==
    {l \in Levels : \/ l = "global" /\ Lower \in global
                    \/ l = "workspace" /\ workspace[ws][Lower] # "none"
                    \/ l = "type" /\ subs[ws][type] = "out"}

(***************************************************************************)
(* A send, from the request to the provider and back.                      *)
(***************************************************************************)
Move(s, step) ==
    /\ pc' = [pc EXCEPT ![s] = step]
    /\ UNCHANGED <<req, requested>>

Drop(s) ==
    /\ pc' = [pc EXCEPT ![s] = "idle"]
    /\ req' = [req EXCEPT ![s] = NoRequest]
    /\ reason' = [reason EXCEPT ![s] = "none"]
    /\ link' = [link EXCEPT ![s] = {}]
    /\ UNCHANGED requested

Request(s, ws, slug, to) ==
    /\ pc[s] = "idle" /\ requested < MaxSends
    /\ \E t \in GetTypeBySlug(slug, ws) :
         req' = [req EXCEPT ![s] = [ws |-> ws, slug |-> slug, type |-> t, to |-> to]]
    /\ pc' = [pc EXCEPT ![s] = "lists"]
    /\ requested' = requested + 1
    /\ UNCHANGED <<listVars, tokens, formVars, reason, link>>

\* Mutant: the lists are asked for the address as the request spells it.
CheckBatch_AsSpelled(s) ==
    /\ pc[s] = "lists"
    /\ reason' = [reason EXCEPT ![s] = IF IsListed(req[s].ws, req[s].to) THEN "listed"
                                       ELSE "none"]
    /\ Move(s, "types")
    /\ UNCHANGED <<listVars, tokens, formVars, link>>

(* Evaluate: one query over both lists, for the canonical address. *)
CheckBatch(s) ==
    /\ pc[s] = "lists"
    /\ reason' = [reason EXCEPT ![s] = IF IsListed(req[s].ws, Lower) THEN "listed" ELSE "none"]
    /\ Move(s, "types")
    /\ UNCHANGED <<listVars, tokens, formVars, link>>

(* Only the recipients that no list holds are looked up here. *)
BatchCheckOptOut(s) ==
    /\ pc[s] = "types"
    /\ reason' = [reason EXCEPT ![s] = IF @ = "none" /\ subs[req[s].ws][req[s].type] = "out"
                                       THEN "type_optout" ELSE @]
    /\ Move(s, "create")
    /\ UNCHANGED <<listVars, tokens, formVars, link>>

(* A row is written for a suppressed recipient too. *)
Persist(s) ==
    /\ pc[s] = "create"
    /\ \/ reason[s] = "none" /\ Move(s, "queued") /\ UNCHANGED <<reason, link>>
       \/ reason[s] # "none" /\ Drop(s)
    /\ UNCHANGED <<listVars, tokens, formVars>>

(* Any of these queries may fail: the recipient or the whole send is refused. *)
Refuse(s) ==
    /\ pc[s] \in {"lists", "types", "create"}
    /\ Drop(s)
    /\ UNCHANGED <<listVars, tokens, formVars>>

(* The worker's last look, again for the canonical address; when the query    *)
(* fails the email goes out.                                                  *)
IsSuppressed(s) ==
    /\ pc[s] = "queued"
    /\ \/ IsListed(req[s].ws, Lower) /\ Drop(s)
       \/ \E failed \in BOOLEAN : /\ failed \/ ~IsListed(req[s].ws, Lower)
                                 /\ Move(s, "deliver") /\ UNCHANGED <<reason, link>>
    /\ UNCHANGED <<listVars, tokens, formVars>>

(* The link written into an email: to these types, at most one. *)
Unsubscribe(s, types) ==
    /\ tokens' = tokens \union [ws : {req[s].ws}, type : types]
    /\ link' = [link EXCEPT ![s] = types]

\* Mutant: the tenant's type is preferred to the workspace's own.
Deliver_SystemFirst(s) ==
    LET sys   == FindTypeBySlugInScope(req[s].slug, System)
        found == IF sys # {} THEN sys ELSE FindTypeBySlugInScope(req[s].slug, req[s].ws)
    IN  /\ pc[s] = "deliver"
        /\ Unsubscribe(s, found \intersect bulk)
        /\ Move(s, "sent")
        /\ UNCHANGED <<listVars, formVars, reason>>

(* The worker looks the email's slug up in the email's workspace alone; a     *)
(* bulk type puts an unsubscribe link into the email.  Without the type, the  *)
(* workspace's key or a token the email goes out without one.                 *)
Deliver(s) ==
    /\ pc[s] = "deliver"
    /\ \E found \in {FindTypeBySlugInScope(req[s].slug, req[s].ws), {}} :
         Unsubscribe(s, found \intersect bulk)
    /\ Move(s, "sent")
    /\ UNCHANGED <<listVars, formVars, reason>>

(* handleSuppression stores the recipient as the send spelled it. *)
HardBounce(s) ==
    /\ pc[s] = "sent"
    /\ AddGlobal(req[s].to)
    /\ Drop(s)
    /\ UNCHANGED <<workspace, subs, serious, tokens, formVars>>

Complaint(s) ==
    /\ pc[s] = "sent"
    /\ AddWorkspace(req[s].ws, req[s].to, "complaint")
    /\ serious' = [serious EXCEPT ![req[s].ws] = @ \union {req[s].to}]
    /\ Drop(s)
    /\ UNCHANGED <<global, subs, tokens, formVars>>

NoComplaint(s) ==
    /\ pc[s] = "sent"
    /\ Drop(s)
    /\ UNCHANGED <<listVars, tokens, formVars>>

(***************************************************************************)
(* The suppression API.  A removal is the superadmin's and reaches the     *)
(* global list only.                                                       *)
(***************************************************************************)
Add(ws, addr, why) ==
    /\ AddWorkspace(ws, addr, why)
    /\ serious' = [serious EXCEPT ![ws] = @ \union {addr}]
    /\ UNCHANGED <<global, subs, tokens, formVars, sendVars>>

Remove(addr) ==
    /\ addr \in global
    /\ global' = global \ {addr}
    /\ UNCHANGED <<workspace, subs, serious, tokens, formVars, sendVars>>

(***************************************************************************)
(* The unsubscribe link.  A token names the workspace, the type by its id  *)
(* and the canonical address.                                              *)
(***************************************************************************)
OneClickOptOut(tok) ==
    /\ tok.type \notin deleted
    /\ Upsert(tok.ws, tok.type, FALSE)
    /\ UNCHANGED <<global, workspace, serious, tokens, formVars, sendVars>>

OptOutAll(tok) ==
    /\ AddWorkspace(tok.ws, Lower, "unsubscribe")
    /\ UNCHANGED <<global, subs, serious, tokens, formVars, sendVars>>

Resubscribe(tok) ==
    /\ RemoveWorkspaceSuppression(tok.ws, Lower)
    /\ UNCHANGED <<global, subs, serious, tokens, formVars, sendVars>>

(* The preference centre's form. *)
SubmitPreferences(tok, changes) ==
    /\ toggles = <<>>
    /\ holder' = tok
    /\ toggles' = changes
    /\ UNCHANGED <<listVars, tokens, sendVars>>

(* One toggle at a time, in order.  The slug is looked up in the workspace   *)
(* alone; an unknown one ends the request with what is already applied.      *)
UpdatePreferences ==
    /\ toggles # <<>>
    /\ LET found == FindTypeBySlugInScope(Head(toggles).slug, holder.ws)
       IN  \/ \E t \in found : /\ Upsert(holder.ws, t, Head(toggles).subscribed)
                               /\ toggles' = Tail(toggles)
                               /\ UNCHANGED holder
           \/ found = {} /\ toggles' = <<>> /\ holder' = NoToken /\ UNCHANGED subs
    /\ UNCHANGED <<global, workspace, serious, tokens, sendVars>>

(* The database fails between two toggles. *)
PreferencesFail ==
    /\ toggles # <<>>
    /\ toggles' = <<>> /\ holder' = NoToken
    /\ UNCHANGED <<listVars, tokens, sendVars>>

(***************************************************************************)
(* What stood in the way of each send at its request and ever since, and   *)
(* which types of its workspace took its slug in the meantime.             *)
(***************************************************************************)
Track ==
    /\ standing' = [s \in Senders |->
        IF pc'[s] = "idle" THEN {}
        ELSE IF pc[s] = "idle" THEN InForce(req'[s].ws, req'[s].type)
        ELSE standing[s] \intersect InForce(req[s].ws, req[s].type)']
    /\ took' = [s \in Senders |->
        IF pc[s] = "idle" \/ pc'[s] = "idle" THEN {}
        ELSE took[s] \union (FindTypeBySlugInScope(req[s].slug, req[s].ws)'
                              \ FindTypeBySlugInScope(req[s].slug, req[s].ws))]

Sequence(n) == UNION {[1 .. k -> Changes] : k \in 1 .. n}

SendStep ==
    \E s \in Senders :
      \/ \E ws \in Workspaces, slug \in Slugs, to \in Spellings : Request(s, ws, slug, to)
      \/ CheckBatch(s) \/ BatchCheckOptOut(s) \/ Persist(s) \/ Refuse(s)
      \/ IsSuppressed(s) \/ Deliver(s)
      \/ HardBounce(s) \/ Complaint(s) \/ NoComplaint(s)

AdminStep ==
    \/ \E ws \in Workspaces, a \in Spellings, r \in Serious : Add(ws, a, r)
    \/ \E a \in Spellings : Remove(a)

RecipientStep ==
    \/ \E tok \in tokens :
         \/ OneClickOptOut(tok) \/ OptOutAll(tok) \/ Resubscribe(tok)
         \/ \E changes \in Sequence(MaxChanges) : SubmitPreferences(tok, changes)
    \/ UpdatePreferences \/ PreferencesFail

TypeStep ==
    /\ \E t \in Types :
         \/ \E slug \in Slugs, isBulk \in BOOLEAN :
              CreateType(t, slug, isBulk) \/ UpdateType(t, slug, isBulk)
         \/ SoftDeleteType(t)
    /\ UNCHANGED <<listVars, tokens, formVars, sendVars>>

Next ==
    /\ \/ (SendStep \/ AdminStep \/ RecipientStep) /\ UNCHANGED typeVars
       \/ TypeStep
    /\ Track

Spec == Init /\ [][Next]_vars

(***************************************************************************)
(* Properties.                                                             *)
(***************************************************************************)

(* A block (global list, workspace list or opt-out of the type, under the   *)
(* canonical address) that stood when the send was requested and was never  *)
(* lifted keeps the send from being queued, although the lists and the      *)
(* opt-outs are read by two queries with everyone else's changes between    *)
(* (EvaluateForType, send_suppression.go).                                  *)
StandingBlocksHold ==
    \A s \in Senders : pc[s] \in {"queued", "deliver", "sent"} => standing[s] = {}

(* Once a complaint or an administrator has blocked an address in a         *)
(* workspace, no later opt-out, re-subscription, complaint or API call      *)
(* turns the row into one the recipient could lift (AddWorkspace and        *)
(* RemoveWorkspaceSuppression, suppression_repo.go).                        *)
SeriousIsPermanent ==
    \A ws \in Workspaces : \A addr \in serious[ws] : workspace[ws][addr] \in Serious

(* The link in an email opts out of the very type the send was evaluated    *)
(* for, or of one that took the email's slug in its workspace since: the    *)
(* worker looks the slug up again, in another chain than the send service   *)
(* did and after any number of creations, renamings and deletions of types  *)
(* (send_worker.go, step 5).                                                *)
LinkNamesTheType ==
    \A s \in Senders : pc[s] = "sent" => link[s] \subseteq {req[s].type} \union took[s]
=============================================================================
