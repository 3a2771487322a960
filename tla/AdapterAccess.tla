---------------------------- MODULE AdapterAccess ----------------------------
(***************************************************************************)
(* Which workspace may send through which adapter and from which sender    *)
(* identity: the grants that _system gives its workspaces (internal/       *)
(* service/adapter_access.go, postgres/adapter_access_repo.go), the        *)
(* identities of an adapter (service/identity.go, postgres/                *)
(* adapter_identity_repo.go), the selection a template type makes of them  *)
(* (http/handler/template_type.go) and the check of that selection by a    *)
(* send (service/send.go).                                                 *)
(*                                                                         *)
(* Nothing is locked between the queries of a request, so every query is a *)
(* step and requests interleave everywhere.  One tenant in one             *)
(* environment; one template type for each workspace.                      *)
(***************************************************************************)
EXTENDS Naturals

CONSTANTS System,      \* the tenant's _system workspace
          Global,      \* owner of the adapters without a workspace
          Workspaces,  \* the other workspaces
          Adapters, KindOf, OwnerOf,
          Idents, AdapterOf,   \* email identities, by id, and their adapter_id
          Domain,      \* the domain identity of an adapter
          None, Keep,
          SeedIdents,  \* identities that are there at the start
          Procs,       \* concurrent requests
          MaxRequests  \* bound: requests of a behaviour

ASSUME AccessAssumption ==
    /\ System \notin Workspaces /\ Global \notin Workspaces /\ Global # System
    /\ KindOf \in [Adapters -> {"gmail", "ses", "smtp"}]
    /\ OwnerOf \in [Adapters -> Workspaces \cup {System, Global}]
    /\ AdapterOf \in [Idents -> Adapters]
    /\ None \notin Adapters \cup Idents /\ Keep \notin Adapters \cup Idents /\ Keep # None
    /\ Domain \notin Idents /\ Domain # None
    /\ SeedIdents \subseteq Idents
    /\ MaxRequests \in Nat

Scopes == Workspaces \cup {System}   \* each owns one template type
Selections == [adapter : Adapters \cup {None}, sender : Idents \cup {None}]
Patches == [adapter : Adapters \cup {None, Keep}, sender : Idents \cup {None, Keep}]
Statuses == {"absent", "pending", "verified"}
Nothing == [adapter |-> None, sender |-> None]

VARIABLES live,      \* adapters that are not deleted
          ident,     \* email identities: not created yet, there, deleted
          domain,    \* status of the domain identity on record
          provider,  \* status of the domain at the provider
          default,   \* the default identity of an adapter
          agrant,    \* adapter_workspace_grants
          igrant,    \* adapter_identity_workspace_grants
          sel,       \* adapter and sender of each template type
          former,    \* selections that a cached template may still carry
          proc, requests,
          raced      \* history: workspaces whose last selection overlapped a
                     \* replacement of the grant it needs

identVars == <<ident, domain, provider, default>>
grantVars == <<agrant, igrant>>
selVars == <<sel, former, raced>>
vars == <<live, ident, domain, provider, default, agrant, igrant, sel, former, proc, requests, raced>>

\* "revoked" are the grants that a replacement takes away: those it found listed,
\* from its DELETE on the rows it deleted.
\* "barred" and "dead" are history variables.  A send is barred while its selection
\* has not been granted to the workspace at any moment since the request began,
\* an assignment when the grant was replaced after it was read; a send is dead
\* whose adapter was deleted before it began.
Idle == [pc |-> "idle", kind |-> "none", scope |-> System, typ |-> System, sel |-> Nothing,
         wanted |-> {}, revoked |-> {}, seen |-> "absent", from |-> None,
         barred |-> FALSE, dead |-> FALSE]

Pcs == {"idle", "resolve", "adapter", "sender", "grant", "write", "from", "accepted",
        "list", "usage", "replace", "commit", "verify", "insert", "fetch", "upsert", "stale"}
Kinds == {"none", "assign", "send", "adapterGrants", "identityGrants", "create", "sync"}

TypeOK ==
    /\ live \subseteq Adapters
    /\ ident \in [Idents -> {"new", "present", "gone"}]
    /\ domain \in [Adapters -> Statuses] /\ provider \in [Adapters -> Statuses]
    /\ default \in [Adapters -> Idents \cup {None, Domain}]
    /\ agrant \in [Adapters -> SUBSET Workspaces]
    /\ igrant \in [Idents -> SUBSET Workspaces]
    /\ sel \in [Scopes -> Selections]
    /\ former \in [Scopes -> SUBSET Selections]
    /\ proc \in [Procs -> [pc : Pcs, kind : Kinds, scope : Scopes, typ : Scopes, sel : Selections,
                           wanted : SUBSET Workspaces, revoked : SUBSET Workspaces,
                           seen : Statuses, from : Idents \cup {None},
                           barred : BOOLEAN, dead : BOOLEAN]]
    /\ requests \in 0..MaxRequests
    /\ raced \subseteq Workspaces

\* SES and SMTP adapters are shared by the identity, Gmail
\* ones as a whole.
usesIdentityGrants(a) == KindOf[a] \in {"ses", "smtp"}

\* One workspace has been given all that _system has to share.
Init ==
    /\ live = Adapters
    /\ ident = [i \in Idents |-> IF i \in SeedIdents THEN "present" ELSE "new"]
    /\ domain = [a \in Adapters |-> "absent"] /\ provider = [a \in Adapters |-> "verified"]
    /\ default = [a \in Adapters |-> None]
    /\ \E ws \in Workspaces :
         /\ agrant = [a \in Adapters |->
              IF OwnerOf[a] = System /\ ~usesIdentityGrants(a) THEN {ws} ELSE {}]
         /\ igrant = [i \in Idents |->
              IF /\ i \in SeedIdents /\ OwnerOf[AdapterOf[i]] = System
                 /\ usesIdentityGrants(AdapterOf[i])
              THEN {ws} ELSE {}]
    /\ sel = [t \in Scopes |-> Nothing] /\ former = [t \in Scopes |-> {Nothing}]
    /\ proc = [p \in Procs |-> Idle] /\ requests = 0 /\ raced = {}

-----------------------------------------------------------------------------
(* Building blocks *)

\* What ValidateTemplateTypeSelection asks for, as of one state.
Granted(ag, ig, ws, s) ==
    \/ OwnerOf[s.adapter] \in {Global, ws}
    \/ /\ OwnerOf[s.adapter] = System
       /\ IF usesIdentityGrants(s.adapter)
          THEN s.sender # None /\ ws \in ig[s.sender]
          ELSE ws \in ag[s.adapter]

Begin(p, r) ==
    /\ proc[p].pc = "idle"
    /\ requests < MaxRequests /\ requests' = requests + 1
    /\ proc' = [proc EXCEPT ![p] = r]
    /\ UNCHANGED <<live, identVars, grantVars, selVars>>

Go(p, pc) == proc' = [proc EXCEPT ![p].pc = pc]
End(p) == proc' = [proc EXCEPT ![p] = Idle]
Reads == UNCHANGED <<live, identVars, grantVars, selVars, requests>>

\* A request that fails at a query, or is cancelled, ends there.
Fail(p) == proc[p].pc # "idle" /\ End(p) /\ Reads

-----------------------------------------------------------------------------
(* ValidateTemplateTypeSelection, for an assignment and for a send *)

Validated(p) == IF proc[p].kind = "assign" THEN "write" ELSE "from"

ReadAdapter_Cached(p) ==
    LET s == proc[p].sel  ws == proc[p].scope IN
    /\ proc[p].pc = "adapter"
    /\ \/ /\ s.adapter = None \/ ws = System
          /\ Go(p, Validated(p))
       \/ /\ s.adapter # None /\ ws # System /\ (s.adapter \in live \/ proc[p].kind = "send")
          /\ \/ OwnerOf[s.adapter] \in {Global, ws} /\ Go(p, "sender")
             \/ OwnerOf[s.adapter] = System /\ ~usesIdentityGrants(s.adapter) /\ Go(p, "grant")
             \/ OwnerOf[s.adapter] = System /\ usesIdentityGrants(s.adapter) /\ s.sender # None
                /\ Go(p, "sender")
    /\ Reads

ReadAdapter(p) ==
    LET s == proc[p].sel  ws == proc[p].scope IN
    /\ proc[p].pc = "adapter"
    /\ \/ /\ s.adapter = None \/ ws = System
          /\ Go(p, Validated(p))
       \/ /\ s.adapter # None /\ ws # System /\ s.adapter \in live
          /\ \/ OwnerOf[s.adapter] \in {Global, ws} /\ Go(p, "sender")
             \/ OwnerOf[s.adapter] = System /\ ~usesIdentityGrants(s.adapter) /\ Go(p, "grant")
             \/ OwnerOf[s.adapter] = System /\ usesIdentityGrants(s.adapter) /\ s.sender # None
                /\ Go(p, "sender")
    /\ Reads

\* validateSenderIdentity; a domain is no sender.
ReadSender(p) ==
    LET s == proc[p].sel IN
    /\ proc[p].pc = "sender"
    /\ s.sender # None => ident[s.sender] = "present" /\ AdapterOf[s.sender] = s.adapter
    /\ Go(p, IF OwnerOf[s.adapter] = System /\ usesIdentityGrants(s.adapter)
             THEN "grant" ELSE Validated(p))
    /\ Reads

\* HasAdapterWorkspaceGrant before, HasIdentityWorkspaceGrant after the sender.
ReadGrant(p) ==
    LET s == proc[p].sel IN
    /\ proc[p].pc = "grant"
    /\ IF usesIdentityGrants(s.adapter)
       THEN proc[p].scope \in igrant[s.sender] /\ Go(p, Validated(p))
       ELSE proc[p].scope \in agrant[s.adapter] /\ Go(p, "sender")
    /\ Reads

-----------------------------------------------------------------------------
(* Assigning adapter and sender to the template type of a scope *)

Patched(old, new) == IF new = Keep THEN old ELSE new

\* Clearing the adapter clears the sender, unless the request names one.
applyTemplateTypeUpdateRequest(s, patch) ==
    LET base == IF patch.adapter = None THEN None ELSE s.sender IN
    [adapter |-> Patched(s.adapter, patch.adapter), sender |-> Patched(base, patch.sender)]

\* Only _system and the owner reach a type for writing; it is read at the start.
assign(p, t, patch) ==
    Begin(p, [Idle EXCEPT !.pc = "adapter", !.kind = "assign", !.scope = t, !.typ = t,
                          !.sel = applyTemplateTypeUpdateRequest(sel[t], patch)])

Needs(s, kind, x) ==
    IF kind = "adapterGrants" THEN s.adapter = x.adapter ELSE s.sender # None /\ s.sender = x.sender

\* A replacement of the grant this assignment needs is under way, or ended after
\* the grant was read.
Overlapped(p) ==
    \/ proc[p].barred
    \/ \E q \in Procs : /\ proc[q].pc \in {"usage", "replace", "commit"}
                        /\ Needs(proc[p].sel, proc[q].kind, proc[q].sel)

UpdateType_Merges(p) ==
    LET t == proc[p].typ  s == proc[p].sel
        merged == [adapter |-> IF s.adapter = None THEN sel[t].adapter ELSE s.adapter,
                   sender |-> IF s.sender = None THEN sel[t].sender ELSE s.sender] IN
    /\ proc[p].pc = "write"
    /\ s.sender # None => ident[s.sender] = "present"
    /\ sel' = [sel EXCEPT ![t] = merged]
    /\ former' = [former EXCEPT ![t] = @ \cup {merged}]
    /\ raced' = IF t \in Workspaces /\ Overlapped(p) THEN raced \cup {t} ELSE raced \ {t}
    /\ End(p)
    /\ UNCHANGED <<live, identVars, grantVars, requests>>

\* The row is written as a whole, with both columns as they were validated; the
\* foreign key refuses a sender that has been deleted meanwhile.
UpdateType(p) ==
    LET t == proc[p].typ  s == proc[p].sel IN
    /\ proc[p].pc = "write"
    /\ s.sender # None => ident[s.sender] = "present"
    /\ sel' = [sel EXCEPT ![t] = s]
    /\ former' = [former EXCEPT ![t] = @ \cup {s}]
    /\ raced' = IF t \in Workspaces /\ Overlapped(p) THEN raced \cup {t} ELSE raced \ {t}
    /\ End(p)
    /\ UNCHANGED <<live, identVars, grantVars, requests>>

-----------------------------------------------------------------------------
(* A send of a workspace's own or of the inherited type *)

\* The resolved template may come from the cache.
send(p, ws, t) ==
    \E s \in former[t] :
      /\ t \in {ws, System}
      /\ s.adapter # None
      /\ Begin(p, [Idle EXCEPT !.pc = "resolve", !.kind = "send", !.scope = ws, !.typ = t, !.sel = s,
                               !.barred = ~Granted(agrant, igrant, ws, s),
                               !.dead = s.adapter \notin live])

\* A deleted adapter may still be cached: adapterCacheTTL, never invalidated.
ResolveForTemplateType(p) == proc[p].pc = "resolve" /\ Go(p, "adapter") /\ Reads

\* The selected sender, or the adapter's default if that is an email.
resolveFromEmail(p) ==
    LET s == proc[p].sel IN
    /\ proc[p].pc = "from"
    /\ \E i \in Idents :
         /\ ident[i] = "present"
         /\ i = IF s.sender # None THEN s.sender ELSE default[s.adapter]
         /\ proc' = [proc EXCEPT ![p].pc = "accepted", ![p].from = i]
    /\ Reads

\* The email is queued with this adapter and sender.
Accept(p) == proc[p].pc = "accepted" /\ End(p) /\ Reads

-----------------------------------------------------------------------------
(* Replacing the grants of an adapter or of an identity, from _system *)

ReplaceAdapterWorkspaceAccess(p, a, wanted) ==
    /\ a \in live /\ OwnerOf[a] = System /\ ~usesIdentityGrants(a)
    /\ Begin(p, [Idle EXCEPT !.pc = "list", !.kind = "adapterGrants", !.wanted = wanted,
                             !.sel = [adapter |-> a, sender |-> None]])

ReplaceIdentityWorkspaceAccess(p, i, wanted) ==
    LET a == AdapterOf[i] IN
    /\ a \in live /\ OwnerOf[a] = System /\ usesIdentityGrants(a) /\ ident[i] = "present"
    /\ Begin(p, [Idle EXCEPT !.pc = "list", !.kind = "identityGrants", !.wanted = wanted,
                             !.sel = [adapter |-> a, sender |-> i]])

subtractUUIDs_Swapped(current, desired) == desired \ current

subtractUUIDs(current, desired) == current \ desired

CurrentGrants(p) ==
    IF proc[p].kind = "adapterGrants" THEN agrant[proc[p].sel.adapter] ELSE igrant[proc[p].sel.sender]

ListWorkspaceGrants(p) ==
    LET revoked == subtractUUIDs(CurrentGrants(p), proc[p].wanted) IN
    /\ proc[p].pc = "list"
    /\ proc' = [proc EXCEPT ![p].revoked = revoked,
                            ![p].pc = IF revoked = {} THEN "replace" ELSE "usage"]
    /\ Reads

\* ListWorkspacesUsingAdapter, ListWorkspacesUsingSenderIdentity.
ListWorkspacesUsing(p) ==
    /\ proc[p].pc = "usage"
    /\ \A ws \in proc[p].revoked : ~Needs(sel[ws], proc[p].kind, proc[p].sel)
    /\ Go(p, "replace")
    /\ Reads

\* The transaction is READ COMMITTED: its DELETE takes the rows committed when it
\* starts.
DeleteWorkspaceGrants(p) ==
    /\ proc[p].pc = "replace"
    /\ proc' = [proc EXCEPT ![p].pc = "commit", ![p].revoked = CurrentGrants(p)]
    /\ Reads

\* The other requests, after the replacement of kind k of the grants of x took
\* the rows: sends that are entitled now, assignments whose grant was read
\* already, and overlapping replacements, whose DELETE no longer finds those rows.
Noting(procs, k, x, rows) ==
    [q \in Procs |->
       [procs[q] EXCEPT
          !.revoked = IF procs[q].pc = "commit" /\ procs[q].kind = k /\ procs[q].sel = x
                      THEN @ \ rows ELSE @,
          !.barred =
          \/ /\ procs[q].kind = "send" /\ @
             /\ ~Granted(agrant', igrant', procs[q].scope, procs[q].sel)
          \/ /\ procs[q].kind = "assign"
             /\ \/ @
                \/ /\ Needs(procs[q].sel, k, x)
                   /\ procs[q].pc = "write" \/ (procs[q].pc = "sender" /\ k = "adapterGrants")]]

\* The new grants are inserted beside those that an overlapping replacement
\* committed since the DELETE; the primary key refuses one that is there, the
\* foreign key those of an identity that is gone, and all is undone.
ReplaceWorkspaceGrants(p) ==
    LET x == proc[p].sel  w == proc[p].wanted
        kept == CurrentGrants(p) \ proc[p].revoked IN
    /\ proc[p].pc = "commit"
    /\ kept \cap w = {}
    /\ IF proc[p].kind = "adapterGrants"
       THEN agrant' = [agrant EXCEPT ![x.adapter] = kept \cup w] /\ UNCHANGED igrant
       ELSE /\ w # {} => ident[x.sender] = "present"
            /\ igrant' = [igrant EXCEPT ![x.sender] = kept \cup w] /\ UNCHANGED agrant
    /\ proc' = Noting([proc EXCEPT ![p] = Idle], proc[p].kind, x, proc[p].revoked)
    /\ UNCHANGED <<live, identVars, selVars, requests>>

-----------------------------------------------------------------------------
(* Identities and adapters *)

CreateManual(p, i) ==
    /\ AdapterOf[i] \in live /\ ident[i] = "new"
    /\ Begin(p, [Idle EXCEPT !.pc = IF KindOf[AdapterOf[i]] = "smtp" THEN "insert" ELSE "verify",
                             !.kind = "create", !.from = i])

VerifyDomain(p) ==
    /\ proc[p].pc = "verify"
    /\ domain[AdapterOf[proc[p].from]] = "verified"
    /\ Go(p, "insert") /\ Reads

InsertIdentity(p) ==
    /\ proc[p].pc = "insert" /\ ident[proc[p].from] = "new"
    /\ ident' = [ident EXCEPT ![proc[p].from] = "present"]
    /\ End(p)
    /\ UNCHANGED <<live, domain, provider, default, grantVars, selVars, requests>>

\* Grants go with the identity, selections lose their sender (ON DELETE).
DeleteIdentity(i) ==
    /\ AdapterOf[i] \in live /\ ident[i] = "present"
    /\ requests < MaxRequests /\ requests' = requests + 1
    /\ ident' = [ident EXCEPT ![i] = "gone"]
    /\ igrant' = [igrant EXCEPT ![i] = {}]
    /\ default' = [a \in Adapters |-> IF default[a] = i THEN None ELSE default[a]]
    /\ sel' = [t \in Scopes |-> IF sel[t].sender = i THEN [sel[t] EXCEPT !.sender = None] ELSE sel[t]]
    /\ former' = [t \in Scopes |-> former[t] \cup {sel'[t]}]
    /\ UNCHANGED <<live, domain, provider, agrant, proc, raced>>

\* One transaction; a domain can become the default as well.
SetDefault(a, i) ==
    /\ a \in live
    /\ requests < MaxRequests /\ requests' = requests + 1
    /\ IF i = Domain THEN domain[a] # "absent" ELSE ident[i] = "present" /\ AdapterOf[i] = a
    /\ default' = [default EXCEPT ![a] = i]
    /\ UNCHANGED <<live, ident, domain, provider, grantVars, selVars, proc>>

\* SMTP has no provider to ask.
SyncIdentities(p, a) ==
    /\ a \in live /\ KindOf[a] # "smtp"
    /\ Begin(p, [Idle EXCEPT !.pc = "fetch", !.kind = "sync", !.sel = [adapter |-> a, sender |-> None]])

ListProviderIdentities(p) ==
    /\ proc[p].pc = "fetch"
    /\ proc' = [proc EXCEPT ![p].pc = "upsert", ![p].seen = provider[proc[p].sel.adapter]]
    /\ Reads

UpsertBatch(p) ==
    LET a == proc[p].sel.adapter  seen == proc[p].seen IN
    /\ proc[p].pc = "upsert"
    /\ domain' = [domain EXCEPT ![a] = IF seen = "absent" THEN @ ELSE seen]
    /\ Go(p, "stale")
    /\ UNCHANGED <<live, ident, provider, default, grantVars, selVars, requests>>

\* What the provider did not list is deleted, the default too.
DeleteStale(p) ==
    LET a == proc[p].sel.adapter  gone == proc[p].seen = "absent" IN
    /\ proc[p].pc = "stale"
    /\ domain' = [domain EXCEPT ![a] = IF gone THEN "absent" ELSE @]
    /\ default' = [default EXCEPT ![a] = IF gone /\ @ = Domain THEN None ELSE @]
    /\ End(p)
    /\ UNCHANGED <<live, ident, provider, grantVars, selVars, requests>>

\* External: the domain at the provider.
ProviderChanges(a, st) ==
    /\ requests < MaxRequests /\ requests' = requests + 1
    /\ provider[a] # st /\ provider' = [provider EXCEPT ![a] = st]
    /\ UNCHANGED <<live, ident, domain, default, grantVars, selVars, proc>>

\* Grants, identities and selections of a deleted adapter stay.
SoftDelete(a) ==
    /\ a \in live
    /\ requests < MaxRequests /\ requests' = requests + 1
    /\ live' = live \ {a}
    /\ UNCHANGED <<identVars, grantVars, selVars, proc>>

-----------------------------------------------------------------------------
RequestNext(p) ==
    \/ \E t \in Scopes, patch \in Patches : assign(p, t, patch)
    \/ \E ws \in Scopes, t \in Scopes : send(p, ws, t)
    \/ \E a \in Adapters, w \in SUBSET Workspaces : ReplaceAdapterWorkspaceAccess(p, a, w)
    \/ \E i \in Idents, w \in SUBSET Workspaces : ReplaceIdentityWorkspaceAccess(p, i, w)
    \/ \E i \in Idents : CreateManual(p, i)
    \/ \E a \in Adapters : SyncIdentities(p, a)

StepNext(p) ==
    \/ Fail(p) \/ ReadAdapter(p) \/ ReadSender(p) \/ ReadGrant(p) \/ UpdateType(p)
    \/ ResolveForTemplateType(p) \/ resolveFromEmail(p) \/ Accept(p)
    \/ ListWorkspaceGrants(p) \/ ListWorkspacesUsing(p)
    \/ DeleteWorkspaceGrants(p) \/ ReplaceWorkspaceGrants(p)
    \/ VerifyDomain(p) \/ InsertIdentity(p)
    \/ ListProviderIdentities(p) \/ UpsertBatch(p) \/ DeleteStale(p)

Next ==
    \/ \E p \in Procs : RequestNext(p) \/ StepNext(p)
    \/ \E i \in Idents : DeleteIdentity(i)
    \/ \E a \in Adapters : \/ \E i \in Idents \cup {Domain} : SetDefault(a, i)
                           \/ \E st \in Statuses : ProviderChanges(a, st)
                           \/ SoftDelete(a)

Spec == Init /\ [][Next]_vars

-----------------------------------------------------------------------------
(* Properties *)

\* An email of a workspace is accepted only for an adapter that was there, and a
\* grant that stood, at some moment of its request, although selection and
\* adapter may come from a cache and the reads of the check are separate; and it
\* goes out from an identity of that adapter (Send, ValidateTemplateTypeSelection,
\* resolveFromEmail).
SendsWereGranted ==
    \A p \in Procs : proc[p].pc = "accepted" =>
      /\ proc[p].scope # System => ~proc[p].barred /\ ~proc[p].dead
      /\ AdapterOf[proc[p].from] = proc[p].sel.adapter \/ proc[p].scope = System

\* A grant in use is not taken away: what a workspace's type selects of _system
\* is granted to it, unless its assignment overlapped a replacement of that grant
\* (ReplaceAdapterWorkspaceAccess, ReplaceIdentityWorkspaceAccess).
InUseIsGranted ==
    \A ws \in Workspaces :
      sel[ws].adapter # None /\ ws \notin raced =>
        \/ Granted(agrant, igrant, ws, sel[ws])
        \/ usesIdentityGrants(sel[ws].adapter) /\ sel[ws].sender = None

\* The sender of a workspace's type is there and is one of its adapter, under
\* overlapping updates and deletions (validateSenderIdentity, ON DELETE SET NULL).
SelectionIsCoherent ==
    \A ws \in Workspaces :
      sel[ws].adapter # None /\ sel[ws].sender # None =>
        ident[sel[ws].sender] = "present" /\ AdapterOf[sel[ws].sender] = sel[ws].adapter
=============================================================================
