--------------------------- MODULE TemplateCatalog ---------------------------
(***************************************************************************)
(* The catalogue of one tenant environment: template types, templates,     *)
(* their versions and locales, and the administration requests that change *)
(* them (internal/http/handler/template.go, template_type.go, the services *)
(* behind them and internal/adapter/postgres/template_repo.go).            *)
(*                                                                         *)
(* A request runs in steps: the access check of the handler, where the     *)
(* service reads first that read, the write, and the invalidation of the   *)
(* resolution cache where the handler asks for it (TemplateResolution).    *)
(* Rows have a "state" that is "absent" before the insert; both deletions  *)
(* keep the id taken.  Names, subjects and version numbers are left out;   *)
(* a version's content is one member of Bodies.                            *)
(***************************************************************************)
EXTENDS Integers

CONSTANTS Workspaces, System,          \* the workspaces; System is `_system`
          Slugs, TypeIds, TemplateIds, VersionIds, Bodies, Locales,
          Admins,                      \* concurrent administration requests
          MaxRequests,                 \* bound: requests and failed locale reads
          SeedSlug, SeedType, SeedTemplate, SeedVersion, SeedDrafts, SeedBody, SeedLocale

ASSUME CatalogAssumption ==
    /\ System \in Workspaces
    /\ SeedSlug \in Slugs /\ SeedType \in TypeIds /\ SeedTemplate \in TemplateIds
    /\ SeedVersion \in VersionIds /\ SeedDrafts \subseteq VersionIds
    /\ SeedBody \in Bodies /\ SeedLocale \in Locales
    /\ MaxRequests \in Nat

VARIABLES typ,       \* template_types: state, slug, owning workspace
          tpl,       \* templates: state, type, owning workspace, is_disabled, is_fork
          ver,       \* template_versions with the set of their locale overrides
          policy,    \* what the system workspace allows: "local", "forks"
          adm,       \* the administration requests in progress
          requests   \* how many were made

rows == <<typ, tpl, ver, policy>>
catalogVars == <<typ, tpl, ver, policy, adm, requests>>

Ops == {"none", "createType", "updateType", "deleteType", "createTemplate", "fork",
        "setDisabled", "deleteTemplate", "createVersion", "updateVersion", "clone",
        "publish", "deleteVersion", "setLocale", "deleteLocale"}

Policies == {"local", "forks"}

Idle == [pc |-> "idle", op |-> "none", ws |-> System, slug |-> SeedSlug,
         typ |-> SeedType, tpl |-> SeedTemplate, ver |-> SeedVersion,
         body |-> SeedBody, loc |-> SeedLocale, off |-> FALSE]

RowStates == {"absent", "live", "deleted"}
VersionStatuses == {"absent", "draft", "published", "archived", "deleted"}

CatalogTypeOK ==
    /\ typ \in [TypeIds -> [state : RowStates, slug : Slugs, ws : Workspaces]]
    /\ tpl \in [TemplateIds -> [state : RowStates, type : TypeIds, ws : Workspaces,
                                disabled : BOOLEAN, fork : BOOLEAN]]
    /\ ver \in [VersionIds -> [status : VersionStatuses, tpl : TemplateIds,
                               body : Bodies, locs : SUBSET Locales]]
    /\ policy \in SUBSET Policies
    /\ adm \in [Admins -> [pc : {"idle", "check", "write", "invalidate"}, op : Ops,
                           ws : Workspaces, slug : Slugs, typ : TypeIds, tpl : TemplateIds,
                           ver : VersionIds, body : Bodies, loc : Locales, off : BOOLEAN]]
    /\ requests \in Nat

\* `_system` offers one type with one template, its published version and some
\* drafts: what earlier requests leave behind.
CatalogInit ==
    /\ typ = [t \in TypeIds |-> [state |-> IF t = SeedType THEN "live" ELSE "absent",
                                 slug |-> SeedSlug, ws |-> System]]
    /\ tpl = [p \in TemplateIds |-> [state |-> IF p = SeedTemplate THEN "live" ELSE "absent",
                                     type |-> SeedType, ws |-> System,
                                     disabled |-> FALSE, fork |-> FALSE]]
    /\ ver = [v \in VersionIds |-> [status |-> IF v = SeedVersion THEN "published"
                                              ELSE IF v \in SeedDrafts THEN "draft" ELSE "absent",
                                    tpl |-> SeedTemplate, body |-> SeedBody, locs |-> {}]]
    /\ policy = Policies
    /\ adm = [a \in Admins |-> Idle]
    /\ requests = 0

-----------------------------------------------------------------------------
(* Queries *)

\* The live types with this slug in one scope; the schema's unique key on
\* (slug, workspace) leaves at most one.
FindTypeBySlugInScope(s, w) ==
    {t \in TypeIds : typ[t].state = "live" /\ typ[t].slug = s /\ typ[t].ws = w}

\* Nearest scope first: the workspace's own type hides the one of `_system`.
GetTypeBySlug(s, w) ==
    IF FindTypeBySlugInScope(s, w) # {} THEN FindTypeBySlugInScope(s, w)
    ELSE FindTypeBySlugInScope(s, System)

GetByTypeAndScope(t, w) ==
    {p \in TemplateIds : tpl[p].state = "live" /\ tpl[p].type = t /\ tpl[p].ws = w}

ResolveTemplate(t, w) ==
    IF GetByTypeAndScope(t, w) # {} THEN GetByTypeAndScope(t, w)
    ELSE GetByTypeAndScope(t, System)

GetPublishedVersion(p) == {v \in VersionIds : ver[v].tpl = p /\ ver[v].status = "published"}

ListVersions(p) ==
    {v \in VersionIds : ver[v].tpl = p /\ ver[v].status \in {"draft", "published", "archived"}}

\* Both unique keys of the schema count soft-deleted rows.
SlugTaken(s, w) == \E t \in TypeIds : typ[t].state # "absent" /\ typ[t].slug = s /\ typ[t].ws = w
TemplateTaken(t, w) == \E p \in TemplateIds : tpl[p].state # "absent" /\ tpl[p].type = t /\ tpl[p].ws = w

templateVisibleInWorkspace(p, w) == tpl[p].ws \in {w, System}

\* The policy that governs a template: forks have their own.
PolicyOf(p) == IF tpl[p].fork THEN "forks" ELSE "local"

loadWorkspaceTemplateAccess(w, p) ==
    tpl[p].state = "live" /\ templateVisibleInWorkspace(p, w)

requireMutableWorkspaceTemplate(w, p) ==
    /\ loadWorkspaceTemplateAccess(w, p)
    /\ tpl[p].ws = w
    /\ PolicyOf(p) \in policy \/ (w = System /\ ~tpl[p].fork)

LocalAllowed(w) == w = System \/ "local" \in policy

-----------------------------------------------------------------------------
(* A request starts with the handler's access check; one that fails it is   *)
(* answered without an effect and is not represented.                       *)

Begin(a, r) ==
    /\ adm[a].pc = "idle"
    /\ requests < MaxRequests
    /\ requests' = requests + 1
    /\ adm' = [adm EXCEPT ![a] = r]
    /\ UNCHANGED rows

CreateType(a, w, s) ==
    /\ LocalAllowed(w)
    /\ FindTypeBySlugInScope(s, w) = {}
    /\ Begin(a, [Idle EXCEPT !.pc = "write", !.op = "createType", !.ws = w, !.slug = s])

\* PUT .../template-types/:slug, s the new slug (or the old one).
UpdateType(a, w, t, s) ==
    /\ t \in GetTypeBySlug(typ[t].slug, w) /\ typ[t].ws = w
    /\ LocalAllowed(w)
    /\ FindTypeBySlugInScope(s, w) \subseteq {t}
    /\ Begin(a, [Idle EXCEPT !.pc = "write", !.op = "updateType", !.ws = w, !.typ = t, !.slug = s])

DeleteType(a, w, t) ==
    /\ t \in GetTypeBySlug(typ[t].slug, w) /\ typ[t].ws = w
    /\ LocalAllowed(w)
    /\ Begin(a, [Idle EXCEPT !.pc = "write", !.op = "deleteType", !.ws = w, !.typ = t])

\* The type is named by its id: it may be deleted or of any scope.
CreateTemplate(a, w, t) ==
    /\ LocalAllowed(w)
    /\ Begin(a, [Idle EXCEPT !.pc = "write", !.op = "createTemplate", !.ws = w, !.typ = t])

ForkTemplate(a, w, p) ==
    /\ loadWorkspaceTemplateAccess(w, p) /\ tpl[p].ws # w
    /\ "forks" \in policy
    /\ Begin(a, [Idle EXCEPT !.pc = "write", !.op = "fork", !.ws = w, !.tpl = p])

\* POST .../disable (off) and .../enable: the kill switch.
setTemplateDisabled(a, w, p, off) ==
    /\ loadWorkspaceTemplateAccess(w, p)
    /\ PolicyOf(p) \in policy
    /\ Begin(a, [Idle EXCEPT !.pc = "write", !.op = "setDisabled", !.ws = w, !.tpl = p, !.off = off])

DeleteTemplate(a, w, p) ==
    /\ loadWorkspaceTemplateAccess(w, p)
    /\ PolicyOf(p) \in policy
    /\ Begin(a, [Idle EXCEPT !.pc = "check", !.op = "deleteTemplate", !.ws = w, !.tpl = p])

CreateVersion(a, w, p, b) ==
    /\ requireMutableWorkspaceTemplate(w, p)
    /\ Begin(a, [Idle EXCEPT !.pc = "write", !.op = "createVersion", !.ws = w, !.tpl = p, !.body = b])

\* The handler reads the version, requires a draft of this template and lays
\* the request's fields over it.
UpdateVersion(a, w, p, v, b) ==
    /\ requireMutableWorkspaceTemplate(w, p)
    /\ ver[v].status = "draft" /\ ver[v].tpl = p
    /\ Begin(a, [Idle EXCEPT !.pc = "write", !.op = "updateVersion", !.ws = w, !.tpl = p,
                             !.ver = v, !.body = b])

cloneVersion(a, w, p, v) ==
    /\ requireMutableWorkspaceTemplate(w, p)
    /\ v \in ListVersions(p)
    /\ Begin(a, [Idle EXCEPT !.pc = "write", !.op = "clone", !.ws = w, !.tpl = p, !.ver = v])

\* Neither PublishVersion nor the next three compare the version with the
\* template of the path.
PublishVersion(a, w, p, v) ==
    /\ requireMutableWorkspaceTemplate(w, p)
    /\ Begin(a, [Idle EXCEPT !.pc = "write", !.op = "publish", !.ws = w, !.tpl = p, !.ver = v])

DeleteVersion(a, w, p, v) ==
    /\ requireMutableWorkspaceTemplate(w, p)
    /\ ver[v].status = "draft"
    /\ Begin(a, [Idle EXCEPT !.pc = "write", !.op = "deleteVersion", !.ws = w, !.tpl = p, !.ver = v])

SetLocale(a, w, p, v, l) ==
    /\ requireMutableWorkspaceTemplate(w, p)
    /\ Begin(a, [Idle EXCEPT !.pc = "write", !.op = "setLocale", !.ws = w, !.tpl = p,
                             !.ver = v, !.loc = l])

DeleteLocale(a, w, p, v, l) ==
    /\ requireMutableWorkspaceTemplate(w, p)
    /\ Begin(a, [Idle EXCEPT !.pc = "write", !.op = "deleteLocale", !.ws = w, !.tpl = p,
                             !.ver = v, !.loc = l])

\* PUT .../workspace-policies of the system workspace.
UpdateWorkspacePolicies(P) ==
    /\ requests < MaxRequests
    /\ requests' = requests + 1
    /\ P # policy
    /\ policy' = P
    /\ UNCHANGED <<typ, tpl, ver, adm>>

Request(a) ==
    \E w \in Workspaces :
      \/ \E s \in Slugs : CreateType(a, w, s)
      \/ \E t \in TypeIds :
           \/ \E s \in Slugs : UpdateType(a, w, t, s)
           \/ DeleteType(a, w, t)
           \/ typ[t].state # "absent" /\ CreateTemplate(a, w, t)
      \/ \E p \in TemplateIds :
           \/ ForkTemplate(a, w, p)
           \/ \E off \in BOOLEAN : setTemplateDisabled(a, w, p, off)
           \/ DeleteTemplate(a, w, p)
           \/ \E b \in Bodies : CreateVersion(a, w, p, b)
           \/ \E v \in VersionIds : ver[v].status # "absent" /\
                \/ \E b \in Bodies : UpdateVersion(a, w, p, v, b)
                \/ cloneVersion(a, w, p, v)
                \/ PublishVersion(a, w, p, v)
                \/ DeleteVersion(a, w, p, v)
                \/ \E l \in Locales : SetLocale(a, w, p, v, l) \/ DeleteLocale(a, w, p, v, l)

-----------------------------------------------------------------------------
(* Writes.  Each is one statement or one transaction.                       *)

\* Where the request goes after its write.
Continue(a, pc) ==
    /\ adm' = [adm EXCEPT ![a] = IF pc = "idle" THEN Idle ELSE [@ EXCEPT !.pc = pc]]
    /\ UNCHANGED <<policy, requests>>

At(a, pc, op) == adm[a].pc = pc /\ adm[a].op = op

InsertType(a) ==
    /\ At(a, "write", "createType")
    /\ ~SlugTaken(adm[a].slug, adm[a].ws)
    /\ \E t \in TypeIds :
         /\ typ[t].state = "absent"
         /\ typ' = [typ EXCEPT ![t] = [state |-> "live", slug |-> adm[a].slug, ws |-> adm[a].ws]]
    /\ Continue(a, "idle")
    /\ UNCHANGED <<tpl, ver>>

WriteType(a) ==
    LET t == adm[a].typ IN
    /\ At(a, "write", "updateType")
    /\ typ[t].state = "live"
    /\ typ[t].slug # adm[a].slug => ~SlugTaken(adm[a].slug, typ[t].ws)
    /\ typ' = [typ EXCEPT ![t].slug = adm[a].slug]
    /\ Continue(a, "invalidate")
    /\ UNCHANGED <<tpl, ver>>

SoftDeleteType(a) ==
    /\ At(a, "write", "deleteType")
    /\ typ[adm[a].typ].state = "live"
    /\ typ' = [typ EXCEPT ![adm[a].typ].state = "deleted"]
    /\ Continue(a, "invalidate")
    /\ UNCHANGED <<tpl, ver>>

InsertTemplate(a) ==
    /\ At(a, "write", "createTemplate")
    /\ ~TemplateTaken(adm[a].typ, adm[a].ws)
    /\ \E p \in TemplateIds :
         /\ tpl[p].state = "absent"
         /\ tpl' = [tpl EXCEPT ![p] = [state |-> "live", type |-> adm[a].typ, ws |-> adm[a].ws,
                                       disabled |-> FALSE, fork |-> FALSE]]
    /\ Continue(a, "idle")
    /\ UNCHANGED <<typ, ver>>

\* Copies the template with its kill switch and every version with its status
\* and locales, under a lock on the source row.
CopyTemplate(a) ==
    LET p == adm[a].tpl IN
    /\ At(a, "write", "fork")
    /\ tpl[p].state = "live"
    /\ ~TemplateTaken(tpl[p].type, adm[a].ws)
    /\ \E q \in TemplateIds, C \in SUBSET {v \in VersionIds : ver[v].status = "absent"} :
         /\ tpl[q].state = "absent"
         /\ tpl' = [tpl EXCEPT ![q] = [tpl[p] EXCEPT !.ws = adm[a].ws, !.fork = TRUE]]
         /\ \E f \in [C -> ListVersions(p)] :
              /\ \A x, y \in C : f[x] = f[y] => x = y
              /\ \A s \in ListVersions(p) : \E x \in C : f[x] = s
              /\ ver' = [v \in VersionIds |->
                           IF v \in C THEN [ver[f[v]] EXCEPT !.tpl = q] ELSE ver[v]]
    /\ Continue(a, "invalidate")
    /\ UNCHANGED typ

SetDisabled(a) ==
    LET p == adm[a].tpl IN
    /\ At(a, "write", "setDisabled")
    /\ tpl[p].state = "live" /\ tpl[p].ws = adm[a].ws
    /\ tpl' = [tpl EXCEPT ![p].disabled = adm[a].off]
    /\ Continue(a, "invalidate")
    /\ UNCHANGED <<typ, ver>>

\* "Has a published version" is answered by the absence of an error, so a
\* failed read lets the deletion through.
CheckPublished(a) ==
    /\ At(a, "check", "deleteTemplate")
    /\ \/ Continue(a, "write")
       \/ GetPublishedVersion(adm[a].tpl) # {} /\ Continue(a, "idle")
    /\ UNCHANGED <<typ, tpl, ver>>

SoftDeleteTemplate(a) ==
    /\ At(a, "write", "deleteTemplate")
    /\ tpl[adm[a].tpl].state = "live"
    /\ tpl' = [tpl EXCEPT ![adm[a].tpl].state = "deleted"]
    /\ Continue(a, "idle")
    /\ UNCHANGED <<typ, ver>>

InsertVersion(a) ==
    /\ At(a, "write", "createVersion")
    /\ \E v \in VersionIds :
         /\ ver[v].status = "absent"
         /\ ver' = [ver EXCEPT ![v] = [status |-> "draft", tpl |-> adm[a].tpl,
                                       body |-> adm[a].body, locs |-> {}]]
    /\ Continue(a, "idle")
    /\ UNCHANGED <<typ, tpl>>

WriteVersion_AnyStatus(a) ==
    /\ At(a, "write", "updateVersion")
    /\ ver[adm[a].ver].status # "deleted"
    /\ ver' = [ver EXCEPT ![adm[a].ver].body = adm[a].body]
    /\ Continue(a, "idle")
    /\ UNCHANGED <<typ, tpl>>

WriteVersion(a) ==
    /\ At(a, "write", "updateVersion")
    /\ ver[adm[a].ver].status = "draft"
    /\ ver' = [ver EXCEPT ![adm[a].ver].body = adm[a].body]
    /\ Continue(a, "idle")
    /\ UNCHANGED <<typ, tpl>>

CopyVersion(a) ==
    LET s == adm[a].ver IN
    /\ At(a, "write", "clone")
    /\ s \in ListVersions(adm[a].tpl)
    /\ \E v \in VersionIds :
         /\ ver[v].status = "absent"
         /\ ver' = [ver EXCEPT ![v] = [ver[s] EXCEPT !.status = "draft"]]
    /\ Continue(a, "idle")
    /\ UNCHANGED <<typ, tpl>>

\* The draft becomes the published version and the one before is archived,
\* under a lock on the template row, deleted or not.
Publish(a) ==
    LET v == adm[a].ver IN
    /\ At(a, "write", "publish")
    /\ ver[v].status = "draft"
    /\ ver' = [x \in VersionIds |->
                 IF x = v THEN [ver[x] EXCEPT !.status = "published"]
                 ELSE IF x \in GetPublishedVersion(ver[v].tpl) THEN [ver[x] EXCEPT !.status = "archived"]
                 ELSE ver[x]]
    /\ Continue(a, "idle")
    /\ UNCHANGED <<typ, tpl>>

DeleteDraftVersion(a) ==
    /\ At(a, "write", "deleteVersion")
    /\ ver[adm[a].ver].status = "draft"
    /\ ver' = [ver EXCEPT ![adm[a].ver].status = "deleted", ![adm[a].ver].locs = {}]
    /\ Continue(a, "idle")
    /\ UNCHANGED <<typ, tpl>>

\* No status is asked for: locales of a published version change in place.
UpsertLocale(a) ==
    /\ At(a, "write", "setLocale")
    /\ ver[adm[a].ver].status \notin {"absent", "deleted"}
    /\ ver' = [ver EXCEPT ![adm[a].ver].locs = @ \cup {adm[a].loc}]
    /\ Continue(a, "idle")
    /\ UNCHANGED <<typ, tpl>>

RemoveLocale(a) ==
    /\ At(a, "write", "deleteLocale")
    /\ adm[a].loc \in ver[adm[a].ver].locs
    /\ ver' = [ver EXCEPT ![adm[a].ver].locs = @ \ {adm[a].loc}]
    /\ Continue(a, "idle")
    /\ UNCHANGED <<typ, tpl>>

\* Writes that leave what a resolution reads of the kill switch alone.
Write(a) ==
    \/ InsertType(a) \/ WriteType(a) \/ SoftDeleteType(a)
    \/ InsertTemplate(a) \/ CopyTemplate(a) \/ SoftDeleteTemplate(a)
    \/ InsertVersion(a) \/ WriteVersion(a) \/ CopyVersion(a) \/ Publish(a)
    \/ DeleteDraftVersion(a) \/ UpsertLocale(a) \/ RemoveLocale(a)

\* A statement that fails, or whose condition does not hold, is answered with
\* an error: nothing was written.
Fail(a) ==
    /\ adm[a].pc \in {"check", "write"}
    /\ Continue(a, "idle")
    /\ UNCHANGED <<typ, tpl, ver>>

CatalogStep ==
    \/ \E P \in SUBSET Policies : UpdateWorkspacePolicies(P)
    \/ \E a \in Admins : Request(a) \/ CheckPublished(a) \/ Write(a) \/ Fail(a)

-----------------------------------------------------------------------------
(* Properties *)

\* A template has at most one published version, also when two requests
\* publish two of its drafts at once or a fork copies it meanwhile
\* (TemplateRepo.Publish locks the template row and archives first).
OnePublished ==
    \A v, x \in VersionIds :
      (/\ ver[v].status = "published" /\ ver[x].status = "published"
       /\ ver[v].tpl = ver[x].tpl) => v = x

\* Published, now or once.
Sealed(v) == ver[v].status \in {"published", "archived"}

\* Once a version was published its content never changes, it is never a draft
\* again and it is never deleted, whatever an update or deletion that read it
\* as a draft does later (the status guards of UpdateVersion, Publish and
\* DeleteDraftVersion).  Its locale overrides are not part of this.
PublishedIsFrozen ==
    [][\A v \in VersionIds : Sealed(v) => /\ Sealed(v)'
                                          /\ ver'[v].body = ver[v].body
                                          /\ ver'[v].tpl = ver[v].tpl]_ver
=============================================================================
