---------------------- MODULE TemplateResolutionProofs ----------------------
(***************************************************************************)
(* Proofs about TemplateCatalog and TemplateResolution, for any number of  *)
(* workspaces, rows, administrators, resolutions and cache keys.           *)
(***************************************************************************)
EXTENDS TemplateResolution, TLAPS

AdminRecords ==
    [pc : {"idle", "check", "write", "invalidate"}, op : Ops, ws : Workspaces, slug : Slugs,
     typ : TypeIds, tpl : TemplateIds, ver : VersionIds, body : Bodies, loc : Locales,
     off : BOOLEAN]

Exists(p) == tpl[p].state # "absent"

(* Nothing names a template that was never inserted, so that the id a new   *)
(* template gets is one that no version, request, resolution or entry has.  *)
Rooted ==
    /\ Exists(SeedTemplate)
    /\ \A v \in VersionIds : Exists(ver[v].tpl)
    /\ \A a \in Admins : Exists(adm[a].tpl)
    /\ \A r \in Resolvers : Exists(res[r].tpl)
    /\ \A k \in Keys : Exists(cache[k].tpl)

(* What a resolution has read of the version still holds. *)
VersionAtStep ==
    \A r \in Resolvers : res[r].pc \in {"locale", "store"} =>
      /\ Sealed(res[r].ver)
      /\ ver[res[r].ver].tpl = res[r].tpl
      /\ ver[res[r].ver].body = res[r].body

(* A resolution that goes on with a disabled template read it before. *)
RacedAtStep ==
    \A r \in Resolvers :
      /\ res[r].pc \in {"version", "locale", "store"}
      /\ tpl[res[r].tpl].disabled /\ tpl[res[r].tpl].ws = res[r].key.ws
      => res[r].raced

IInv ==
    /\ TypeOK /\ Rooted /\ OnePublished
    /\ VersionAtStep /\ ServedIsPublished
    /\ RacedAtStep /\ KillSwitchInvalidates
-----------------------------------------------------------------------------
(* The records the actions start from are well typed. *)
LEMMA IdleType == Idle \in AdminRecords
  BY CatalogAssumption DEF Idle, AdminRecords, Ops

LEMMA FreeType == ASSUME NEW k \in Keys PROVE Free(k) \in Resolutions
  BY CatalogAssumption DEF Free, Resolutions

LEMMA NoEntryType == NoEntry \in Entries
  BY CatalogAssumption DEF NoEntry, Entries

ResolutionTypeOK == cache \in [Keys -> Entries] /\ res \in [Resolvers -> Resolutions]
TypeRows == [state : RowStates, slug : Slugs, ws : Workspaces]
TemplateRows ==
    [state : RowStates, type : TypeIds, ws : Workspaces, disabled : BOOLEAN, fork : BOOLEAN]
VersionRows ==
    [status : VersionStatuses, tpl : TemplateIds, body : Bodies, locs : SUBSET Locales]

(* The rows, with the record sets named. *)
LEMMA RowTypes ==
  ASSUME CatalogTypeOK
  PROVE  /\ typ \in [TypeIds -> TypeRows] /\ tpl \in [TemplateIds -> TemplateRows]
         /\ ver \in [VersionIds -> VersionRows]
  BY DEF CatalogTypeOK, TypeRows, TemplateRows, VersionRows

(* The fields of a request, one by one. *)
LEMMA AdminFields ==
  ASSUME CatalogTypeOK, NEW a \in Admins
  PROVE  /\ adm[a].ws \in Workspaces /\ adm[a].slug \in Slugs /\ adm[a].typ \in TypeIds
         /\ adm[a].tpl \in TemplateIds /\ adm[a].ver \in VersionIds /\ adm[a].body \in Bodies
         /\ adm[a].loc \in Locales /\ adm[a].off \in BOOLEAN
  BY DEF CatalogTypeOK

(* A fork: q is the new template, f names what each new version copies. *)
Copies(a, q, C, f) ==
    /\ q \in TemplateIds /\ C \in SUBSET {v \in VersionIds : ver[v].status = "absent"}
    /\ f \in [C -> ListVersions(adm[a].tpl)]
    /\ \A x, y \in C : f[x] = f[y] => x = y
    /\ tpl[q].state = "absent"
    /\ tpl' = [tpl EXCEPT ![q] = [tpl[adm[a].tpl] EXCEPT !.ws = adm[a].ws, !.fork = TRUE]]
    /\ ver' = [v \in VersionIds |-> IF v \in C THEN [ver[f[v]] EXCEPT !.tpl = q] ELSE ver[v]]

LEMMA CopyShape ==
  ASSUME NEW a \in Admins, CopyTemplate(a)
  PROVE  \E q, C, f : Copies(a, q, C, f)
<1>1. PICK q \in TemplateIds, C \in SUBSET {v \in VersionIds : ver[v].status = "absent"} :
        /\ tpl[q].state = "absent"
        /\ tpl' = [tpl EXCEPT ![q] = [tpl[adm[a].tpl] EXCEPT !.ws = adm[a].ws, !.fork = TRUE]]
        /\ \E f \in [C -> ListVersions(adm[a].tpl)] :
             /\ \A x, y \in C : f[x] = f[y] => x = y
             /\ \A s \in ListVersions(adm[a].tpl) : \E x \in C : f[x] = s
             /\ ver' = [v \in VersionIds |->
                          IF v \in C THEN [ver[f[v]] EXCEPT !.tpl = q] ELSE ver[v]]
  BY Zenon DEF CopyTemplate
<1>2. PICK f \in [C -> ListVersions(adm[a].tpl)] :
        /\ \A x, y \in C : f[x] = f[y] => x = y
        /\ \A s \in ListVersions(adm[a].tpl) : \E x \in C : f[x] = s
        /\ ver' = [v \in VersionIds |-> IF v \in C THEN [ver[f[v]] EXCEPT !.tpl = q] ELSE ver[v]]
  BY <1>1, Zenon
<1>3. Copies(a, q, C, f)
  BY <1>1, <1>2, Zenon DEF Copies
<1> QED
  BY <1>3, Zenon

(* The catalogue an environment starts with satisfies the invariant. *)
LEMMA InitIInv == Init => IInv
<1> SUFFICES ASSUME Init PROVE IInv
  OBVIOUS
<1> USE CatalogAssumption DEF Init, CatalogInit
<1>1. CatalogTypeOK
  BY IdleType DEF CatalogTypeOK, RowStates, VersionStatuses, Policies, AdminRecords
<1>2. TypeOK
  BY <1>1, FreeType, NoEntryType DEF TypeOK
<1>3. Rooted
  BY DEF Rooted, Exists, Idle, Free, NoEntry
<1>4. OnePublished
  BY DEF OnePublished
<1>5. VersionAtStep /\ RacedAtStep /\ ServedIsPublished /\ KillSwitchInvalidates
  BY DEF VersionAtStep, RacedAtStep, ServedIsPublished, KillSwitchInvalidates, Free, NoEntry
<1> QED
  BY <1>2, <1>3, <1>4, <1>5 DEF IInv

(* A request is a well-typed record that names an existing template. *)
LEMMA RequestShape ==
  ASSUME CatalogTypeOK, Exists(SeedTemplate), NEW a \in Admins, Request(a)
  PROVE  \E q \in AdminRecords : Begin(a, q) /\ Exists(q.tpl) /\ q.pc \in {"check", "write"}
<1> USE CatalogAssumption
<1>1. PICK w \in Workspaces :
        \/ (\E s \in Slugs : CreateType(a, w, s))
        \/ (\E t \in TypeIds, s \in Slugs : UpdateType(a, w, t, s))
        \/ (\E t \in TypeIds : DeleteType(a, w, t))
        \/ (\E t \in TypeIds : CreateTemplate(a, w, t))
        \/ (\E p \in TemplateIds : ForkTemplate(a, w, p))
        \/ (\E p \in TemplateIds, off \in BOOLEAN : setTemplateDisabled(a, w, p, off))
        \/ (\E p \in TemplateIds : DeleteTemplate(a, w, p))
        \/ (\E p \in TemplateIds, b \in Bodies : CreateVersion(a, w, p, b))
        \/ (\E p \in TemplateIds, v \in VersionIds, b \in Bodies : UpdateVersion(a, w, p, v, b))
        \/ (\E p \in TemplateIds, v \in VersionIds : cloneVersion(a, w, p, v))
        \/ (\E p \in TemplateIds, v \in VersionIds : PublishVersion(a, w, p, v))
        \/ (\E p \in TemplateIds, v \in VersionIds : DeleteVersion(a, w, p, v))
        \/ (\E p \in TemplateIds, v \in VersionIds, l \in Locales : SetLocale(a, w, p, v, l))
        \/ (\E p \in TemplateIds, v \in VersionIds, l \in Locales : DeleteLocale(a, w, p, v, l))
  BY DEF Request
<1>2. CASE \E s \in Slugs : CreateType(a, w, s)
  <2>1. PICK s \in Slugs : CreateType(a, w, s)
    BY <1>2
  <2> DEFINE q == [Idle EXCEPT !.pc = "write", !.op = "createType", !.ws = w,
                                !.slug = s]
  <2>2. q \in AdminRecords /\ Exists(q.tpl) /\ q.pc \in {"check", "write"}
    BY <2>1 DEF CreateType, Idle, AdminRecords, Ops, Exists
  <2>3. Begin(a, q)
    BY <2>1 DEF CreateType
  <2> QED
    BY <2>2, <2>3
<1>3. CASE \E t \in TypeIds, s \in Slugs : UpdateType(a, w, t, s)
  <2>1. PICK t \in TypeIds, s \in Slugs : UpdateType(a, w, t, s)
    BY <1>3
  <2> DEFINE q == [Idle EXCEPT !.pc = "write", !.op = "updateType", !.ws = w, !.typ = t,
                                !.slug = s]
  <2>2. q \in AdminRecords /\ Exists(q.tpl) /\ q.pc \in {"check", "write"}
    BY <2>1 DEF UpdateType, Idle, AdminRecords, Ops, Exists
  <2>3. Begin(a, q)
    BY <2>1 DEF UpdateType
  <2> QED
    BY <2>2, <2>3
<1>4. CASE \E t \in TypeIds : DeleteType(a, w, t)
  <2>1. PICK t \in TypeIds : DeleteType(a, w, t)
    BY <1>4
  <2> DEFINE q == [Idle EXCEPT !.pc = "write", !.op = "deleteType", !.ws = w, !.typ = t]
  <2>2. q \in AdminRecords /\ Exists(q.tpl) /\ q.pc \in {"check", "write"}
    BY <2>1 DEF DeleteType, Idle, AdminRecords, Ops, Exists
  <2>3. Begin(a, q)
    BY <2>1 DEF DeleteType
  <2> QED
    BY <2>2, <2>3
<1>5. CASE \E t \in TypeIds : CreateTemplate(a, w, t)
  <2>1. PICK t \in TypeIds : CreateTemplate(a, w, t)
    BY <1>5
  <2> DEFINE q == [Idle EXCEPT !.pc = "write", !.op = "createTemplate", !.ws = w,
                                !.typ = t]
  <2>2. q \in AdminRecords /\ Exists(q.tpl) /\ q.pc \in {"check", "write"}
    BY <2>1 DEF CreateTemplate, Idle, AdminRecords, Ops, Exists
  <2>3. Begin(a, q)
    BY <2>1 DEF CreateTemplate
  <2> QED
    BY <2>2, <2>3
<1>6. CASE \E p \in TemplateIds : ForkTemplate(a, w, p)
  <2>1. PICK p \in TemplateIds : ForkTemplate(a, w, p)
    BY <1>6
  <2> DEFINE q == [Idle EXCEPT !.pc = "write", !.op = "fork", !.ws = w, !.tpl = p]
  <2>2. q \in AdminRecords /\ Exists(q.tpl) /\ q.pc \in {"check", "write"}
    BY <2>1 DEF ForkTemplate, loadWorkspaceTemplateAccess, Idle, AdminRecords, Ops, Exists
  <2>3. Begin(a, q)
    BY <2>1 DEF ForkTemplate
  <2> QED
    BY <2>2, <2>3
<1>7. CASE \E p \in TemplateIds, off \in BOOLEAN : setTemplateDisabled(a, w, p, off)
  <2>1. PICK p \in TemplateIds, off \in BOOLEAN : setTemplateDisabled(a, w, p, off)
    BY <1>7
  <2> DEFINE q == [Idle EXCEPT !.pc = "write", !.op = "setDisabled", !.ws = w, !.tpl = p,
                                !.off = off]
  <2>2. q \in AdminRecords /\ Exists(q.tpl) /\ q.pc \in {"check", "write"}
    BY <2>1 DEF setTemplateDisabled, loadWorkspaceTemplateAccess, Idle, AdminRecords, Ops,
       Exists
  <2>3. Begin(a, q)
    BY <2>1 DEF setTemplateDisabled
  <2> QED
    BY <2>2, <2>3
<1>8. CASE \E p \in TemplateIds : DeleteTemplate(a, w, p)
  <2>1. PICK p \in TemplateIds : DeleteTemplate(a, w, p)
    BY <1>8
  <2> DEFINE q == [Idle EXCEPT !.pc = "check", !.op = "deleteTemplate", !.ws = w,
                                !.tpl = p]
  <2>2. q \in AdminRecords /\ Exists(q.tpl) /\ q.pc \in {"check", "write"}
    BY <2>1 DEF DeleteTemplate, loadWorkspaceTemplateAccess, Idle, AdminRecords, Ops, Exists
  <2>3. Begin(a, q)
    BY <2>1 DEF DeleteTemplate
  <2> QED
    BY <2>2, <2>3
<1>9. CASE \E p \in TemplateIds, b \in Bodies : CreateVersion(a, w, p, b)
  <2>1. PICK p \in TemplateIds, b \in Bodies : CreateVersion(a, w, p, b)
    BY <1>9
  <2> DEFINE q == [Idle EXCEPT !.pc = "write", !.op = "createVersion", !.ws = w,
                                !.tpl = p, !.body = b]
  <2>2. q \in AdminRecords /\ Exists(q.tpl) /\ q.pc \in {"check", "write"}
    BY <2>1 DEF CreateVersion, requireMutableWorkspaceTemplate, loadWorkspaceTemplateAccess,
       Idle, AdminRecords, Ops, Exists
  <2>3. Begin(a, q)
    BY <2>1 DEF CreateVersion
  <2> QED
    BY <2>2, <2>3
<1>10. CASE \E p \in TemplateIds, v \in VersionIds, b \in Bodies : UpdateVersion(a, w, p, v, b)
  <2>1. PICK p \in TemplateIds, v \in VersionIds, b \in Bodies : UpdateVersion(a, w, p, v, b)
    BY <1>10
  <2> DEFINE q == [Idle EXCEPT !.pc = "write", !.op = "updateVersion", !.ws = w,
                                !.tpl = p, !.ver = v, !.body = b]
  <2>2. q \in AdminRecords /\ Exists(q.tpl) /\ q.pc \in {"check", "write"}
    BY <2>1 DEF UpdateVersion, requireMutableWorkspaceTemplate, loadWorkspaceTemplateAccess,
       Idle, AdminRecords, Ops, Exists
  <2>3. Begin(a, q)
    BY <2>1 DEF UpdateVersion
  <2> QED
    BY <2>2, <2>3
<1>11. CASE \E p \in TemplateIds, v \in VersionIds : cloneVersion(a, w, p, v)
  <2>1. PICK p \in TemplateIds, v \in VersionIds : cloneVersion(a, w, p, v)
    BY <1>11
  <2> DEFINE q == [Idle EXCEPT !.pc = "write", !.op = "clone", !.ws = w, !.tpl = p,
                                !.ver = v]
  <2>2. q \in AdminRecords /\ Exists(q.tpl) /\ q.pc \in {"check", "write"}
    BY <2>1 DEF cloneVersion, requireMutableWorkspaceTemplate, loadWorkspaceTemplateAccess,
       Idle, AdminRecords, Ops, Exists
  <2>3. Begin(a, q)
    BY <2>1 DEF cloneVersion
  <2> QED
    BY <2>2, <2>3
<1>12. CASE \E p \in TemplateIds, v \in VersionIds : PublishVersion(a, w, p, v)
  <2>1. PICK p \in TemplateIds, v \in VersionIds : PublishVersion(a, w, p, v)
    BY <1>12
  <2> DEFINE q == [Idle EXCEPT !.pc = "write", !.op = "publish", !.ws = w, !.tpl = p,
                                !.ver = v]
  <2>2. q \in AdminRecords /\ Exists(q.tpl) /\ q.pc \in {"check", "write"}
    BY <2>1 DEF PublishVersion, requireMutableWorkspaceTemplate, loadWorkspaceTemplateAccess,
       Idle, AdminRecords, Ops, Exists
  <2>3. Begin(a, q)
    BY <2>1 DEF PublishVersion
  <2> QED
    BY <2>2, <2>3
<1>13. CASE \E p \in TemplateIds, v \in VersionIds : DeleteVersion(a, w, p, v)
  <2>1. PICK p \in TemplateIds, v \in VersionIds : DeleteVersion(a, w, p, v)
    BY <1>13
  <2> DEFINE q == [Idle EXCEPT !.pc = "write", !.op = "deleteVersion", !.ws = w,
                                !.tpl = p, !.ver = v]
  <2>2. q \in AdminRecords /\ Exists(q.tpl) /\ q.pc \in {"check", "write"}
    BY <2>1 DEF DeleteVersion, requireMutableWorkspaceTemplate, loadWorkspaceTemplateAccess,
       Idle, AdminRecords, Ops, Exists
  <2>3. Begin(a, q)
    BY <2>1 DEF DeleteVersion
  <2> QED
    BY <2>2, <2>3
<1>14. CASE \E p \in TemplateIds, v \in VersionIds, l \in Locales : SetLocale(a, w, p, v, l)
  <2>1. PICK p \in TemplateIds, v \in VersionIds, l \in Locales : SetLocale(a, w, p, v, l)
    BY <1>14
  <2> DEFINE q == [Idle EXCEPT !.pc = "write", !.op = "setLocale", !.ws = w, !.tpl = p,
                                !.ver = v, !.loc = l]
  <2>2. q \in AdminRecords /\ Exists(q.tpl) /\ q.pc \in {"check", "write"}
    BY <2>1 DEF SetLocale, requireMutableWorkspaceTemplate, loadWorkspaceTemplateAccess, Idle,
       AdminRecords, Ops, Exists
  <2>3. Begin(a, q)
    BY <2>1 DEF SetLocale
  <2> QED
    BY <2>2, <2>3
<1>15. CASE \E p \in TemplateIds, v \in VersionIds, l \in Locales : DeleteLocale(a, w, p, v, l)
  <2>1. PICK p \in TemplateIds, v \in VersionIds, l \in Locales : DeleteLocale(a, w, p, v, l)
    BY <1>15
  <2> DEFINE q == [Idle EXCEPT !.pc = "write", !.op = "deleteLocale", !.ws = w, !.tpl = p,
                                !.ver = v, !.loc = l]
  <2>2. q \in AdminRecords /\ Exists(q.tpl) /\ q.pc \in {"check", "write"}
    BY <2>1 DEF DeleteLocale, requireMutableWorkspaceTemplate, loadWorkspaceTemplateAccess,
       Idle, AdminRecords, Ops, Exists
  <2>3. Begin(a, q)
    BY <2>1 DEF DeleteLocale
  <2> QED
    BY <2>2, <2>3
<1> QED
  BY <1>1, <1>2, <1>3, <1>4, <1>5, <1>6, <1>7, <1>8, <1>9,
     <1>10, <1>11, <1>12, <1>13, <1>14, <1>15

(* What a request continues with is well typed and names an existing one. *)
LEMMA ContinueShape ==
  ASSUME CatalogTypeOK, NEW a \in Admins, NEW pc \in {"idle", "write", "invalidate"},
         Continue(a, pc)
  PROVE  /\ adm' \in [Admins -> AdminRecords]
         /\ \A b \in Admins : adm'[b].tpl \in {adm[b].tpl, SeedTemplate}
         /\ \A b \in Admins : b # a => adm'[b] = adm[b]
         /\ pc = "invalidate" => adm'[a].pc = "invalidate" /\ adm'[a].ws = adm[a].ws
         /\ UNCHANGED <<policy, requests>>
<1>1. adm \in [Admins -> AdminRecords]
  BY DEF CatalogTypeOK, AdminRecords
<1>2. adm' = [adm EXCEPT ![a] = IF pc = "idle" THEN Idle ELSE [@ EXCEPT !.pc = pc]]
  BY DEF Continue
<1>3. [adm[a] EXCEPT !.pc = pc] \in AdminRecords
  BY <1>1 DEF AdminRecords
<1>4. adm' \in [Admins -> AdminRecords]
  BY <1>1, <1>2, <1>3, IdleType
<1>5. Idle.tpl = SeedTemplate
  BY DEF Idle
<1>6. \A b \in Admins : b # a => adm'[b] = adm[b]
  BY <1>1, <1>2
<1>7. adm'[a] = IF pc = "idle" THEN Idle ELSE [adm[a] EXCEPT !.pc = pc]
  BY <1>1, <1>2
<1>8. [adm[a] EXCEPT !.pc = pc].tpl = adm[a].tpl /\ [adm[a] EXCEPT !.pc = pc].ws = adm[a].ws
      /\ [adm[a] EXCEPT !.pc = pc].pc = pc
  BY <1>1 DEF AdminRecords
<1> QED
  BY <1>4, <1>5, <1>6, <1>7, <1>8 DEF Continue
-----------------------------------------------------------------------------
(* The rows and the requests keep their types. *)
LEMMA CatalogTypes == ASSUME TypeOK, Rooted, [Next]_vars PROVE CatalogTypeOK'
<1> USE CatalogAssumption DEF TypeOK
<1>1. ASSUME NEW P \in SUBSET Policies, UpdateWorkspacePolicies(P), UNCHANGED <<cache, res>>
      PROVE  CatalogTypeOK'
  BY <1>1 DEF UpdateWorkspacePolicies, CatalogTypeOK
<1>2. ASSUME NEW a \in Admins, Request(a), UNCHANGED <<cache, res>> PROVE CatalogTypeOK'
  <2>1. PICK q \in AdminRecords : Begin(a, q)
    BY <1>2, RequestShape DEF Rooted
  <2>2. adm \in [Admins -> AdminRecords] /\ requests \in Nat
    BY DEF CatalogTypeOK, AdminRecords
  <2>3. adm' \in [Admins -> AdminRecords] /\ requests' \in Nat
    BY <2>1, <2>2 DEF Begin
  <2> QED
    BY <2>1, <2>3 DEF Begin, CatalogTypeOK, AdminRecords, rows
<1>3. ASSUME NEW a \in Admins, CheckPublished(a), UNCHANGED <<cache, res>> PROVE CatalogTypeOK'
  <2>1. adm' \in [Admins -> AdminRecords] /\ UNCHANGED <<policy, requests>>
    BY <1>3, ContinueShape DEF CheckPublished
  <2> QED
    BY <1>3, <2>1 DEF CheckPublished, CatalogTypeOK, AdminRecords
<1>4. ASSUME NEW a \in Admins, Fail(a), UNCHANGED <<cache, res>> PROVE CatalogTypeOK'
  <2>1. adm' \in [Admins -> AdminRecords] /\ UNCHANGED <<policy, requests>>
    BY <1>4, ContinueShape DEF Fail
  <2> QED
    BY <1>4, <2>1 DEF Fail, CatalogTypeOK, AdminRecords
<1>5. ASSUME NEW a \in Admins, InsertType(a), UNCHANGED <<cache, res>> PROVE CatalogTypeOK'
  <2>1. adm' \in [Admins -> AdminRecords] /\ UNCHANGED <<policy, requests>>
    BY <1>5, ContinueShape DEF InsertType
  <2>2. [state |-> "live", slug |-> adm[a].slug, ws |-> adm[a].ws] \in TypeRows
    BY AdminFields, RowTypes DEF TypeRows, RowStates, VersionStatuses
  <2>3. typ' \in [TypeIds -> TypeRows]
    BY <1>5, <2>2, AdminFields, RowTypes DEF InsertType
  <2> QED
    BY <1>5, <2>1, <2>3 DEF InsertType, CatalogTypeOK, AdminRecords, TypeRows
<1>6. ASSUME NEW a \in Admins, WriteType(a), UNCHANGED <<cache, res>> PROVE CatalogTypeOK'
  <2>1. adm' \in [Admins -> AdminRecords] /\ UNCHANGED <<policy, requests>>
    BY <1>6, ContinueShape DEF WriteType
  <2>2. [typ[adm[a].typ] EXCEPT !.slug = adm[a].slug] \in TypeRows
    BY AdminFields, RowTypes DEF TypeRows, RowStates, VersionStatuses
  <2>3. typ' \in [TypeIds -> TypeRows]
    BY <1>6, <2>2, AdminFields, RowTypes DEF WriteType
  <2> QED
    BY <1>6, <2>1, <2>3 DEF WriteType, CatalogTypeOK, AdminRecords, TypeRows
<1>7. ASSUME NEW a \in Admins, SoftDeleteType(a), UNCHANGED <<cache, res>> PROVE CatalogTypeOK'
  <2>1. adm' \in [Admins -> AdminRecords] /\ UNCHANGED <<policy, requests>>
    BY <1>7, ContinueShape DEF SoftDeleteType
  <2>2. [typ[adm[a].typ] EXCEPT !.state = "deleted"] \in TypeRows
    BY AdminFields, RowTypes DEF TypeRows, RowStates, VersionStatuses
  <2>3. typ' \in [TypeIds -> TypeRows]
    BY <1>7, <2>2, AdminFields, RowTypes DEF SoftDeleteType
  <2> QED
    BY <1>7, <2>1, <2>3 DEF SoftDeleteType, CatalogTypeOK, AdminRecords, TypeRows
<1>8. ASSUME NEW a \in Admins, InsertTemplate(a), UNCHANGED <<cache, res>> PROVE CatalogTypeOK'
  <2>1. adm' \in [Admins -> AdminRecords] /\ UNCHANGED <<policy, requests>>
    BY <1>8, ContinueShape DEF InsertTemplate
  <2>2. [state |-> "live", type |-> adm[a].typ, ws |-> adm[a].ws,
         disabled |-> FALSE, fork |-> FALSE] \in TemplateRows
    BY AdminFields, RowTypes DEF TemplateRows, RowStates, VersionStatuses
  <2>3. tpl' \in [TemplateIds -> TemplateRows]
    BY <1>8, <2>2, AdminFields, RowTypes DEF InsertTemplate
  <2> QED
    BY <1>8, <2>1, <2>3 DEF InsertTemplate, CatalogTypeOK, AdminRecords, TemplateRows
<1>9. ASSUME NEW a \in Admins, CopyTemplate(a), UNCHANGED <<cache, res>> PROVE CatalogTypeOK'
  <2>1. adm' \in [Admins -> AdminRecords] /\ UNCHANGED <<policy, requests>>
    BY <1>9, ContinueShape DEF CopyTemplate
  <2>2. [tpl[adm[a].tpl] EXCEPT !.ws = adm[a].ws, !.fork = TRUE] \in TemplateRows
    BY AdminFields, RowTypes DEF TemplateRows
  <2>3. PICK q, C, f : Copies(a, q, C, f)
    BY <1>9, CopyShape
  <2>4. tpl' \in [TemplateIds -> TemplateRows]
    BY <2>2, <2>3, RowTypes DEF Copies
  <2>6. \A v \in C : f[v] \in VersionIds
    BY <2>3 DEF Copies, ListVersions
  <2>7. \A x \in VersionIds : [ver[x] EXCEPT !.tpl = q] \in VersionRows
    BY <2>3, RowTypes DEF VersionRows, Copies
  <2>8. ver' \in [VersionIds -> VersionRows]
    BY <2>3, <2>6, <2>7, RowTypes DEF Copies
  <2> QED
    BY <1>9, <2>1, <2>4, <2>8 DEF CopyTemplate, CatalogTypeOK, AdminRecords, TemplateRows,
       VersionRows
<1>10. ASSUME NEW a \in Admins, SoftDeleteTemplate(a), UNCHANGED <<cache, res>>
       PROVE  CatalogTypeOK'
  <2>1. adm' \in [Admins -> AdminRecords] /\ UNCHANGED <<policy, requests>>
    BY <1>10, ContinueShape DEF SoftDeleteTemplate
  <2>2. [tpl[adm[a].tpl] EXCEPT !.state = "deleted"] \in TemplateRows
    BY AdminFields, RowTypes DEF TemplateRows, RowStates, VersionStatuses
  <2>3. tpl' \in [TemplateIds -> TemplateRows]
    BY <1>10, <2>2, AdminFields, RowTypes DEF SoftDeleteTemplate
  <2> QED
    BY <1>10, <2>1, <2>3 DEF SoftDeleteTemplate, CatalogTypeOK, AdminRecords, TemplateRows
<1>11. ASSUME NEW a \in Admins, InsertVersion(a), UNCHANGED <<cache, res>> PROVE CatalogTypeOK'
  <2>1. adm' \in [Admins -> AdminRecords] /\ UNCHANGED <<policy, requests>>
    BY <1>11, ContinueShape DEF InsertVersion
  <2>2. [status |-> "draft", tpl |-> adm[a].tpl, body |-> adm[a].body, locs |-> {}] \in VersionRows
    BY AdminFields, RowTypes DEF VersionRows, RowStates, VersionStatuses
  <2>3. ver' \in [VersionIds -> VersionRows]
    BY <1>11, <2>2, AdminFields, RowTypes DEF InsertVersion
  <2> QED
    BY <1>11, <2>1, <2>3 DEF InsertVersion, CatalogTypeOK, AdminRecords, VersionRows
<1>12. ASSUME NEW a \in Admins, WriteVersion(a), UNCHANGED <<cache, res>> PROVE CatalogTypeOK'
  <2>1. adm' \in [Admins -> AdminRecords] /\ UNCHANGED <<policy, requests>>
    BY <1>12, ContinueShape DEF WriteVersion
  <2>2. [ver[adm[a].ver] EXCEPT !.body = adm[a].body] \in VersionRows
    BY AdminFields, RowTypes DEF VersionRows, RowStates, VersionStatuses
  <2>3. ver' \in [VersionIds -> VersionRows]
    BY <1>12, <2>2, AdminFields, RowTypes DEF WriteVersion
  <2> QED
    BY <1>12, <2>1, <2>3 DEF WriteVersion, CatalogTypeOK, AdminRecords, VersionRows
<1>13. ASSUME NEW a \in Admins, CopyVersion(a), UNCHANGED <<cache, res>> PROVE CatalogTypeOK'
  <2>1. adm' \in [Admins -> AdminRecords] /\ UNCHANGED <<policy, requests>>
    BY <1>13, ContinueShape DEF CopyVersion
  <2>2. [ver[adm[a].ver] EXCEPT !.status = "draft"] \in VersionRows
    BY AdminFields, RowTypes DEF VersionRows, RowStates, VersionStatuses
  <2>3. ver' \in [VersionIds -> VersionRows]
    BY <1>13, <2>2, AdminFields, RowTypes DEF CopyVersion
  <2> QED
    BY <1>13, <2>1, <2>3 DEF CopyVersion, CatalogTypeOK, AdminRecords, VersionRows
<1>14. ASSUME NEW a \in Admins, Publish(a), UNCHANGED <<cache, res>> PROVE CatalogTypeOK'
  <2>1. adm' \in [Admins -> AdminRecords] /\ UNCHANGED <<policy, requests>>
    BY <1>14, ContinueShape DEF Publish
  <2>2. \A x \in VersionIds : /\ [ver[x] EXCEPT !.status = "published"] \in VersionRows
                                /\ [ver[x] EXCEPT !.status = "archived"] \in VersionRows
    BY AdminFields, RowTypes DEF VersionRows, RowStates, VersionStatuses
  <2>3. ver' \in [VersionIds -> VersionRows]
    BY <1>14, <2>2, AdminFields, RowTypes DEF Publish
  <2> QED
    BY <1>14, <2>1, <2>3 DEF Publish, CatalogTypeOK, AdminRecords, VersionRows
<1>15. ASSUME NEW a \in Admins, DeleteDraftVersion(a), UNCHANGED <<cache, res>>
       PROVE  CatalogTypeOK'
  <2>1. adm' \in [Admins -> AdminRecords] /\ UNCHANGED <<policy, requests>>
    BY <1>15, ContinueShape DEF DeleteDraftVersion
  <2>2. [ver[adm[a].ver] EXCEPT !.status = "deleted", !.locs = {}] \in VersionRows
    BY AdminFields, RowTypes DEF VersionRows, RowStates, VersionStatuses
  <2>3. ver' \in [VersionIds -> VersionRows]
    BY <1>15, <2>2, AdminFields, RowTypes DEF DeleteDraftVersion
  <2> QED
    BY <1>15, <2>1, <2>3 DEF DeleteDraftVersion, CatalogTypeOK, AdminRecords, VersionRows
<1>16. ASSUME NEW a \in Admins, UpsertLocale(a), UNCHANGED <<cache, res>> PROVE CatalogTypeOK'
  <2>1. adm' \in [Admins -> AdminRecords] /\ UNCHANGED <<policy, requests>>
    BY <1>16, ContinueShape DEF UpsertLocale
  <2>2. [ver[adm[a].ver] EXCEPT !.locs = ver[adm[a].ver].locs \cup {adm[a].loc}] \in VersionRows
    BY AdminFields, RowTypes DEF VersionRows, RowStates, VersionStatuses
  <2>3. ver' \in [VersionIds -> VersionRows]
    BY <1>16, <2>2, AdminFields, RowTypes DEF UpsertLocale
  <2> QED
    BY <1>16, <2>1, <2>3 DEF UpsertLocale, CatalogTypeOK, AdminRecords, VersionRows
<1>17. ASSUME NEW a \in Admins, RemoveLocale(a), UNCHANGED <<cache, res>> PROVE CatalogTypeOK'
  <2>1. adm' \in [Admins -> AdminRecords] /\ UNCHANGED <<policy, requests>>
    BY <1>17, ContinueShape DEF RemoveLocale
  <2>2. [ver[adm[a].ver] EXCEPT !.locs = ver[adm[a].ver].locs \ {adm[a].loc}] \in VersionRows
    BY AdminFields, RowTypes DEF VersionRows, RowStates, VersionStatuses
  <2>3. ver' \in [VersionIds -> VersionRows]
    BY <1>17, <2>2, AdminFields, RowTypes DEF RemoveLocale
  <2> QED
    BY <1>17, <2>1, <2>3 DEF RemoveLocale, CatalogTypeOK, AdminRecords, VersionRows
<1>18. ASSUME NEW a \in Admins, SetKillSwitch(a) PROVE CatalogTypeOK'
  <2>1. adm' \in [Admins -> AdminRecords] /\ UNCHANGED <<policy, requests>>
    BY <1>18, ContinueShape DEF SetKillSwitch, SetDisabled
  <2>2. [tpl[adm[a].tpl] EXCEPT !.disabled = adm[a].off] \in TemplateRows
    BY AdminFields, RowTypes DEF TemplateRows, RowStates, VersionStatuses
  <2>3. tpl' \in [TemplateIds -> TemplateRows]
    BY <1>18, <2>2, AdminFields, RowTypes DEF SetKillSwitch, SetDisabled
  <2> QED
    BY <1>18, <2>1, <2>3 DEF SetKillSwitch, SetDisabled, CatalogTypeOK, AdminRecords,
       TemplateRows
<1>19. ASSUME NEW a \in Admins, InvalidateResolvedTemplates(a) PROVE CatalogTypeOK'
  <2>1. adm' \in [Admins -> AdminRecords] /\ UNCHANGED <<policy, requests>>
    BY <1>19, ContinueShape DEF InvalidateResolvedTemplates
  <2> QED
    BY <1>19, <2>1 DEF InvalidateResolvedTemplates, CatalogTypeOK, AdminRecords
<1>20. ASSUME NEW a \in Admins, LoseInvalidation(a) PROVE CatalogTypeOK'
  <2>1. adm' \in [Admins -> AdminRecords] /\ UNCHANGED <<policy, requests>>
    BY <1>20, ContinueShape DEF LoseInvalidation
  <2> QED
    BY <1>20, <2>1 DEF LoseInvalidation, CatalogTypeOK, AdminRecords
<1>21. ASSUME NEW r \in Resolvers, NEW k \in Keys, Lookup(r, k) PROVE CatalogTypeOK'
  BY <1>21 DEF Lookup, catalogVars, CatalogTypeOK
<1>22. ASSUME NEW r \in Resolvers, ReadType(r) PROVE CatalogTypeOK'
  BY <1>22 DEF ReadType, catalogVars, CatalogTypeOK
<1>23. ASSUME NEW r \in Resolvers, ReadTemplate(r) PROVE CatalogTypeOK'
  BY <1>23 DEF ReadTemplate, catalogVars, CatalogTypeOK
<1>24. ASSUME NEW r \in Resolvers, ReadVersion(r) PROVE CatalogTypeOK'
  BY <1>24 DEF ReadVersion, catalogVars, CatalogTypeOK
<1>25. ASSUME NEW r \in Resolvers, ReadLocale(r) PROVE CatalogTypeOK'
  BY <1>25 DEF ReadLocale, catalogVars, CatalogTypeOK
<1>26. ASSUME NEW r \in Resolvers, Store(r) PROVE CatalogTypeOK'
  BY <1>26 DEF Store, catalogVars, CatalogTypeOK
<1>27. ASSUME NEW r \in Resolvers, ReadLocaleFails(r) PROVE CatalogTypeOK'
  BY <1>27 DEF ReadLocaleFails, rows, CatalogTypeOK
<1>28. ASSUME NEW r \in Resolvers, ResolveFails(r) PROVE CatalogTypeOK'
  BY <1>28 DEF ResolveFails, catalogVars, CatalogTypeOK
<1>29. ASSUME NEW k \in Keys, Expire(k) PROVE CatalogTypeOK'
  BY <1>29 DEF Expire, catalogVars, CatalogTypeOK
<1>30. CASE UNCHANGED vars
  BY <1>30 DEF vars, catalogVars, CatalogTypeOK
<1> QED
  BY <1>1, <1>2, <1>3, <1>4, <1>5, <1>6, <1>7, <1>8, <1>9, <1>10,
     <1>11, <1>12, <1>13, <1>14, <1>15, <1>16, <1>17, <1>18, <1>19, <1>20,
     <1>21, <1>22, <1>23, <1>24, <1>25, <1>26, <1>27, <1>28, <1>29, <1>30
  DEF Next, AdminStep, Write, Resolve

(* Cache and resolutions keep their types. *)
LEMMA ResolutionTypes == ASSUME TypeOK, Rooted, [Next]_vars PROVE ResolutionTypeOK'
<1> USE CatalogAssumption DEF TypeOK, ResolutionTypeOK
<1>1. ASSUME NEW P \in SUBSET Policies, UpdateWorkspacePolicies(P), UNCHANGED <<cache, res>>
      PROVE  ResolutionTypeOK'
  BY <1>1
<1>2. ASSUME NEW a \in Admins, Request(a), UNCHANGED <<cache, res>> PROVE ResolutionTypeOK'
  BY <1>2
<1>3. ASSUME NEW a \in Admins, CheckPublished(a), UNCHANGED <<cache, res>>
      PROVE  ResolutionTypeOK'
  BY <1>3
<1>4. ASSUME NEW a \in Admins, Fail(a), UNCHANGED <<cache, res>> PROVE ResolutionTypeOK'
  BY <1>4
<1>5. ASSUME NEW a \in Admins, InsertType(a), UNCHANGED <<cache, res>> PROVE ResolutionTypeOK'
  BY <1>5
<1>6. ASSUME NEW a \in Admins, WriteType(a), UNCHANGED <<cache, res>> PROVE ResolutionTypeOK'
  BY <1>6
<1>7. ASSUME NEW a \in Admins, SoftDeleteType(a), UNCHANGED <<cache, res>>
      PROVE  ResolutionTypeOK'
  BY <1>7
<1>8. ASSUME NEW a \in Admins, InsertTemplate(a), UNCHANGED <<cache, res>>
      PROVE  ResolutionTypeOK'
  BY <1>8
<1>9. ASSUME NEW a \in Admins, CopyTemplate(a), UNCHANGED <<cache, res>> PROVE ResolutionTypeOK'
  BY <1>9
<1>10. ASSUME NEW a \in Admins, SoftDeleteTemplate(a), UNCHANGED <<cache, res>>
       PROVE  ResolutionTypeOK'
  BY <1>10
<1>11. ASSUME NEW a \in Admins, InsertVersion(a), UNCHANGED <<cache, res>>
       PROVE  ResolutionTypeOK'
  BY <1>11
<1>12. ASSUME NEW a \in Admins, WriteVersion(a), UNCHANGED <<cache, res>>
       PROVE  ResolutionTypeOK'
  BY <1>12
<1>13. ASSUME NEW a \in Admins, CopyVersion(a), UNCHANGED <<cache, res>> PROVE ResolutionTypeOK'
  BY <1>13
<1>14. ASSUME NEW a \in Admins, Publish(a), UNCHANGED <<cache, res>> PROVE ResolutionTypeOK'
  BY <1>14
<1>15. ASSUME NEW a \in Admins, DeleteDraftVersion(a), UNCHANGED <<cache, res>>
       PROVE  ResolutionTypeOK'
  BY <1>15
<1>16. ASSUME NEW a \in Admins, UpsertLocale(a), UNCHANGED <<cache, res>>
       PROVE  ResolutionTypeOK'
  BY <1>16
<1>17. ASSUME NEW a \in Admins, RemoveLocale(a), UNCHANGED <<cache, res>>
       PROVE  ResolutionTypeOK'
  BY <1>17
<1>18. ASSUME NEW a \in Admins, SetKillSwitch(a) PROVE ResolutionTypeOK'
  <2>1. \A r \in Resolvers : [res[r] EXCEPT !.raced = res[r].pc # "idle"] \in Resolutions
    BY DEF Resolutions
  <2> QED
    BY <1>18, <2>1 DEF SetKillSwitch
<1>19. ASSUME NEW a \in Admins, InvalidateResolvedTemplates(a) PROVE ResolutionTypeOK'
  BY <1>19, NoEntryType DEF InvalidateResolvedTemplates
<1>20. ASSUME NEW a \in Admins, LoseInvalidation(a) PROVE ResolutionTypeOK'
  <2>1. \A k \in Keys : [cache[k] EXCEPT !.late = @ \/ k.ws = adm[a].ws] \in Entries
    BY DEF Entries
  <2> QED
    BY <1>20, <2>1 DEF LoseInvalidation
<1>21. ASSUME NEW r \in Resolvers, NEW k \in Keys, Lookup(r, k) PROVE ResolutionTypeOK'
  <2>1. [Free(k) EXCEPT !.pc = "type"] \in Resolutions
    BY FreeType DEF Resolutions
  <2> QED
    BY <1>21, <2>1 DEF Lookup
<1>22. ASSUME NEW r \in Resolvers, ReadType(r) PROVE ResolutionTypeOK'
  <2>1. Free(res[r].key) \in Resolutions
    BY FreeType DEF Resolutions
  <2> QED
    BY <1>22, <2>1 DEF ReadType, Return, Resolutions, GetTypeBySlug, FindTypeBySlugInScope
<1>23. ASSUME NEW r \in Resolvers, ReadTemplate(r) PROVE ResolutionTypeOK'
  <2>1. Free(res[r].key) \in Resolutions
    BY FreeType DEF Resolutions
  <2>2. CASE Return(r) /\ UNCHANGED cache
    BY <2>1, <2>2 DEF Return
  <2>3. ASSUME NEW x \in TemplateIds, UNCHANGED cache,
               res' = [res EXCEPT ![r].pc = "version", ![r].tpl = x, ![r].raced = FALSE]
        PROVE  ResolutionTypeOK'
    <3> DEFINE q == [res[r] EXCEPT !.pc = "version", !.tpl = x, !.raced = FALSE]
    <3>1. q \in Resolutions
      BY DEF Resolutions
    <3>2. res' = [res EXCEPT ![r] = q]
      BY <2>3
    <3> HIDE DEF q
    <3> QED
      BY <2>3, <3>1, <3>2
  <2> QED
    BY <1>23, <2>2, <2>3 DEF ReadTemplate, ResolveTemplate, GetByTypeAndScope
<1>24. ASSUME NEW r \in Resolvers, ReadVersion(r) PROVE ResolutionTypeOK'
  <2>1. Free(res[r].key) \in Resolutions
    BY FreeType DEF Resolutions
  <2>2. CASE Return(r) /\ UNCHANGED cache
    BY <2>1, <2>2 DEF Return
  <2>3. ASSUME NEW x \in VersionIds, UNCHANGED cache,
               res' = [res EXCEPT ![r].pc = "locale", ![r].ver = x, ![r].body = ver[x].body]
        PROVE  ResolutionTypeOK'
    <3> DEFINE q == [res[r] EXCEPT !.pc = "locale", !.ver = x, !.body = ver[x].body]
    <3>1. q \in Resolutions
      BY DEF Resolutions, CatalogTypeOK
    <3>2. res' = [res EXCEPT ![r] = q]
      BY <2>3
    <3> HIDE DEF q
    <3> QED
      BY <2>3, <3>1, <3>2
  <2> QED
    BY <1>24, <2>2, <2>3 DEF ReadVersion, GetPublishedVersion
<1>25. ASSUME NEW r \in Resolvers, ReadLocale(r) PROVE ResolutionTypeOK'
  <2>1. res[r].key.loc \in Locales \cup {NoLocale}
    BY ResolutionAssumption DEF Resolutions
  <2>2. LocaleContent(res[r].ver, res[r].body, res[r].key.loc) \in Locales \cup {NoLocale}
    BY <2>1, ResolutionAssumption DEF LocaleContent
  <2> DEFINE q == [res[r] EXCEPT !.pc = "store",
                    !.loc = LocaleContent(res[r].ver, res[r].body, res[r].key.loc)]
  <2>3. q \in Resolutions
    BY <2>2 DEF Resolutions
  <2>4. res' = [res EXCEPT ![r] = q] /\ UNCHANGED cache
    BY <1>25 DEF ReadLocale
  <2> HIDE DEF q
  <2> QED
    BY <2>3, <2>4
<1>26. ASSUME NEW r \in Resolvers, Store(r) PROVE ResolutionTypeOK'
  <2>1. Free(res[r].key) \in Resolutions
    BY FreeType DEF Resolutions
  <2>2. [has |-> TRUE, tpl |-> res[r].tpl, ver |-> res[r].ver, body |-> res[r].body,
         loc |-> res[r].loc, late |-> res[r].raced] \in Entries /\ res[r].key \in Keys
    BY DEF Resolutions, Entries
  <2>3. cache' \in [Keys -> Entries]
    BY <1>26, <2>2 DEF Store
  <2> QED
    BY <1>26, <2>1, <2>3 DEF Store, Return
<1>27. ASSUME NEW r \in Resolvers, ReadLocaleFails(r) PROVE ResolutionTypeOK'
  <2>1. res[r].key.loc \in Locales \cup {NoLocale}
    BY ResolutionAssumption DEF Resolutions
  <2>2. res[r].key.loc # NoLocale => PrefixOf[res[r].key.loc] \in Locales \cup {NoLocale}
    BY <2>1, ResolutionAssumption
  <2>3. PICK c \in Locales \cup {NoLocale} : res' = [res EXCEPT ![r].pc = "store", ![r].loc = c]
    BY <1>27, <2>2 DEF ReadLocaleFails
  <2> DEFINE q == [res[r] EXCEPT !.pc = "store", !.loc = c]
  <2>4. q \in Resolutions
    BY DEF Resolutions
  <2>5. res' = [res EXCEPT ![r] = q] /\ UNCHANGED cache
    BY <1>27, <2>3 DEF ReadLocaleFails
  <2> HIDE DEF q
  <2> QED
    BY <2>4, <2>5
<1>28. ASSUME NEW r \in Resolvers, ResolveFails(r) PROVE ResolutionTypeOK'
  <2>1. Free(res[r].key) \in Resolutions
    BY FreeType DEF Resolutions
  <2> QED
    BY <1>28, <2>1 DEF ResolveFails, Return, Resolutions
<1>29. ASSUME NEW k \in Keys, Expire(k) PROVE ResolutionTypeOK'
  BY <1>29, NoEntryType DEF Expire
<1>30. CASE UNCHANGED vars
  BY <1>30 DEF vars, catalogVars
<1> QED
  BY <1>1, <1>2, <1>3, <1>4, <1>5, <1>6, <1>7, <1>8, <1>9, <1>10,
     <1>11, <1>12, <1>13, <1>14, <1>15, <1>16, <1>17, <1>18, <1>19, <1>20,
     <1>21, <1>22, <1>23, <1>24, <1>25, <1>26, <1>27, <1>28, <1>29, <1>30
  DEF Next, AdminStep, Write, Resolve

-----------------------------------------------------------------------------
(* Which steps write what. *)
WritesTemplates(a) ==
    InsertTemplate(a) \/ CopyTemplate(a) \/ SoftDeleteTemplate(a) \/ SetKillSwitch(a)
WritesVersions(a) ==
    \/ InsertVersion(a) \/ WriteVersion(a) \/ CopyVersion(a) \/ Publish(a) \/ CopyTemplate(a)
    \/ DeleteDraftVersion(a) \/ UpsertLocale(a) \/ RemoveLocale(a)
WritesResolution(r) ==
    (\E k \in Keys : Lookup(r, k)) \/ Resolve(r) \/ ReadLocaleFails(r) \/ ResolveFails(r)
Invalidates(a) == InvalidateResolvedTemplates(a) \/ LoseInvalidation(a)

Writers ==
    /\ UNCHANGED tpl \/ \E a \in Admins : WritesTemplates(a)
    /\ UNCHANGED ver \/ \E a \in Admins : WritesVersions(a)
    /\ \/ UNCHANGED res \/ (\E r \in Resolvers : WritesResolution(r))
       \/ (\E a \in Admins : SetKillSwitch(a))
    /\ \/ UNCHANGED cache \/ (\E r \in Resolvers : Store(r)) \/ (\E k \in Keys : Expire(k))
       \/ \E a \in Admins : Invalidates(a)
    /\ \A b \in Admins : Exists(adm'[b].tpl)
    /\ \A b \in Admins : adm[b].pc = "invalidate" =>
         Invalidates(b) \/ (adm'[b].pc = "invalidate" /\ adm'[b].ws = adm[b].ws)

(* Whatever the step, it is one of these writers that changes the state. *)
LEMMA OnlyWriters == ASSUME TypeOK, Rooted, [Next]_vars PROVE Writers
<1> USE DEF TypeOK, Rooted, Writers
<1>1. ASSUME NEW P \in SUBSET Policies, UpdateWorkspacePolicies(P), UNCHANGED <<cache, res>>
      PROVE  Writers
  BY <1>1 DEF UpdateWorkspacePolicies
<1>2. ASSUME NEW a \in Admins, Request(a), UNCHANGED <<cache, res>> PROVE Writers
  <2>1. PICK q \in AdminRecords : Begin(a, q) /\ Exists(q.tpl)
    BY <1>2, RequestShape
  <2>2. UNCHANGED rows /\ adm[a].pc = "idle" /\ adm' = [adm EXCEPT ![a] = q]
    BY <2>1 DEF Begin
  <2>3. adm \in [Admins -> AdminRecords]
    BY DEF CatalogTypeOK, AdminRecords
  <2> QED
    BY <1>2, <2>1, <2>2, <2>3 DEF rows
<1>3. ASSUME NEW a \in Admins, CheckPublished(a), UNCHANGED <<cache, res>> PROVE Writers
  <2>1. \A b \in Admins : adm'[b].tpl \in {adm[b].tpl, SeedTemplate} /\ (b # a => adm'[b] = adm[b])
    BY <1>3, ContinueShape DEF CheckPublished
  <2> QED
    BY <1>3, <2>1 DEF CheckPublished, At, WritesTemplates, WritesVersions, Invalidates,
       Resolve, WritesResolution
<1>4. ASSUME NEW a \in Admins, Fail(a), UNCHANGED <<cache, res>> PROVE Writers
  <2>1. \A b \in Admins : adm'[b].tpl \in {adm[b].tpl, SeedTemplate} /\ (b # a => adm'[b] = adm[b])
    BY <1>4, ContinueShape DEF Fail
  <2> QED
    BY <1>4, <2>1 DEF Fail, At, WritesTemplates, WritesVersions, Invalidates, Resolve,
       WritesResolution
<1>5. ASSUME NEW a \in Admins, InsertType(a), UNCHANGED <<cache, res>> PROVE Writers
  <2>1. \A b \in Admins : adm'[b].tpl \in {adm[b].tpl, SeedTemplate} /\ (b # a => adm'[b] = adm[b])
    BY <1>5, ContinueShape DEF InsertType
  <2> QED
    BY <1>5, <2>1 DEF InsertType, At, WritesTemplates, WritesVersions, Invalidates, Resolve,
       WritesResolution
<1>6. ASSUME NEW a \in Admins, WriteType(a), UNCHANGED <<cache, res>> PROVE Writers
  <2>1. \A b \in Admins : adm'[b].tpl \in {adm[b].tpl, SeedTemplate} /\ (b # a => adm'[b] = adm[b])
    BY <1>6, ContinueShape DEF WriteType
  <2> QED
    BY <1>6, <2>1 DEF WriteType, At, WritesTemplates, WritesVersions, Invalidates, Resolve,
       WritesResolution
<1>7. ASSUME NEW a \in Admins, SoftDeleteType(a), UNCHANGED <<cache, res>> PROVE Writers
  <2>1. \A b \in Admins : adm'[b].tpl \in {adm[b].tpl, SeedTemplate} /\ (b # a => adm'[b] = adm[b])
    BY <1>7, ContinueShape DEF SoftDeleteType
  <2> QED
    BY <1>7, <2>1 DEF SoftDeleteType, At, WritesTemplates, WritesVersions, Invalidates,
       Resolve, WritesResolution
<1>8. ASSUME NEW a \in Admins, InsertTemplate(a), UNCHANGED <<cache, res>> PROVE Writers
  <2>1. \A b \in Admins : adm'[b].tpl \in {adm[b].tpl, SeedTemplate} /\ (b # a => adm'[b] = adm[b])
    BY <1>8, ContinueShape DEF InsertTemplate
  <2> QED
    BY <1>8, <2>1 DEF InsertTemplate, At, WritesTemplates, WritesVersions, Invalidates,
       Resolve, WritesResolution
<1>9. ASSUME NEW a \in Admins, CopyTemplate(a), UNCHANGED <<cache, res>> PROVE Writers
  <2>1. \A b \in Admins : adm'[b].tpl \in {adm[b].tpl, SeedTemplate} /\ (b # a => adm'[b] = adm[b])
    BY <1>9, ContinueShape DEF CopyTemplate
  <2> QED
    BY <1>9, <2>1 DEF CopyTemplate, At, WritesTemplates, WritesVersions, Invalidates, Resolve,
       WritesResolution
<1>10. ASSUME NEW a \in Admins, SoftDeleteTemplate(a), UNCHANGED <<cache, res>> PROVE Writers
  <2>1. \A b \in Admins : adm'[b].tpl \in {adm[b].tpl, SeedTemplate} /\ (b # a => adm'[b] = adm[b])
    BY <1>10, ContinueShape DEF SoftDeleteTemplate
  <2> QED
    BY <1>10, <2>1 DEF SoftDeleteTemplate, At, WritesTemplates, WritesVersions, Invalidates,
       Resolve, WritesResolution
<1>11. ASSUME NEW a \in Admins, InsertVersion(a), UNCHANGED <<cache, res>> PROVE Writers
  <2>1. \A b \in Admins : adm'[b].tpl \in {adm[b].tpl, SeedTemplate} /\ (b # a => adm'[b] = adm[b])
    BY <1>11, ContinueShape DEF InsertVersion
  <2> QED
    BY <1>11, <2>1 DEF InsertVersion, At, WritesTemplates, WritesVersions, Invalidates,
       Resolve, WritesResolution
<1>12. ASSUME NEW a \in Admins, WriteVersion(a), UNCHANGED <<cache, res>> PROVE Writers
  <2>1. \A b \in Admins : adm'[b].tpl \in {adm[b].tpl, SeedTemplate} /\ (b # a => adm'[b] = adm[b])
    BY <1>12, ContinueShape DEF WriteVersion
  <2> QED
    BY <1>12, <2>1 DEF WriteVersion, At, WritesTemplates, WritesVersions, Invalidates,
       Resolve, WritesResolution
<1>13. ASSUME NEW a \in Admins, CopyVersion(a), UNCHANGED <<cache, res>> PROVE Writers
  <2>1. \A b \in Admins : adm'[b].tpl \in {adm[b].tpl, SeedTemplate} /\ (b # a => adm'[b] = adm[b])
    BY <1>13, ContinueShape DEF CopyVersion
  <2> QED
    BY <1>13, <2>1 DEF CopyVersion, At, WritesTemplates, WritesVersions, Invalidates, Resolve,
       WritesResolution
<1>14. ASSUME NEW a \in Admins, Publish(a), UNCHANGED <<cache, res>> PROVE Writers
  <2>1. \A b \in Admins : adm'[b].tpl \in {adm[b].tpl, SeedTemplate} /\ (b # a => adm'[b] = adm[b])
    BY <1>14, ContinueShape DEF Publish
  <2> QED
    BY <1>14, <2>1 DEF Publish, At, WritesTemplates, WritesVersions, Invalidates, Resolve,
       WritesResolution
<1>15. ASSUME NEW a \in Admins, DeleteDraftVersion(a), UNCHANGED <<cache, res>> PROVE Writers
  <2>1. \A b \in Admins : adm'[b].tpl \in {adm[b].tpl, SeedTemplate} /\ (b # a => adm'[b] = adm[b])
    BY <1>15, ContinueShape DEF DeleteDraftVersion
  <2> QED
    BY <1>15, <2>1 DEF DeleteDraftVersion, At, WritesTemplates, WritesVersions, Invalidates,
       Resolve, WritesResolution
<1>16. ASSUME NEW a \in Admins, UpsertLocale(a), UNCHANGED <<cache, res>> PROVE Writers
  <2>1. \A b \in Admins : adm'[b].tpl \in {adm[b].tpl, SeedTemplate} /\ (b # a => adm'[b] = adm[b])
    BY <1>16, ContinueShape DEF UpsertLocale
  <2> QED
    BY <1>16, <2>1 DEF UpsertLocale, At, WritesTemplates, WritesVersions, Invalidates,
       Resolve, WritesResolution
<1>17. ASSUME NEW a \in Admins, RemoveLocale(a), UNCHANGED <<cache, res>> PROVE Writers
  <2>1. \A b \in Admins : adm'[b].tpl \in {adm[b].tpl, SeedTemplate} /\ (b # a => adm'[b] = adm[b])
    BY <1>17, ContinueShape DEF RemoveLocale
  <2> QED
    BY <1>17, <2>1 DEF RemoveLocale, At, WritesTemplates, WritesVersions, Invalidates,
       Resolve, WritesResolution
<1>18. ASSUME NEW a \in Admins, SetKillSwitch(a) PROVE Writers
  <2>1. \A b \in Admins : adm'[b].tpl \in {adm[b].tpl, SeedTemplate} /\ (b # a => adm'[b] = adm[b])
    BY <1>18, ContinueShape DEF SetKillSwitch, SetDisabled
  <2> QED
    BY <1>18, <2>1 DEF SetKillSwitch, SetDisabled, At, WritesTemplates, WritesVersions,
       Invalidates, Resolve, WritesResolution
<1>19. ASSUME NEW a \in Admins, InvalidateResolvedTemplates(a) PROVE Writers
  <2>1. \A b \in Admins : adm'[b].tpl \in {adm[b].tpl, SeedTemplate} /\ (b # a => adm'[b] = adm[b])
    BY <1>19, ContinueShape DEF InvalidateResolvedTemplates
  <2> QED
    BY <1>19, <2>1 DEF InvalidateResolvedTemplates, At, WritesTemplates, WritesVersions,
       Invalidates, Resolve, WritesResolution
<1>20. ASSUME NEW a \in Admins, LoseInvalidation(a) PROVE Writers
  <2>1. \A b \in Admins : adm'[b].tpl \in {adm[b].tpl, SeedTemplate} /\ (b # a => adm'[b] = adm[b])
    BY <1>20, ContinueShape DEF LoseInvalidation
  <2> QED
    BY <1>20, <2>1 DEF LoseInvalidation, At, WritesTemplates, WritesVersions, Invalidates,
       Resolve, WritesResolution
<1>21. ASSUME NEW r \in Resolvers, NEW k \in Keys, Lookup(r, k) PROVE Writers
  <2>1. UNCHANGED catalogVars /\ WritesResolution(r) /\ (UNCHANGED cache \/ Store(r))
    BY <1>21 DEF Lookup, WritesResolution, Resolve
  <2> QED
    BY <2>1 DEF catalogVars
<1>22. ASSUME NEW r \in Resolvers, ReadType(r) PROVE Writers
  <2>1. UNCHANGED catalogVars /\ WritesResolution(r) /\ (UNCHANGED cache \/ Store(r))
    BY <1>22 DEF ReadType, WritesResolution, Resolve
  <2> QED
    BY <2>1 DEF catalogVars
<1>23. ASSUME NEW r \in Resolvers, ReadTemplate(r) PROVE Writers
  <2>1. UNCHANGED catalogVars /\ WritesResolution(r) /\ (UNCHANGED cache \/ Store(r))
    BY <1>23 DEF ReadTemplate, WritesResolution, Resolve
  <2> QED
    BY <2>1 DEF catalogVars
<1>24. ASSUME NEW r \in Resolvers, ReadVersion(r) PROVE Writers
  <2>1. UNCHANGED catalogVars /\ WritesResolution(r) /\ (UNCHANGED cache \/ Store(r))
    BY <1>24 DEF ReadVersion, WritesResolution, Resolve
  <2> QED
    BY <2>1 DEF catalogVars
<1>25. ASSUME NEW r \in Resolvers, ReadLocale(r) PROVE Writers
  <2>1. UNCHANGED catalogVars /\ WritesResolution(r) /\ (UNCHANGED cache \/ Store(r))
    BY <1>25 DEF ReadLocale, WritesResolution, Resolve
  <2> QED
    BY <2>1 DEF catalogVars
<1>26. ASSUME NEW r \in Resolvers, Store(r) PROVE Writers
  <2>1. UNCHANGED catalogVars /\ WritesResolution(r)
    BY <1>26 DEF Store, WritesResolution, Resolve
  <2> QED
    BY <1>26, <2>1 DEF catalogVars
<1>27. ASSUME NEW r \in Resolvers, ReadLocaleFails(r) PROVE Writers
  BY <1>27 DEF ReadLocaleFails, WritesResolution, rows
<1>28. ASSUME NEW r \in Resolvers, ResolveFails(r) PROVE Writers
  <2>1. UNCHANGED catalogVars /\ WritesResolution(r) /\ (UNCHANGED cache \/ Store(r))
    BY <1>28 DEF ResolveFails, WritesResolution, Resolve
  <2> QED
    BY <2>1 DEF catalogVars
<1>29. ASSUME NEW k \in Keys, Expire(k) PROVE Writers
  BY <1>29 DEF Expire, catalogVars
<1>30. CASE UNCHANGED vars
  BY <1>30 DEF vars, catalogVars
<1> QED
  BY <1>1, <1>2, <1>3, <1>4, <1>5, <1>6, <1>7, <1>8, <1>9, <1>10,
     <1>11, <1>12, <1>13, <1>14, <1>15, <1>16, <1>17, <1>18, <1>19, <1>20,
     <1>21, <1>22, <1>23, <1>24, <1>25, <1>26, <1>27, <1>28, <1>29, <1>30
  DEF Next, AdminStep, Write, Resolve

(* A template keeps its owner, and only the kill switch switches it off. *)
TemplateKept(p) ==
    /\ tpl'[p].state # "absent" /\ tpl'[p].ws = tpl[p].ws
    /\ tpl'[p].disabled = tpl[p].disabled \/ \E a \in Admins : SetKillSwitch(a)

LEMMA TemplatesPersist ==
  ASSUME TypeOK, Rooted, [Next]_vars, NEW p \in TemplateIds, Exists(p)
  PROVE  TemplateKept(p)
<1> USE RowTypes DEF TypeOK, Exists, TemplateKept
<1>1. ASSUME NEW a \in Admins, InsertTemplate(a) PROVE TemplateKept(p)
  BY <1>1 DEF InsertTemplate
<1>2. ASSUME NEW a \in Admins, CopyTemplate(a) PROVE TemplateKept(p)
  <2>1. PICK q, C, f : Copies(a, q, C, f)
    BY <1>2, CopyShape
  <2> QED
    BY <2>1 DEF Copies
<1>3. ASSUME NEW a \in Admins, SoftDeleteTemplate(a) PROVE TemplateKept(p)
  BY <1>3, AdminFields DEF SoftDeleteTemplate, TemplateRows
<1>4. ASSUME NEW a \in Admins, SetKillSwitch(a) PROVE TemplateKept(p)
  BY <1>4, AdminFields DEF SetKillSwitch, SetDisabled, TemplateRows
<1> QED
  BY <1>1, <1>2, <1>3, <1>4, OnlyWriters DEF Writers, WritesTemplates

(* What was published stays as it was published. *)
VersionKept(v) == Sealed(v)' /\ ver'[v].body = ver[v].body /\ ver'[v].tpl = ver[v].tpl

LEMMA SealedPersist ==
  ASSUME TypeOK, Rooted, [Next]_vars, NEW v \in VersionIds, Sealed(v)
  PROVE  VersionKept(v)
<1> USE RowTypes DEF TypeOK, Sealed, VersionKept
<1>1. ASSUME NEW a \in Admins, WritesVersions(a), ~CopyTemplate(a), ~Publish(a)
      PROVE  VersionKept(v)
  BY <1>1, AdminFields DEF WritesVersions, InsertVersion, WriteVersion, CopyVersion,
     DeleteDraftVersion, UpsertLocale, RemoveLocale, VersionRows
<1>2. ASSUME NEW a \in Admins, Publish(a) PROVE VersionKept(v)
  BY <1>2, AdminFields DEF Publish, VersionRows, GetPublishedVersion
<1>3. ASSUME NEW a \in Admins, CopyTemplate(a) PROVE VersionKept(v)
  <2>1. PICK q, C, f : Copies(a, q, C, f)
    BY <1>3, CopyShape
  <2>2. v \notin C
    BY <2>1 DEF Copies
  <2> QED
    BY <2>1, <2>2 DEF Copies
<1> QED
  BY <1>1, <1>2, <1>3, OnlyWriters DEF Writers

-----------------------------------------------------------------------------
(* No template row ever goes back to absent. *)
LEMMA ExistsPersists ==
  ASSUME TypeOK, Rooted, [Next]_vars, NEW p \in TemplateIds, Exists(p) PROVE Exists(p)'
  BY TemplatesPersist DEF TemplateKept, Exists

(* New versions, resolutions and entries name templates that exist. *)
LEMMA VersionsRooted ==
  ASSUME TypeOK, Rooted, [Next]_vars, NEW v \in VersionIds PROVE tpl'[ver'[v].tpl].state # "absent"
<1> USE RowTypes DEF TypeOK
<1>1. \A x \in VersionIds : ver[x].tpl \in TemplateIds /\ Exists(ver[x].tpl)
  BY DEF Rooted, VersionRows
<1>2. CASE \E x \in VersionIds : ver'[v].tpl = ver[x].tpl
  BY <1>1, <1>2, ExistsPersists DEF Exists
<1>3. ASSUME NEW a \in Admins, WritesVersions(a), ~CopyTemplate(a), ~InsertVersion(a)
      PROVE  \E x \in VersionIds : ver'[v].tpl = ver[x].tpl
  BY <1>3, AdminFields DEF WritesVersions, WriteVersion, CopyVersion, Publish,
     DeleteDraftVersion, UpsertLocale, RemoveLocale, VersionRows
<1>4. ASSUME NEW a \in Admins, InsertVersion(a) PROVE tpl'[ver'[v].tpl].state # "absent"
  <2>1. tpl'[adm[a].tpl].state # "absent"
    BY AdminFields, ExistsPersists DEF Rooted, Exists
  <2>2. ver'[v].tpl = adm[a].tpl \/ ver'[v].tpl = ver[v].tpl
    BY <1>4 DEF InsertVersion
  <2> QED
    BY <1>2, <2>1, <2>2 DEF Exists
<1>5. ASSUME NEW a \in Admins, CopyTemplate(a) PROVE tpl'[ver'[v].tpl].state # "absent"
  <2>1. PICK q, C, f : Copies(a, q, C, f)
    BY <1>5, CopyShape
  <2>2. tpl'[q].state # "absent"
    <3>1. tpl'[q] = [tpl[adm[a].tpl] EXCEPT !.ws = adm[a].ws, !.fork = TRUE]
      BY <2>1 DEF Copies
    <3>2. tpl[adm[a].tpl] \in TemplateRows /\ tpl[adm[a].tpl].state # "absent"
      BY AdminFields DEF Rooted, Exists
    <3> QED
      BY <3>1, <3>2 DEF TemplateRows
  <2>3. CASE v \notin C
    BY <1>2, <2>1, <2>3 DEF Copies
  <2>4. CASE v \in C
    <3>1. f[v] \in VersionIds
      BY <2>1, <2>4 DEF Copies, ListVersions
    <3>2. ver'[v].tpl = q
      BY <2>1, <2>4, <3>1 DEF Copies, VersionRows
    <3> QED
      BY <2>2, <3>2 DEF Exists
  <2> QED
    BY <2>3, <2>4
<1> QED
  BY <1>2, <1>3, <1>4, <1>5, OnlyWriters DEF Writers

LEMMA ResolutionsRooted ==
  ASSUME TypeOK, Rooted, [Next]_vars, NEW r \in Resolvers PROVE tpl'[res'[r].tpl].state # "absent"
<1> USE DEF TypeOK
<1>1. \A p \in TemplateIds : Exists(p) => Exists(p)'
  BY ExistsPersists
<1>2. CASE res'[r].tpl \in {res[r].tpl, SeedTemplate}
  BY <1>1, <1>2, CatalogAssumption DEF Rooted, Resolutions, Exists
<1>3. ASSUME NEW s \in Resolvers, WritesResolution(s), ~ReadTemplate(s)
      PROVE  res'[r].tpl \in {res[r].tpl, SeedTemplate}
  <2>1. CASE \E k \in Keys : Lookup(s, k)
    BY <2>1 DEF Lookup, Free, Resolutions
  <2>2. CASE ~\E k \in Keys : Lookup(s, k)
    <3>1. CASE Return(s)
      BY <3>1 DEF Return, Free, Resolutions
    <3>2. CASE ReadType(s)
      BY <3>1, <3>2 DEF ReadType, Resolutions
    <3>3. CASE ReadVersion(s)
      <4>1. Return(s) \/ \E v \in VersionIds :
              res' = [res EXCEPT ![s].pc = "locale", ![s].ver = v, ![s].body = ver[v].body]
        BY <3>3 DEF ReadVersion, GetPublishedVersion
      <4>2. ASSUME NEW v \in VersionIds,
                   res' = [res EXCEPT ![s].pc = "locale", ![s].ver = v, ![s].body = ver[v].body]
            PROVE  res'[r].tpl = res[r].tpl
        BY <4>2 DEF Resolutions
      <4> QED
        BY <3>1, <4>1, <4>2
    <3>4. CASE ReadLocale(s) \/ ReadLocaleFails(s)
      BY <3>4 DEF ReadLocale, ReadLocaleFails, Resolutions
    <3>5. CASE Store(s) \/ ResolveFails(s)
      BY <3>1, <3>5 DEF Store, ResolveFails
    <3> QED
      BY <1>3, <2>2, <3>2, <3>3, <3>4, <3>5 DEF WritesResolution, Resolve
  <2> QED
    BY <2>1, <2>2
<1>4. ASSUME NEW s \in Resolvers, ReadTemplate(s) PROVE tpl'[res'[r].tpl].state # "absent"
  <2>1. \A p \in ResolveTemplate(res[s].typ, res[s].key.ws) : p \in TemplateIds /\ Exists(p)
    BY DEF ResolveTemplate, GetByTypeAndScope, Exists
  <2>2. CASE Return(s)
    <3>1. res'[r].tpl \in {res[r].tpl, SeedTemplate}
      BY <2>2 DEF Return, Free
    <3> QED
      BY <1>2, <3>1
  <2>3. CASE \E p \in ResolveTemplate(res[s].typ, res[s].key.ws) :
               res' = [res EXCEPT ![s].pc = "version", ![s].tpl = p, ![s].raced = FALSE]
    <3>1. PICK p \in ResolveTemplate(res[s].typ, res[s].key.ws) :
             res' = [res EXCEPT ![s].pc = "version", ![s].tpl = p, ![s].raced = FALSE]
      BY <2>3
    <3>2. res'[r].tpl = p \/ res'[r].tpl = res[r].tpl
      BY <3>1 DEF Resolutions
    <3> QED
      BY <1>1, <1>2, <2>1, <3>2 DEF Exists
  <2> QED
    BY <1>4, <2>2, <2>3 DEF ReadTemplate
<1>5. ASSUME NEW a \in Admins, SetKillSwitch(a) PROVE res'[r].tpl = res[r].tpl
  BY <1>5 DEF SetKillSwitch, Resolutions
<1> QED
  BY <1>2, <1>3, <1>4, <1>5, OnlyWriters DEF Writers

(* What the cache holds was there, or was just stored. *)
EntryFrom(k) ==
    \/ ~cache'[k].has /\ cache'[k].tpl = SeedTemplate
    \/ /\ cache'[k].has = cache[k].has /\ cache'[k].tpl = cache[k].tpl
       /\ cache'[k].ver = cache[k].ver /\ cache'[k].body = cache[k].body
       /\ cache[k].late => cache'[k].late
    \/ \E r \in Resolvers :
         /\ res[r].pc = "store" /\ res[r].key = k
         /\ cache'[k].tpl = res[r].tpl /\ cache'[k].ver = res[r].ver
         /\ cache'[k].body = res[r].body /\ cache'[k].late = res[r].raced
         /\ UNCHANGED tpl

LEMMA EntriesFrom ==
  ASSUME TypeOK, Rooted, [Next]_vars, NEW k \in Keys PROVE EntryFrom(k)
<1> USE DEF TypeOK, EntryFrom
<1>1. ASSUME NEW r \in Resolvers, Store(r) PROVE EntryFrom(k)
  <2> DEFINE e == [has |-> TRUE, tpl |-> res[r].tpl, ver |-> res[r].ver, body |-> res[r].body,
                   loc |-> res[r].loc, late |-> res[r].raced]
  <2>1. /\ e.tpl = res[r].tpl /\ e.ver = res[r].ver /\ e.body = res[r].body
        /\ e.late = res[r].raced
    OBVIOUS
  <2>2. UNCHANGED cache \/ cache' = [cache EXCEPT ![res[r].key] = e]
    BY <1>1 DEF Store
  <2>3. res[r].pc = "store" /\ res[r].key \in Keys /\ UNCHANGED tpl
    BY <1>1 DEF Store, Resolutions, catalogVars
  <2> HIDE DEF e
  <2>4. CASE UNCHANGED cache
    BY <2>4
  <2>5. CASE cache' = [cache EXCEPT ![res[r].key] = e]
    <3>1. CASE k = res[r].key
      <4>1. cache'[k] = e
        BY <2>3, <2>5, <3>1
      <4> QED
        BY <2>1, <2>3, <3>1, <4>1
    <3>2. CASE k # res[r].key
      BY <2>5, <3>2
    <3> QED
      BY <3>1, <3>2
  <2> QED
    BY <2>2, <2>4, <2>5
<1>2. ASSUME NEW l \in Keys, Expire(l) PROVE EntryFrom(k)
  BY <1>2 DEF Expire, NoEntry
<1>3. ASSUME NEW a \in Admins, InvalidateResolvedTemplates(a) PROVE EntryFrom(k)
  BY <1>3 DEF InvalidateResolvedTemplates, NoEntry
<1>4. ASSUME NEW a \in Admins, LoseInvalidation(a) PROVE EntryFrom(k)
  BY <1>4 DEF LoseInvalidation, Entries
<1> QED
  BY <1>1, <1>2, <1>3, <1>4, OnlyWriters DEF Writers, Invalidates

(* Nothing comes to name a template that does not exist. *)
LEMMA RootedPreserved == ASSUME TypeOK, Rooted, [Next]_vars PROVE Rooted'
<1> USE DEF TypeOK
<1>1. \A p \in TemplateIds : Exists(p) => Exists(p)'
  BY ExistsPersists
<1>2. Exists(SeedTemplate)'
  BY <1>1, CatalogAssumption DEF Rooted
<1>3. \A v \in VersionIds : Exists(ver[v].tpl)'
  BY VersionsRooted DEF Exists
<1>4. \A r \in Resolvers : Exists(res[r].tpl)'
  BY ResolutionsRooted DEF Exists
<1>5. \A a \in Admins : Exists(adm[a].tpl)'
  <2> SUFFICES ASSUME NEW a \in Admins PROVE Exists(adm[a].tpl)'
    OBVIOUS
  <2>1. Exists(adm'[a].tpl) /\ adm'[a].tpl \in TemplateIds
    BY OnlyWriters, CatalogTypes DEF Writers, CatalogTypeOK
  <2> QED
    BY <1>1, <2>1 DEF Exists
<1>6. \A k \in Keys : Exists(cache[k].tpl)'
  <2> SUFFICES ASSUME NEW k \in Keys PROVE Exists(cache[k].tpl)'
    OBVIOUS
  <2>1. cache'[k].tpl \in TemplateIds /\ Exists(cache'[k].tpl)
    BY EntriesFrom, CatalogAssumption DEF EntryFrom, Rooted, Entries, Resolutions
  <2> QED
    BY <1>1, <2>1 DEF Exists
<1> QED
  BY <1>2, <1>3, <1>4, <1>5, <1>6 DEF Rooted

-----------------------------------------------------------------------------
(* Publishing archives the one before; a fork's copies have a new template id. *)
LEMMA OnePublishedPreserved ==
  ASSUME TypeOK, Rooted, OnePublished, [Next]_vars PROVE OnePublished'
<1> USE RowTypes DEF TypeOK
<1>1. \A v \in VersionIds : ver[v].tpl \in TemplateIds /\ Exists(ver[v].tpl)
  BY DEF Rooted, VersionRows
<1>2. ASSUME \A v \in VersionIds : ver'[v].status = "published" =>
               ver[v].status = "published" /\ ver'[v].tpl = ver[v].tpl
      PROVE  OnePublished'
  BY <1>2 DEF OnePublished
<1>3. ASSUME NEW a \in Admins, WritesVersions(a), ~CopyTemplate(a), ~Publish(a)
      PROVE  \A v \in VersionIds : ver'[v].status = "published" =>
               ver[v].status = "published" /\ ver'[v].tpl = ver[v].tpl
  BY <1>3, AdminFields DEF WritesVersions, InsertVersion, WriteVersion, CopyVersion,
     DeleteDraftVersion, UpsertLocale, RemoveLocale, VersionRows
<1>4. ASSUME NEW a \in Admins, Publish(a) PROVE OnePublished'
  <2> DEFINE d == adm[a].ver
  <2>1. d \in VersionIds
    BY AdminFields
  <2>2. \A v \in VersionIds : ver'[v].tpl = ver[v].tpl
    BY <1>4, AdminFields DEF Publish, VersionRows
  <2>3. \A v \in VersionIds : ver'[v].status = "published" =>
          v = d \/ (ver[v].status = "published" /\ ver[v].tpl # ver[d].tpl)
    BY <1>4, AdminFields DEF Publish, GetPublishedVersion, VersionRows
  <2> QED
    BY <2>1, <2>2, <2>3 DEF OnePublished
<1>5. ASSUME NEW a \in Admins, CopyTemplate(a) PROVE OnePublished'
  <2>1. PICK q, C, f : Copies(a, q, C, f)
    BY <1>5, CopyShape
  <2>2. \A v \in VersionIds \ C : ver'[v] = ver[v]
    BY <2>1 DEF Copies
  <2>3. \A v \in VersionIds \ C : ver'[v].tpl # q
    BY <1>1, <2>1, <2>2 DEF Copies, Exists
  <2>4. \A v \in C : f[v] \in VersionIds /\ ver[f[v]].tpl = adm[a].tpl
    BY <2>1 DEF Copies, ListVersions
  <2>5. \A v \in C : ver'[v].tpl = q /\ ver'[v].status = ver[f[v]].status
    BY <2>1, <2>4 DEF Copies, VersionRows
  <2>6. \A x, y \in C : f[x] = f[y] => x = y
    BY <2>1 DEF Copies
  <2> QED
    BY <2>2, <2>3, <2>4, <2>5, <2>6 DEF OnePublished
<1>6. CASE UNCHANGED ver
  BY <1>6 DEF OnePublished
<1> QED
  BY <1>2, <1>3, <1>4, <1>5, <1>6, OnlyWriters DEF Writers

(* What a resolution carries was read by it, or is read in this step. *)
Carries(r) ==
    \/ res'[r].pc \in {"idle", "type", "template"}
    \/ /\ res[r].pc = "template" /\ res'[r].pc = "version"
       /\ ~tpl[res'[r].tpl].disabled /\ UNCHANGED tpl
    \/ /\ res[r].pc = "version" /\ res'[r].pc = "locale"
       /\ res'[r].tpl = res[r].tpl /\ res'[r].key = res[r].key /\ res'[r].raced = res[r].raced
       /\ res'[r].ver \in GetPublishedVersion(res[r].tpl)
       /\ res'[r].body = ver[res'[r].ver].body /\ UNCHANGED ver
    \/ /\ res[r].pc \in {"version", "locale", "store"}
       /\ res'[r].pc \in {"version", "locale", "store"}
       /\ res'[r].pc \in {"locale", "store"} => res[r].pc \in {"locale", "store"}
       /\ res'[r].tpl = res[r].tpl /\ res'[r].key = res[r].key
       /\ res'[r].ver = res[r].ver /\ res'[r].body = res[r].body
       /\ res[r].raced => res'[r].raced
       /\ (\E a \in Admins : SetKillSwitch(a)) => res'[r].raced

LEMMA AllCarry ==
  ASSUME TypeOK, Rooted, [Next]_vars, NEW r \in Resolvers PROVE Carries(r)
<1> USE DEF TypeOK
<1>0. res[r] \in Resolutions
  OBVIOUS
<1>1. CASE UNCHANGED res /\ ~\E a \in Admins : SetKillSwitch(a)
  BY <1>0, <1>1 DEF Resolutions, Carries
<1>2. ASSUME NEW a \in Admins, SetKillSwitch(a) PROVE Carries(r)
  <2>1. res'[r] = [res[r] EXCEPT !.raced = res[r].pc # "idle"]
    BY <1>2 DEF SetKillSwitch
  <2> QED
    BY <1>0, <2>1 DEF Carries, Resolutions
<1>3. ASSUME NEW s \in Resolvers, WritesResolution(s) PROVE Carries(r)
  <2>1. UNCHANGED <<tpl, ver, adm>>
    BY <1>3 DEF WritesResolution, Resolve, Lookup, ReadType, ReadTemplate, ReadVersion,
       ReadLocale,
       Store, ReadLocaleFails, ResolveFails, catalogVars, rows
  <2>2. ASSUME NEW a \in Admins, SetKillSwitch(a) PROVE FALSE
    BY <2>1, <2>2, ContinueShape DEF SetKillSwitch, SetDisabled, At
  <2>3. CASE r # s
    <3>1. res'[r] = res[r]
      BY <1>3, <2>3 DEF WritesResolution, Resolve, Lookup, ReadType, ReadTemplate, ReadVersion,
         ReadLocale, Store, ReadLocaleFails, ResolveFails, Return
    <3> QED
      BY <1>0, <2>2, <3>1 DEF Resolutions, Carries
  <2>4. CASE r = s
    <3>1. CASE Return(r)
      BY <3>1 DEF Return, Free, Carries
    <3>2. CASE \E k \in Keys : Lookup(r, k)
      BY <3>2 DEF Lookup, Free, Carries
    <3>3. CASE ReadType(r)
      <4>1. Return(r) \/ \E t \in TypeIds : res' = [res EXCEPT ![r].pc = "template", ![r].typ = t]
        BY <3>3 DEF ReadType, GetTypeBySlug, FindTypeBySlugInScope
      <4>2. ASSUME NEW t \in TypeIds, res' = [res EXCEPT ![r].pc = "template", ![r].typ = t]
            PROVE  res'[r].pc = "template"
        BY <4>2 DEF Resolutions
      <4> QED
        BY <3>1, <4>1, <4>2 DEF Carries
    <3>4. CASE ReadTemplate(r)
      <4>1. res[r].pc = "template" /\ (Return(r) \/ \E p \in TemplateIds : ~tpl[p].disabled /\
              res' = [res EXCEPT ![r].pc = "version", ![r].tpl = p, ![r].raced = FALSE])
        BY <3>4 DEF ReadTemplate, ResolveTemplate, GetByTypeAndScope
      <4>2. ASSUME NEW p \in TemplateIds,
                   res' = [res EXCEPT ![r].pc = "version", ![r].tpl = p, ![r].raced = FALSE]
            PROVE  res'[r].pc = "version" /\ res'[r].tpl = p
        BY <4>2 DEF Resolutions
      <4> QED
        BY <2>1, <3>1, <4>1, <4>2 DEF Carries
    <3>5. CASE ReadVersion(r)
      <4>1. res[r].pc = "version" /\ (Return(r) \/ \E v \in GetPublishedVersion(res[r].tpl) :
              res' = [res EXCEPT ![r].pc = "locale", ![r].ver = v, ![r].body = ver[v].body])
        BY <3>5 DEF ReadVersion
      <4>2. ASSUME NEW v \in GetPublishedVersion(res[r].tpl),
                   res' = [res EXCEPT ![r].pc = "locale", ![r].ver = v, ![r].body = ver[v].body]
            PROVE  /\ res'[r].pc = "locale" /\ res'[r].ver = v /\ res'[r].body = ver[v].body
                   /\ res'[r].tpl = res[r].tpl /\ res'[r].key = res[r].key
                   /\ res'[r].raced = res[r].raced
        BY <4>2 DEF Resolutions
      <4> QED
        BY <2>1, <3>1, <4>1, <4>2 DEF Carries
    <3>6. CASE ReadLocale(r) \/ ReadLocaleFails(r)
      <4>1. res[r].pc = "locale" /\ \E c :
              res' = [res EXCEPT ![r].pc = "store", ![r].loc = c]
        BY <3>6 DEF ReadLocale, ReadLocaleFails
      <4>2. ASSUME NEW c, res' = [res EXCEPT ![r].pc = "store", ![r].loc = c]
            PROVE  /\ res'[r].pc = "store" /\ res'[r].ver = res[r].ver /\ res'[r].body = res[r].body
                   /\ res'[r].tpl = res[r].tpl /\ res'[r].key = res[r].key
                   /\ res'[r].raced = res[r].raced
        BY <4>2 DEF Resolutions
      <4> QED
        BY <2>2, <4>1, <4>2 DEF Carries
    <3>7. CASE Store(r) \/ ResolveFails(r)
      BY <3>1, <3>7 DEF Store, ResolveFails
    <3> QED
      BY <1>3, <2>4, <3>2, <3>3, <3>4, <3>5, <3>6, <3>7 DEF WritesResolution, Resolve
  <2> QED
    BY <2>3, <2>4
<1> QED
  BY <1>1, <1>2, <1>3, OnlyWriters DEF Writers

(* What a resolution read of a sealed version stays true. *)
LEMMA VersionAtStepPreserved ==
  ASSUME TypeOK, Rooted, VersionAtStep, [Next]_vars PROVE VersionAtStep'
<1> SUFFICES ASSUME NEW r \in Resolvers, res'[r].pc \in {"locale", "store"}
             PROVE  /\ Sealed(res[r].ver)' /\ ver'[res'[r].ver].tpl = res'[r].tpl
                    /\ ver'[res'[r].ver].body = res'[r].body
  BY DEF VersionAtStep
<1>1. res[r].ver \in VersionIds
  BY DEF TypeOK, Resolutions
<1>2. CASE res[r].pc = "version"
  BY <1>2, AllCarry DEF Carries, GetPublishedVersion, Sealed
<1>3. CASE res[r].pc \in {"locale", "store"} /\ res'[r].ver = res[r].ver
  <2>1. VersionKept(res[r].ver) /\ res'[r].tpl = res[r].tpl /\ res'[r].body = res[r].body
    BY <1>1, <1>3, SealedPersist, AllCarry DEF VersionAtStep, Carries
  <2> QED
    BY <1>3, <2>1 DEF VersionKept, VersionAtStep, Sealed
<1> QED
  BY <1>2, <1>3, AllCarry DEF Carries

(* What is stored is what a resolution carries. *)
LEMMA ServedPreserved ==
  ASSUME TypeOK, Rooted, VersionAtStep, ServedIsPublished, [Next]_vars PROVE ServedIsPublished'
<1> SUFFICES ASSUME NEW k \in Keys, cache'[k].has
             PROVE  /\ Sealed(cache[k].ver)' /\ ver'[cache'[k].ver].tpl = cache'[k].tpl
                    /\ ver'[cache'[k].ver].body = cache'[k].body
  BY DEF ServedIsPublished
<1>1. ASSUME NEW v \in VersionIds, Sealed(v), cache'[k].ver = v,
             ver[v].tpl = cache'[k].tpl, ver[v].body = cache'[k].body
      PROVE  /\ Sealed(cache[k].ver)' /\ ver'[cache'[k].ver].tpl = cache'[k].tpl
             /\ ver'[cache'[k].ver].body = cache'[k].body
  BY <1>1, SealedPersist DEF VersionKept, Sealed
<1>2. CASE /\ cache[k].has /\ cache'[k].tpl = cache[k].tpl
           /\ cache'[k].ver = cache[k].ver /\ cache'[k].body = cache[k].body
  <2>1. cache[k].ver \in VersionIds
    BY DEF TypeOK, Entries
  <2> QED
    BY <1>1, <1>2, <2>1 DEF ServedIsPublished
<1>3. ASSUME NEW r \in Resolvers, res[r].pc = "store", cache'[k].tpl = res[r].tpl,
             cache'[k].ver = res[r].ver, cache'[k].body = res[r].body
      PROVE  /\ Sealed(cache[k].ver)' /\ ver'[cache'[k].ver].tpl = cache'[k].tpl
             /\ ver'[cache'[k].ver].body = cache'[k].body
  <2>1. res[r].ver \in VersionIds
    BY DEF TypeOK, Resolutions
  <2> QED
    BY <1>1, <1>3, <2>1 DEF VersionAtStep
<1> QED
  BY <1>2, <1>3, EntriesFrom DEF EntryFrom

(* A resolution that a kill switch overtakes is marked. *)
LEMMA RacedPreserved ==
  ASSUME TypeOK, Rooted, RacedAtStep, [Next]_vars PROVE RacedAtStep'
<1> SUFFICES ASSUME NEW r \in Resolvers, res'[r].pc \in {"version", "locale", "store"},
                    tpl'[res'[r].tpl].disabled, tpl'[res'[r].tpl].ws = res'[r].key.ws
             PROVE  res'[r].raced
  BY DEF RacedAtStep
<1>1. res[r].tpl \in TemplateIds /\ TemplateKept(res[r].tpl)
  BY TemplatesPersist DEF TypeOK, Resolutions, Rooted
<1>2. CASE res'[r].tpl = res[r].tpl /\ res'[r].key = res[r].key
           /\ res[r].pc \in {"version", "locale", "store"}
           /\ (res[r].raced => res'[r].raced)
           /\ ((\E a \in Admins : SetKillSwitch(a)) => res'[r].raced)
  BY <1>1, <1>2 DEF RacedAtStep, TemplateKept
<1>3. CASE res[r].pc = "version" /\ res'[r].pc = "locale" /\ res'[r].tpl = res[r].tpl
           /\ res'[r].key = res[r].key /\ res'[r].raced = res[r].raced
  <2>1. \A a \in Admins : ~SetKillSwitch(a)
    BY <1>3 DEF SetKillSwitch, TypeOK, Resolutions
  <2> QED
    BY <1>2, <1>3, <2>1
<1> QED
  BY <1>2, <1>3, AllCarry DEF Carries

(* The request that switched a template off invalidates before it ends. *)
LEMMA KillSwitchPreserved ==
  ASSUME TypeOK, Rooted, RacedAtStep, KillSwitchInvalidates, [Next]_vars
  PROVE  KillSwitchInvalidates'
<1> SUFFICES ASSUME NEW k \in Keys, cache'[k].has, tpl'[cache'[k].tpl].disabled,
                    tpl'[cache'[k].tpl].ws = k.ws, ~cache'[k].late
             PROVE  \E a \in Admins : adm'[a].pc = "invalidate" /\ adm'[a].ws = k.ws
  BY DEF KillSwitchInvalidates
<1> USE DEF TypeOK
<1>1. ASSUME NEW r \in Resolvers, res[r].pc = "store", res[r].key = k,
             cache'[k].tpl = res[r].tpl, cache'[k].late = res[r].raced, UNCHANGED tpl
      PROVE  FALSE
  BY <1>1 DEF RacedAtStep
<1>2. CASE /\ cache[k].has /\ cache'[k].tpl = cache[k].tpl /\ ~cache[k].late
  <2> DEFINE p == cache[k].tpl
  <2>1. p \in TemplateIds /\ TemplateKept(p)
    BY TemplatesPersist DEF Rooted, Entries
  <2>2. CASE tpl'[p].disabled = tpl[p].disabled
    <3>1. PICK b \in Admins : adm[b].pc = "invalidate" /\ adm[b].ws = k.ws
      BY <1>2, <2>1, <2>2 DEF KillSwitchInvalidates, TemplateKept
    <3>2. ~InvalidateResolvedTemplates(b)
      BY <3>1 DEF InvalidateResolvedTemplates, NoEntry
    <3>3. ~LoseInvalidation(b)
      BY <3>1 DEF LoseInvalidation, Entries
    <3> QED
      BY <3>1, <3>2, <3>3, OnlyWriters DEF Writers, Invalidates
  <2>3. CASE tpl'[p].disabled # tpl[p].disabled
    <3>1. PICK a \in Admins : SetKillSwitch(a)
      BY <2>1, <2>3 DEF TemplateKept
    <3>2. p = adm[a].tpl /\ tpl[p].ws = adm[a].ws
      BY <2>1, <2>3, <3>1, RowTypes DEF SetKillSwitch, SetDisabled
    <3>3. adm'[a].pc = "invalidate" /\ adm'[a].ws = adm[a].ws
      BY <3>1, ContinueShape DEF SetKillSwitch, SetDisabled
    <3> QED
      BY <1>2, <2>1, <3>2, <3>3 DEF TemplateKept
  <2> QED
    BY <2>2, <2>3
<1> QED
  BY <1>1, <1>2, EntriesFrom DEF EntryFrom
-----------------------------------------------------------------------------
(* Every step preserves the invariant. *)
LEMMA Inductive == IInv /\ [Next]_vars => IInv'
<1> SUFFICES ASSUME IInv, [Next]_vars PROVE IInv'
  OBVIOUS
<1> USE DEF IInv
<1>1. TypeOK'
  BY CatalogTypes, ResolutionTypes DEF TypeOK, ResolutionTypeOK
<1>2. Rooted' /\ OnePublished'
  BY RootedPreserved, OnePublishedPreserved
<1>3. VersionAtStep' /\ ServedIsPublished'
  BY VersionAtStepPreserved, ServedPreserved
<1>4. RacedAtStep' /\ KillSwitchInvalidates'
  BY RacedPreserved, KillSwitchPreserved
<1> QED
  BY <1>1, <1>2, <1>3, <1>4

(* The invariant holds in every reachable state. *)
THEOREM AlwaysIInv == Spec => []IInv
  BY InitIInv, Inductive, PTL DEF Spec

\* Rows, requests, resolutions and entries keep their types.
THEOREM TypeCorrect == Spec => []TypeOK
  BY AlwaysIInv, PTL DEF IInv

\* Concurrent publications and forks never leave a template with two published
\* versions (TemplateRepo.Publish, ForkTemplate).
THEOREM AlwaysOnePublished == Spec => []OnePublished
  BY AlwaysIInv, PTL DEF IInv

\* What the cache serves was published, for the template and with the content it
\* is served with (TemplateResolver.Resolve).
THEOREM AlwaysServesPublished == Spec => []ServedIsPublished
  BY AlwaysIInv, PTL DEF IInv

\* Disabling a template reaches the entries of its own workspace, except those
\* that a running resolution or a lost invalidation explains (setTemplateDisabled).
THEOREM KillSwitchAlwaysInvalidates == Spec => []KillSwitchInvalidates
  BY AlwaysIInv, PTL DEF IInv

\* A version that was published never changes its content, whatever requests
\* checked it as a draft before (UpdateVersion, DeleteDraftVersion).
THEOREM AlwaysFrozen == Spec => PublishedIsFrozen
<1>1. ASSUME IInv, [Next]_vars
      PROVE  [\A v \in VersionIds : Sealed(v) => /\ Sealed(v)'
                                                 /\ ver'[v].body = ver[v].body
                                                 /\ ver'[v].tpl = ver[v].tpl]_ver
  BY <1>1, SealedPersist DEF IInv, VersionKept
<1> QED
  BY <1>1, AlwaysIInv, PTL DEF Spec, PublishedIsFrozen

=============================================================================
