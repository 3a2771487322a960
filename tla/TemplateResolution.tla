-------------------------- MODULE TemplateResolution --------------------------
(***************************************************************************)
(* Resolving a template for a send (internal/resolution/                   *)
(* template_resolver.go) against the catalogue of TemplateCatalog, with    *)
(* the cache of resolved templates (internal/adapter/pgcache/client.go)    *)
(* and its invalidation (internal/resolution/cache_invalidator.go).        *)
(*                                                                         *)
(* A resolution that misses the cache is four queries outside a            *)
(* transaction and a best-effort store: administration requests interleave *)
(* with it everywhere.  A hit changes nothing and is not represented.      *)
(***************************************************************************)
EXTENDS TemplateCatalog

CONSTANTS Keys,            \* the cache keys asked for: [ws, slug, loc]
          NoLocale,        \* a request without a locale
          PrefixOf,        \* language prefix of a locale, NoLocale if none
          DefaultLocaleOf, \* default locale that a body states
          Resolvers        \* concurrent resolutions

ASSUME ResolutionAssumption ==
    /\ NoLocale \notin Locales
    /\ Keys \subseteq [ws : Workspaces, slug : Slugs, loc : Locales \cup {NoLocale}]
    /\ PrefixOf \in [Locales -> Locales \cup {NoLocale}]
    /\ DefaultLocaleOf \in [Bodies -> Locales]

VARIABLES cache,   \* the stored result of each key
          res      \* the resolutions in progress

vars == <<catalogVars, cache, res>>

\* "late" and "raced" are history variables.  An entry is late when it was
\* stored by a resolution that had read the template before its kill switch was
\* set (raced), or when the invalidation after the switch was lost.
Entries == [has : BOOLEAN, tpl : TemplateIds, ver : VersionIds, body : Bodies,
            loc : Locales \cup {NoLocale}, late : BOOLEAN]

NoEntry == [has |-> FALSE, tpl |-> SeedTemplate, ver |-> SeedVersion, body |-> SeedBody,
            loc |-> NoLocale, late |-> FALSE]

Resolutions == [pc : {"idle", "type", "template", "version", "locale", "store"}, key : Keys,
                typ : TypeIds, tpl : TemplateIds, ver : VersionIds, body : Bodies,
                loc : Locales \cup {NoLocale}, raced : BOOLEAN]

TypeOK ==
    /\ CatalogTypeOK
    /\ cache \in [Keys -> Entries]
    /\ res \in [Resolvers -> Resolutions]

Free(k) == [pc |-> "idle", key |-> k, typ |-> SeedType, tpl |-> SeedTemplate,
            ver |-> SeedVersion, body |-> SeedBody, loc |-> NoLocale, raced |-> FALSE]

Init ==
    /\ CatalogInit
    /\ cache = [k \in Keys |-> NoEntry]
    /\ \E k \in Keys : res = [r \in Resolvers |-> Free(k)]

-----------------------------------------------------------------------------
(* Resolve *)

\* The cache has nothing that is still valid, or cannot be read.
Lookup(r, k) ==
    /\ res[r].pc = "idle"
    /\ res' = [res EXCEPT ![r] = [Free(k) EXCEPT !.pc = "type"]]
    /\ UNCHANGED <<catalogVars, cache>>

\* What a resolution returns ends it; without a result nothing is stored.
Return(r) == res' = [res EXCEPT ![r] = Free(res[r].key)]

ReadType(r) ==
    LET k == res[r].key
        found == GetTypeBySlug(k.slug, k.ws) IN
    /\ res[r].pc = "type"
    /\ \/ found = {} /\ Return(r)
       \/ \E t \in found : res' = [res EXCEPT ![r].pc = "template", ![r].typ = t]
    /\ UNCHANGED <<catalogVars, cache>>

\* An empty or disabled template of the workspace is not replaced by the
\* inherited one: the resolution fails.
ReadTemplate(r) ==
    LET found == ResolveTemplate(res[r].typ, res[r].key.ws) IN
    /\ res[r].pc = "template"
    /\ \/ (found = {} \/ \E p \in found : tpl[p].disabled) /\ Return(r)
       \/ \E p \in found :
            /\ ~tpl[p].disabled
            /\ res' = [res EXCEPT ![r].pc = "version", ![r].tpl = p, ![r].raced = FALSE]
    /\ UNCHANGED <<catalogVars, cache>>

ReadVersion_Latest(r) ==
    LET found == ListVersions(res[r].tpl) IN
    /\ res[r].pc = "version"
    /\ \/ found = {} /\ Return(r)
       \/ \E v \in found :
            res' = [res EXCEPT ![r].pc = "locale", ![r].ver = v, ![r].body = ver[v].body]
    /\ UNCHANGED <<catalogVars, cache>>

ReadVersion(r) ==
    LET found == GetPublishedVersion(res[r].tpl) IN
    /\ res[r].pc = "version"
    /\ \/ found = {} /\ Return(r)
       \/ \E v \in found :
            res' = [res EXCEPT ![r].pc = "locale", ![r].ver = v, ![r].body = ver[v].body]
    /\ UNCHANGED <<catalogVars, cache>>

\* Exact locale, then its language prefix, then the version's own text.
LocaleContent(v, body, l) ==
    IF l = NoLocale \/ l = DefaultLocaleOf[body] THEN NoLocale
    ELSE IF l \in ver[v].locs THEN l
    ELSE IF PrefixOf[l] \in ver[v].locs THEN PrefixOf[l]
    ELSE NoLocale

ReadLocale(r) ==
    /\ res[r].pc = "locale"
    /\ res' = [res EXCEPT ![r].pc = "store",
                          ![r].loc = LocaleContent(res[r].ver, res[r].body, res[r].key.loc)]
    /\ UNCHANGED <<catalogVars, cache>>

\* A failed read of an override is taken for its absence: the prefix, or the
\* version's own text, is served and cached in its place.
ReadLocaleFails(r) ==
    LET l == res[r].key.loc
        v == res[r].ver IN
    /\ res[r].pc = "locale"
    /\ l # NoLocale /\ l # DefaultLocaleOf[res[r].body]
    /\ requests < MaxRequests
    /\ requests' = requests + 1
    /\ \E c \in {NoLocale} \cup ({PrefixOf[l]} \cap ver[v].locs) :
         res' = [res EXCEPT ![r].pc = "store", ![r].loc = c]
    /\ UNCHANGED <<rows, adm, cache>>

\* cache.Set is best effort: the result is returned either way.
Store(r) ==
    /\ res[r].pc = "store"
    /\ \/ cache' = [cache EXCEPT ![res[r].key] =
                      [has |-> TRUE, tpl |-> res[r].tpl, ver |-> res[r].ver, body |-> res[r].body,
                       loc |-> res[r].loc, late |-> res[r].raced]]
       \/ UNCHANGED cache
    /\ Return(r)
    /\ UNCHANGED catalogVars

\* A query of the resolution fails.
ResolveFails(r) ==
    /\ res[r].pc \in {"type", "template", "version"}
    /\ Return(r)
    /\ UNCHANGED <<catalogVars, cache>>

Expire_DefaultLocaleOnly(k) ==
    /\ cache[k].has /\ k.loc = NoLocale
    /\ cache' = [cache EXCEPT ![k] = NoEntry]
    /\ UNCHANGED <<catalogVars, res>>

\* Five minutes after it was stored an entry is not returned any more.
Expire(k) ==
    /\ cache[k].has
    /\ cache' = [cache EXCEPT ![k] = NoEntry]
    /\ UNCHANGED <<catalogVars, res>>

-----------------------------------------------------------------------------
(* Administration requests and the cache *)

\* The write of the kill switch; resolutions that have read the template row
\* before it carry the old value on.
SetKillSwitch(a) ==
    /\ SetDisabled(a)
    /\ res' = [r \in Resolvers |-> [res[r] EXCEPT !.raced = res[r].pc # "idle"]]
    /\ UNCHANGED cache

InvalidateResolvedTemplates_OtherKey(a) ==
    /\ adm[a].pc = "invalidate"
    /\ cache' = [k \in Keys |-> IF k.ws = adm[a].ws /\ k.loc = NoLocale THEN NoEntry ELSE cache[k]]
    /\ Continue(a, "idle")
    /\ UNCHANGED <<typ, tpl, ver, res>>

\* Removes the keys of the workspace of the request, and of no other.
InvalidateResolvedTemplates(a) ==
    /\ adm[a].pc = "invalidate"
    /\ cache' = [k \in Keys |-> IF k.ws = adm[a].ws THEN NoEntry ELSE cache[k]]
    /\ Continue(a, "idle")
    /\ UNCHANGED <<typ, tpl, ver, res>>

\* The error of the cache is dropped; a process that dies here has the same effect.
LoseInvalidation(a) ==
    /\ adm[a].pc = "invalidate"
    /\ cache' = [k \in Keys |-> [cache[k] EXCEPT !.late = @ \/ k.ws = adm[a].ws]]
    /\ Continue(a, "idle")
    /\ UNCHANGED <<typ, tpl, ver, res>>

Resolve(r) ==
    \/ ReadType(r) \/ ReadTemplate(r) \/ ReadVersion(r) \/ ReadLocale(r) \/ Store(r)

AdminStep(a) ==
    \/ (CheckPublished(a) \/ Write(a) \/ Fail(a)) /\ UNCHANGED <<cache, res>>
    \/ SetKillSwitch(a)
    \/ InvalidateResolvedTemplates(a)
    \/ LoseInvalidation(a)

Next ==
    \/ \E P \in SUBSET Policies : UpdateWorkspacePolicies(P) /\ UNCHANGED <<cache, res>>
    \/ \E a \in Admins : Request(a) /\ UNCHANGED <<cache, res>>
    \/ \E a \in Admins : AdminStep(a)
    \/ \E r \in Resolvers : (\E k \in Keys : Lookup(r, k)) \/ Resolve(r)
                             \/ ReadLocaleFails(r) \/ ResolveFails(r)
    \/ \E k \in Keys : Expire(k)

\* Entries reach their TTL.  Nothing is asked of requests and resolutions: any
\* of them may be given up at any point.
Fairness == \A k \in Keys : WF_vars(Expire(k))

Spec == Init /\ [][Next]_vars /\ Fairness

-----------------------------------------------------------------------------
(* Properties *)

\* Whatever is served from the cache is a version that was published, of the
\* template it is served for, with the content it was published with: never a
\* draft, and never an edit made while the resolution ran its queries one by
\* one (Resolve, Publish, UpdateVersion).
ServedIsPublished ==
    \A k \in Keys : cache[k].has =>
      /\ Sealed(cache[k].ver)
      /\ ver[cache[k].ver].tpl = cache[k].tpl
      /\ ver[cache[k].ver].body = cache[k].body

\* The kill switch: an entry for a disabled template of the key's own workspace
\* is about to be invalidated, or was stored by a resolution that had read the
\* template before the switch, or escaped an invalidation that was lost
\* (setTemplateDisabled writes first and invalidates second).  A template of
\* `_system` that another workspace inherits is outside of this promise.
KillSwitchInvalidates ==
    \A k \in Keys :
      LET e == cache[k] IN
      (e.has /\ tpl[e.tpl].disabled /\ tpl[e.tpl].ws = k.ws) =>
        \/ e.late
        \/ \E a \in Admins : adm[a].pc = "invalidate" /\ adm[a].ws = k.ws

\* What the catalogue says now about a key, as one query would answer.
Current(k, e) ==
    \E t \in GetTypeBySlug(k.slug, k.ws) :
      /\ e.tpl \in ResolveTemplate(t, k.ws)
      /\ ~tpl[e.tpl].disabled
      /\ e.ver \in GetPublishedVersion(e.tpl)
      /\ e.body = ver[e.ver].body
      /\ e.loc = LocaleContent(e.ver, e.body, k.loc)

\* Staleness ends: once requests stop, every entry that is served agrees with
\* the catalogue, for inherited templates, publications, deletions and locale
\* changes too, none of which invalidates all the keys it affects (the TTL of
\* TemplateResolver.Resolve).
CacheConverges == <>[](\A k \in Keys : cache[k].has => Current(k, cache[k]))
=============================================================================
