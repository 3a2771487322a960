------------------------- MODULE AdapterAccessProofs -------------------------
(***************************************************************************)
(* Proofs about AdapterAccess, for any adapters, identities and            *)
(* workspaces and any number of overlapping requests.                      *)
(***************************************************************************)
EXTENDS AdapterAccess, TLAPS

ProcRecords ==
    [pc : Pcs, kind : Kinds, scope : Scopes, typ : Scopes, sel : Selections,
     wanted : SUBSET Workspaces, revoked : SUBSET Workspaces, seen : Statuses,
     from : Idents \cup {None}, barred : BOOLEAN, dead : BOOLEAN]

(* Granted by what holds for ever: the owner of the adapter. *)
OwnsOrGlobal(r) == OwnerOf[r.sel.adapter] \in {Global, r.scope}

(* What a request is about at each of its steps. *)
KindAtStep(r) ==
    /\ r.kind = "assign" => r.typ = r.scope
    /\ r.kind = "send" => r.sel.adapter # None
    /\ r.pc = "write" => r.kind = "assign"
    /\ r.pc \in {"resolve", "from", "accepted"} => r.kind = "send"
    /\ r.pc \in {"adapter", "sender", "grant"} => r.kind \in {"assign", "send"}
    /\ r.pc \in {"list", "usage", "replace", "commit"} => r.kind \in {"adapterGrants", "identityGrants"}
    /\ r.kind = "adapterGrants" =>
         /\ r.sel.adapter # None /\ OwnerOf[r.sel.adapter] = System
         /\ ~usesIdentityGrants(r.sel.adapter)
    /\ r.kind = "identityGrants" =>
         /\ r.sel.sender # None /\ r.sel.adapter = AdapterOf[r.sel.sender]
         /\ OwnerOf[r.sel.adapter] = System /\ usesIdentityGrants(r.sel.adapter)
    /\ r.pc \in {"verify", "insert"} => r.from # None
    /\ r.pc \in {"fetch", "upsert", "stale"} => r.sel.adapter # None

(* What the reads of a validation have established of the selection. *)
CheckedAtStep(r) ==
    /\ r.pc \in {"sender", "grant"} => r.scope # System /\ r.sel.adapter # None
    /\ r.pc = "sender" =>
         \/ OwnsOrGlobal(r)
         \/ /\ OwnerOf[r.sel.adapter] = System
            /\ usesIdentityGrants(r.sel.adapter) => r.sel.sender # None
    /\ r.pc = "grant" =>
         /\ OwnerOf[r.sel.adapter] = System
         /\ usesIdentityGrants(r.sel.adapter) =>
              r.sel.sender # None /\ AdapterOf[r.sel.sender] = r.sel.adapter
    /\ r.pc \in {"write", "from", "accepted"} /\ r.scope # System =>
         (r.sel.adapter # None /\ r.sel.sender # None => AdapterOf[r.sel.sender] = r.sel.adapter)
    /\ r.pc = "accepted" =>
         r.from # None /\ (r.scope # System => AdapterOf[r.from] = r.sel.adapter)

(* A send: its adapter and its grant were there since it began. *)
SendAtStep(r) ==
    r.kind = "send" =>
      /\ r.dead => r.sel.adapter \notin live
      /\ r.barred => ~Granted(agrant, igrant, r.scope, r.sel)
      /\ r.scope # System /\ r.pc \in {"sender", "grant", "from", "accepted"} => ~r.dead
      /\ r.scope # System /\ r.pc \in {"from", "accepted"} => ~r.barred
      /\ r.pc = "sender" /\ ~usesIdentityGrants(r.sel.adapter) => ~r.barred

(* An assignment whose grant was not replaced since it was read has it. *)
AssignAtStep(r) ==
    r.kind = "assign" /\ r.scope # System /\ r.sel.adapter # None /\ ~r.barred =>
      /\ r.pc = "sender" /\ ~usesIdentityGrants(r.sel.adapter) =>
           Granted(agrant, igrant, r.scope, r.sel)
      /\ r.pc = "write" => \/ Granted(agrant, igrant, r.scope, r.sel)
                           \/ r.sel.sender # None /\ ident[r.sel.sender] = "gone"

(* A replacement knows of every use that did not overlap it. *)
ReplaceAtStep(r) ==
    r.pc \in {"usage", "replace", "commit"} =>
      \A ws \in Workspaces \ raced :
        sel[ws].adapter # None /\ Needs(sel[ws], r.kind, r.sel) =>
          ws \in r.wanted \/ (r.pc = "usage" /\ ws \in r.revoked)

LocalInv(r) ==
    KindAtStep(r) /\ CheckedAtStep(r) /\ SendAtStep(r) /\ AssignAtStep(r) /\ ReplaceAtStep(r)

DefaultIsOwn == \A a \in Adapters : default[a] \in Idents => AdapterOf[default[a]] = a

IInv ==
    /\ TypeOK /\ DefaultIsOwn /\ SelectionIsCoherent /\ InUseIsGranted
    /\ \A p \in Procs : LocalInv(proc[p])
-----------------------------------------------------------------------------
(* An idle request satisfies everything. *)
LEMMA IdleFacts == Idle \in ProcRecords /\ LocalInv(Idle)
<1>1. Idle \in ProcRecords
  BY AccessAssumption DEF Idle, ProcRecords, Pcs, Kinds, Scopes, Selections, Nothing, Statuses
<1> QED
  BY <1>1 DEF Idle, LocalInv, KindAtStep, CheckedAtStep, SendAtStep, AssignAtStep, ReplaceAtStep

(* The fields of a request and of a selection, one by one. *)
LEMMA Fields ==
  ASSUME NEW r \in ProcRecords
  PROVE  /\ r.pc \in Pcs /\ r.kind \in Kinds /\ r.scope \in Scopes /\ r.typ \in Scopes
         /\ r.sel \in Selections /\ r.wanted \in SUBSET Workspaces
         /\ r.revoked \in SUBSET Workspaces /\ r.seen \in Statuses
         /\ r.from \in Idents \cup {None} /\ r.barred \in BOOLEAN /\ r.dead \in BOOLEAN
         /\ r.sel.adapter \in Adapters \cup {None} /\ r.sel.sender \in Idents \cup {None}
  BY DEF ProcRecords, Selections

(* A step that only moves on keeps the other fields. *)
LEMMA GoFields ==
  ASSUME NEW r \in ProcRecords, NEW x \in Pcs
  PROVE  LET s == [r EXCEPT !.pc = x] IN
         /\ s \in ProcRecords /\ s.pc = x /\ s.kind = r.kind /\ s.scope = r.scope
         /\ s.typ = r.typ /\ s.sel = r.sel /\ s.wanted = r.wanted /\ s.revoked = r.revoked
         /\ s.seen = r.seen /\ s.from = r.from /\ s.barred = r.barred /\ s.dead = r.dead
  BY DEF ProcRecords

(* The initial state satisfies the invariant. *)
LEMMA InitIInv == Init => IInv
<1> SUFFICES ASSUME Init PROVE IInv
  OBVIOUS
<1> USE AccessAssumption DEF Init
<1>1. Nothing \in Selections /\ Nothing.adapter = None
  BY DEF Nothing, Selections
<1>2. proc \in [Procs -> ProcRecords] /\ \A p \in Procs : LocalInv(proc[p])
  BY IdleFacts
<1>3. TypeOK
  <2>1. agrant \in [Adapters -> SUBSET Workspaces] /\ igrant \in [Idents -> SUBSET Workspaces]
    OBVIOUS
  <2> QED
    BY <1>1, <1>2, <2>1 DEF TypeOK, ProcRecords, Statuses
<1>4. DefaultIsOwn /\ SelectionIsCoherent /\ InUseIsGranted
  BY <1>1 DEF DefaultIsOwn, SelectionIsCoherent, InUseIsGranted, Scopes
<1> QED
  BY <1>2, <1>3, <1>4 DEF IInv
-----------------------------------------------------------------------------
stateVars == <<live, identVars, grantVars, selVars>>

(* A step that changes one request and nothing that the invariant reads. *)
LEMMA LocalStep ==
  ASSUME IInv, NEW p \in Procs, NEW r \in ProcRecords, LocalInv(r),
         proc' = [proc EXCEPT ![p] = r], UNCHANGED stateVars, requests' \in 0..MaxRequests
  PROVE  IInv'
<1> USE DEF stateVars, identVars, grantVars, selVars
<1>1. proc \in [Procs -> ProcRecords]
  BY DEF IInv, TypeOK, ProcRecords
<1>2. proc' \in [Procs -> ProcRecords]
  BY <1>1
<1>3. TypeOK'
  BY <1>2 DEF IInv, TypeOK, ProcRecords
<1>4. ASSUME NEW q \in Procs PROVE LocalInv(proc[q])'
  <2>1. LocalInv(proc'[q])
    BY <1>1 DEF IInv
  <2> QED
    BY <2>1 DEF LocalInv, KindAtStep, CheckedAtStep, SendAtStep, AssignAtStep, ReplaceAtStep,
       OwnsOrGlobal, Granted, Needs
<1>5. (DefaultIsOwn /\ SelectionIsCoherent /\ InUseIsGranted)'
  BY DEF IInv, DefaultIsOwn, SelectionIsCoherent, InUseIsGranted, Granted
<1> QED
  BY <1>3, <1>4, <1>5 DEF IInv

(* Whatever is asked for, a request begins well. *)
LEMMA RequestsBegin ==
  ASSUME TypeOK, NEW p \in Procs, RequestNext(p)
  PROVE  \E r \in ProcRecords : Begin(p, r) /\ LocalInv(r)
<1>1. ASSUME NEW t \in Scopes, NEW patch \in Patches, assign(p, t, patch)
      PROVE  \E r \in ProcRecords : Begin(p, r) /\ LocalInv(r)
  <2> DEFINE s == applyTemplateTypeUpdateRequest(sel[t], patch)
             r == [Idle EXCEPT !.pc = "adapter", !.kind = "assign", !.scope = t, !.typ = t, !.sel = s]
  <2>1. s \in Selections
    <3>1. /\ sel[t].adapter \in Adapters \cup {None} /\ sel[t].sender \in Idents \cup {None}
          /\ patch.adapter \in Adapters \cup {None, Keep} /\ patch.sender \in Idents \cup {None, Keep}
      BY DEF TypeOK, Selections, Patches
    <3> QED
      BY <3>1 DEF applyTemplateTypeUpdateRequest, Patched, Selections
  <2>2. Begin(p, r)
    BY <1>1 DEF assign
  <2> HIDE DEF s
  <2>3. r \in ProcRecords
    BY <2>1, AccessAssumption DEF Idle, ProcRecords, Pcs, Kinds, Scopes, Statuses
  <2>4. r.pc = "adapter" /\ r.kind = "assign" /\ r.typ = r.scope
    BY DEF Idle
  <2> HIDE DEF r
  <2>5. LocalInv(r)
    BY <2>4 DEF LocalInv, KindAtStep, CheckedAtStep, SendAtStep, AssignAtStep, ReplaceAtStep
  <2> QED
    BY <2>2, <2>3, <2>5
<1>2. ASSUME NEW ws \in Scopes, NEW t \in Scopes, send(p, ws, t)
      PROVE  \E r \in ProcRecords : Begin(p, r) /\ LocalInv(r)
  <2>1. PICK s \in former[t] :
          /\ s.adapter # None
          /\ Begin(p, [Idle EXCEPT !.pc = "resolve", !.kind = "send", !.scope = ws, !.typ = t, !.sel = s,
                                   !.barred = ~Granted(agrant, igrant, ws, s),
                                   !.dead = s.adapter \notin live])
    BY <1>2, Zenon DEF send
  <2>2. s \in Selections
    BY DEF TypeOK
  <2> DEFINE b == ~Granted(agrant, igrant, ws, s)
             d == s.adapter \notin live
             r == [Idle EXCEPT !.pc = "resolve", !.kind = "send", !.scope = ws, !.typ = t, !.sel = s,
                               !.barred = b, !.dead = d]
  <2>3. Begin(p, r)
    BY <2>1
  <2>4. b \in BOOLEAN /\ d \in BOOLEAN /\ (b => ~Granted(agrant, igrant, ws, s))
        /\ (d => s.adapter \notin live)
    BY Zenon
  <2> HIDE DEF b, d
  <2>5. r \in ProcRecords
    BY <2>2, <2>4, AccessAssumption DEF Idle, ProcRecords, Pcs, Kinds, Scopes, Statuses
  <2>6. r.pc = "resolve" /\ r.kind = "send" /\ r.sel = s /\ r.scope = ws /\ r.barred = b /\ r.dead = d
    BY DEF Idle
  <2> HIDE DEF r
  <2>7. LocalInv(r)
    BY <2>1, <2>4, <2>6 DEF LocalInv, KindAtStep, CheckedAtStep, SendAtStep, AssignAtStep,
       ReplaceAtStep
  <2> QED
    BY <2>3, <2>5, <2>7
<1>3. ASSUME NEW a \in Adapters, NEW w \in SUBSET Workspaces, ReplaceAdapterWorkspaceAccess(p, a, w)
      PROVE  \E r \in ProcRecords : Begin(p, r) /\ LocalInv(r)
  <2> DEFINE s == [adapter |-> a, sender |-> None]
             r == [Idle EXCEPT !.pc = "list", !.kind = "adapterGrants", !.wanted = w, !.sel = s]
  <2>1. Begin(p, r) /\ OwnerOf[s.adapter] = System
    BY <1>3 DEF ReplaceAdapterWorkspaceAccess
  <2>2. s \in Selections /\ s.adapter # None
    BY AccessAssumption DEF Selections
  <2>3. r \in ProcRecords
    BY <2>2, AccessAssumption DEF Idle, ProcRecords, Pcs, Kinds, Scopes, Statuses
  <2>4. r.pc = "list" /\ r.kind = "adapterGrants" /\ r.sel = s
    BY DEF Idle
  <2>5. LocalInv(r)
    <3> HIDE DEF r
    <3> QED
      BY <1>3, <2>1, <2>2, <2>4, AccessAssumption DEF ReplaceAdapterWorkspaceAccess, LocalInv,
         KindAtStep, CheckedAtStep, SendAtStep, AssignAtStep, ReplaceAtStep
  <2> QED
    BY <2>1, <2>3, <2>5
<1>4. ASSUME NEW i \in Idents, NEW w \in SUBSET Workspaces, ReplaceIdentityWorkspaceAccess(p, i, w)
      PROVE  \E r \in ProcRecords : Begin(p, r) /\ LocalInv(r)
  <2> DEFINE s == [adapter |-> AdapterOf[i], sender |-> i]
             r == [Idle EXCEPT !.pc = "list", !.kind = "identityGrants", !.wanted = w, !.sel = s]
  <2>1. Begin(p, r) /\ OwnerOf[s.adapter] = System
    BY <1>4 DEF ReplaceIdentityWorkspaceAccess
  <2>2. s \in Selections /\ s.adapter # None
    BY AccessAssumption DEF Selections
  <2>3. r \in ProcRecords
    BY <2>2, AccessAssumption DEF Idle, ProcRecords, Pcs, Kinds, Scopes, Statuses
  <2>4. r.pc = "list" /\ r.kind = "identityGrants" /\ r.sel = s
    BY DEF Idle
  <2>5. LocalInv(r)
    <3> HIDE DEF r
    <3> QED
      BY <1>4, <2>1, <2>2, <2>4, AccessAssumption DEF ReplaceIdentityWorkspaceAccess,
         LocalInv, KindAtStep, CheckedAtStep, SendAtStep, AssignAtStep, ReplaceAtStep
  <2> QED
    BY <2>1, <2>3, <2>5
<1>5. ASSUME NEW i \in Idents, CreateManual(p, i)
      PROVE  \E r \in ProcRecords : Begin(p, r) /\ LocalInv(r)
  <2> DEFINE r == [Idle EXCEPT !.pc = IF KindOf[AdapterOf[i]] = "smtp" THEN "insert" ELSE "verify",
                             !.kind = "create", !.from = i]
  <2>1. Begin(p, r)
    BY <1>5 DEF CreateManual
  <2>2. r \in ProcRecords
    BY AccessAssumption DEF Idle, ProcRecords, Pcs, Kinds, Scopes, Selections, Nothing, Statuses
  <2>3. r.pc \in {"verify", "insert"} /\ r.kind = "create" /\ r.from # None
    BY AccessAssumption DEF Idle
  <2> HIDE DEF r
  <2>4. LocalInv(r)
    BY <2>3 DEF LocalInv, KindAtStep, CheckedAtStep, SendAtStep, AssignAtStep, ReplaceAtStep
  <2> QED
    BY <2>1, <2>2, <2>4
<1>6. ASSUME NEW a \in Adapters, SyncIdentities(p, a)
      PROVE  \E r \in ProcRecords : Begin(p, r) /\ LocalInv(r)
  <2> DEFINE r == [Idle EXCEPT !.pc = "fetch", !.kind = "sync", !.sel = [adapter |-> a, sender |-> None]]
  <2>1. Begin(p, r)
    BY <1>6 DEF SyncIdentities
  <2>2. r \in ProcRecords
    BY AccessAssumption DEF Idle, ProcRecords, Pcs, Kinds, Scopes, Selections, Nothing, Statuses
  <2>3. r.pc = "fetch" /\ r.kind = "sync" /\ r.sel.adapter # None
    BY AccessAssumption DEF Idle
  <2> HIDE DEF r
  <2>4. LocalInv(r)
    BY <2>3 DEF LocalInv, KindAtStep, CheckedAtStep, SendAtStep, AssignAtStep, ReplaceAtStep
  <2> QED
    BY <2>1, <2>2, <2>4
<1> QED
  BY <1>1, <1>2, <1>3, <1>4, <1>5, <1>6 DEF RequestNext

(* What a reading step leaves behind: one changed request. *)
Moved(p) == \E r \in ProcRecords : LocalInv(r) /\ proc' = [proc EXCEPT ![p] = r]

GoneTo(p, x, r) ==
    /\ r \in ProcRecords /\ r.pc = x /\ r.kind = proc[p].kind /\ r.scope = proc[p].scope
    /\ r.typ = proc[p].typ /\ r.sel = proc[p].sel /\ r.wanted = proc[p].wanted
    /\ r.revoked = proc[p].revoked /\ r.from = proc[p].from
    /\ r.barred = proc[p].barred /\ r.dead = proc[p].dead
    /\ proc' = [proc EXCEPT ![p] = r]

(* A step that only moves on leads to such a request. *)
LEMMA GoMoves ==
  ASSUME IInv, NEW p \in Procs, NEW x \in Pcs, Go(p, x)
  PROVE  \E r : GoneTo(p, x, r)
<1>1. proc[p] \in ProcRecords
  BY DEF IInv, TypeOK, ProcRecords
<1> DEFINE r == [proc[p] EXCEPT !.pc = x]
<1>2. /\ r \in ProcRecords /\ r.pc = x /\ r.kind = proc[p].kind /\ r.scope = proc[p].scope
      /\ r.typ = proc[p].typ /\ r.sel = proc[p].sel /\ r.wanted = proc[p].wanted
      /\ r.revoked = proc[p].revoked /\ r.from = proc[p].from
      /\ r.barred = proc[p].barred /\ r.dead = proc[p].dead
  BY <1>1, GoFields
<1>3. proc' = [proc EXCEPT ![p] = r]
  BY DEF Go
<1> HIDE DEF r
<1> QED
  BY <1>2, <1>3 DEF GoneTo

(* Every read of a request leads to a request that satisfies its invariant. *)
LEMMA ReadsMove ==
  ASSUME IInv, NEW p \in Procs,
         \/ Fail(p) \/ ReadAdapter(p) \/ ReadSender(p) \/ ReadGrant(p)
         \/ ResolveForTemplateType(p) \/ resolveFromEmail(p) \/ Accept(p)
         \/ ListWorkspaceGrants(p) \/ ListWorkspacesUsing(p) \/ DeleteWorkspaceGrants(p) \/ VerifyDomain(p)
         \/ ListProviderIdentities(p)
  PROVE  Moved(p) /\ Reads
<1> USE AccessAssumption
<1>0. proc \in [Procs -> ProcRecords] /\ proc[p] \in ProcRecords /\ LocalInv(proc[p])
  BY DEF IInv, TypeOK, ProcRecords
<1> DEFINE s == proc[p].sel
           ws == proc[p].scope
<1>f. /\ proc[p].kind \in Kinds /\ ws \in Scopes /\ proc[p].barred \in BOOLEAN
      /\ proc[p].dead \in BOOLEAN /\ s.adapter \in Adapters \cup {None}
      /\ s.sender \in Idents \cup {None}
  BY <1>0, Fields
<1>v. /\ Validated(p) \in Pcs /\ Validated(p) \in {"write", "from"}
      /\ Validated(p) = "write" <=> proc[p].kind = "assign"
  BY DEF Validated, Pcs
<1>1. CASE Fail(p) \/ Accept(p)
  BY <1>1, IdleFacts DEF Fail, Accept, End, Moved
<1>2. CASE ReadAdapter(p)
  <2>1. proc[p].pc = "adapter" /\ Reads
    BY <1>2 DEF ReadAdapter
  <2>2. CASE (s.adapter = None \/ ws = System) /\ Go(p, Validated(p))
    <3>8. PICK r : GoneTo(p, Validated(p), r)
      BY <1>0, <1>v, <2>1, <2>2, GoMoves
    <3>9. LocalInv(r)
      BY <1>0, <1>v, <2>1, <2>2, <3>8 DEF GoneTo, LocalInv, KindAtStep, CheckedAtStep,
         SendAtStep, AssignAtStep, ReplaceAtStep
    <3> QED
      BY <2>1, <3>8, <3>9 DEF GoneTo, Moved
  <2>3. CASE /\ s.adapter # None /\ ws # System /\ s.adapter \in live
             /\ OwnerOf[s.adapter] \in {Global, ws} /\ Go(p, "sender")
    <3>1. Granted(agrant, igrant, ws, s)
      BY <2>3 DEF Granted
    <3>2. "sender" \in Pcs
      BY DEF Pcs
    <3>8. PICK r : GoneTo(p, "sender", r)
      BY <1>0, <2>1, <2>3, <3>1, <3>2, GoMoves
    <3>9. LocalInv(r)
      BY <1>0, <2>1, <2>3, <3>1, <3>2, <3>8 DEF GoneTo, LocalInv, KindAtStep, CheckedAtStep,
         SendAtStep, AssignAtStep, ReplaceAtStep, OwnsOrGlobal
    <3> QED
      BY <2>1, <3>8, <3>9 DEF GoneTo, Moved
  <2>4. CASE /\ s.adapter # None /\ ws # System /\ s.adapter \in live
             /\ OwnerOf[s.adapter] = System /\ ~usesIdentityGrants(s.adapter) /\ Go(p, "grant")
    <3>2. "grant" \in Pcs
      BY DEF Pcs
    <3>8. PICK r : GoneTo(p, "grant", r)
      BY <1>0, <2>1, <2>4, <3>2, GoMoves
    <3>9. LocalInv(r)
      BY <1>0, <2>1, <2>4, <3>2, <3>8 DEF GoneTo, LocalInv, KindAtStep, CheckedAtStep,
         SendAtStep, AssignAtStep, ReplaceAtStep
    <3> QED
      BY <2>1, <3>8, <3>9 DEF GoneTo, Moved
  <2>5. CASE /\ s.adapter # None /\ ws # System /\ s.adapter \in live
             /\ OwnerOf[s.adapter] = System /\ usesIdentityGrants(s.adapter) /\ s.sender # None
             /\ Go(p, "sender")
    <3>2. "sender" \in Pcs
      BY DEF Pcs
    <3>8. PICK r : GoneTo(p, "sender", r)
      BY <1>0, <2>1, <2>5, <3>2, GoMoves
    <3>9. LocalInv(r)
      BY <1>0, <2>1, <2>5, <3>2, <3>8 DEF GoneTo, LocalInv, KindAtStep, CheckedAtStep,
         SendAtStep, AssignAtStep, ReplaceAtStep
    <3> QED
      BY <2>1, <3>8, <3>9 DEF GoneTo, Moved
  <2> QED
    BY <1>2, <2>1, <2>2, <2>3, <2>4, <2>5 DEF ReadAdapter
<1>3. CASE ReadSender(p)
  <2>1. proc[p].pc = "sender" /\ Reads
        /\ (s.sender # None => AdapterOf[s.sender] = s.adapter)
        /\ ws # System /\ s.adapter # None
    BY <1>0, <1>3 DEF ReadSender, LocalInv, CheckedAtStep
  <2>2. CASE OwnerOf[s.adapter] = System /\ usesIdentityGrants(s.adapter) /\ Go(p, "grant")
    <3>1. "grant" \in Pcs
      BY DEF Pcs
    <3>8. PICK r : GoneTo(p, "grant", r)
      BY <1>0, <2>1, <2>2, <3>1, GoMoves
    <3>9. LocalInv(r)
      BY <1>0, <2>1, <2>2, <3>1, <3>8 DEF GoneTo, LocalInv, KindAtStep, CheckedAtStep,
         SendAtStep, AssignAtStep, ReplaceAtStep, OwnsOrGlobal
    <3> QED
      BY <2>1, <3>8, <3>9 DEF GoneTo, Moved
  <2>3. CASE ~(OwnerOf[s.adapter] = System /\ usesIdentityGrants(s.adapter)) /\ Go(p, Validated(p))
    <3>1. Granted(agrant, igrant, ws, s) \/ ~usesIdentityGrants(s.adapter)
      BY <1>0, <2>1, <2>3 DEF LocalInv, CheckedAtStep, Granted, OwnsOrGlobal
    <3>8. PICK r : GoneTo(p, Validated(p), r)
      BY <1>0, <1>v, <2>1, <2>3, <3>1, GoMoves
    <3>9. LocalInv(r)
      BY <1>0, <1>v, <2>1, <2>3, <3>1, <3>8 DEF GoneTo, LocalInv, KindAtStep, CheckedAtStep,
         SendAtStep, AssignAtStep, ReplaceAtStep
    <3> QED
      BY <2>1, <3>8, <3>9 DEF GoneTo, Moved
  <2> QED
    BY <1>3, <2>1, <2>2, <2>3 DEF ReadSender
<1>4. CASE ReadGrant(p)
  <2>1. proc[p].pc = "grant" /\ Reads /\ ws # System /\ s.adapter # None
        /\ OwnerOf[s.adapter] = System
    BY <1>0, <1>4 DEF ReadGrant, LocalInv, CheckedAtStep
  <2>2. CASE usesIdentityGrants(s.adapter)
    <3>1. Go(p, Validated(p)) /\ Granted(agrant, igrant, ws, s)
      BY <1>0, <1>4, <2>1, <2>2 DEF ReadGrant, LocalInv, CheckedAtStep, Granted
    <3>8. PICK r : GoneTo(p, Validated(p), r)
      BY <1>0, <1>v, <2>1, <2>2, <3>1, GoMoves
    <3>9. LocalInv(r)
      BY <1>0, <1>v, <2>1, <2>2, <3>1, <3>8 DEF GoneTo, LocalInv, KindAtStep, CheckedAtStep,
         SendAtStep, AssignAtStep, ReplaceAtStep
    <3> QED
      BY <2>1, <3>8, <3>9 DEF GoneTo, Moved
  <2>3. CASE ~usesIdentityGrants(s.adapter)
    <3>1. Go(p, "sender") /\ Granted(agrant, igrant, ws, s)
      BY <1>4, <2>1, <2>3 DEF ReadGrant, Granted
    <3>2. "sender" \in Pcs
      BY DEF Pcs
    <3>8. PICK r : GoneTo(p, "sender", r)
      BY <1>0, <2>1, <2>3, <3>1, <3>2, GoMoves
    <3>9. LocalInv(r)
      BY <1>0, <2>1, <2>3, <3>1, <3>2, <3>8 DEF GoneTo, LocalInv, KindAtStep, CheckedAtStep,
         SendAtStep, AssignAtStep, ReplaceAtStep
    <3> QED
      BY <2>1, <3>8, <3>9 DEF GoneTo, Moved
  <2> QED
    BY <2>1, <2>2, <2>3
<1>5. CASE ResolveForTemplateType(p)
  <2>1. proc[p].pc = "resolve" /\ Reads /\ Go(p, "adapter") /\ "adapter" \in Pcs
    BY <1>5 DEF ResolveForTemplateType, Pcs
  <2>8. PICK r : GoneTo(p, "adapter", r)
    BY <1>0, <2>1, GoMoves
  <2>9. LocalInv(r)
    BY <1>0, <2>1, <2>8 DEF GoneTo, LocalInv, KindAtStep, CheckedAtStep, SendAtStep,
       AssignAtStep, ReplaceAtStep
  <2> QED
    BY <2>1, <2>8, <2>9 DEF GoneTo, Moved
<1>6. CASE VerifyDomain(p)
  <2>1. proc[p].pc = "verify" /\ Reads /\ Go(p, "insert") /\ "insert" \in Pcs
    BY <1>6 DEF VerifyDomain, Pcs
  <2>8. PICK r : GoneTo(p, "insert", r)
    BY <1>0, <2>1, GoMoves
  <2>9. LocalInv(r)
    BY <1>0, <2>1, <2>8 DEF GoneTo, LocalInv, KindAtStep, CheckedAtStep, SendAtStep,
       AssignAtStep, ReplaceAtStep
  <2> QED
    BY <2>1, <2>8, <2>9 DEF GoneTo, Moved
<1>7. CASE ListWorkspacesUsing(p)
  <2>1. proc[p].pc = "usage" /\ Reads /\ Go(p, "replace") /\ "replace" \in Pcs
        /\ \A w \in proc[p].revoked : ~Needs(sel[w], proc[p].kind, proc[p].sel)
    BY <1>7 DEF ListWorkspacesUsing, Pcs
  <2>8. PICK r : GoneTo(p, "replace", r)
    BY <1>0, <2>1, GoMoves
  <2>9. LocalInv(r)
    BY <1>0, <2>1, <2>8 DEF GoneTo, LocalInv, KindAtStep, CheckedAtStep, SendAtStep,
       AssignAtStep, ReplaceAtStep
  <2> QED
    BY <2>1, <2>8, <2>9 DEF GoneTo, Moved
<1>11. CASE DeleteWorkspaceGrants(p)
  <2> DEFINE cur == CurrentGrants(p)
             r == [proc[p] EXCEPT !.pc = "commit", !.revoked = cur]
  <2>1. proc[p].pc = "replace" /\ Reads /\ proc' = [proc EXCEPT ![p] = r]
    BY <1>11 DEF DeleteWorkspaceGrants
  <2>2. cur \in SUBSET Workspaces
    BY <1>0, <1>f, <2>1 DEF IInv, TypeOK, LocalInv, KindAtStep, CurrentGrants
  <2> HIDE DEF cur
  <2>3. /\ r \in ProcRecords /\ r.pc = "commit" /\ r.kind = proc[p].kind /\ r.scope = ws
        /\ r.typ = proc[p].typ /\ r.sel = s /\ r.wanted = proc[p].wanted
        /\ r.barred = proc[p].barred /\ r.dead = proc[p].dead
    BY <1>0, <2>2 DEF ProcRecords, Pcs
  <2> HIDE DEF r
  <2>4. LocalInv(r)
    BY <1>0, <2>1, <2>3 DEF LocalInv, KindAtStep, CheckedAtStep, SendAtStep, AssignAtStep,
       ReplaceAtStep
  <2> QED
    BY <2>1, <2>3, <2>4 DEF Moved
<1>8. CASE resolveFromEmail(p)
  <2>1. PICK i \in Idents : /\ i = IF s.sender # None THEN s.sender ELSE default[s.adapter]
                            /\ proc' = [proc EXCEPT ![p].pc = "accepted", ![p].from = i]
    BY <1>8 DEF resolveFromEmail
  <2>2. proc[p].pc = "from" /\ Reads /\ proc[p].kind = "send" /\ s.adapter \in Adapters
    BY <1>0, <1>8, <1>f DEF resolveFromEmail, LocalInv, KindAtStep
  <2>3. ws # System => AdapterOf[i] = s.adapter
    BY <1>0, <2>1, <2>2 DEF IInv, DefaultIsOwn, LocalInv, CheckedAtStep
  <2> DEFINE r == [proc[p] EXCEPT !.pc = "accepted", !.from = i]
  <2>4. /\ r \in ProcRecords /\ r.pc = "accepted" /\ r.from = i /\ r.kind = proc[p].kind
        /\ r.scope = ws /\ r.typ = proc[p].typ /\ r.sel = s
        /\ r.barred = proc[p].barred /\ r.dead = proc[p].dead
    BY <1>0 DEF ProcRecords, Pcs
  <2>5. proc' = [proc EXCEPT ![p] = r]
    BY <2>1
  <2> HIDE DEF r
  <2>6. LocalInv(r)
    BY <1>0, <2>2, <2>3, <2>4 DEF LocalInv, KindAtStep, CheckedAtStep, SendAtStep,
       AssignAtStep, ReplaceAtStep
  <2> QED
    BY <2>2, <2>4, <2>5, <2>6 DEF Moved
<1>9. CASE ListProviderIdentities(p)
  <2> DEFINE st == provider[proc[p].sel.adapter]
             r == [proc[p] EXCEPT !.pc = "upsert", !.seen = st]
  <2>1. proc[p].pc = "fetch" /\ Reads /\ proc' = [proc EXCEPT ![p] = r]
    BY <1>9 DEF ListProviderIdentities
  <2>2. st \in Statuses
    BY <1>0, <1>f, <2>1 DEF IInv, TypeOK, LocalInv, KindAtStep
  <2> HIDE DEF st
  <2>3. /\ r \in ProcRecords /\ r.pc = "upsert" /\ r.kind = proc[p].kind /\ r.scope = ws
        /\ r.typ = proc[p].typ /\ r.sel = s /\ r.barred = proc[p].barred /\ r.dead = proc[p].dead
    BY <1>0, <2>2 DEF ProcRecords, Pcs
  <2> HIDE DEF r
  <2>4. LocalInv(r)
    BY <1>0, <2>1, <2>3 DEF LocalInv, KindAtStep, CheckedAtStep, SendAtStep, AssignAtStep,
       ReplaceAtStep
  <2> QED
    BY <2>1, <2>3, <2>4 DEF Moved
<1>10. CASE ListWorkspaceGrants(p)
  <2> DEFINE cur == IF proc[p].kind = "adapterGrants" THEN agrant[s.adapter] ELSE igrant[s.sender]
             rev == subtractUUIDs(cur, proc[p].wanted)
             x == IF rev = {} THEN "replace" ELSE "usage"
             r == [proc[p] EXCEPT !.revoked = rev, !.pc = x]
  <2>1. proc[p].pc = "list" /\ Reads /\ proc' = [proc EXCEPT ![p] = r]
    BY <1>10 DEF ListWorkspaceGrants, CurrentGrants
  <2>2. /\ proc[p].kind = "adapterGrants" => s.adapter \in Adapters
        /\ proc[p].kind # "adapterGrants" => s.sender \in Idents /\ proc[p].kind = "identityGrants"
    BY <1>0, <1>f, <2>1 DEF LocalInv, KindAtStep
  <2>3. cur \in SUBSET Workspaces
    BY <2>2 DEF IInv, TypeOK
  <2>4. rev \in SUBSET Workspaces /\ x \in {"usage", "replace"}
        /\ \A w \in cur : w \in proc[p].wanted \/ (x = "usage" /\ w \in rev)
    BY <2>3 DEF subtractUUIDs
  <2>5. \A w \in Workspaces \ raced :
          sel[w].adapter # None /\ Needs(sel[w], proc[p].kind, s) => w \in cur
    <3> SUFFICES ASSUME NEW w \in Workspaces \ raced, sel[w].adapter # None,
                        Needs(sel[w], proc[p].kind, s)
                 PROVE  w \in cur
      OBVIOUS
    <3>1. Granted(agrant, igrant, w, sel[w])
          \/ (usesIdentityGrants(sel[w].adapter) /\ sel[w].sender = None)
      BY DEF IInv, InUseIsGranted
    <3>2. CASE proc[p].kind = "adapterGrants"
      <4>1. sel[w].adapter = s.adapter /\ OwnerOf[s.adapter] = System /\ ~usesIdentityGrants(s.adapter)
        BY <1>0, <3>2 DEF Needs, LocalInv, KindAtStep
      <4> QED
        BY <3>1, <3>2, <4>1 DEF Granted
    <3>3. CASE proc[p].kind = "identityGrants"
      <4>1. sel[w].sender # None /\ sel[w].sender = s.sender /\ OwnerOf[AdapterOf[s.sender]] = System
            /\ usesIdentityGrants(AdapterOf[s.sender])
        BY <1>0, <3>3 DEF Needs, LocalInv, KindAtStep
      <4>2. sel[w].adapter = AdapterOf[s.sender]
        BY <4>1 DEF IInv, SelectionIsCoherent
      <4> QED
        BY <3>1, <3>3, <4>1, <4>2 DEF Granted
    <3> QED
      BY <2>2, <3>2, <3>3
  <2> HIDE DEF cur, rev, x
  <2>6. /\ r \in ProcRecords /\ r.pc = x /\ r.kind = proc[p].kind /\ r.scope = ws
        /\ r.typ = proc[p].typ /\ r.sel = s /\ r.barred = proc[p].barred /\ r.dead = proc[p].dead
        /\ r.wanted = proc[p].wanted /\ r.revoked = rev
    BY <1>0, <2>4 DEF ProcRecords, Pcs
  <2> HIDE DEF r
  <2>7. LocalInv(r)
    BY <1>0, <2>1, <2>4, <2>5, <2>6 DEF LocalInv, KindAtStep, CheckedAtStep, SendAtStep,
       AssignAtStep, ReplaceAtStep
  <2> QED
    BY <2>1, <2>6, <2>7 DEF Moved
<1> QED
  BY <1>1, <1>2, <1>3, <1>4, <1>5, <1>6, <1>7, <1>8, <1>9, <1>10, <1>11

-----------------------------------------------------------------------------
(* Requests do not depend on the domains, the provider and the defaults. *)
LEMMA LocalFrame ==
  ASSUME NEW r, LocalInv(r), UNCHANGED <<live, ident, agrant, igrant, sel, raced>>
  PROVE  LocalInv(r)'
  BY DEF LocalInv, KindAtStep, CheckedAtStep, SendAtStep, AssignAtStep, ReplaceAtStep,
     OwnsOrGlobal, Granted, Needs

(* Nor do the selections depend on the domains, the provider and the defaults. *)
LEMMA GlobalFrame ==
  ASSUME SelectionIsCoherent /\ InUseIsGranted, UNCHANGED <<ident, agrant, igrant, sel, raced>>
  PROVE  (SelectionIsCoherent /\ InUseIsGranted)'
  BY DEF SelectionIsCoherent, InUseIsGranted, Granted

(* Domains, defaults and the provider. *)
LEMMA DomainSteps ==
  ASSUME IInv,
         \/ \E p \in Procs : UpsertBatch(p) \/ DeleteStale(p)
         \/ \E a \in Adapters : \/ \E i \in Idents \cup {Domain} : SetDefault(a, i)
                                \/ \E st \in Statuses : ProviderChanges(a, st)
  PROVE  IInv'
<1> USE AccessAssumption
<1>0. proc \in [Procs -> ProcRecords] /\ \A q \in Procs : LocalInv(proc[q])
  BY DEF IInv, TypeOK, ProcRecords
<1>1. UNCHANGED <<live, ident, agrant, igrant, sel, former, raced>>
  BY DEF UpsertBatch, DeleteStale, SetDefault, ProviderChanges, grantVars, selVars
<1>2. requests' \in 0..MaxRequests
  BY DEF UpsertBatch, DeleteStale, SetDefault, ProviderChanges, IInv, TypeOK
<1>3. proc' \in [Procs -> ProcRecords] /\ \A q \in Procs : LocalInv(proc'[q])
  <2>1. ASSUME NEW p \in Procs, UpsertBatch(p)
        PROVE  proc' \in [Procs -> ProcRecords] /\ \A q \in Procs : LocalInv(proc'[q])
    <3>1. proc[p].pc = "upsert" /\ Go(p, "stale") /\ "stale" \in Pcs
      BY <2>1 DEF UpsertBatch, Pcs
    <3>2. PICK r : GoneTo(p, "stale", r)
      BY <3>1, GoMoves
    <3>3. LocalInv(r)
      BY <1>0, <3>1, <3>2 DEF GoneTo, LocalInv, KindAtStep, CheckedAtStep, SendAtStep,
         AssignAtStep, ReplaceAtStep
    <3> QED
      BY <1>0, <3>2, <3>3 DEF GoneTo
  <2>2. ASSUME NEW p \in Procs, DeleteStale(p)
        PROVE  proc' \in [Procs -> ProcRecords] /\ \A q \in Procs : LocalInv(proc'[q])
    BY <1>0, <2>2, IdleFacts DEF DeleteStale, End
  <2> QED
    BY <1>0, <2>1, <2>2 DEF SetDefault, ProviderChanges
<1>4. /\ domain' \in [Adapters -> Statuses] /\ provider' \in [Adapters -> Statuses]
      /\ default' \in [Adapters -> Idents \cup {None, Domain}] /\ DefaultIsOwn'
  <2>0. /\ domain \in [Adapters -> Statuses] /\ provider \in [Adapters -> Statuses]
        /\ default \in [Adapters -> Idents \cup {None, Domain}] /\ DefaultIsOwn
    BY DEF IInv, TypeOK
  <2>1. ASSUME NEW p \in Procs, UpsertBatch(p) \/ DeleteStale(p)
        PROVE  /\ domain' \in [Adapters -> Statuses] /\ provider' \in [Adapters -> Statuses]
               /\ default' \in [Adapters -> Idents \cup {None, Domain}] /\ DefaultIsOwn'
    <3>1. proc[p].seen \in Statuses
      BY <1>0, Fields
    <3>2. domain' \in [Adapters -> Statuses]
      BY <2>0, <2>1, <3>1 DEF UpsertBatch, DeleteStale, Statuses
    <3>3. UNCHANGED provider
      BY <2>1 DEF UpsertBatch, DeleteStale
    <3>4. \A a \in Adapters : default'[a] = default[a] \/ default'[a] = None
      BY <2>0, <2>1 DEF UpsertBatch, DeleteStale
    <3>5. default' \in [Adapters -> Idents \cup {None, Domain}]
      BY <2>0, <2>1 DEF UpsertBatch, DeleteStale
    <3> QED
      BY <2>0, <3>2, <3>3, <3>4, <3>5 DEF DefaultIsOwn
  <2>2. ASSUME NEW a \in Adapters, NEW i \in Idents \cup {Domain}, SetDefault(a, i)
        PROVE  /\ domain' \in [Adapters -> Statuses] /\ provider' \in [Adapters -> Statuses]
               /\ default' \in [Adapters -> Idents \cup {None, Domain}] /\ DefaultIsOwn'
    BY <2>0, <2>2 DEF SetDefault, DefaultIsOwn
  <2>3. ASSUME NEW a \in Adapters, NEW st \in Statuses, ProviderChanges(a, st)
        PROVE  /\ domain' \in [Adapters -> Statuses] /\ provider' \in [Adapters -> Statuses]
               /\ default' \in [Adapters -> Idents \cup {None, Domain}] /\ DefaultIsOwn'
    BY <2>0, <2>3 DEF ProviderChanges, DefaultIsOwn
  <2> QED
    BY <2>1, <2>2, <2>3
<1>5. TypeOK'
  BY <1>1, <1>2, <1>3, <1>4 DEF IInv, TypeOK, ProcRecords
<1>6. \A q \in Procs : LocalInv(proc[q])'
  BY <1>1, <1>3, LocalFrame
<1> QED
  BY <1>1, <1>4, <1>5, <1>6, GlobalFrame DEF IInv

(* A request outlives an adapter's removal and an identity's arrival. *)
LEMMA LocalGrows ==
  ASSUME NEW r \in ProcRecords, LocalInv(r), live' \subseteq live,
         \A i \in Idents : ident[i] \in {"present", "gone"} => ident'[i] = ident[i],
         UNCHANGED <<agrant, igrant, sel, raced>>
  PROVE  LocalInv(r)'
<1>1. r.sel.sender \in Idents \cup {None}
  BY Fields
<1> QED
  BY <1>1 DEF LocalInv, KindAtStep, CheckedAtStep, SendAtStep, AssignAtStep, ReplaceAtStep,
     OwnsOrGlobal, Granted, Needs

(* Deleting an adapter, adding an identity: what was checked stays checked. *)
LEMMA AdapterSteps ==
  ASSUME IInv, (\E a \in Adapters : SoftDelete(a)) \/ (\E p \in Procs : InsertIdentity(p))
  PROVE  IInv'
<1> USE AccessAssumption
<1>0. proc \in [Procs -> ProcRecords] /\ \A q \in Procs : LocalInv(proc[q])
  BY DEF IInv, TypeOK, ProcRecords
<1>1. /\ UNCHANGED <<domain, provider, default, agrant, igrant, sel, former, raced>>
      /\ live' \subseteq live /\ requests' \in 0..MaxRequests
  BY DEF SoftDelete, InsertIdentity, identVars, grantVars, selVars, IInv, TypeOK
<1>2. proc' \in [Procs -> ProcRecords] /\ \A q \in Procs : LocalInv(proc'[q])
  BY <1>0, IdleFacts DEF SoftDelete, InsertIdentity, End
<1>3. /\ ident' \in [Idents -> {"new", "present", "gone"}]
      /\ \A i \in Idents : ident[i] \in {"present", "gone"} => ident'[i] = ident[i]
  <2>1. CASE \E a \in Adapters : SoftDelete(a)
    BY <2>1 DEF SoftDelete, identVars, IInv, TypeOK
  <2>2. ASSUME NEW p \in Procs, InsertIdentity(p)
        PROVE  /\ ident' \in [Idents -> {"new", "present", "gone"}]
               /\ \A i \in Idents : ident[i] \in {"present", "gone"} => ident'[i] = ident[i]
    BY <2>2 DEF InsertIdentity, IInv, TypeOK
  <2> QED
    BY <2>1, <2>2
<1>4. TypeOK'
  BY <1>1, <1>2, <1>3 DEF IInv, TypeOK, ProcRecords
<1>5. (DefaultIsOwn /\ InUseIsGranted)'
  BY <1>1 DEF IInv, DefaultIsOwn, InUseIsGranted, Granted
<1>6. SelectionIsCoherent'
  BY <1>1, <1>3 DEF IInv, TypeOK, Selections, Scopes, SelectionIsCoherent
<1>7. \A q \in Procs : LocalInv(proc[q])'
  BY <1>1, <1>2, <1>3, LocalGrows
<1> QED
  BY <1>4, <1>5, <1>6, <1>7 DEF IInv

(* Deleting an identity takes its grants and its uses with it. *)
LEMMA LocalLoses ==
  ASSUME NEW r \in ProcRecords, LocalInv(r), NEW i \in Idents, DeleteIdentity(i), TypeOK
  PROVE  LocalInv(r)'
<1> USE AccessAssumption
<1>1. /\ r.sel.sender \in Idents \cup {None} /\ r.sel.adapter \in Adapters \cup {None}
      /\ r.barred \in BOOLEAN
  BY Fields
<1>2. /\ UNCHANGED <<live, agrant, raced>> /\ ident'[i] = "gone" /\ igrant'[i] = {}
      /\ \A j \in Idents : j # i => ident'[j] = ident[j] /\ igrant'[j] = igrant[j]
  BY DEF DeleteIdentity, TypeOK
<1>3. \A t \in Scopes : sel'[t].adapter = sel[t].adapter /\ sel'[t].sender \in {sel[t].sender, None}
  BY DEF DeleteIdentity, TypeOK, Selections
<1>4. KindAtStep(r)' /\ CheckedAtStep(r)'
  BY DEF LocalInv, KindAtStep, CheckedAtStep, OwnsOrGlobal
<1>5. Granted(agrant, igrant, r.scope, r.sel)' => Granted(agrant, igrant, r.scope, r.sel)
  BY <1>1, <1>2 DEF Granted
<1>6. SendAtStep(r)'
  BY <1>2, <1>5 DEF LocalInv, SendAtStep
<1>7. Granted(agrant, igrant, r.scope, r.sel) =>
        \/ Granted(agrant, igrant, r.scope, r.sel)'
        \/ usesIdentityGrants(r.sel.adapter) /\ r.sel.sender = i
  BY <1>1, <1>2 DEF Granted
<1>8. AssignAtStep(r)'
  BY <1>1, <1>2, <1>7 DEF LocalInv, AssignAtStep
<1>9. ReplaceAtStep(r)'
  BY <1>2, <1>3 DEF LocalInv, ReplaceAtStep, Needs, Scopes
<1> QED
  BY <1>4, <1>6, <1>8, <1>9 DEF LocalInv

(* So the removal of an identity keeps the invariant. *)
LEMMA DeleteIdentityStep ==
  ASSUME IInv, NEW i \in Idents, DeleteIdentity(i) PROVE IInv'
<1> USE AccessAssumption
<1>0. proc \in [Procs -> ProcRecords] /\ \A q \in Procs : LocalInv(proc[q])
  BY DEF IInv, TypeOK, ProcRecords
<1>1. \A t \in Scopes : /\ sel'[t] \in Selections /\ sel'[t].adapter = sel[t].adapter
                        /\ sel'[t].sender = IF sel[t].sender = i THEN None ELSE sel[t].sender
  <2> SUFFICES ASSUME NEW t \in Scopes
               PROVE  /\ sel'[t] \in Selections /\ sel'[t].adapter = sel[t].adapter
                      /\ sel'[t].sender = IF sel[t].sender = i THEN None ELSE sel[t].sender
    OBVIOUS
  <2>1. sel[t] \in Selections
    BY DEF IInv, TypeOK
  <2>2. sel'[t] = IF sel[t].sender = i THEN [sel[t] EXCEPT !.sender = None] ELSE sel[t]
    BY DEF DeleteIdentity
  <2> QED
    BY <2>1, <2>2 DEF Selections
<1>2. TypeOK'
  <2>1. former' \in [Scopes -> SUBSET Selections]
    BY <1>1 DEF DeleteIdentity, IInv, TypeOK
  <2>2. sel' \in [Scopes -> Selections]
    BY <1>1 DEF DeleteIdentity
  <2>3. /\ ident' \in [Idents -> {"new", "present", "gone"}] /\ igrant' \in [Idents -> SUBSET Workspaces]
        /\ default' \in [Adapters -> Idents \cup {None, Domain}] /\ requests' \in 0..MaxRequests
    BY DEF DeleteIdentity, IInv, TypeOK
  <2> QED
    BY <2>1, <2>2, <2>3 DEF DeleteIdentity, IInv, TypeOK
<1>3. DefaultIsOwn'
  BY DEF DeleteIdentity, IInv, DefaultIsOwn
<1>4. SelectionIsCoherent'
  BY <1>1 DEF DeleteIdentity, IInv, TypeOK, Selections, Scopes, SelectionIsCoherent
<1>5. ASSUME NEW ws \in Workspaces, (sel[ws].adapter # None /\ ws \notin raced)'
      PROVE  (\/ Granted(agrant, igrant, ws, sel[ws])
              \/ usesIdentityGrants(sel[ws].adapter) /\ sel[ws].sender = None)'
  <2>1. /\ sel'[ws].adapter = sel[ws].adapter
        /\ sel'[ws].sender = IF sel[ws].sender = i THEN None ELSE sel[ws].sender
    BY <1>1 DEF Scopes
  <2>2. sel[ws].sender \in Idents \cup {None}
    BY DEF IInv, TypeOK, Selections, Scopes
  <2>3. \/ Granted(agrant, igrant, ws, sel[ws])
        \/ usesIdentityGrants(sel[ws].adapter) /\ sel[ws].sender = None
    BY <1>5, <2>1 DEF IInv, InUseIsGranted, DeleteIdentity
  <2>4. agrant' = agrant /\ \A j \in Idents : j # i => igrant'[j] = igrant[j]
    BY DEF DeleteIdentity, IInv, TypeOK
  <2> QED
    BY <2>1, <2>2, <2>3, <2>4 DEF Granted
<1>6. InUseIsGranted'
  BY <1>5 DEF InUseIsGranted
<1>7. \A q \in Procs : LocalInv(proc[q])'
  BY <1>0, LocalLoses DEF DeleteIdentity, IInv
<1> QED
  BY <1>2, <1>3, <1>4, <1>6, <1>7 DEF IInv

(* The write of an assignment. *)
LEMMA UpdateTypeStep ==
  ASSUME IInv, NEW p \in Procs, UpdateType(p) PROVE IInv'
<1> USE AccessAssumption
<1>0. proc \in [Procs -> ProcRecords] /\ \A q \in Procs : LocalInv(proc[q])
  BY DEF IInv, TypeOK, ProcRecords
<1> DEFINE t == proc[p].typ
           s == proc[p].sel
<1>1. /\ t \in Scopes /\ s \in Selections /\ proc[p].barred \in BOOLEAN
      /\ s.adapter \in Adapters \cup {None} /\ s.sender \in Idents \cup {None}
  BY <1>0, Fields
<1>2. /\ proc[p].pc = "write" /\ proc[p].kind = "assign" /\ proc[p].scope = t
      /\ s.sender # None => ident[s.sender] = "present"
  BY <1>0 DEF UpdateType, LocalInv, KindAtStep
<1>3. /\ sel' = [sel EXCEPT ![t] = s]
      /\ UNCHANGED <<live, ident, domain, provider, default, agrant, igrant, requests>>
      /\ raced' = IF t \in Workspaces /\ Overlapped(p) THEN raced \cup {t} ELSE raced \ {t}
      /\ proc' = [proc EXCEPT ![p] = Idle]
  BY DEF UpdateType, End, identVars, grantVars
<1>4. sel'[t] = s /\ \A w \in Scopes : w # t => sel'[w] = sel[w]
  BY <1>1, <1>3 DEF IInv, TypeOK
<1>5. TypeOK'
  <2>1. former' \in [Scopes -> SUBSET Selections]
    BY <1>1 DEF UpdateType, IInv, TypeOK
  <2>2. proc' \in [Procs -> ProcRecords]
    BY <1>0, <1>3, IdleFacts
  <2>3. sel' \in [Scopes -> Selections] /\ raced' \subseteq Workspaces
    BY <1>1, <1>3 DEF IInv, TypeOK
  <2> QED
    BY <1>3, <2>1, <2>2, <2>3 DEF IInv, TypeOK, ProcRecords
<1>6. DefaultIsOwn'
  BY <1>3 DEF IInv, DefaultIsOwn
<1>7. SelectionIsCoherent'
  <2>1. t \in Workspaces /\ s.adapter # None /\ s.sender # None => AdapterOf[s.sender] = s.adapter
    BY <1>0, <1>2 DEF LocalInv, CheckedAtStep
  <2> QED
    BY <1>2, <1>3, <1>4, <2>1 DEF IInv, SelectionIsCoherent, Scopes
<1>8. InUseIsGranted'
  <2>1. t \in Workspaces /\ t \notin raced' /\ s.adapter # None => Granted(agrant, igrant, t, s)
    BY <1>0, <1>1, <1>2, <1>3 DEF LocalInv, AssignAtStep, Overlapped
  <2>2. ASSUME NEW w \in Workspaces, sel'[w].adapter # None, w \notin raced'
        PROVE  \/ Granted(agrant', igrant', w, sel'[w])
               \/ usesIdentityGrants(sel'[w].adapter) /\ sel'[w].sender = None
    <3>1. CASE w = t
      BY <1>3, <1>4, <2>1, <2>2, <3>1
    <3>2. CASE w # t
      BY <1>3, <1>4, <2>2, <3>2 DEF IInv, InUseIsGranted, Scopes
    <3> QED
      BY <3>1, <3>2
  <2> QED
    BY <2>2 DEF InUseIsGranted
<1>9. ASSUME NEW q \in Procs PROVE LocalInv(proc[q])'
  <2>1. LocalInv(proc'[q]) /\ (q # p => proc'[q] = proc[q]) /\ (q = p => proc'[q] = Idle)
    BY <1>0, <1>3, IdleFacts
  <2>2. (KindAtStep(proc[q]) /\ CheckedAtStep(proc[q]) /\ SendAtStep(proc[q]) /\ AssignAtStep(proc[q]))'
    BY <1>3, <2>1 DEF LocalInv, KindAtStep, CheckedAtStep, SendAtStep, AssignAtStep,
       OwnsOrGlobal, Granted
  <2>3. ReplaceAtStep(proc[q])'
    <3>1. CASE q = p
      BY <2>1, <3>1 DEF ReplaceAtStep, Idle
    <3>2. CASE q # p
      <4> SUFFICES ASSUME proc[q].pc \in {"usage", "replace", "commit"}, NEW w \in Workspaces \ raced',
                          sel'[w].adapter # None, Needs(sel'[w], proc[q].kind, proc[q].sel)
                   PROVE  w \in proc[q].wanted \/ (proc[q].pc = "usage" /\ w \in proc[q].revoked)
        BY <2>1, <3>2 DEF ReplaceAtStep, Needs
      <4>1. w # t
        BY <1>3, <1>4, <3>2 DEF Overlapped
      <4> QED
        BY <1>0, <1>3, <1>4, <4>1 DEF LocalInv, ReplaceAtStep, Scopes
    <3> QED
      BY <3>1, <3>2
  <2> QED
    BY <2>2, <2>3 DEF LocalInv
<1> QED
  BY <1>5, <1>6, <1>7, <1>8, <1>9 DEF IInv

(* The other requests after a replacement: only the marks change. *)
LEMMA NotingFields ==
  ASSUME NEW P \in [Procs -> ProcRecords], NEW k \in Kinds, NEW x \in Selections,
         NEW rows, NEW q \in Procs
  PROVE  LET r == Noting(P, k, x, rows)[q] IN
         /\ r \in ProcRecords /\ r.pc = P[q].pc /\ r.kind = P[q].kind /\ r.scope = P[q].scope
         /\ r.typ = P[q].typ /\ r.sel = P[q].sel /\ r.wanted = P[q].wanted
         /\ P[q].pc # "commit" => r.revoked = P[q].revoked
         /\ r.from = P[q].from /\ r.dead = P[q].dead
         /\ r.barred <=>
              \/ /\ P[q].kind = "send" /\ P[q].barred
                 /\ ~Granted(agrant', igrant', P[q].scope, P[q].sel)
              \/ /\ P[q].kind = "assign"
                 /\ \/ P[q].barred
                    \/ /\ Needs(P[q].sel, k, x)
                       /\ P[q].pc = "write" \/ (P[q].pc = "sender" /\ k = "adapterGrants")
<1> DEFINE b == \/ /\ P[q].kind = "send" /\ P[q].barred
                   /\ ~Granted(agrant', igrant', P[q].scope, P[q].sel)
                \/ /\ P[q].kind = "assign"
                   /\ \/ P[q].barred
                      \/ /\ Needs(P[q].sel, k, x)
                         /\ P[q].pc = "write" \/ (P[q].pc = "sender" /\ k = "adapterGrants")
           v == IF P[q].pc = "commit" /\ P[q].kind = k /\ P[q].sel = x
                THEN P[q].revoked \ rows ELSE P[q].revoked
<1>1. Noting(P, k, x, rows)[q] = [P[q] EXCEPT !.revoked = v, !.barred = b]
  BY DEF Noting
<1>2. b \in BOOLEAN
  BY Zenon
<1>4. v \in SUBSET Workspaces /\ (P[q].pc # "commit" => v = P[q].revoked)
  BY Fields
<1> HIDE DEF b, v
<1>3. LET r == [P[q] EXCEPT !.revoked = v, !.barred = b] IN
      /\ r \in ProcRecords /\ r.pc = P[q].pc /\ r.kind = P[q].kind /\ r.scope = P[q].scope
      /\ r.typ = P[q].typ /\ r.sel = P[q].sel /\ r.wanted = P[q].wanted
      /\ r.revoked = v /\ r.from = P[q].from /\ r.dead = P[q].dead /\ r.barred = b
  BY <1>2, <1>4 DEF ProcRecords
<1> QED
  BY <1>1, <1>3, <1>4 DEF b

(* The replacement of a grant's workspaces: what was revoked is not in use. *)
LEMMA ReplaceStep ==
  ASSUME IInv, NEW p \in Procs, ReplaceWorkspaceGrants(p) PROVE IInv'
<1> USE AccessAssumption
<1>0. proc \in [Procs -> ProcRecords] /\ \A q \in Procs : LocalInv(proc[q])
  BY DEF IInv, TypeOK, ProcRecords
<1> DEFINE x == proc[p].sel
           w == proc[p].wanted
           k == proc[p].kind
           P == [proc EXCEPT ![p] = Idle]
           new == (CurrentGrants(p) \ proc[p].revoked) \cup w
<1>1. /\ x \in Selections /\ x.adapter \in Adapters \cup {None} /\ x.sender \in Idents \cup {None}
      /\ w \in SUBSET Workspaces /\ k \in Kinds
  BY <1>0, Fields
<1>2. /\ proc[p].pc = "commit" /\ k \in {"adapterGrants", "identityGrants"}
      /\ k = "adapterGrants" => /\ x.adapter \in Adapters /\ OwnerOf[x.adapter] = System
                                /\ ~usesIdentityGrants(x.adapter)
      /\ k = "identityGrants" => /\ x.sender \in Idents /\ AdapterOf[x.sender] = x.adapter
                                 /\ OwnerOf[x.adapter] = System /\ usesIdentityGrants(x.adapter)
  BY <1>0, <1>1 DEF ReplaceWorkspaceGrants, LocalInv, KindAtStep
<1>3. /\ UNCHANGED <<live, ident, domain, provider, default, sel, former, raced, requests>>
      /\ proc' = Noting(P, k, x, proc[p].revoked)
  BY DEF ReplaceWorkspaceGrants, identVars, selVars
<1>4. /\ k = "adapterGrants" => igrant' = igrant /\ agrant' = [agrant EXCEPT ![x.adapter] = new]
      /\ k = "identityGrants" => agrant' = agrant /\ igrant' = [igrant EXCEPT ![x.sender] = new]
  BY DEF ReplaceWorkspaceGrants
<1>5. agrant \in [Adapters -> SUBSET Workspaces] /\ igrant \in [Idents -> SUBSET Workspaces]
  BY DEF IInv, TypeOK
<1>w. new \in SUBSET Workspaces /\ w \subseteq new
  BY <1>1, <1>2, <1>5 DEF CurrentGrants
<1> HIDE DEF new
<1>6. agrant' \in [Adapters -> SUBSET Workspaces] /\ igrant' \in [Idents -> SUBSET Workspaces]
  BY <1>1, <1>2, <1>4, <1>5, <1>w
<1>7. P \in [Procs -> ProcRecords] /\ \A q \in Procs : LocalInv(P[q])
  BY <1>0, IdleFacts
<1> HIDE DEF P
<1>8. proc' \in [Procs -> ProcRecords]
  <2>1. proc' = [q \in Procs |-> proc'[q]]
    BY <1>3 DEF Noting
  <2>2. \A q \in Procs : proc'[q] \in ProcRecords
    BY <1>1, <1>3, <1>7, NotingFields
  <2> QED
    BY <2>1, <2>2
<1>9. TypeOK'
  BY <1>3, <1>6, <1>8 DEF IInv, TypeOK, ProcRecords
<1>10. (DefaultIsOwn /\ SelectionIsCoherent)'
  BY <1>3 DEF IInv, DefaultIsOwn, SelectionIsCoherent
(* Who does not need these grants keeps what it has. *)
<1>11. ASSUME NEW ws \in Workspaces, NEW s \in Selections, s.adapter # None, ~Needs(s, k, x)
       PROVE  Granted(agrant, igrant, ws, s) => Granted(agrant', igrant', ws, s)
  <2>1. s.adapter \in Adapters /\ s.sender \in Idents \cup {None}
    BY <1>11 DEF Selections
  <2>2. CASE k = "adapterGrants"
    BY <1>2, <1>4, <1>5, <1>11, <2>1, <2>2 DEF Granted, Needs
  <2>3. CASE k = "identityGrants"
    BY <1>2, <1>4, <1>5, <1>11, <2>1, <2>3 DEF Granted, Needs
  <2> QED
    BY <1>2, <2>2, <2>3
<1>12. ASSUME NEW ws \in Workspaces, sel[ws].adapter # None, ws \notin raced
       PROVE  \/ Granted(agrant', igrant', ws, sel[ws])
              \/ usesIdentityGrants(sel[ws].adapter) /\ sel[ws].sender = None
  <2>1. sel[ws] \in Selections
    BY DEF IInv, TypeOK, Scopes
  <2>2. CASE ~Needs(sel[ws], k, x)
    BY <1>11, <1>12, <2>1, <2>2 DEF IInv, InUseIsGranted
  <2>3. CASE Needs(sel[ws], k, x)
    <3>1. ws \in new
      BY <1>0, <1>2, <1>w, <1>12, <2>3 DEF LocalInv, ReplaceAtStep
    <3>2. CASE k = "adapterGrants"
      BY <1>2, <1>4, <1>5, <2>3, <3>1, <3>2 DEF Needs, Granted
    <3>3. CASE k = "identityGrants"
      <4>1. sel[ws].sender = x.sender /\ sel[ws].sender # None
        BY <2>3, <3>3 DEF Needs
      <4>2. sel[ws].adapter = x.adapter
        BY <1>2, <1>12, <3>3, <4>1 DEF IInv, SelectionIsCoherent
      <4> QED
        BY <1>2, <1>4, <1>5, <3>1, <3>3, <4>1, <4>2 DEF Granted
    <3> QED
      BY <1>2, <3>2, <3>3
  <2> QED
    BY <2>2, <2>3
<1>13. InUseIsGranted'
  BY <1>3, <1>12 DEF InUseIsGranted
<1>14. ASSUME NEW q \in Procs PROVE LocalInv(proc[q])'
  <2> DEFINE r == proc'[q]
  <2>1. /\ r \in ProcRecords /\ r.pc = P[q].pc /\ r.kind = P[q].kind /\ r.scope = P[q].scope
        /\ r.typ = P[q].typ /\ r.sel = P[q].sel /\ r.wanted = P[q].wanted
        /\ P[q].pc # "commit" => r.revoked = P[q].revoked
        /\ r.from = P[q].from /\ r.dead = P[q].dead
    BY <1>1, <1>3, <1>7, NotingFields
  <2>2. r.barred <=>
              \/ /\ P[q].kind = "send" /\ P[q].barred
                 /\ ~Granted(agrant', igrant', P[q].scope, P[q].sel)
              \/ /\ P[q].kind = "assign"
                 /\ \/ P[q].barred
                    \/ /\ Needs(P[q].sel, k, x)
                       /\ P[q].pc = "write" \/ (P[q].pc = "sender" /\ k = "adapterGrants")
    BY <1>1, <1>3, <1>7, NotingFields
  <2>3. LocalInv(P[q]) /\ P[q] \in ProcRecords
    BY <1>7
  <2>4. P[q].sel \in Selections /\ P[q].scope \in Scopes
    BY <2>3, Fields
  <2> HIDE DEF r
  <2>5. KindAtStep(r) /\ CheckedAtStep(r)
    BY <2>1, <2>3 DEF LocalInv, KindAtStep, CheckedAtStep, OwnsOrGlobal
  <2>6. r.kind = "send" =>
          /\ r.dead => r.sel.adapter \notin live
          /\ r.barred => ~Granted(agrant', igrant', r.scope, r.sel)
          /\ r.scope # System /\ r.pc \in {"sender", "grant", "from", "accepted"} => ~r.dead
          /\ r.scope # System /\ r.pc \in {"from", "accepted"} => ~r.barred
          /\ r.pc = "sender" /\ ~usesIdentityGrants(r.sel.adapter) => ~r.barred
    BY <2>1, <2>2, <2>3 DEF LocalInv, SendAtStep
  <2>7. ASSUME r.kind = "assign", r.scope # System, r.sel.adapter # None, ~r.barred
        PROVE  /\ r.pc = "sender" /\ ~usesIdentityGrants(r.sel.adapter) =>
                    Granted(agrant', igrant', r.scope, r.sel)
               /\ r.pc = "write" => \/ Granted(agrant', igrant', r.scope, r.sel)
                                    \/ r.sel.sender # None /\ ident[r.sel.sender] = "gone"
    <3>1. P[q].scope \in Workspaces /\ ~P[q].barred
      BY <2>1, <2>2, <2>4, <2>7 DEF Scopes
    <3>2. CASE r.pc = "write"
      <4>1. ~Needs(P[q].sel, k, x)
        BY <2>1, <2>2, <2>7, <3>2
      <4> QED
        BY <1>11, <2>1, <2>3, <2>4, <2>7, <3>1, <3>2, <4>1 DEF LocalInv, AssignAtStep
    <3>3. CASE r.pc = "sender" /\ ~usesIdentityGrants(r.sel.adapter)
      <4>1. Granted(agrant, igrant, P[q].scope, P[q].sel)
        BY <2>1, <2>3, <2>7, <3>1, <3>3 DEF LocalInv, AssignAtStep
      <4>2. CASE k = "adapterGrants"
        <5>1. ~Needs(P[q].sel, k, x)
          BY <2>1, <2>2, <2>7, <3>3, <4>2
        <5> QED
          BY <1>11, <2>1, <2>4, <2>7, <3>1, <3>3, <4>1, <5>1
      <4>3. CASE k = "identityGrants"
        BY <1>4, <2>1, <3>3, <4>1, <4>3 DEF Granted
      <4> QED
        BY <1>2, <3>3, <4>2, <4>3
    <3> QED
      BY <3>2, <3>3
  <2>8. ReplaceAtStep(r)
    BY <2>1, <2>3 DEF LocalInv, ReplaceAtStep
  <2> QED
    BY <1>3, <2>5, <2>6, <2>7, <2>8 DEF r, LocalInv, KindAtStep, CheckedAtStep, SendAtStep,
       AssignAtStep, ReplaceAtStep, OwnsOrGlobal
<1> QED
  BY <1>9, <1>10, <1>13, <1>14 DEF IInv
-----------------------------------------------------------------------------
(* The invariant is inductive, so it holds in every reachable state. *)
LEMMA Inductive == Spec => []IInv
<1>1. ASSUME IInv, [Next]_vars PROVE IInv'
  <2>1. ASSUME NEW p \in Procs, RequestNext(p) PROVE IInv'
    <3>1. TypeOK
      BY <1>1 DEF IInv
    <3>2. PICK r \in ProcRecords : Begin(p, r) /\ LocalInv(r)
      BY <2>1, <3>1, RequestsBegin
    <3>3. /\ proc' = [proc EXCEPT ![p] = r] /\ UNCHANGED stateVars
          /\ requests' \in 0..MaxRequests
      BY <3>1, <3>2, AccessAssumption DEF Begin, stateVars, TypeOK
    <3> QED
      BY <1>1, <3>2, <3>3, LocalStep
  <2>2. ASSUME NEW p \in Procs,
               \/ Fail(p) \/ ReadAdapter(p) \/ ReadSender(p) \/ ReadGrant(p)
               \/ ResolveForTemplateType(p) \/ resolveFromEmail(p) \/ Accept(p)
               \/ ListWorkspaceGrants(p) \/ ListWorkspacesUsing(p) \/ DeleteWorkspaceGrants(p) \/ VerifyDomain(p)
               \/ ListProviderIdentities(p)
        PROVE  IInv'
    <3>1. Moved(p) /\ Reads
      BY <1>1, <2>2, ReadsMove
    <3>2. UNCHANGED stateVars /\ requests' \in 0..MaxRequests
      BY <1>1, <3>1 DEF Reads, stateVars, IInv, TypeOK
    <3> QED
      BY <1>1, <3>1, <3>2, LocalStep DEF Moved
  <2>3. CASE UNCHANGED vars
    <3>1. \A q \in Procs : LocalInv(proc'[q])
      BY <1>1, <2>3 DEF vars, IInv
    <3>2. \A q \in Procs : LocalInv(proc[q])'
      BY <2>3, <3>1, LocalFrame DEF vars
    <3>3. TypeOK' /\ DefaultIsOwn'
      BY <1>1, <2>3 DEF vars, IInv, TypeOK, DefaultIsOwn
    <3> QED
      BY <1>1, <2>3, <3>2, <3>3, GlobalFrame DEF vars, IInv
  <2> QED
    BY <1>1, <2>1, <2>2, <2>3, DomainSteps, AdapterSteps, DeleteIdentityStep, UpdateTypeStep,
       ReplaceStep DEF Next, StepNext
<1> QED
  BY InitIInv, <1>1, PTL DEF Spec

\* Every variable keeps its type.
THEOREM TypeCorrect == Spec => []TypeOK
<1>1. IInv => TypeOK
  BY DEF IInv
<1> QED
  BY Inductive, <1>1, PTL

\* An accepted email had its adapter and its grant at some moment of its request,
\* and goes out from an identity of that adapter (ValidateTemplateTypeSelection,
\* resolveFromEmail).
THEOREM SendsAlwaysGranted == Spec => []SendsWereGranted
<1>1. IInv => SendsWereGranted
  <2> SUFFICES ASSUME IInv, NEW p \in Procs, proc[p].pc = "accepted"
               PROVE  /\ proc[p].scope # System => ~proc[p].barred /\ ~proc[p].dead
                      /\ AdapterOf[proc[p].from] = proc[p].sel.adapter \/ proc[p].scope = System
    BY DEF SendsWereGranted
  <2> QED
    BY DEF IInv, LocalInv, KindAtStep, CheckedAtStep, SendAtStep
<1> QED
  BY Inductive, <1>1, PTL

\* A grant that a workspace's type uses is not taken away, unless assignment and
\* replacement overlap (ReplaceAdapterWorkspaceAccess,
\* ReplaceIdentityWorkspaceAccess).
THEOREM InUseAlwaysGranted == Spec => []InUseIsGranted
<1>1. IInv => InUseIsGranted
  BY DEF IInv
<1> QED
  BY Inductive, <1>1, PTL

\* The sender of a workspace's type is there and is one of its adapter
\* (validateSenderIdentity, UpdateType, Delete).
THEOREM SelectionAlwaysCoherent == Spec => []SelectionIsCoherent
<1>1. IInv => SelectionIsCoherent
  BY DEF IInv
<1> QED
  BY Inductive, <1>1, PTL
=============================================================================
