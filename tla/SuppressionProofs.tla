------------------------- MODULE SuppressionProofs -------------------------
(***************************************************************************)
(* Proofs about Suppression, for every set of workspaces, types, spellings *)
(* and concurrent sends, and about SendRequest, the request that asks the  *)
(* lists.  The two share no variable and no constant.                      *)
(***************************************************************************)
EXTENDS Suppression, SendRequest, FiniteSetTheorems, TLAPS

(***************************************************************************)
(* The two queries of EvaluateForType: after the first one a send that is  *)
(* still free has no list block left from before, after the second one no  *)
(* block at all.                                                           *)
(***************************************************************************)
FreeAtStep ==
    \A s \in Senders :
      /\ pc[s] = "types" /\ reason[s] = "none" => standing[s] \subseteq {"type"}
      /\ pc[s] = "create" /\ reason[s] = "none" => standing[s] = {}
      /\ pc[s] \in {"queued", "deliver", "sent"} => standing[s] = {}

(* The unique index: within a workspace a slug names one type, live or not. *)
Unique ==
    \A t, u \in Types :
      slugOf[t] = slugOf[u] /\ slugOf[t] # NoSlug /\ Scope[t] = Scope[u] => t = u

(* What the worker would find in the workspace of a send: its own type, or   *)
(* one that took the slug since.                                             *)
Resolved ==
    \A s \in Senders :
      pc[s] # "idle" => FindTypeBySlugInScope(req[s].slug, req[s].ws)
                          \subseteq {req[s].type} \union took[s]

IInv == TypeOK /\ FreeAtStep /\ SeriousIsPermanent /\ Unique /\ Resolved /\ LinkNamesTheType
-----------------------------------------------------------------------------

\* The invariant holds on empty lists.
LEMMA InitIInv == Init => IInv
  BY SuppressionBoundsAssumption, ScopeAssumption, SlugAssumption
  DEF Init, IInv, TypeOK, Steps, Reasons, Levels, FreeAtStep, SeriousIsPermanent, Unique,
      Resolved, LinkNamesTheType

\* The history of standing blocks and of taken slugs stays well typed.
LEMMA TrackType == ASSUME TypeOK, Track PROVE /\ standing' \in [Senders -> SUBSET Levels]
                                              /\ took' \in [Senders -> SUBSET Types]
<1>1. standing' \in [Senders -> SUBSET Levels]
  BY DEF TypeOK, Track, InForce
<1>2. took' \in [Senders -> SUBSET Types]
  BY DEF TypeOK, Track, FindTypeBySlugInScope
<1> QED BY <1>1, <1>2

\* A slug resolves to types only.
LEMMA Found ==
  ASSUME NEW slug, NEW ws PROVE GetTypeBySlug(slug, ws) \subseteq Types
  BY DEF GetTypeBySlug, FindTypeBySlugInScope

\* The steps of a send keep the types of what they write.
LEMMA SendStepType == ASSUME TypeOK, SendStep PROVE
    /\ pc' \in [Senders -> Steps]
    /\ req' \in [Senders -> Requests \union {NoRequest}]
    /\ \A s \in Senders : pc'[s] # "idle" => req'[s] \in Requests
    /\ reason' \in [Senders -> {"none", "listed", "type_optout"}]
    /\ link' \in [Senders -> SUBSET Types]
    /\ requested' \in 0 .. MaxSends
<1> PICK s \in Senders :
      \/ \E ws \in Workspaces, slug \in Slugs, to \in Spellings : Request(s, ws, slug, to)
      \/ CheckBatch(s) \/ BatchCheckOptOut(s) \/ Persist(s) \/ Refuse(s)
      \/ IsSuppressed(s) \/ Deliver(s)
      \/ HardBounce(s) \/ Complaint(s) \/ NoComplaint(s)
  BY DEF SendStep
<1>1. ASSUME NEW ws \in Workspaces, NEW slug \in Slugs, NEW to \in Spellings,
             Request(s, ws, slug, to)
      PROVE  /\ req' \in [Senders -> Requests \union {NoRequest}]
             /\ \A x \in Senders : pc'[x] # "idle" => req'[x] \in Requests
             /\ pc' \in [Senders -> Steps] /\ requested' \in 0 .. MaxSends
             /\ UNCHANGED <<reason, link>>
  <2> PICK t \in Types : req' = [req EXCEPT ![s] = [ws |-> ws, slug |-> slug, type |-> t, to |-> to]]
    BY <1>1, Found DEF Request
  <2> [ws |-> ws, slug |-> slug, type |-> t, to |-> to] \in Requests
    BY DEF Requests
  <2> QED
    BY <1>1, SuppressionBoundsAssumption DEF Request, TypeOK, Steps
<1>2. CASE Drop(s)
  BY <1>2 DEF Drop, TypeOK, Steps
<1>3. CASE CheckBatch(s) \/ BatchCheckOptOut(s)
  BY <1>3 DEF CheckBatch, BatchCheckOptOut, Move, TypeOK, Steps
<1>4. CASE (Persist(s) \/ IsSuppressed(s)) /\ ~Drop(s)
  BY <1>4 DEF Persist, IsSuppressed, Move, TypeOK, Steps
<1>5. CASE Deliver(s)
  BY <1>5 DEF Deliver, Unsubscribe, FindTypeBySlugInScope, Move, TypeOK, Steps
<1> QED
  BY <1>1, <1>2, <1>3, <1>4, <1>5 DEF Refuse, HardBounce, Complaint, NoComplaint, TypeOK

\* An upsert writes one entry, and a serious reason is not overwritten.
LEMMA AddWorkspaceType ==
  ASSUME TypeOK, NEW ws \in Workspaces, NEW addr \in Spellings, NEW why \in Reasons,
         AddWorkspace(ws, addr, why)
  PROVE  /\ workspace' \in [Workspaces -> [Spellings -> Reasons]]
         /\ workspace[ws][addr] \in Serious => workspace'[ws][addr] \in Serious
         /\ why \in Serious => workspace'[ws][addr] \in Serious
         /\ \A w \in Workspaces, a \in Spellings :
              w # ws \/ a # addr => workspace'[w][a] = workspace[w][a]
  BY DEF TypeOK, AddWorkspace

\* The removal an opt-in makes leaves serious entries alone.
LEMMA RemoveWorkspaceType ==
  ASSUME TypeOK, NEW ws \in Workspaces, NEW addr \in Spellings,
         RemoveWorkspaceSuppression(ws, addr)
  PROVE  /\ workspace' \in [Workspaces -> [Spellings -> Reasons]]
         /\ \A w \in Workspaces, a \in Spellings :
              workspace[w][a] \in Serious => workspace'[w][a] = workspace[w][a]
  BY DEF TypeOK, RemoveWorkspaceSuppression, Reasons, Serious

(* The lists of a workspace: their type and what became serious stays so. *)
Lists == /\ workspace \in [Workspaces -> [Spellings -> Reasons]]
         /\ serious \in [Workspaces -> SUBSET Spellings]
         /\ SeriousIsPermanent

\* A step that leaves the workspace list alone keeps serious blocks permanent.
LEMMA ListsKept == ASSUME TypeOK, SeriousIsPermanent, UNCHANGED <<workspace, serious>>
                   PROVE Lists'
  BY DEF TypeOK, SeriousIsPermanent, Lists

\* A bounce or complaint is listed with a serious reason.
LEMMA ListsBlocked ==
  ASSUME TypeOK, SeriousIsPermanent, NEW ws \in Workspaces, NEW addr \in Spellings,
         NEW why \in Serious, AddWorkspace(ws, addr, why),
         serious' = [serious EXCEPT ![ws] = @ \union {addr}]
  PROVE  Lists'
<1>1. why \in Reasons
  BY DEF Reasons
<1>2. serious' \in [Workspaces -> SUBSET Spellings]
  BY DEF TypeOK
<1>3. ASSUME NEW w \in Workspaces, NEW a \in serious'[w] PROVE workspace'[w][a] \in Serious
  <2>1. a \in Spellings
    BY <1>2
  <2>2. CASE w = ws /\ a = addr
    BY <1>1, <2>2, AddWorkspaceType
  <2>3. CASE w # ws \/ a # addr
    <3>1. a \in serious[w]
      BY <2>3 DEF TypeOK
    <3> QED BY <3>1, <2>1, <2>3, <1>1, AddWorkspaceType DEF SeriousIsPermanent
  <2> QED BY <2>2, <2>3
<1> QED BY <1>1, <1>2, <1>3, AddWorkspaceType DEF Lists, SeriousIsPermanent

\* Neither opting out nor opting in touches a serious entry.
LEMMA ListsOptOut ==
  ASSUME TypeOK, SeriousIsPermanent, NEW ws \in Workspaces,
         \/ AddWorkspace(ws, Lower, "unsubscribe")
         \/ RemoveWorkspaceSuppression(ws, Lower),
         UNCHANGED serious
  PROVE  Lists'
<1>1. "unsubscribe" \in Reasons /\ Lower \in Spellings
  BY SpellingAssumption DEF Reasons
<1>2. workspace' \in [Workspaces -> [Spellings -> Reasons]]
  BY <1>1, AddWorkspaceType, RemoveWorkspaceType
<1>3. ASSUME NEW w \in Workspaces, NEW a \in Spellings, workspace[w][a] \in Serious
      PROVE  workspace'[w][a] \in Serious
  BY <1>1, <1>3, AddWorkspaceType, RemoveWorkspaceType
<1> QED BY <1>2, <1>3 DEF Lists, SeriousIsPermanent, TypeOK

\* Hence every step of a send, an administrator or the recipient keeps them.
LEMMA StepLists ==
  ASSUME TypeOK, SeriousIsPermanent, SendStep \/ AdminStep \/ RecipientStep PROVE Lists'
<1>1. CASE SendStep
  <2> PICK s \in Senders :
        \/ UNCHANGED <<workspace, serious>>
        \/ Complaint(s)
    BY <1>1 DEF SendStep, Request, CheckBatch, BatchCheckOptOut, Persist, Refuse, IsSuppressed,
                Deliver, HardBounce, NoComplaint, listVars
  <2>1. CASE Complaint(s)
    <3>1. req[s].ws \in Workspaces /\ req[s].to \in Spellings /\ "complaint" \in Serious
      BY <2>1 DEF Complaint, TypeOK, Requests, Serious
    <3> QED BY <2>1, <3>1, ListsBlocked DEF Complaint
  <2> QED BY <2>1, ListsKept
<1>2. CASE AdminStep
  BY <1>2, ListsBlocked, ListsKept DEF AdminStep, Add, Remove
<1>3. CASE RecipientStep
  <2>1. \A tok \in tokens : tok.ws \in Workspaces
    BY DEF TypeOK, Tokens
  <2> QED
    BY <1>3, <2>1, ListsOptOut, ListsKept
    DEF RecipientStep, OneClickOptOut, OptOutAll, Resubscribe, SubmitPreferences,
        UpdatePreferences, PreferencesFail, listVars
<1> QED BY <1>1, <1>2, <1>3

\* The steps of the recipient keep the types of what they write.
LEMMA RecipientStepType ==
  ASSUME TypeOK, RecipientStep
  PROVE  /\ subs' \in [Workspaces -> [Types -> {"none", "in", "out"}]]
         /\ toggles' \in Seq(Changes)
         /\ holder' \in Tokens \union {NoToken}
         /\ toggles' # <<>> => holder' \in Tokens
<1>1. ASSUME NEW ws \in Workspaces, NEW t \in Types, NEW b \in BOOLEAN, Upsert(ws, t, b)
      PROVE  subs' \in [Workspaces -> [Types -> {"none", "in", "out"}]]
  BY <1>1 DEF Upsert, TypeOK
<1>2. ASSUME NEW tok \in tokens, OneClickOptOut(tok)
      PROVE  subs' \in [Workspaces -> [Types -> {"none", "in", "out"}]]
  BY <1>1, <1>2 DEF OneClickOptOut, TypeOK, Tokens
<1>3. ASSUME NEW tok \in tokens, NEW c \in Sequence(MaxChanges), SubmitPreferences(tok, c)
      PROVE  toggles' \in Seq(Changes) /\ holder' \in Tokens
  <2>1. c \in Seq(Changes)
    <3> PICK k \in 1 .. MaxChanges : c \in [1 .. k -> Changes]
      BY DEF Sequence
    <3> QED BY SuppressionBoundsAssumption
  <2> QED BY <1>3, <2>1 DEF SubmitPreferences, TypeOK
<1>4. CASE UpdatePreferences
  <2>1. /\ holder \in Tokens /\ Head(toggles) \in Changes /\ Tail(toggles) \in Seq(Changes)
    BY <1>4 DEF UpdatePreferences, TypeOK
  <2>2. holder.ws \in Workspaces /\ Head(toggles).subscribed \in BOOLEAN
    BY <2>1 DEF Tokens, Changes
  <2>3. subs' \in [Workspaces -> [Types -> {"none", "in", "out"}]]
    BY <1>4, <1>1, <2>2 DEF UpdatePreferences, FindTypeBySlugInScope, TypeOK
  <2>4. \/ toggles' = Tail(toggles) /\ holder' = holder
        \/ toggles' = <<>> /\ holder' = NoToken
    BY <1>4 DEF UpdatePreferences
  <2>5. <<>> \in Seq(Changes)
    OBVIOUS
  <2> QED BY <2>1, <2>3, <2>4, <2>5 DEF TypeOK
<1>5. CASE PreferencesFail
  BY <1>5 DEF PreferencesFail, TypeOK, listVars
<1> QED
  BY <1>2, <1>3, <1>4, <1>5
  DEF RecipientStep, OneClickOptOut, OptOutAll, Resubscribe, SubmitPreferences, TypeOK,
      formVars, listVars

\* The global list and the tokens stay well typed.
LEMMA RestType ==
  ASSUME TypeOK, SendStep \/ AdminStep \/ RecipientStep
  PROVE  /\ global' \subseteq Spellings
         /\ tokens' \subseteq Tokens
<1>1. ASSUME NEW s \in Senders, pc[s] # "idle"
      PROVE  /\ req[s].ws \in Workspaces /\ req[s].type \in Types /\ req[s].to \in Spellings
  BY <1>1 DEF TypeOK, Requests
<1>3. ASSUME NEW s \in Senders, Deliver(s)
      PROVE  tokens' \subseteq Tokens
  BY <1>1, <1>3 DEF Deliver, Unsubscribe, TypeOK, Tokens, FindTypeBySlugInScope
<1>4. ASSUME NEW s \in Senders, HardBounce(s)
      PROVE  global' \subseteq Spellings
  BY <1>1, <1>4 DEF HardBounce, AddGlobal, TypeOK
<1>5. CASE SendStep
  <2> PICK s \in Senders :
        \/ UNCHANGED <<global, tokens>>
        \/ Deliver(s) \/ HardBounce(s)
    BY <1>5 DEF SendStep, Request, CheckBatch, BatchCheckOptOut, Persist, Refuse, IsSuppressed,
                Complaint, NoComplaint, listVars
  <2> QED
    BY <1>3, <1>4 DEF Deliver, HardBounce, TypeOK, listVars
<1>6. CASE AdminStep
  BY <1>6 DEF AdminStep, Add, Remove, TypeOK
<1>7. CASE RecipientStep
  BY <1>7 DEF RecipientStep, OneClickOptOut, OptOutAll, Resubscribe, SubmitPreferences,
              UpdatePreferences, PreferencesFail, TypeOK, listVars
<1> QED BY <1>5, <1>6, <1>7

\* The edits of types keep their rows well typed and the slugs unique.
LEMMA TypeStepType ==
  ASSUME TypeOK, Unique, TypeStep
  PROVE  /\ slugOf' \in [Types -> Slugs \union {NoSlug}]
         /\ deleted' \subseteq Types /\ bulk' \subseteq Types
         /\ edits' \in 0 .. MaxTypeEdits
         /\ Unique'
<1> PICK t \in Types :
      \/ \E slug \in Slugs, isBulk \in BOOLEAN :
           CreateType(t, slug, isBulk) \/ UpdateType(t, slug, isBulk)
      \/ SoftDeleteType(t)
  BY DEF TypeStep
<1>1. ASSUME NEW slug \in Slugs, NEW isBulk \in BOOLEAN,
             CreateType(t, slug, isBulk) \/ UpdateType(t, slug, isBulk)
      PROVE  /\ slugOf' = [slugOf EXCEPT ![t] = slug] /\ IsFree(slug, t)
             /\ bulk' \subseteq Types /\ deleted' = deleted
             /\ edits' = edits + 1 /\ edits < MaxTypeEdits
  BY <1>1 DEF CreateType, UpdateType, TypeOK
<1>2. ASSUME NEW slug \in Slugs, slugOf' = [slugOf EXCEPT ![t] = slug], IsFree(slug, t)
      PROVE  Unique'
  <2> SUFFICES ASSUME NEW x \in Types, NEW y \in Types, slugOf'[x] = slugOf'[y],
                      slugOf'[x] # NoSlug, Scope[x] = Scope[y]
               PROVE  x = y
    BY DEF Unique
  <2>1. CASE x # t /\ y # t
    BY <1>2, <2>1 DEF Unique, TypeOK
  <2>2. CASE x = t \/ y = t
    BY <1>2, <2>2 DEF IsFree, TypeOK
  <2> QED BY <2>1, <2>2
<1>3. CASE SoftDeleteType(t)
  BY <1>3, SuppressionBoundsAssumption DEF SoftDeleteType, TypeOK, Unique
<1>4. CASE \E slug \in Slugs, isBulk \in BOOLEAN :
             CreateType(t, slug, isBulk) \/ UpdateType(t, slug, isBulk)
  <2> PICK slug \in Slugs, isBulk \in BOOLEAN :
             CreateType(t, slug, isBulk) \/ UpdateType(t, slug, isBulk)
    BY <1>4
  <2> QED BY <1>1, <1>2, SuppressionBoundsAssumption DEF TypeOK
<1> QED BY <1>3, <1>4

\* Every step keeps the types and the serious blocks.
LEMMA NextType == ASSUME TypeOK, SeriousIsPermanent, Unique, [Next]_vars
                  PROVE  TypeOK' /\ SeriousIsPermanent' /\ Unique'
<1>1. CASE UNCHANGED vars
  BY <1>1 DEF vars, TypeOK, SeriousIsPermanent, Unique
<1>2. CASE TypeStep /\ Track
  <2>1. /\ standing' \in [Senders -> SUBSET Levels]
        /\ took' \in [Senders -> SUBSET Types]
    BY <1>2, TrackType
  <2>2. Unique'
    BY <1>2, TypeStepType
  <2> QED BY <1>2, <2>1, <2>2, TypeStepType
          DEF TypeStep, TypeOK, SeriousIsPermanent, listVars, sendVars, formVars
<1>3. CASE (SendStep \/ AdminStep \/ RecipientStep) /\ UNCHANGED typeVars /\ Track
  <2>1. SendStep \/ AdminStep \/ RecipientStep
    BY <1>3
  <2>2. /\ Lists' /\ standing' \in [Senders -> SUBSET Levels]
        /\ took' \in [Senders -> SUBSET Types]
        /\ UNCHANGED <<slugOf, deleted, bulk, edits>> /\ Unique'
    BY <1>3, StepLists, TrackType DEF typeVars, Unique
  <2>3. CASE SendStep
    <3>1. UNCHANGED <<subs, toggles, holder>>
      BY <2>3 DEF SendStep, Request, CheckBatch, BatchCheckOptOut, Persist, Refuse, IsSuppressed,
                  Deliver, HardBounce, Complaint, NoComplaint, listVars, formVars
    <3> QED BY <2>2, <2>3, <3>1, SendStepType, RestType DEF TypeOK, Lists
  <2>4. CASE AdminStep
    <3>1. UNCHANGED <<subs, sendVars, formVars>>
      BY <2>4 DEF AdminStep, Add, Remove
    <3> QED BY <2>2, <2>4, <3>1, RestType DEF TypeOK, Lists, sendVars, formVars
  <2>5. CASE RecipientStep
    <3>1. UNCHANGED sendVars
      BY <2>5 DEF RecipientStep, OneClickOptOut, OptOutAll, Resubscribe, SubmitPreferences,
                  UpdatePreferences, PreferencesFail
    <3> QED BY <2>2, <2>5, <3>1, RestType, RecipientStepType DEF TypeOK, Lists, sendVars
  <2> QED BY <2>1, <2>3, <2>4, <2>5
<1> QED BY <1>1, <1>2, <1>3 DEF Next
-----------------------------------------------------------------------------

(* A block that is gone does not come back into standing. *)
LEMMA StandingShrinks ==
  ASSUME Track, NEW s \in Senders, pc[s] # "idle"
  PROVE  /\ standing'[s] \subseteq standing[s]
         /\ UNCHANGED <<global, workspace, subs, req>> =>
              standing'[s] \subseteq InForce(req[s].ws, req[s].type)
  BY DEF Track, InForce

(* The steps that change what a send knows; every other step leaves it where  *)
(* it was, or idle.                                                            *)
LEMMA StepFree == ASSUME IInv, Next PROVE FreeAtStep'
<1> Track
  BY DEF Next
<1> SUFFICES ASSUME NEW x \in Senders
             PROVE  /\ pc'[x] = "types" /\ reason'[x] = "none" => standing'[x] \subseteq {"type"}
                    /\ pc'[x] = "create" /\ reason'[x] = "none" => standing'[x] = {}
                    /\ pc'[x] \in {"queued", "deliver", "sent"} => standing'[x] = {}
  BY DEF FreeAtStep
<1>1. CASE pc'[x] = pc[x] /\ reason'[x] = reason[x]
  BY <1>1, StandingShrinks DEF IInv, FreeAtStep
<1>2. CASE pc'[x] \in {"idle", "lists"}
  BY <1>2
<1>3. CASE CheckBatch(x)
  <2>1. pc[x] # "idle" /\ pc'[x] = "types" /\ UNCHANGED <<global, workspace, subs, req>>
    BY <1>3 DEF CheckBatch, Move, listVars, IInv, TypeOK
  <2>2. reason'[x] = "none" => ~IsListed(req[x].ws, Lower)
    BY <1>3 DEF CheckBatch, IInv, TypeOK
  <2>3. reason'[x] = "none" => InForce(req[x].ws, req[x].type) \subseteq {"type"}
    BY <2>2 DEF IsListed, InForce, Levels
  <2> QED BY <2>1, <2>3, StandingShrinks
<1>4. CASE BatchCheckOptOut(x)
  <2>1. pc[x] = "types" /\ pc'[x] = "create" /\ UNCHANGED <<global, workspace, subs, req>>
    BY <1>4 DEF BatchCheckOptOut, Move, listVars, IInv, TypeOK
  <2>2. reason'[x] = "none" => reason[x] = "none" /\ subs[req[x].ws][req[x].type] # "out"
    BY <1>4 DEF BatchCheckOptOut, IInv, TypeOK
  <2>3. reason'[x] = "none" => "type" \notin InForce(req[x].ws, req[x].type)
    BY <2>2 DEF InForce
  <2>4. reason'[x] = "none" => standing[x] \subseteq {"type"}
    BY <2>1, <2>2 DEF IInv, FreeAtStep
  <2>5. standing'[x] \subseteq standing[x]
        /\ standing'[x] \subseteq InForce(req[x].ws, req[x].type)
    BY <2>1, StandingShrinks
  <2> QED BY <2>1, <2>3, <2>4, <2>5
<1>5. CASE Persist(x) /\ pc'[x] = "queued"
  <2>1. pc[x] = "create" /\ reason[x] = "none"
    BY <1>5 DEF Persist, Drop, IInv, TypeOK
  <2> QED BY <1>5, <2>1, StandingShrinks DEF IInv, FreeAtStep
<1>6. CASE pc[x] \in {"queued", "deliver", "sent"} /\ pc'[x] \in {"queued", "deliver", "sent"}
  BY <1>6, StandingShrinks DEF IInv, FreeAtStep
<1>7. CASE SendStep
  <2> PICK s \in Senders :
      \/ \E ws \in Workspaces, slug \in Slugs, to \in Spellings : Request(s, ws, slug, to)
      \/ CheckBatch(s) \/ BatchCheckOptOut(s) \/ Persist(s) \/ Refuse(s)
      \/ IsSuppressed(s) \/ Deliver(s)
      \/ HardBounce(s) \/ Complaint(s) \/ NoComplaint(s)
    BY <1>7 DEF SendStep
  <2>1. CASE s # x
    <3>1. pc'[x] = pc[x] /\ reason'[x] = reason[x]
      BY <2>1 DEF Request, CheckBatch, BatchCheckOptOut, Persist, Refuse, IsSuppressed, Deliver,
                  HardBounce, Complaint, NoComplaint, Move, Drop, IInv, TypeOK
    <3> QED BY <3>1, <1>1
  <2>2. CASE s = x
    <3>1. CASE Refuse(x) \/ HardBounce(x) \/ Complaint(x) \/ NoComplaint(x)
               \/ \E ws \in Workspaces, slug \in Slugs, to \in Spellings : Request(x, ws, slug, to)
      <4>1. pc'[x] \in {"idle", "lists"}
        BY <3>1 DEF Request, Refuse, HardBounce, Complaint, NoComplaint, Drop, IInv, TypeOK
      <4> QED BY <4>1, <1>2
    <3>2. CASE Persist(x)
      <4>1. pc'[x] \in {"idle", "queued"}
        BY <3>2 DEF Persist, Drop, Move, IInv, TypeOK
      <4> QED BY <3>2, <4>1, <1>2, <1>5
    <3>3. CASE IsSuppressed(x) \/ Deliver(x)
      <4>1. pc'[x] = "idle" \/ (pc[x] \in {"queued", "deliver", "sent"} /\ pc'[x] \in {"queued", "deliver", "sent"})
        BY <3>3 DEF IsSuppressed, Deliver, Drop, Move, IInv, TypeOK
      <4> QED BY <4>1, <1>2, <1>6
    <3> QED BY <2>2, <3>1, <3>2, <3>3, <1>3, <1>4
  <2> QED BY <2>1, <2>2
<1>8. CASE AdminStep \/ RecipientStep \/ TypeStep
  <2>1. UNCHANGED sendVars
    BY <1>8 DEF AdminStep, Add, Remove, RecipientStep, OneClickOptOut, OptOutAll, Resubscribe,
                SubmitPreferences, UpdatePreferences, PreferencesFail, TypeStep
  <2> QED BY <2>1, <1>1 DEF sendVars
<1> QED BY <1>7, <1>8 DEF Next

(* What a slug names in a workspace changes by edits of types alone, and what *)
(* comes to carry it during a send is remembered.                            *)
LEMMA TookGrows ==
  ASSUME Track, NEW s \in Senders, pc[s] # "idle", pc'[s] # "idle"
  PROVE  /\ took[s] \subseteq took'[s]
         /\ FindTypeBySlugInScope(req[s].slug, req[s].ws)'
              \subseteq FindTypeBySlugInScope(req[s].slug, req[s].ws) \union took'[s]
  BY DEF Track

(* At the request the slug names the send's own type in the workspace, or     *)
(* nothing there; from then on whatever else it names was remembered.         *)
LEMMA StepLink == ASSUME IInv, Next PROVE Resolved' /\ LinkNamesTheType'
<1>0. Track
  BY DEF Next
<1> DEFINE Find(s) == FindTypeBySlugInScope(req[s].slug, req[s].ws)
<1>1. ASSUME NEW s \in Senders, Deliver(s), UNCHANGED typeVars
      PROVE  link'[s] \subseteq {req[s].type} \union took[s]
  <2>1. pc[s] = "deliver" /\ link'[s] \subseteq Find(s)
    BY <1>1 DEF Deliver, Unsubscribe, IInv, TypeOK
  <2> QED BY <2>1 DEF IInv, Resolved
<1>2. ASSUME NEW s \in Senders, NEW ws \in Workspaces, NEW slug \in Slugs, NEW to \in Spellings,
             Request(s, ws, slug, to), UNCHANGED typeVars
      PROVE  /\ Find(s)' \subseteq {req'[s].type}
             /\ pc'[s] = "lists"
  <2> PICK t \in GetTypeBySlug(slug, ws) :
        req' = [req EXCEPT ![s] = [ws |-> ws, slug |-> slug, type |-> t, to |-> to]]
    BY <1>2 DEF Request
  <2>1. req'[s].type = t /\ req'[s].ws = ws /\ req'[s].slug = slug /\ pc'[s] = "lists"
    BY <1>2 DEF Request, IInv, TypeOK
  <2>2. Find(s)' = FindTypeBySlugInScope(slug, ws)
    BY <1>2, <2>1 DEF FindTypeBySlugInScope, typeVars
  <2>3. ASSUME NEW u \in FindTypeBySlugInScope(slug, ws) PROVE u = t
    <3>1. t \in FindTypeBySlugInScope(slug, ws)
      BY <2>3 DEF GetTypeBySlug
    <3>2. slug # NoSlug
      BY SlugAssumption
    <3> QED BY <2>3, <3>1, <3>2 DEF FindTypeBySlugInScope, IInv, Unique
  <2> QED BY <2>1, <2>2, <2>3
<1>3. ASSUME NEW x \in Senders, pc[x] # "idle", pc'[x] # "idle", req'[x] = req[x]
      PROVE  Find(x)' \subseteq {req'[x].type} \union took'[x]
  <2>1. /\ took[x] \subseteq took'[x]
        /\ Find(x)' \subseteq Find(x) \union took'[x]
    BY <1>0, <1>3, TookGrows DEF FindTypeBySlugInScope
  <2>2. Find(x) \subseteq {req[x].type} \union took[x]
    BY <1>3 DEF IInv, Resolved
  <2> QED BY <1>3, <2>1, <2>2
<1>4. ASSUME NEW x \in Senders, pc[x] = "sent", pc'[x] = "sent", UNCHANGED <<req[x], link[x]>>
      PROVE  link'[x] \subseteq {req'[x].type} \union took'[x]
  BY <1>0, <1>4, TookGrows DEF IInv, LinkNamesTheType
<1>5. CASE SendStep /\ UNCHANGED typeVars
  <2> PICK s \in Senders :
      \/ \E ws \in Workspaces, slug \in Slugs, to \in Spellings : Request(s, ws, slug, to)
      \/ CheckBatch(s) \/ BatchCheckOptOut(s) \/ Persist(s) \/ Refuse(s)
      \/ IsSuppressed(s) \/ Deliver(s)
      \/ HardBounce(s) \/ Complaint(s) \/ NoComplaint(s)
    BY <1>5 DEF SendStep
  <2>1. \A x \in Senders : x # s => UNCHANGED <<pc[x], req[x], link[x]>>
    BY DEF Request, CheckBatch, BatchCheckOptOut, Persist, Refuse, IsSuppressed, Deliver,
           Unsubscribe, HardBounce, Complaint, NoComplaint, Move, Drop, IInv, TypeOK
  <2>2. \/ \E ws \in Workspaces, slug \in Slugs, to \in Spellings : Request(s, ws, slug, to)
        \/ pc'[s] = "idle"
        \/ pc[s] # "idle" /\ pc'[s] # "sent" /\ UNCHANGED <<req, link>>
        \/ Deliver(s)
    BY DEF CheckBatch, BatchCheckOptOut, Persist, Refuse, IsSuppressed,
           HardBounce, Complaint, NoComplaint, Move, Drop, IInv, TypeOK
  <2>3. Deliver(s) => pc[s] # "idle" /\ UNCHANGED req /\ pc'[s] = "sent"
    BY DEF Deliver, Move, IInv, TypeOK
  <2>4. Deliver(s) => link'[s] \subseteq {req'[s].type} \union took'[s]
    <3> HAVE Deliver(s)
    <3>1. link'[s] \subseteq {req[s].type} \union took[s]
      BY <1>1, <1>5
    <3>2. took[s] \subseteq took'[s] /\ req' = req
      BY <1>0, <2>3, TookGrows
    <3> QED BY <3>1, <3>2
  <2>5. ASSUME NEW x \in Senders, pc'[x] # "idle"
        PROVE  Find(x)' \subseteq {req'[x].type} \union took'[x]
    <3>1. CASE pc[x] # "idle" /\ req'[x] = req[x]
      BY <2>5, <3>1, <1>3
    <3>2. CASE x = s /\ \E ws \in Workspaces, slug \in Slugs, to \in Spellings :
                              Request(s, ws, slug, to)
      BY <3>2, <1>2, <1>5
    <3> QED BY <2>1, <2>2, <2>3, <2>5, <3>1, <3>2
  <2>6. ASSUME NEW x \in Senders, pc'[x] = "sent"
        PROVE  link'[x] \subseteq {req'[x].type} \union took'[x]
    <3>1. x # s \/ Deliver(s)
      BY <2>2, <2>6, <1>2, <1>5
    <3> QED BY <2>1, <2>4, <2>6, <3>1, <1>4
  <2> QED BY <2>5, <2>6 DEF Resolved, LinkNamesTheType
<1>6. CASE AdminStep \/ RecipientStep \/ TypeStep
  <2>1. UNCHANGED sendVars
    BY <1>6 DEF AdminStep, Add, Remove, RecipientStep, OneClickOptOut, OptOutAll, Resubscribe,
                SubmitPreferences, UpdatePreferences, PreferencesFail, TypeStep
  <2>2. UNCHANGED <<pc, req, link>>
    BY <2>1 DEF sendVars
  <2> QED BY <2>2, <1>3, <1>4 DEF Resolved, LinkNamesTheType
<1> QED BY <1>5, <1>6 DEF Next

\* The invariant is inductive.
LEMMA NextIInv == IInv /\ [Next]_vars => IInv'
<1> SUFFICES ASSUME IInv, [Next]_vars PROVE IInv'
  OBVIOUS
<1>1. CASE UNCHANGED vars
  BY <1>1, NextType DEF vars, IInv, FreeAtStep, Resolved, FindTypeBySlugInScope,
                        LinkNamesTheType
<1>2. CASE Next
  BY <1>2, NextType, StepFree, StepLink DEF IInv
<1> QED BY <1>1, <1>2

\* It holds in every reachable state.
LEMMA Invariance == Spec => []IInv
  BY InitIInv, NextIInv, PTL DEF Spec
-----------------------------------------------------------------------------

(* Every list, row, token and request keeps its type. *)
THEOREM TypeCorrect == Spec => []TypeOK
  BY Invariance, PTL DEF IInv

(* For any number of concurrent sends, admins and recipients: a block that   *)
(* stood when a send was requested and was not lifted keeps it from being    *)
(* queued, although EvaluateForType reads lists and opt-outs separately.     *)
THEOREM StandingBlocksAlwaysHold == Spec => []StandingBlocksHold
<1>1. IInv => StandingBlocksHold
  BY DEF IInv, FreeAtStep, StandingBlocksHold
<1> QED BY <1>1, Invariance, PTL

(* What a complaint or an administrator blocked in a workspace stays out of  *)
(* the recipient's reach (AddWorkspace, RemoveWorkspaceSuppression).         *)
THEOREM SeriousAlwaysPermanent == Spec => []SeriousIsPermanent
  BY Invariance, PTL DEF IInv

(* The unsubscribe link of a delivered email opts out of the type the send   *)
(* was evaluated for, or of one that took the slug in the email's workspace  *)
(* while the email was under way, through any edits of types.                *)
THEOREM LinkAlwaysNamesTheType == Spec => []LinkNamesTheType
  BY Invariance, PTL DEF IInv
-----------------------------------------------------------------------------
(***************************************************************************)
(* The send request                                                        *)
(***************************************************************************)
Pcs == {"start", "sender", "evaluate", "optouts", "item", "write", "done", "dead"}
Answers == {"none", "error", "accepted", "partial", "failed"}
RowSet == [mode : {"none", "replace", "append"}, inbox : Seq(Addresses), adapter : BOOLEAN]
Records ==
    [pc : Pcs, kind : Kinds, env : Envs, ref : {q.ref : q \in Sends},
     items : Seq(Items), ws : Envs, base : Row \cup {NoRow}, snap : Row \cup {NoRow},
     memo : [Keys -> Row \cup {NoRow}],
     barred : SUBSET Addresses, i : Nat, todo : Seq(Addresses), copies : SUBSET Addresses,
     told : Seq(Statuses), fails : Nat, results : Seq(Statuses), answer : Answers]
Mails ==
    [item : Nat, pos : Nat, to : Addresses, copies : SUBSET Addresses,
     status : {"queued", "suppressed"}, job : BOOLEAN, env : Envs,
     snap : Row \cup {NoRow}, base : Row \cup {NoRow}, lost : BOOLEAN]

Typed ==
    /\ send \in Records /\ emails \subseteq Mails
    /\ typ \in TypeRows[send.ws] /\ seen \subseteq TypeRows[send.ws]
    /\ cached \in [Keys -> Row \cup {NoRow}]
    /\ suppressed \subseteq Tables \X Addresses /\ always \subseteq suppressed
    /\ changes \in 0..MaxEdits /\ faults \in 0..MaxFaults

(***************************************************************************)
(* Every row the request has taken, from the table, the cache or its own   *)
(* memo, is one that the type has had.                                     *)
(***************************************************************************)
Sighted ==
    /\ typ \in seen
    /\ \A k \in Keys : cached[k] \in seen \cup {NoRow} /\ send.memo[k] \in seen \cup {NoRow}
    /\ send.pc \in {"sender", "evaluate", "optouts", "item", "write"} => send.base \in seen
    /\ send.pc = "write" => send.snap \in seen

(***************************************************************************)
(* Between its evaluation and its writes the request holds every address   *)
(* back that was suppressed then and still is.                             *)
(***************************************************************************)
HeldBack ==
    /\ send.pc = "optouts" =>
         \A a \in Consulted : <<"lists", Canonical[a]>> \in always => a \in send.barred
    /\ send.pc \in {"item", "write"} /\ Batch =>
         \A a \in Consulted : Blocked(a) => a \in send.barred
    /\ send.pc = "write" =>
         /\ send.copies \cap send.barred = {}
         /\ ~Batch => send.snap = send.base
         /\ send.snap = send.base =>
              \A a \in Range(send.todo) \cup send.copies : Blocked(a) => a \in send.barred

Contained ==
    /\ \A m \in emails : m.env = send.ws
    /\ send.pc = "write" /\ send.ws = "test" /\ Policy(send.snap).mode # "append" =>
         Range(send.todo) \subseteq Range(Policy(send.snap).inbox) /\ send.copies = {}

(***************************************************************************)
(* The books of the request: where it stands, what it has told about the   *)
(* recipients of its item and what it has written for them.                *)
(***************************************************************************)
Position ==
    /\ send.i <= Len(send.items) /\ Len(send.items) > 0
    /\ send.pc \in {"start", "sender", "evaluate", "optouts"} =>
         emails = {} /\ send.i = 0 /\ send.results = <<>>
    /\ send.pc \in {"item", "write"} => send.i > 0
    /\ send.pc = "item" => Batch
    /\ ~Batch => send.i <= 1 /\ send.results = <<>>
    /\ send.pc \in {"item", "write"} /\ Batch => Len(send.results) = send.i - 1
    /\ send.answer # "none" => send.pc = "done"

Counted ==
    /\ send.fails <= Len(send.told)
    /\ \A p \in DOMAIN send.told : send.told[p] # "partial"
    /\ send.fails = Len(send.told) <=> \A p \in DOMAIN send.told : send.told[p] = "failed"
    /\ send.fails = 0 <=> \A p \in DOMAIN send.told : send.told[p] # "failed"

Written ==
    /\ \A m \in emails : /\ m.job <=> m.status = "queued"
                         /\ 1 <= m.item /\ m.item <= send.i
                         /\ send.pc = "item" => m.item < send.i
    /\ send.pc = "write" \/ (send.pc = "done" /\ ~Batch /\ send.i = 1) =>
         /\ \A m \in Of(send.i) : m.pos \in DOMAIN send.told /\ (m.lost <=> send.told[m.pos] = "failed")
         /\ \A p \in DOMAIN send.told :
              /\ send.told[p] = "accepted" => \E m \in Of(send.i) : m.pos = p /\ m.job
              /\ send.told[p] = "suppressed" => \E m \in Of(send.i) : m.pos = p /\ ~m.job

ResultAgrees(i) ==
    /\ send.results[i] = "failed" => \A m \in Of(i) : m.lost
    /\ send.results[i] = "accepted" => (\E m \in Of(i) : m.job) /\ \A m \in Of(i) : ~m.lost
    /\ send.results[i] = "partial" => \E m \in Of(i) : ~m.lost
    /\ send.results[i] = "suppressed" => \A m \in Of(i) : ~m.lost

Reported ==
    /\ \A i \in DOMAIN send.results : ResultAgrees(i)
    /\ send.answer = "error" => \A m \in emails : m.lost
    /\ send.answer = "accepted" => \A m \in emails : ~m.lost

SendInv ==
    /\ Typed /\ Sighted /\ HeldBack /\ Contained /\ Position /\ Counted /\ Written /\ Reported
    /\ SuppressionHonoured /\ TestMailIsContained
-----------------------------------------------------------------------------
LEMMA FirstsFinite ==
    ASSUME NEW s \in Seq(Addresses)
    PROVE  /\ Firsts(s) \subseteq 1..Len(s) /\ Firsts(s) \subseteq DOMAIN s
           /\ IsFiniteSet(Firsts(s)) /\ Cardinality(Firsts(s)) \in Nat
<1>1. Firsts(s) \in SUBSET (1..Len(s)) /\ Len(s) \in Nat
  BY DEF Firsts
<1>2. IsFiniteSet(1..Len(s))
  BY <1>1, FS_Interval
<1>3. IsFiniteSet(Firsts(s))
  BY <1>1, <1>2, FS_Subset
<1> QED
  BY <1>1, <1>3, FS_CardinalityType

(* The k-th of the addresses that stay exists: ranks are a bijection. *)
LEMMA Ranks ==
    ASSUME NEW s \in Seq(Addresses), NEW k \in 1..Cardinality(Firsts(s))
    PROVE  \E i \in Firsts(s) : Cardinality({j \in Firsts(s) : j <= i}) = k
<1> DEFINE F == Firsts(s)
           upTo(i) == {j \in F : j <= i}
           rank == [i \in F |-> Cardinality(upTo(i))]
<1>1. F \subseteq 1..Len(s) /\ IsFiniteSet(F) /\ Cardinality(F) \in Nat
  BY FirstsFinite
<1>2. \A i \in F : /\ IsFiniteSet(upTo(i)) /\ i \in upTo(i)
                   /\ Cardinality(upTo(i)) \in 1..Cardinality(F)
  <2> TAKE i \in F
  <2>1. i \in upTo(i) /\ upTo(i) \in SUBSET F
    BY <1>1
  <2>2. IsFiniteSet(upTo(i)) /\ Cardinality(upTo(i)) <= Cardinality(F)
    BY <1>1, <2>1, FS_Subset
  <2>3. Cardinality(upTo(i)) \in Nat /\ Cardinality(upTo(i)) # 0
    BY <2>1, <2>2, FS_CardinalityType, FS_EmptySet
  <2> QED
    BY <1>1, <2>1, <2>2, <2>3
<1>3. \A i, j \in F : rank[i] = rank[j] => i = j
  <2>1. ASSUME NEW i \in F, NEW j \in F, i < j, rank[i] = rank[j] PROVE FALSE
    <3>1. upTo(i) \in SUBSET upTo(j) /\ j \notin upTo(i)
      BY <1>1, <2>1
    <3> HIDE DEF upTo
    <3>2. upTo(j) = upTo(i)
      BY <1>2, <2>1, <3>1, FS_Subset
    <3> QED
      BY <1>2, <3>1, <3>2
  <2> HIDE DEF rank
  <2> QED
    BY <1>1, <2>1
<1>4. rank \in Injection(F, 1..Cardinality(F))
  BY <1>2, <1>3 DEF Injection, IsInjective
<1>5. rank \in Surjection(F, 1..Cardinality(F))
  BY <1>1, <1>4, FS_Interval, FS_Injection
<1> QED
  BY <1>5 DEF Surjection

(* Normalizing addresses invents none. *)
LEMMA Normalized ==
    ASSUME NEW s \in Seq(Addresses)
    PROVE  /\ NormalizeRecipientAddresses(s) \in Seq(Addresses)
           /\ Range(NormalizeRecipientAddresses(s)) \subseteq Range(s)
<1> DEFINE at(k) == CHOOSE i \in Firsts(s) : Cardinality({j \in Firsts(s) : j <= i}) = k
           n == Cardinality(Firsts(s))
<1>1. n \in Nat /\ Firsts(s) \subseteq DOMAIN s
  BY FirstsFinite
<1>2. \A k \in 1..n : at(k) \in DOMAIN s
  BY <1>1, Ranks
<1>3. NormalizeRecipientAddresses(s) = [k \in 1..n |-> s[at(k)]]
  BY DEF NormalizeRecipientAddresses
<1> HIDE DEF at, n
<1> QED
  BY <1>1, <1>2, <1>3 DEF Range

(* What the constants say of the type's rows. *)
LEMMA Rows ==
    /\ NoRow \notin Row /\ Row \subseteq RowSet
    /\ TypeRows["prod"] \subseteq Row /\ TypeRows["test"] \subseteq Row
  BY SendAssumption DEF Row, RowSet, Envs

(* The inboxes of a policy are addresses, whichever policy it is. *)
LEMMA PolicyType ==
    ASSUME NEW row \in Row PROVE Policy(row).inbox \in Seq(Addresses)
<1>1. row.inbox \in Seq(Addresses)
  BY Rows DEF RowSet
<1>2. WorkspacePolicy.inbox \in Seq(Addresses)
  BY SendAssumption
<1> QED
  BY <1>1, <1>2 DEF Policy

(* What the recipient policy makes of an item. *)
LEMMA Applied ==
    ASSUME NEW ws \in Envs, NEW row \in Row, NEW item \in Items,
           NEW e, e = applyTestRecipientPolicy(ws, row, item.to, item.copies)
    PROVE  /\ e.to \in Seq(Addresses) /\ e.copies \subseteq Addresses
           /\ ws = "test" /\ Policy(row).mode # "append" =>
                Range(e.to) \subseteq Range(Policy(row).inbox) /\ e.copies = {}
<1> DEFINE inbox == NormalizeRecipientAddresses(Policy(row).inbox)
           to == NormalizeRecipientAddresses(item.to)
<1>1. item.to \in Seq(Addresses) /\ item.copies \subseteq Addresses
  BY DEF Items
<1>2. inbox \in Seq(Addresses) /\ Range(inbox) \subseteq Range(Policy(row).inbox)
  BY PolicyType, Normalized
<1>3. to \in Seq(Addresses)
  BY <1>1, Normalized
<1>4. /\ ws = "prod" => e.to = item.to /\ e.copies = item.copies
      /\ ws # "prod" => \/ e.to = <<>> /\ e.copies = {}
                        \/ e.to = to \o inbox /\ e.copies = item.copies /\ Policy(row).mode = "append"
                        \/ e.to = inbox /\ e.copies = {}
  BY DEF applyTestRecipientPolicy
<1>5. <<>> \in Seq(Addresses) /\ Range(<<>>) = {}
  BY DEF Range
<1>6. to \o inbox \in Seq(Addresses)
  BY <1>2, <1>3
<1> HIDE DEF inbox, to
<1> QED
  BY <1>1, <1>2, <1>4, <1>5, <1>6 DEF Envs

(* The fields of a request. *)
LEMMA Fields ==
    ASSUME NEW r \in Records
    PROVE  /\ r.pc \in Pcs /\ r.kind \in Kinds /\ r.ws \in Envs /\ r.items \in Seq(Items)
           /\ r.base \in Row \cup {NoRow} /\ r.snap \in Row \cup {NoRow}
           /\ r.memo \in [Keys -> Row \cup {NoRow}]
           /\ r.barred \subseteq Addresses /\ r.i \in Nat /\ r.todo \in Seq(Addresses)
           /\ r.copies \subseteq Addresses /\ r.told \in Seq(Statuses) /\ r.fails \in Nat
           /\ r.results \in Seq(Statuses) /\ r.answer \in Answers
  BY DEF Records

(* What stays of a request for good, and what stays when only its step does not. *)
Fixed(r, q) == /\ q.kind = r.kind /\ q.env = r.env /\ q.ref = r.ref /\ q.items = r.items
               /\ q.ws = r.ws
Rest(r, q) == /\ q.base = r.base /\ q.snap = r.snap /\ q.memo = r.memo /\ q.barred = r.barred
              /\ q.todo = r.todo /\ q.copies = r.copies /\ q.told = r.told /\ q.fails = r.fails

(* The ways a request is updated: its step, *)
LEMMA StepUpdate ==
    ASSUME NEW r \in Records, NEW x \in Pcs, NEW q, q = [r EXCEPT !.pc = x]
    PROVE  q \in Records /\ Fixed(r, q) /\ Rest(r, q) /\ q.pc = x /\ q.i = r.i
           /\ q.results = r.results /\ q.answer = r.answer
  BY DEF Records, Fixed, Rest

(* its answer, *)
Ended(r, a) == [r EXCEPT !.pc = "done", !.answer = a]

LEMMA EndedUpdate ==
    ASSUME NEW r \in Records, NEW a \in Answers, NEW q, q = Ended(r, a)
    PROVE  q \in Records /\ Fixed(r, q) /\ Rest(r, q) /\ q.pc = "done" /\ q.i = r.i
           /\ q.results = r.results /\ q.answer = a
  BY DEF Records, Fixed, Rest, Pcs, Ended

(* the end of an item, which is the last or not, *)
LEMMA EndItemUpdate ==
    ASSUME NEW r \in Records, NEW result \in Statuses, NEW q, q = EndItem(r, result)
    PROVE  /\ q \in Records /\ Fixed(r, q) /\ Rest(r, q) /\ q.results = Append(r.results, result)
           /\ \/ /\ r.i = Len(r.items) /\ q.pc = "done" /\ q.i = r.i
                 /\ q.answer = BatchStatus(q.results)
              \/ r.i # Len(r.items) /\ q.pc = "item" /\ q.i = r.i + 1 /\ q.answer = r.answer
<1> DEFINE s == Append(r.results, result)
           b == BatchStatus(s)
           n == r.i + 1
<1>1. s \in Seq(Statuses) /\ n \in Nat
  BY Fields
<1>2. b \in Answers
  BY DEF BatchStatus, Answers
<1>3. q = IF r.i = Len(r.items) THEN [r EXCEPT !.results = s, !.pc = "done", !.answer = b]
          ELSE [r EXCEPT !.results = s, !.pc = "item", !.i = n]
  BY DEF EndItem
<1> HIDE DEF s, b, n
<1>4. CASE r.i = Len(r.items)
  <2>1. q = [r EXCEPT !.results = s, !.pc = "done", !.answer = b]
    BY <1>3, <1>4
  <2>2. q \in Records
    BY <1>1, <1>2, <2>1 DEF Records, Pcs
  <2>3. Fixed(r, q) /\ Rest(r, q) /\ q.results = s /\ q.pc = "done" /\ q.i = r.i /\ q.answer = b
    BY <2>1 DEF Records, Fixed, Rest
  <2> QED
    BY <1>4, <2>2, <2>3 DEF s, b
<1>5. CASE r.i # Len(r.items)
  <2>1. q = [r EXCEPT !.results = s, !.pc = "item", !.i = n]
    BY <1>3, <1>5
  <2>2. q \in Records
    BY <1>1, <2>1 DEF Records, Pcs
  <2>3. /\ Fixed(r, q) /\ Rest(r, q) /\ q.results = s /\ q.pc = "item" /\ q.i = n
        /\ q.answer = r.answer
    BY <2>1 DEF Records, Fixed, Rest
  <2> QED
    BY <1>5, <2>2, <2>3 DEF s, n
<1> QED
  BY <1>4, <1>5

(* the report about one recipient, *)
LEMMA ToldUpdate ==
    ASSUME send \in Records, send.todo # <<>>, NEW status \in Statuses, NEW q, q = Told(status)
    PROVE  /\ q \in Records /\ Fixed(send, q) /\ q.pc = send.pc /\ q.i = send.i
           /\ q.base = send.base /\ q.snap = send.snap /\ q.memo = send.memo
           /\ q.barred = send.barred /\ q.copies = send.copies
           /\ q.results = send.results /\ q.answer = send.answer
           /\ q.told = Append(send.told, status) /\ q.todo = Tail(send.todo)
           /\ q.fails = IF status = "failed" THEN send.fails + 1 ELSE send.fails
<1>1. Append(send.told, status) \in Seq(Statuses) /\ Tail(send.todo) \in Seq(Addresses)
      /\ send.fails + 1 \in Nat /\ send.fails \in Nat
  BY Fields
<1> QED
  BY <1>1 DEF Told, Records, Fixed

(* its first resolution, *)
InContext(r, row, k) ==
    [r EXCEPT !.pc = "sender", !.base = row, !.snap = row, !.memo[NoLocale] = row, !.memo[k] = row]

LEMMA ContextUpdate ==
    ASSUME NEW r \in Records, NEW row \in Row, NEW k \in Keys, NEW q, q = InContext(r, row, k)
    PROVE  /\ q \in Records /\ Fixed(r, q) /\ q.pc = "sender" /\ q.i = r.i
           /\ q.base = row /\ q.snap = row
           /\ \A l \in Keys : q.memo[l] = IF l \in {NoLocale, k} THEN row ELSE r.memo[l]
           /\ q.told = r.told /\ q.fails = r.fails
           /\ q.results = r.results /\ q.answer = r.answer
  BY DEF Records, Fixed, Pcs, Keys, InContext

(* the recipients of an item, *)
Writing(r, row, barred, to, copies) ==
    [r EXCEPT !.pc = "write", !.snap = row, !.barred = barred, !.todo = to, !.copies = copies,
              !.told = <<>>, !.fails = 0]

LEMMA WritingUpdate ==
    ASSUME NEW r \in Records, NEW row \in Row, NEW barred \in SUBSET Addresses,
           NEW to \in Seq(Addresses), NEW copies \in SUBSET Addresses, NEW q,
           q = Writing(r, row, barred, to, copies)
    PROVE  /\ q \in Records /\ Fixed(r, q) /\ q.pc = "write" /\ q.i = r.i
           /\ q.base = r.base /\ q.snap = row /\ q.memo = r.memo /\ q.barred = barred
           /\ q.todo = to /\ q.copies = copies /\ q.told = <<>> /\ q.fails = 0
           /\ q.results = r.results /\ q.answer = r.answer
<1>1. <<>> \in Seq(Statuses) /\ 0 \in Nat /\ "write" \in Pcs
  BY DEF Pcs
<1>2. q \in Records
  BY <1>1 DEF Records, Writing
<1> QED
  BY <1>2 DEF Records, Fixed, Writing

LEMMA RecipientsUpdate ==
    ASSUME send \in Records, NEW row \in Row, NEW item \in Items, NEW barred \in SUBSET Addresses,
           NEW q, q = Recipients(send, row, item, barred)
    PROVE  /\ q \in Records /\ Fixed(send, q) /\ q.pc = "write" /\ q.i = send.i
           /\ q.base = send.base /\ q.snap = row /\ q.memo = send.memo /\ q.barred = barred
           /\ q.todo = Effective(row, item).to /\ q.copies = Effective(row, item).copies \ barred
           /\ q.told = <<>> /\ q.fails = 0
           /\ q.results = send.results /\ q.answer = send.answer
<1> DEFINE to == Effective(row, item).to
           copies == Effective(row, item).copies \ barred
<1>1. to \in Seq(Addresses) /\ copies \in SUBSET Addresses
  BY Fields, Applied DEF Effective
<1>2. q = Writing(send, row, barred, to, copies)
  BY Zenon DEF Recipients, Writing
<1> HIDE DEF to, copies
<1>3. /\ q \in Records /\ Fixed(send, q) /\ q.pc = "write" /\ q.i = send.i
      /\ q.base = send.base /\ q.snap = row /\ q.memo = send.memo /\ q.barred = barred
      /\ q.todo = to /\ q.copies = copies /\ q.told = <<>> /\ q.fails = 0
      /\ q.results = send.results /\ q.answer = send.answer
  BY <1>1, <1>2, WritingUpdate
<1> QED
  BY <1>3 DEF to, copies

(* a row for a locale, *)
Memorized(r, k, row) == [r EXCEPT !.memo[k] = row]

LEMMA MemoUpdate ==
    ASSUME NEW r \in Records, NEW row \in Row, NEW k \in Keys, NEW q, q = Memorized(r, k, row)
    PROVE  /\ q \in Records /\ Fixed(r, q) /\ q.pc = r.pc /\ q.i = r.i
           /\ q.base = r.base /\ q.snap = r.snap /\ q.barred = r.barred /\ q.todo = r.todo
           /\ q.copies = r.copies /\ q.told = r.told /\ q.fails = r.fails
           /\ q.results = r.results /\ q.answer = r.answer
           /\ \A l \in Keys : q.memo[l] = IF l = k THEN row ELSE r.memo[l]
<1>1. [r.memo EXCEPT ![k] = row] \in [Keys -> Row \cup {NoRow}]
  BY Fields
<1>2. q = [r EXCEPT !.memo = [r.memo EXCEPT ![k] = row]]
  BY DEF Records, Memorized
<1>3. q \in Records
  BY <1>1, <1>2 DEF Records
<1> QED
  BY <1>1, <1>2, <1>3 DEF Records, Fixed

(* The position alone. *)
LEMMA IndexUpdate ==
    ASSUME NEW r \in Records, NEW q, q = [r EXCEPT !.i = 1]
    PROVE  q \in Records /\ Fixed(r, q) /\ Rest(r, q) /\ q.pc = r.pc /\ q.i = 1
           /\ q.results = r.results /\ q.answer = r.answer
  BY DEF Records, Fixed, Rest

(* the answer of the lists, *)
Evaluating(r, barred) == [r EXCEPT !.pc = "optouts", !.barred = barred]

LEMMA EvaluatingUpdate ==
    ASSUME NEW r \in Records, NEW barred \in SUBSET Addresses, NEW q, q = Evaluating(r, barred)
    PROVE  /\ q \in Records /\ Fixed(r, q) /\ q.pc = "optouts" /\ q.i = r.i
           /\ q.base = r.base /\ q.snap = r.snap /\ q.memo = r.memo /\ q.barred = barred
           /\ q.told = r.told /\ q.fails = r.fails
           /\ q.results = r.results /\ q.answer = r.answer
<1>1. "optouts" \in Pcs
  BY DEF Pcs
<1> QED
  BY <1>1 DEF Records, Fixed, Evaluating

(* and the evaluation of a batch. *)
Primed(r, barred) == [r EXCEPT !.pc = "item", !.i = 1, !.barred = barred]

LEMMA PrimedUpdate ==
    ASSUME NEW r \in Records, NEW barred \in SUBSET Addresses, NEW q, q = Primed(r, barred)
    PROVE  /\ q \in Records /\ Fixed(r, q) /\ q.pc = "item" /\ q.i = 1
           /\ q.base = r.base /\ q.snap = r.snap /\ q.memo = r.memo /\ q.barred = barred
           /\ q.told = r.told /\ q.fails = r.fails
           /\ q.results = r.results /\ q.answer = r.answer
<1>1. "item" \in Pcs
  BY DEF Pcs
<1> QED
  BY <1>1 DEF Records, Fixed, Primed
-----------------------------------------------------------------------------
(* Whom the request asks about is settled by its first snapshot. *)
LEMMA ConsultedSame ==
    ASSUME send'.base = send.base, Fixed(send, send') PROVE Consulted' = Consulted
  BY DEF Consulted, Asked, Effective, Fixed

(* What the emails already written satisfy, they satisfy for good. *)
LEMMA EmailsSame ==
    ASSUME SuppressionHonoured, TestMailIsContained, UNCHANGED emails,
           emails = {} \/ (send'.base = send.base /\ Fixed(send, send')),
           always' \subseteq always, seen \subseteq seen'
    PROVE  SuppressionHonoured' /\ TestMailIsContained'
<1>1. SuppressionHonoured'
  <2>1. CASE emails = {}
    BY <2>1 DEF SuppressionHonoured
  <2>2. CASE send'.base = send.base /\ Fixed(send, send')
    <3>1. Consulted' = Consulted
      BY <2>2, ConsultedSame
    <3>2. \A a : Blocked(a)' => Blocked(a)
      BY DEF Blocked
    <3> QED
      BY <3>1, <3>2 DEF SuppressionHonoured, Targets
  <2> QED
    BY <2>1, <2>2
<1>2. TestMailIsContained'
  BY DEF TestMailIsContained
<1> QED
  BY <1>1, <1>2

(* Steps of others: the request and its emails stay. *)
LEMMA OutsideKeeps ==
    ASSUME SendInv, UNCHANGED <<send, emails, faults>>, changes' \in 0..MaxEdits,
           typ' \in TypeRows[send.ws] \cap seen', seen' \subseteq TypeRows[send.ws],
           seen \subseteq seen', cached' \in [Keys -> Row \cup {NoRow}],
           \A k \in Keys : cached'[k] \in seen' \cup {NoRow},
           suppressed' \subseteq Tables \X Addresses, always' \subseteq suppressed', always' \subseteq always
    PROVE  SendInv'
<1>1. Typed' /\ Sighted'
  BY DEF SendInv, Typed, Sighted
<1>2. HeldBack' /\ Contained'
  <2>1. Consulted' = Consulted
    BY DEF Consulted, Asked, Effective
  <2>2. \A a : Blocked(a)' => Blocked(a)
    BY DEF Blocked
  <2> QED
    BY <2>1, <2>2 DEF SendInv, HeldBack, Contained, Batch
<1>3. Position' /\ Counted' /\ Written' /\ Reported'
  BY DEF SendInv, Position, Counted, Written, Reported, Batch, Of, ResultAgrees
<1>4. SuppressionHonoured' /\ TestMailIsContained'
  BY EmailsSame DEF SendInv, Fixed
<1> QED
  BY <1>1, <1>2, <1>3, <1>4 DEF SendInv

(* Edits, other requests' resolutions, new and lifted suppressions. *)
LEMMA OutsideSteps ==
    ASSUME SendInv,
           \/ \E row \in TypeRows[send.ws] : EditType(row)
           \/ \E k \in Keys : Refresh(k)
           \/ \E t \in Tables, a \in Addresses : Suppress(t, a) \/ Unsuppress(t, a)
    PROVE  SendInv'
<1>0. /\ typ \in TypeRows[send.ws] /\ typ \in seen /\ seen \subseteq TypeRows[send.ws]
      /\ cached \in [Keys -> Row \cup {NoRow}] /\ \A k \in Keys : cached[k] \in seen \cup {NoRow}
      /\ suppressed \subseteq Tables \X Addresses /\ always \subseteq suppressed
      /\ TypeRows[send.ws] \subseteq Row /\ changes \in 0..MaxEdits
  BY Rows, Fields DEF SendInv, Typed, Sighted, Envs
<1>1. Change => UNCHANGED <<send, emails, faults>> /\ changes' \in 0..MaxEdits
  BY <1>0, SendAssumption DEF Change
<1>2. ASSUME NEW row \in TypeRows[send.ws], EditType(row) PROVE SendInv'
  BY <1>0, <1>1, <1>2, OutsideKeeps DEF EditType
<1>3. ASSUME NEW k \in Keys, Refresh(k) PROVE SendInv'
  BY <1>0, <1>1, <1>3, OutsideKeeps DEF Refresh
<1>4. ASSUME NEW t \in Tables, NEW a \in Addresses, Suppress(t, a) PROVE SendInv'
  <2>1. Block(t, a) \in Tables \X Addresses
    BY SendAssumption DEF Block
  <2> QED
    BY <1>0, <1>1, <1>4, <2>1, OutsideKeeps DEF Suppress
<1>5. ASSUME NEW t \in Tables, NEW a \in Addresses, Unsuppress(t, a) PROVE SendInv'
  BY <1>0, <1>1, <1>5, OutsideKeeps DEF Unsuppress
<1> QED
  BY <1>2, <1>3, <1>4, <1>5

(* The row a resolution finds has been the type's. *)
LEMMA Resolution ==
    ASSUME SendInv, NEW k \in Keys, NEW row \in Row, ResolveType(k, row)
    PROVE  /\ row \in seen /\ UNCHANGED <<typ, suppressed, changes, seen, always>>
           /\ cached' \in [Keys -> Row \cup {NoRow}]
           /\ \A l \in Keys : cached'[l] \in seen \cup {NoRow}
  BY DEF SendInv, Typed, Sighted, ResolveType, outside

(* The request takes its first snapshot. *)
LEMMA ResolveContextKeeps ==
    ASSUME SendInv, ResolveContext PROVE SendInv'
<1>0. /\ Typed /\ Sighted /\ Position /\ Counted /\ Reported /\ Contained
      /\ SuppressionHonoured /\ TestMailIsContained
      /\ send \in Records /\ send.pc = "start" /\ UNCHANGED <<emails, faults>>
  BY DEF SendInv, Typed, ResolveContext
<1> DEFINE key == effectiveLocaleKey(IF Batch THEN NoLocale ELSE send.items[1].loc)
<1>1. key \in Keys
  <2>1. send.items[1] \in Items
    BY <1>0, Fields DEF Position
  <2>2. send.items[1].loc \in Keys
    BY <2>1 DEF Items
  <2> QED
    BY <2>2, SendAssumption DEF effectiveLocaleKey, Keys
<1> PICK row \in Row : /\ ResolveType(key, row)
                       /\ send' = InContext(send, row, key)
  BY DEF ResolveContext, InContext
<1> HIDE DEF key
<1>2. /\ row \in seen /\ UNCHANGED <<typ, suppressed, changes, seen, always>>
      /\ cached' \in [Keys -> Row \cup {NoRow}]
      /\ \A l \in Keys : cached'[l] \in seen \cup {NoRow}
  BY <1>1, Resolution
<1>3. /\ send' \in Records /\ Fixed(send, send') /\ send'.pc = "sender" /\ send'.i = send.i
      /\ send'.base = row /\ send'.snap = row
      /\ \A l \in Keys : send'.memo[l] = IF l \in {NoLocale, key} THEN row ELSE send.memo[l]
      /\ send'.told = send.told /\ send'.fails = send.fails
      /\ send'.results = send.results /\ send'.answer = send.answer
  BY <1>0, <1>1, ContextUpdate
<1>4. Typed' /\ Sighted'
  BY <1>0, <1>2, <1>3 DEF Typed, Sighted, Fixed
<1>5. HeldBack' /\ Contained'
  BY <1>0, <1>3 DEF HeldBack, Contained, Fixed
<1>6. Position' /\ Counted' /\ Written' /\ Reported'
  BY <1>0, <1>3 DEF Position, Counted, Written, Reported, Fixed, Batch, ResultAgrees, Of
<1>7. SuppressionHonoured' /\ TestMailIsContained'
  BY <1>0, <1>2, EmailsSame DEF Position
<1> QED
  BY <1>4, <1>5, <1>6, <1>7 DEF SendInv

(* Nothing is evaluated or written yet. *)
LEMMA ResolveSenderKeeps ==
    ASSUME SendInv, ResolveSender PROVE SendInv'
<1>0. /\ Typed /\ Sighted /\ Position /\ Counted /\ Reported /\ Contained
      /\ SuppressionHonoured /\ TestMailIsContained
      /\ send \in Records /\ send.pc = "sender" /\ UNCHANGED <<outside, emails, faults>>
  BY DEF SendInv, Typed, ResolveSender
<1>1. /\ send' \in Records /\ Fixed(send, send') /\ Rest(send, send') /\ send'.pc = "evaluate"
      /\ send'.i = send.i /\ send'.results = send.results /\ send'.answer = send.answer
  BY <1>0, StepUpdate DEF ResolveSender, Pcs
<1>2. Typed' /\ Sighted'
  BY <1>0, <1>1 DEF Typed, Sighted, Fixed, Rest, outside
<1>3. HeldBack' /\ Contained'
  BY <1>0, <1>1 DEF HeldBack, Contained, Fixed
<1>4. Position' /\ Counted' /\ Written' /\ Reported'
  BY <1>0, <1>1 DEF Position, Counted, Written, Reported, Fixed, Rest, Batch, ResultAgrees, Of
<1>5. SuppressionHonoured' /\ TestMailIsContained'
  BY <1>0, <1>1, EmailsSame DEF outside, Rest
<1> QED
  BY <1>2, <1>3, <1>4, <1>5 DEF SendInv

(* An error before the first write: no email exists. *)
LEMMA AbortKeeps ==
    ASSUME SendInv, Abort PROVE SendInv'
<1>0. /\ Typed /\ Sighted /\ Position /\ Counted /\ Reported /\ Contained
      /\ SuppressionHonoured /\ TestMailIsContained
      /\ send \in Records /\ send.pc \in {"start", "sender", "evaluate", "optouts"}
      /\ UNCHANGED <<outside, emails, faults>>
  BY DEF SendInv, Typed, Abort
<1>1. /\ send' \in Records /\ Fixed(send, send') /\ Rest(send, send') /\ send'.pc = "done"
      /\ send'.i = send.i /\ send'.results = send.results /\ send'.answer = "error"
  <2>1. send' = Ended(send, "error") /\ "error" \in Answers
    BY DEF Abort, Answer, Ended, Answers
  <2> QED
    BY <1>0, <2>1, EndedUpdate
<1>2. Typed' /\ Sighted'
  BY <1>0, <1>1 DEF Typed, Sighted, Fixed, Rest, outside
<1>3. HeldBack' /\ Contained'
  BY <1>0, <1>1 DEF HeldBack, Contained, Fixed
<1>4. Position' /\ Counted' /\ Written' /\ Reported'
  BY <1>0, <1>1 DEF Position, Counted, Written, Reported, Fixed, Rest, Batch, ResultAgrees, Of
<1>5. SuppressionHonoured' /\ TestMailIsContained'
  BY <1>0, <1>1, EmailsSame DEF outside, Rest
<1> QED
  BY <1>2, <1>3, <1>4, <1>5 DEF SendInv

(* A dead request says nothing more. *)
LEMMA CrashKeeps ==
    ASSUME SendInv, Crash PROVE SendInv'
<1>0. /\ Typed /\ Sighted /\ Position /\ Counted /\ Written /\ Reported /\ Contained
      /\ SuppressionHonoured /\ TestMailIsContained
      /\ send \in Records /\ send.pc # "done" /\ UNCHANGED <<outside, emails, faults>>
  BY DEF SendInv, Typed, Crash
<1>1. /\ send' \in Records /\ Fixed(send, send') /\ Rest(send, send') /\ send'.pc = "dead"
      /\ send'.i = send.i /\ send'.results = send.results /\ send'.answer = send.answer
  BY <1>0, StepUpdate DEF Crash, Pcs
<1>2. Typed' /\ Sighted'
  BY <1>0, <1>1 DEF Typed, Sighted, Fixed, Rest, outside
<1>3. HeldBack' /\ Contained'
  BY <1>0, <1>1 DEF HeldBack, Contained, Fixed
<1>4. Position' /\ Counted' /\ Written' /\ Reported'
  BY <1>0, <1>1 DEF Position, Counted, Written, Reported, Fixed, Rest, Batch, ResultAgrees, Of
<1>5. SuppressionHonoured' /\ TestMailIsContained'
  BY <1>0, <1>1, EmailsSame DEF outside, Rest
<1> QED
  BY <1>2, <1>3, <1>4, <1>5 DEF SendInv

(* What a suppression query answers. *)
LEMMA Evaluated ==
    ASSUME SendInv, NEW t \in Tables, NEW s \in SUBSET Addresses
    PROVE  /\ Suppressed(t, s) \in SUBSET Addresses
           /\ \A a \in s : <<t, Canonical[a]>> \in always => a \in Suppressed(t, s)
  BY DEF SendInv, Typed, Suppressed

(* Whom an item is meant for, and in the test environment whom it reaches. *)
LEMMA AskedType ==
    ASSUME send \in Records, NEW row \in Row, NEW item \in Items
    PROVE  /\ Effective(row, item).to \in Seq(Addresses)
           /\ Effective(row, item).copies \in SUBSET Addresses
           /\ Asked(row, item) \in SUBSET Addresses
           /\ send.ws = "test" /\ Policy(row).mode # "append" =>
                /\ Range(Effective(row, item).to) \subseteq Range(Policy(row).inbox)
                /\ Effective(row, item).copies = {}
<1>1. /\ Effective(row, item).to \in Seq(Addresses)
      /\ Effective(row, item).copies \in SUBSET Addresses
      /\ send.ws = "test" /\ Policy(row).mode # "append" =>
           /\ Range(Effective(row, item).to) \subseteq Range(Policy(row).inbox)
           /\ Effective(row, item).copies = {}
  BY Fields, Applied DEF Effective
<1>2. \A s \in Seq(Addresses) : Range(s) \subseteq Addresses
  BY DEF Range
<1> QED
  BY <1>1, <1>2 DEF Asked

(* The request asks about addresses, for each of its items. *)
LEMMA ConsultedType ==
    ASSUME send \in Records, send.base \in Row
    PROVE  /\ Consulted \in SUBSET Addresses
           /\ \A j \in DOMAIN send.items : Asked(send.base, send.items[j]) \subseteq Consulted
<1>1. \A j \in DOMAIN send.items : send.items[j] \in Items
  BY Fields
<1>2. \A j \in DOMAIN send.items : Asked(send.base, send.items[j]) \in SUBSET Addresses
  BY <1>1, AskedType
<1> QED
  BY <1>2 DEF Consulted

(* Once the lists have answered, what was on them all the time is held back. *)
LEMMA EvaluateManyKeeps ==
    ASSUME SendInv, EvaluateMany PROVE SendInv'
<1>0. /\ Typed /\ Sighted /\ Position /\ Contained /\ Reported /\ Counted
      /\ SuppressionHonoured /\ TestMailIsContained
      /\ send \in Records /\ send.pc = "evaluate" /\ UNCHANGED <<outside, emails, faults>>
  BY DEF SendInv, Typed, EvaluateMany
<1> DEFINE barred == Suppressed("lists", Consulted)
<1>1. send.base \in Row /\ send.base \in seen
  BY <1>0, Fields, Rows DEF Sighted, Typed, Envs
<1>2. /\ barred \in SUBSET Addresses
      /\ \A a \in Consulted : <<"lists", Canonical[a]>> \in always => a \in barred
  BY <1>0, <1>1, ConsultedType, Evaluated DEF Tables
<1>3. send' = Evaluating(send, barred)
  BY DEF EvaluateMany, Evaluating
<1> HIDE DEF barred
<1>4. /\ send' \in Records /\ Fixed(send, send') /\ send'.pc = "optouts" /\ send'.i = send.i
      /\ send'.base = send.base /\ send'.snap = send.snap /\ send'.memo = send.memo
      /\ send'.barred = barred /\ send'.told = send.told /\ send'.fails = send.fails
      /\ send'.results = send.results /\ send'.answer = send.answer
  BY <1>0, <1>2, <1>3, EvaluatingUpdate
<1>5. Typed' /\ Sighted'
  BY <1>0, <1>1, <1>4 DEF Typed, Sighted, Fixed, outside
<1>6. HeldBack'
  <2>1. Consulted' = Consulted /\ UNCHANGED always
    BY <1>0, <1>4, ConsultedSame DEF outside
  <2> QED
    BY <1>2, <1>4, <2>1 DEF HeldBack
<1>7. Contained'
  BY <1>0, <1>4 DEF Contained, Fixed
<1>8. Position' /\ Counted' /\ Written' /\ Reported'
  BY <1>0, <1>4 DEF Position, Counted, Written, Reported, Fixed, Batch, ResultAgrees, Of
<1>9. SuppressionHonoured' /\ TestMailIsContained'
  BY <1>0, <1>4, EmailsSame DEF outside
<1> QED
  BY <1>5, <1>6, <1>7, <1>8, <1>9 DEF SendInv

(* After the opt-outs too, whatever stood all the time is held back. *)
LEMMA BothAsked ==
    ASSUME SendInv, send.pc = "optouts", send.base \in Row,
           NEW barred, barred = send.barred \cup Suppressed("optouts", Consulted)
    PROVE  /\ barred \in SUBSET Addresses
           /\ \A a \in Consulted : Blocked(a) => a \in barred
<1>1. send \in Records /\ send.barred \in SUBSET Addresses
  BY Fields DEF SendInv, Typed
<1>2. /\ Suppressed("optouts", Consulted) \in SUBSET Addresses
      /\ \A a \in Consulted : <<"optouts", Canonical[a]>> \in always =>
                                a \in Suppressed("optouts", Consulted)
  BY <1>1, ConsultedType, Evaluated DEF Tables
<1>3. \A a \in Consulted : <<"lists", Canonical[a]>> \in always => a \in send.barred
  BY DEF SendInv, HeldBack
<1> QED
  BY <1>1, <1>2, <1>3 DEF Blocked, Tables

(* A single send holds back exactly what it has asked about. *)
LEMMA EvaluateSendKeeps ==
    ASSUME SendInv, EvaluateSend PROVE SendInv'
<1>0. /\ Typed /\ Sighted /\ Position /\ Contained /\ Reported /\ Counted
      /\ SuppressionHonoured /\ TestMailIsContained
      /\ send \in Records /\ send.pc = "optouts" /\ ~Batch /\ UNCHANGED <<outside, emails, faults>>
  BY DEF SendInv, Typed, EvaluateSend
<1> DEFINE item == send.items[1]
           barred == send.barred \cup Suppressed("optouts", Consulted)
           mid == Recipients(send, send.base, item, barred)
<1>1. item \in Items /\ 1 \in DOMAIN send.items /\ send.base \in Row /\ send.base \in seen
  BY <1>0, Fields, Rows DEF Position, Sighted, Typed, Envs
<1>2. send' = [mid EXCEPT !.i = 1]
  BY DEF EvaluateSend
<1>3. /\ barred \in SUBSET Addresses
      /\ \A a \in Asked(send.base, item) : Blocked(a) => a \in barred
  BY <1>0, <1>1, ConsultedType, BothAsked
<1> HIDE DEF item, barred
<1>4. /\ mid \in Records /\ Fixed(send, mid) /\ mid.pc = "write"
      /\ mid.base = send.base /\ mid.snap = send.base /\ mid.memo = send.memo /\ mid.barred = barred
      /\ mid.todo = Effective(send.base, item).to
      /\ mid.copies = Effective(send.base, item).copies \ barred
      /\ mid.told = <<>> /\ mid.fails = 0
      /\ mid.results = send.results /\ mid.answer = send.answer
  BY <1>0, <1>1, <1>3, RecipientsUpdate
<1> HIDE DEF mid
<1>5. /\ send' \in Records /\ Fixed(mid, send') /\ Rest(mid, send') /\ send'.pc = mid.pc
      /\ send'.i = 1 /\ send'.results = mid.results /\ send'.answer = mid.answer
  BY <1>2, <1>4, IndexUpdate
<1>6. /\ send' \in Records /\ Fixed(send, send') /\ send'.pc = "write" /\ send'.i = 1
      /\ send'.base = send.base /\ send'.snap = send.base /\ send'.memo = send.memo
      /\ send'.barred = barred /\ send'.todo = Effective(send.base, item).to
      /\ send'.copies = Effective(send.base, item).copies \ barred
      /\ send'.told = <<>> /\ send'.fails = 0
      /\ send'.results = send.results /\ send'.answer = send.answer
  BY <1>4, <1>5 DEF Fixed, Rest
<1>7. Typed' /\ Sighted'
  BY <1>0, <1>1, <1>6 DEF Typed, Sighted, Fixed, outside
<1>8. HeldBack'
  <2>1. \A a : Blocked(a)' = Blocked(a)
    BY <1>0 DEF Blocked, outside
  <2>2. send'.copies \cap send'.barred = {}
    BY <1>6
  <2>3. \A a \in Range(send'.todo) \cup send'.copies : Blocked(a) => a \in send'.barred
    BY <1>3, <1>6 DEF Asked
  <2> QED
    BY <1>0, <1>6, <2>1, <2>2, <2>3 DEF HeldBack, Fixed, Batch
<1>9. Contained'
  <2>1. send.ws = "test" /\ Policy(send.base).mode # "append" =>
          /\ Range(Effective(send.base, item).to) \subseteq Range(Policy(send.base).inbox)
          /\ Effective(send.base, item).copies = {}
    BY <1>0, <1>1, AskedType
  <2> QED
    BY <1>0, <1>6, <2>1 DEF Contained, Fixed
<1>10. Position' /\ Counted' /\ Written' /\ Reported'
  BY <1>0, <1>6 DEF Position, Counted, Written, Reported, Fixed, Batch, ResultAgrees, Of
<1>11. SuppressionHonoured' /\ TestMailIsContained'
  BY <1>0, <1>6, EmailsSame DEF outside
<1> QED
  BY <1>7, <1>8, <1>9, <1>10, <1>11 DEF SendInv

(* A batch holds back what any of its items asks about. *)
LEMMA primeKeeps ==
    ASSUME SendInv, primeSendBatchSuppressionStatuses PROVE SendInv'
<1>0. /\ Typed /\ Sighted /\ Position /\ Contained /\ Reported /\ Counted
      /\ SuppressionHonoured /\ TestMailIsContained
      /\ send \in Records /\ send.pc = "optouts" /\ Batch /\ UNCHANGED <<outside, emails, faults>>
  BY DEF SendInv, Typed, primeSendBatchSuppressionStatuses
<1> DEFINE barred == send.barred \cup Suppressed("optouts", Consulted)
<1>1. send.base \in Row /\ send.base \in seen
  BY <1>0, Fields, Rows DEF Sighted, Typed, Envs
<1>3. /\ barred \in SUBSET Addresses
      /\ \A a \in Consulted : Blocked(a) => a \in barred
  BY <1>0, <1>1, BothAsked
<1>4. send' = Primed(send, barred)
  BY DEF primeSendBatchSuppressionStatuses, Primed
<1> HIDE DEF barred
<1>5. /\ send' \in Records /\ Fixed(send, send') /\ send'.pc = "item" /\ send'.i = 1
      /\ send'.base = send.base /\ send'.snap = send.snap /\ send'.memo = send.memo
      /\ send'.barred = barred /\ send'.told = send.told /\ send'.fails = send.fails
      /\ send'.results = send.results /\ send'.answer = send.answer
  BY <1>0, <1>3, <1>4, PrimedUpdate
<1>6. Typed' /\ Sighted'
  BY <1>0, <1>1, <1>5 DEF Typed, Sighted, Fixed, outside
<1>7. HeldBack'
  <2>1. Consulted' = Consulted /\ \A a : Blocked(a)' = Blocked(a)
    BY <1>0, <1>5, ConsultedSame DEF Blocked, outside
  <2> QED
    BY <1>3, <1>5, <2>1 DEF HeldBack
<1>8. Contained'
  BY <1>0, <1>5 DEF Contained, Fixed
<1>9. Position' /\ Counted' /\ Written' /\ Reported'
  BY <1>0, <1>5 DEF Position, Counted, Written, Reported, Fixed, Batch, ResultAgrees, Of
<1>10. SuppressionHonoured' /\ TestMailIsContained'
  BY <1>0, <1>5, EmailsSame DEF outside
<1> QED
  BY <1>6, <1>7, <1>8, <1>9, <1>10 DEF SendInv

(* An item begins; its snapshot may be another one than the batch was evaluated with. *)
LEMMA PrepareItemKeeps ==
    ASSUME SendInv, PrepareItem PROVE SendInv'
<1>0. /\ Typed /\ Sighted /\ HeldBack /\ Position /\ Contained /\ Reported /\ Counted /\ Written
      /\ SuppressionHonoured /\ TestMailIsContained
      /\ send \in Records /\ send.pc = "item" /\ UNCHANGED <<emails, faults>>
  BY DEF SendInv, Typed, PrepareItem
<1> DEFINE item == send.items[send.i]
           key == effectiveLocaleKey(item.loc)
<1>1. item \in Items /\ send.i \in DOMAIN send.items /\ Batch
  BY <1>0, Fields DEF Position
<1>2. key \in Keys
  <2>1. item.loc \in Keys
    BY <1>1 DEF Items
  <2> HIDE DEF item
  <2> QED
    BY <2>1, SendAssumption DEF effectiveLocaleKey, Keys
<1>3. PICK row \in Row :
      /\ IF send.memo[key] # NoRow THEN row = send.memo[key] /\ UNCHANGED outside
         ELSE ResolveType(key, row)
      /\ send' = [Recipients(send, row, item, send.barred) EXCEPT !.memo[key] = row]
  BY DEF PrepareItem
<1> DEFINE mid == Recipients(send, row, item, send.barred)
<1>4. send' = Memorized(mid, key, row)
  BY <1>3 DEF Memorized
<1> HIDE DEF item, key
<1>5. /\ row \in seen /\ UNCHANGED <<typ, suppressed, changes, seen, always>>
      /\ cached' \in [Keys -> Row \cup {NoRow}]
      /\ \A l \in Keys : cached'[l] \in seen \cup {NoRow}
  <2>1. CASE send.memo[key] # NoRow
    BY <1>0, <1>2, <1>3, <2>1 DEF Sighted, Typed, outside
  <2>2. CASE send.memo[key] = NoRow
    BY <1>2, <1>3, <2>2, Resolution
  <2> QED
    BY <2>1, <2>2
<1>6. /\ mid \in Records /\ Fixed(send, mid) /\ mid.pc = "write" /\ mid.i = send.i
      /\ mid.base = send.base /\ mid.snap = row /\ mid.memo = send.memo /\ mid.barred = send.barred
      /\ mid.todo = Effective(row, item).to /\ mid.copies = Effective(row, item).copies \ send.barred
      /\ mid.told = <<>> /\ mid.fails = 0
      /\ mid.results = send.results /\ mid.answer = send.answer
  BY <1>0, <1>1, Fields, RecipientsUpdate
<1> HIDE DEF mid
<1>7. /\ send' \in Records /\ Fixed(send, send') /\ send'.pc = "write" /\ send'.i = send.i
      /\ send'.base = send.base /\ send'.snap = row /\ send'.barred = send.barred
      /\ \A l \in Keys : send'.memo[l] = IF l = key THEN row ELSE send.memo[l]
      /\ send'.todo = Effective(row, item).to
      /\ send'.copies = Effective(row, item).copies \ send.barred
      /\ send'.told = <<>> /\ send'.fails = 0
      /\ send'.results = send.results /\ send'.answer = send.answer
  <2>1. /\ send' \in Records /\ Fixed(mid, send') /\ send'.pc = mid.pc /\ send'.i = mid.i
        /\ send'.base = mid.base /\ send'.snap = mid.snap /\ send'.barred = mid.barred
        /\ send'.todo = mid.todo /\ send'.copies = mid.copies /\ send'.told = mid.told
        /\ send'.fails = mid.fails /\ send'.results = mid.results /\ send'.answer = mid.answer
        /\ \A l \in Keys : send'.memo[l] = IF l = key THEN row ELSE mid.memo[l]
    BY <1>2, <1>4, <1>6, MemoUpdate
  <2> QED
    BY <1>6, <2>1 DEF Fixed
<1>8. Typed' /\ Sighted'
  BY <1>0, <1>5, <1>7 DEF Typed, Sighted, Fixed
<1>9. HeldBack'
  <2>1. Consulted' = Consulted /\ \A a : Blocked(a)' = Blocked(a)
    BY <1>5, <1>7, ConsultedSame DEF Blocked
  <2>2. \A a \in Consulted : Blocked(a) => a \in send.barred
    BY <1>0, <1>1 DEF HeldBack
  <2>3. Asked(send.base, item) \subseteq Consulted
    BY <1>1 DEF Consulted, item
  <2>4. send'.copies \cap send'.barred = {}
    BY <1>7
  <2>5. send'.snap = send'.base =>
          \A a \in Range(send'.todo) \cup send'.copies : Blocked(a) => a \in send'.barred
    BY <1>7, <2>2, <2>3 DEF Asked
  <2> QED
    BY <1>1, <1>7, <2>1, <2>2, <2>4, <2>5 DEF HeldBack, Fixed, Batch
<1>10. Contained'
  <2>1. send.ws = "test" /\ Policy(row).mode # "append" =>
          /\ Range(Effective(row, item).to) \subseteq Range(Policy(row).inbox)
          /\ Effective(row, item).copies = {}
    BY <1>0, <1>1, AskedType
  <2> QED
    BY <1>0, <1>7, <2>1 DEF Contained, Fixed
<1>11. Position' /\ Counted' /\ Reported'
  BY <1>0, <1>1, <1>7 DEF Position, Counted, Reported, Fixed, Batch, ResultAgrees, Of
<1>12. Written'
  BY <1>0, <1>7, Fields DEF Written, Of, Typed, Mails
<1>13. SuppressionHonoured' /\ TestMailIsContained'
  BY <1>0, <1>5, <1>7, EmailsSame
<1> QED
  BY <1>8, <1>9, <1>10, <1>11, <1>12, <1>13 DEF SendInv

(* The result of an item is right when nothing of it was written, and when it *)
(* sums up what was told.                                                     *)
LEMMA EndItemKeeps ==
    ASSUME SendInv, send.pc \in {"item", "write"}, Batch, UNCHANGED <<outside, emails, faults>>,
           NEW result \in Statuses, send' = EndItem(send, result),
           /\ result = "failed" => \A m \in Of(send.i) : m.lost
           /\ result = "accepted" => (\E m \in Of(send.i) : m.job) /\ \A m \in Of(send.i) : ~m.lost
           /\ result = "partial" => \E m \in Of(send.i) : ~m.lost
           /\ result = "suppressed" => \A m \in Of(send.i) : ~m.lost
    PROVE  SendInv'
<1>0. /\ Typed /\ Sighted /\ HeldBack /\ Position /\ Contained /\ Reported /\ Counted /\ Written
      /\ SuppressionHonoured /\ TestMailIsContained /\ send \in Records
  BY DEF SendInv, Typed
<1>1. /\ send' \in Records /\ Fixed(send, send') /\ Rest(send, send')
      /\ send'.results = Append(send.results, result)
      /\ \/ /\ send.i = Len(send.items) /\ send'.pc = "done" /\ send'.i = send.i
            /\ send'.answer = BatchStatus(send'.results)
         \/ send.i # Len(send.items) /\ send'.pc = "item" /\ send'.i = send.i + 1
            /\ send'.answer = send.answer
  BY <1>0, EndItemUpdate
<1>2. Typed' /\ Sighted'
  BY <1>0, <1>1 DEF Typed, Sighted, Fixed, Rest, outside
<1>3. HeldBack' /\ Contained'
  <2>1. Consulted' = Consulted /\ \A a : Blocked(a)' = Blocked(a)
    BY <1>1, ConsultedSame DEF Blocked, Rest, outside
  <2> QED
    BY <1>0, <1>1, <2>1 DEF HeldBack, Contained, Fixed, Rest, Batch
<1>4. /\ send.i \in Nat /\ Len(send.items) \in Nat /\ send.i <= Len(send.items) /\ send.i > 0
      /\ Len(send.results) = send.i - 1 /\ send.results \in Seq(Statuses) /\ send.answer = "none"
  BY <1>0, Fields DEF Position
<1>5. Position'
  <2>1. send'.pc \in {"item", "done"} /\ Batch' /\ send'.items = send.items
    BY <1>1 DEF Fixed, Batch
  <2>2. Len(send'.results) = send.i /\ send'.i \in {send.i, send.i + 1}
        /\ (send'.pc = "item" => send'.i = send.i + 1 /\ send'.i <= Len(send.items))
        /\ (send'.pc = "done" => send'.i = send.i)
    BY <1>1, <1>4
  <2>3. send'.answer # "none" => send'.pc = "done"
    BY <1>1, <1>4
  <2>4. send'.i <= Len(send'.items) /\ Len(send'.items) > 0
    BY <1>4, <2>1, <2>2
  <2>5. send'.pc = "item" => send'.i > 0 /\ Len(send'.results) = send'.i - 1
    BY <1>4, <2>2
  <2> QED
    BY <2>1, <2>3, <2>4, <2>5 DEF Position
<1>6. Counted'
  BY <1>0, <1>1 DEF Counted, Rest
<1>7. Written'
  <2>1. \A m \in emails : m.item \in Nat
    BY <1>0 DEF Typed, Mails
  <2> QED
    BY <1>0, <1>1, <1>4, <2>1 DEF Written, Fixed, Batch
<1>8. /\ DOMAIN send'.results = 1..send.i /\ send'.results[send.i] = result
      /\ \A j \in 1..(send.i - 1) : send'.results[j] = send.results[j] /\ j \in DOMAIN send.results
  BY <1>1, <1>4
<1>9. \A j \in DOMAIN send'.results : ResultAgrees(j)'
  <2> TAKE j \in DOMAIN send'.results
  <2>1. CASE j = send.i
    BY <1>8, <2>1 DEF ResultAgrees, Of
  <2>2. CASE j \in 1..(send.i - 1)
    BY <1>0, <1>8, <2>2 DEF Reported, ResultAgrees, Of
  <2> QED
    BY <1>4, <1>8, <2>1, <2>2
<1>10. Reported'
  <2>1. CASE send'.pc = "item"
    BY <1>1, <1>4, <1>9, <2>1 DEF Reported
  <2>2. CASE send'.pc = "done"
    <3>1. send'.answer = BatchStatus(send'.results)
      BY <1>1, <2>2
    <3>2. send'.answer # "error"
      BY <3>1 DEF BatchStatus
    <3>3. ASSUME send'.answer = "accepted", NEW m \in emails PROVE ~m.lost
      <4>1. \A j \in DOMAIN send'.results : send'.results[j] \notin {"failed", "partial"}
        BY <3>1, <3>3 DEF BatchStatus
      <4>2. m.item \in DOMAIN send'.results
        BY <1>0, <1>4, <1>8 DEF Written, Typed, Mails
      <4>3. send'.results[m.item] \in {"accepted", "suppressed"}
        BY <1>1, <4>1, <4>2, Fields DEF Statuses
      <4> QED
        BY <1>9, <4>2, <4>3 DEF ResultAgrees, Of
    <3> QED
      BY <1>9, <3>2, <3>3 DEF Reported
  <2> QED
    BY <1>1, <2>1, <2>2
<1>11. SuppressionHonoured' /\ TestMailIsContained'
  BY <1>0, <1>1, EmailsSame DEF outside, Rest
<1> QED
  BY <1>2, <1>3, <1>5, <1>6, <1>7, <1>10, <1>11 DEF SendInv

(* An item that fails before its writes has no email. *)
LEMMA FailItemKeeps ==
    ASSUME SendInv, FailItem PROVE SendInv'
<1>1. Of(send.i) = {}
  BY DEF FailItem, SendInv, Written, Typed, Mails, Of, Position
<1>2. Batch /\ "failed" \in Statuses
  BY DEF FailItem, SendInv, Position, Statuses
<1> QED
  BY <1>1, <1>2, EndItemKeeps DEF FailItem

(* The result of an item from the count of its failures: all, some or none. *)
LEMMA FinishItemKeeps ==
    ASSUME SendInv, FinishItem PROVE SendInv'
<1>0. /\ Position /\ Counted /\ Written /\ Typed /\ send \in Records /\ send.pc = "write" /\ Batch
  BY DEF SendInv, Typed, FinishItem
<1>1. /\ send.told \in Seq(Statuses) /\ send.fails \in Nat
      /\ \A p \in DOMAIN send.told : send.told[p] \in {"accepted", "suppressed", "failed"}
  BY <1>0, Fields DEF Counted, Statuses
<1>2. /\ \A m \in Of(send.i) : m.pos \in DOMAIN send.told /\ (m.lost <=> send.told[m.pos] = "failed")
      /\ \A p \in DOMAIN send.told :
           /\ send.told[p] = "accepted" => \E m \in Of(send.i) : m.pos = p /\ m.job
           /\ send.told[p] = "suppressed" => \E m \in Of(send.i) : m.pos = p /\ ~m.job
  BY <1>0 DEF Written
<1> DEFINE result == finalizeSendPlanResult(send.told, send.fails)
<1>3. /\ result \in Statuses
      /\ result = "failed" => \A m \in Of(send.i) : m.lost
      /\ result = "accepted" => (\E m \in Of(send.i) : m.job) /\ \A m \in Of(send.i) : ~m.lost
      /\ result = "partial" => \E m \in Of(send.i) : ~m.lost
      /\ result = "suppressed" => \A m \in Of(send.i) : ~m.lost
  <2>1. CASE send.fails = Len(send.told)
    <3>1. result = "failed"
      BY <2>1 DEF finalizeSendPlanResult
    <3>2. \A p \in DOMAIN send.told : send.told[p] = "failed"
      BY <1>0, <2>1 DEF Counted
    <3> QED
      BY <1>2, <3>1, <3>2 DEF Statuses
  <2>2. CASE send.fails # Len(send.told) /\ send.fails > 0
    <3>1. result = "partial"
      BY <2>2 DEF finalizeSendPlanResult
    <3>2. PICK p \in DOMAIN send.told : send.told[p] # "failed"
      BY <1>0, <2>2 DEF Counted
    <3>3. PICK m \in Of(send.i) : m.pos = p
      BY <1>1, <1>2, <3>2
    <3> QED
      BY <1>2, <3>1, <3>2, <3>3 DEF Statuses
  <2>3. CASE send.fails # Len(send.told) /\ send.fails = 0
    <3>1. result = send.told[1] /\ 1 \in DOMAIN send.told
      BY <1>1, <2>3 DEF finalizeSendPlanResult
    <3>2. \A p \in DOMAIN send.told : send.told[p] # "failed"
      BY <1>0, <2>3 DEF Counted
    <3>3. result \in {"accepted", "suppressed"}
      BY <1>1, <3>1, <3>2
    <3> HIDE DEF result
    <3> QED
      BY <1>2, <3>1, <3>2, <3>3 DEF Statuses
  <2> QED
    BY <1>1, <2>1, <2>2, <2>3
<1> HIDE DEF result
<1>4. send' = EndItem(send, result) /\ UNCHANGED <<outside, emails, faults>>
  BY DEF FinishItem, result
<1> QED
  BY <1>0, <1>3, <1>4, EndItemKeeps

(* The same for the answer of a single send. *)
LEMMA FinishSendKeeps ==
    ASSUME SendInv, FinishSend PROVE SendInv'
<1>0. /\ Typed /\ Sighted /\ Position /\ Counted /\ Written /\ Reported /\ Contained
      /\ SuppressionHonoured /\ TestMailIsContained
      /\ send \in Records /\ send.pc = "write" /\ ~Batch /\ UNCHANGED <<outside, emails, faults>>
  BY DEF SendInv, Typed, FinishSend
<1> DEFINE a == IF send.fails = Len(send.told) THEN "error"
                ELSE IF send.fails > 0 THEN "partial" ELSE "accepted"
<1>1. a \in Answers /\ send' = Ended(send, a)
  BY DEF FinishSend, Answer, Ended, Answers
<1>2. /\ a = "error" => \A p \in DOMAIN send.told : send.told[p] = "failed"
      /\ a = "accepted" => \A p \in DOMAIN send.told : send.told[p] # "failed"
  BY <1>0, Fields DEF Counted
<1> HIDE DEF a
<1>3. /\ send' \in Records /\ Fixed(send, send') /\ Rest(send, send') /\ send'.pc = "done"
      /\ send'.i = send.i /\ send'.results = send.results /\ send'.answer = a
  BY <1>0, <1>1, EndedUpdate
<1>4. Typed' /\ Sighted'
  BY <1>0, <1>3 DEF Typed, Sighted, Fixed, Rest, outside
<1>5. HeldBack' /\ Contained'
  BY <1>0, <1>3 DEF HeldBack, Contained, Fixed
<1>6. Position' /\ Counted'
  BY <1>0, <1>3 DEF Position, Counted, Fixed, Rest, Batch
<1>7. Written'
  BY <1>0, <1>3 DEF Written, Fixed, Rest, Batch, Of
<1>8. Reported'
  <2>1. send.i = 1
    BY <1>0, Fields DEF Position
  <2>2. \A m \in emails : m \in Of(send.i)
    BY <1>0, <2>1 DEF Written, Of, Typed, Mails
  <2>3. \A m \in emails : m.pos \in DOMAIN send.told /\ (m.lost <=> send.told[m.pos] = "failed")
    BY <1>0, <2>2 DEF Written
  <2> QED
    BY <1>0, <1>2, <1>3, <2>3 DEF Reported, ResultAgrees, Of
<1>9. SuppressionHonoured' /\ TestMailIsContained'
  BY <1>0, <1>3, EmailsSame DEF outside, Rest
<1> QED
  BY <1>4, <1>5, <1>6, <1>7, <1>8, <1>9 DEF SendInv

(* The row CreateEmail writes. *)
LEMMA EmailFields ==
    ASSUME SendInv, send.pc = "write", send.todo # <<>>, NEW lost \in BOOLEAN, NEW m, m = Email(lost)
    PROVE  /\ m \in Mails /\ m.item = send.i /\ m.pos = Len(send.told) + 1 /\ m.to = Head(send.todo)
           /\ m.copies = send.copies /\ m.env = send.ws /\ m.snap = send.snap /\ m.base = send.base
           /\ m.lost = lost /\ (m.job <=> m.to \notin send.barred) /\ (m.job <=> m.status = "queued")
<1>1. /\ send.i \in Nat /\ Len(send.told) + 1 \in Nat /\ Head(send.todo) \in Addresses
      /\ send.copies \in SUBSET Addresses /\ send.ws \in Envs
      /\ send.snap \in Row \cup {NoRow} /\ send.base \in Row \cup {NoRow}
  BY Fields DEF SendInv, Typed
<1>2. CASE Head(send.todo) \in send.barred
  <2>1. m = [item |-> send.i, pos |-> Len(send.told) + 1, to |-> Head(send.todo),
             copies |-> send.copies, status |-> "suppressed", job |-> FALSE,
             env |-> send.ws, snap |-> send.snap, base |-> send.base, lost |-> lost]
    BY <1>2 DEF Email
  <2> QED
    BY <1>1, <1>2, <2>1 DEF Mails
<1>3. CASE Head(send.todo) \notin send.barred
  <2>1. m = [item |-> send.i, pos |-> Len(send.told) + 1, to |-> Head(send.todo),
             copies |-> send.copies, status |-> "queued", job |-> TRUE,
             env |-> send.ws, snap |-> send.snap, base |-> send.base, lost |-> lost]
    BY <1>3 DEF Email
  <2> QED
    BY <1>1, <1>3, <2>1 DEF Mails
<1> QED
  BY <1>2, <1>3

(* One transaction for one recipient, which commits, fails, or commits without *)
(* its answer arriving.                                                        *)
LEMMA CreateEmailKeeps ==
    ASSUME SendInv, CreateEmail PROVE SendInv'
<1>0. /\ Typed /\ Sighted /\ HeldBack /\ Position /\ Counted /\ Written /\ Reported /\ Contained
      /\ SuppressionHonoured /\ TestMailIsContained
      /\ send \in Records /\ send.pc = "write" /\ send.todo # <<>> /\ UNCHANGED outside
  BY DEF SendInv, Typed, CreateEmail
<1>1. PICK lost \in BOOLEAN, status \in {"accepted", "suppressed", "failed"} :
        /\ send' = Told(status) /\ (lost <=> status = "failed")
        /\ emails' = emails \cup {Email(lost)} \/ (lost /\ emails' = emails)
        /\ (status = "accepted" => Email(lost).job) /\ (status = "suppressed" => ~Email(lost).job)
        /\ faults' \in 0..MaxFaults
  <2>1. CASE /\ emails' = emails \cup {Email(FALSE)}
             /\ send' = Told(IF Email(FALSE).job THEN "accepted" ELSE "suppressed")
             /\ UNCHANGED faults
    <3>1. CASE Email(FALSE).job
      BY <1>0, <2>1, <3>1 DEF Typed
    <3>2. CASE ~Email(FALSE).job
      BY <1>0, <2>1, <3>2 DEF Typed
    <3> QED
      BY <3>1, <3>2
  <2>2. CASE /\ faults < MaxFaults /\ faults' = faults + 1
             /\ emails' \in {emails, emails \cup {Email(TRUE)}}
             /\ send' = Told("failed")
    <3>1. faults' \in 0..MaxFaults
      BY <1>0, <2>2, SendAssumption DEF Typed
    <3>2. emails' = emails \cup {Email(TRUE)} \/ emails' = emails
      BY <2>2
    <3> QED
      BY <2>2, <3>1, <3>2
  <2> QED
    BY <2>1, <2>2 DEF CreateEmail
<1> DEFINE m == Email(lost)
<1>2. /\ m \in Mails /\ m.item = send.i /\ m.pos = Len(send.told) + 1 /\ m.to = Head(send.todo)
      /\ m.copies = send.copies /\ m.env = send.ws /\ m.snap = send.snap /\ m.base = send.base
      /\ m.lost = lost /\ (m.job <=> m.to \notin send.barred) /\ (m.job <=> m.status = "queued")
      /\ emails' = emails \cup {m} \/ (lost /\ emails' = emails)
      /\ (status = "accepted" => m.job) /\ (status = "suppressed" => ~m.job)
  BY <1>0, <1>1, EmailFields
<1> HIDE DEF m
<1>3. /\ send' \in Records /\ Fixed(send, send') /\ send'.pc = "write" /\ send'.i = send.i
      /\ send'.base = send.base /\ send'.snap = send.snap /\ send'.memo = send.memo
      /\ send'.barred = send.barred /\ send'.copies = send.copies
      /\ send'.results = send.results /\ send'.answer = send.answer
      /\ send'.told = Append(send.told, status) /\ send'.todo = Tail(send.todo)
      /\ send'.fails = IF status = "failed" THEN send.fails + 1 ELSE send.fails
  <2>1. status \in Statuses
    BY DEF Statuses
  <2> QED
    BY <1>0, <1>1, <2>1, ToldUpdate
<1>4. Head(send.todo) \in Range(send.todo) /\ Range(Tail(send.todo)) \subseteq Range(send.todo)
  BY <1>0, Fields DEF Range
<1>5. emails' \subseteq emails \cup {m} /\ emails \subseteq emails'
  BY <1>2
<1>6. Typed' /\ Sighted'
  BY <1>0, <1>1, <1>2, <1>3, <1>5 DEF Typed, Sighted, Fixed, outside
<1>7. HeldBack'
  <2>1. Consulted' = Consulted /\ \A a : Blocked(a)' = Blocked(a)
    BY <1>0, <1>3, ConsultedSame DEF Blocked, outside
  <2> QED
    BY <1>0, <1>3, <1>4, <2>1 DEF HeldBack, Fixed, Batch
<1>8. Contained'
  BY <1>0, <1>2, <1>3, <1>4, <1>5 DEF Contained, Fixed
<1>9. Position'
  BY <1>0, <1>3 DEF Position, Fixed, Batch
<1>10. /\ send.told \in Seq(Statuses) /\ DOMAIN send.told = 1..Len(send.told)
       /\ Len(send'.told) = Len(send.told) + 1 /\ DOMAIN send'.told = 1..(Len(send.told) + 1)
       /\ send'.told[Len(send.told) + 1] = status /\ Len(send.told) \in Nat /\ send.fails \in Nat
       /\ \A p \in DOMAIN send.told : send'.told[p] = send.told[p] /\ p \in DOMAIN send'.told
  <2>1. status \in Statuses
    BY DEF Statuses
  <2> QED
    BY <1>0, <1>3, <2>1, Fields
<1>11. Counted'
  <2>1. CASE status = "failed"
    <3>1. send'.fails = send.fails + 1 /\ send'.told[Len(send.told) + 1] = "failed"
      BY <1>3, <1>10, <2>1
    <3>2. /\ send'.fails <= Len(send'.told) /\ send'.fails # 0
          /\ send'.fails = Len(send'.told) <=> send.fails = Len(send.told)
      BY <1>0, <1>10, <3>1 DEF Counted
    <3>3. \A p \in DOMAIN send'.told : p \in DOMAIN send.told \/ send'.told[p] = "failed"
      BY <1>10, <3>1
    <3>4. Len(send.told) + 1 \in DOMAIN send'.told
      BY <1>10
    <3> QED
      BY <1>0, <1>10, <3>1, <3>2, <3>3, <3>4 DEF Counted
  <2>2. CASE status \in {"accepted", "suppressed"}
    <3>1. send'.fails = send.fails /\ send'.told[Len(send.told) + 1] \in {"accepted", "suppressed"}
      BY <1>3, <1>10, <2>2
    <3>2. send'.fails <= Len(send'.told) /\ send'.fails # Len(send'.told)
      BY <1>0, <1>10, <3>1 DEF Counted
    <3>3. \A p \in DOMAIN send'.told :
            p \in DOMAIN send.told \/ send'.told[p] \in {"accepted", "suppressed"}
      BY <1>10, <3>1
    <3>4. Len(send.told) + 1 \in DOMAIN send'.told
      BY <1>10
    <3> QED
      BY <1>0, <1>10, <3>1, <3>2, <3>3, <3>4 DEF Counted
  <2> QED
    BY <2>1, <2>2
<1>12. Written'
  <2>1. \A x \in emails' : /\ x.job <=> x.status = "queued"
                           /\ 1 <= x.item /\ x.item <= send'.i
    BY <1>0, <1>2, <1>3, <1>5, Fields DEF Written, Position
  <2>2. \A x \in emails' : x.item = send.i =>
          x.pos \in DOMAIN send'.told /\ (x.lost <=> send'.told[x.pos] = "failed")
    <3>1. \A x \in emails : x.item = send.i =>
            x.pos \in DOMAIN send'.told /\ (x.lost <=> send'.told[x.pos] = "failed")
      BY <1>0, <1>10 DEF Written, Of
    <3>2. m.pos \in DOMAIN send'.told /\ (m.lost <=> send'.told[m.pos] = "failed")
      BY <1>1, <1>2, <1>10
    <3> QED
      BY <1>5, <3>1, <3>2
  <2>3. \A p \in DOMAIN send'.told :
          /\ send'.told[p] = "accepted" => \E x \in emails' : x.item = send.i /\ x.pos = p /\ x.job
          /\ send'.told[p] = "suppressed" => \E x \in emails' : x.item = send.i /\ x.pos = p /\ ~x.job
    <3> TAKE p \in DOMAIN send'.told
    <3>1. CASE p \in DOMAIN send.told
      BY <1>0, <1>5, <1>10, <3>1 DEF Written, Of
    <3>2. CASE p = Len(send.told) + 1
      BY <1>1, <1>2, <1>10, <3>2
    <3> QED
      BY <1>10, <3>1, <3>2
  <2> QED
    BY <1>3, <2>1, <2>2, <2>3 DEF Written, Of
<1>13. Reported'
  <2>1. send.answer = "none"
    BY <1>0 DEF Position
  <2>2. ASSUME NEW j \in DOMAIN send.results PROVE ResultAgrees(j) => ResultAgrees(j)'
    <3>1. Batch /\ j < send.i
      BY <1>0, Fields DEF Position
    <3>2. Of(j)' = Of(j)
      BY <1>2, <1>1, <3>1, <1>0, Fields DEF Of
    <3> QED
      BY <1>3, <3>2 DEF ResultAgrees
  <2> QED
    BY <1>0, <1>3, <2>1, <2>2 DEF Reported
<1>14. SuppressionHonoured'
  <2>1. Consulted' = Consulted /\ \A a : Blocked(a)' = Blocked(a)
    BY <1>0, <1>3, ConsultedSame DEF Blocked, outside
  <2>2. ASSUME NEW a \in Targets(m), Blocked(a) PROVE m.snap # m.base /\ a \notin Consulted
    <3>1. a \notin send.barred /\ a \in Range(send.todo) \cup send.copies
      BY <1>0, <1>2, <1>4, <2>2 DEF HeldBack, Targets
    <3> QED
      BY <1>0, <1>2, <2>2, <3>1 DEF HeldBack
  <2> QED
    BY <1>0, <1>5, <2>1, <2>2 DEF SuppressionHonoured, Targets
<1>15. TestMailIsContained'
  <2>1. ASSUME \A row \in seen : Policy(row).mode # "append", m.env = "test"
        PROVE  m.to \in UNION {Range(Policy(row).inbox) : row \in seen} /\ m.copies = {}
    <3>1. send.snap \in seen
      BY <1>0 DEF Sighted
    <3>2. m.to \in Range(Policy(send.snap).inbox) /\ m.copies = {}
      BY <1>0, <1>2, <1>4, <2>1, <3>1 DEF Contained
    <3> QED
      BY <3>1, <3>2
  <2> QED
    BY <1>0, <1>5, <2>1 DEF TestMailIsContained, outside
<1> QED
  BY <1>6, <1>7, <1>8, <1>9, <1>11, <1>12, <1>13, <1>14, <1>15 DEF SendInv

(* Where a request begins. *)
LEMMA SendInitially == SendInit => SendInv
<1> SUFFICES ASSUME SendInit PROVE SendInv
  OBVIOUS
<1>1. PICK q \in Sends :
        /\ typ \in TypeRows[WorkspaceOf(q)]
        /\ send = [pc |-> "start", kind |-> q.kind, env |-> q.env, ref |-> q.ref,
                   items |-> q.items, ws |-> WorkspaceOf(q), base |-> NoRow, snap |-> NoRow,
                   memo |-> [k \in Keys |-> NoRow], barred |-> {}, i |-> 0, todo |-> <<>>,
                   copies |-> {}, told |-> <<>>, fails |-> 0, results |-> <<>>, answer |-> "none"]
  BY DEF SendInit
<1>2. /\ q.kind \in Kinds /\ q.env \in Envs /\ q.items \in Seq(Items) /\ Len(q.items) > 0
      /\ q.ref \in {x.ref : x \in Sends} /\ WorkspaceOf(q) \in Envs
  BY SendAssumption DEF WorkspaceOf, Envs
<1>3. send \in Records
  <2>1. /\ <<>> \in Seq(Statuses) /\ <<>> \in Seq(Addresses) /\ 0 \in Nat
        /\ "start" \in Pcs /\ "none" \in Answers
        /\ {} \in SUBSET Addresses /\ [k \in Keys |-> NoRow] \in [Keys -> Row \cup {NoRow}]
    BY DEF Pcs, Answers
  <2> QED
    BY <1>1, <1>2, <2>1 DEF Records
<1>4. /\ send.pc = "start" /\ send.items = q.items /\ send.ws = WorkspaceOf(q) /\ send.i = 0
      /\ \A k \in Keys : send.memo[k] = NoRow
      /\ send.told = <<>> /\ send.fails = 0 /\ send.results = <<>> /\ send.answer = "none"
  BY <1>1
<1>5. Typed /\ Sighted
  <2>1. suppressed \subseteq Tables \X Addresses /\ always = suppressed
    BY SendAssumption DEF SendInit, Block
  <2> QED
    BY <1>1, <1>3, <1>4, <2>1, SendAssumption DEF Typed, Sighted, SendInit
<1>6. HeldBack /\ Contained /\ Position /\ Counted /\ Written /\ Reported
  BY <1>2, <1>4 DEF SendInit, HeldBack, Contained, Position, Counted, Written, Reported
<1>7. SuppressionHonoured /\ TestMailIsContained
  BY DEF SendInit, SuppressionHonoured, TestMailIsContained
<1> QED
  BY <1>5, <1>6, <1>7 DEF SendInv

(* A step that changes nothing. *)
LEMMA StutterKeeps == ASSUME SendInv, UNCHANGED requestVars PROVE SendInv'
<1>1. UNCHANGED <<typ, cached, suppressed, send, emails, changes, faults, seen, always>>
  BY DEF requestVars
<1> QED
  BY <1>1, OutsideKeeps DEF SendInv, Typed, Sighted

(* The invariant is inductive, so it holds in every reachable state. *)
LEMMA SendInductive == SendSpec => []SendInv
<1>1. SendInv /\ [SendNext]_requestVars => SendInv'
  BY StutterKeeps, OutsideSteps, ResolveContextKeeps, ResolveSenderKeeps, AbortKeeps,
     EvaluateManyKeeps, EvaluateSendKeeps, CreateEmailKeeps, FinishSendKeeps, primeKeeps, PrepareItemKeeps,
     FailItemKeeps, FinishItemKeeps, CrashKeeps DEF SendNext
<1> QED
  BY SendInitially, <1>1, PTL DEF SendSpec

\* Every variable keeps its type, and the request its position.
THEOREM SendTypeCorrect == SendSpec => []SendTypeOK
<1>1. SendInv => SendTypeOK
  <2> SUFFICES ASSUME SendInv PROVE SendTypeOK
    OBVIOUS
  <2>1. /\ Typed /\ send \in Records /\ send.i \in 0..Len(send.items) /\ send.fails \in 0..Len(send.told)
    BY Fields DEF SendInv, Typed, Position, Counted
  <2>2. \A m \in emails : m.to \in Addresses /\ m.copies \subseteq Addresses
                          /\ m.status \in {"queued", "suppressed"} /\ m.job \in BOOLEAN
                          /\ m.lost \in BOOLEAN
    BY <2>1 DEF Typed, Mails
  <2> QED
    BY <2>1, <2>2, Fields DEF SendTypeOK, Typed, Pcs, Answers
<1> QED
  BY SendInductive, <1>1, PTL

\* Whatever is changed while a request runs, an address that is suppressed under
\* its canonical spelling from the beginning gets no email of it in any spelling,
\* unless an item's newer snapshot of the type brings it in unasked (Send,
\* SendBatch and their evaluators).
THEOREM SuppressionAlwaysHonoured == SendSpec => []SuppressionHonoured
<1>1. SendInv => SuppressionHonoured
  BY DEF SendInv
<1> QED
  BY SendInductive, <1>1, PTL

\* Test mail stays in the configured inboxes unless a policy says append
\* (applyTestRecipientPolicy).
THEOREM TestMailAlwaysContained == SendSpec => []TestMailIsContained
<1>1. SendInv => TestMailIsContained
  BY DEF SendInv
<1> QED
  BY SendInductive, <1>1, PTL

\* The answer agrees with what was written, whichever writes fail or lose their
\* answer (Send, SendBatch, finalizeSendPlanResult).
THEOREM AnswerAlwaysAgrees == SendSpec => []AnswerAgrees
<1>1. SendInv => AnswerAgrees
  <2> SUFFICES ASSUME SendInv PROVE AnswerAgrees
    OBVIOUS
  <2>1. Written /\ Reported
    BY DEF SendInv
  <2>2. ASSUME send.pc \in {"write", "done"} /\ ~Batch /\ send.i = 1, NEW p \in DOMAIN send.told
        PROVE  LET rows == {m \in Of(1) : m.pos = p} IN
               /\ send.told[p] = "accepted" => \E m \in rows : m.job
               /\ send.told[p] = "suppressed" => \E m \in rows : ~m.job
               /\ send.told[p] = "failed" => \A m \in rows : m.lost
    BY <2>1, <2>2 DEF Written
  <2> QED
    BY <2>1, <2>2 DEF AnswerAgrees, Written, Reported, ResultAgrees
<1> QED
  BY SendInductive, <1>1, PTL
=============================================================================
