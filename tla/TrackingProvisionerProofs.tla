---------------------- MODULE TrackingProvisionerProofs ----------------------
(***************************************************************************)
(* Proofs about TrackingProvisioner, for any number of overlapping         *)
(* requests, failures and crashes.                                         *)
(***************************************************************************)
EXTENDS TrackingProvisioner, TLAPS

PNames == ToSet(ProvisionSteps)
DNames == ToSet(DeprovisionSteps)
Records ==
    [pc : {"idle", "put"} \cup ProvisionPcs \cup DeletePcs, i : 1..7,
     done : SUBSET StepNames, listed : SUBSET StepNames, known : SUBSET (Configs \X Resources),
     gen : Nat, cfg : Configs, set : BOOLEAN, err : BOOLEAN, met : BOOLEAN]
Stepping == {"step", "save", "fail"}
Removing == {"dstep", "dsave", "dfail"}

(***************************************************************************)
(* The rows: they come all at once and go all at once, so that an id that  *)
(* was listed is there as long as the generation is the same.              *)
(***************************************************************************)
RowsTogether ==
    (\E s \in PNames : rows[s].status # "absent") => \A s \in PNames : rows[s].status # "absent"

IdsAreFound ==
    \A p \in Procs :
      /\ proc[p].gen <= gen
      /\ proc[p].gen = gen => \A s \in proc[p].listed : rows[s].status # "absent"

InRange ==
    \A p \in Procs :
      /\ proc[p].pc \in {"save", "fail"} => proc[p].i <= 6
      /\ proc[p].pc \in {"init", "reset", "list", "dinit", "dlist"} => proc[p].i = 1
      /\ proc[p].pc \in DeletePcs => proc[p].i <= 4
      /\ proc[p].pc \in Removing \cup {"dclear"} => torn

(***************************************************************************)
(* Provisioning: what a call has behind it is there, unless a deletion has *)
(* begun to take it away.                                                  *)
(***************************************************************************)
Behind(p, j) ==
    proc[p].pc \in Stepping /\ (proc[p].i > j \/ (proc[p].i = j /\ proc[p].pc = "save"))

OnRecord ==
    /\ ~torn => \A s \in Creates : rows[s].status = "completed" => <<rows[s].at, ResourceOf[s]>> \in aws
    /\ ~torn => \A s \in DNames : rows[s].status \in {"absent", "pending"}
    /\ rows["save_configuration"].status = "completed" => NameKept

Has(p, r) == \E c \in Configs : <<c, r>> \in proc[p].known

Progress(p) ==
    /\ ~torn /\ proc[p].pc \in Stepping => proc[p].known \subseteq aws
    /\ proc[p].pc \in Stepping => \A s \in proc[p].done \cap Creates : Has(p, ResourceOf[s])
    /\ Behind(p, 1) => Has(p, "set")
    /\ Behind(p, 2) => Has(p, "topic") /\ \E c \in bound : <<c, "topic">> \in proc[p].known
    /\ Behind(p, 3) => Has(p, "dest")
    /\ Behind(p, 4) => Has(p, "sub")
    /\ proc[p].pc = "save" /\ Step(p) \in Creates => <<proc[p].cfg, ResourceOf[Step(p)]>> \in proc[p].known
    /\ proc[p].pc \in Stepping /\ "save_configuration" \in proc[p].done => NameKept
    /\ Behind(p, 5) => NameKept

ProgressIsReal == \A p \in Procs : Progress(p)

(***************************************************************************)
(* As long as no PUT has pointed the adapter elsewhere there is one place. *)
(***************************************************************************)
Settled ==
    ~moved => /\ adapter.cfg = Config0
              /\ \A p \in Procs : proc[p].cfg = Config0
              /\ \A s \in StepNames : rows[s].at = Config0

(***************************************************************************)
(* Deletion: what is not gone has failed to go, and is on record as such.  *)
(***************************************************************************)
Gone(r) == \A c \in Configs : <<c, r>> \in aws => <<c, r>> \in orphans
AllGone == \A r \in Resources : Gone(r)
RemovedAt(j) == ResourceOf[DeprovisionSteps[j]]
Accounted(j) == Gone(RemovedAt(j)) \/ rows[DeprovisionSteps[j]].status = "failed"

\* A removal can address what exists, except for the orphans.
Reached(p) ==
    \A c \in Configs, r \in Resources : <<c, r>> \in aws =>
      \/ <<c, r>> \in orphans
      \/ c = proc[p].cfg /\ (r \in ByARN => <<c, r>> \in proc[p].known)

RemovalIsReal ==
    ~excused =>
      /\ \A p \in Procs :
           /\ proc[p].pc = "dsave" => Gone(RemovedAt(proc[p].i))
           /\ proc[p].pc \in Removing =>
                /\ \A j \in 1..4 : j < proc[p].i =>
                     Accounted(j) /\ (~proc[p].err => Gone(RemovedAt(j)))
                /\ Reached(p)
                /\ (proc[p].gen = gen /\ DNames \subseteq proc[p].listed) \/ AllGone
           /\ proc[p].pc = "dlist" => (\A s \in DNames : rows[s].status # "absent") \/ AllGone
           /\ proc[p].pc = "dclear" => AllGone
           /\ proc[p].pc = "dsoft" => ~adapter.live \/ \A j \in 1..4 : Accounted(j)
      /\ ~adapter.live => \A j \in 1..4 : Accounted(j)

IInv ==
    /\ TypeOK /\ RowsTogether /\ IdsAreFound /\ InRange
    /\ OnRecord /\ ProgressIsReal /\ RetryCompletes /\ RemovalIsReal /\ Settled
-----------------------------------------------------------------------------
(* The names of the steps and what each of them creates or deletes. *)
LEMMA Names ==
    /\ PNames = {"create_configuration_set", "create_sns_topic", "create_event_destination",
                 "subscribe_webhook", "save_configuration", "verify_subscription"}
    /\ DNames = {"unsubscribe_webhook", "delete_event_destination", "delete_sns_topic",
                 "delete_configuration_set"}
    /\ StepNames = PNames \cup DNames
    /\ Len(ProvisionSteps) = 6 /\ Len(DeprovisionSteps) = 4
    /\ ProvisionSteps[1] = "create_configuration_set"
    /\ ProvisionSteps[2] = "create_sns_topic"
    /\ ProvisionSteps[3] = "create_event_destination"
    /\ ProvisionSteps[4] = "subscribe_webhook"
    /\ ProvisionSteps[5] = "save_configuration"
    /\ ProvisionSteps[6] = "verify_subscription"
    /\ DeprovisionSteps[1] = "unsubscribe_webhook"
    /\ DeprovisionSteps[2] = "delete_event_destination"
    /\ DeprovisionSteps[3] = "delete_sns_topic"
    /\ DeprovisionSteps[4] = "delete_configuration_set"
  BY DEF PNames, DNames, StepNames, ToSet, ProvisionSteps, DeprovisionSteps

(* The resource behind each step. *)
LEMMA Resource ==
    /\ ResourceOf["create_configuration_set"] = "set"
    /\ ResourceOf["create_sns_topic"] = "topic"
    /\ ResourceOf["create_event_destination"] = "dest"
    /\ ResourceOf["subscribe_webhook"] = "sub"
    /\ ResourceOf["unsubscribe_webhook"] = "sub"
    /\ ResourceOf["delete_event_destination"] = "dest"
    /\ ResourceOf["delete_sns_topic"] = "topic"
    /\ ResourceOf["delete_configuration_set"] = "set"
    /\ \A s \in StepNames : ResourceOf[s] \in Resources
  BY Names DEF ResourceOf, Resources

Pcs == {"idle", "put"} \cup ProvisionPcs \cup DeletePcs

(* The fields of a request, one by one. *)
LEMMA Fields ==
    ASSUME NEW r \in Records
    PROVE  /\ r.pc \in Pcs /\ r.i \in 1..7 /\ r.done \in SUBSET StepNames
           /\ r.listed \in SUBSET StepNames /\ r.known \in SUBSET (Configs \X Resources) /\ r.gen \in Nat
           /\ r.cfg \in Configs /\ r.set \in BOOLEAN /\ r.err \in BOOLEAN /\ r.met \in BOOLEAN
  BY DEF Records, Pcs

(* What is left alone when a request moves from a to b. *)
Stays(a, b) ==
    b.done = a.done /\ b.listed = a.listed /\ b.gen = a.gen /\ b.cfg = a.cfg /\ b.set = a.set
Kept(a, b) == Stays(a, b) /\ b.known = a.known

(* Request p becomes r and the others stay. *)
Becomes(p, r) ==
    /\ r \in Records /\ proc' \in [Procs -> Records] /\ proc'[p] = r
    /\ \A q \in Procs \ {p} : proc'[q] = proc[q]

(* A request is replaced by a well-typed record. *)
LEMMA Replace ==
    ASSUME proc \in [Procs -> Records], NEW p \in Procs, NEW r \in Records,
           proc' = [proc EXCEPT ![p] = r]
    PROVE  Becomes(p, r)
  BY DEF Becomes

(* Go moves the program counter and nothing else. *)
LEMMA GoMoves ==
    ASSUME proc \in [Procs -> Records], NEW p \in Procs, NEW x \in Pcs, Go(p, x)
    PROVE  /\ Becomes(p, proc'[p]) /\ proc'[p].pc = x /\ Kept(proc[p], proc'[p])
           /\ proc'[p].i = proc[p].i /\ proc'[p].err = proc[p].err /\ proc'[p].met = proc[p].met
<1> DEFINE r == [proc[p] EXCEPT !.pc = x]
<1>1. proc[p] \in Records
  OBVIOUS
<1>2. r \in Records /\ r.pc = x /\ Kept(proc[p], r) /\ r.i = proc[p].i /\ r.err = proc[p].err
      /\ r.met = proc[p].met
  BY <1>1 DEF Records, Pcs, Kept, Stays
<1>3. proc' = [proc EXCEPT ![p] = r]
  BY DEF Go
<1> HIDE DEF r
<1> QED
  BY <1>2, <1>3, Replace DEF Becomes

(* Meets moves the program counter and notes the failure. *)
LEMMA MeetsMoves ==
    ASSUME proc \in [Procs -> Records], NEW p \in Procs, NEW x \in Pcs, Meets(p, x)
    PROVE  /\ Becomes(p, proc'[p]) /\ proc'[p].pc = x /\ Kept(proc[p], proc'[p])
           /\ proc'[p].i = proc[p].i /\ proc'[p].err = proc[p].err /\ proc'[p].met = TRUE
<1> DEFINE r == [proc[p] EXCEPT !.pc = x, !.met = TRUE]
<1>1. proc[p] \in Records
  OBVIOUS
<1>2. r \in Records /\ r.pc = x /\ Kept(proc[p], r) /\ r.i = proc[p].i /\ r.err = proc[p].err
      /\ r.met = TRUE
  BY <1>1 DEF Records, Pcs, Kept, Stays
<1>3. proc' = [proc EXCEPT ![p] = r]
  BY <1>1 DEF Meets, Records
<1> HIDE DEF r
<1> QED
  BY <1>2, <1>3, Replace DEF Becomes

(* The record of a request that has not begun. *)
LEMMA IdleFields ==
    /\ Idle \in Records /\ Idle.pc = "idle" /\ Idle.i = 1 /\ Idle.gen = 0 /\ Idle.listed = {}
    /\ Idle.done = {} /\ Idle.known = {} /\ Idle.err = FALSE /\ Idle.met = FALSE
    /\ Idle.cfg = Config0
  BY ProvisionAssumption DEF Idle, Records

(* A request that ends is idle again. *)
LEMMA EndMoves ==
    ASSUME proc \in [Procs -> Records], NEW p \in Procs, proc' = [proc EXCEPT ![p] = Idle]
    PROVE  Becomes(p, Idle)
  BY IdleFields, Replace

(* A new request carries the adapters row it read, and nothing else. *)
LEMMA BeginMoves ==
    ASSUME TypeOK, NEW p \in Procs, NEW x \in {"init", "dinit", "put"}, Begin(p, x)
    PROVE  /\ Becomes(p, proc'[p]) /\ proc'[p].pc = x /\ proc'[p].i = 1 /\ proc'[p].gen = 0
           /\ proc'[p].listed = {} /\ proc'[p].done = {} /\ proc'[p].known = {}
           /\ proc'[p].err = FALSE /\ proc'[p].met = FALSE /\ proc'[p].cfg = adapter.cfg
<1> DEFINE r == [Idle EXCEPT !.pc = x, !.cfg = adapter.cfg, !.set = adapter.set]
<1>1. adapter.cfg \in Configs /\ adapter.set \in BOOLEAN /\ proc \in [Procs -> Records]
  BY DEF TypeOK, Records
<1>2. r \in Records /\ r.pc = x /\ r.i = 1 /\ r.gen = 0 /\ r.listed = {} /\ r.done = {}
      /\ r.known = {} /\ r.err = FALSE /\ r.met = FALSE /\ r.cfg = adapter.cfg
  BY <1>1, IdleFields DEF Records, ProvisionPcs, DeletePcs
<1>3. proc' = [proc EXCEPT ![p] = r]
  BY DEF Begin
<1> HIDE DEF r
<1> QED
  BY <1>1, <1>2, <1>3, Replace DEF Becomes

(* The parts of the type invariant. *)
RowTable == [StepNames -> [status : {"absent", "pending", "completed", "failed"}, arn : BOOLEAN,
                           at : Configs]]
Typed ==
    /\ adapter \in [live : BOOLEAN, cfg : Configs, set : BOOLEAN]
    /\ rows \in RowTable /\ gen \in Nat
    /\ aws \subseteq Configs \X Resources /\ bound \subseteq Configs
    /\ requests \in 0..MaxRequests /\ faults \in 0..MaxFaults
    /\ overwritten \in BOOLEAN /\ moved \in BOOLEAN /\ torn \in BOOLEAN /\ excused \in BOOLEAN
    /\ orphans \subseteq Configs \X Resources

(* The type invariant is its parts. *)
LEMMA TypeParts == TypeOK <=> Typed /\ proc \in [Procs -> Records]
  BY DEF TypeOK, Typed, Records, RowTable

(* The same in the next state. *)
LEMMA TypePartsNext == TypeOK' <=> Typed' /\ (proc \in [Procs -> Records])'
  BY DEF TypeOK, Typed, Records, RowTable

(* The writes of the step rows. *)
LEMMA RowFields ==
    ASSUME rows \in RowTable, NEW s \in StepNames
    PROVE  rows[s].status \in {"absent", "pending", "completed", "failed"} /\ rows[s].arn \in BOOLEAN
           /\ rows[s].at \in Configs
  BY DEF RowTable

(* What ListByAdapter puts into the request: the rows there are, the completed ones and
   where their steps were done. *)
LEMMA ListMoves ==
    ASSUME TypeOK, NEW p \in Procs, ListByAdapter(p)
    PROVE  /\ Becomes(p, proc'[p]) /\ proc'[p].pc = "step" /\ proc'[p].gen = gen
           /\ proc'[p].listed = {s \in StepNames : rows[s].status # "absent"}
           /\ proc'[p].done = {s \in StepNames : rows[s].status = "completed"}
           /\ proc'[p].known = {<<rows[s].at, ResourceOf[s]>> :
                                 s \in {x \in Creates : rows[x].status = "completed"}}
           /\ proc'[p].i = proc[p].i /\ proc'[p].met = proc[p].met /\ proc'[p].cfg = proc[p].cfg
<1> DEFINE l == {s \in StepNames : rows[s].status # "absent"}
           d == {s \in StepNames : rows[s].status = "completed"}
           k == {<<rows[s].at, ResourceOf[s]>> : s \in {x \in Creates : rows[x].status = "completed"}}
           r == [proc[p] EXCEPT !.pc = "step", !.gen = gen, !.listed = l, !.done = d, !.known = k]
<1>0. proc \in [Procs -> Records] /\ proc[p] \in Records /\ gen \in Nat /\ rows \in RowTable
  BY TypeParts DEF Typed
<1>1. l \in SUBSET StepNames /\ d \in SUBSET StepNames
  OBVIOUS
<1>4. k \in SUBSET (Configs \X Resources)
  <2>1. \A s \in Creates : rows[s].at \in Configs /\ ResourceOf[s] \in Resources
    BY <1>0, RowFields, Resource, Names DEF Creates
  <2> QED
    BY <2>1
<1>3. proc' = [proc EXCEPT ![p] = r]
  BY <1>0 DEF ListByAdapter, Records
<1> HIDE DEF l, d, k
<1>2. r \in Records /\ r.pc = "step" /\ r.gen = gen /\ r.listed = l /\ r.done = d /\ r.known = k
      /\ r.i = proc[p].i /\ r.met = proc[p].met /\ r.cfg = proc[p].cfg
  BY <1>0, <1>1, <1>4 DEF Records, ProvisionPcs
<1> HIDE DEF r
<1> QED
  BY <1>0, <1>2, <1>3, Replace DEF Becomes, l, d, k

(* What the listing of a removal puts into the request: the rows and the stored ARNs. *)
LEMMA ListForMoves ==
    ASSUME TypeOK, NEW p \in Procs, ListForDeprovision(p)
    PROVE  /\ Becomes(p, proc'[p]) /\ proc'[p].pc = "dstep" /\ proc'[p].gen = gen
           /\ proc'[p].listed = {s \in StepNames : rows[s].status # "absent"}
           /\ proc'[p].known = {<<rows[s].at, ResourceOf[s]>> : s \in {x \in Creates : rows[x].arn}}
           /\ proc'[p].i = proc[p].i /\ proc'[p].err = proc[p].err /\ proc'[p].cfg = proc[p].cfg
<1> DEFINE l == {s \in StepNames : rows[s].status # "absent"}
           k == {<<rows[s].at, ResourceOf[s]>> : s \in {x \in Creates : rows[x].arn}}
           r == [proc[p] EXCEPT !.pc = "dstep", !.gen = gen, !.known = k, !.listed = l]
<1>0. proc \in [Procs -> Records] /\ proc[p] \in Records /\ gen \in Nat /\ rows \in RowTable
  BY TypeParts DEF Typed
<1>1. l \in SUBSET StepNames
  OBVIOUS
<1>4. k \in SUBSET (Configs \X Resources)
  <2>1. \A s \in Creates : rows[s].at \in Configs /\ ResourceOf[s] \in Resources
    BY <1>0, RowFields, Resource, Names DEF Creates
  <2> QED
    BY <2>1
<1>3. proc' = [proc EXCEPT ![p] = r]
  BY <1>0 DEF ListForDeprovision, Records
<1> HIDE DEF l, k
<1>2. r \in Records /\ r.pc = "dstep" /\ r.gen = gen /\ r.listed = l /\ r.known = k
      /\ r.i = proc[p].i /\ r.err = proc[p].err /\ r.cfg = proc[p].cfg
  BY <1>0, <1>1, <1>4 DEF Records, DeletePcs
<1> HIDE DEF r
<1> QED
  BY <1>0, <1>2, <1>3, Replace DEF Becomes, l, k

(* A creation that succeeds is known to its call. *)
LEMMA CreatedMoves ==
    ASSUME proc \in [Procs -> Records], NEW p \in Procs, NEW x \in Resources, Created(p, x)
    PROVE  /\ Becomes(p, proc'[p]) /\ proc'[p].pc = "save" /\ Stays(proc[p], proc'[p])
           /\ proc'[p].known = proc[p].known \cup {<<proc[p].cfg, x>>}
           /\ proc'[p].i = proc[p].i /\ proc'[p].err = proc[p].err /\ proc'[p].met = proc[p].met
<1> DEFINE k == proc[p].known \cup {<<proc[p].cfg, x>>}
           r == [proc[p] EXCEPT !.pc = "save", !.known = k]
<1>1. proc[p] \in Records
  OBVIOUS
<1>4. k \in SUBSET (Configs \X Resources)
  BY <1>1, Fields
<1>3. proc' = [proc EXCEPT ![p] = r]
  BY <1>1 DEF Created, Records
<1> HIDE DEF k
<1>2. r \in Records /\ r.pc = "save" /\ Stays(proc[p], r) /\ r.i = proc[p].i /\ r.err = proc[p].err
      /\ r.met = proc[p].met /\ r.known = k
  BY <1>1, <1>4 DEF Records, ProvisionPcs, Stays
<1> HIDE DEF r
<1> QED
  BY <1>2, <1>3, Replace DEF Becomes, k

(* Skip, and the end of a step. *)
LEMMA AdvanceMoves ==
    ASSUME proc \in [Procs -> Records], NEW p \in Procs, proc[p].i <= 6,
           \/ proc' = [proc EXCEPT ![p].i = @ + 1] /\ proc[p].pc = "step"
           \/ proc' = [proc EXCEPT ![p].pc = "step", ![p].i = @ + 1]
           \/ proc' = [proc EXCEPT ![p] = [proc[p] EXCEPT !.pc = "step", !.i = @ + 1]]
    PROVE  /\ Becomes(p, proc'[p]) /\ proc'[p].pc = "step" /\ Kept(proc[p], proc'[p])
           /\ proc'[p].i = proc[p].i + 1 /\ proc'[p].met = proc[p].met
<1> DEFINE n == proc[p].i + 1
           r == [proc[p] EXCEPT !.pc = "step", !.i = n]
<1>1. proc[p] \in Records
  OBVIOUS
<1>2. n \in 1..7
  BY <1>1, Fields
<1>3. proc' = [proc EXCEPT ![p] = r]
  <2>1. CASE proc' = [proc EXCEPT ![p].i = @ + 1] /\ proc[p].pc = "step"
    <3>1. [proc[p] EXCEPT !.i = @ + 1] = r
      BY <1>1, <2>1 DEF Records
    <3> QED
      BY <2>1, <3>1, Zenon
  <2>2. CASE proc' = [proc EXCEPT ![p].pc = "step", ![p].i = @ + 1]
    BY <1>1, <2>2 DEF Records
  <2>3. CASE proc' = [proc EXCEPT ![p] = [proc[p] EXCEPT !.pc = "step", !.i = @ + 1]]
    BY <1>1, <2>3 DEF Records
  <2> QED
    BY <2>1, <2>2, <2>3
<1> HIDE DEF n
<1>4. r \in Records /\ r.pc = "step" /\ Kept(proc[p], r) /\ r.i = n /\ r.met = proc[p].met
  BY <1>1, <1>2 DEF Records, ProvisionPcs, Kept, Stays
<1> HIDE DEF r
<1> QED
  BY <1>3, <1>4, Replace DEF Becomes, n

(* The end of a removal step: the next one or, after the last, the way out. *)
LEMMA NextDeleteMoves ==
    ASSUME proc \in [Procs -> Records], NEW p \in Procs, proc[p].i <= 4, NEW f \in BOOLEAN,
           proc' = NextDelete(p, f)
    PROVE  /\ Becomes(p, proc'[p]) /\ Kept(proc[p], proc'[p])
           /\ proc'[p].err = (proc[p].err \/ f)
           /\ proc'[p].i = IF proc[p].i < 4 THEN proc[p].i + 1 ELSE proc[p].i
           /\ proc'[p].pc = IF proc[p].i < 4 THEN "dstep"
                            ELSE IF proc[p].err \/ f THEN "dsoft" ELSE "dclear"
<1> DEFINE e == proc[p].err \/ f
           n == IF proc[p].i < 4 THEN proc[p].i + 1 ELSE proc[p].i
           x == IF proc[p].i < 4 THEN "dstep"
                ELSE IF proc[p].err \/ f THEN "dsoft" ELSE "dclear"
           r == [proc[p] EXCEPT !.err = e, !.i = n, !.pc = x]
<1>0. proc[p] \in Records
  OBVIOUS
<1>1. e \in BOOLEAN /\ n \in 1..7 /\ x \in {"dstep", "dsoft", "dclear"}
  BY <1>0, Fields
<1>3. proc' = [proc EXCEPT ![p] = r]
  BY <1>0, Names DEF NextDelete, Records
<1> HIDE DEF e, n, x
<1>2. r \in Records /\ r.pc = x /\ Kept(proc[p], r) /\ r.i = n /\ r.err = e
  BY <1>0, <1>1 DEF Records, DeletePcs, Kept, Stays
<1> HIDE DEF r
<1> QED
  BY <1>2, <1>3, Replace DEF Becomes, e, n, x

(* initStepDefs inserts what is absent as pending and leaves the rest. *)
LEMMA InsertedRows ==
    ASSUME rows \in RowTable, NEW names \in SUBSET StepNames, initStepDefs(names)
    PROVE  /\ rows' \in RowTable
           /\ \A s \in names : rows'[s].status # "absent"
           /\ \A s \in StepNames : rows'[s] = rows[s] \/ (rows'[s].status = "pending" /\ rows'[s].at = Config0)
           /\ \A s \in StepNames : rows[s].status # "absent" \/ s \notin names => rows'[s] = rows[s]
  BY ProvisionAssumption DEF RowTable, initStepDefs, Row

(* MarkCompleted writes one row, if its id is still found. *)
LEMMA CompletedRows ==
    ASSUME rows \in RowTable, NEW p, proc[p].cfg \in Configs, NEW s \in StepNames,
           NEW a \in BOOLEAN, MarkCompleted(p, s, a)
    PROVE  /\ rows' \in RowTable
           /\ \A x \in StepNames \ {s} : rows'[x] = rows[x]
           /\ IF Found(p, s) THEN rows'[s].status = "completed" /\ rows'[s].at = proc[p].cfg
              ELSE rows'[s] = rows[s]
  BY DEF RowTable, MarkCompleted, Row

(* MarkFailed writes one row, if its id is still found. *)
LEMMA FailedRows ==
    ASSUME rows \in RowTable, NEW p, NEW s \in StepNames, MarkFailed(p, s)
    PROVE  /\ rows' \in RowTable
           /\ \A x \in StepNames \ {s} : rows'[x] = rows[x]
           /\ rows'[s].at = rows[s].at
           /\ IF Found(p, s) THEN rows'[s].status = "failed" ELSE rows'[s] = rows[s]
  BY DEF RowTable, MarkFailed

(* ResetFailed makes rows pending, failed ones only. *)
LEMMA ResetRows ==
    ASSUME rows \in RowTable, NEW p, ResetFailed(p)
    PROVE  /\ rows' \in RowTable
           /\ \A s \in StepNames : rows'[s].at = rows[s].at
           /\ \A s \in StepNames : rows'[s] = rows[s] \/ rows'[s].status = "pending"
           /\ \A s \in StepNames : rows[s].status # "failed" => rows'[s] = rows[s]
  BY DEF RowTable, ResetFailed

(* DeleteByAdapter leaves no row. *)
LEMMA ClearedRows ==
    ASSUME rows' = [s \in StepNames |-> NoRow]
    PROVE  rows' \in RowTable /\ \A s \in StepNames : rows'[s].status = "absent" /\ rows'[s].at = Config0
  BY ProvisionAssumption DEF RowTable, NoRow, Row

(* The world of the provisioning calls has lost nothing that they rely on. *)
Undisturbed == (NameKept => NameKept') /\ bound \subseteq bound' /\ (torn' \/ (~torn /\ aws \subseteq aws'))

(* A call that takes no step keeps what it has behind it. *)
LEMMA OthersProgress ==
    ASSUME NEW q \in Procs, Progress(q), proc'[q] = proc[q], Undisturbed
    PROVE  Progress(q)'
<1>1. /\ \A j : Behind(q, j)' <=> Behind(q, j)
      /\ \A x : Has(q, x)' <=> Has(q, x)
      /\ Step(q)' = Step(q)
  BY DEF Behind, Has, Step
<1>2. ~torn' /\ proc'[q].pc \in Stepping => proc'[q].known \subseteq aws'
  BY DEF Progress, Undisturbed
<1>3. Behind(q, 2)' => \E c \in bound' : <<c, "topic">> \in proc'[q].known
  BY <1>1 DEF Progress, Undisturbed
<1> QED
  BY <1>1, <1>2, <1>3 DEF Progress, Undisturbed

(* A call that is not at its steps has nothing behind it. *)
LEMMA NoProgress ==
    ASSUME NEW q \in Procs, proc'[q].pc \notin Stepping
    PROVE  Progress(q)'
  BY DEF Progress, Behind, Stepping

(* A step of the call: what is behind it afterwards was known to it before. *)
LEMMA OwnProgress ==
    ASSUME NEW p \in Procs, Progress(p), proc[p].pc \in Stepping, Kept(proc[p], proc'[p]), Undisturbed,
           Behind(p, 1)' => Has(p, "set"),
           Behind(p, 2)' => Has(p, "topic") /\ \E c \in bound' : <<c, "topic">> \in proc[p].known,
           Behind(p, 3)' => Has(p, "dest"),
           Behind(p, 4)' => Has(p, "sub"),
           Behind(p, 5)' => NameKept',
           ~(proc'[p].pc = "save" /\ Step(p)' \in Creates)
    PROVE  Progress(p)'
<1>1. /\ \A x : Has(p, x)' <=> Has(p, x)
      /\ proc'[p].known = proc[p].known /\ proc'[p].done = proc[p].done
  BY DEF Has, Kept, Stays
<1>2. ~torn' => proc'[p].known \subseteq aws'
  BY <1>1 DEF Progress, Undisturbed
<1> QED
  BY <1>1, <1>2 DEF Progress, Undisturbed

(* A provisioning begins: nothing is behind it yet. *)
LEMMA autoProvisionKeeps ==
    ASSUME IInv, NEW p \in Procs, autoProvision(p)
    PROVE  IInv'
<1>0. /\ Typed /\ proc \in [Procs -> Records] /\ RowsTogether /\ IdsAreFound /\ InRange
      /\ OnRecord /\ ProgressIsReal /\ RetryCompletes /\ RemovalIsReal
      /\ Settled /\ proc[p] \in Records
  BY TypeParts DEF IInv
<1>1. /\ proc[p].pc = "idle" /\ adapter.live
      /\ Becomes(p, proc'[p]) /\ proc'[p].pc = "init"
      /\ proc'[p].i = 1 /\ proc'[p].gen = 0 /\ proc'[p].listed = {} /\ proc'[p].done = {}
      /\ proc'[p].known = {} /\ proc'[p].err = FALSE /\ proc'[p].met = FALSE
      /\ proc'[p].cfg = adapter.cfg
      /\ requests < MaxRequests /\ requests' = requests + 1
      /\ UNCHANGED <<adapter, rows, gen, aws, bound, faults, overwritten, moved, torn, excused, orphans>>
  BY <1>0, TypeParts, BeginMoves DEF autoProvision, Begin, history
<1>3. TypeOK'
  BY <1>0, <1>1, TypePartsNext, IdleFields, ProvisionAssumption DEF Typed, Becomes
<1>4. RowsTogether'
  BY <1>0, <1>1, Names DEF RowsTogether
<1>5. IdsAreFound'
  BY <1>0, <1>1, Names, Fields DEF IdsAreFound, Becomes, Typed
<1>6. InRange'
  BY <1>0, <1>1 DEF InRange, Becomes, Removing
<1>7. OnRecord'
  BY <1>0, <1>1 DEF OnRecord, NameKept
<1>8. ProgressIsReal'
  <2>1. Progress(p)'
    BY <1>1, IdleFields, NoProgress DEF Becomes, Stepping
  <2>2. Undisturbed
    BY <1>0, <1>1 DEF Undisturbed, NameKept, InRange, Removing
  <2> QED
    BY <1>0, <1>1, <2>1, <2>2, OthersProgress DEF ProgressIsReal, Becomes
<1>9. RetryCompletes'
  BY <1>0, <1>1 DEF Away, RetryCompletes, Becomes
<1>10. RemovalIsReal'
  BY <1>0, <1>1 DEF Reached, RemovalIsReal, Accounted, Gone, AllGone, Removing, Becomes
<1>11. Settled'
  BY <1>0, <1>1, IdleFields, Names DEF Settled, Becomes, Kept, Stays
<1> QED
  BY <1>3, <1>4, <1>5, <1>6, <1>7, <1>8, <1>9, <1>10, <1>11 DEF IInv

(* A removal begins: nothing is removed yet. *)
LEMMA softDeleteKeeps ==
    ASSUME IInv, NEW p \in Procs, softDelete(p)
    PROVE  IInv'
<1>0. /\ Typed /\ proc \in [Procs -> Records] /\ RowsTogether /\ IdsAreFound /\ InRange
      /\ OnRecord /\ ProgressIsReal /\ RetryCompletes /\ RemovalIsReal
      /\ Settled /\ proc[p] \in Records
  BY TypeParts DEF IInv
<1>1. /\ proc[p].pc = "idle" /\ adapter.live
      /\ Becomes(p, proc'[p]) /\ proc'[p].pc = "dinit"
      /\ proc'[p].i = 1 /\ proc'[p].gen = 0 /\ proc'[p].listed = {} /\ proc'[p].done = {}
      /\ proc'[p].known = {} /\ proc'[p].err = FALSE /\ proc'[p].met = FALSE
      /\ proc'[p].cfg = adapter.cfg
      /\ requests < MaxRequests /\ requests' = requests + 1
      /\ UNCHANGED <<adapter, rows, gen, aws, bound, faults, overwritten, moved, torn, excused, orphans>>
  BY <1>0, TypeParts, BeginMoves DEF softDelete, Begin, history
<1>3. TypeOK'
  BY <1>0, <1>1, TypePartsNext, IdleFields, ProvisionAssumption DEF Typed, Becomes
<1>4. RowsTogether'
  BY <1>0, <1>1, Names DEF RowsTogether
<1>5. IdsAreFound'
  BY <1>0, <1>1, Names, Fields DEF IdsAreFound, Becomes, Typed
<1>6. InRange'
  BY <1>0, <1>1 DEF InRange, Becomes, Removing
<1>7. OnRecord'
  BY <1>0, <1>1 DEF OnRecord, NameKept
<1>8. ProgressIsReal'
  <2>1. Progress(p)'
    BY <1>1, IdleFields, NoProgress DEF Becomes, Stepping
  <2>2. Undisturbed
    BY <1>0, <1>1 DEF Undisturbed, NameKept, InRange, Removing
  <2> QED
    BY <1>0, <1>1, <2>1, <2>2, OthersProgress DEF ProgressIsReal, Becomes
<1>9. RetryCompletes'
  BY <1>0, <1>1 DEF Away, RetryCompletes, Becomes
<1>10. RemovalIsReal'
  BY <1>0, <1>1 DEF Reached, RemovalIsReal, Accounted, Gone, AllGone, Removing, Becomes
<1>11. Settled'
  BY <1>0, <1>1, IdleFields, Names DEF Settled, Becomes, Kept, Stays
<1> QED
  BY <1>3, <1>4, <1>5, <1>6, <1>7, <1>8, <1>9, <1>10, <1>11 DEF IInv

(* PUT reads the adapters row. *)
LEMMA updateReadKeeps ==
    ASSUME IInv, NEW p \in Procs, updateRead(p)
    PROVE  IInv'
<1>0. /\ Typed /\ proc \in [Procs -> Records] /\ RowsTogether /\ IdsAreFound /\ InRange
      /\ OnRecord /\ ProgressIsReal /\ RetryCompletes /\ RemovalIsReal
      /\ Settled /\ proc[p] \in Records
  BY TypeParts DEF IInv
<1>1. /\ proc[p].pc = "idle" /\ adapter.live
      /\ Becomes(p, proc'[p]) /\ proc'[p].pc = "put"
      /\ proc'[p].i = 1 /\ proc'[p].gen = 0 /\ proc'[p].listed = {} /\ proc'[p].done = {}
      /\ proc'[p].known = {} /\ proc'[p].err = FALSE /\ proc'[p].met = FALSE
      /\ proc'[p].cfg = adapter.cfg
      /\ requests < MaxRequests /\ requests' = requests + 1
      /\ UNCHANGED <<adapter, rows, gen, aws, bound, faults, overwritten, moved, torn, excused, orphans>>
  BY <1>0, TypeParts, BeginMoves DEF updateRead, Begin, history
<1>3. TypeOK'
  BY <1>0, <1>1, TypePartsNext, IdleFields, ProvisionAssumption DEF Typed, Becomes
<1>4. RowsTogether'
  BY <1>0, <1>1, Names DEF RowsTogether
<1>5. IdsAreFound'
  BY <1>0, <1>1, Names, Fields DEF IdsAreFound, Becomes, Typed
<1>6. InRange'
  BY <1>0, <1>1 DEF InRange, Becomes, Removing
<1>7. OnRecord'
  BY <1>0, <1>1 DEF OnRecord, NameKept
<1>8. ProgressIsReal'
  <2>1. Progress(p)'
    BY <1>1, IdleFields, NoProgress DEF Becomes, Stepping
  <2>2. Undisturbed
    BY <1>0, <1>1 DEF Undisturbed, NameKept, InRange, Removing
  <2> QED
    BY <1>0, <1>1, <2>1, <2>2, OthersProgress DEF ProgressIsReal, Becomes
<1>9. RetryCompletes'
  BY <1>0, <1>1 DEF Away, RetryCompletes, Becomes
<1>10. RemovalIsReal'
  BY <1>0, <1>1 DEF Reached, RemovalIsReal, Accounted, Gone, AllGone, Removing, Becomes
<1>11. Settled'
  BY <1>0, <1>1, IdleFields, Names DEF Settled, Becomes, Kept, Stays
<1> QED
  BY <1>3, <1>4, <1>5, <1>6, <1>7, <1>8, <1>9, <1>10, <1>11 DEF IInv

(* PUT writes the row it read, with its changes: a name it takes away is marked
   overwritten, another account or region as moved. *)
LEMMA updateWriteKeeps ==
    ASSUME IInv, NEW p \in Procs, NEW cfg \in Configs, NEW set \in BOOLEAN,
           updateWrite(p, cfg, set)
    PROVE  IInv'
<1>0. /\ Typed /\ proc \in [Procs -> Records] /\ RowsTogether /\ IdsAreFound /\ InRange
      /\ OnRecord /\ ProgressIsReal /\ RetryCompletes /\ RemovalIsReal
      /\ Settled /\ proc[p] \in Records
  BY TypeParts DEF IInv
<1>1. /\ proc[p].pc = "put" /\ Becomes(p, Idle)
      /\ adapter' \in [live : BOOLEAN, cfg : Configs, set : BOOLEAN] /\ adapter'.live = adapter.live
      /\ NameKept => NameKept'
      /\ overwritten' \in BOOLEAN /\ moved' \in BOOLEAN /\ (~moved' => ~moved /\ cfg = proc[p].cfg)
      /\ adapter'.cfg = cfg \/ adapter' = adapter
      /\ UNCHANGED <<rows, gen, aws, bound, requests, faults, torn, excused, orphans>>
  BY <1>0, TypeParts, EndMoves, Fields DEF updateWrite, Typed, NameKept
<1>3. TypeOK'
  BY <1>0, <1>1, TypePartsNext, IdleFields, ProvisionAssumption DEF Typed, Becomes
<1>4. RowsTogether'
  BY <1>0, <1>1, Names DEF RowsTogether
<1>5. IdsAreFound'
  BY <1>0, <1>1, Names, Fields, IdleFields DEF IdsAreFound, Becomes, Typed
<1>6. InRange'
  BY <1>0, <1>1, IdleFields DEF InRange, Becomes, Removing
<1>7. OnRecord'
  BY <1>0, <1>1 DEF OnRecord
<1>8. ProgressIsReal'
  <2>1. Progress(p)'
    BY <1>1, IdleFields, NoProgress DEF Becomes, Stepping
  <2>2. Undisturbed
    BY <1>0, <1>1 DEF Undisturbed
  <2> QED
    BY <1>0, <1>1, <2>1, <2>2, OthersProgress DEF ProgressIsReal, Becomes
<1>9. RetryCompletes'
  BY <1>0, <1>1, IdleFields DEF Away, RetryCompletes, Becomes
<1>10. RemovalIsReal'
  BY <1>0, <1>1, Names, IdleFields DEF Reached, RemovalIsReal, Accounted, Gone, AllGone, Removing,
     Becomes
<1>11. Settled'
  BY <1>0, <1>1, IdleFields, Names DEF Settled, Becomes, Kept, Stays
<1> QED
  BY <1>3, <1>4, <1>5, <1>6, <1>7, <1>8, <1>9, <1>10, <1>11 DEF IInv

(* Initialisation inserts all rows of the provisioning at once. *)
LEMMA InitStepsKeeps ==
    ASSUME IInv, NEW p \in Procs, InitSteps(p)
    PROVE  IInv'
<1>0. /\ Typed /\ proc \in [Procs -> Records] /\ RowsTogether /\ IdsAreFound /\ InRange
      /\ OnRecord /\ ProgressIsReal /\ RetryCompletes /\ RemovalIsReal
      /\ Settled /\ proc[p] \in Records
  BY TypeParts DEF IInv
<1>1. /\ proc[p].pc = "init" /\ Becomes(p, proc'[p])
      /\ proc'[p].pc = "reset" /\ Kept(proc[p], proc'[p]) /\ proc'[p].i = proc[p].i
      /\ proc'[p].err = proc[p].err /\ proc'[p].met = proc[p].met
      /\ initStepDefs(PNames)
      /\ UNCHANGED <<adapter, gen, aws, bound, requests, faults, overwritten, moved, torn, excused, orphans>>
  BY <1>0, TypeParts, GoMoves DEF InitSteps, PNames, Pcs, ProvisionPcs, history
<1>2. /\ rows' \in RowTable /\ \A s \in PNames : rows'[s].status # "absent"
      /\ \A s \in StepNames : rows'[s] = rows[s] \/ (rows'[s].status = "pending" /\ rows'[s].at = Config0)
      /\ \A s \in StepNames : rows[s].status # "absent" \/ s \notin PNames => rows'[s] = rows[s]
  BY <1>0, <1>1, InsertedRows, Names DEF Typed
<1>3. TypeOK'
  BY <1>0, <1>1, <1>2, TypePartsNext DEF Typed, Becomes
<1>4. RowsTogether'
  BY <1>0, <1>1, <1>2, Names DEF RowsTogether
<1>5. IdsAreFound'
  BY <1>0, <1>1, <1>2, Names, Fields, IdleFields DEF IdsAreFound, Kept, Stays, Becomes
<1>6. InRange'
  BY <1>0, <1>1 DEF InRange, Becomes, Removing
<1>7. OnRecord'
  BY <1>0, <1>1, <1>2, Names DEF OnRecord, Creates, NameKept
<1>8. ProgressIsReal'
  <2>1. Progress(p)'
    BY <1>1, IdleFields, NoProgress DEF Becomes, Stepping
  <2>2. Undisturbed
    BY <1>0, <1>1 DEF Undisturbed, NameKept, InRange, Removing
  <2> QED
    BY <1>0, <1>1, <2>1, <2>2, OthersProgress DEF ProgressIsReal, Becomes
<1>9. RetryCompletes'
  BY <1>0, <1>1 DEF Away, RetryCompletes, Becomes
<1>10. RemovalIsReal'
  BY <1>0, <1>1, <1>2, Names, IdleFields DEF Reached, RemovalIsReal, Accounted, Gone, AllGone,
     Removing, Becomes
<1>11. Settled'
  BY <1>0, <1>1, <1>2, IdleFields, Names DEF Settled, Becomes, Kept, Stays
<1> QED
  BY <1>3, <1>4, <1>5, <1>6, <1>7, <1>8, <1>9, <1>10, <1>11 DEF IInv

(* A retry makes failed rows pending, hence claims less than before. *)
LEMMA ResetFailedKeeps ==
    ASSUME IInv, NEW p \in Procs, ResetFailed(p)
    PROVE  IInv'
<1>0. /\ Typed /\ proc \in [Procs -> Records] /\ RowsTogether /\ IdsAreFound /\ InRange
      /\ OnRecord /\ ProgressIsReal /\ RetryCompletes /\ RemovalIsReal
      /\ Settled /\ proc[p] \in Records
  BY TypeParts DEF IInv
<1>1. /\ proc[p].pc = "reset" /\ Becomes(p, proc'[p])
      /\ proc'[p].pc = "list" /\ Kept(proc[p], proc'[p]) /\ proc'[p].i = proc[p].i
      /\ proc'[p].err = proc[p].err /\ proc'[p].met = proc[p].met
      /\ excused' = (excused \/ Overlap \/ ~adapter.live)
      /\ UNCHANGED <<adapter, gen, aws, bound, requests, faults, overwritten, moved, torn, orphans>>
  BY <1>0, TypeParts, GoMoves DEF ResetFailed, Pcs, ProvisionPcs
<1>2. /\ rows' \in RowTable
      /\ \A s \in StepNames : rows'[s].at = rows[s].at
      /\ \A s \in StepNames : rows'[s] = rows[s] \/ rows'[s].status = "pending"
      /\ \A s \in StepNames : rows[s].status # "failed" => rows'[s] = rows[s]
  BY <1>0, ResetRows DEF Typed
<1>3. TypeOK'
  BY <1>0, <1>1, <1>2, TypePartsNext DEF Typed, Becomes
<1>4. RowsTogether'
  BY <1>0, <1>1, <1>2, Names DEF RowsTogether
<1>5. IdsAreFound'
  BY <1>0, <1>1, <1>2, Names, Fields, IdleFields DEF IdsAreFound, Kept, Stays, Becomes, Typed
<1>6. InRange'
  BY <1>0, <1>1 DEF InRange, Becomes, Removing
<1>7. OnRecord'
  BY <1>0, <1>1, <1>2, Names DEF OnRecord, Creates, NameKept
<1>8. ProgressIsReal'
  <2>1. Progress(p)'
    BY <1>1, IdleFields, NoProgress DEF Becomes, Stepping
  <2>2. Undisturbed
    BY <1>0, <1>1 DEF Undisturbed, NameKept, InRange, Removing
  <2> QED
    BY <1>0, <1>1, <2>1, <2>2, OthersProgress DEF ProgressIsReal, Becomes
<1>9. RetryCompletes'
  BY <1>0, <1>1 DEF Away, RetryCompletes, Becomes
<1>10. RemovalIsReal'
  <2> SUFFICES ASSUME ~excused' PROVE RemovalIsReal'
    BY DEF RemovalIsReal
  <2>1. ~excused /\ adapter.live /\ \A q \in Procs : proc[q].pc \notin DeletePcs
    BY <1>1, Zenon DEF Overlap, Deleting
  <2>2. adapter'.live /\ \A q \in Procs : proc'[q].pc \notin DeletePcs
    BY <1>1, <2>1 DEF Becomes, DeletePcs
  <2> QED
    BY <2>2 DEF RemovalIsReal, Removing, DeletePcs
<1>11. Settled'
  BY <1>0, <1>1, <1>2, IdleFields, Names DEF Settled, Becomes, Kept, Stays
<1> QED
  BY <1>3, <1>4, <1>5, <1>6, <1>7, <1>8, <1>9, <1>10, <1>11 DEF IInv

(* What a provisioning lists as done is on record, hence real. *)
LEMMA ListByAdapterKeeps ==
    ASSUME IInv, NEW p \in Procs, ListByAdapter(p)
    PROVE  IInv'
<1>0. /\ Typed /\ proc \in [Procs -> Records] /\ RowsTogether /\ IdsAreFound /\ InRange
      /\ OnRecord /\ ProgressIsReal /\ RetryCompletes /\ RemovalIsReal
      /\ Settled /\ proc[p] \in Records
  BY TypeParts DEF IInv
<1>1. /\ proc[p].pc = "list" /\ Becomes(p, proc'[p]) /\ proc'[p].pc = "step" /\ proc'[p].gen = gen
      /\ proc'[p].listed = {s \in StepNames : rows[s].status # "absent"}
      /\ proc'[p].done = {s \in StepNames : rows[s].status = "completed"}
      /\ proc'[p].known = {<<rows[s].at, ResourceOf[s]>> :
                            s \in {x \in Creates : rows[x].status = "completed"}}
      /\ proc'[p].i = proc[p].i /\ proc'[p].met = proc[p].met /\ proc'[p].cfg = proc[p].cfg
      /\ UNCHANGED <<adapter, rows, gen, aws, bound, requests, faults, overwritten, moved, torn, excused, orphans>>
  BY <1>0, TypeParts, ListMoves DEF ListByAdapter, history
<1>3. TypeOK'
  BY <1>0, <1>1, TypePartsNext, IdleFields, ProvisionAssumption DEF Typed, Becomes
<1>4. RowsTogether'
  BY <1>0, <1>1, Names DEF RowsTogether
<1>5. IdsAreFound'
  BY <1>0, <1>1, Names, Fields DEF IdsAreFound, Becomes
<1>6. InRange'
  BY <1>0, <1>1 DEF InRange, Becomes, Removing
<1>7. OnRecord'
  BY <1>0, <1>1 DEF OnRecord, NameKept
<1>8. ProgressIsReal'
  <2>1. Undisturbed
    BY <1>1 DEF Undisturbed, NameKept
  <2>2. /\ proc'[p].i = 1 /\ \A j \in 1..5 : ~Behind(p, j)'
    BY <1>0, <1>1 DEF InRange, Behind
  <2>3. ~torn' => proc'[p].known \subseteq aws'
    BY <1>0, <1>1 DEF OnRecord
  <2>4. \A s \in proc'[p].done \cap Creates : Has(p, ResourceOf[s])'
    BY <1>0, <1>1, RowFields, Names DEF Has, Creates, Typed
  <2>5. "save_configuration" \in proc'[p].done => NameKept'
    BY <1>0, <1>1, <2>1 DEF OnRecord, Undisturbed
  <2>6. Progress(p)'
    BY <1>1, <2>2, <2>3, <2>4, <2>5 DEF Progress
  <2> QED
    BY <1>0, <1>1, <2>1, <2>6, OthersProgress DEF ProgressIsReal, Becomes
<1>9. RetryCompletes'
  BY <1>0, <1>1 DEF Away, RetryCompletes, Becomes
<1>10. RemovalIsReal'
  BY <1>0, <1>1 DEF Reached, RemovalIsReal, Accounted, Gone, AllGone, Removing, Becomes
<1>11. Settled'
  BY <1>0, <1>1, IdleFields, Names DEF Settled, Becomes, Kept, Stays
<1> QED
  BY <1>3, <1>4, <1>5, <1>6, <1>7, <1>8, <1>9, <1>10, <1>11 DEF IInv

(* A provisioning that cannot read its rows ends with an error. *)
LEMMA LoadFailsKeeps ==
    ASSUME IInv, NEW p \in Procs, LoadFails(p)
    PROVE  IInv'
<1>0. /\ Typed /\ proc \in [Procs -> Records] /\ RowsTogether /\ IdsAreFound /\ InRange
      /\ OnRecord /\ ProgressIsReal /\ RetryCompletes /\ RemovalIsReal
      /\ Settled /\ proc[p] \in Records
  BY TypeParts DEF IInv
<1>1. /\ Becomes(p, Idle) /\ (UNCHANGED faults \/ (faults < MaxFaults /\ faults' = faults + 1))
      /\ UNCHANGED <<adapter, rows, gen, aws, bound, requests, overwritten, moved, torn, excused, orphans>>
  BY <1>0, TypeParts, EndMoves DEF LoadFails, Fault, history
<1>3. TypeOK'
  BY <1>0, <1>1, TypePartsNext, IdleFields, ProvisionAssumption DEF Typed, Becomes
<1>4. RowsTogether'
  BY <1>0, <1>1, Names DEF RowsTogether
<1>5. IdsAreFound'
  BY <1>0, <1>1, Names, Fields, IdleFields DEF IdsAreFound, Becomes, Typed
<1>6. InRange'
  BY <1>0, <1>1, IdleFields DEF InRange, Becomes, Removing
<1>7. OnRecord'
  BY <1>0, <1>1 DEF OnRecord, NameKept
<1>8. ProgressIsReal'
  <2>1. Progress(p)'
    BY <1>1, IdleFields, NoProgress DEF Becomes, Stepping
  <2>2. Undisturbed
    BY <1>0, <1>1 DEF Undisturbed, NameKept, InRange, Removing
  <2> QED
    BY <1>0, <1>1, <2>1, <2>2, OthersProgress DEF ProgressIsReal, Becomes
<1>9. RetryCompletes'
  BY <1>0, <1>1, IdleFields DEF Away, RetryCompletes, Becomes
<1>10. RemovalIsReal'
  BY <1>0, <1>1, Names, IdleFields DEF Reached, RemovalIsReal, Accounted, Gone, AllGone, Removing,
     Becomes
<1>11. Settled'
  BY <1>0, <1>1, IdleFields, Names DEF Settled, Becomes, Kept, Stays
<1> QED
  BY <1>3, <1>4, <1>5, <1>6, <1>7, <1>8, <1>9, <1>10, <1>11 DEF IInv

(* A step that is skipped was listed as done, so it is behind the call. *)
LEMMA SkipKeeps ==
    ASSUME IInv, NEW p \in Procs, Skip(p)
    PROVE  IInv'
<1>0. /\ Typed /\ proc \in [Procs -> Records] /\ RowsTogether /\ IdsAreFound /\ InRange
      /\ OnRecord /\ ProgressIsReal /\ RetryCompletes /\ RemovalIsReal
      /\ Settled /\ proc[p] \in Records
  BY TypeParts DEF IInv
<1>1. /\ proc[p].pc = "step" /\ proc[p].i <= 6 /\ Step(p) \in proc[p].done
      /\ Becomes(p, proc'[p]) /\ proc'[p].pc = "step" /\ Kept(proc[p], proc'[p])
      /\ proc'[p].i = proc[p].i + 1 /\ proc'[p].met = proc[p].met
      /\ bound \subseteq bound' /\ bound' \subseteq bound \cup Configs
      /\ \A c \in Configs : Step(p) = "create_sns_topic" /\ <<c, "topic">> \in proc[p].known => c \in bound'
      /\ UNCHANGED <<adapter, rows, gen, aws, requests, faults, overwritten, moved, torn, excused, orphans>>
  <2>1. /\ bound \subseteq bound' /\ bound' \subseteq bound \cup Configs
        /\ \A c \in Configs : Step(p) = "create_sns_topic" /\ <<c, "topic">> \in proc[p].known => c \in bound'
    BY DEF Skip
  <2> QED
    BY <1>0, <2>1, AdvanceMoves, Names DEF Skip, AtStep, history
<1>2. /\ proc[p].i = 1 => Step(p) = "create_configuration_set"
      /\ proc[p].i = 2 => Step(p) = "create_sns_topic"
      /\ proc[p].i = 3 => Step(p) = "create_event_destination"
      /\ proc[p].i = 4 => Step(p) = "subscribe_webhook"
      /\ proc[p].i = 5 => Step(p) = "save_configuration"
      /\ proc[p].i = 6 => Step(p) = "verify_subscription"
      /\ proc[p].i \in 1..6
  BY <1>0, <1>1, Names, Fields DEF Step
<1>3. TypeOK'
  BY <1>0, <1>1, TypePartsNext DEF Typed, Becomes
<1>4. RowsTogether'
  BY <1>0, <1>1, <1>2, Names DEF RowsTogether
<1>5. IdsAreFound'
  BY <1>0, <1>1 DEF IdsAreFound, Kept, Stays, Becomes
<1>6. InRange'
  BY <1>0, <1>1 DEF InRange, Becomes, DeletePcs
<1>7. OnRecord'
  BY <1>0, <1>1 DEF OnRecord, NameKept
<1>8. ProgressIsReal'
  <2>1. Undisturbed
    BY <1>0, <1>1 DEF Undisturbed, NameKept
  <2>2. Progress(p) /\ proc[p].i \in 1..6 /\ \A j \in 1..5 : Behind(p, j)' => Behind(p, j) \/ proc[p].i = j
    BY <1>0, <1>1, <1>2 DEF ProgressIsReal, Behind, Stepping
  <2>5. Step(p) \in Creates => Has(p, ResourceOf[Step(p)])
    BY <1>1, <2>2 DEF Progress, Stepping
  <2>3. /\ Behind(p, 1)' => Has(p, "set")
        /\ Behind(p, 2)' => Has(p, "topic")
        /\ Behind(p, 3)' => Has(p, "dest")
        /\ Behind(p, 4)' => Has(p, "sub")
        /\ Behind(p, 5)' => NameKept'
    BY <1>1, <1>2, <2>1, <2>2, <2>5, Resource DEF Progress, Creates, Undisturbed, Stepping
  <2>4. Behind(p, 2)' => \E c \in bound' : <<c, "topic">> \in proc[p].known
    <3>1. CASE Behind(p, 2)
      BY <1>1, <2>2, <3>1 DEF Progress
    <3>2. CASE proc[p].i = 2
      BY <1>1, <1>2, <2>5, <3>2, Resource DEF Has, Creates
    <3> QED
      BY <2>2, <3>1, <3>2
  <2>9. Progress(p)'
    BY <1>0, <1>1, <2>1, <2>2, <2>3, <2>4, OwnProgress DEF ProgressIsReal, Stepping
  <2> QED
    BY <1>0, <1>1, <2>1, <2>9, OthersProgress DEF ProgressIsReal, Becomes
<1>9. RetryCompletes'
  BY <1>0, <1>1 DEF Away, RetryCompletes, Becomes
<1>10. RemovalIsReal'
  BY <1>0, <1>1, <1>2 DEF Reached, RemovalIsReal, Accounted, Gone, AllGone, Removing, Becomes
<1>11. Settled'
  BY <1>0, <1>1, <1>2, IdleFields, Names DEF Settled, Becomes, Kept, Stays
<1> QED
  BY <1>3, <1>4, <1>5, <1>6, <1>7, <1>8, <1>9, <1>10, <1>11 DEF IInv

(* A creation reports success only with its resource there; an error may hide one. *)
LEMMA CreateKeeps ==
    ASSUME IInv, NEW p \in Procs, Create(p)
    PROVE  IInv'
<1>0. /\ Typed /\ proc \in [Procs -> Records] /\ RowsTogether /\ IdsAreFound /\ InRange
      /\ OnRecord /\ ProgressIsReal /\ RetryCompletes /\ RemovalIsReal
      /\ Settled /\ proc[p] \in Records
  BY TypeParts DEF IInv
<1> DEFINE x == <<proc[p].cfg, ResourceOf[Step(p)]>>
<1>1. /\ proc[p].pc = "step" /\ proc[p].i <= 6 /\ Step(p) \in Creates /\ x \in Configs \X Resources
      /\ Becomes(p, proc'[p]) /\ Stays(proc[p], proc'[p]) /\ proc'[p].i = proc[p].i
      /\ proc'[p].err = proc[p].err
      /\ \/ /\ aws' = aws \cup {x} /\ proc'[p].known = proc[p].known \cup {x}
            /\ proc'[p].pc = "save" /\ proc'[p].met = proc[p].met /\ UNCHANGED faults
         \/ /\ ~Creatable(p, ResourceOf[Step(p)]) /\ UNCHANGED <<aws, faults>>
            /\ proc'[p].known = proc[p].known
            /\ proc'[p].pc = "fail" /\ proc'[p].met = proc[p].met
         \/ /\ faults < MaxFaults /\ faults' = faults + 1
            /\ proc'[p].known = proc[p].known
            /\ proc'[p].pc = "fail" /\ proc'[p].met = TRUE
            /\ aws' = aws \/ aws' = aws \cup {x}
      /\ bound \subseteq bound' /\ bound' \subseteq bound \cup {proc[p].cfg}
      /\ (Step(p) = "create_sns_topic" /\ proc'[p].pc = "save" => proc[p].cfg \in bound')
      /\ excused' = (excused \/ Overlap \/ ~adapter.live)
      /\ UNCHANGED <<adapter, rows, gen, requests, overwritten, moved, torn, orphans>>
  <2> DEFINE r == ResourceOf[Step(p)]
  <2>1. /\ bound \subseteq bound' /\ bound' \subseteq bound \cup {proc[p].cfg}
        /\ (Step(p) = "create_sns_topic" /\ proc'[p].pc = "save" => proc[p].cfg \in bound')
    BY DEF Create, registerSNSBinding
  <2>2. "save" \in Pcs /\ "fail" \in Pcs
    BY DEF Pcs, ProvisionPcs
  <2>3. AtStep(p) /\ Step(p) \in Creates /\ excused' = (excused \/ Overlap \/ ~adapter.live)
        /\ UNCHANGED <<adapter, rows, gen, requests, overwritten, moved, torn, orphans>>
    BY DEF Create
  <2>7. r \in Resources /\ x \in Configs \X Resources
    BY <1>0, <2>3, Fields, Names, Resource DEF Creates
  <2>8. proc[p].pc = "step" /\ proc[p].i <= 6
    BY <2>3, Names DEF AtStep
  <2>4. CASE aws' = aws \cup {x} /\ Created(p, r) /\ UNCHANGED faults
    BY <1>0, <2>1, <2>3, <2>4, <2>7, <2>8, CreatedMoves
  <2>5. CASE ~Creatable(p, r) /\ Go(p, "fail") /\ UNCHANGED <<aws, faults>>
    BY <1>0, <2>1, <2>2, <2>3, <2>5, <2>7, <2>8, GoMoves DEF Kept
  <2>6. CASE Fault /\ Meets(p, "fail") /\ (aws' = aws \/ aws' = aws \cup {x})
    BY <1>0, <2>1, <2>2, <2>3, <2>6, <2>7, <2>8, MeetsMoves DEF Fault, Kept
  <2> QED
    BY <2>4, <2>5, <2>6 DEF Create
<1> HIDE DEF x
<1>2. \/ proc[p].i = 1 /\ Step(p) = "create_configuration_set" /\ ResourceOf[Step(p)] = "set"
      \/ proc[p].i = 2 /\ Step(p) = "create_sns_topic" /\ ResourceOf[Step(p)] = "topic"
      \/ proc[p].i = 3 /\ Step(p) = "create_event_destination" /\ ResourceOf[Step(p)] = "dest"
      \/ proc[p].i = 4 /\ Step(p) = "subscribe_webhook" /\ ResourceOf[Step(p)] = "sub"
  BY <1>0, <1>1, Names, Resource, Fields DEF Step, Creates
<1>3. TypeOK'
  <2>1. excused' \in BOOLEAN
    BY <1>1, Zenon
  <2>2. aws' \subseteq Configs \X Resources /\ bound' \subseteq Configs
    BY <1>0, <1>1, Fields DEF Typed
  <2> QED
    BY <1>0, <1>1, <2>1, <2>2, TypePartsNext, ProvisionAssumption DEF Typed, Becomes
<1>4. RowsTogether'
  BY <1>0, <1>1, <1>2, Names DEF RowsTogether
<1>5. IdsAreFound'
  BY <1>0, <1>1 DEF IdsAreFound, Kept, Stays, Becomes
<1>6. InRange'
  BY <1>0, <1>1, <1>2 DEF InRange, Becomes, Removing
<1>7. OnRecord'
  BY <1>0, <1>1 DEF OnRecord, NameKept
<1>8. ProgressIsReal'
  <2>1. Undisturbed
    BY <1>0, <1>1 DEF Undisturbed, NameKept
  <2>2. /\ Progress(p) /\ proc[p].pc \in Stepping
        /\ \A j \in 1..5 : Behind(p, j)' => Behind(p, j) \/ (proc'[p].pc = "save" /\ proc[p].i = j)
    BY <1>0, <1>1 DEF ProgressIsReal, Behind, Stepping
  <2>3. /\ proc[p].known \subseteq proc'[p].known /\ proc'[p].cfg = proc[p].cfg
        /\ proc'[p].done = proc[p].done /\ Step(p)' = Step(p)
        /\ ~torn' => proc'[p].known \subseteq aws'
        /\ proc'[p].pc = "save" => x \in proc'[p].known
    BY <1>1, <2>2 DEF Progress, Stays, Step
  <2>4. \A y : Has(p, y) => Has(p, y)'
    BY <2>3 DEF Has
  <2>5. ASSUME proc'[p].pc = "save", NEW y, y = ResourceOf[Step(p)] PROVE Has(p, y)'
    BY <1>1, <2>3, <2>5 DEF Has, x
  <2>6. Behind(p, 2)' => \E c \in bound' : <<c, "topic">> \in proc'[p].known
    <3>1. CASE Behind(p, 2)
      BY <1>1, <2>2, <2>3, <3>1 DEF Progress
    <3>2. CASE proc'[p].pc = "save" /\ proc[p].i = 2
      BY <1>1, <1>2, <2>3, <3>2 DEF x
    <3> QED
      BY <2>2, <3>1, <3>2
  <2>7. /\ Behind(p, 1)' => Has(p, "set")'
        /\ Behind(p, 2)' => Has(p, "topic")'
        /\ Behind(p, 3)' => Has(p, "dest")'
        /\ Behind(p, 4)' => Has(p, "sub")'
    <3>1. /\ Behind(p, 1) => Has(p, "set")
          /\ Behind(p, 2) => Has(p, "topic")
          /\ Behind(p, 3) => Has(p, "dest")
          /\ Behind(p, 4) => Has(p, "sub")
      BY <2>2 DEF Progress
    <3>2. /\ proc[p].i = 1 => ResourceOf[Step(p)] = "set"
          /\ proc[p].i = 2 => ResourceOf[Step(p)] = "topic"
          /\ proc[p].i = 3 => ResourceOf[Step(p)] = "dest"
          /\ proc[p].i = 4 => ResourceOf[Step(p)] = "sub"
          /\ proc[p].i \in 1..4
      BY <1>2
    <3>3. Behind(p, 1)' => Has(p, "set")'
      BY <2>2, <2>4, <2>5, <3>1, <3>2
    <3>4. Behind(p, 2)' => Has(p, "topic")'
      BY <2>2, <2>4, <2>5, <3>1, <3>2
    <3>5. Behind(p, 3)' => Has(p, "dest")'
      BY <2>2, <2>4, <2>5, <3>1, <3>2
    <3>6. Behind(p, 4)' => Has(p, "sub")'
      BY <2>2, <2>4, <2>5, <3>1, <3>2
    <3> QED
      BY <3>3, <3>4, <3>5, <3>6
  <2>8. /\ Behind(p, 5)' => NameKept'
        /\ "save_configuration" \in proc'[p].done => NameKept'
    BY <1>2, <2>1, <2>2, <2>3 DEF Progress, Undisturbed
  <2>10. proc'[p].pc = "save" => <<proc'[p].cfg, ResourceOf[Step(p)']>> \in proc'[p].known
    BY <2>3 DEF x
  <2>11. \A y \in proc'[p].done \cap Creates : Has(p, ResourceOf[y])'
    BY <2>2, <2>3, <2>4 DEF Progress
  <2>9. Progress(p)'
    BY <2>3, <2>6, <2>7, <2>8, <2>10, <2>11 DEF Progress
  <2> QED
    BY <1>0, <1>1, <2>1, <2>9, OthersProgress DEF ProgressIsReal, Becomes
<1>9. RetryCompletes'
  <2>1. Progress(p) /\ \A j \in 1..3 : proc[p].i > j => Behind(p, j)
    BY <1>0, <1>1 DEF ProgressIsReal, Behind, Stepping
  <2>2. ~torn /\ ~Away(p) => Creatable(p, ResourceOf[Step(p)])
    <3> SUFFICES ASSUME ~torn, ~Away(p) PROVE Creatable(p, ResourceOf[Step(p)])
      OBVIOUS
    <3>1. proc[p].known \subseteq aws /\ \A c, y : <<c, y>> \in proc[p].known => c = proc[p].cfg
      BY <1>1, <2>1 DEF Progress, Away, Stepping
    <3>4. (proc[p].i > 1 => Behind(p, 1)) /\ (proc[p].i > 2 => Behind(p, 2))
      BY <2>1
    <3>5. (Behind(p, 1) => Has(p, "set")) /\ (Behind(p, 2) => Has(p, "topic"))
      BY <2>1 DEF Progress
    <3>2. proc[p].i > 1 => <<proc[p].cfg, "set">> \in proc[p].known
      BY <3>1, <3>4, <3>5 DEF Has
    <3>3. proc[p].i > 2 => <<proc[p].cfg, "topic">> \in proc[p].known
      BY <3>1, <3>4, <3>5 DEF Has
    <3> QED
      BY <1>2, <3>1, <3>2, <3>3 DEF Creatable
  <2>3. proc'[p].pc = "fail" => (Away(p)' <=> Away(p))
    BY <1>1 DEF Away, Stays
  <2> QED
    BY <1>0, <1>1, <2>2, <2>3 DEF RetryCompletes, Becomes, Away
<1>10. RemovalIsReal'
  <2> SUFFICES ASSUME ~excused' PROVE RemovalIsReal'
    BY DEF RemovalIsReal
  <2>1. ~excused /\ adapter.live /\ \A q \in Procs : proc[q].pc \notin DeletePcs
    BY <1>1, Zenon DEF Overlap, Deleting
  <2>2. adapter'.live /\ \A q \in Procs : proc'[q].pc \notin DeletePcs
    BY <1>1, <2>1 DEF Becomes, DeletePcs
  <2> QED
    BY <2>2 DEF RemovalIsReal, Removing, DeletePcs
<1>11. Settled'
  BY <1>0, <1>1, <1>2, IdleFields, Names DEF Settled, Becomes, Kept, Stays
<1> QED
  BY <1>3, <1>4, <1>5, <1>6, <1>7, <1>8, <1>9, <1>10, <1>11 DEF IInv

(* The save writes the row read at the start, with the name. *)
LEMMA saveConfigSetNameKeeps ==
    ASSUME IInv, NEW p \in Procs, saveConfigSetName(p)
    PROVE  IInv'
<1>0. /\ Typed /\ proc \in [Procs -> Records] /\ RowsTogether /\ IdsAreFound /\ InRange
      /\ OnRecord /\ ProgressIsReal /\ RetryCompletes /\ RemovalIsReal
      /\ Settled /\ proc[p] \in Records
  BY TypeParts DEF IInv
<1>1. /\ proc[p].pc = "step" /\ proc[p].i <= 6 /\ Step(p) = "save_configuration"
      /\ Becomes(p, proc'[p]) /\ Kept(proc[p], proc'[p]) /\ proc'[p].i = proc[p].i
      /\ proc'[p].err = proc[p].err
      /\ adapter' \in [live : BOOLEAN, cfg : Configs, set : BOOLEAN] /\ adapter'.live = adapter.live
      /\ adapter'.cfg \in {adapter.cfg, proc[p].cfg}
      /\ overwritten' \in BOOLEAN /\ (NameKept => NameKept')
      /\ (UNCHANGED faults \/ (faults < MaxFaults /\ faults' = faults + 1))
      /\ \/ proc'[p].pc = "save" /\ proc'[p].met = proc[p].met /\ NameKept'
         \/ proc'[p].pc = "fail" /\ (proc'[p].met \/ ~adapter.live)
      /\ UNCHANGED <<rows, gen, aws, bound, requests, moved, torn, excused, orphans>>
  <2> DEFINE saved == [adapter EXCEPT !.cfg = proc[p].cfg, !.set = TRUE]
             Rows == [live : BOOLEAN, cfg : Configs, set : BOOLEAN]
  <2>1. saved \in Rows /\ saved.live = adapter.live /\ saved.set /\ saved.cfg = proc[p].cfg
    BY <1>0, Fields DEF Typed
  <2>2. AtStep(p) /\ Step(p) = "save_configuration"
        /\ UNCHANGED <<rows, gen, aws, bound, requests, moved, torn, excused, orphans>>
    BY DEF saveConfigSetName
  <2>3. "save" \in Pcs /\ "fail" \in Pcs
    BY DEF Pcs, ProvisionPcs
  <2>4. CASE adapter' = saved /\ overwritten' = FALSE /\ Go(p, "save") /\ UNCHANGED faults
    BY <1>0, <2>1, <2>2, <2>3, <2>4, GoMoves, Names DEF AtStep, NameKept
  <2>5. CASE ~adapter.live /\ Go(p, "fail") /\ UNCHANGED <<adapter, overwritten, faults>>
    BY <1>0, <2>2, <2>3, <2>5, GoMoves, Names DEF AtStep, NameKept, Typed
  <2>6. CASE Fault /\ Meets(p, "fail") /\ UNCHANGED overwritten
             /\ (adapter' = adapter \/ adapter' = saved)
    BY <1>0, <2>1, <2>2, <2>3, <2>6, MeetsMoves, Names DEF AtStep, NameKept, Typed, Fault
  <2> QED
    BY <2>4, <2>5, <2>6 DEF saveConfigSetName
<1>3. TypeOK'
  BY <1>0, <1>1, TypePartsNext, IdleFields, ProvisionAssumption DEF Typed, Becomes
<1>4. RowsTogether'
  BY <1>0, <1>1, Names DEF RowsTogether
<1>5. IdsAreFound'
  BY <1>0, <1>1 DEF IdsAreFound, Kept, Stays, Becomes
<1>6. InRange'
  BY <1>0, <1>1 DEF InRange, Becomes, Removing, DeletePcs
<1>7. OnRecord'
  BY <1>0, <1>1 DEF OnRecord
<1>8. ProgressIsReal'
  <2>1. Undisturbed
    BY <1>0, <1>1 DEF Undisturbed
  <2>5. proc[p].i \in {5, 6} /\ Step(p)' \notin Creates
    BY <1>0, <1>1, Names, Fields DEF Step, Creates
  <2>2. Progress(p) /\ \A j \in 1..4 : Behind(p, j)' => Behind(p, j)
    BY <1>0, <1>1, <2>5 DEF ProgressIsReal, Behind, Stepping
  <2>3. /\ Behind(p, 1)' => Has(p, "set")
        /\ Behind(p, 2)' => Has(p, "topic") /\ \E c \in bound' : <<c, "topic">> \in proc[p].known
        /\ Behind(p, 3)' => Has(p, "dest")
        /\ Behind(p, 4)' => Has(p, "sub")
    BY <1>1, <2>2 DEF Progress
  <2>4. Behind(p, 5)' => NameKept'
    BY <1>0, <1>1, Names, Fields DEF Step, Behind
  <2>9. Progress(p)'
    BY <1>0, <1>1, <2>1, <2>2, <2>3, <2>4, <2>5, OwnProgress DEF ProgressIsReal, Stepping
  <2> QED
    BY <1>0, <1>1, <2>1, <2>9, OthersProgress DEF ProgressIsReal, Becomes
<1>9. RetryCompletes'
  BY <1>0, <1>1 DEF Away, RetryCompletes, Becomes
<1>10. RemovalIsReal'
  BY <1>0, <1>1 DEF Reached, RemovalIsReal, Accounted, Gone, AllGone, Removing, Becomes
<1>11. Settled'
  BY <1>0, <1>1, IdleFields, Names DEF Settled, Becomes, Kept, Stays
<1> QED
  BY <1>3, <1>4, <1>5, <1>6, <1>7, <1>8, <1>9, <1>10, <1>11 DEF IInv

(* The verification touches nothing the invariant speaks of but the request. *)
LEMMA verifySubscriptionKeeps ==
    ASSUME IInv, NEW p \in Procs, verifySubscription(p)
    PROVE  IInv'
<1>0. /\ Typed /\ proc \in [Procs -> Records] /\ RowsTogether /\ IdsAreFound /\ InRange
      /\ OnRecord /\ ProgressIsReal /\ RetryCompletes /\ RemovalIsReal
      /\ Settled /\ proc[p] \in Records
  BY TypeParts DEF IInv
<1>1. /\ proc[p].pc = "step" /\ proc[p].i <= 6 /\ Step(p) = "verify_subscription"
      /\ Becomes(p, proc'[p]) /\ Kept(proc[p], proc'[p]) /\ proc'[p].i = proc[p].i
      /\ proc'[p].err = proc[p].err
      /\ \/ proc'[p].pc = "save" /\ proc'[p].met = proc[p].met
         \/ /\ proc'[p].pc = "fail"
            /\ \/ proc'[p].met
               \/ <<proc[p].cfg, "topic">> \notin proc[p].known
               \/ <<proc[p].cfg, "sub">> \notin aws
      /\ UNCHANGED faults \/ (faults < MaxFaults /\ faults' = faults + 1)
      /\ UNCHANGED <<adapter, rows, gen, aws, bound, requests, overwritten, moved, torn, excused, orphans>>
  BY <1>0, TypeParts, GoMoves, MeetsMoves, Names
     DEF verifySubscription, AtStep, Fault, Pcs, ProvisionPcs, history
<1>3. TypeOK'
  BY <1>0, <1>1, TypePartsNext, IdleFields, ProvisionAssumption DEF Typed, Becomes
<1>4. RowsTogether'
  BY <1>0, <1>1, Names DEF RowsTogether
<1>5. IdsAreFound'
  BY <1>0, <1>1 DEF IdsAreFound, Kept, Stays, Becomes
<1>6. InRange'
  BY <1>0, <1>1 DEF InRange, Becomes, Removing, DeletePcs
<1>7. OnRecord'
  BY <1>0, <1>1 DEF OnRecord, NameKept
<1>8. ProgressIsReal'
  <2>1. Undisturbed
    BY <1>0, <1>1 DEF Undisturbed, NameKept
  <2>5. proc[p].i \in {5, 6} /\ Step(p)' \notin Creates
    BY <1>0, <1>1, Names, Fields DEF Step, Creates
  <2>2. Progress(p) /\ \A j \in 1..4 : Behind(p, j)' => Behind(p, j)
    BY <1>0, <1>1, <2>5 DEF ProgressIsReal, Behind, Stepping
  <2>3. /\ Behind(p, 1)' => Has(p, "set")
        /\ Behind(p, 2)' => Has(p, "topic") /\ \E c \in bound' : <<c, "topic">> \in proc[p].known
        /\ Behind(p, 3)' => Has(p, "dest")
        /\ Behind(p, 4)' => Has(p, "sub")
    BY <1>1, <2>2 DEF Progress
  <2>4. Behind(p, 5)' => NameKept'
    <3>1. Behind(p, 5)
      BY <1>0, <1>1, Names, Fields DEF Step, Behind, Stepping
    <3> QED
      BY <2>1, <2>2, <3>1 DEF Progress, Undisturbed
  <2>9. Progress(p)'
    BY <1>0, <1>1, <2>1, <2>2, <2>3, <2>4, <2>5, OwnProgress DEF ProgressIsReal, Stepping
  <2> QED
    BY <1>0, <1>1, <2>1, <2>9, OthersProgress DEF ProgressIsReal, Becomes
<1>9. RetryCompletes'
  <2>1. Progress(p) /\ Behind(p, 2) /\ Behind(p, 4) /\ proc[p].pc \in Stepping
    BY <1>0, <1>1, Names, Fields DEF ProgressIsReal, Step, Behind, Stepping
  <2>2. ~torn /\ ~Away(p) => <<proc[p].cfg, "topic">> \in proc[p].known /\ <<proc[p].cfg, "sub">> \in aws
    BY <2>1 DEF Progress, Away, Has
  <2>3. Away(p)' <=> Away(p)
    BY <1>1 DEF Away, Kept, Stays
  <2> QED
    BY <1>0, <1>1, <2>2, <2>3 DEF RetryCompletes, Becomes, Away
<1>10. RemovalIsReal'
  BY <1>0, <1>1 DEF Reached, RemovalIsReal, Accounted, Gone, AllGone, Removing, Becomes
<1>11. Settled'
  BY <1>0, <1>1, IdleFields, Names DEF Settled, Becomes, Kept, Stays
<1> QED
  BY <1>3, <1>4, <1>5, <1>6, <1>7, <1>8, <1>9, <1>10, <1>11 DEF IInv

(* A row is completed only behind its creation. *)
LEMMA persistStepSuccessKeeps ==
    ASSUME IInv, NEW p \in Procs, persistStepSuccess(p)
    PROVE  IInv'
<1>0. /\ Typed /\ proc \in [Procs -> Records] /\ RowsTogether /\ IdsAreFound /\ InRange
      /\ OnRecord /\ ProgressIsReal /\ RetryCompletes /\ RemovalIsReal
      /\ Settled /\ proc[p] \in Records
  BY TypeParts DEF IInv
<1>1. /\ proc[p].pc = "save" /\ Becomes(p, proc'[p]) /\ proc'[p].pc = "step" /\ Kept(proc[p], proc'[p])
      /\ proc'[p].i = proc[p].i + 1 /\ proc'[p].met = proc[p].met
      /\ \/ /\ MarkCompleted(p, Step(p), Step(p) \in {"create_sns_topic", "subscribe_webhook"})
            /\ UNCHANGED <<faults, excused>>
         \/ excused' = TRUE /\ faults < MaxFaults /\ faults' = faults + 1 /\ UNCHANGED rows
      /\ UNCHANGED <<adapter, gen, aws, bound, requests, overwritten, moved, torn, orphans>>
  BY <1>0, TypeParts, AdvanceMoves DEF persistStepSuccess, Lost, Fault, history, InRange
<1>2. /\ Step(p) \in PNames /\ rows' \in RowTable
      /\ \A s \in StepNames \ {Step(p)} : rows'[s] = rows[s]
      /\ rows'[Step(p)] = rows[Step(p)] \/ (rows'[Step(p)].status = "completed" /\ Found(p, Step(p)) /\ rows'[Step(p)].at = proc[p].cfg)
  <2>1. Step(p) \in PNames
    BY <1>0, <1>1, Names, Fields DEF Step, InRange
  <2>2. CASE UNCHANGED rows
    BY <1>0, <2>1, <2>2 DEF Typed
  <2>3. ASSUME NEW a \in BOOLEAN, MarkCompleted(p, Step(p), a)
        PROVE  /\ rows' \in RowTable
               /\ \A s \in StepNames \ {Step(p)} : rows'[s] = rows[s]
               /\ IF Found(p, Step(p)) THEN rows'[Step(p)].status = "completed" /\ rows'[Step(p)].at = proc[p].cfg
                  ELSE rows'[Step(p)] = rows[Step(p)]
    BY <1>0, <2>1, <2>3, CompletedRows, Names, Fields DEF Typed
  <2>4. (Step(p) \in {"create_sns_topic", "subscribe_webhook"}) \in BOOLEAN
    OBVIOUS
  <2> QED
    BY <1>1, <2>1, <2>2, <2>3, <2>4
<1>3. TypeOK'
  <2>1. excused' \in BOOLEAN /\ torn' \in BOOLEAN
    BY <1>0, <1>1, Zenon DEF Typed
  <2> QED
    BY <1>0, <1>1, <1>2, <2>1, TypePartsNext, ProvisionAssumption DEF Typed, Becomes
<1>4. RowsTogether'
  BY <1>0, <1>1, <1>2, Names DEF RowsTogether, IdsAreFound, Found
<1>5. IdsAreFound'
  BY <1>0, <1>1, <1>2, Names, Fields DEF IdsAreFound, Kept, Stays, Becomes
<1>6. InRange'
  BY <1>0, <1>1 DEF InRange, Becomes, Removing, DeletePcs
<1>7. OnRecord'
  <2>1. Progress(p) /\ proc[p].pc \in Stepping /\ (NameKept' <=> NameKept)
    BY <1>0, <1>1 DEF ProgressIsReal, Stepping, NameKept
  <2>2. ~torn /\ Step(p) \in Creates => <<proc[p].cfg, ResourceOf[Step(p)]>> \in aws
    BY <1>1, <2>1 DEF Progress
  <2>3. Step(p) = "save_configuration" => NameKept
    <3>1. Step(p) = "save_configuration" => Behind(p, 5)
      BY <1>0, <1>1, <2>1, Names, Fields DEF Step, InRange, Behind
    <3> QED
      BY <2>1, <3>1 DEF Progress
  <2> QED
    BY <1>0, <1>1, <1>2, <2>1, <2>2, <2>3, Names DEF OnRecord, Creates
<1>8. ProgressIsReal'
  <2>1. Undisturbed
    BY <1>0, <1>1 DEF Undisturbed, NameKept
  <2>2. Progress(p) /\ \A j \in 1..5 : Behind(p, j)' => Behind(p, j)
    BY <1>0, <1>1, Fields DEF ProgressIsReal, Behind, Stepping
  <2>3. /\ Behind(p, 1)' => Has(p, "set")
        /\ Behind(p, 2)' => Has(p, "topic") /\ \E c \in bound' : <<c, "topic">> \in proc[p].known
        /\ Behind(p, 3)' => Has(p, "dest")
        /\ Behind(p, 4)' => Has(p, "sub")
    BY <1>1, <2>2 DEF Progress
  <2>4. Behind(p, 5)' => NameKept'
    BY <2>1, <2>2 DEF Progress, Undisturbed
  <2>9. Progress(p)'
    BY <1>0, <1>1, <2>1, <2>2, <2>3, <2>4, OwnProgress DEF ProgressIsReal, Stepping
  <2> QED
    BY <1>0, <1>1, <2>1, <2>9, OthersProgress DEF ProgressIsReal, Becomes
<1>9. RetryCompletes'
  BY <1>0, <1>1 DEF Away, RetryCompletes, Becomes
<1>10. RemovalIsReal'
  BY <1>0, <1>1, <1>2, Names, IdleFields DEF Reached, RemovalIsReal, Accounted, Gone, AllGone,
     Removing, Becomes
<1>11. Settled'
  BY <1>0, <1>1, <1>2, IdleFields, Names DEF Settled, Becomes, Kept, Stays
<1> QED
  BY <1>3, <1>4, <1>5, <1>6, <1>7, <1>8, <1>9, <1>10, <1>11 DEF IInv

(* A failed row claims nothing. *)
LEMMA persistStepFailureKeeps ==
    ASSUME IInv, NEW p \in Procs, persistStepFailure(p)
    PROVE  IInv'
<1>0. /\ Typed /\ proc \in [Procs -> Records] /\ RowsTogether /\ IdsAreFound /\ InRange
      /\ OnRecord /\ ProgressIsReal /\ RetryCompletes /\ RemovalIsReal
      /\ Settled /\ proc[p] \in Records
  BY TypeParts DEF IInv
<1>1. /\ proc[p].pc = "fail"
      /\ \/ Becomes(p, Idle)
         \/ /\ Step(p) = "verify_subscription" /\ Becomes(p, proc'[p]) /\ Kept(proc[p], proc'[p])
            /\ proc'[p].pc = "step" /\ proc'[p].i = proc[p].i + 1 /\ proc'[p].met = proc[p].met
      /\ \/ MarkFailed(p, Step(p)) /\ UNCHANGED <<faults, excused>>
         \/ excused' = TRUE /\ faults < MaxFaults /\ faults' = faults + 1 /\ UNCHANGED rows
      /\ UNCHANGED <<adapter, gen, aws, bound, requests, overwritten, moved, torn, orphans>>
  BY <1>0, TypeParts, AdvanceMoves, EndMoves DEF persistStepFailure, Lost, Fault, history, InRange
<1>2. /\ Step(p) \in PNames /\ rows' \in RowTable
      /\ \A s \in StepNames \ {Step(p)} : rows'[s] = rows[s]
      /\ rows'[Step(p)] = rows[Step(p)] \/ (rows'[Step(p)].status = "failed" /\ Found(p, Step(p)))
      /\ rows'[Step(p)].at = rows[Step(p)].at
  BY <1>0, <1>1, FailedRows, Names, Fields DEF Typed, Step, InRange
<1>3. TypeOK'
  <2>1. excused' \in BOOLEAN /\ torn' \in BOOLEAN
    BY <1>0, <1>1, Zenon DEF Typed
  <2> QED
    BY <1>0, <1>1, <1>2, <2>1, TypePartsNext, ProvisionAssumption DEF Typed, Becomes
<1>4. RowsTogether'
  BY <1>0, <1>1, <1>2, Names DEF RowsTogether, IdsAreFound, Found
<1>5. IdsAreFound'
  BY <1>0, <1>1, <1>2, Names, Fields, IdleFields DEF IdsAreFound, Kept, Stays, Becomes, Typed
<1>6. InRange'
  BY <1>0, <1>1, <1>2, IdleFields DEF InRange, Becomes, Removing, DeletePcs
<1>7. OnRecord'
  BY <1>0, <1>1, <1>2, Names DEF OnRecord, Creates, NameKept
<1>8. ProgressIsReal'
  <2>1. Undisturbed
    BY <1>0, <1>1 DEF Undisturbed, NameKept
  <2>7. CASE Becomes(p, Idle)
    <3>1. Progress(p)'
      BY <2>7, IdleFields, NoProgress DEF Becomes, Stepping
    <3> QED
      BY <1>0, <2>1, <2>7, <3>1, OthersProgress DEF ProgressIsReal, Becomes
  <2>8. CASE Step(p) = "verify_subscription" /\ Becomes(p, proc'[p]) /\ Kept(proc[p], proc'[p])
             /\ proc'[p].pc = "step" /\ proc'[p].i = proc[p].i + 1
    <3>5. proc[p].i = 6
      BY <1>0, <1>1, <2>8, Names, Fields DEF Step, InRange
    <3>2. Progress(p) /\ \A j \in 1..5 : Behind(p, j)' => Behind(p, j)
      BY <1>0, <1>1, <2>8, <3>5 DEF ProgressIsReal, Behind, Stepping
    <3>3. /\ Behind(p, 1)' => Has(p, "set")
          /\ Behind(p, 2)' => Has(p, "topic") /\ \E c \in bound' : <<c, "topic">> \in proc[p].known
          /\ Behind(p, 3)' => Has(p, "dest")
          /\ Behind(p, 4)' => Has(p, "sub")
      BY <1>1, <3>2 DEF Progress
    <3>4. Behind(p, 5)' => NameKept'
      BY <2>1, <3>2 DEF Progress, Undisturbed
    <3>9. Progress(p)'
      BY <1>1, <2>1, <2>8, <3>2, <3>3, <3>4, OwnProgress DEF Stepping
    <3> QED
      BY <1>0, <2>1, <2>8, <3>9, OthersProgress DEF ProgressIsReal, Becomes
  <2> QED
    BY <1>1, <2>7, <2>8
<1>9. RetryCompletes'
  BY <1>0, <1>1, IdleFields DEF Away, RetryCompletes, Becomes
<1>10. RemovalIsReal'
  BY <1>0, <1>1, <1>2, Names, IdleFields DEF Reached, RemovalIsReal, Accounted, Gone, AllGone,
     Removing, Becomes
<1>11. Settled'
  BY <1>0, <1>1, <1>2, IdleFields, Names DEF Settled, Becomes, Kept, Stays
<1> QED
  BY <1>3, <1>4, <1>5, <1>6, <1>7, <1>8, <1>9, <1>10, <1>11 DEF IInv

(* The answer ends the request. *)
LEMMA RespondKeeps ==
    ASSUME IInv, NEW p \in Procs, Respond(p)
    PROVE  IInv'
<1>0. /\ Typed /\ proc \in [Procs -> Records] /\ RowsTogether /\ IdsAreFound /\ InRange
      /\ OnRecord /\ ProgressIsReal /\ RetryCompletes /\ RemovalIsReal
      /\ Settled /\ proc[p] \in Records
  BY TypeParts DEF IInv
<1>1. /\ Becomes(p, Idle)
      /\ UNCHANGED <<adapter, rows, gen, aws, bound, requests, faults, overwritten, moved, torn, excused, orphans>>
  BY <1>0, TypeParts, EndMoves DEF Respond, history
<1>3. TypeOK'
  BY <1>0, <1>1, TypePartsNext, IdleFields, ProvisionAssumption DEF Typed, Becomes
<1>4. RowsTogether'
  BY <1>0, <1>1, Names DEF RowsTogether
<1>5. IdsAreFound'
  BY <1>0, <1>1, Names, Fields, IdleFields DEF IdsAreFound, Becomes, Typed
<1>6. InRange'
  BY <1>0, <1>1, IdleFields DEF InRange, Becomes, Removing
<1>7. OnRecord'
  BY <1>0, <1>1 DEF OnRecord, NameKept
<1>8. ProgressIsReal'
  <2>1. Progress(p)'
    BY <1>1, IdleFields, NoProgress DEF Becomes, Stepping
  <2>2. Undisturbed
    BY <1>0, <1>1 DEF Undisturbed, NameKept, InRange, Removing
  <2> QED
    BY <1>0, <1>1, <2>1, <2>2, OthersProgress DEF ProgressIsReal, Becomes
<1>9. RetryCompletes'
  BY <1>0, <1>1, IdleFields DEF Away, RetryCompletes, Becomes
<1>10. RemovalIsReal'
  BY <1>0, <1>1, Names, IdleFields DEF Reached, RemovalIsReal, Accounted, Gone, AllGone, Removing,
     Becomes
<1>11. Settled'
  BY <1>0, <1>1, IdleFields, Names DEF Settled, Becomes, Kept, Stays
<1> QED
  BY <1>3, <1>4, <1>5, <1>6, <1>7, <1>8, <1>9, <1>10, <1>11 DEF IInv

(* A removal inserts its rows. *)
LEMMA InitDeprovisionStepsKeeps ==
    ASSUME IInv, NEW p \in Procs, InitDeprovisionSteps(p)
    PROVE  IInv'
<1>0. /\ Typed /\ proc \in [Procs -> Records] /\ RowsTogether /\ IdsAreFound /\ InRange
      /\ OnRecord /\ ProgressIsReal /\ RetryCompletes /\ RemovalIsReal
      /\ Settled /\ proc[p] \in Records
  BY TypeParts DEF IInv
<1>1. /\ proc[p].pc = "dinit" /\ Becomes(p, proc'[p])
      /\ proc'[p].pc = "dlist" /\ Kept(proc[p], proc'[p]) /\ proc'[p].i = proc[p].i
      /\ proc'[p].err = proc[p].err /\ proc'[p].met = proc[p].met
      /\ initStepDefs(DNames)
      /\ UNCHANGED <<adapter, gen, aws, bound, requests, faults, overwritten, moved, torn, excused, orphans>>
  BY <1>0, TypeParts, GoMoves DEF InitDeprovisionSteps, DNames, Pcs, DeletePcs, history
<1>2. /\ rows' \in RowTable /\ \A s \in DNames : rows'[s].status # "absent"
      /\ \A s \in StepNames : rows'[s] = rows[s] \/ (rows'[s].status = "pending" /\ rows'[s].at = Config0)
      /\ \A s \in StepNames : rows[s].status # "absent" \/ s \notin DNames => rows'[s] = rows[s]
  BY <1>0, <1>1, InsertedRows, Names DEF Typed
<1>3. TypeOK'
  BY <1>0, <1>1, <1>2, TypePartsNext DEF Typed, Becomes
<1>4. RowsTogether'
  BY <1>0, <1>1, <1>2, Names DEF RowsTogether
<1>5. IdsAreFound'
  BY <1>0, <1>1, <1>2, Names, Fields DEF IdsAreFound, Kept, Stays, Becomes
<1>6. InRange'
  BY <1>0, <1>1 DEF InRange, Becomes, Removing
<1>7. OnRecord'
  BY <1>0, <1>1, <1>2, Names DEF OnRecord, Creates, NameKept
<1>8. ProgressIsReal'
  <2>1. Progress(p)'
    BY <1>1, IdleFields, NoProgress DEF Becomes, Stepping
  <2>2. Undisturbed
    BY <1>0, <1>1 DEF Undisturbed, NameKept, InRange, Removing
  <2> QED
    BY <1>0, <1>1, <2>1, <2>2, OthersProgress DEF ProgressIsReal, Becomes
<1>9. RetryCompletes'
  BY <1>0, <1>1 DEF Away, RetryCompletes, Becomes
<1>10. RemovalIsReal'
  BY <1>0, <1>1, <1>2, Names, IdleFields DEF Reached, RemovalIsReal, Accounted, Gone, AllGone,
     Removing, Becomes
<1>11. Settled'
  BY <1>0, <1>1, <1>2, IdleFields, Names DEF Settled, Becomes, Kept, Stays
<1> QED
  BY <1>3, <1>4, <1>5, <1>6, <1>7, <1>8, <1>9, <1>10, <1>11 DEF IInv

(* A removal has the ids of all its rows, or all is gone. *)
LEMMA ListForDeprovisionKeeps ==
    ASSUME IInv, NEW p \in Procs, ListForDeprovision(p)
    PROVE  IInv'
<1>0. /\ Typed /\ proc \in [Procs -> Records] /\ RowsTogether /\ IdsAreFound /\ InRange
      /\ OnRecord /\ ProgressIsReal /\ RetryCompletes /\ RemovalIsReal
      /\ Settled /\ proc[p] \in Records
  BY TypeParts DEF IInv
<1>1. /\ proc[p].pc = "dlist" /\ Becomes(p, proc'[p]) /\ proc'[p].pc = "dstep" /\ proc'[p].gen = gen
      /\ proc'[p].listed = {s \in StepNames : rows[s].status # "absent"}
      /\ proc'[p].i = proc[p].i /\ proc'[p].err = proc[p].err /\ proc'[p].cfg = proc[p].cfg
      /\ torn' = TRUE
      /\ orphans' = orphans \cup {x \in aws : x[1] # proc[p].cfg \/ x[1] \notin Asked(proc[p].cfg, proc'[p].known, x[2])}
      /\ UNCHANGED <<adapter, rows, gen, aws, bound, requests, faults, overwritten, moved, excused>>
  BY <1>0, TypeParts, ListForMoves DEF ListForDeprovision
<1>3. TypeOK'
  BY <1>0, <1>1, TypePartsNext, IdleFields, ProvisionAssumption DEF Typed, Becomes
<1>4. RowsTogether'
  BY <1>0, <1>1, Names DEF RowsTogether
<1>5. IdsAreFound'
  BY <1>0, <1>1, Names, Fields DEF IdsAreFound, Becomes
<1>6. InRange'
  BY <1>0, <1>1 DEF InRange, Becomes
<1>7. OnRecord'
  BY <1>0, <1>1 DEF OnRecord, NameKept
<1>8. ProgressIsReal'
  <2>1. Progress(p)'
    BY <1>1, IdleFields, NoProgress DEF Becomes, Stepping
  <2>2. Undisturbed
    BY <1>0, <1>1 DEF Undisturbed, NameKept, InRange, Removing
  <2> QED
    BY <1>0, <1>1, <2>1, <2>2, OthersProgress DEF ProgressIsReal, Becomes
<1>9. RetryCompletes'
  BY <1>1 DEF Away, RetryCompletes
<1>10. RemovalIsReal'
  <2> SUFFICES ASSUME ~excused' PROVE RemovalIsReal'
    BY DEF RemovalIsReal
  <2>5. ~excused /\ UNCHANGED <<adapter, rows, gen>>
    BY <1>1
  <2>1. (\A y : Gone(y) => Gone(y)') /\ (AllGone => AllGone') /\ \A j : Accounted(j) => Accounted(j)'
    BY <1>1 DEF Gone, AllGone, Accounted, RemovedAt
  <2>2. \A q \in Procs : proc'[q].known = proc[q].known /\ proc'[q].cfg = proc[q].cfg /\ Reached(q) => Reached(q)'
    BY <1>1 DEF Reached
  <2>3. Reached(p)'
    BY <1>1 DEF Reached, Asked
  <2>6. proc'[p].i = 1
    BY <1>0, <1>1 DEF InRange
  <2>7. (proc'[p].gen = gen' /\ DNames \subseteq proc'[p].listed) \/ AllGone'
    BY <1>0, <1>1, <2>1, <2>5, Names DEF RemovalIsReal
  <2>4. ASSUME NEW q \in Procs \ {p}
        PROVE  /\ proc'[q].pc = "dsave" => Gone(RemovedAt(proc[q].i))'
               /\ proc'[q].pc \in Removing =>
                    /\ \A j \in 1..4 : j < proc'[q].i =>
                         Accounted(j)' /\ (~proc'[q].err => Gone(RemovedAt(j))')
                    /\ Reached(q)'
                    /\ (proc'[q].gen = gen' /\ DNames \subseteq proc'[q].listed) \/ AllGone'
               /\ proc'[q].pc = "dlist" => (\A s \in DNames : rows'[s].status # "absent") \/ AllGone'
               /\ proc'[q].pc = "dclear" => AllGone'
               /\ proc'[q].pc = "dsoft" => ~adapter'.live \/ \A j \in 1..4 : Accounted(j)'
    <3>1. proc'[q] = proc[q]
      BY <1>1, <2>4 DEF Becomes
    <3>2. \A j : Gone(RemovedAt(j)) => Gone(RemovedAt(j))'
      BY <2>1 DEF RemovedAt
    <3>3. Gone(RemovedAt(proc[q].i)) => Gone(RemovedAt(proc[q].i))'
      BY <1>1, <3>1 DEF Gone, RemovedAt
    <3> QED
      BY <1>0, <1>1, <2>1, <2>2, <2>5, <2>4, <3>1, <3>2, <3>3 DEF RemovalIsReal
  <2> QED
    BY <1>0, <1>1, <2>1, <2>3, <2>4, <2>5, <2>6, <2>7 DEF RemovalIsReal, Removing
<1>11. Settled'
  BY <1>0, <1>1, IdleFields, Names DEF Settled, Becomes, Kept, Stays
<1> QED
  BY <1>3, <1>4, <1>5, <1>6, <1>7, <1>8, <1>9, <1>10, <1>11 DEF IInv

(* A removal that cannot read its rows goes on to the soft delete: excused. *)
LEMMA LoadForDeprovisionFailsKeeps ==
    ASSUME IInv, NEW p \in Procs, LoadForDeprovisionFails(p)
    PROVE  IInv'
<1>0. /\ Typed /\ proc \in [Procs -> Records] /\ RowsTogether /\ IdsAreFound /\ InRange
      /\ OnRecord /\ ProgressIsReal /\ RetryCompletes /\ RemovalIsReal
      /\ Settled /\ proc[p] \in Records
  BY TypeParts DEF IInv
<1>1. /\ proc[p].pc \in {"dinit", "dlist"} /\ Becomes(p, proc'[p])
      /\ proc'[p].pc = "dsoft" /\ Kept(proc[p], proc'[p]) /\ proc'[p].i = proc[p].i
      /\ proc'[p].err = proc[p].err /\ proc'[p].met = proc[p].met
      /\ excused' = TRUE /\ faults < MaxFaults /\ faults' = faults + 1
      /\ UNCHANGED <<adapter, rows, gen, aws, bound, requests, overwritten, moved, torn, orphans>>
  BY <1>0, TypeParts, GoMoves DEF LoadForDeprovisionFails, Pcs, DeletePcs, Fault
<1>3. TypeOK'
  <2>1. excused' \in BOOLEAN /\ torn' \in BOOLEAN
    BY <1>0, <1>1, Zenon DEF Typed
  <2> QED
    BY <1>0, <1>1, <2>1, TypePartsNext, ProvisionAssumption DEF Typed, Becomes
<1>4. RowsTogether'
  BY <1>0, <1>1, Names DEF RowsTogether
<1>5. IdsAreFound'
  BY <1>0, <1>1 DEF IdsAreFound, Kept, Stays, Becomes
<1>6. InRange'
  BY <1>0, <1>1 DEF InRange, Becomes, Removing
<1>7. OnRecord'
  BY <1>0, <1>1 DEF OnRecord, NameKept
<1>8. ProgressIsReal'
  <2>1. Progress(p)'
    BY <1>1, IdleFields, NoProgress DEF Becomes, Stepping
  <2>2. Undisturbed
    BY <1>0, <1>1 DEF Undisturbed, NameKept, InRange, Removing
  <2> QED
    BY <1>0, <1>1, <2>1, <2>2, OthersProgress DEF ProgressIsReal, Becomes
<1>9. RetryCompletes'
  BY <1>0, <1>1 DEF Away, RetryCompletes, Becomes
<1>10. RemovalIsReal'
  BY <1>0, <1>1 DEF Reached, RemovalIsReal, Accounted, Gone, AllGone, Removing, Becomes
<1>11. Settled'
  BY <1>0, <1>1, IdleFields, Names DEF Settled, Becomes, Kept, Stays
<1> QED
  BY <1>3, <1>4, <1>5, <1>6, <1>7, <1>8, <1>9, <1>10, <1>11 DEF IInv

(* A deletion takes its resource away or fails; without an ARN it leaves what the
   listing counted as an orphan. *)
LEMMA DeleteKeeps ==
    ASSUME IInv, NEW p \in Procs, Delete(p)
    PROVE  IInv'
<1>0. /\ Typed /\ proc \in [Procs -> Records] /\ RowsTogether /\ IdsAreFound /\ InRange
      /\ OnRecord /\ ProgressIsReal /\ RetryCompletes /\ RemovalIsReal
      /\ Settled /\ proc[p] \in Records
  BY TypeParts DEF IInv
<1>1. /\ proc[p].pc = "dstep"
      /\ Becomes(p, proc'[p]) /\ Kept(proc[p], proc'[p]) /\ proc'[p].i = proc[p].i
      /\ proc'[p].err = proc[p].err
      /\ ResourceOf[DStep(p)] \in Resources
      /\ \/ /\ proc'[p].pc = "dsave"
            /\ \/ <<proc[p].cfg, ResourceOf[DStep(p)]>> \notin aws'
               \/ /\ ResourceOf[DStep(p)] \in ByARN
                  /\ <<proc[p].cfg, ResourceOf[DStep(p)]>> \notin proc[p].known
         \/ proc'[p].pc = "dfail"
      /\ UNCHANGED faults \/ (faults < MaxFaults /\ faults' = faults + 1)
      /\ aws' \subseteq aws
      /\ UNCHANGED <<adapter, rows, gen, bound, requests, overwritten, moved, torn, excused, orphans>>
  <2> DEFINE r == ResourceOf[DStep(p)]
             asked == Asked(proc[p].cfg, proc[p].known, r)
             left == IF proc[p].cfg \in asked THEN Without(proc[p].cfg, r) ELSE aws
  <2>1. r \in Resources
    BY <1>0, Names, Resource, Fields DEF DStep, InRange, DeletePcs, Delete
  <2>2. /\ left \subseteq aws
        /\ <<proc[p].cfg, r>> \in left => r \in ByARN /\ <<proc[p].cfg, r>> \notin proc[p].known
    BY <1>0, Fields DEF Without, Asked
  <2>3. "dsave" \in Pcs /\ "dfail" \in Pcs
    BY DEF Pcs, DeletePcs
  <2>4. proc[p].pc = "dstep"
        /\ UNCHANGED <<adapter, rows, gen, bound, requests, overwritten, moved, torn, excused, orphans>>
    BY DEF Delete, history
  <2>8. \/ aws' = left /\ Go(p, "dsave") /\ UNCHANGED faults
        \/ Go(p, "dfail") /\ UNCHANGED <<aws, faults>>
        \/ Fault /\ Meets(p, "dfail") /\ aws' \in {aws, left}
    BY DEF Delete
  <2> HIDE DEF left, asked, r
  <2>5. CASE aws' = left /\ Go(p, "dsave") /\ UNCHANGED faults
    BY <1>0, <2>1, <2>2, <2>3, <2>4, <2>5, GoMoves DEF r
  <2>6. CASE Go(p, "dfail") /\ UNCHANGED <<aws, faults>>
    BY <1>0, <2>1, <2>2, <2>3, <2>4, <2>6, GoMoves DEF r
  <2>7. CASE Fault /\ Meets(p, "dfail") /\ aws' \in {aws, left}
    BY <1>0, <2>1, <2>2, <2>3, <2>4, <2>7, MeetsMoves DEF Fault, r
  <2> QED
    BY <2>5, <2>6, <2>7, <2>8
<1>3. TypeOK'
  BY <1>0, <1>1, TypePartsNext, IdleFields, ProvisionAssumption DEF Typed, Becomes
<1>4. RowsTogether'
  BY <1>0, <1>1, Names DEF RowsTogether
<1>5. IdsAreFound'
  BY <1>0, <1>1 DEF IdsAreFound, Kept, Stays, Becomes
<1>6. InRange'
  BY <1>0, <1>1 DEF InRange, Becomes, Removing, DeletePcs
<1>7. OnRecord'
  BY <1>0, <1>1, Names, Resource, Fields DEF OnRecord, Creates, ProgressIsReal, Behind, NameKept,
     InRange, Removing
<1>8. ProgressIsReal'
  <2>1. Progress(p)'
    BY <1>1, IdleFields, NoProgress DEF Becomes, Stepping
  <2>2. Undisturbed
    BY <1>0, <1>1 DEF Undisturbed, NameKept, InRange, Removing
  <2> QED
    BY <1>0, <1>1, <2>1, <2>2, OthersProgress DEF ProgressIsReal, Becomes
<1>9. RetryCompletes'
  BY <1>0, <1>1 DEF Away, RetryCompletes, Becomes
<1>10. RemovalIsReal'
  <2> SUFFICES ASSUME ~excused' PROVE RemovalIsReal'
    BY DEF RemovalIsReal
  <2>5. ~excused /\ UNCHANGED <<adapter, rows, gen>>
    BY <1>1
  <2>1. (\A y : Gone(y) => Gone(y)') /\ (AllGone => AllGone') /\ \A j : Accounted(j) => Accounted(j)'
    BY <1>1 DEF Gone, AllGone, Accounted, RemovedAt
  <2>2. \A q \in Procs : proc'[q].known = proc[q].known /\ proc'[q].cfg = proc[q].cfg /\ Reached(q) => Reached(q)'
    BY <1>1 DEF Reached
  <2>6. /\ \A j \in 1..4 : j < proc[p].i => Accounted(j) /\ (~proc[p].err => Gone(RemovedAt(j)))
        /\ Reached(p)
        /\ (proc[p].gen = gen /\ DNames \subseteq proc[p].listed) \/ AllGone
    BY <1>0, <1>1, <2>5 DEF RemovalIsReal, Removing
  <2>3. proc'[p].pc = "dsave" => Gone(RemovedAt(proc[p].i))'
    <3>1. proc'[p].pc = "dsave" => \A c \in Configs : <<c, ResourceOf[DStep(p)]>> \in aws' =>
                                     <<c, ResourceOf[DStep(p)]>> \in orphans'
      BY <1>1, <2>6 DEF Reached
    <3> QED
      BY <1>1, <3>1 DEF Gone, RemovedAt, DStep
  <2>7. /\ \A j \in 1..4 : j < proc'[p].i => Accounted(j)' /\ (~proc'[p].err => Gone(RemovedAt(j))')
        /\ Reached(p)'
        /\ (proc'[p].gen = gen' /\ DNames \subseteq proc'[p].listed) \/ AllGone'
    <3>1. \A j : Gone(RemovedAt(j)) => Gone(RemovedAt(j))'
      BY <2>1 DEF RemovedAt
    <3> QED
      BY <1>1, <2>1, <2>2, <2>5, <2>6, <3>1 DEF Kept, Stays
  <2>4. ASSUME NEW q \in Procs \ {p}
        PROVE  /\ proc'[q].pc = "dsave" => Gone(RemovedAt(proc[q].i))'
               /\ proc'[q].pc \in Removing =>
                    /\ \A j \in 1..4 : j < proc'[q].i =>
                         Accounted(j)' /\ (~proc'[q].err => Gone(RemovedAt(j))')
                    /\ Reached(q)'
                    /\ (proc'[q].gen = gen' /\ DNames \subseteq proc'[q].listed) \/ AllGone'
               /\ proc'[q].pc = "dlist" => (\A s \in DNames : rows'[s].status # "absent") \/ AllGone'
               /\ proc'[q].pc = "dclear" => AllGone'
               /\ proc'[q].pc = "dsoft" => ~adapter'.live \/ \A j \in 1..4 : Accounted(j)'
    <3>1. proc'[q] = proc[q]
      BY <1>1, <2>4 DEF Becomes
    <3>2. \A j : Gone(RemovedAt(j)) => Gone(RemovedAt(j))'
      BY <2>1 DEF RemovedAt
    <3>3. Gone(RemovedAt(proc[q].i)) => Gone(RemovedAt(proc[q].i))'
      BY <1>1, <3>1 DEF Gone, RemovedAt
    <3> QED
      BY <1>0, <1>1, <2>1, <2>2, <2>5, <2>4, <3>1, <3>2, <3>3 DEF RemovalIsReal
  <2> QED
    BY <1>0, <1>1, <2>1, <2>3, <2>4, <2>5, <2>7 DEF RemovalIsReal, Removing
<1>11. Settled'
  BY <1>0, <1>1, IdleFields, Names DEF Settled, Becomes, Kept, Stays
<1> QED
  BY <1>3, <1>4, <1>5, <1>6, <1>7, <1>8, <1>9, <1>10, <1>11 DEF IInv

(* A removal step is recorded: what is not gone is on record as failed. *)
LEMMA persistDeleteKeeps ==
    ASSUME IInv, NEW p \in Procs, persistDelete(p)
    PROVE  IInv'
<1>0. /\ Typed /\ proc \in [Procs -> Records] /\ RowsTogether /\ IdsAreFound /\ InRange
      /\ OnRecord /\ ProgressIsReal /\ RetryCompletes /\ RemovalIsReal
      /\ Settled /\ proc[p] \in Records
  BY TypeParts DEF IInv
<1>1. /\ proc[p].pc \in {"dsave", "dfail"} /\ Becomes(p, proc'[p]) /\ Kept(proc[p], proc'[p])
      /\ proc'[p].err = (proc[p].err \/ proc[p].pc = "dfail")
      /\ proc'[p].i = IF proc[p].i < 4 THEN proc[p].i + 1 ELSE proc[p].i
      /\ proc'[p].pc = IF proc[p].i < 4 THEN "dstep"
                      ELSE IF proc[p].err \/ proc[p].pc = "dfail" THEN "dsoft" ELSE "dclear"
      /\ \/ /\ IF proc[p].pc = "dfail" THEN MarkFailed(p, DStep(p)) ELSE MarkCompleted(p, DStep(p), FALSE)
            /\ UNCHANGED <<faults, excused>>
         \/ excused' = TRUE /\ faults < MaxFaults /\ faults' = faults + 1 /\ UNCHANGED rows
      /\ UNCHANGED <<adapter, gen, aws, bound, requests, overwritten, moved, torn, orphans>>
  BY <1>0, TypeParts, NextDeleteMoves DEF persistDelete, Lost, Fault, history, InRange, DeletePcs
<1>2. /\ DStep(p) \in DNames /\ rows' \in RowTable
      /\ \A s \in StepNames \ {DStep(p)} : rows'[s] = rows[s]
      /\ \/ rows'[DStep(p)] = rows[DStep(p)] /\ (excused' \/ ~Found(p, DStep(p)))
         \/ /\ Found(p, DStep(p)) /\ excused' = excused
            /\ rows'[DStep(p)].status = IF proc[p].pc = "dfail" THEN "failed" ELSE "completed"
      /\ rows'[DStep(p)].at \in {rows[DStep(p)].at, proc[p].cfg}
  <2>1. DStep(p) \in DNames /\ DStep(p) \in StepNames
    BY <1>0, <1>1, Names, Fields DEF DStep, InRange, DeletePcs
  <2>2. CASE UNCHANGED rows /\ excused'
    BY <1>0, <2>1, <2>2 DEF Typed
  <2>3. CASE proc[p].pc = "dfail" /\ MarkFailed(p, DStep(p)) /\ UNCHANGED excused
    BY <1>0, <2>1, <2>3, FailedRows DEF Typed
  <2>4. CASE proc[p].pc = "dsave" /\ MarkCompleted(p, DStep(p), FALSE) /\ UNCHANGED excused
    BY <1>0, <2>1, <2>4, CompletedRows, Fields DEF Typed
  <2> QED
    BY <1>1, <2>2, <2>3, <2>4
<1>3. TypeOK'
  <2>1. excused' \in BOOLEAN /\ torn' \in BOOLEAN
    BY <1>0, <1>1, Zenon DEF Typed
  <2>2. faults' \in 0..MaxFaults
    <3>1. UNCHANGED faults \/ (faults < MaxFaults /\ faults' = faults + 1)
      BY DEF persistDelete, Lost, Fault
    <3> QED
      BY <1>0, <3>1, ProvisionAssumption DEF Typed
  <2>3. proc' \in [Procs -> Records]
    BY <1>1 DEF Becomes
  <2>4. UNCHANGED <<adapter, gen, aws, bound, requests, overwritten, moved, orphans>>
    BY <1>1
  <2> QED
    BY <1>0, <1>2, <2>1, <2>2, <2>3, <2>4, TypePartsNext DEF Typed
<1>4. RowsTogether'
  BY <1>0, <1>1, <1>2, Names DEF RowsTogether
<1>5. IdsAreFound'
  BY <1>0, <1>1, <1>2, Names, Fields DEF IdsAreFound, Kept, Stays, Becomes
<1>6. InRange'
  BY <1>0, <1>1, <1>2, Fields, IdleFields, Names DEF InRange, Becomes, Removing, DeletePcs
<1>7. OnRecord'
  BY <1>0, <1>1, <1>2, Names, Resource, Fields
     DEF OnRecord, Creates, ProgressIsReal, Behind, NameKept, InRange, Removing
<1>8. ProgressIsReal'
  <2>1. Progress(p)'
    BY <1>1, IdleFields, NoProgress DEF Becomes, Stepping
  <2>2. Undisturbed
    BY <1>0, <1>1 DEF Undisturbed, NameKept, InRange, Removing
  <2> QED
    BY <1>0, <1>1, <2>1, <2>2, OthersProgress DEF ProgressIsReal, Becomes
<1>9. RetryCompletes'
  BY <1>0, <1>1 DEF Away, RetryCompletes, Becomes
<1>10. RemovalIsReal'
  <2> SUFFICES ASSUME ~excused' PROVE RemovalIsReal'
    BY DEF RemovalIsReal
  <2> DEFINE k == proc[p].i
  <2>1. ~excused /\ k \in 1..4 /\ UNCHANGED <<adapter, gen, aws, orphans>>
    <3>1. ~excused
      BY DEF persistDelete, Lost, history
    <3>2. k \in 1..4
      BY <1>0, <1>1, Fields DEF InRange, DeletePcs
    <3> QED
      BY <1>1, <3>1, <3>2
  <2>2. \A r : Gone(r)' <=> Gone(r)
    BY <2>1 DEF Gone
  <2>3. AllGone' <=> AllGone
    BY <2>2 DEF AllGone
  <2>4. \A j \in 1..4 : Gone(RemovedAt(j))' <=> Gone(RemovedAt(j))
    BY <2>1 DEF Gone, RemovedAt
  <2>5. Gone(RemovedAt(k)) \/ (proc[p].pc = "dfail" /\ rows'[DStep(p)].status = "failed")
    <3>1. CASE proc[p].pc = "dsave"
      BY <1>0, <2>1, <3>1 DEF RemovalIsReal
    <3>2. CASE proc[p].pc = "dfail" /\ Found(p, DStep(p))
      BY <1>2, <2>1, <3>2
    <3>3. CASE proc[p].pc = "dfail" /\ ~Found(p, DStep(p))
      <4>1. AllGone
        BY <1>0, <1>2, <2>1, <3>3 DEF RemovalIsReal, Removing, Found
      <4> QED
        BY <2>1, <4>1, Names, Resource DEF AllGone, RemovedAt, Resources
    <3> QED
      BY <1>1, <3>1, <3>2, <3>3
  <2>6. ASSUME NEW j \in 1..4, Accounted(j) \/ j = k PROVE Accounted(j)'
    <3>1. CASE j = k
      BY <2>1, <2>4, <2>5, <3>1 DEF Accounted, DStep
    <3>2. CASE j # k
      <4>1. DeprovisionSteps[j] \in StepNames \ {DStep(p)}
        BY <2>1, <3>2, Names DEF DStep
      <4> QED
        BY <1>2, <2>4, <2>6, <3>2, <4>1 DEF Accounted
    <3> QED
      BY <3>1, <3>2
  <2>7. ~adapter'.live => \A j \in 1..4 : Accounted(j)'
    BY <1>0, <2>1, <2>6 DEF RemovalIsReal
  <2>13. \A q \in Procs : Reached(q) => Reached(q)'
    BY <1>1, <2>1 DEF Reached, Becomes, Kept, Stays
  <2>8. \A s \in DNames : rows[s].status # "absent" => rows'[s].status # "absent"
    BY <1>2, Names
  <2>9. ASSUME NEW q \in Procs \ {p}
        PROVE  /\ proc[q].pc = "dsave" => Gone(RemovedAt(proc[q].i))'
               /\ proc[q].pc \in Removing =>
                    /\ \A j \in 1..4 : j < proc[q].i =>
                         Accounted(j)' /\ (~proc[q].err => Gone(RemovedAt(j))')
                    /\ Reached(q)'
                    /\ (proc[q].gen = gen' /\ DNames \subseteq proc[q].listed) \/ AllGone'
               /\ proc[q].pc = "dlist" => (\A s \in DNames : rows'[s].status # "absent") \/ AllGone'
               /\ proc[q].pc = "dclear" => AllGone'
               /\ proc[q].pc = "dsoft" => ~adapter'.live \/ \A j \in 1..4 : Accounted(j)'
    <3>1. /\ proc[q].pc = "dsave" => Gone(RemovedAt(proc[q].i)) /\ proc[q].i \in 1..4
          /\ proc[q].pc \in Removing =>
               /\ \A j \in 1..4 : j < proc[q].i =>
                    Accounted(j) /\ (~proc[q].err => Gone(RemovedAt(j)))
               /\ Reached(q)
               /\ (proc[q].gen = gen /\ DNames \subseteq proc[q].listed) \/ AllGone
          /\ proc[q].pc = "dlist" => (\A s \in DNames : rows[s].status # "absent") \/ AllGone
          /\ proc[q].pc = "dclear" => AllGone
          /\ proc[q].pc = "dsoft" => ~adapter.live \/ \A j \in 1..4 : Accounted(j)
      <4>1. proc[q].pc = "dsave" => proc[q].i \in 1..4
        BY <1>0, Fields DEF InRange, DeletePcs
      <4> QED
        BY <1>0, <2>1, <4>1 DEF RemovalIsReal
    <3>2. proc[q].pc = "dsave" => Gone(RemovedAt(proc[q].i))'
      BY <1>1, <2>4, <3>1 DEF Becomes, Gone, RemovedAt
    <3>3. proc[q].pc \in Removing =>
            /\ \A j \in 1..4 : j < proc[q].i =>
                 Accounted(j)' /\ (~proc[q].err => Gone(RemovedAt(j))')
            /\ Reached(q)'
            /\ (proc[q].gen = gen' /\ DNames \subseteq proc[q].listed) \/ AllGone'
      BY <2>1, <2>2, <2>3, <2>4, <2>6, <2>13, <3>1
    <3>4. /\ proc[q].pc = "dlist" => (\A s \in DNames : rows'[s].status # "absent") \/ AllGone'
          /\ proc[q].pc = "dclear" => AllGone'
      BY <2>3, <2>8, <3>1
    <3>5. proc[q].pc = "dsoft" => ~adapter'.live \/ \A j \in 1..4 : Accounted(j)'
      BY <2>1, <2>6, <3>1
    <3> QED
      BY <3>2, <3>3, <3>4, <3>5
  <2>10. /\ \A j \in 1..4 : j < k => Accounted(j) /\ (~proc[p].err => Gone(RemovedAt(j)))
         /\ Reached(p)
         /\ (proc[p].gen = gen /\ DNames \subseteq proc[p].listed) \/ AllGone
    BY <1>0, <1>1, <2>1 DEF RemovalIsReal, Removing
  <2>11. CASE k < 4
    <3>1. /\ proc'[p].pc = "dstep" /\ proc'[p].i = k + 1 /\ Kept(proc[p], proc'[p])
          /\ ~proc'[p].err => ~proc[p].err /\ proc[p].pc = "dsave"
      BY <1>1, <2>11
    <3>2. \A j \in 1..4 : j < k + 1 =>
            Accounted(j)' /\ (~proc'[p].err => Gone(RemovedAt(j))')
      BY <2>1, <2>4, <2>5, <2>6, <2>10, <3>1
    <3> QED
      BY <1>1, <2>1, <2>2, <2>3, <2>7, <2>9, <2>10, <2>13, <3>1, <3>2 DEF RemovalIsReal, Becomes, Kept,
     Stays
  <2>12. CASE k = 4
    <3>1. /\ proc'[p].pc \in {"dsoft", "dclear"}
          /\ proc'[p].pc = "dclear" => ~proc[p].err /\ proc[p].pc = "dsave"
      BY <1>1, <2>12
    <3>2. \A j \in 1..4 : Accounted(j)'
      BY <2>1, <2>6, <2>10, <2>12
    <3>3. proc'[p].pc = "dclear" => AllGone'
      <4> SUFFICES ASSUME proc'[p].pc = "dclear" PROVE AllGone
        BY <2>3
      <4>1. \A j \in 1..4 : Gone(RemovedAt(j))
        BY <2>1, <2>5, <2>10, <2>12, <3>1
      <4>2. Gone("sub") /\ Gone("dest") /\ Gone("topic") /\ Gone("set")
        BY <4>1, Names, Resource DEF RemovedAt
      <4> QED
        BY <4>2 DEF AllGone, Resources
    <3> QED
      BY <1>1, <2>7, <2>9, <3>1, <3>2, <3>3 DEF RemovalIsReal, Becomes, Removing
  <2> QED
    BY <2>1, <2>11, <2>12
<1>11. Settled'
  BY <1>0, <1>1, <1>2, IdleFields, Names DEF Settled, Becomes, Kept, Stays
<1> QED
  BY <1>3, <1>4, <1>5, <1>6, <1>7, <1>8, <1>9, <1>10, <1>11 DEF IInv

(* The rows are dropped only when all is gone. *)
LEMMA DeleteByAdapterKeeps ==
    ASSUME IInv, NEW p \in Procs, DeleteByAdapter(p)
    PROVE  IInv'
<1>0. /\ Typed /\ proc \in [Procs -> Records] /\ RowsTogether /\ IdsAreFound /\ InRange
      /\ OnRecord /\ ProgressIsReal /\ RetryCompletes /\ RemovalIsReal
      /\ Settled /\ proc[p] \in Records
  BY TypeParts DEF IInv
<1>1. /\ proc[p].pc = "dclear" /\ Becomes(p, proc'[p])
      /\ proc'[p].pc = "dsoft" /\ Kept(proc[p], proc'[p]) /\ proc'[p].i = proc[p].i
      /\ proc'[p].err = proc[p].err /\ proc'[p].met = proc[p].met
      /\ \/ /\ rows' = [s \in StepNames |-> NoRow] /\ gen' = gen + 1 /\ UNCHANGED <<faults, excused>>
            /\ ~torn' => \A q \in Procs \ {p} : ~Provisioning(q) /\ ~Deleting(q)
         \/ excused' = TRUE /\ faults < MaxFaults /\ faults' = faults + 1 /\ UNCHANGED rows /\ UNCHANGED <<gen, torn>>
      /\ UNCHANGED <<adapter, aws, bound, requests, overwritten, moved, orphans>>
      /\ torn' \in BOOLEAN
  <2>1. CASE /\ rows' = [s \in StepNames |-> NoRow] /\ gen' = gen + 1
             /\ torn' = \E q \in Procs \ {p} : Provisioning(q) \/ Deleting(q)
             /\ UNCHANGED <<adapter, aws, bound, requests, faults, overwritten, moved, excused, orphans>>
    <3>1. torn' \in BOOLEAN /\ (~torn' => \A q \in Procs \ {p} : ~Provisioning(q) /\ ~Deleting(q))
      BY <2>1, Zenon
    <3> QED
      BY <1>0, <2>1, <3>1, GoMoves DEF DeleteByAdapter, Pcs, DeletePcs
  <2>2. CASE Lost
    BY <1>0, <2>2, GoMoves DEF DeleteByAdapter, Lost, Fault, Pcs, DeletePcs, Typed
  <2> QED
    BY <2>1, <2>2 DEF DeleteByAdapter
<1>2. /\ rows' \in RowTable
      /\ rows' = rows \/ (gen' = gen + 1 /\ \A s \in StepNames : rows'[s].status = "absent" /\ rows'[s].at = Config0)
  BY <1>0, <1>1, ClearedRows DEF Typed
<1>3. TypeOK'
  <2>1. excused' \in BOOLEAN /\ torn' \in BOOLEAN
    BY <1>0, <1>1, Zenon DEF Typed
  <2>2. faults' \in 0..MaxFaults /\ gen' \in Nat
    BY <1>0, <1>1, ProvisionAssumption DEF Typed
  <2>3. proc' \in [Procs -> Records]
    BY <1>1 DEF Becomes
  <2>4. UNCHANGED <<adapter, aws, bound, requests, overwritten, moved, orphans>>
    BY <1>1
  <2> QED
    BY <1>0, <1>2, <2>1, <2>2, <2>3, <2>4, TypePartsNext DEF Typed
<1>4. RowsTogether'
  BY <1>0, <1>1, <1>2, Names DEF RowsTogether
<1>5. IdsAreFound'
  BY <1>0, <1>1, <1>2, Names, Fields DEF IdsAreFound, Kept, Stays, Becomes, Typed
<1>6. InRange'
  BY <1>0, <1>1, <1>2, Fields, IdleFields, Names
     DEF InRange, Becomes, Removing, DeletePcs, Deleting
<1>7. OnRecord'
  <2>1. NameKept' <=> NameKept
    BY <1>1 DEF NameKept
  <2>2. CASE \A s \in StepNames : rows'[s].status = "absent"
    BY <2>2, Names DEF OnRecord, Creates
  <2>3. CASE UNCHANGED <<rows, torn>>
    BY <1>0, <1>1, <2>1, <2>3 DEF OnRecord
  <2> QED
    BY <1>1, <1>2, <2>2, <2>3, ClearedRows
<1>8. ProgressIsReal'
  <2>1. Progress(p)'
    BY <1>1, NoProgress DEF Stepping
  <2>2. ASSUME NEW q \in Procs \ {p} PROVE Progress(q)'
    <3>1. CASE torn'
      BY <1>0, <1>1, <2>2, <3>1, OthersProgress DEF ProgressIsReal, Becomes, Undisturbed, NameKept
    <3>2. CASE ~torn' /\ torn
      <4>1. proc'[q].pc \notin Stepping
        BY <1>1, <2>2, <3>2 DEF Becomes, Provisioning, ProvisionPcs, Stepping
      <4> QED
        BY <4>1, NoProgress
    <3> QED
      BY <1>0, <1>1, <3>1, <3>2 DEF InRange
  <2> QED
    BY <2>1, <2>2 DEF ProgressIsReal
<1>9. RetryCompletes'
  BY <1>0, <1>1 DEF Away, RetryCompletes, Becomes, Provisioning, ProvisionPcs
<1>10. RemovalIsReal'
  BY <1>0, <1>1, <1>2, Names, Resource, Fields, IdleFields
     DEF Reached, RemovalIsReal, Accounted, Gone, AllGone, RemovedAt, Removing, Kept, Stays,
     Becomes, InRange, Found, DStep, Resources, IdsAreFound, Typed
<1>11. Settled'
  BY <1>0, <1>1, <1>2, IdleFields, Names DEF Settled, Becomes, Kept, Stays
<1> QED
  BY <1>3, <1>4, <1>5, <1>6, <1>7, <1>8, <1>9, <1>10, <1>11 DEF IInv

(* The adapter goes last, with every resource accounted for. *)
LEMMA SoftDeleteKeeps ==
    ASSUME IInv, NEW p \in Procs, SoftDelete(p)
    PROVE  IInv'
<1>0. /\ Typed /\ proc \in [Procs -> Records] /\ RowsTogether /\ IdsAreFound /\ InRange
      /\ OnRecord /\ ProgressIsReal /\ RetryCompletes /\ RemovalIsReal
      /\ Settled /\ proc[p] \in Records
  BY TypeParts DEF IInv
<1>1. /\ proc[p].pc = "dsoft" /\ Becomes(p, Idle)
      /\ (UNCHANGED faults \/ (faults < MaxFaults /\ faults' = faults + 1))
      /\ adapter' \in [live : BOOLEAN, cfg : Configs, set : BOOLEAN] /\ adapter'.set = adapter.set
      /\ adapter'.cfg = adapter.cfg
      /\ adapter' = adapter \/ ~adapter'.live
      /\ UNCHANGED <<rows, gen, aws, bound, requests, overwritten, moved, torn, excused, orphans>>
  BY <1>0, TypeParts, EndMoves DEF SoftDelete, Fault, Typed, history
<1>3. TypeOK'
  BY <1>0, <1>1, TypePartsNext, IdleFields, ProvisionAssumption DEF Typed, Becomes
<1>4. RowsTogether'
  BY <1>0, <1>1, Names DEF RowsTogether
<1>5. IdsAreFound'
  BY <1>0, <1>1, Names, Fields, IdleFields DEF IdsAreFound, Becomes, Typed
<1>6. InRange'
  BY <1>0, <1>1, IdleFields DEF InRange, Becomes, Removing
<1>7. OnRecord'
  BY <1>0, <1>1 DEF OnRecord, NameKept
<1>8. ProgressIsReal'
  <2>1. Progress(p)'
    BY <1>1, IdleFields, NoProgress DEF Becomes, Stepping
  <2>2. Undisturbed
    BY <1>0, <1>1 DEF Undisturbed, NameKept, InRange, Removing
  <2> QED
    BY <1>0, <1>1, <2>1, <2>2, OthersProgress DEF ProgressIsReal, Becomes
<1>9. RetryCompletes'
  BY <1>0, <1>1, IdleFields DEF Away, RetryCompletes, Becomes
<1>10. RemovalIsReal'
  BY <1>0, <1>1, Names, IdleFields DEF Reached, RemovalIsReal, Accounted, Gone, AllGone, Removing,
     Becomes
<1>11. Settled'
  BY <1>0, <1>1, IdleFields, Names DEF Settled, Becomes, Kept, Stays
<1> QED
  BY <1>3, <1>4, <1>5, <1>6, <1>7, <1>8, <1>9, <1>10, <1>11 DEF IInv

(* A request that dies leaves what it wrote. *)
LEMMA CrashKeeps ==
    ASSUME IInv, Crash
    PROVE  IInv'
<1>0. /\ Typed /\ proc \in [Procs -> Records] /\ RowsTogether /\ IdsAreFound /\ InRange
      /\ OnRecord /\ ProgressIsReal /\ RetryCompletes /\ RemovalIsReal /\ Settled
  BY TypeParts DEF IInv
<1>1. /\ proc' = [q \in Procs |-> Idle] /\ bound' = {} /\ excused' = TRUE
      /\ faults < MaxFaults /\ faults' = faults + 1
      /\ UNCHANGED <<adapter, rows, gen, aws, requests, overwritten, moved, torn, orphans>>
  BY <1>0, TypeParts DEF Crash, Fault
<1>3. TypeOK'
  <2>1. excused' \in BOOLEAN /\ torn' \in BOOLEAN
    BY <1>0, <1>1, Zenon DEF Typed
  <2> QED
    BY <1>0, <1>1, <2>1, TypePartsNext, IdleFields, ProvisionAssumption DEF Typed
<1>4. RowsTogether'
  BY <1>0, <1>1, Names DEF RowsTogether
<1>5. IdsAreFound'
  BY <1>0, <1>1, Names, Fields, IdleFields DEF IdsAreFound, Typed
<1>6. InRange'
  BY <1>0, <1>1, IdleFields DEF InRange, Removing
<1>7. OnRecord'
  BY <1>0, <1>1 DEF OnRecord, NameKept
<1>8. ProgressIsReal'
  <2>1. \A q \in Procs : proc'[q].pc \notin Stepping
    BY <1>1, IdleFields DEF Stepping
  <2> QED
    BY <2>1, NoProgress DEF ProgressIsReal
<1>9. RetryCompletes'
  BY <1>0, <1>1, IdleFields DEF Away, RetryCompletes
<1>10. RemovalIsReal'
  BY <1>0, <1>1 DEF Reached, RemovalIsReal
<1>11. Settled'
  BY <1>0, <1>1, IdleFields, Names DEF Settled, Becomes, Kept, Stays
<1> QED
  BY <1>3, <1>4, <1>5, <1>6, <1>7, <1>8, <1>9, <1>10, <1>11 DEF IInv
-----------------------------------------------------------------------------
(* The invariant holds initially. *)
LEMMA InitIInv == Init => IInv
<1> SUFFICES ASSUME Init PROVE IInv
  OBVIOUS
<1>1. proc = [p \in Procs |-> Idle] /\ proc \in [Procs -> Records]
  BY IdleFields DEF Init
<1>2. rows \in RowTable /\ \A s \in StepNames : rows[s].status = "absent" /\ rows[s].at = Config0
  BY ProvisionAssumption DEF Init, RowTable, NoRow, Row
<1>3. Typed
  <2>1. overwritten \in BOOLEAN /\ moved \in BOOLEAN /\ torn \in BOOLEAN /\ excused \in BOOLEAN
    BY Zenon DEF Init
  <2> QED
    BY <1>2, <2>1, ProvisionAssumption DEF Init, Typed
<1>4. RowsTogether /\ IdsAreFound /\ InRange
  BY <1>1, <1>2, Names, IdleFields DEF Init, RowsTogether, IdsAreFound, InRange, Removing
<1>5. OnRecord /\ ProgressIsReal /\ RetryCompletes
  BY <1>1, <1>2, Names, IdleFields DEF Init, OnRecord, ProgressIsReal, Progress, Stepping, RetryCompletes, Behind,
     Creates
<1>6. RemovalIsReal
  BY <1>1, IdleFields DEF Init, RemovalIsReal, Removing
<1>7. Settled
  BY <1>1, <1>2, IdleFields DEF Init, Settled
<1> QED
  BY <1>1, <1>3, <1>4, <1>5, <1>6, <1>7, TypeParts DEF IInv

(* A stuttering step keeps the invariant. *)
LEMMA StutterKeeps == ASSUME IInv, UNCHANGED vars PROVE IInv'
<1> USE DEF vars
<1>1. TypeOK'
  BY DEF IInv, TypeOK
<1>2. RowsTogether' /\ IdsAreFound' /\ InRange'
  BY DEF IInv, RowsTogether, IdsAreFound, InRange
<1>3. OnRecord' /\ ProgressIsReal' /\ RetryCompletes'
  BY DEF IInv, OnRecord, ProgressIsReal, Progress, RetryCompletes, Behind, NameKept,
     Has, Step, Away
<1>4. RemovalIsReal'
  BY DEF IInv, RemovalIsReal, Accounted, AllGone, Gone, RemovedAt, Reached
<1>5. Settled'
  BY DEF IInv, Settled
<1> QED
  BY <1>1, <1>2, <1>3, <1>4, <1>5 DEF IInv

(* The invariant is inductive, so it holds in every reachable state. *)
LEMMA Inductive == Spec => []IInv
<1>1. IInv /\ [Next]_vars => IInv'
  <2> SUFFICES ASSUME IInv, Next PROVE IInv'
    BY StutterKeeps
  <2>1. CASE \E p \in Procs : ProvisionNext(p)
    BY <2>1, InitStepsKeeps, ResetFailedKeeps, ListByAdapterKeeps, LoadFailsKeeps, SkipKeeps,
       CreateKeeps, saveConfigSetNameKeeps, verifySubscriptionKeeps, persistStepSuccessKeeps,
       persistStepFailureKeeps, RespondKeeps DEF ProvisionNext
  <2>2. CASE \E p \in Procs : DeleteNext(p)
    BY <2>2, InitDeprovisionStepsKeeps, ListForDeprovisionKeeps, LoadForDeprovisionFailsKeeps,
       DeleteKeeps, persistDeleteKeeps, DeleteByAdapterKeeps, SoftDeleteKeeps DEF DeleteNext
  <2>3. CASE \E p \in Procs : \/ autoProvision(p) \/ softDelete(p) \/ updateRead(p)
                              \/ \E cfg \in Configs, set \in BOOLEAN : updateWrite(p, cfg, set)
    BY <2>3, autoProvisionKeeps, softDeleteKeeps, updateReadKeeps, updateWriteKeeps
  <2>4. CASE Crash
    BY <2>4, CrashKeeps
  <2> QED
    BY <2>1, <2>2, <2>3, <2>4 DEF Next
<1> QED
  BY InitIInv, <1>1, PTL DEF Spec

\* Every variable keeps its type.
THEOREM TypeCorrect == Spec => []TypeOK
<1>1. IInv => TypeOK
  BY DEF IInv
<1> QED
  BY <1>1, Inductive, PTL

\* As long as no deletion has begun, a step that is on record as completed has
\* its resource at AWS, where the step was done; a completed status means that
\* the adapter names the configuration set, unless a PUT has taken the name
\* away, and that all of it is there, unless a PUT has pointed the adapter
\* elsewhere (Provision, persistStepSuccess, provisioningStatus,
\* AdapterHandler.update).
THEOREM StatusAlwaysHonest == Spec => []StatusIsHonest
<1>1. ASSUME IInv PROVE StatusIsHonest
  <2>1. TypeOK /\ RowsTogether /\ OnRecord /\ Settled /\ Typed
    BY <1>1, TypeParts DEF IInv
  <2>2. ASSUME ~torn, provisioningStatus = "completed"
        PROVE  NameKept /\ (~moved => Everything(adapter.cfg) \subseteq aws)
    <3>1. /\ \E s \in StepNames : rows[s].status \notin {"absent", "pending"}
          /\ \A s \in StepNames : rows[s].status \notin {"failed", "pending"}
      BY <2>2 DEF provisioningStatus
    <3>2. \A s \in StepNames : rows[s].status \in {"absent", "completed"}
      BY <2>1, <3>1, RowFields DEF Typed
    <3>3. \A s \in PNames : rows[s].status = "completed"
      BY <2>1, <2>2, <3>1, <3>2, Names DEF OnRecord, RowsTogether
    <3>4. NameKept
      BY <2>1, <3>3, Names DEF OnRecord
    <3>5. ASSUME ~moved
          PROVE  \A r \in Resources : <<adapter.cfg, r>> \in aws
      <4>1. \A s \in Creates : <<adapter.cfg, ResourceOf[s]>> \in aws
        BY <2>1, <2>2, <3>3, <3>5, Names DEF OnRecord, Settled, Creates
      <4> QED
        BY <4>1, Resource DEF Creates, Resources
    <3> QED
      BY <3>4, <3>5 DEF Everything
  <2> QED
    BY <2>1, <2>2 DEF OnRecord, StatusIsHonest
<1> QED
  BY <1>1, Inductive, PTL

\* A call that is answered has registered its topic and left everything in place,
\* whatever earlier calls, crashes and lost statements left to it: where the
\* config it loaded points to unless it skipped a step that was done elsewhere,
\* and with the name saved unless a PUT has taken it away (Provision,
\* registerSNSBinding).
THEOREM AnswerAlwaysReal == Spec => []AnsweredIsReal
<1>1. ASSUME IInv, NEW p \in Procs, Answered(p)
      PROVE  /\ \E c \in bound : torn \/ <<c, "topic">> \in aws
             /\ ~torn => NameKept /\ (~Away(p) => proc[p].cfg \in bound /\ Everything(proc[p].cfg) \subseteq aws)
  <2>1. ProgressIsReal /\ proc[p].pc = "step" /\ proc[p].i > 6 /\ proc[p] \in Records
    BY <1>1, Names, TypeParts DEF IInv, Answered
  <2>2. /\ \A j \in 1..5 : Behind(p, j)
        /\ proc[p].pc \in Stepping
    BY <2>1, Fields DEF Behind, Stepping
  <2>6. Progress(p) /\ Behind(p, 1) /\ Behind(p, 2) /\ Behind(p, 3) /\ Behind(p, 4) /\ Behind(p, 5)
    BY <1>1, <2>1, <2>2 DEF ProgressIsReal
  <2>3. /\ \A r \in Resources : Has(p, r)
        /\ NameKept /\ (~torn => proc[p].known \subseteq aws)
    <3>1. Has(p, "set") /\ Has(p, "topic") /\ Has(p, "dest") /\ Has(p, "sub")
      BY <2>6 DEF Progress
    <3>2. NameKept /\ (~torn => proc[p].known \subseteq aws)
      BY <2>2, <2>6 DEF Progress
    <3> QED
      BY <3>1, <3>2 DEF Resources
  <2>4. PICK c \in bound : <<c, "topic">> \in proc[p].known
    BY <2>6 DEF Progress
  <2>5. ASSUME ~torn, ~Away(p)
        PROVE  proc[p].cfg \in bound /\ \A r \in Resources : <<proc[p].cfg, r>> \in aws
    <3>1. \A d, r : <<d, r>> \in proc[p].known => d = proc[p].cfg
      BY <2>5 DEF Away
    <3> QED
      BY <2>3, <2>4, <2>5, <3>1 DEF Has
  <2> QED
    BY <2>3, <2>4, <2>5 DEF Everything
<1> QED
  <2>1. IInv => AnsweredIsReal
    BY <1>1 DEF AnsweredIsReal
  <2> QED
    BY <2>1, Inductive, PTL

\* A call fails only if it meets a failure itself, the adapter is deleted, a
\* deprovisioning has run, or a step it skips was done where the adapter no
\* longer points to: otherwise resuming works from whatever earlier calls left.
THEOREM RetryAlwaysCompletes == Spec => []RetryCompletes
<1>1. IInv => RetryCompletes
  BY DEF IInv
<1> QED
  BY <1>1, Inductive, PTL

\* What a deletion leaves at AWS is on record as failed or could not be addressed,
\* for want of an ARN or because the adapter points elsewhere by now, however
\* deletions overlap and whichever of their calls fail (Deprovision).
THEOREM NothingEverLeaks == Spec => []NothingLeaks
<1>1. ASSUME IInv PROVE NothingLeaks
  <2> SUFFICES ASSUME ~adapter.live, ~excused, NEW x \in aws \ orphans
               PROVE  \E s \in ToSet(DeprovisionSteps) :
                        ResourceOf[s] = x[2] /\ rows[s].status = "failed"
    BY DEF NothingLeaks
  <2>1. \A j \in 1..4 : Accounted(j)
    BY <1>1 DEF IInv, RemovalIsReal
  <2>2. x[1] \in Configs /\ x[2] \in Resources /\ x = <<x[1], x[2]>>
    BY <1>1, TypeParts DEF IInv, Typed
  <2>3. \E j \in 1..4 : RemovedAt(j) = x[2]
    <3>1. RemovedAt(1) = "sub" /\ RemovedAt(2) = "dest" /\ RemovedAt(3) = "topic"
          /\ RemovedAt(4) = "set"
      BY Names, Resource DEF RemovedAt
    <3> QED
      BY <2>2, <3>1 DEF Resources
  <2>4. PICK j \in 1..4 : RemovedAt(j) = x[2]
    BY <2>3
  <2>5. rows[DeprovisionSteps[j]].status = "failed" /\ ResourceOf[DeprovisionSteps[j]] = x[2]
    BY <2>1, <2>2, <2>4 DEF Accounted, Gone, RemovedAt
  <2>6. DeprovisionSteps[j] \in DNames
    BY Names
  <2> QED
    BY <2>5, <2>6 DEF DNames
<1> QED
  BY <1>1, Inductive, PTL
=============================================================================
