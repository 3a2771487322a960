------------------------ MODULE EmailDeliveryProofs ------------------------
(***************************************************************************)
(* Proofs about EmailDelivery, for every set of emails, every number of    *)
(* attempts and every combination of faults.                               *)
(***************************************************************************)
EXTENDS EmailDelivery, TLAPS

\* Steps at which an attempt owns the row and has not recorded a delivery.
Owning == {"payload", "check", "suppress", "prepare", "deliver", "senderr", "record"}

\* The statuses this module can produce.
Reached == {"new", "queued", "processing", "sent", "failed", "suppressed", "purged"}

(***************************************************************************)
(* The inductive invariant.  A type invariant says nothing about what an   *)
(* attempt knows when it calls the provider; that knowledge is what each   *)
(* program counter guarantees about the row.                               *)
(***************************************************************************)

\* A job runs exactly while an attempt (or what is left of it) exists, and a
\* row without a job has never been fetched.
JobShape ==
    \A e \in Emails :
        /\ pc[e] # "idle" <=> job[e] = "running"
        /\ job[e] = "available" => attempt[e] < MaxAttempts
        /\ pc[e] # "idle" => attempt[e] >= 1
        /\ status[e] = "new" => job[e] = "none" /\ attempt[e] = 0 /\ events[e] = {}

\* Deliveries are charged to attempts before they happen.
Charged ==
    \A e \in Emails :
        /\ accepted[e] <= attempt[e]
        /\ pc[e] \in {"load", "recover", "limit", "claim", "payload", "check",
                      "suppress", "prepare", "deliver", "snooze"} => accepted[e] < attempt[e]
        /\ pc[e] \in {"record", "mark"} => accepted[e] >= 1
        /\ pmid[e] # 0 => pmid[e] = accepted[e]

\* What the row looks like at each step of the attempt.
RowAtStep ==
    \A e \in Emails :
        /\ status[e] \in Reached
        /\ status[e] \in {"new", "queued"} => pmid[e] = 0
        /\ status[e] = "sent" =>
              accepted[e] > 0 /\ (pmid[e] = accepted[e] \/ e \in nameless)
        /\ pc[e] \in Owning \union {"mark"} => status[e] \in {"processing", "purged"}
        /\ pc[e] \in Owning /\ status[e] = "processing" => age[e] = "fresh"
        /\ pc[e] \in Owning => pmid[e] = 0
        /\ pc[e] = "recover" => pmid[e] # 0
        /\ pc[e] = "mark" => pmid[e] = accepted[e] \/ e \in nameless
        /\ pc[e] = "mark" /\ status[e] = "processing" => age[e] = "fresh"
        /\ pc[e] \in {"limit", "claim"} => pmid[e] = 0
        /\ pc[e] = "load" => ~rec[e]
        /\ pc[e] = "limit" /\ rec[e] =>
              /\ status[e] \in {"processing", "purged"}
              /\ status[e] = "processing" => age[e] = "fresh"

\* A listed recipient is out of reach of the steps after the re-check.
HeldAtStep ==
    /\ held \subseteq listed
    /\ \A e \in Emails : pc[e] \in {"prepare", "deliver"} => e \notin held

\* A row still in processing although its end is already in the log belongs to
\* an attempt that is over, or that can only fail it again.
LoggedEnd(e) == "failed" \in events[e] \/ "suppressed" \in events[e]

EventsAtStep ==
    /\ EventsAgreeWithStatus
    /\ \A e \in Emails :
          /\ pc[e] = "fail" => pmid[e] = 0 /\ status[e] \in {"processing", "failed", "purged"}
          /\ status[e] = "processing" /\ LoggedEnd(e) =>
                /\ pmid[e] = 0
                /\ \/ pc[e] \in {"cancel", "crashed"}
                   \/ pc[e] = "idle" /\ job[e] \in {"cancelled", "discarded"}
                   \/ pc[e] \in {"idle", "load", "fail"} /\ age[e] = "dead"

CoreInv == TypeOK /\ JobShape /\ Charged /\ RowAtStep

IInv == CoreInv /\ HeldAtStep /\ EventsAtStep
-----------------------------------------------------------------------------

\* The invariant holds before the first email is written.
LEMMA InitIInv == Init => IInv
  BY MaxAttemptsAssumption
     DEF Init, IInv, CoreInv, TypeOK, JobShape, Charged, RowAtStep, HeldAtStep, EventsAtStep,
         EventsAgreeWithStatus, LoggedEnd, Statuses, Ages, EventTypes, JobStates, Steps,
         Reached, Owning

\* Job, count and row: every action keeps what is known at the step it leads to.
LEMMA CoreStep == CoreInv /\ [Next]_vars => CoreInv'
<1> SUFFICES ASSUME CoreInv, [Next]_vars PROVE CoreInv'
  OBVIOUS
<1> USE MaxAttemptsAssumption
        DEF CoreInv, TypeOK, JobShape, Charged, RowAtStep, Statuses, Ages, EventTypes,
            JobStates, Steps, Reached, Owning, rowVars, jobVars, listVars, attemptLocal, GoTo
<1>1. ASSUME NEW e \in Emails, EvaluateSuppression(e) PROVE CoreInv'
  BY <1>1 DEF EvaluateSuppression
<1>2. ASSUME NEW e \in Emails, CreateQueued(e) PROVE CoreInv'
  BY <1>2 DEF CreateQueued
<1>3. ASSUME NEW e \in Emails, CreateSuppressed(e) PROVE CoreInv'
  BY <1>3 DEF CreateSuppressed
<1>4. ASSUME NEW e \in Emails, List(e) PROVE CoreInv'
  BY <1>4 DEF List
<1>5. ASSUME NEW e \in Emails, Unlist(e) PROVE CoreInv'
  BY <1>5 DEF Unlist
<1>6. ASSUME NEW e \in Emails, OptOut(e) PROVE CoreInv'
  BY <1>6 DEF OptOut
<1>7. ASSUME NEW e \in Emails, Fetch(e) PROVE CoreInv'
  BY <1>7 DEF Fetch
<1>8. ASSUME NEW e \in Emails, Finish(e) PROVE CoreInv'
  BY <1>8 DEF Finish, AfterError
<1>9. ASSUME NEW e \in Emails, Rescue(e) PROVE CoreInv'
  BY <1>9 DEF Rescue, AfterError
<1>10. ASSUME NEW e \in Emails, Crash(e) PROVE CoreInv'
  BY <1>10 DEF Crash
<1>11. ASSUME NEW e \in Emails, Age(e) PROVE CoreInv'
  BY <1>11 DEF Age
<1>12. ASSUME NEW e \in Emails, Sweep(e) PROVE CoreInv'
  BY <1>12 DEF Sweep
<1>13. ASSUME NEW e \in Emails, Load(e) PROVE CoreInv'
  <2> DEFINE InProgress == status[e] = "processing"
  <2>1. CASE InProgress /\ pmid[e] = 0 /\ age[e] = "fresh" /\ rec' = [rec EXCEPT ![e] = TRUE]
    BY <1>13, <2>1 DEF Load
  <2>2. CASE InProgress /\ UNCHANGED rec
    BY <1>13, <2>2 DEF Load
  <2>3. CASE ~InProgress
    BY <1>13, <2>3 DEF Load
  <2>4. QED
    BY <1>13, <2>1, <2>2, <2>3 DEF Load
<1>14. ASSUME NEW e \in Emails, Recover(e) PROVE CoreInv'
  BY <1>14 DEF Recover, UpdateStatus, UpdateStatusFails
<1>15. ASSUME NEW e \in Emails, AcquireToken(e) PROVE CoreInv'
  BY <1>15 DEF AcquireToken
<1>16. ASSUME NEW e \in Emails, Claim(e) PROVE CoreInv'
  BY <1>16 DEF Claim, UpdateStatus, AddEvent
<1>17. ASSUME NEW e \in Emails, GetPayload(e) PROVE CoreInv'
  BY <1>17 DEF GetPayload
<1>18. ASSUME NEW e \in Emails, IsSuppressed(e) PROVE CoreInv'
  BY <1>18 DEF IsSuppressed
<1>19. ASSUME NEW e \in Emails, MarkSuppressed(e) PROVE CoreInv'
  BY <1>19 DEF MarkSuppressed, UpdateStatus, UpdateStatusFails, AddEvent
<1>20. ASSUME NEW e \in Emails, Prepare(e) PROVE CoreInv'
  BY <1>20 DEF Prepare
<1>21. ASSUME NEW e \in Emails, Deliver(e) PROVE CoreInv'
  BY <1>21 DEF Deliver
<1>22. ASSUME NEW e \in Emails, HandleSendError(e) PROVE CoreInv'
  BY <1>22 DEF HandleSendError
<1>23. ASSUME NEW e \in Emails, SetProviderMessageID(e) PROVE CoreInv'
  BY <1>23 DEF SetProviderMessageID
<1>24. ASSUME NEW e \in Emails, MarkSent(e) PROVE CoreInv'
  BY <1>24 DEF MarkSent, UpdateStatus, UpdateStatusFails, AddEvent
<1>25. ASSUME NEW e \in Emails, FailPermanently(e) PROVE CoreInv'
  BY <1>25 DEF FailPermanently, UpdateStatus, UpdateStatusFails, AddEvent
<1>26. ASSUME PurgeWorkspaceRuntime PROVE CoreInv'
  BY <1>26 DEF PurgeWorkspaceRuntime
<1>27. ASSUME UNCHANGED vars PROVE CoreInv'
  BY <1>27 DEF vars
<1>28. QED
  BY <1>1, <1>2, <1>3, <1>4, <1>5, <1>6, <1>7, <1>8, <1>9, <1>10, <1>11, <1>12, <1>13, <1>14, <1>15, <1>16, <1>17, <1>18, <1>19, <1>20, <1>21, <1>22, <1>23, <1>24, <1>25, <1>26, <1>27
     DEF Next, Service, Lists, River, Clock, Work

\* No action takes a held email past the re-check.
LEMMA HeldStep == CoreInv /\ HeldAtStep /\ [Next]_vars => HeldAtStep'
<1> SUFFICES ASSUME CoreInv, HeldAtStep, [Next]_vars PROVE HeldAtStep'
  OBVIOUS
<1> USE DEF HeldAtStep, CoreInv, TypeOK, Steps, rowVars, jobVars, listVars, attemptLocal, GoTo
<1>1. ASSUME NEW e \in Emails, EvaluateSuppression(e) PROVE HeldAtStep'
  BY <1>1 DEF EvaluateSuppression
<1>2. ASSUME NEW e \in Emails, CreateQueued(e) PROVE HeldAtStep'
  BY <1>2 DEF CreateQueued
<1>3. ASSUME NEW e \in Emails, CreateSuppressed(e) PROVE HeldAtStep'
  BY <1>3 DEF CreateSuppressed
<1>4. ASSUME NEW e \in Emails, List(e) PROVE HeldAtStep'
  BY <1>4 DEF List
<1>5. ASSUME NEW e \in Emails, Unlist(e) PROVE HeldAtStep'
  BY <1>5 DEF Unlist
<1>6. ASSUME NEW e \in Emails, OptOut(e) PROVE HeldAtStep'
  BY <1>6 DEF OptOut
<1>7. ASSUME NEW e \in Emails, Fetch(e) PROVE HeldAtStep'
  BY <1>7 DEF Fetch
<1>8. ASSUME NEW e \in Emails, Finish(e) PROVE HeldAtStep'
  BY <1>8 DEF Finish, AfterError
<1>9. ASSUME NEW e \in Emails, Rescue(e) PROVE HeldAtStep'
  BY <1>9 DEF Rescue, AfterError
<1>10. ASSUME NEW e \in Emails, Crash(e) PROVE HeldAtStep'
  BY <1>10 DEF Crash
<1>11. ASSUME NEW e \in Emails, Age(e) PROVE HeldAtStep'
  BY <1>11 DEF Age
<1>12. ASSUME NEW e \in Emails, Sweep(e) PROVE HeldAtStep'
  BY <1>12 DEF Sweep
<1>13. ASSUME NEW e \in Emails, Load(e) PROVE HeldAtStep'
  BY <1>13 DEF Load
<1>14. ASSUME NEW e \in Emails, Recover(e) PROVE HeldAtStep'
  BY <1>14 DEF Recover, UpdateStatus, UpdateStatusFails
<1>15. ASSUME NEW e \in Emails, AcquireToken(e) PROVE HeldAtStep'
  BY <1>15 DEF AcquireToken
<1>16. ASSUME NEW e \in Emails, Claim(e) PROVE HeldAtStep'
  BY <1>16 DEF Claim, UpdateStatus, AddEvent
<1>17. ASSUME NEW e \in Emails, GetPayload(e) PROVE HeldAtStep'
  BY <1>17 DEF GetPayload
<1>18. ASSUME NEW e \in Emails, IsSuppressed(e) PROVE HeldAtStep'
  BY <1>18 DEF IsSuppressed
<1>19. ASSUME NEW e \in Emails, MarkSuppressed(e) PROVE HeldAtStep'
  BY <1>19 DEF MarkSuppressed, UpdateStatus, UpdateStatusFails, AddEvent
<1>20. ASSUME NEW e \in Emails, Prepare(e) PROVE HeldAtStep'
  BY <1>20 DEF Prepare
<1>21. ASSUME NEW e \in Emails, Deliver(e) PROVE HeldAtStep'
  BY <1>21 DEF Deliver
<1>22. ASSUME NEW e \in Emails, HandleSendError(e) PROVE HeldAtStep'
  BY <1>22 DEF HandleSendError
<1>23. ASSUME NEW e \in Emails, SetProviderMessageID(e) PROVE HeldAtStep'
  BY <1>23 DEF SetProviderMessageID
<1>24. ASSUME NEW e \in Emails, MarkSent(e) PROVE HeldAtStep'
  BY <1>24 DEF MarkSent, UpdateStatus, UpdateStatusFails, AddEvent
<1>25. ASSUME NEW e \in Emails, FailPermanently(e) PROVE HeldAtStep'
  BY <1>25 DEF FailPermanently, UpdateStatus, UpdateStatusFails, AddEvent
<1>26. ASSUME PurgeWorkspaceRuntime PROVE HeldAtStep'
  BY <1>26 DEF PurgeWorkspaceRuntime
<1>27. ASSUME UNCHANGED vars PROVE HeldAtStep'
  BY <1>27 DEF vars
<1>28. QED
  BY <1>1, <1>2, <1>3, <1>4, <1>5, <1>6, <1>7, <1>8, <1>9, <1>10, <1>11, <1>12, <1>13, <1>14, <1>15, <1>16, <1>17, <1>18, <1>19, <1>20, <1>21, <1>22, <1>23, <1>24, <1>25, <1>26, <1>27
     DEF Next, Service, Lists, River, Clock, Work

\* The log and the row stay in agreement, lost writes included.
LEMMA EventsStep == CoreInv /\ EventsAtStep /\ [Next]_vars => EventsAtStep'
<1> SUFFICES ASSUME CoreInv, EventsAtStep, [Next]_vars PROVE EventsAtStep'
  OBVIOUS
<1> USE DEF EventsAtStep, EventsAgreeWithStatus, LoggedEnd, CoreInv,
            TypeOK, JobShape, Charged, RowAtStep, Statuses, Ages, EventTypes,
            JobStates, Steps, Reached, Owning, rowVars, jobVars, listVars, attemptLocal, GoTo
<1>1. ASSUME NEW e \in Emails, EvaluateSuppression(e) PROVE EventsAtStep'
  BY <1>1 DEF EvaluateSuppression
<1>2. ASSUME NEW e \in Emails, CreateQueued(e) PROVE EventsAtStep'
  BY <1>2 DEF CreateQueued
<1>3. ASSUME NEW e \in Emails, CreateSuppressed(e) PROVE EventsAtStep'
  BY <1>3 DEF CreateSuppressed
<1>4. ASSUME NEW e \in Emails, List(e) PROVE EventsAtStep'
  BY <1>4 DEF List
<1>5. ASSUME NEW e \in Emails, Unlist(e) PROVE EventsAtStep'
  BY <1>5 DEF Unlist
<1>6. ASSUME NEW e \in Emails, OptOut(e) PROVE EventsAtStep'
  BY <1>6 DEF OptOut
<1>7. ASSUME NEW e \in Emails, Fetch(e) PROVE EventsAtStep'
  BY <1>7 DEF Fetch
<1>8. ASSUME NEW e \in Emails, Finish(e) PROVE EventsAtStep'
  BY <1>8 DEF Finish, AfterError
<1>9. ASSUME NEW e \in Emails, Rescue(e) PROVE EventsAtStep'
  BY <1>9 DEF Rescue, AfterError
<1>10. ASSUME NEW e \in Emails, Crash(e) PROVE EventsAtStep'
  BY <1>10 DEF Crash
<1>11. ASSUME NEW e \in Emails, Age(e) PROVE EventsAtStep'
  BY <1>11 DEF Age
<1>12. ASSUME NEW e \in Emails, Sweep(e) PROVE EventsAtStep'
  BY <1>12 DEF Sweep
<1>13. ASSUME NEW e \in Emails, Load(e) PROVE EventsAtStep'
  BY <1>13 DEF Load
<1>14. ASSUME NEW e \in Emails, Recover(e) PROVE EventsAtStep'
  BY <1>14 DEF Recover, UpdateStatus, UpdateStatusFails
<1>15. ASSUME NEW e \in Emails, AcquireToken(e) PROVE EventsAtStep'
  BY <1>15 DEF AcquireToken
<1>16. ASSUME NEW e \in Emails, Claim(e) PROVE EventsAtStep'
  BY <1>16 DEF Claim, UpdateStatus, AddEvent
<1>17. ASSUME NEW e \in Emails, GetPayload(e) PROVE EventsAtStep'
  BY <1>17 DEF GetPayload
<1>18. ASSUME NEW e \in Emails, IsSuppressed(e) PROVE EventsAtStep'
  BY <1>18 DEF IsSuppressed
<1>19. ASSUME NEW e \in Emails, MarkSuppressed(e) PROVE EventsAtStep'
  BY <1>19 DEF MarkSuppressed, UpdateStatus, UpdateStatusFails, AddEvent
<1>20. ASSUME NEW e \in Emails, Prepare(e) PROVE EventsAtStep'
  BY <1>20 DEF Prepare
<1>21. ASSUME NEW e \in Emails, Deliver(e) PROVE EventsAtStep'
  BY <1>21 DEF Deliver
<1>22. ASSUME NEW e \in Emails, HandleSendError(e) PROVE EventsAtStep'
  BY <1>22 DEF HandleSendError
<1>23. ASSUME NEW e \in Emails, SetProviderMessageID(e) PROVE EventsAtStep'
  BY <1>23 DEF SetProviderMessageID
<1>24. ASSUME NEW e \in Emails, MarkSent(e) PROVE EventsAtStep'
  BY <1>24 DEF MarkSent, UpdateStatus, UpdateStatusFails, AddEvent
<1>25. ASSUME NEW e \in Emails, FailPermanently(e) PROVE EventsAtStep'
  BY <1>25 DEF FailPermanently, UpdateStatus, UpdateStatusFails, AddEvent
<1>26. ASSUME PurgeWorkspaceRuntime PROVE EventsAtStep'
  BY <1>26 DEF PurgeWorkspaceRuntime
<1>27. ASSUME UNCHANGED vars PROVE EventsAtStep'
  BY <1>27 DEF vars
<1>28. QED
  BY <1>1, <1>2, <1>3, <1>4, <1>5, <1>6, <1>7, <1>8, <1>9, <1>10, <1>11, <1>12, <1>13, <1>14, <1>15, <1>16, <1>17, <1>18, <1>19, <1>20, <1>21, <1>22, <1>23, <1>24, <1>25, <1>26, <1>27
     DEF Next, Service, Lists, River, Clock, Work

\* The invariant is inductive.
LEMMA StepIInv == IInv /\ [Next]_vars => IInv'
  BY CoreStep, HeldStep, EventsStep DEF IInv

\* It holds in every reachable state.
LEMMA Invariance == Spec => []IInv
  BY InitIInv, StepIInv, PTL DEF Spec
-----------------------------------------------------------------------------
\* The state of the rows, the jobs and the attempts is well-typed: in particular
\* River never charges more than MaxAttempts attempts and neither the provider
\* message id nor the deliveries leave that range.
THEOREM TypeCorrect == Spec => []TypeOK
  BY Invariance, PTL DEF IInv, CoreInv

\* An email reported sent carries the id of the last message the provider accepted
\* for it, or that message came without one.
THEOREM SentIsRecordedAlways == Spec => []SentIsRecorded
<1>1. IInv => SentIsRecorded
  BY DEF IInv, CoreInv, TypeOK, Charged, RowAtStep, SentIsRecorded
<1>2. QED
  BY <1>1, Invariance, PTL

\* However often an email is retried, rescued or answered too late, the provider
\* accepts at most one message per charged attempt.
THEOREM DeliveriesBoundedAlways == Spec => []DeliveriesBounded
<1>1. IInv => DeliveriesBounded
  BY DEF IInv, CoreInv, Charged, DeliveriesBounded
<1>2. QED
  BY <1>1, Invariance, PTL

\* The event log agrees with the row in every reachable state, lost writes included.
THEOREM EventsAgreeAlways == Spec => []EventsAgreeWithStatus
  BY Invariance, PTL DEF IInv, EventsAtStep

(***************************************************************************)
(* Only Deliver changes accepted; the rest is what IInv says of a state in *)
(* which Deliver is enabled.                                               *)
(***************************************************************************)
LEMMA OnlyDeliverAccepts ==
    ASSUME TypeOK, [Next]_vars, NEW e \in Emails, accepted'[e] # accepted[e]
    PROVE  pc[e] = "deliver"
<1> USE DEF TypeOK, rowVars, jobVars, listVars, attemptLocal
<1>1. ASSUME NEW f \in Emails, Deliver(f) PROVE pc[e] = "deliver"
  BY <1>1 DEF Deliver
<1>2. ASSUME Next, \A f \in Emails : ~Deliver(f) PROVE UNCHANGED accepted
  <2>1. ASSUME NEW f \in Emails, Service(f) \/ Lists(f) \/ River(f) \/ Crash(f) \/ Clock(f)
        PROVE  UNCHANGED accepted
    BY <2>1 DEF Service, EvaluateSuppression, CreateQueued, CreateSuppressed, Lists, List, Unlist,
                OptOut, River, Fetch, Finish, Rescue, Crash, Clock, Age, Sweep
  <2>2. ASSUME NEW f \in Emails, Work(f) PROVE UNCHANGED accepted
    BY <1>2, <2>2 DEF Work, Load, Recover, AcquireToken, Claim, GetPayload, IsSuppressed,
                MarkSuppressed, Prepare, HandleSendError, SetProviderMessageID, MarkSent,
                FailPermanently
  <2>3. QED
    BY <1>2, <2>1, <2>2 DEF Next, PurgeWorkspaceRuntime
<1>3. QED
  BY <1>1, <1>2 DEF vars

\* Once the provider message id is stored the email is never handed over again.
THEOREM NeverResent == Spec => NeverResentOnceRecorded
<1>1. IInv /\ [Next]_vars => [\A e \in Emails : pmid[e] # 0 => accepted'[e] = accepted[e]]_vars
  BY OnlyDeliverAccepts DEF IInv, CoreInv, RowAtStep, Owning
<1>2. QED
  BY <1>1, Invariance, PTL DEF Spec, NeverResentOnceRecorded

\* The provider is only called for an email the attempt holds in processing, or
\* whose row a runtime reset has deleted.
THEOREM DeliveredWhileClaimed == Spec => DeliveredOnlyWhileClaimed
<1>1. IInv /\ [Next]_vars =>
        [\A e \in Emails :
            accepted'[e] # accepted[e] => status[e] \in {"processing", "purged"}]_vars
  BY OnlyDeliverAccepts DEF IInv, CoreInv, RowAtStep, Owning
<1>2. QED
  BY <1>1, Invariance, PTL DEF Spec, DeliveredOnlyWhileClaimed

\* A recipient listed throughout the attempt is not written to unless the re-check
\* of the lists failed.
THEOREM SuppressionIsHonoured == Spec => SuppressionHonoured
<1>1. IInv /\ [Next]_vars =>
        [\A e \in Emails : accepted'[e] # accepted[e] => e \notin held]_vars
  BY OnlyDeliverAccepts DEF IInv, CoreInv, HeldAtStep
<1>2. QED
  BY <1>1, Invariance, PTL DEF Spec, SuppressionHonoured
-----------------------------------------------------------------------------
(***************************************************************************)
(* The end of a job.  Without crashes, lost writes and failed lookups an   *)
(* attempt ends its job only behind a settled row: it finished or gave up  *)
(* the row itself, or found it settled by somebody else.                   *)
(***************************************************************************)
Settled(e) == status[e] \notin {"queued", "processing"}

SettledAtStep ==
    /\ JobEndSettlesEmail
    /\ \A e \in Emails :
          /\ pc[e] # "crashed"
          /\ pc[e] \in {"complete", "cancel"} => Settled(e)
          /\ pc[e] = "retry" => Settled(e) \/ attempt[e] < MaxAttempts
          /\ pc[e] \in {"limit", "claim"} /\ ~rec[e] => status[e] # "processing"
          /\ pc[e] = "recover" => status[e] # "queued"
          /\ pc[e] = "claim" => ~rec[e]

\* Every step keeps SettledAtStep if the provider is the only source of trouble.
LEMMA SettledStep ==
    ASSUME Faults \subseteq {"ambiguous", "noid"}, IInv, SettledAtStep, [Next]_vars
    PROVE  SettledAtStep'
<1> USE DEF SettledAtStep, JobEndSettlesEmail, Settled, IInv, CoreInv, EventsAtStep,
            TypeOK, JobShape, RowAtStep, Steps, Reached, Owning,
            rowVars, jobVars, listVars, attemptLocal, GoTo
<1>1. ASSUME NEW e \in Emails, EvaluateSuppression(e) PROVE SettledAtStep'
  BY <1>1 DEF EvaluateSuppression
<1>2. ASSUME NEW e \in Emails, CreateQueued(e) PROVE SettledAtStep'
  BY <1>2 DEF CreateQueued
<1>3. ASSUME NEW e \in Emails, CreateSuppressed(e) PROVE SettledAtStep'
  BY <1>3 DEF CreateSuppressed
<1>4. ASSUME NEW e \in Emails, List(e) PROVE SettledAtStep'
  BY <1>4 DEF List
<1>5. ASSUME NEW e \in Emails, Unlist(e) PROVE SettledAtStep'
  BY <1>5 DEF Unlist
<1>6. ASSUME NEW e \in Emails, OptOut(e) PROVE SettledAtStep'
  BY <1>6 DEF OptOut
<1>7. ASSUME NEW e \in Emails, Fetch(e) PROVE SettledAtStep'
  BY <1>7 DEF Fetch
<1>8. ASSUME NEW e \in Emails, Finish(e) PROVE SettledAtStep'
  BY <1>8 DEF Finish, AfterError
<1>9. ASSUME NEW e \in Emails, Rescue(e) PROVE SettledAtStep'
  BY <1>9 DEF Rescue, AfterError
<1>10. ASSUME NEW e \in Emails, Crash(e) PROVE SettledAtStep'
  BY <1>10 DEF Crash
<1>11. ASSUME NEW e \in Emails, Age(e) PROVE SettledAtStep'
  BY <1>11 DEF Age
<1>12. ASSUME NEW e \in Emails, Sweep(e) PROVE SettledAtStep'
  BY <1>12 DEF Sweep
<1>13. ASSUME NEW e \in Emails, Load(e) PROVE SettledAtStep'
  BY <1>13 DEF Load
<1>14. ASSUME NEW e \in Emails, Recover(e) PROVE SettledAtStep'
  BY <1>14 DEF Recover, UpdateStatus, UpdateStatusFails
<1>15. ASSUME NEW e \in Emails, AcquireToken(e) PROVE SettledAtStep'
  BY <1>15 DEF AcquireToken
<1>16. ASSUME NEW e \in Emails, Claim(e) PROVE SettledAtStep'
  BY <1>16 DEF Claim, UpdateStatus, AddEvent
<1>17. ASSUME NEW e \in Emails, GetPayload(e) PROVE SettledAtStep'
  BY <1>17 DEF GetPayload
<1>18. ASSUME NEW e \in Emails, IsSuppressed(e) PROVE SettledAtStep'
  BY <1>18 DEF IsSuppressed
<1>19. ASSUME NEW e \in Emails, MarkSuppressed(e) PROVE SettledAtStep'
  BY <1>19 DEF MarkSuppressed, UpdateStatus, UpdateStatusFails
<1>20. ASSUME NEW e \in Emails, Prepare(e) PROVE SettledAtStep'
  BY <1>20 DEF Prepare
<1>21. ASSUME NEW e \in Emails, Deliver(e) PROVE SettledAtStep'
  BY <1>21 DEF Deliver
<1>22. ASSUME NEW e \in Emails, HandleSendError(e) PROVE SettledAtStep'
  BY <1>22 DEF HandleSendError
<1>23. ASSUME NEW e \in Emails, SetProviderMessageID(e) PROVE SettledAtStep'
  BY <1>23 DEF SetProviderMessageID
<1>24. ASSUME NEW e \in Emails, MarkSent(e) PROVE SettledAtStep'
  BY <1>24 DEF MarkSent, UpdateStatus, UpdateStatusFails
<1>25. ASSUME NEW e \in Emails, FailPermanently(e) PROVE SettledAtStep'
  BY <1>25 DEF FailPermanently, UpdateStatus, UpdateStatusFails
<1>26. ASSUME PurgeWorkspaceRuntime PROVE SettledAtStep'
  BY <1>26 DEF PurgeWorkspaceRuntime
<1>27. ASSUME UNCHANGED vars PROVE SettledAtStep'
  BY <1>27 DEF vars
<1> QED
  BY <1>1, <1>2, <1>3, <1>4, <1>5, <1>6, <1>7, <1>8, <1>9, <1>10, <1>11, <1>12, <1>13, <1>14,
     <1>15, <1>16, <1>17, <1>18, <1>19, <1>20, <1>21, <1>22, <1>23, <1>24, <1>25, <1>26, <1>27
     DEF Next, Service, Lists, River, Clock, Work

\* When the provider is the only source of trouble, a job that is over has settled
\* its email: no row is left queued or processing without a job to carry it.
THEOREM JobEndAlwaysSettles ==
    Faults \subseteq {"ambiguous", "noid"} => (Spec => []JobEndSettlesEmail)
<1> SUFFICES ASSUME Faults \subseteq {"ambiguous", "noid"} PROVE Spec => []JobEndSettlesEmail
  OBVIOUS
<1>1. Init => SettledAtStep
  BY DEF Init, SettledAtStep, JobEndSettlesEmail, Settled
<1>2. IInv /\ SettledAtStep /\ [Next]_vars => SettledAtStep'
  BY SettledStep
<1>3. SettledAtStep => JobEndSettlesEmail
  BY DEF SettledAtStep
<1> QED
  BY <1>1, <1>2, <1>3, Invariance, PTL DEF Spec
-----------------------------------------------------------------------------
(***************************************************************************)
(* Refinement.  A step that leaves accepted alone is an edge of the state  *)
(* machine, a reset, or a stutter; Deliver is Hand or a stutter.           *)
(***************************************************************************)
Handed == {e \in Emails : accepted[e] > 0}

\* A write of the row along an edge of the machine is the abstract Advance.
LEMMA AdvanceRefines ==
    ASSUME TypeOK, NEW e \in Emails, NEW s, <<status[e], s>> \in Lifecycle!Edges,
           s = "sent" => accepted[e] > 0,
           status' = [status EXCEPT ![e] = s], UNCHANGED accepted
    PROVE  Lifecycle!Next
<1>1. PICK edge \in Lifecycle!Edges : edge = <<status[e], s>>
  OBVIOUS
<1>2. edge[2] = s
  BY <1>1
<1>3. Lifecycle!Advance(e, edge[2])
  BY <1>2 DEF Lifecycle!Advance
<1>4. QED
  BY <1>1, <1>3 DEF Lifecycle!Next

\* A delivery is the abstract Hand the first time, a stutter afterwards.
LEMMA DeliverRefines ==
    ASSUME IInv, NEW e \in Emails, Deliver(e)
    PROVE  Lifecycle!Next \/ UNCHANGED <<status, Handed>>
<1>1. CASE UNCHANGED accepted
  BY <1>1 DEF Deliver, Handed, rowVars
<1>2. CASE accepted' = [accepted EXCEPT ![e] = @ + 1]
  <2>1. Handed' = Handed \union {e}
    BY <1>2 DEF Handed, IInv, CoreInv, TypeOK
  <2>2. status[e] \in {"processing", "purged"} /\ UNCHANGED status
    BY DEF Deliver, IInv, CoreInv, RowAtStep, Owning, rowVars
  <2>3. Lifecycle!Hand(e)
    BY <2>1, <2>2 DEF Lifecycle!Hand, Handed
  <2>4. QED
    BY <2>3 DEF Lifecycle!Next
<1>3. QED
  BY <1>1, <1>2 DEF Deliver

\* The service, the workers, River, the sweep and a runtime reset together
\* implement the forward-only state machine of EmailLifecycle.
THEOREM ImplementsLifecycle == Spec => FollowsLifecycle
<1>1. Init => Lifecycle!Init
  BY DEF Init, Lifecycle!Init
<1>2. IInv /\ [Next]_vars => [Lifecycle!Next]_<<status, Handed>>
  <2> SUFFICES ASSUME IInv, [Next]_vars PROVE Lifecycle!Next \/ UNCHANGED <<status, Handed>>
    OBVIOUS
  <2> USE DEF IInv, CoreInv, rowVars, jobVars, listVars, attemptLocal
  <2>1. ASSUME NEW e \in Emails, CreateQueued(e) \/ CreateSuppressed(e) PROVE Lifecycle!Next
    BY <2>1, AdvanceRefines DEF CreateQueued, CreateSuppressed, Lifecycle!Edges
  <2>2. ASSUME NEW e \in Emails, Sweep(e) PROVE Lifecycle!Next
    BY <2>2, AdvanceRefines DEF Sweep, Lifecycle!Edges
  <2>3. ASSUME NEW e \in Emails, UNCHANGED accepted, NEW s \in {"sent", "failed", "suppressed"},
               s = "sent" => accepted[e] > 0,
               UpdateStatus(e, s, "processing") \/ UpdateStatusFails(e, "processing")
        PROVE  Lifecycle!Next \/ UNCHANGED <<status, Handed>>
    BY <2>3, AdvanceRefines DEF UpdateStatus, UpdateStatusFails, Lifecycle!Edges, Handed
  <2>4. ASSUME NEW e \in Emails, Recover(e) \/ MarkSent(e)
        PROVE  Lifecycle!Next \/ UNCHANGED <<status, Handed>>
    <3>1. accepted[e] > 0
      BY <2>4 DEF Recover, MarkSent, Charged, RowAtStep, TypeOK
    <3>2. QED
      BY <2>3, <2>4, <3>1 DEF Recover, MarkSent
  <2>5. ASSUME NEW e \in Emails, MarkSuppressed(e) \/ FailPermanently(e)
        PROVE  Lifecycle!Next \/ UNCHANGED <<status, Handed>>
    BY <2>3, <2>5 DEF MarkSuppressed, FailPermanently
  <2>6. ASSUME NEW e \in Emails, Claim(e) PROVE Lifecycle!Next \/ UNCHANGED <<status, Handed>>
    BY <2>6, AdvanceRefines DEF Claim, UpdateStatus, Lifecycle!Edges, Handed
  <2>7. ASSUME NEW e \in Emails,
               \/ EvaluateSuppression(e) \/ Lists(e) \/ River(e) \/ Crash(e) \/ Age(e)
               \/ Load(e) \/ AcquireToken(e) \/ GetPayload(e) \/ IsSuppressed(e) \/ Prepare(e)
               \/ HandleSendError(e) \/ SetProviderMessageID(e)
        PROVE  UNCHANGED <<status, accepted>>
    BY <2>7 DEF EvaluateSuppression, Lists, List, Unlist, OptOut, River, Fetch, Finish, Rescue,
                Crash, Age, Load, AcquireToken, GetPayload, IsSuppressed, Prepare,
                HandleSendError, SetProviderMessageID
  <2>8. ASSUME PurgeWorkspaceRuntime PROVE Lifecycle!Next
    BY <2>8 DEF PurgeWorkspaceRuntime, Lifecycle!Next, Lifecycle!Reset
  <2>9. ASSUME UNCHANGED <<status, accepted>> PROVE UNCHANGED <<status, Handed>>
    BY <2>9 DEF Handed
  <2>10. ASSUME UNCHANGED vars PROVE UNCHANGED <<status, Handed>>
    BY <2>9, <2>10 DEF vars
  <2>11. QED
    BY <2>1, <2>2, <2>4, <2>5, <2>6, <2>7, <2>8, <2>9, <2>10, DeliverRefines
       DEF Next, Service, Clock, Work
<1>3. QED
  BY <1>1, <1>2, Invariance, PTL DEF Spec, FollowsLifecycle, Lifecycle!Spec, Handed
=============================================================================
