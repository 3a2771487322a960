----------------------- MODULE RateLimitReservation -----------------------
(***************************************************************************)
(* The send rate limit of one adapter: a token bucket in PostgreSQL, and   *)
(* in the worker process a reservation that takes tokens from the bucket   *)
(* in bursts and hands them out to the send jobs.                          *)
(*                                                                         *)
(* Reservations live in a sync.Map.  A cleanup goroutine drops the expired *)
(* ones while jobs look them up: the two meet through the atomics refs and *)
(* deleting and the mutex mu, one access per step.  Memory is sequentially *)
(* consistent, as Go's atomics are.                                        *)
(***************************************************************************)
EXTENDS Integers

CONSTANTS
    Workers,       \* goroutines of the send queue that want a token
    Reservations,  \* *rateLimitReservation objects
    None,          \* no reservation in the map
    Free,          \* nobody holds the mutex
    BurstSize,     \* rateLimitBurstSize: 4 in the code
    Limits,        \* values of rate_limit_per_second an administrator may set
    MaxIssued,     \* bound on the tokens the bucket hands out
    Faults         \* {"db"}: the bucket query may fail

ASSUME ReservationAssumption ==
    /\ Reservations # {} /\ None \notin Reservations
    /\ Free \notin Workers /\ "cleaner" \notin Workers /\ Free # "cleaner"
    /\ BurstSize \in Nat \ {0} /\ Limits \subseteq Nat \ {0} /\ MaxIssued \in Nat
    /\ Faults \subseteq {"db"}

VARIABLES
    tokens, due, limit,   \* token_buckets: tokens, refill since last_refill, max_tokens
    slot,                 \* rateLimits: the reservation of the adapter
    available, touched,   \* reservation: tokens in hand, age of lastTouched
    refs, deleting, mu,   \* reservation: who added to refs, the flag, the mutex
    pc, res, hand,        \* worker: next step, its reservation, the tokens it read
    cpc, cres, cstale,    \* cleanup: next step, its reservation, its verdict
    issued, granted       \* tokens taken from the bucket; sends that were let through

bucketVars == <<tokens, due, limit>>
resVars    == <<available, touched>>
workVars   == <<pc, res, hand>>
cleanVars  == <<cpc, cres, cstale>>
vars == <<tokens, due, limit, slot, available, touched, refs, deleting, mu,
          pc, res, hand, cpc, cres, cstale, issued, granted>>

\* The value of a variable that holds no reservation yet.
AnyReservation == CHOOSE r \in Reservations : TRUE

Min(a, b) == IF a <= b THEN a ELSE b

Steps  == {"idle", "load", "ref", "check", "lock", "recheck", "inspect", "take", "burst",
           "backoff", "allow", "allowNew", "deny", "schedule"}
CSteps == {"idle", "mark", "refs", "lock", "inspect", "decide", "delete", "unmark"}

TypeOK ==
    /\ tokens \in Nat /\ due \in Nat /\ limit \in Nat
    /\ slot \in Reservations \union {None}
    /\ available \in [Reservations -> Nat]
    /\ touched \in [Reservations -> {"never", "recent", "expired"}]
    /\ refs \in [Reservations -> SUBSET Workers]
    /\ deleting \in [Reservations -> BOOLEAN]
    /\ mu \in [Reservations -> Workers \union {Free, "cleaner"}]
    /\ pc \in [Workers -> Steps] /\ res \in [Workers -> Reservations]
    /\ hand \in [Workers -> Nat]
    /\ cpc \in CSteps /\ cres \in Reservations /\ cstale \in BOOLEAN
    /\ issued \in Nat /\ granted \in Nat

Init ==
    /\ limit \in Limits /\ tokens = limit /\ due = 0
    /\ slot = None
    /\ available = [r \in Reservations |-> 0]
    /\ touched = [r \in Reservations |-> "never"]
    /\ refs = [r \in Reservations |-> {}]
    /\ deleting = [r \in Reservations |-> FALSE]
    /\ mu = [r \in Reservations |-> Free]
    /\ pc = [w \in Workers |-> "idle"]
    /\ res = [w \in Workers |-> AnyReservation]
    /\ hand = [w \in Workers |-> 0]
    /\ cpc = "idle" /\ cres = AnyReservation /\ cstale = FALSE
    /\ issued = 0 /\ granted = 0

GoTo(w, step) == pc' = [pc EXCEPT ![w] = step]
-----------------------------------------------------------------------------
(***************************************************************************)
(* The bucket: time refills it, an administrator changes the limit.        *)
(***************************************************************************)
Refill ==
    /\ issued + tokens + due < MaxIssued
    /\ due' = due + 1
    /\ UNCHANGED <<tokens, limit, slot, resVars, refs, deleting, mu, workVars, cleanVars,
                   issued, granted>>

SyncBucket(max) ==
    /\ limit # max
    /\ limit' = max
    /\ UNCHANGED <<tokens, due, slot, resVars, refs, deleting, mu, workVars, cleanVars,
                   issued, granted>>

\* Mutant: what the bucket holds is not clamped to the limit.
TakeBurst_NoClamp(n) ==
    /\ n = Min(tokens + due, BurstSize)
    /\ tokens' = tokens + due - n
    /\ due' = 0
    /\ issued' = issued + n
    /\ UNCHANGED limit

\* take_send_token_burst: refill, clamp, reserve at most what was asked for.
TakeBurst(n) ==
    LET refilled == Min(limit, tokens + due) IN
    /\ n = Min(refilled, BurstSize)
    /\ tokens' = refilled - n
    /\ due' = 0
    /\ issued' = issued + n
    /\ UNCHANGED limit
-----------------------------------------------------------------------------
(***************************************************************************)
(* acquireRateLimitToken                                                   *)
(***************************************************************************)
Start(w) ==
    /\ pc[w] = "idle"
    /\ GoTo(w, "load")
    /\ UNCHANGED <<bucketVars, slot, resVars, refs, deleting, mu, res, hand, cleanVars,
                   issued, granted>>

\* An object nothing refers to: LoadOrStore allocates one when the map has none.
Fresh(r) ==
    /\ slot # r
    /\ \A w \in Workers : pc[w] \notin {"idle", "load", "schedule"} => res[w] # r
    /\ cpc # "idle" => cres # r

LoadOrStore(w) ==
    /\ pc[w] = "load"
    /\ \/ /\ slot # None
          /\ res' = [res EXCEPT ![w] = slot]
          /\ UNCHANGED <<slot, resVars, refs, deleting>>
       \/ /\ slot = None
          /\ \E r \in Reservations : Fresh(r)
          /\ LET r == CHOOSE r \in Reservations : Fresh(r) IN
               /\ slot' = r
               /\ res' = [res EXCEPT ![w] = r]
               /\ available' = [available EXCEPT ![r] = 0]
               /\ touched' = [touched EXCEPT ![r] = "never"]
               /\ refs' = [refs EXCEPT ![r] = {}]
               /\ deleting' = [deleting EXCEPT ![r] = FALSE]
    /\ GoTo(w, "ref")
    /\ UNCHANGED <<bucketVars, mu, hand, cleanVars, issued, granted>>

AddRef(w) ==
    /\ pc[w] = "ref"
    /\ refs' = [refs EXCEPT ![res[w]] = @ \union {w}]
    /\ GoTo(w, "check")
    /\ UNCHANGED <<bucketVars, slot, resVars, deleting, mu, res, hand, cleanVars,
                   issued, granted>>

CheckDeleting(w) ==
    /\ pc[w] = "check"
    /\ GoTo(w, IF deleting[res[w]] THEN "backoff" ELSE "lock")
    /\ UNCHANGED <<bucketVars, slot, resVars, refs, deleting, mu, res, hand, cleanVars,
                   issued, granted>>

\* Mutant: the mutex is not taken.
Lock_NotExclusive(w) ==
    /\ pc[w] = "lock"
    /\ GoTo(w, "recheck")
    /\ UNCHANGED <<bucketVars, slot, resVars, refs, deleting, mu, res, hand, cleanVars,
                   issued, granted>>

Lock(w) ==
    /\ pc[w] = "lock"
    /\ mu[res[w]] = Free
    /\ mu' = [mu EXCEPT ![res[w]] = w]
    /\ GoTo(w, "recheck")
    /\ UNCHANGED <<bucketVars, slot, resVars, refs, deleting, res, hand, cleanVars,
                   issued, granted>>

\* The second look at the flag, under the mutex.
Recheck(w) ==
    /\ pc[w] = "recheck"
    /\ IF deleting[res[w]]
       THEN GoTo(w, "backoff") /\ mu' = [mu EXCEPT ![res[w]] = Free]
       ELSE GoTo(w, "inspect") /\ UNCHANGED mu
    /\ UNCHANGED <<bucketVars, slot, resVars, refs, deleting, res, hand, cleanVars,
                   issued, granted>>

\* A reservation past its TTL has lost its tokens; the goroutine's clock was read
\* earlier, so it may still take an expired one for recent.
Inspect(w) ==
    LET r == res[w] IN
    /\ pc[w] = "inspect"
    /\ touched' = [touched EXCEPT ![r] = IF @ = "never" THEN "recent" ELSE @]
    /\ \/ UNCHANGED available
       \/ touched[r] = "expired" /\ available' = [available EXCEPT ![r] = 0]
    /\ hand' = [hand EXCEPT ![w] = available'[r]]
    /\ GoTo(w, IF available'[r] > 0 THEN "take" ELSE "burst")
    /\ UNCHANGED <<bucketVars, slot, refs, deleting, mu, res, cleanVars, issued, granted>>

Unlock(w) == mu' = [mu EXCEPT ![res[w]] = Free]

Take(w) ==
    /\ pc[w] = "take"
    /\ available' = [available EXCEPT ![res[w]] = hand[w] - 1]
    /\ touched' = [touched EXCEPT ![res[w]] = "recent"]
    /\ granted' = granted + 1
    /\ hand' = [hand EXCEPT ![w] = 0]
    /\ Unlock(w)
    /\ GoTo(w, "allow")
    /\ UNCHANGED <<bucketVars, slot, refs, deleting, res, cleanVars, issued>>

\* AcquireBurst under the mutex: an error or an empty bucket denies; a failed
\* call may have taken the tokens all the same.
Burst(w) ==
    /\ pc[w] = "burst"
    /\ \E n \in 0..BurstSize :
         \/ /\ TakeBurst(n) /\ n > 0
            /\ available' = [available EXCEPT ![res[w]] = n - 1]
            /\ touched' = [touched EXCEPT ![res[w]] = "recent"]
            /\ granted' = granted + 1
            /\ GoTo(w, "allowNew")
         \/ /\ TakeBurst(n) /\ (n = 0 \/ "db" \in Faults)
            /\ GoTo(w, "deny") /\ UNCHANGED <<resVars, granted>>
         \/ /\ "db" \in Faults
            /\ GoTo(w, "deny") /\ UNCHANGED <<resVars, granted, bucketVars, issued>>
    /\ Unlock(w)
    /\ UNCHANGED <<slot, refs, deleting, res, hand, cleanVars>>

\* refs.Add(-1): the loop starts again, or the call returns.
Release(w) ==
    /\ pc[w] \in {"backoff", "allow", "allowNew", "deny"}
    /\ refs' = [refs EXCEPT ![res[w]] = @ \ {w}]
    /\ res' = [res EXCEPT ![w] = AnyReservation]
    /\ GoTo(w, CASE pc[w] = "backoff"  -> "load"
                 [] pc[w] = "allowNew" -> "schedule"
                 [] OTHER              -> "idle")
    /\ UNCHANGED <<bucketVars, slot, resVars, deleting, mu, hand, cleanVars,
                   issued, granted>>

\* maybeScheduleRateLimitCleanup: too soon, or already running, or started.
Schedule(w) ==
    /\ pc[w] = "schedule"
    /\ GoTo(w, "idle")
    /\ \/ UNCHANGED <<cpc, cres>>
       \/ /\ cpc = "idle" /\ slot # None
          /\ cpc' = "mark" /\ cres' = slot
    /\ UNCHANGED <<bucketVars, slot, resVars, refs, deleting, mu, res, hand, cstale,
                   issued, granted>>
-----------------------------------------------------------------------------
(***************************************************************************)
(* cleanupExpiredRateLimitReservations                                     *)
(***************************************************************************)
Expire(r) ==
    /\ touched[r] = "recent"
    /\ touched' = [touched EXCEPT ![r] = "expired"]
    /\ UNCHANGED <<bucketVars, slot, available, refs, deleting, mu, workVars, cleanVars,
                   issued, granted>>

\* Mutant: the flag is not raised.
Mark_NoFlag ==
    /\ cpc = "mark"
    /\ cpc' = "refs"
    /\ UNCHANGED <<bucketVars, slot, resVars, refs, deleting, mu, workVars, cres, cstale,
                   issued, granted>>

Mark ==
    /\ cpc = "mark"
    /\ deleting' = [deleting EXCEPT ![cres] = TRUE]
    /\ cpc' = IF deleting[cres] THEN "idle" ELSE "refs"
    /\ UNCHANGED <<bucketVars, slot, resVars, refs, mu, workVars, cres, cstale,
                   issued, granted>>

CheckRefs ==
    /\ cpc = "refs"
    /\ cpc' = IF refs[cres] = {} THEN "lock" ELSE "unmark"
    /\ UNCHANGED <<bucketVars, slot, resVars, refs, deleting, mu, workVars, cres, cstale,
                   issued, granted>>

CleanerLock ==
    /\ cpc = "lock"
    /\ mu[cres] = Free
    /\ mu' = [mu EXCEPT ![cres] = "cleaner"]
    /\ cpc' = "inspect"
    /\ UNCHANGED <<bucketVars, slot, resVars, refs, deleting, workVars, cres, cstale,
                   issued, granted>>

CleanerInspect ==
    /\ cpc = "inspect"
    /\ cstale' \in {touched[cres] = "expired", FALSE}
    /\ cpc' = "decide"
    /\ UNCHANGED <<bucketVars, slot, resVars, refs, deleting, mu, workVars, cres,
                   issued, granted>>

\* refs again, and unlock.
CleanerDecide ==
    /\ cpc = "decide"
    /\ mu' = [mu EXCEPT ![cres] = Free]
    /\ cpc' = IF cstale /\ refs[cres] = {} THEN "delete" ELSE "unmark"
    /\ cstale' = FALSE
    /\ UNCHANGED <<bucketVars, slot, resVars, refs, deleting, workVars, cres,
                   issued, granted>>

\* CompareAndDelete; the flag stays up for whoever still holds the object.
CleanerDelete ==
    /\ cpc = "delete"
    /\ slot' = IF slot = cres THEN None ELSE slot
    /\ cpc' = "idle"
    /\ UNCHANGED <<bucketVars, resVars, refs, deleting, mu, workVars, cres, cstale,
                   issued, granted>>

\* Mutant: the flag stays up although the reservation is kept.
Unmark_Forgotten ==
    /\ cpc = "unmark"
    /\ cpc' = "idle"
    /\ UNCHANGED <<bucketVars, slot, resVars, refs, deleting, mu, workVars, cres, cstale,
                   issued, granted>>

Unmark ==
    /\ cpc = "unmark"
    /\ deleting' = [deleting EXCEPT ![cres] = FALSE]
    /\ cpc' = "idle"
    /\ UNCHANGED <<bucketVars, slot, resVars, refs, mu, workVars, cres, cstale,
                   issued, granted>>
-----------------------------------------------------------------------------
Acquire(w) ==
    \/ LoadOrStore(w) \/ AddRef(w) \/ CheckDeleting(w) \/ Lock(w) \/ Recheck(w)
    \/ Inspect(w) \/ Take(w) \/ Burst(w) \/ Release(w) \/ Schedule(w)

Cleanup ==
    \/ Mark \/ CheckRefs \/ CleanerLock \/ CleanerInspect \/ CleanerDecide
    \/ CleanerDelete \/ Unmark

Next ==
    \/ Refill
    \/ \E max \in Limits : SyncBucket(max)
    \/ \E w \in Workers : Start(w) \/ Acquire(w)
    \/ \E r \in Reservations : Expire(r)
    \/ Cleanup

Spec == Init /\ [][Next]_vars

(***************************************************************************)
(* Goroutines are scheduled, and sync.Mutex does not starve a waiter.      *)
(***************************************************************************)
Fairness ==
    /\ \A w \in Workers : WF_vars(Acquire(w)) /\ SF_vars(Lock(w))
    /\ WF_vars(Cleanup) /\ SF_vars(CleanerLock)

FairSpec == Spec /\ Fairness
-----------------------------------------------------------------------------
(***************************************************************************)
(* Properties                                                              *)
(***************************************************************************)

\* Inside its critical section a goroutine works on the reservation the map
\* holds: the cleanup never drops one under somebody's hands, and no second
\* reservation for the adapter is filled while the first is in use.
InUseIsCurrent ==
    \A w \in Workers : pc[w] \in {"inspect", "take", "burst"} => slot = res[w]

\* No token is spent twice: sends let through and tokens in hand never exceed
\* what the bucket handed out.
TokensConserved ==
    granted + (IF slot = None THEN 0 ELSE available[slot]) <= issued

\* Cleanup only drops a reservation that nobody touched for the whole TTL.
OnlyExpiredDropped ==
    [][slot # None /\ slot' = None => touched[slot] = "expired"]_vars

\* A burst is within the limit that is set now, also after it was lowered.
BurstWithinLimit == [][issued' - issued <= limit]_vars

\* Every call returns: nobody spins for ever on a reservation that is being
\* deleted, and nobody waits for a mutex that is not released.
AcquireReturns == \A w \in Workers : pc[w] = "load" ~> pc[w] = "idle"
=============================================================================
