-------------------- MODULE RateLimitReservationProofs --------------------
(***************************************************************************)
(* Proofs about RateLimitReservation, for any number of goroutines and of  *)
(* reservation objects, any burst size and any limits.                     *)
(***************************************************************************)
EXTENDS RateLimitReservation, TLAPS

(***************************************************************************)
(* Who works on what.  A goroutine that holds a reservation holds the      *)
(* current one or one whose flag is up; the cleanup works on the current   *)
(* one, with the flag up from Mark on, and once it decided to delete       *)
(* nobody is past the second look at the flag.                             *)
(***************************************************************************)
Holding  == {"ref", "check", "lock", "recheck", "inspect", "take", "burst", "backoff",
             "allow", "allowNew", "deny"}
Critical == {"recheck", "inspect", "take", "burst"}
Using    == {"inspect", "take", "burst"}

HeldIsCurrentOrFlagged ==
    \A w \in Workers : pc[w] \in Holding => slot = res[w] \/ deleting[res[w]]

CleanerOnCurrent == cpc # "idle" => slot = cres

FlagIsUp == cpc \notin {"idle", "mark"} => deleting[cres]

Mutex ==
    /\ \A w \in Workers : pc[w] \in Critical => mu[res[w]] = w
    /\ cpc \in {"inspect", "decide"} => mu[cres] = "cleaner"

DeleteIsAlone ==
    cpc = "delete" => \A w \in Workers : pc[w] \in Using => res[w] # cres

(* The tokens a goroutine read under the mutex are still there. *)
HandIsFresh ==
    \A w \in Workers : pc[w] = "take" => hand[w] = available[res[w]] /\ hand[w] > 0

(* The verdict of the cleanup is still true when it is acted on. *)
VerdictHolds ==
    (cpc = "decide" /\ cstale) \/ cpc = "delete" => touched[cres] = "expired"

Ownership ==
    /\ HeldIsCurrentOrFlagged /\ CleanerOnCurrent /\ FlagIsUp /\ Mutex /\ DeleteIsAlone
    /\ InUseIsCurrent

Facts == HandIsFresh /\ VerdictHolds /\ TokensConserved

IInv == TypeOK /\ Ownership /\ Facts
-----------------------------------------------------------------------------

LEMMA SomeReservation == AnyReservation \in Reservations
  BY ReservationAssumption DEF AnyReservation

LEMMA InitIInv == Init => IInv
<1> SUFFICES ASSUME Init PROVE IInv
  OBVIOUS
<1>1. TypeOK
  <2>1. limit \in Nat
    BY ReservationAssumption DEF Init
  <2>2. slot \in Reservations \union {None} /\ cres \in Reservations
        /\ res \in [Workers -> Reservations]
    BY SomeReservation DEF Init
  <2> QED
    BY <2>1, <2>2 DEF Init, TypeOK, Steps, CSteps
<1>2. Ownership
  BY DEF Init, Ownership, HeldIsCurrentOrFlagged, CleanerOnCurrent, FlagIsUp, Mutex,
      DeleteIsAlone, InUseIsCurrent, Holding, Critical, Using
<1>3. Facts
  BY DEF Init, Facts, HandIsFresh, VerdictHolds, TokensConserved
<1> QED
  BY <1>1, <1>2, <1>3 DEF IInv

(* What a burst takes is within the limit, and is what it issues. *)
LEMMA BurstBounds ==
  ASSUME TypeOK, NEW n, TakeBurst(n)
  PROVE  n \in Nat /\ n <= limit /\ tokens' \in Nat /\ due' \in Nat /\ limit' \in Nat
         /\ issued' \in Nat /\ issued' = issued + n
  BY ReservationAssumption DEF TypeOK, TakeBurst, Min

(* The object LoadOrStore stores is one nobody holds. *)
LEMMA StoredIsFresh ==
  ASSUME NEW w \in Workers, LoadOrStore(w), slot = None
  PROVE  \E r \in Reservations :
           /\ Fresh(r)
           /\ slot' = r
           /\ res' = [res EXCEPT ![w] = r]
           /\ available' = [available EXCEPT ![r] = 0]
           /\ touched' = [touched EXCEPT ![r] = "never"]
           /\ refs' = [refs EXCEPT ![r] = {}]
           /\ deleting' = [deleting EXCEPT ![r] = FALSE]
<1> DEFINE r == CHOOSE r \in Reservations : Fresh(r)
<1>1. \E x \in Reservations : Fresh(x)
  BY DEF LoadOrStore
<1>2. r \in Reservations /\ Fresh(r)
  BY <1>1
<1>3. /\ slot' = r
      /\ res' = [res EXCEPT ![w] = r]
      /\ available' = [available EXCEPT ![r] = 0]
      /\ touched' = [touched EXCEPT ![r] = "never"]
      /\ refs' = [refs EXCEPT ![r] = {}]
      /\ deleting' = [deleting EXCEPT ![r] = FALSE]
  BY DEF LoadOrStore
<1> QED
  BY <1>2, <1>3
-----------------------------------------------------------------------------
(* Every step keeps the types; Take needs a hand that is not empty. *)
LEMMA TypePreserved == ASSUME IInv, [Next]_vars PROVE TypeOK'
<1> USE ReservationAssumption DEF IInv, TypeOK, Steps, CSteps,
      bucketVars, resVars, workVars, cleanVars
<1>1. CASE Refill
  BY <1>1 DEF Refill
<1>2. ASSUME NEW max \in Limits, SyncBucket(max) PROVE TypeOK'
  BY <1>2 DEF SyncBucket
<1>3. ASSUME NEW w \in Workers, Start(w) PROVE TypeOK'
  BY <1>3 DEF Start, GoTo
<1>4. ASSUME NEW w \in Workers, LoadOrStore(w) PROVE TypeOK'
  <2>1. CASE slot # None
    BY <1>4, <2>1 DEF LoadOrStore, GoTo
  <2>2. CASE slot = None
    <3>1. PICK r \in Reservations :
            /\ Fresh(r) /\ slot' = r /\ res' = [res EXCEPT ![w] = r]
            /\ available' = [available EXCEPT ![r] = 0]
            /\ touched' = [touched EXCEPT ![r] = "never"]
            /\ refs' = [refs EXCEPT ![r] = {}]
            /\ deleting' = [deleting EXCEPT ![r] = FALSE]
      BY <1>4, <2>2, StoredIsFresh
    <3>2. /\ pc[w] = "load" /\ pc' = [pc EXCEPT ![w] = "ref"]
          /\ UNCHANGED <<tokens, due, limit, mu, hand, cpc, cres, cstale, issued, granted>>
      BY <1>4 DEF LoadOrStore, GoTo
    <3> QED
      BY <2>2, <3>1, <3>2 DEF Fresh
  <2> QED
    BY <2>1, <2>2
<1>5. ASSUME NEW w \in Workers, AddRef(w) PROVE TypeOK'
  BY <1>5 DEF AddRef, GoTo
<1>6. ASSUME NEW w \in Workers, CheckDeleting(w) PROVE TypeOK'
  BY <1>6 DEF CheckDeleting, GoTo
<1>7. ASSUME NEW w \in Workers, Lock(w) PROVE TypeOK'
  BY <1>7 DEF Lock, GoTo
<1>8. ASSUME NEW w \in Workers, Recheck(w) PROVE TypeOK'
  BY <1>8 DEF Recheck, GoTo
<1>9. ASSUME NEW w \in Workers, Inspect(w) PROVE TypeOK'
  BY <1>9 DEF Inspect, GoTo
<1>10. ASSUME NEW w \in Workers, Take(w) PROVE TypeOK'
  <2>1. hand[w] - 1 \in Nat
    BY <1>10 DEF Take, Facts, HandIsFresh
  <2> QED
    BY <1>10, <2>1 DEF Take, GoTo, Unlock
<1>11. ASSUME NEW w \in Workers, Burst(w) PROVE TypeOK'
  <2>1. PICK n \in 0..BurstSize :
          \/ /\ TakeBurst(n) /\ n > 0
             /\ available' = [available EXCEPT ![res[w]] = n - 1]
             /\ touched' = [touched EXCEPT ![res[w]] = "recent"]
             /\ granted' = granted + 1
             /\ GoTo(w, "allowNew")
          \/ TakeBurst(n) /\ GoTo(w, "deny") /\ UNCHANGED <<resVars, granted>>
          \/ GoTo(w, "deny") /\ UNCHANGED <<resVars, granted, bucketVars, issued>>
    BY <1>11 DEF Burst
  <2>2. tokens' \in Nat /\ due' \in Nat /\ limit' \in Nat /\ issued' \in Nat
    BY <2>1, BurstBounds
  <2>3. /\ available' \in [Reservations -> Nat] /\ granted' \in Nat
        /\ touched' \in [Reservations -> {"never", "recent", "expired"}]
        /\ pc' \in [Workers -> Steps]
    BY <2>1 DEF GoTo
  <2> QED
    BY <1>11, <2>2, <2>3 DEF Burst, Unlock
<1>12. ASSUME NEW w \in Workers, Release(w) PROVE TypeOK'
  BY <1>12, SomeReservation DEF Release, GoTo
<1>13. ASSUME NEW w \in Workers, Schedule(w) PROVE TypeOK'
  BY <1>13 DEF Schedule, GoTo
<1>14. ASSUME NEW r \in Reservations, Expire(r) PROVE TypeOK'
  BY <1>14 DEF Expire
<1>15. CASE Mark
  BY <1>15 DEF Mark
<1>16. CASE CheckRefs
  BY <1>16 DEF CheckRefs
<1>17. CASE CleanerLock
  BY <1>17 DEF CleanerLock
<1>18. CASE CleanerInspect
  BY <1>18 DEF CleanerInspect
<1>19. CASE CleanerDecide
  BY <1>19 DEF CleanerDecide
<1>20. CASE CleanerDelete
  BY <1>20 DEF CleanerDelete
<1>21. CASE Unmark
  BY <1>21 DEF Unmark
<1>22. CASE UNCHANGED vars
  BY <1>22 DEF vars
<1> QED
  BY <1>1, <1>2, <1>3, <1>4, <1>5, <1>6, <1>7, <1>8, <1>9, <1>10, <1>11, <1>12,
     <1>13, <1>14, <1>15, <1>16, <1>17, <1>18, <1>19, <1>20, <1>21, <1>22
  DEF Next, Acquire, Cleanup

(* Every step keeps the ownership facts. *)
LEMMA OwnershipPreserved == ASSUME IInv, [Next]_vars PROVE Ownership'
<1> USE ReservationAssumption DEF IInv, TypeOK, Steps, CSteps, Ownership,
      HeldIsCurrentOrFlagged, CleanerOnCurrent, FlagIsUp, Mutex, DeleteIsAlone, InUseIsCurrent,
      Holding, Critical, Using,
      bucketVars, resVars, workVars, cleanVars
<1>1. CASE Refill
  BY <1>1 DEF Refill
<1>2. ASSUME NEW max \in Limits, SyncBucket(max) PROVE Ownership'
  BY <1>2 DEF SyncBucket
<1>3. ASSUME NEW w \in Workers, Start(w) PROVE Ownership'
  BY <1>3 DEF Start, GoTo
<1>4. ASSUME NEW w \in Workers, LoadOrStore(w) PROVE Ownership'
  <2>1. CASE slot # None
    BY <1>4, <2>1 DEF LoadOrStore, GoTo
  <2>2. CASE slot = None
    <3>1. PICK r \in Reservations :
            /\ Fresh(r) /\ slot' = r /\ res' = [res EXCEPT ![w] = r]
            /\ available' = [available EXCEPT ![r] = 0]
            /\ touched' = [touched EXCEPT ![r] = "never"]
            /\ refs' = [refs EXCEPT ![r] = {}]
            /\ deleting' = [deleting EXCEPT ![r] = FALSE]
      BY <1>4, <2>2, StoredIsFresh
    <3>2. /\ pc[w] = "load" /\ pc' = [pc EXCEPT ![w] = "ref"]
          /\ UNCHANGED <<tokens, due, limit, mu, hand, cpc, cres, cstale, issued, granted>>
      BY <1>4 DEF LoadOrStore, GoTo
    <3> QED
      BY <2>2, <3>1, <3>2 DEF Fresh
  <2> QED
    BY <2>1, <2>2
<1>5. ASSUME NEW w \in Workers, AddRef(w) PROVE Ownership'
  BY <1>5 DEF AddRef, GoTo
<1>6. ASSUME NEW w \in Workers, CheckDeleting(w) PROVE Ownership'
  BY <1>6 DEF CheckDeleting, GoTo
<1>7. ASSUME NEW w \in Workers, Lock(w) PROVE Ownership'
  BY <1>7 DEF Lock, GoTo
<1>8. ASSUME NEW w \in Workers, Recheck(w) PROVE Ownership'
  BY <1>8 DEF Recheck, GoTo
<1>9. ASSUME NEW w \in Workers, Inspect(w) PROVE Ownership'
  BY <1>9 DEF Inspect, GoTo
<1>10. ASSUME NEW w \in Workers, Take(w) PROVE Ownership'
  BY <1>10 DEF Take, GoTo, Unlock
<1>11. ASSUME NEW w \in Workers, Burst(w) PROVE Ownership'
  BY <1>11 DEF Burst, GoTo, Unlock
<1>12. ASSUME NEW w \in Workers, Release(w) PROVE Ownership'
  BY <1>12 DEF Release, GoTo
<1>13. ASSUME NEW w \in Workers, Schedule(w) PROVE Ownership'
  BY <1>13 DEF Schedule, GoTo
<1>14. ASSUME NEW r \in Reservations, Expire(r) PROVE Ownership'
  BY <1>14 DEF Expire
<1>15. CASE Mark
  BY <1>15 DEF Mark
<1>16. CASE CheckRefs
  BY <1>16 DEF CheckRefs
<1>17. CASE CleanerLock
  BY <1>17 DEF CleanerLock
<1>18. CASE CleanerInspect
  BY <1>18 DEF CleanerInspect
<1>19. CASE CleanerDecide
  BY <1>19 DEF CleanerDecide
<1>20. CASE CleanerDelete
  BY <1>20 DEF CleanerDelete
<1>21. CASE Unmark
  BY <1>21 DEF Unmark
<1>22. CASE UNCHANGED vars
  BY <1>22 DEF vars
<1> QED
  BY <1>1, <1>2, <1>3, <1>4, <1>5, <1>6, <1>7, <1>8, <1>9, <1>10, <1>11, <1>12,
     <1>13, <1>14, <1>15, <1>16, <1>17, <1>18, <1>19, <1>20, <1>21, <1>22
  DEF Next, Acquire, Cleanup

(* Every step keeps what was read under the mutex, and the balance of the tokens. *)
LEMMA FactsPreserved == ASSUME IInv, [Next]_vars PROVE Facts'
<1> USE ReservationAssumption DEF IInv, TypeOK, Steps, CSteps, Ownership,
      Mutex, DeleteIsAlone, InUseIsCurrent, CleanerOnCurrent, Critical, Using,
      Facts, HandIsFresh, VerdictHolds, TokensConserved,
      bucketVars, resVars, workVars, cleanVars
<1>1. CASE Refill
  BY <1>1 DEF Refill
<1>2. ASSUME NEW max \in Limits, SyncBucket(max) PROVE Facts'
  BY <1>2 DEF SyncBucket
<1>3. ASSUME NEW w \in Workers, Start(w) PROVE Facts'
  BY <1>3 DEF Start, GoTo
<1>4. ASSUME NEW w \in Workers, LoadOrStore(w) PROVE Facts'
  <2>1. CASE slot # None
    BY <1>4, <2>1 DEF LoadOrStore, GoTo
  <2>2. CASE slot = None
    <3>1. PICK r \in Reservations :
            /\ Fresh(r) /\ slot' = r /\ res' = [res EXCEPT ![w] = r]
            /\ available' = [available EXCEPT ![r] = 0]
            /\ touched' = [touched EXCEPT ![r] = "never"]
            /\ refs' = [refs EXCEPT ![r] = {}]
            /\ deleting' = [deleting EXCEPT ![r] = FALSE]
      BY <1>4, <2>2, StoredIsFresh
    <3>2. /\ pc[w] = "load" /\ pc' = [pc EXCEPT ![w] = "ref"]
          /\ UNCHANGED <<tokens, due, limit, mu, hand, cpc, cres, cstale, issued, granted>>
      BY <1>4 DEF LoadOrStore, GoTo
    <3> QED
      BY <2>2, <3>1, <3>2 DEF Fresh
  <2> QED
    BY <2>1, <2>2
<1>5. ASSUME NEW w \in Workers, AddRef(w) PROVE Facts'
  BY <1>5 DEF AddRef, GoTo
<1>6. ASSUME NEW w \in Workers, CheckDeleting(w) PROVE Facts'
  BY <1>6 DEF CheckDeleting, GoTo
<1>7. ASSUME NEW w \in Workers, Lock(w) PROVE Facts'
  BY <1>7 DEF Lock, GoTo
<1>8. ASSUME NEW w \in Workers, Recheck(w) PROVE Facts'
  BY <1>8 DEF Recheck, GoTo
<1>9. ASSUME NEW w \in Workers, Inspect(w) PROVE Facts'
  BY <1>9 DEF Inspect, GoTo
<1>10. ASSUME NEW w \in Workers, Take(w) PROVE Facts'
  BY <1>10 DEF Take, GoTo, Unlock
<1>11. ASSUME NEW w \in Workers, Burst(w) PROVE Facts'
  <2>1. PICK n \in 0..BurstSize :
          \/ /\ TakeBurst(n) /\ n > 0
             /\ available' = [available EXCEPT ![res[w]] = n - 1]
             /\ touched' = [touched EXCEPT ![res[w]] = "recent"]
             /\ granted' = granted + 1
             /\ GoTo(w, "allowNew")
          \/ TakeBurst(n) /\ GoTo(w, "deny") /\ UNCHANGED <<resVars, granted>>
          \/ GoTo(w, "deny") /\ UNCHANGED <<resVars, granted, bucketVars, issued>>
    BY <1>11 DEF Burst
  <2>2. issued' \in Nat /\ issued' >= issued /\ (TakeBurst(n) => issued' = issued + n)
    BY <2>1, BurstBounds
  <2>3. /\ pc[w] = "burst" /\ slot = res[w] /\ mu[res[w]] = w
        /\ UNCHANGED <<slot, deleting, res, hand, cpc, cres, cstale>>
    BY <1>11 DEF Burst
  <2>4. HandIsFresh' /\ VerdictHolds'
    BY <2>1, <2>3 DEF GoTo
  <2>5. TokensConserved'
    BY <2>1, <2>2, <2>3
  <2> QED
    BY <2>4, <2>5
<1>12. ASSUME NEW w \in Workers, Release(w) PROVE Facts'
  BY <1>12 DEF Release, GoTo
<1>13. ASSUME NEW w \in Workers, Schedule(w) PROVE Facts'
  BY <1>13 DEF Schedule, GoTo
<1>14. ASSUME NEW r \in Reservations, Expire(r) PROVE Facts'
  BY <1>14 DEF Expire
<1>15. CASE Mark
  BY <1>15 DEF Mark
<1>16. CASE CheckRefs
  BY <1>16 DEF CheckRefs
<1>17. CASE CleanerLock
  BY <1>17 DEF CleanerLock
<1>18. CASE CleanerInspect
  BY <1>18 DEF CleanerInspect
<1>19. CASE CleanerDecide
  BY <1>19 DEF CleanerDecide
<1>20. CASE CleanerDelete
  BY <1>20 DEF CleanerDelete
<1>21. CASE Unmark
  BY <1>21 DEF Unmark
<1>22. CASE UNCHANGED vars
  BY <1>22 DEF vars
<1> QED
  BY <1>1, <1>2, <1>3, <1>4, <1>5, <1>6, <1>7, <1>8, <1>9, <1>10, <1>11, <1>12,
     <1>13, <1>14, <1>15, <1>16, <1>17, <1>18, <1>19, <1>20, <1>21, <1>22
  DEF Next, Acquire, Cleanup

-----------------------------------------------------------------------------
(***************************************************************************)
(* The theorems                                                            *)
(***************************************************************************)

(* Every behaviour of the limiter satisfies the inductive invariant. *)
THEOREM Inductive == Spec => []IInv
<1>1. IInv /\ [Next]_vars => IInv'
  BY TypePreserved, OwnershipPreserved, FactsPreserved DEF IInv
<1> QED
  BY InitIInv, <1>1, PTL DEF Spec

(* The variables of acquireRateLimitToken and of the cleanup keep their types:  *)
(* no reservation ever holds a negative number of tokens.                       *)
THEOREM TypeCorrect == Spec => []TypeOK
<1>1. IInv => TypeOK
  BY DEF IInv
<1> QED
  BY Inductive, <1>1, PTL

(* However the jobs and the cleanup interleave, whoever is past the second      *)
(* look at the deleting flag works on the reservation the map holds.            *)
THEOREM CurrentInUse == Spec => []InUseIsCurrent
<1>1. IInv => InUseIsCurrent
  BY DEF IInv, Ownership
<1> QED
  BY Inductive, <1>1, PTL

(* acquireRateLimitToken never lets more sends through than take_send_token_burst *)
(* handed out tokens for, whatever is dropped, expired or failed in between.      *)
THEOREM NoTokenSpentTwice == Spec => []TokensConserved
<1>1. IInv => TokensConserved
  BY DEF IInv, Facts
<1> QED
  BY Inductive, <1>1, PTL

(* cleanupExpiredRateLimitReservations acts on a verdict that is still true:    *)
(* nobody used the reservation between the look at its age and the delete.      *)
THEOREM DroppedWasExpired == Spec => OnlyExpiredDropped
<1> DEFINE Drop == slot # None /\ slot' = None => touched[slot] = "expired"
<1>1. ASSUME IInv, [Next]_vars PROVE Drop
  <2>1. SUFFICES ASSUME slot # None, slot' = None PROVE CleanerDelete
    BY <1>1 DEF CleanerDelete, IInv, Facts, VerdictHolds, Ownership, CleanerOnCurrent
  <2>2. slot' # slot
    BY <2>1
  <2> QED
    BY <1>1, <2>1, <2>2
    DEF Next, Refill, SyncBucket, Start, Acquire, Expire, Cleanup, LoadOrStore, AddRef,
        CheckDeleting, Lock, Recheck, Inspect, Take, Burst, Release, Schedule, Mark,
        CheckRefs, CleanerLock, CleanerInspect, CleanerDecide, Unmark, vars
<1> QED
  BY Inductive, <1>1, PTL DEF Spec, OnlyExpiredDropped

(* take_send_token_burst clamps first: no call takes more than the limit that   *)
(* is set at that moment.                                                       *)
THEOREM BurstClamped == Spec => BurstWithinLimit
<1>1. ASSUME TypeOK, [Next]_vars PROVE issued' - issued <= limit
  <2>1. CASE issued' = issued
    BY <1>1, <2>1 DEF TypeOK
  <2>2. CASE \E w \in Workers : Burst(w)
    <3>1. (\E n \in 0..BurstSize : TakeBurst(n)) \/ issued' = issued
      BY <2>2 DEF Burst
    <3> QED
      BY <1>1, <2>1, <3>1, BurstBounds DEF TypeOK
  <2> QED
    BY <1>1, <2>1, <2>2
    DEF Next, Refill, SyncBucket, Start, Acquire, Expire, Cleanup, LoadOrStore, AddRef,
        CheckDeleting, Lock, Recheck, Inspect, Take, Release, Schedule, Mark, CheckRefs,
        CleanerLock, CleanerInspect, CleanerDecide, CleanerDelete, Unmark, vars
<1> QED
  BY TypeCorrect, <1>1, PTL DEF Spec, BurstWithinLimit
=============================================================================
