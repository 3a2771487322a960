------------------------ MODULE ProviderEventsProofs ------------------------
(***************************************************************************)
(* Proofs about ProviderEvents, for any number of messages of any kind,    *)
(* any number of concurrent handlers and pixels and any set of failures.   *)
(***************************************************************************)
EXTENDS ProviderEvents, TLAPS

Events == Logged \ {"opened"}

(* The statuses of an email to which an event of this class was applied.   *)
Beyond(c) ==
    IF c = "delivered" THEN {"delivered", "opened", "bounced", "complained", "purged"}
                       ELSE {c, "purged"}

(* The steps of a handler whose event has reached the row.                 *)
Busy == {"event", "suppress", "dispatch"}
Class(h) == mapEventToStatus(Kind[msg[h]])

(* What a handler holds at each of its steps. *)
HandlerAtStep ==
    \A h \in Handlers :
      /\ pc[h] # "idle" => msg[h] \in Messages
      /\ pc[h] \in Busy \union {"lookup", "update"} => Kind[msg[h]] # "subscribe"
      /\ pc[h] = "update" => Class(h) \in validTransitions[seen[h]]

PixelAtStep == \A p \in Pixels : pc[p] = "update" => seen[p] \in {"sent", "delivered"}

(* An event is applied by one handler, which finds its class neither logged *)
(* nor dispatched.                                                          *)
Alone ==
    \A g, h \in Handlers : pc[g] \in Busy /\ pc[h] \in Busy /\ Class(g) = Class(h) => g = h

NotYetRecorded ==
    \A h \in Handlers, k \in Events : mapEventToStatus(k) = Class(h) =>
      /\ pc[h] = "event" => log[k] = 0
      /\ pc[h] \in Busy => dispatched[k] = 0

LoggedFirst ==
    \A h \in Handlers : pc[h] = "suppress" => log[Kind[msg[h]]] > 0 \/ status = "purged"

(* What was applied, logged or listed shows in the row. *)
ShowsInRow ==
    /\ \A h \in Handlers : pc[h] \in Busy => status \in Beyond(Class(h))
    /\ \A k \in Events : log[k] > 0 \/ dispatched[k] > 0 => status \in Beyond(mapEventToStatus(k))
    /\ "global" \in lists => status = "purged" \/ (status = "bounced" /\ log["hard"] > 0)
    /\ "workspace" \in lists => status \in {"complained", "purged"}

AtStep == HandlerAtStep /\ PixelAtStep

IInv == TypeOK /\ AtStep /\ Alone /\ NotYetRecorded /\ LoggedFirst /\ ShowsInRow /\ AppliedOnce
-----------------------------------------------------------------------------
(* Facts about the kinds and the status machine. *)
LEMMA KindFacts ==
    /\ \A k \in Kinds \ {"subscribe"} : k \in Events /\ mapEventToStatus(k) \in Statuses
    /\ \A k \in Events : mapEventToStatus(k) \in {"delivered", "bounced", "complained"}
    /\ \A m \in Messages : Kind[m] \in Kinds
    /\ Events = {"delivered", "hard", "soft", "complained"}
  BY KindAssumption DEF Kinds, Negative, Events, Logged, mapEventToStatus, Statuses

(* What the edges of the state machine say of provider events. *)
LEMMA TransitionFacts ==
  ASSUME NEW s \in Statuses, NEW c \in {"delivered", "bounced", "complained"},
         c \in validTransitions[s]
  PROVE  /\ s \in {"sent", "delivered", "opened"}
         /\ c = "delivered" => s = "sent"
<1>1. CASE s = "sent"
  BY <1>1
<1>2. CASE s = "delivered"
  BY <1>2 DEF validTransitions
<1>3. CASE s = "opened"
  BY <1>3 DEF validTransitions
<1>4. CASE s = "processing"
  BY <1>4 DEF validTransitions
<1>5. CASE s \notin {"sent", "delivered", "opened", "processing"}
  BY <1>5 DEF validTransitions
<1> QED
  BY <1>1, <1>2, <1>3, <1>4, <1>5

(* The initial state satisfies the invariant. *)
LEMMA InitIInv == Init => IInv
<1> SUFFICES ASSUME Init PROVE IInv
  OBVIOUS
<1>1. TypeOK
  BY DEF Init, TypeOK, Statuses, Steps, Logged
<1>2. AtStep /\ Alone /\ NotYetRecorded /\ LoggedFirst
  BY DEF Init, AtStep, HandlerAtStep, PixelAtStep, Alone, NotYetRecorded, LoggedFirst, Busy,
     Procs
<1>3. ShowsInRow /\ AppliedOnce
  BY DEF Init, ShowsInRow, AppliedOnce, Busy, Events, Logged, Negative, Procs
<1> QED
  BY <1>1, <1>2, <1>3 DEF IInv

(* Every step keeps the types. *)
LEMMA TypePreserved == ASSUME IInv, [Next]_vars PROVE TypeOK'
<1> USE DEF IInv, TypeOK, Statuses, Steps, Logged, Negative,
      rowVars, trailVars, snsVars, procVars, GoTo, Procs
<1>1. ASSUME SetProviderMessageID PROVE TypeOK'
  BY <1>1 DEF SetProviderMessageID
<1>2. ASSUME MarkSent PROVE TypeOK'
  BY <1>2 DEF MarkSent
<1>3. ASSUME Sweep PROVE TypeOK'
  BY <1>3 DEF Sweep
<1>4. ASSUME Purge PROVE TypeOK'
  BY <1>4 DEF Purge
<1>5. ASSUME NEW m \in Messages, Publish(m) PROVE TypeOK'
  BY <1>5 DEF Publish
<1>6. ASSUME NEW m \in Messages, Redeliver(m) PROVE TypeOK'
  BY <1>6 DEF Redeliver
<1>7. ASSUME NEW m \in Messages, GrowOld(m) PROVE TypeOK'
  BY <1>7 DEF GrowOld
<1>8. ASSUME NEW h \in Handlers, NEW m \in Messages, Receive(h, m) PROVE TypeOK'
  BY <1>8 DEF Receive
<1>9. ASSUME NEW h \in Handlers, Claim(h) PROVE TypeOK'
  BY <1>9 DEF Claim, AfterClaim, AtStep, HandlerAtStep
<1>10. ASSUME NEW h \in Handlers, ConfirmSubscription(h) PROVE TypeOK'
  BY <1>10 DEF ConfirmSubscription
<1>11. ASSUME NEW h \in Handlers, GetByProviderMessageID(h) PROVE TypeOK'
  <2>1. pc' \in [Procs -> Steps] /\ seen' \in [Procs -> Statuses]
    BY <1>11 DEF GetByProviderMessageID
  <2> QED
    BY <1>11, <2>1 DEF GetByProviderMessageID
<1>12. ASSUME NEW h \in Handlers, UpdateStatus(h) PROVE TypeOK'
  <2>1. Class(h) \in Statuses
    BY <1>12, KindFacts DEF UpdateStatus, AtStep, HandlerAtStep, Class
  <2> QED
    BY <1>12, <2>1 DEF UpdateStatus, Class
<1>13. ASSUME NEW h \in Handlers, AddEvent(h) PROVE TypeOK'
  <2>1. Kind[msg[h]] \in Logged
    BY <1>13, KindFacts DEF AddEvent, AtStep, HandlerAtStep, Busy
  <2> QED
    BY <1>13, <2>1 DEF AddEvent
<1>14. ASSUME NEW h \in Handlers, handleSuppression(h) PROVE TypeOK'
  BY <1>14 DEF handleSuppression
<1>15. ASSUME NEW h \in Handlers, Dispatch(h) PROVE TypeOK'
  <2>1. Kind[msg[h]] \in Logged
    BY <1>15, KindFacts DEF Dispatch, AtStep, HandlerAtStep, Busy
  <2> QED
    BY <1>15, <2>1 DEF Dispatch
<1>16. ASSUME NEW h \in Handlers, Respond(h) PROVE TypeOK'
  BY <1>16 DEF Respond, End
<1>17. ASSUME NEW p \in Pixels, HandleOpen(p) PROVE TypeOK'
  BY <1>17 DEF HandleOpen
<1>18. ASSUME NEW p \in Pixels, GetByTrackingID(p) PROVE TypeOK'
  BY <1>18 DEF GetByTrackingID, End
<1>19. ASSUME NEW p \in Pixels, ProcessDirectUpdate(p) PROVE TypeOK'
  BY <1>19 DEF ProcessDirectUpdate, End
<1>20. ASSUME NEW p \in Pixels, ProcessDirectEvent(p) PROVE TypeOK'
  BY <1>20 DEF ProcessDirectEvent, End
<1>21. ASSUME NEW p \in Pixels, ProcessDirectDispatch(p) PROVE TypeOK'
  BY <1>21 DEF ProcessDirectDispatch, End
<1>22. ASSUME NEW p \in Pixels, DedupExpires(p) PROVE TypeOK'
  BY <1>22 DEF DedupExpires
<1>23. ASSUME NEW q \in Procs, Crash(q) PROVE TypeOK'
  BY <1>23 DEF Crash, LosesMemory, End
<1>24. CASE UNCHANGED vars
  BY <1>24 DEF vars
<1>25. ASSUME NEW q \in Procs, Restart(q) PROVE TypeOK'
  BY <1>25 DEF Restart, LosesMemory
<1>26. ASSUME NEW h \in Handlers, RegisterSNSBinding(h) PROVE TypeOK'
  BY <1>26 DEF RegisterSNSBinding
<1> QED
  BY <1>1, <1>2, <1>3, <1>4, <1>5, <1>6, <1>7, <1>8, <1>9, <1>10,
     <1>11, <1>12, <1>13, <1>14, <1>15, <1>16, <1>17, <1>18, <1>19, <1>20,
     <1>21, <1>22, <1>23, <1>24, <1>25, <1>26
  DEF Next, Worker, Topic, HandleInbound, ProcessDirect

(* What a handler or a pixel holds at a step is what it needs there. *)
LEMMA AtStepPreserved == ASSUME IInv, [Next]_vars PROVE AtStep'
<1> USE ProcsAssumption DEF IInv, TypeOK, AtStep, HandlerAtStep, PixelAtStep, Class, Busy,
      rowVars, trailVars, snsVars, procVars, GoTo, Procs
<1>1. ASSUME SetProviderMessageID PROVE AtStep'
  BY <1>1 DEF SetProviderMessageID
<1>2. ASSUME MarkSent PROVE AtStep'
  BY <1>2 DEF MarkSent
<1>3. ASSUME Sweep PROVE AtStep'
  BY <1>3 DEF Sweep
<1>4. ASSUME Purge PROVE AtStep'
  BY <1>4 DEF Purge
<1>5. ASSUME NEW m \in Messages, Publish(m) PROVE AtStep'
  BY <1>5 DEF Publish
<1>6. ASSUME NEW m \in Messages, Redeliver(m) PROVE AtStep'
  BY <1>6 DEF Redeliver
<1>7. ASSUME NEW m \in Messages, GrowOld(m) PROVE AtStep'
  BY <1>7 DEF GrowOld
<1>8. ASSUME NEW h \in Handlers, NEW m \in Messages, Receive(h, m) PROVE AtStep'
  BY <1>8 DEF Receive
<1>9. ASSUME NEW h \in Handlers, Claim(h) PROVE AtStep'
  BY <1>9 DEF Claim, AfterClaim
<1>10. ASSUME NEW h \in Handlers, ConfirmSubscription(h) PROVE AtStep'
  BY <1>10 DEF ConfirmSubscription
<1>11. ASSUME NEW h \in Handlers, GetByProviderMessageID(h) PROVE AtStep'
  BY <1>11 DEF GetByProviderMessageID
<1>12. ASSUME NEW h \in Handlers, UpdateStatus(h) PROVE AtStep'
  BY <1>12 DEF UpdateStatus
<1>13. ASSUME NEW h \in Handlers, AddEvent(h) PROVE AtStep'
  BY <1>13 DEF AddEvent
<1>14. ASSUME NEW h \in Handlers, handleSuppression(h) PROVE AtStep'
  BY <1>14 DEF handleSuppression
<1>15. ASSUME NEW h \in Handlers, Dispatch(h) PROVE AtStep'
  BY <1>15 DEF Dispatch
<1>16. ASSUME NEW h \in Handlers, Respond(h) PROVE AtStep'
  BY <1>16 DEF Respond, End
<1>17. ASSUME NEW p \in Pixels, HandleOpen(p) PROVE AtStep'
  BY <1>17 DEF HandleOpen
<1>18. ASSUME NEW p \in Pixels, GetByTrackingID(p) PROVE AtStep'
  BY <1>18 DEF GetByTrackingID, End
<1>19. ASSUME NEW p \in Pixels, ProcessDirectUpdate(p) PROVE AtStep'
  BY <1>19 DEF ProcessDirectUpdate, End
<1>20. ASSUME NEW p \in Pixels, ProcessDirectEvent(p) PROVE AtStep'
  BY <1>20 DEF ProcessDirectEvent, End
<1>21. ASSUME NEW p \in Pixels, ProcessDirectDispatch(p) PROVE AtStep'
  BY <1>21 DEF ProcessDirectDispatch, End
<1>22. ASSUME NEW p \in Pixels, DedupExpires(p) PROVE AtStep'
  BY <1>22 DEF DedupExpires
<1>23. ASSUME NEW q \in Procs, Crash(q) PROVE AtStep'
  BY <1>23 DEF Crash, LosesMemory, End
<1>24. CASE UNCHANGED vars
  BY <1>24 DEF vars
<1>25. ASSUME NEW q \in Procs, Restart(q) PROVE AtStep'
  BY <1>25 DEF Restart, LosesMemory
<1>26. ASSUME NEW h \in Handlers, RegisterSNSBinding(h) PROVE AtStep'
  BY <1>26 DEF RegisterSNSBinding
<1> QED
  BY <1>1, <1>2, <1>3, <1>4, <1>5, <1>6, <1>7, <1>8, <1>9, <1>10,
     <1>11, <1>12, <1>13, <1>14, <1>15, <1>16, <1>17, <1>18, <1>19, <1>20,
     <1>21, <1>22, <1>23, <1>24, <1>25, <1>26
  DEF Next, Worker, Topic, HandleInbound, ProcessDirect


-----------------------------------------------------------------------------
(* A status moves forward only: what it is beyond, it stays beyond. *)
LEMMA BeyondStable ==
  ASSUME IInv, [Next]_vars
  PROVE  \A c \in {"delivered", "bounced", "complained"} :
                       status \in Beyond(c) => status' \in Beyond(c)
<1> USE DEF IInv, TypeOK, Beyond,
      rowVars, trailVars, snsVars, procVars, GoTo, Procs
<1>1. ASSUME SetProviderMessageID PROVE \A c \in {"delivered", "bounced", "complained"} :
                       status \in Beyond(c) => status' \in Beyond(c)
  BY <1>1 DEF SetProviderMessageID
<1>2. ASSUME MarkSent PROVE \A c \in {"delivered", "bounced", "complained"} :
                       status \in Beyond(c) => status' \in Beyond(c)
  BY <1>2 DEF MarkSent
<1>3. ASSUME Sweep PROVE \A c \in {"delivered", "bounced", "complained"} :
                       status \in Beyond(c) => status' \in Beyond(c)
  BY <1>3 DEF Sweep
<1>4. ASSUME Purge PROVE \A c \in {"delivered", "bounced", "complained"} :
                       status \in Beyond(c) => status' \in Beyond(c)
  BY <1>4 DEF Purge
<1>5. ASSUME NEW m \in Messages, Publish(m)
      PROVE  \A c \in {"delivered", "bounced", "complained"} :
                       status \in Beyond(c) => status' \in Beyond(c)
  BY <1>5 DEF Publish
<1>6. ASSUME NEW m \in Messages, Redeliver(m)
      PROVE  \A c \in {"delivered", "bounced", "complained"} :
                       status \in Beyond(c) => status' \in Beyond(c)
  BY <1>6 DEF Redeliver
<1>7. ASSUME NEW m \in Messages, GrowOld(m)
      PROVE  \A c \in {"delivered", "bounced", "complained"} :
                       status \in Beyond(c) => status' \in Beyond(c)
  BY <1>7 DEF GrowOld
<1>8. ASSUME NEW h \in Handlers, NEW m \in Messages, Receive(h, m)
      PROVE  \A c \in {"delivered", "bounced", "complained"} :
                       status \in Beyond(c) => status' \in Beyond(c)
  BY <1>8 DEF Receive
<1>9. ASSUME NEW h \in Handlers, Claim(h)
      PROVE  \A c \in {"delivered", "bounced", "complained"} :
                       status \in Beyond(c) => status' \in Beyond(c)
  BY <1>9 DEF Claim, AfterClaim
<1>10. ASSUME NEW h \in Handlers, ConfirmSubscription(h)
       PROVE  \A c \in {"delivered", "bounced", "complained"} :
                       status \in Beyond(c) => status' \in Beyond(c)
  BY <1>10 DEF ConfirmSubscription
<1>11. ASSUME NEW h \in Handlers, GetByProviderMessageID(h)
       PROVE  \A c \in {"delivered", "bounced", "complained"} :
                       status \in Beyond(c) => status' \in Beyond(c)
  BY <1>11 DEF GetByProviderMessageID
<1>12. ASSUME NEW h \in Handlers, UpdateStatus(h)
       PROVE  \A c \in {"delivered", "bounced", "complained"} :
                       status \in Beyond(c) => status' \in Beyond(c)
  <2>1. CASE status' = Class(h) /\ status = seen[h] /\ pc[h] = "update"
    <3>1. Class(h) \in validTransitions[status] /\ Class(h) \in {"delivered", "bounced", "complained"}
      BY <2>1, KindFacts DEF AtStep, HandlerAtStep, Class
    <3> QED
      BY <2>1, <3>1, TransitionFacts
  <2> QED
    BY <1>12, <2>1 DEF UpdateStatus, Class
<1>13. ASSUME NEW h \in Handlers, AddEvent(h)
       PROVE  \A c \in {"delivered", "bounced", "complained"} :
                       status \in Beyond(c) => status' \in Beyond(c)
  BY <1>13 DEF AddEvent
<1>14. ASSUME NEW h \in Handlers, handleSuppression(h)
       PROVE  \A c \in {"delivered", "bounced", "complained"} :
                       status \in Beyond(c) => status' \in Beyond(c)
  BY <1>14 DEF handleSuppression
<1>15. ASSUME NEW h \in Handlers, Dispatch(h)
       PROVE  \A c \in {"delivered", "bounced", "complained"} :
                       status \in Beyond(c) => status' \in Beyond(c)
  BY <1>15 DEF Dispatch
<1>16. ASSUME NEW h \in Handlers, Respond(h)
       PROVE  \A c \in {"delivered", "bounced", "complained"} :
                       status \in Beyond(c) => status' \in Beyond(c)
  BY <1>16 DEF Respond, End
<1>17. ASSUME NEW p \in Pixels, HandleOpen(p)
       PROVE  \A c \in {"delivered", "bounced", "complained"} :
                       status \in Beyond(c) => status' \in Beyond(c)
  BY <1>17 DEF HandleOpen
<1>18. ASSUME NEW p \in Pixels, GetByTrackingID(p)
       PROVE  \A c \in {"delivered", "bounced", "complained"} :
                       status \in Beyond(c) => status' \in Beyond(c)
  BY <1>18 DEF GetByTrackingID, End
<1>19. ASSUME NEW p \in Pixels, ProcessDirectUpdate(p)
       PROVE  \A c \in {"delivered", "bounced", "complained"} :
                       status \in Beyond(c) => status' \in Beyond(c)
  BY <1>19 DEF ProcessDirectUpdate, End, AtStep, PixelAtStep
<1>20. ASSUME NEW p \in Pixels, ProcessDirectEvent(p)
       PROVE  \A c \in {"delivered", "bounced", "complained"} :
                       status \in Beyond(c) => status' \in Beyond(c)
  BY <1>20 DEF ProcessDirectEvent, End
<1>21. ASSUME NEW p \in Pixels, ProcessDirectDispatch(p)
       PROVE  \A c \in {"delivered", "bounced", "complained"} :
                       status \in Beyond(c) => status' \in Beyond(c)
  BY <1>21 DEF ProcessDirectDispatch, End
<1>22. ASSUME NEW p \in Pixels, DedupExpires(p)
       PROVE  \A c \in {"delivered", "bounced", "complained"} :
                       status \in Beyond(c) => status' \in Beyond(c)
  BY <1>22 DEF DedupExpires
<1>23. ASSUME NEW q \in Procs, Crash(q) PROVE \A c \in {"delivered", "bounced", "complained"} :
                       status \in Beyond(c) => status' \in Beyond(c)
  BY <1>23 DEF Crash, LosesMemory, End
<1>24. CASE UNCHANGED vars
  BY <1>24 DEF vars
<1>25. ASSUME NEW q \in Procs, Restart(q) PROVE \A c \in {"delivered", "bounced", "complained"} :
                       status \in Beyond(c) => status' \in Beyond(c)
  BY <1>25 DEF Restart, LosesMemory
<1>26. ASSUME NEW h \in Handlers, RegisterSNSBinding(h) PROVE \A c \in {"delivered", "bounced", "complained"} :
                       status \in Beyond(c) => status' \in Beyond(c)
  BY <1>26 DEF RegisterSNSBinding
<1> QED
  BY <1>1, <1>2, <1>3, <1>4, <1>5, <1>6, <1>7, <1>8, <1>9, <1>10,
     <1>11, <1>12, <1>13, <1>14, <1>15, <1>16, <1>17, <1>18, <1>19, <1>20,
     <1>21, <1>22, <1>23, <1>24, <1>25, <1>26
  DEF Next, Worker, Topic, HandleInbound, ProcessDirect

(* Two handlers never apply the same event: the second finds the row beyond it. *)
LEMMA AlonePreserved == ASSUME IInv, [Next]_vars PROVE Alone'
<1> USE ProcsAssumption DEF IInv, TypeOK, Alone, Class, Busy,
      rowVars, trailVars, snsVars, procVars, GoTo, Procs
<1>1. ASSUME SetProviderMessageID PROVE Alone'
  BY <1>1 DEF SetProviderMessageID
<1>2. ASSUME MarkSent PROVE Alone'
  BY <1>2 DEF MarkSent
<1>3. ASSUME Sweep PROVE Alone'
  BY <1>3 DEF Sweep
<1>4. ASSUME Purge PROVE Alone'
  BY <1>4 DEF Purge
<1>5. ASSUME NEW m \in Messages, Publish(m) PROVE Alone'
  BY <1>5 DEF Publish
<1>6. ASSUME NEW m \in Messages, Redeliver(m) PROVE Alone'
  BY <1>6 DEF Redeliver
<1>7. ASSUME NEW m \in Messages, GrowOld(m) PROVE Alone'
  BY <1>7 DEF GrowOld
<1>8. ASSUME NEW h \in Handlers, NEW m \in Messages, Receive(h, m) PROVE Alone'
  BY <1>8 DEF Receive
<1>9. ASSUME NEW h \in Handlers, Claim(h) PROVE Alone'
  BY <1>9 DEF Claim, AfterClaim
<1>10. ASSUME NEW h \in Handlers, ConfirmSubscription(h) PROVE Alone'
  BY <1>10 DEF ConfirmSubscription
<1>11. ASSUME NEW h \in Handlers, GetByProviderMessageID(h) PROVE Alone'
  BY <1>11 DEF GetByProviderMessageID
<1>12. ASSUME NEW h \in Handlers, UpdateStatus(h) PROVE Alone'
  <2>1. CASE pc' = [pc EXCEPT ![h] = "ok"] /\ UNCHANGED status
    BY <1>12, <2>1 DEF UpdateStatus
  <2>2. CASE status' = Class(h) /\ status = seen[h] /\ pc' = [pc EXCEPT ![h] = "event"]
    <3>1. /\ Class(h) \in validTransitions[status]
          /\ Class(h) \in {"delivered", "bounced", "complained"}
      BY <1>12, <2>2, KindFacts DEF UpdateStatus, AtStep, HandlerAtStep
    <3>2. status \notin Beyond(Class(h))
      BY <3>1, TransitionFacts DEF Beyond
    <3> QED
      BY <1>12, <2>2, <3>1, <3>2 DEF UpdateStatus, ShowsInRow, Events
  <2> QED
    BY <1>12, <2>1, <2>2 DEF UpdateStatus, Class
<1>13. ASSUME NEW h \in Handlers, AddEvent(h) PROVE Alone'
  BY <1>13 DEF AddEvent
<1>14. ASSUME NEW h \in Handlers, handleSuppression(h) PROVE Alone'
  BY <1>14 DEF handleSuppression
<1>15. ASSUME NEW h \in Handlers, Dispatch(h) PROVE Alone'
  BY <1>15 DEF Dispatch
<1>16. ASSUME NEW h \in Handlers, Respond(h) PROVE Alone'
  BY <1>16 DEF Respond, End
<1>17. ASSUME NEW p \in Pixels, HandleOpen(p) PROVE Alone'
  BY <1>17 DEF HandleOpen
<1>18. ASSUME NEW p \in Pixels, GetByTrackingID(p) PROVE Alone'
  BY <1>18 DEF GetByTrackingID, End
<1>19. ASSUME NEW p \in Pixels, ProcessDirectUpdate(p) PROVE Alone'
  BY <1>19 DEF ProcessDirectUpdate, End
<1>20. ASSUME NEW p \in Pixels, ProcessDirectEvent(p) PROVE Alone'
  BY <1>20 DEF ProcessDirectEvent, End
<1>21. ASSUME NEW p \in Pixels, ProcessDirectDispatch(p) PROVE Alone'
  BY <1>21 DEF ProcessDirectDispatch, End
<1>22. ASSUME NEW p \in Pixels, DedupExpires(p) PROVE Alone'
  BY <1>22 DEF DedupExpires
<1>23. ASSUME NEW q \in Procs, Crash(q) PROVE Alone'
  BY <1>23 DEF Crash, LosesMemory, End
<1>24. CASE UNCHANGED vars
  BY <1>24 DEF vars
<1>25. ASSUME NEW q \in Procs, Restart(q) PROVE Alone'
  BY <1>25 DEF Restart, LosesMemory
<1>26. ASSUME NEW h \in Handlers, RegisterSNSBinding(h) PROVE Alone'
  BY <1>26 DEF RegisterSNSBinding
<1> QED
  BY <1>1, <1>2, <1>3, <1>4, <1>5, <1>6, <1>7, <1>8, <1>9, <1>10,
     <1>11, <1>12, <1>13, <1>14, <1>15, <1>16, <1>17, <1>18, <1>19, <1>20,
     <1>21, <1>22, <1>23, <1>24, <1>25, <1>26
  DEF Next, Worker, Topic, HandleInbound, ProcessDirect

(* What the one handler is about to record is not recorded. *)
LEMMA NotYetPreserved == ASSUME IInv, [Next]_vars PROVE NotYetRecorded'
<1> USE ProcsAssumption DEF IInv, TypeOK, NotYetRecorded, Class, Busy,
      rowVars, trailVars, snsVars, procVars, GoTo, Procs
<1>1. ASSUME SetProviderMessageID PROVE NotYetRecorded'
  BY <1>1 DEF SetProviderMessageID
<1>2. ASSUME MarkSent PROVE NotYetRecorded'
  BY <1>2 DEF MarkSent
<1>3. ASSUME Sweep PROVE NotYetRecorded'
  BY <1>3 DEF Sweep
<1>4. ASSUME Purge PROVE NotYetRecorded'
  BY <1>4 DEF Purge, Events
<1>5. ASSUME NEW m \in Messages, Publish(m) PROVE NotYetRecorded'
  BY <1>5 DEF Publish
<1>6. ASSUME NEW m \in Messages, Redeliver(m) PROVE NotYetRecorded'
  BY <1>6 DEF Redeliver
<1>7. ASSUME NEW m \in Messages, GrowOld(m) PROVE NotYetRecorded'
  BY <1>7 DEF GrowOld
<1>8. ASSUME NEW h \in Handlers, NEW m \in Messages, Receive(h, m) PROVE NotYetRecorded'
  BY <1>8 DEF Receive
<1>9. ASSUME NEW h \in Handlers, Claim(h) PROVE NotYetRecorded'
  BY <1>9 DEF Claim, AfterClaim
<1>10. ASSUME NEW h \in Handlers, ConfirmSubscription(h) PROVE NotYetRecorded'
  BY <1>10 DEF ConfirmSubscription
<1>11. ASSUME NEW h \in Handlers, GetByProviderMessageID(h) PROVE NotYetRecorded'
  BY <1>11 DEF GetByProviderMessageID
<1>12. ASSUME NEW h \in Handlers, UpdateStatus(h) PROVE NotYetRecorded'
  <2>1. CASE pc' = [pc EXCEPT ![h] = "ok"] /\ UNCHANGED status
    BY <1>12, <2>1 DEF UpdateStatus
  <2>2. CASE status' = Class(h) /\ status = seen[h] /\ pc' = [pc EXCEPT ![h] = "event"]
    <3>1. /\ Class(h) \in validTransitions[status]
          /\ Class(h) \in {"delivered", "bounced", "complained"}
      BY <1>12, <2>2, KindFacts DEF UpdateStatus, AtStep, HandlerAtStep
    <3>2. status \notin Beyond(Class(h))
      BY <3>1, TransitionFacts DEF Beyond
    <3> QED
      BY <1>12, <2>2, <3>1, <3>2 DEF UpdateStatus, ShowsInRow, Events
  <2> QED
    BY <1>12, <2>1, <2>2 DEF UpdateStatus, Class
<1>13. ASSUME NEW h \in Handlers, AddEvent(h) PROVE NotYetRecorded'
  <2>1. Kind[msg[h]] \in Events
    BY <1>13, KindFacts DEF AddEvent, AtStep, HandlerAtStep
  <2> QED
    BY <1>13, <2>1 DEF AddEvent, Alone, Events
<1>14. ASSUME NEW h \in Handlers, handleSuppression(h) PROVE NotYetRecorded'
  BY <1>14 DEF handleSuppression
<1>15. ASSUME NEW h \in Handlers, Dispatch(h) PROVE NotYetRecorded'
  <2>1. Kind[msg[h]] \in Events
    BY <1>15, KindFacts DEF Dispatch, AtStep, HandlerAtStep
  <2> QED
    BY <1>15, <2>1 DEF Dispatch, Alone, Events
<1>16. ASSUME NEW h \in Handlers, Respond(h) PROVE NotYetRecorded'
  BY <1>16 DEF Respond, End
<1>17. ASSUME NEW p \in Pixels, HandleOpen(p) PROVE NotYetRecorded'
  BY <1>17 DEF HandleOpen
<1>18. ASSUME NEW p \in Pixels, GetByTrackingID(p) PROVE NotYetRecorded'
  BY <1>18 DEF GetByTrackingID, End
<1>19. ASSUME NEW p \in Pixels, ProcessDirectUpdate(p) PROVE NotYetRecorded'
  BY <1>19 DEF ProcessDirectUpdate, End
<1>20. ASSUME NEW p \in Pixels, ProcessDirectEvent(p) PROVE NotYetRecorded'
  BY <1>20 DEF ProcessDirectEvent, End, Events, Logged
<1>21. ASSUME NEW p \in Pixels, ProcessDirectDispatch(p) PROVE NotYetRecorded'
  BY <1>21 DEF ProcessDirectDispatch, End, Events, Logged
<1>22. ASSUME NEW p \in Pixels, DedupExpires(p) PROVE NotYetRecorded'
  BY <1>22 DEF DedupExpires
<1>23. ASSUME NEW q \in Procs, Crash(q) PROVE NotYetRecorded'
  BY <1>23 DEF Crash, LosesMemory, End
<1>24. CASE UNCHANGED vars
  BY <1>24 DEF vars
<1>25. ASSUME NEW q \in Procs, Restart(q) PROVE NotYetRecorded'
  BY <1>25 DEF Restart, LosesMemory
<1>26. ASSUME NEW h \in Handlers, RegisterSNSBinding(h) PROVE NotYetRecorded'
  BY <1>26 DEF RegisterSNSBinding
<1> QED
  BY <1>1, <1>2, <1>3, <1>4, <1>5, <1>6, <1>7, <1>8, <1>9, <1>10,
     <1>11, <1>12, <1>13, <1>14, <1>15, <1>16, <1>17, <1>18, <1>19, <1>20,
     <1>21, <1>22, <1>23, <1>24, <1>25, <1>26
  DEF Next, Worker, Topic, HandleInbound, ProcessDirect

(* A handler suppresses after it has logged. *)
LEMMA LoggedFirstPreserved == ASSUME IInv, [Next]_vars PROVE LoggedFirst'
<1> USE ProcsAssumption DEF IInv, TypeOK, LoggedFirst,
      rowVars, trailVars, snsVars, procVars, GoTo, Procs
<1>1. ASSUME SetProviderMessageID PROVE LoggedFirst'
  BY <1>1 DEF SetProviderMessageID
<1>2. ASSUME MarkSent PROVE LoggedFirst'
  BY <1>2 DEF MarkSent
<1>3. ASSUME Sweep PROVE LoggedFirst'
  BY <1>3 DEF Sweep
<1>4. ASSUME Purge PROVE LoggedFirst'
  BY <1>4 DEF Purge
<1>5. ASSUME NEW m \in Messages, Publish(m) PROVE LoggedFirst'
  BY <1>5 DEF Publish
<1>6. ASSUME NEW m \in Messages, Redeliver(m) PROVE LoggedFirst'
  BY <1>6 DEF Redeliver
<1>7. ASSUME NEW m \in Messages, GrowOld(m) PROVE LoggedFirst'
  BY <1>7 DEF GrowOld
<1>8. ASSUME NEW h \in Handlers, NEW m \in Messages, Receive(h, m) PROVE LoggedFirst'
  BY <1>8 DEF Receive
<1>9. ASSUME NEW h \in Handlers, Claim(h) PROVE LoggedFirst'
  BY <1>9 DEF Claim, AfterClaim
<1>10. ASSUME NEW h \in Handlers, ConfirmSubscription(h) PROVE LoggedFirst'
  BY <1>10 DEF ConfirmSubscription
<1>11. ASSUME NEW h \in Handlers, GetByProviderMessageID(h) PROVE LoggedFirst'
  BY <1>11 DEF GetByProviderMessageID
<1>12. ASSUME NEW h \in Handlers, UpdateStatus(h) PROVE LoggedFirst'
  BY <1>12, BeyondStable DEF UpdateStatus, ShowsInRow, Busy, Beyond
<1>13. ASSUME NEW h \in Handlers, AddEvent(h) PROVE LoggedFirst'
  <2>1. \A g \in Handlers : pc[g] \in Busy => Kind[msg[g]] \in Logged
    BY KindFacts DEF AtStep, HandlerAtStep, Events, Busy
  <2> QED
    BY <1>13, <2>1 DEF AddEvent, Busy
<1>14. ASSUME NEW h \in Handlers, handleSuppression(h) PROVE LoggedFirst'
  BY <1>14 DEF handleSuppression
<1>15. ASSUME NEW h \in Handlers, Dispatch(h) PROVE LoggedFirst'
  BY <1>15 DEF Dispatch
<1>16. ASSUME NEW h \in Handlers, Respond(h) PROVE LoggedFirst'
  BY <1>16 DEF Respond, End
<1>17. ASSUME NEW p \in Pixels, HandleOpen(p) PROVE LoggedFirst'
  BY <1>17 DEF HandleOpen
<1>18. ASSUME NEW p \in Pixels, GetByTrackingID(p) PROVE LoggedFirst'
  BY <1>18 DEF GetByTrackingID, End
<1>19. ASSUME NEW p \in Pixels, ProcessDirectUpdate(p) PROVE LoggedFirst'
  BY <1>19 DEF ProcessDirectUpdate, End, AtStep, PixelAtStep
<1>20. ASSUME NEW p \in Pixels, ProcessDirectEvent(p) PROVE LoggedFirst'
  <2>1. \A g \in Handlers : pc[g] = "suppress" => Kind[msg[g]] \in Logged
    BY KindFacts DEF AtStep, HandlerAtStep, Events, Busy
  <2> QED
    BY <1>20, <2>1 DEF ProcessDirectEvent, End
<1>21. ASSUME NEW p \in Pixels, ProcessDirectDispatch(p) PROVE LoggedFirst'
  BY <1>21 DEF ProcessDirectDispatch, End
<1>22. ASSUME NEW p \in Pixels, DedupExpires(p) PROVE LoggedFirst'
  BY <1>22 DEF DedupExpires
<1>23. ASSUME NEW q \in Procs, Crash(q) PROVE LoggedFirst'
  BY <1>23 DEF Crash, LosesMemory, End
<1>24. CASE UNCHANGED vars
  BY <1>24 DEF vars
<1>25. ASSUME NEW q \in Procs, Restart(q) PROVE LoggedFirst'
  BY <1>25 DEF Restart, LosesMemory
<1>26. ASSUME NEW h \in Handlers, RegisterSNSBinding(h) PROVE LoggedFirst'
  BY <1>26 DEF RegisterSNSBinding
<1> QED
  BY <1>1, <1>2, <1>3, <1>4, <1>5, <1>6, <1>7, <1>8, <1>9, <1>10,
     <1>11, <1>12, <1>13, <1>14, <1>15, <1>16, <1>17, <1>18, <1>19, <1>20,
     <1>21, <1>22, <1>23, <1>24, <1>25, <1>26
  DEF Next, Worker, Topic, HandleInbound, ProcessDirect

(* The row shows what was applied, logged and listed. *)
LEMMA ShowsPreserved == ASSUME IInv, [Next]_vars PROVE ShowsInRow'
<1> USE ProcsAssumption DEF IInv, TypeOK, ShowsInRow, Class, Busy,
      rowVars, trailVars, snsVars, procVars, GoTo, Procs
<1>1. ASSUME SetProviderMessageID PROVE ShowsInRow'
  BY <1>1 DEF SetProviderMessageID
<1>2. ASSUME MarkSent PROVE ShowsInRow'
  BY <1>2, KindFacts DEF MarkSent, Beyond, AtStep, HandlerAtStep
<1>3. ASSUME Sweep PROVE ShowsInRow'
  BY <1>3, KindFacts DEF Sweep, Beyond, AtStep, HandlerAtStep
<1>4. ASSUME Purge PROVE ShowsInRow'
  BY <1>4 DEF Purge, Beyond, Events
<1>5. ASSUME NEW m \in Messages, Publish(m) PROVE ShowsInRow'
  BY <1>5 DEF Publish
<1>6. ASSUME NEW m \in Messages, Redeliver(m) PROVE ShowsInRow'
  BY <1>6 DEF Redeliver
<1>7. ASSUME NEW m \in Messages, GrowOld(m) PROVE ShowsInRow'
  BY <1>7 DEF GrowOld
<1>8. ASSUME NEW h \in Handlers, NEW m \in Messages, Receive(h, m) PROVE ShowsInRow'
  BY <1>8 DEF Receive
<1>9. ASSUME NEW h \in Handlers, Claim(h) PROVE ShowsInRow'
  BY <1>9 DEF Claim, AfterClaim
<1>10. ASSUME NEW h \in Handlers, ConfirmSubscription(h) PROVE ShowsInRow'
  BY <1>10 DEF ConfirmSubscription
<1>11. ASSUME NEW h \in Handlers, GetByProviderMessageID(h) PROVE ShowsInRow'
  BY <1>11 DEF GetByProviderMessageID
<1>12. ASSUME NEW h \in Handlers, UpdateStatus(h) PROVE ShowsInRow'
  <2>1. \A c \in {"delivered", "bounced", "complained"} : status \in Beyond(c) => status' \in Beyond(c)
    BY BeyondStable
  <2>2. \A g \in Handlers : pc[g] \in {"update"} \union Busy =>
          Class(g) \in {"delivered", "bounced", "complained"}
    BY KindFacts DEF AtStep, HandlerAtStep
  <2>3. \A g \in Handlers : pc'[g] \in Busy => status' \in Beyond(Class(g))
    BY <1>12, <2>1, <2>2 DEF UpdateStatus, Beyond
  <2>4. \A k \in Events : log[k] > 0 \/ dispatched[k] > 0 => status' \in Beyond(mapEventToStatus(k))
    BY <2>1, KindFacts
  <2>5. "global" \in lists => status' = "purged" \/ (status' = "bounced" /\ log["hard"] > 0)
    BY <2>1 DEF Beyond
  <2>6. "workspace" \in lists => status' \in {"complained", "purged"}
    BY <2>1 DEF Beyond
  <2> QED
    BY <1>12, <2>3, <2>4, <2>5, <2>6 DEF UpdateStatus
<1>13. ASSUME NEW h \in Handlers, AddEvent(h) PROVE ShowsInRow'
  <2>1. Kind[msg[h]] \in Events /\ Kind[msg[h]] \in Logged
    BY <1>13, KindFacts DEF AddEvent, AtStep, HandlerAtStep, Events
  <2>2. \A k \in Events : log'[k] > 0 => log[k] > 0 \/ k = Kind[msg[h]]
    BY <1>13, <2>1 DEF AddEvent, Events
  <2>3. log["hard"] > 0 => log'["hard"] > 0
    BY <1>13, <2>1 DEF AddEvent, Logged, Negative
  <2>4. status \in Beyond(Class(h))
    BY <1>13 DEF AddEvent
  <2> QED
    BY <1>13, <2>2, <2>3, <2>4 DEF AddEvent
<1>14. ASSUME NEW h \in Handlers, handleSuppression(h) PROVE ShowsInRow'
  <2>1. Kind[msg[h]] \in Events /\ status \in Beyond(Class(h))
    BY <1>14, KindFacts DEF handleSuppression, AtStep, HandlerAtStep
  <2>2. Kind[msg[h]] = "hard" => status = "purged" \/ (status = "bounced" /\ log["hard"] > 0)
    BY <1>14, <2>1 DEF handleSuppression, LoggedFirst, Beyond, mapEventToStatus
  <2>3. Kind[msg[h]] = "complained" => status \in {"complained", "purged"}
    BY <2>1 DEF Beyond, mapEventToStatus
  <2> QED
    BY <1>14, <2>2, <2>3 DEF handleSuppression
<1>15. ASSUME NEW h \in Handlers, Dispatch(h) PROVE ShowsInRow'
  <2>1. Kind[msg[h]] \in Events /\ status \in Beyond(Class(h))
    BY <1>15, KindFacts DEF Dispatch, AtStep, HandlerAtStep
  <2>2. \A k \in Events : dispatched'[k] > 0 => dispatched[k] > 0 \/ k = Kind[msg[h]]
    BY <1>15, <2>1 DEF Dispatch, Events
  <2> QED
    BY <1>15, <2>1, <2>2 DEF Dispatch
<1>16. ASSUME NEW h \in Handlers, Respond(h) PROVE ShowsInRow'
  BY <1>16 DEF Respond, End
<1>17. ASSUME NEW p \in Pixels, HandleOpen(p) PROVE ShowsInRow'
  BY <1>17 DEF HandleOpen
<1>18. ASSUME NEW p \in Pixels, GetByTrackingID(p) PROVE ShowsInRow'
  BY <1>18 DEF GetByTrackingID, End
<1>19. ASSUME NEW p \in Pixels, ProcessDirectUpdate(p) PROVE ShowsInRow'
  <2>1. \A c \in {"delivered", "bounced", "complained"} : status \in Beyond(c) => status' \in Beyond(c)
    BY BeyondStable
  <2>2. \A g \in Handlers : pc[g] \in Busy => Class(g) \in {"delivered", "bounced", "complained"}
    BY KindFacts DEF AtStep, HandlerAtStep
  <2>3. \A g \in Handlers : pc'[g] \in Busy => pc[g] \in Busy /\ msg'[g] = msg[g]
    BY <1>19, ProcsAssumption DEF ProcessDirectUpdate, End
  <2>4. \A k \in Events : log[k] > 0 \/ dispatched[k] > 0 => status' \in Beyond(mapEventToStatus(k))
    BY <2>1, KindFacts
  <2>5. "global" \in lists => status' = "purged" \/ (status' = "bounced" /\ log["hard"] > 0)
    BY <2>1 DEF Beyond
  <2>6. "workspace" \in lists => status' \in {"complained", "purged"}
    BY <2>1 DEF Beyond
  <2> QED
    BY <1>19, <2>1, <2>2, <2>3, <2>4, <2>5, <2>6 DEF ProcessDirectUpdate
<1>20. ASSUME NEW p \in Pixels, ProcessDirectEvent(p) PROVE ShowsInRow'
  <2>1. \A k \in Events : log'[k] = log[k]
    BY <1>20 DEF ProcessDirectEvent, Events, Logged
  <2>2. "hard" \in Events
    BY KindFacts
  <2> QED
    BY <1>20, <2>1, <2>2 DEF ProcessDirectEvent, End
<1>21. ASSUME NEW p \in Pixels, ProcessDirectDispatch(p) PROVE ShowsInRow'
  <2>1. \A k \in Events : dispatched'[k] = dispatched[k]
    BY <1>21 DEF ProcessDirectDispatch, Events, Logged
  <2> QED
    BY <1>21, <2>1 DEF ProcessDirectDispatch, End
<1>22. ASSUME NEW p \in Pixels, DedupExpires(p) PROVE ShowsInRow'
  BY <1>22 DEF DedupExpires
<1>23. ASSUME NEW q \in Procs, Crash(q) PROVE ShowsInRow'
  BY <1>23 DEF Crash, LosesMemory, End
<1>24. CASE UNCHANGED vars
  BY <1>24 DEF vars
<1>25. ASSUME NEW q \in Procs, Restart(q) PROVE ShowsInRow'
  BY <1>25 DEF Restart, LosesMemory
<1>26. ASSUME NEW h \in Handlers, RegisterSNSBinding(h) PROVE ShowsInRow'
  BY <1>26 DEF RegisterSNSBinding
<1> QED
  BY <1>1, <1>2, <1>3, <1>4, <1>5, <1>6, <1>7, <1>8, <1>9, <1>10,
     <1>11, <1>12, <1>13, <1>14, <1>15, <1>16, <1>17, <1>18, <1>19, <1>20,
     <1>21, <1>22, <1>23, <1>24, <1>25, <1>26
  DEF Next, Worker, Topic, HandleInbound, ProcessDirect

(* Only the one handler records, and it found nothing recorded. *)
LEMMA OncePreserved == ASSUME IInv, [Next]_vars PROVE AppliedOnce'
<1> USE DEF IInv, TypeOK, AppliedOnce,
      rowVars, trailVars, snsVars, procVars, GoTo, Procs
<1>1. ASSUME SetProviderMessageID PROVE AppliedOnce'
  BY <1>1 DEF SetProviderMessageID
<1>2. ASSUME MarkSent PROVE AppliedOnce'
  BY <1>2 DEF MarkSent
<1>3. ASSUME Sweep PROVE AppliedOnce'
  BY <1>3 DEF Sweep
<1>4. ASSUME Purge PROVE AppliedOnce'
  BY <1>4 DEF Purge, Logged, Negative
<1>5. ASSUME NEW m \in Messages, Publish(m) PROVE AppliedOnce'
  BY <1>5 DEF Publish
<1>6. ASSUME NEW m \in Messages, Redeliver(m) PROVE AppliedOnce'
  BY <1>6 DEF Redeliver
<1>7. ASSUME NEW m \in Messages, GrowOld(m) PROVE AppliedOnce'
  BY <1>7 DEF GrowOld
<1>8. ASSUME NEW h \in Handlers, NEW m \in Messages, Receive(h, m) PROVE AppliedOnce'
  BY <1>8 DEF Receive
<1>9. ASSUME NEW h \in Handlers, Claim(h) PROVE AppliedOnce'
  BY <1>9 DEF Claim, AfterClaim
<1>10. ASSUME NEW h \in Handlers, ConfirmSubscription(h) PROVE AppliedOnce'
  BY <1>10 DEF ConfirmSubscription
<1>11. ASSUME NEW h \in Handlers, GetByProviderMessageID(h) PROVE AppliedOnce'
  BY <1>11 DEF GetByProviderMessageID
<1>12. ASSUME NEW h \in Handlers, UpdateStatus(h) PROVE AppliedOnce'
  BY <1>12 DEF UpdateStatus
<1>13. ASSUME NEW h \in Handlers, AddEvent(h) PROVE AppliedOnce'
  <2>1. Kind[msg[h]] \in {"delivered", "hard", "soft", "complained"}
    BY <1>13, KindFacts DEF AddEvent, AtStep, HandlerAtStep, Busy
  <2>2. \A k \in Events : mapEventToStatus(k) = Class(h) => log[k] = 0
    BY <1>13 DEF AddEvent, NotYetRecorded
  <2> USE KindFacts, <2>2 DEF AddEvent, Class, mapEventToStatus, Logged, Negative
  <2>3. CASE Kind[msg[h]] = "delivered"
    BY <1>13, <2>3
  <2>4. CASE Kind[msg[h]] = "hard"
    BY <1>13, <2>4
  <2>5. CASE Kind[msg[h]] = "soft"
    BY <1>13, <2>5
  <2>6. CASE Kind[msg[h]] = "complained"
    BY <1>13, <2>6
  <2> QED
    BY <2>1, <2>3, <2>4, <2>5, <2>6
<1>14. ASSUME NEW h \in Handlers, handleSuppression(h) PROVE AppliedOnce'
  BY <1>14 DEF handleSuppression
<1>15. ASSUME NEW h \in Handlers, Dispatch(h) PROVE AppliedOnce'
  <2>1. Kind[msg[h]] \in Events
    BY <1>15, KindFacts DEF Dispatch, AtStep, HandlerAtStep, Busy
  <2>2. dispatched[Kind[msg[h]]] = 0
    BY <1>15, <2>1 DEF Dispatch, NotYetRecorded, Busy, Class
  <2>3. \A k \in Logged \ {"opened"} : dispatched'[k] <= 1
    BY <1>15, <2>1, <2>2 DEF Dispatch, Events
  <2> QED
    BY <1>15, <2>3 DEF Dispatch
<1>16. ASSUME NEW h \in Handlers, Respond(h) PROVE AppliedOnce'
  BY <1>16 DEF Respond, End
<1>17. ASSUME NEW p \in Pixels, HandleOpen(p) PROVE AppliedOnce'
  BY <1>17 DEF HandleOpen
<1>18. ASSUME NEW p \in Pixels, GetByTrackingID(p) PROVE AppliedOnce'
  BY <1>18 DEF GetByTrackingID, End
<1>19. ASSUME NEW p \in Pixels, ProcessDirectUpdate(p) PROVE AppliedOnce'
  BY <1>19 DEF ProcessDirectUpdate, End
<1>20. ASSUME NEW p \in Pixels, ProcessDirectEvent(p) PROVE AppliedOnce'
  BY <1>20 DEF ProcessDirectEvent, End, Logged, Negative
<1>21. ASSUME NEW p \in Pixels, ProcessDirectDispatch(p) PROVE AppliedOnce'
  BY <1>21 DEF ProcessDirectDispatch, End, Logged, Negative
<1>22. ASSUME NEW p \in Pixels, DedupExpires(p) PROVE AppliedOnce'
  BY <1>22 DEF DedupExpires
<1>23. ASSUME NEW q \in Procs, Crash(q) PROVE AppliedOnce'
  BY <1>23 DEF Crash, LosesMemory, End
<1>24. CASE UNCHANGED vars
  BY <1>24 DEF vars
<1>25. ASSUME NEW q \in Procs, Restart(q) PROVE AppliedOnce'
  BY <1>25 DEF Restart, LosesMemory
<1>26. ASSUME NEW h \in Handlers, RegisterSNSBinding(h) PROVE AppliedOnce'
  BY <1>26 DEF RegisterSNSBinding
<1> QED
  BY <1>1, <1>2, <1>3, <1>4, <1>5, <1>6, <1>7, <1>8, <1>9, <1>10,
     <1>11, <1>12, <1>13, <1>14, <1>15, <1>16, <1>17, <1>18, <1>19, <1>20,
     <1>21, <1>22, <1>23, <1>24, <1>25, <1>26
  DEF Next, Worker, Topic, HandleInbound, ProcessDirect

(* The invariant is inductive, so it holds in every reachable state. *)
LEMMA Inductive == Spec => []IInv
<1>1. IInv /\ [Next]_vars => IInv'
  BY TypePreserved, AtStepPreserved, AlonePreserved, NotYetPreserved, LoggedFirstPreserved,
     ShowsPreserved, OncePreserved DEF IInv
<1> QED
  BY InitIInv, <1>1, PTL DEF Spec
-----------------------------------------------------------------------------
(***************************************************************************)
(* The theorems                                                            *)
(***************************************************************************)

\* Every variable keeps its type.
THEOREM TypeCorrect == Spec => []TypeOK
<1>1. IInv => TypeOK
  BY DEF IInv
<1> QED
  BY Inductive, <1>1, PTL

\* Each event of an email is recorded and dispatched at most once, however
\* often SNS delivers it (Process, the compare-and-set of UpdateStatus).
THEOREM AppliedAtMostOnce == Spec => []AppliedOnce
<1>1. IInv => AppliedOnce
  BY DEF IInv
<1> QED
  BY Inductive, <1>1, PTL

\* Log, lists and row tell one story (Process, handleSuppression).
THEOREM TrailAlwaysAgrees == Spec => []TrailAgrees
<1>1. IInv => TrailAgrees
  <2> SUFFICES ASSUME IInv, status # "purged" PROVE TrailAgrees
    BY DEF TrailAgrees
  <2> USE DEF IInv, TypeOK
  <2>1. \A k \in Events : log[k] > 0 => status \in Beyond(mapEventToStatus(k))
    BY DEF ShowsInRow
  <2>2. log["hard"] \in Nat /\ log["soft"] \in Nat
    BY DEF Logged, Negative
  <2>3. log["hard"] + log["soft"] > 0 => status = "bounced"
    BY <2>1, <2>2, KindFacts DEF Beyond, mapEventToStatus
  <2>4. log["complained"] > 0 => status = "complained"
    BY <2>1, KindFacts DEF Beyond, mapEventToStatus
  <2>5. log["delivered"] > 0 => status \in {"delivered", "opened", "bounced", "complained"}
    BY <2>1, KindFacts DEF Beyond, mapEventToStatus
  <2>6. "global" \in lists => status = "bounced" /\ log["hard"] = 1
    BY <2>2 DEF ShowsInRow, AppliedOnce
  <2>7. "workspace" \in lists => status = "complained"
    BY DEF ShowsInRow
  <2> QED
    BY <2>3, <2>4, <2>5, <2>6, <2>7 DEF TrailAgrees
<1> QED
  BY Inductive, <1>1, PTL

\* A bounce or a complaint is the last word on an email (UpdateStatus,
\* ProcessDirectUpdate).
THEOREM NegativeAlwaysFinal == Spec => NegativeIsFinal
<1>1. ASSUME IInv, [Next]_vars
      PROVE  [(status \in {"bounced", "complained"}) => (status' \in {status, "purged"})]_vars
  BY <1>1, BeyondStable DEF Beyond
<1> QED
  BY Inductive, <1>1, PTL DEF Spec, NegativeIsFinal

(* A change of the status is an edge of the status machine, or the reset.  *)
LEMMA ChangesAreEdges ==
  ASSUME IInv, Next, status' # status
  PROVE  \/ status' = "purged"
         \/ <<status, status'>> \in Lifecycle!Edges
<1> USE DEF IInv, TypeOK, rowVars
<1>1. CASE Worker
  BY <1>1 DEF Worker, SetProviderMessageID, MarkSent, Sweep, Purge, Lifecycle!Edges
<1>2. CASE \E h \in Handlers : UpdateStatus(h)
  <2>1. PICK h \in Handlers : UpdateStatus(h)
    BY <1>2
  <2>2. status' = Class(h) /\ status = seen[h]
    BY <2>1 DEF UpdateStatus, Class
  <2>3. Class(h) \in validTransitions[status] /\ Class(h) \in {"delivered", "bounced", "complained"}
    BY <2>1, <2>2, KindFacts DEF UpdateStatus, AtStep, HandlerAtStep, Class
  <2>4. status \in {"sent", "delivered", "opened"} /\ (Class(h) = "delivered" => status = "sent")
    BY <2>3, TransitionFacts
  <2> QED
    BY <2>2, <2>3, <2>4 DEF Lifecycle!Edges
<1>3. CASE \E p \in Pixels : ProcessDirectUpdate(p)
  BY <1>3 DEF ProcessDirectUpdate, AtStep, PixelAtStep, Lifecycle!Edges
<1> QED
  BY <1>1, <1>2, <1>3 DEF Next, Topic, HandleInbound, ProcessDirect, Publish, Redeliver,
     GrowOld,
     Receive, Respond, Crash, Restart, RegisterSNSBinding, Claim, ConfirmSubscription, GetByProviderMessageID, AddEvent,
     handleSuppression, Dispatch, HandleOpen, DedupExpires, GetByTrackingID, ProcessDirectEvent,
     ProcessDirectDispatch

\* Every change the handlers, the pixel and the worker make to the row is a step
\* of EmailLifecycle (validTransitions, ProcessDirect).
THEOREM AlwaysAdvances == Spec => AdvancesLifecycle
<1>1. ASSUME IInv, [Next]_vars
      PROVE  [Lifecycle!Next]_status
  <2> SUFFICES ASSUME Next, status' # status PROVE Lifecycle!Next
    BY <1>1 DEF vars
  <2> DEFINE row(s) == [e \in {"email"} |-> s]
  <2>1. CASE status' = "purged"
    <3>1. status # "new"
      BY <1>1 DEF IInv, TypeOK, Statuses
    <3>2. row(status') = [e \in {"email"} |-> IF row(status)[e] = "new" THEN "new" ELSE "purged"]
      BY <2>1, <3>1
    <3>3. Lifecycle!Reset
      BY <3>2 DEF Lifecycle!Reset
    <3> QED
      BY <3>3 DEF Lifecycle!Next
  <2>2. CASE <<status, status'>> \in Lifecycle!Edges
    <3>1. row(status') = [row(status) EXCEPT !["email"] = status']
      OBVIOUS
    <3>2. Lifecycle!Advance("email", status')
      BY <2>2, <3>1 DEF Lifecycle!Advance
    <3>3. <<status, status'>>[2] = status'
      OBVIOUS
    <3> QED
      BY <2>2, <3>2, <3>3 DEF Lifecycle!Next
  <2> QED
    BY <1>1, <2>1, <2>2, ChangesAreEdges
<1> QED
  BY Inductive, <1>1, PTL DEF Spec, AdvancesLifecycle
=============================================================================
