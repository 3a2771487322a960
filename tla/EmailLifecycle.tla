-------------------------- MODULE EmailLifecycle --------------------------
(***************************************************************************)
(* What Senda promises about the status of an email, independent of jobs,  *)
(* retries and processes: a forward-only state machine in which an email   *)
(* is "sent" only if the provider holds at least one message for it, and   *)
(* the provider is only ever handed an email that is being processed.      *)
(*                                                                         *)
(* Edges is the diagram of docs/EMAIL_FLOWS.md and validTransitions, plus  *)
(* the one edge both leave out (processing -> suppressed, the worker's     *)
(* re-check of the lists).                                                 *)
(***************************************************************************)
CONSTANT Emails

VARIABLES
    status,  \* emails.status, "new" before the row and "purged" after it
    handed   \* emails the provider holds a message for

Terminal == {"suppressed", "failed", "bounced", "complained", "purged"}

Edges ==
    {<<"new", "queued">>, <<"new", "suppressed">>, <<"queued", "processing">>}
    \union {"processing"} \X {"sent", "failed", "suppressed"}
    \union {"sent"} \X {"delivered", "opened", "bounced", "complained"}
    \union {"delivered"} \X {"opened", "bounced", "complained"}
    \union {"opened"} \X {"bounced", "complained"}

Init ==
    /\ status = [e \in Emails |-> "new"]
    /\ handed = {}

Advance(e, s) ==
    /\ <<status[e], s>> \in Edges
    /\ s = "sent" => e \in handed
    /\ status' = [status EXCEPT ![e] = s]
    /\ UNCHANGED handed

Hand(e) ==
    /\ status[e] \in {"processing", "purged"}
    /\ handed' = handed \union {e}
    /\ UNCHANGED status

Reset ==
    /\ status' = [e \in Emails |-> IF status[e] = "new" THEN "new" ELSE "purged"]
    /\ UNCHANGED handed

Next ==
    \/ \E e \in Emails : Hand(e) \/ \E edge \in Edges : Advance(e, edge[2])
    \/ Reset

Spec == Init /\ [][Next]_<<status, handed>>
=============================================================================
