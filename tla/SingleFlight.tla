---------------------------- MODULE SingleFlight ----------------------------
(***************************************************************************)
(* What request_reconcile promises its callers, with no worker in sight:   *)
(* at most one run at a time, and no request left waiting without one.     *)
(***************************************************************************)
VARIABLES
    pending,  \* a request no run has picked up yet
    busy,     \* a run is under way
    closed    \* the tenant is gone: nothing is promised any more

vars == <<pending, busy, closed>>

Init == pending = FALSE /\ busy = FALSE /\ closed = FALSE

Ask   == pending' = TRUE /\ UNCHANGED <<busy, closed>>
\* A run begins, and serves every request made so far.
Take  == pending /\ ~busy /\ pending' = FALSE /\ busy' = TRUE /\ UNCHANGED closed
\* A run ends.  One that was asked for again meanwhile is followed by another.
Done  == busy /\ ~pending /\ busy' = FALSE /\ UNCHANGED <<pending, closed>>
Renew == busy /\ pending /\ pending' = FALSE /\ UNCHANGED <<busy, closed>>
Close == ~closed /\ closed' = TRUE /\ UNCHANGED <<pending, busy>>
\* A run that finds no tenant ends whatever is pending.
Leave == closed /\ busy /\ busy' = FALSE /\ UNCHANGED <<pending, closed>>
\* The process restarts: requests are not durable.
Reset == pending' = FALSE /\ busy' = FALSE /\ UNCHANGED closed

Next == Ask \/ Take \/ Done \/ Renew \/ Close \/ Leave \/ Reset

Spec == /\ Init /\ [][Next]_vars
        /\ WF_vars(~closed /\ Take) /\ WF_vars(Done \/ Renew \/ Leave)
=============================================================================
