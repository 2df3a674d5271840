------------------------- MODULE ReconcileCoalescer -------------------------
(***************************************************************************)
(* Reactive reconcile requests of one tenant in one process, coalesced by  *)
(* request_reconcile and _reconcile_worker (services/reconciler.py), next  *)
(* to the scheduled sync that is their safety net (main.py).               *)
(*                                                                         *)
(* asyncio runs a coroutine without interruption from one await to the     *)
(* next, so a step of the model is what happens between two awaits: asking *)
(* for a reconcile, popping the flag, the tenant lookup's return together  *)
(* with the start of the run, the run's end together with the next pop.    *)
(***************************************************************************)
EXTENDS Naturals, FiniteSets

CONSTANTS
    Workers,      \* asyncio tasks running _reconcile_worker
    NoWorker,     \* no entry in _reconcile_workers
    MaxVersions,  \* how often the configuration is saved (bound)
    MaxRequests,  \* how often a reconcile is asked for (bound)
    MaxMishaps    \* how many lookups, runs and processes fail (bound)

ASSUME CoalescerAssumption ==
    /\ NoWorker \notin Workers
    /\ {MaxVersions, MaxRequests, MaxMishaps} \subseteq Nat

VARIABLES
    version,     \* how often the tenant's YAML has been saved
    tenant,      \* the Tenant row: "present" or "gone"
    dirty,       \* _reconcile_dirty[tenant_id]
    registered,  \* _reconcile_workers[tenant_id]
    worker,      \* where each worker coroutine is
    reading,     \* the version each worker's run has read
    sync,        \* the scheduled sync: "idle" or "running"
    syncReading, \* the version it has read
    applied,     \* the latest version a finished run had read
    requests,    \* calls of request_reconcile so far
    runs,        \* reactive attempts so far
    mishaps      \* failures so far

coalescerVars == <<version, tenant, dirty, registered, worker, reading, sync,
                   syncReading, applied, requests, runs, mishaps>>

WorkerState == {"none", "created", "lookup", "running"}

CoalescerInit ==
    /\ version = 0
    /\ tenant = "present"
    /\ dirty = FALSE
    /\ registered = NoWorker
    /\ worker = [w \in Workers |-> "none"]
    /\ reading = [w \in Workers |-> 0]
    /\ sync = "idle" /\ syncReading = 0
    /\ applied = 0
    /\ requests = 0 /\ runs = 0 /\ mishaps = 0

Later(a, b) == IF a > b THEN a ELSE b
Fail == mishaps < MaxMishaps /\ mishaps' = mishaps + 1

-----------------------------------------------------------------------------
(* The callers *)

\* A configuration is saved.  Asking for its reconcile is a later step: the route
\* writes an audit record in between.
SaveConfig ==
    /\ version < MaxVersions
    /\ version' = version + 1
    /\ UNCHANGED <<tenant, dirty, registered, worker, reading, sync, syncReading,
                   applied, requests, runs, mishaps>>

\* Outside the code: the tenant's row is removed from the database.
RemoveTenant ==
    /\ tenant = "present"
    /\ tenant' = "gone"
    /\ UNCHANGED <<version, dirty, registered, worker, reading, sync, syncReading,
                   applied, requests, runs, mishaps>>

\* (mutant) A worker is created without looking for one.
RequestAlways ==
    /\ requests < MaxRequests
    /\ requests' = requests + 1
    /\ dirty' = TRUE
    /\ \E w \in Workers :
          /\ worker[w] = "none"
          /\ worker' = [worker EXCEPT ![w] = "created"]
          /\ registered' = w
    /\ UNCHANGED <<version, tenant, reading, sync, syncReading, applied, runs, mishaps>>

\* request_reconcile: the flag is set, and a worker created unless one is
\* registered already.
Request ==
    /\ requests < MaxRequests
    /\ requests' = requests + 1
    /\ dirty' = TRUE
    /\ \/ registered # NoWorker /\ UNCHANGED <<registered, worker>>
       \/ /\ registered = NoWorker
          /\ \E w \in Workers :
                /\ worker[w] = "none"
                /\ worker' = [worker EXCEPT ![w] = "created"]
                /\ registered' = w
    /\ UNCHANGED <<version, tenant, reading, sync, syncReading, applied, runs, mishaps>>

-----------------------------------------------------------------------------
(* The worker *)

\* (mutants) The worker ends without leaving the map; the flag is read, not popped.
PopStaying(w) ==
    IF dirty
    THEN /\ dirty' = FALSE
         /\ worker' = [worker EXCEPT ![w] = "lookup"]
         /\ runs' = runs + 1
         /\ UNCHANGED registered
    ELSE worker' = [worker EXCEPT ![w] = "none"] /\ UNCHANGED <<dirty, runs, registered>>
PopPeeking(w) ==
    /\ UNCHANGED dirty
    /\ IF dirty
       THEN /\ worker' = [worker EXCEPT ![w] = "lookup"]
            /\ runs' = runs + 1
            /\ UNCHANGED registered
       ELSE /\ worker' = [worker EXCEPT ![w] = "none"]
            /\ registered' = NoWorker
            /\ UNCHANGED runs

\* while dirty.pop(): another round, or the worker deregisters and ends, with no
\* await in between.
Pop(w) ==
    IF dirty
    THEN /\ dirty' = FALSE
         /\ worker' = [worker EXCEPT ![w] = "lookup"]
         /\ runs' = runs + 1
         /\ UNCHANGED registered
    ELSE /\ worker' = [worker EXCEPT ![w] = "none"]
         /\ registered' = NoWorker
         /\ UNCHANGED <<dirty, runs>>

\* The event loop gets to the new task.
WorkerBegins(w) ==
    /\ worker[w] = "created"
    /\ Pop(w)
    /\ UNCHANGED <<version, tenant, reading, sync, syncReading, applied, requests, mishaps>>

\* The lookup finds the tenant; reconcile_tenant reads its YAML before it awaits.
RunStarts(w) ==
    /\ worker[w] = "lookup" /\ tenant = "present"
    /\ worker' = [worker EXCEPT ![w] = "running"]
    /\ reading' = [reading EXCEPT ![w] = version]
    /\ UNCHANGED <<version, tenant, dirty, registered, sync, syncReading, applied,
                   requests, runs, mishaps>>

\* (mutant) The finished task stays known as such.
TenantMissingKept(w) ==
    /\ worker[w] = "lookup" /\ tenant = "gone"
    /\ worker' = [worker EXCEPT ![w] = "returned"]
    /\ registered' = NoWorker
    /\ UNCHANGED <<version, tenant, dirty, reading, sync, syncReading, applied,
                   requests, runs, mishaps>>

\* The lookup finds no tenant: return, and the finally clause deregisters.
TenantMissing(w) ==
    /\ worker[w] = "lookup" /\ tenant = "gone"
    /\ worker' = [worker EXCEPT ![w] = "none"]
    /\ registered' = NoWorker
    /\ UNCHANGED <<version, tenant, dirty, reading, sync, syncReading, applied,
                   requests, runs, mishaps>>

\* (mutant) One run per worker: the flag is not looked at again.
RunEndsForGood(w) ==
    /\ worker[w] = "running"
    /\ applied' = Later(applied, reading[w])
    /\ worker' = [worker EXCEPT ![w] = "none"]
    /\ registered' = NoWorker
    /\ UNCHANGED <<version, tenant, dirty, reading, sync, syncReading, requests, runs, mishaps>>

\* The run ends, having applied what it read.
RunEnds(w) ==
    /\ worker[w] = "running"
    /\ applied' = Later(applied, reading[w])
    /\ Pop(w)
    /\ UNCHANGED <<version, tenant, reading, sync, syncReading, requests, mishaps>>

\* The lookup or the run raises: logged, and the loop goes on.
RoundRaises(w) ==
    /\ worker[w] \in {"lookup", "running"}
    /\ Fail
    /\ Pop(w)
    /\ UNCHANGED <<version, tenant, reading, sync, syncReading, applied, requests>>

-----------------------------------------------------------------------------
(* The scheduled sync, which calls reconcile_tenant itself *)

\* (mutant) The sync leaves what nobody asked for alone.
SyncStartsIfAsked ==
    /\ sync = "idle" /\ tenant = "present" /\ requests > 0
    /\ sync' = "running"
    /\ syncReading' = version
    /\ UNCHANGED <<version, tenant, dirty, registered, worker, reading, applied,
                   requests, runs, mishaps>>

\* The interval has passed, or the process has booted.
SyncStarts ==
    /\ sync = "idle" /\ tenant = "present"
    /\ sync' = "running"
    /\ syncReading' = version
    /\ UNCHANGED <<version, tenant, dirty, registered, worker, reading, applied,
                   requests, runs, mishaps>>

\* The sync has applied what it read, or failed; the next one will come.
SyncEnds ==
    /\ sync = "running"
    /\ sync' = "idle"
    /\ \/ applied' = Later(applied, syncReading) /\ UNCHANGED mishaps
       \/ Fail /\ UNCHANGED applied
    /\ UNCHANGED <<version, tenant, dirty, registered, worker, reading, syncReading,
                   requests, runs>>

\* The process restarts: flags, workers and the sync are gone.
Restart ==
    /\ Fail
    /\ dirty' = FALSE
    /\ registered' = NoWorker
    /\ worker' = [w \in Workers |-> "none"]
    /\ sync' = "idle"
    /\ UNCHANGED <<version, tenant, reading, syncReading, applied, requests, runs>>

-----------------------------------------------------------------------------

WorkerStep(w) == WorkerBegins(w) \/ RunStarts(w) \/ TenantMissing(w) \/ RunEnds(w)

CoalescerNext ==
    \/ SaveConfig \/ RemoveTenant \/ Request
    \/ \E w \in Workers : WorkerStep(w) \/ RoundRaises(w)
    \/ SyncStarts \/ SyncEnds \/ Restart

\* The event loop runs what is ready, database calls return, and the scheduler
\* fires for ever.  Nobody has to ask for anything.
CoalescerFairness ==
    /\ \A w \in Workers : WF_coalescerVars(WorkerStep(w))
    /\ WF_coalescerVars(SyncStarts) /\ WF_coalescerVars(SyncEnds)

CoalescerSpec == CoalescerInit /\ [][CoalescerNext]_coalescerVars /\ CoalescerFairness

-----------------------------------------------------------------------------
(* Properties *)

\* Shapes, and what the counters count.
CoalescerTypeOK ==
    /\ version \in Nat /\ applied \in Nat /\ syncReading \in Nat
    /\ requests \in Nat /\ runs \in Nat /\ mishaps \in Nat
    /\ tenant \in {"present", "gone"}
    /\ dirty \in BOOLEAN
    /\ registered \in Workers \cup {NoWorker}
    /\ worker \in [Workers -> WorkerState]
    /\ reading \in [Workers -> Nat]
    /\ sync \in {"idle", "running"}

Busy(w) == worker[w] \in {"lookup", "running"}

\* "One worker per tenant runs at most one reconcile at a time": a second worker is
\* never created beside one that has not deregistered.
OneRun == \A v, w \in Workers : Busy(v) /\ Busy(w) => v = w

\* No request is left behind: whenever the flag is set there is a worker that will
\* look at it before it ends, unless the tenant is gone.
RequestCarried ==
    dirty /\ tenant = "present" => \E w \in Workers : worker[w] # "none" /\ registered = w

\* A burst costs no more runs than it has requests, and a request made during a run
\* is good for one more run only.
NoSpuriousRun == runs + (IF dirty THEN 1 ELSE 0) <= requests

\* Every saved configuration is applied in the end, by a reactive run or by the
\* scheduled sync, whatever raises or restarts, while there is a tenant to apply to.
EveryEditApplied ==
    \A n \in 1..MaxVersions : version >= n ~> applied >= n \/ tenant = "gone"

\* ReconcileCoalescer's flag and workers read as SingleFlight's variables.
Promise == INSTANCE SingleFlight WITH
    pending <- dirty,
    busy    <- \E w \in Workers : Busy(w),
    closed  <- tenant = "gone"

\* The worker, its map and its flag keep SingleFlight's promise, fairness included.
ImplementsSingleFlight == Promise!Spec
=============================================================================
