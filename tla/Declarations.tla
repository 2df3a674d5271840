---------------------------- MODULE Declarations ----------------------------
(* Declarative management of one device: ddm_manager.py, the device-facing  *)
(* endpoints of api/ddm.py, the forced sync of routes/declarations.py, and  *)
(* the places that reset the published token (webhook_handler.py).          *)
(*                                                                          *)
(* A declaration is a pair <<id, content>>; an authored one stands for its  *)
(* configuration and its activation. A token is a hash of the whole set, so *)
(* the set itself stands for it. A sync reads the device row, compares the  *)
(* set it computes with the published one, and sends a command; the device  *)
(* then fetches the manifest and the declarations one by one, and reports.  *)
EXTENDS Integers, Sequences, FiniteSets

CONSTANTS
    Items,       \* the authored declarations there may be
    Tagged,      \* those scoped to devices that carry the tag
    Waves,       \* those held back by a rollout until its wave opens
    Exotic,      \* those of a type the device does not support
    Callers,     \* who syncs: reconcile, flow, force, command
    Overlaps,    \* what else may happen: reenroll, revert, warm (see below)
    MaxEvents    \* edits, syncs but the reconciler's, faults, check-outs
                 \* and re-enrollments that may happen, all together

ASSUME DeclarationsAssumption ==
    "properties" \notin Items /\ Exotic \subseteq Items /\ MaxEvents \in Nat

VARIABLES
    cfg,      \* declarations.yaml: the content of each item, 0 when absent
    tagged,   \* Device.tags holds the tag
    open,     \* the rollout's wave has opened
    row,      \* the device row's DDM fields
    tasks,    \* the commands whose ddm_sync task is under way
    sync,     \* each caller's sync
    cache,    \* the declaration cache's slot of this device
    queue,    \* DeclarativeManagement commands in NanoMDM's queue
    answer,   \* the answer on its way back
    device,   \* the device itself
    told,     \* history: the sets sent since the device enrolled
    events    \* how many of the MaxEvents have happened

server == <<row, tasks, sync>>
config == <<cfg, tagged, open>>
vars == <<cfg, tagged, open, row, tasks, sync, cache, queue, answer, device, told,
          events>>

Nothing == {<<"none", 0>>}      \* no published token, no manifest
NoFailure == [set |-> Nothing, attempts |-> 0, waited |-> 0]
NotCached == [key |-> <<>>, set |-> Nothing]
Idle == [pc |-> "idle", set |-> Nothing, uuid |-> 0, cfg |-> <<>>, row |-> <<>>]
NoAnswer == [uuid |-> 0, status |-> "none"]
Ids(S) == {d[1] : d \in S}

(* What may happen only so many times.                                      *)
Event == events < MaxEvents /\ events' = events + 1

----------------------------------------------------------------------------
(* build_device_declarations: the items in scope whose rollout reached the  *)
(* device, and the automatic ones (the properties carry the tags), less     *)
(* those the device has said it does not support.                           *)
Desired(c, tag, wave, lacks) ==
    {<<i, c[i]>> : i \in {j \in Items \ lacks : /\ c[j] # 0
                                               /\ (j \in Tagged => tag)
                                               /\ (j \in Waves => wave)}}
        \cup {<<"properties", IF tag THEN 2 ELSE 1>>}
Current == Desired(cfg, tagged, open, row.lacks)

(* The cache: its key is everything a build reads but the clock.            *)
Fingerprint == <<cfg, tagged, row.lacks>>
Served == IF cache.key = Fingerprint THEN cache.set ELSE Current
Serve == cache' = [key |-> Fingerprint, set |-> Served]

CacheExpires ==
    /\ cache # NotCached
    /\ cache' = NotCached
    /\ UNCHANGED <<config, server, queue, answer, device, told, events>>

----------------------------------------------------------------------------
(* Statuses. An incremental report names what changed; what the server no   *)
(* longer serves is dropped unless the report names it.                     *)
Merge(old, delta, full) ==
    IF full THEN delta ELSE {d \in old : d[1] \notin Ids(delta)} \cup delta
PruneNothing(S, served, mentioned) == S                        \* (mutant)
Prune(S, served, mentioned) ==
    {d \in S : d[1] \in Ids(served) \cup mentioned}

(* ingest_status_report, with what the device says it lacks.                *)
Report(full, lost) ==
    /\ device.pc = "report"
    /\ IF lost THEN Event ELSE UNCHANGED events
    /\ LET changed == device.held \ device.reported
           delta == IF full THEN device.held ELSE changed
       IN  row' = [row EXCEPT !.status = Prune(Merge(@, delta, full), Served, Ids(delta)),
                              !.lacks = Exotic]
    /\ Serve
    /\ device' = IF lost THEN device
                 ELSE [device EXCEPT !.pc = "idle", !.reported = device.held]
    /\ UNCHANGED <<config, tasks, sync, queue, answer, told>>

----------------------------------------------------------------------------
(* sync_device. The reconciler reads the rows and the open tasks first, and *)
(* comes to the device later; the console clears the published token and    *)
(* the backoff; the command catalog sends whatever was published.           *)
BeginSync(p) ==
    /\ sync[p].pc = "idle" /\ row.enrolled
    /\ p = "reconcile" => tasks = {}
    /\ IF p = "reconcile" THEN UNCHANGED events ELSE Event
    /\ row' = IF p = "force" THEN [row EXCEPT !.published = Nothing, !.failure = NoFailure]
              ELSE row
    /\ sync' = [sync EXCEPT ![p] = [Idle EXCEPT !.pc = "decide",
                                    !.cfg = <<cfg, tagged, row.lacks>>, !.row = row']]
    /\ UNCHANGED <<config, tasks, cache, queue, answer, device, told>>

Wait(attempts) == IF attempts <= 1 THEN 1 ELSE 2
HeldOff(set, f) == f.set = set /\ f.waited < Wait(f.attempts)

Decide(p) ==
    /\ sync[p].pc = "decide"
    /\ LET mine == sync[p]
           set == Desired(mine.cfg[1], mine.cfg[2], open, mine.cfg[3])
           current == set = mine.row.published /\ mine.row.started
           held == HeldOff(set, mine.row.failure)
       IN  sync' = [sync EXCEPT ![p] =
                      IF p # "command" /\ (current \/ held) THEN Idle
                      ELSE [mine EXCEPT !.pc = "send", !.set = set]]
    /\ UNCHANGED <<config, row, tasks, cache, queue, answer, device, told, events>>

(* NanoMDM takes the command; the reply may be lost. A command's uuid is    *)
(* any that is not in use.                                                  *)
InUse == {queue[n].uuid : n \in 1..Len(queue)} \cup tasks \cup {answer.uuid}
             \cup {sync[p].uuid : p \in Callers}
NewUuid == CHOOSE n \in 1..Cardinality(InUse) + 1 :
               n \notin InUse /\ \A m \in 1..(n - 1) : m \in InUse
Enqueued(p) == /\ queue' = Append(queue, [set |-> sync[p].set, uuid |-> NewUuid])
               /\ told' = told \cup {sync[p].set}
Accepted(p) ==
    /\ sync[p].pc = "send"
    /\ Enqueued(p)
    /\ sync' = [sync EXCEPT ![p].pc = "save", ![p].uuid = NewUuid]
    /\ UNCHANGED <<config, row, tasks, cache, answer, device, events>>

(* A refusal is recorded and waited out; the count starts anew with a new   *)
(* set.                                                                     *)
NoteFailure(set) ==
    [set |-> set, waited |-> 0,
     attempts |-> IF row.failure.set = set THEN row.failure.attempts + 1 ELSE 1]

Refused(p, reached) ==
    /\ sync[p].pc = "send" /\ Event
    /\ IF reached THEN Enqueued(p) ELSE UNCHANGED <<queue, told>>
    /\ row' = IF p = "command" THEN row
              ELSE [row EXCEPT !.failure = NoteFailure(sync[p].set)]
    /\ sync' = [sync EXCEPT ![p] = Idle]
    /\ UNCHANGED <<config, tasks, cache, answer, device>>

(* The published token is saved, then the failure cleared, then the task    *)
(* created; the command's own task was created before.                      *)
SavePublished(p) ==
    /\ sync[p].pc = "save"
    /\ row' = [row EXCEPT !.published = sync[p].set, !.started = TRUE,
                          !.failure = IF sync[p].row.failure = NoFailure THEN @ ELSE NoFailure]
    /\ tasks' = tasks \cup {sync[p].uuid}
    /\ sync' = [sync EXCEPT ![p] = Idle]
    /\ UNCHANGED <<config, cache, queue, answer, device, told, events>>

(* The webhook of the answer. An error clears the published token, so that  *)
(* the reconciler sends again.                                              *)
HandleAnswerKeepingToken ==                                   \* (mutant)
    /\ answer.uuid \in tasks
    /\ answer' = NoAnswer
    /\ tasks' = tasks \ {answer.uuid}
    /\ UNCHANGED row
    /\ UNCHANGED <<config, sync, cache, queue, device, told, events>>
HandleAnswer ==
    /\ answer.uuid \in tasks
    /\ answer' = NoAnswer
    /\ tasks' = tasks \ {answer.uuid}
    /\ row' = IF answer.status = "error" THEN [row EXCEPT !.published = Nothing] ELSE row
    /\ UNCHANGED <<config, sync, cache, queue, device, told, events>>

(* No task ever comes: the send was lost with its process, or its reply.    *)
DiscardAnswer ==
    /\ answer # NoAnswer
    /\ answer.uuid \notin tasks \cup {sync[p].uuid : p \in Callers}
    /\ answer' = NoAnswer
    /\ UNCHANGED <<config, server, cache, queue, device, told, events>>

----------------------------------------------------------------------------
(* The device. The command carries the token; one that names what the       *)
(* device has ends there.                                                   *)
DeviceSyncs(ok) ==
    /\ queue # <<>> /\ answer = NoAnswer /\ device.pc = "idle"
    /\ IF ok THEN UNCHANGED events ELSE Event
    /\ answer' = [uuid |-> Head(queue).uuid, status |-> IF ok THEN "acknowledged" ELSE "error"]
    /\ queue' = Tail(queue)
    /\ device' = IF ok /\ device.token # Head(queue).set THEN [device EXCEPT !.pc = "manifest"]
                 ELSE device
    /\ UNCHANGED <<config, server, cache, told>>

DeviceGetsManifest ==
    /\ device.pc = "manifest"
    /\ Serve
    /\ device' = [device EXCEPT !.pc = "fetch", !.token = Served,
                                !.want = Served \ device.held,
                                !.held = {d \in @ : d[1] \in Ids(Served)}]
    /\ UNCHANGED <<config, server, queue, answer, told, events>>

(* A declaration that is not served any more is answered 404.               *)
DeviceFetches(i) ==
    /\ device.pc = "fetch" /\ i \in Ids(device.want)
    /\ Serve
    /\ device' = [device EXCEPT !.want = {d \in @ : d[1] # i},
                    !.held = {d \in @ : d[1] # i} \cup {d \in Served : d[1] = i}]
    /\ UNCHANGED <<config, server, queue, answer, told, events>>

DeviceApplies ==
    /\ device.pc = "fetch" /\ device.want = {}
    /\ device' = [device EXCEPT !.pc = "report"]
    /\ UNCHANGED <<config, server, cache, queue, answer, told, events>>

NewDevice == [pc |-> "idle", token |-> Nothing, want |-> {}, held |-> {}, reported |-> {}]

(* A check-out, and an enrollment: NanoMDM drops what was queued, the       *)
(* published token is cleared and the tasks under way fail. "reenroll" in   *)
(* Overlaps lets one happen while a sync is under way.                      *)
Undisturbed == \A p \in Callers : sync[p].pc \in {"idle", "decide"}
CheckOutKeepingToken ==                                       \* (mutant)
    /\ row.enrolled /\ Event
    /\ "reenroll" \in Overlaps \/ Undisturbed
    /\ row' = [row EXCEPT !.enrolled = FALSE]
    /\ tasks' = {} /\ queue' = <<>> /\ answer' = NoAnswer /\ told' = {}
    /\ device' = NewDevice
    /\ UNCHANGED <<config, sync, cache>>
CheckOut ==
    /\ row.enrolled /\ Event
    /\ "reenroll" \in Overlaps \/ Undisturbed
    /\ row' = [row EXCEPT !.enrolled = FALSE, !.published = Nothing]
    /\ tasks' = {} /\ queue' = <<>> /\ answer' = NoAnswer /\ told' = {}
    /\ device' = NewDevice
    /\ UNCHANGED <<config, sync, cache>>

Reenroll ==
    /\ IF row.enrolled THEN Event ELSE UNCHANGED events
    /\ "reenroll" \in Overlaps \/ Undisturbed
    /\ row' = [row EXCEPT !.enrolled = TRUE, !.published = Nothing]
    /\ tasks' = {} /\ queue' = <<>> /\ answer' = NoAnswer /\ told' = {}
    /\ device' = NewDevice
    /\ UNCHANGED <<config, sync, cache>>

----------------------------------------------------------------------------
(* The world. An item gets a content it never had, or goes. "revert" lets a *)
(* set the device was once sent, or has, come back while it is served        *)
(* another: by an old content, by dropping what was added, or by an item the *)
(* device turns out not to support. "warm" lets a wave open while the cache  *)
(* holds the set without it.                                                 *)
Editable == IF "revert" \in Overlaps THEN Items ELSE Items \ Exotic
Edit ==
    /\ Event
    /\ \/ \E i \in Editable, c \in {0, 2 + events} \cup (IF "revert" \in Overlaps THEN {1} ELSE {}) :
              c # cfg[i] /\ cfg' = [cfg EXCEPT ![i] = c] /\ UNCHANGED <<tagged, open>>
       \/ ~tagged /\ tagged' = TRUE /\ UNCHANGED <<cfg, open>>
       \/ /\ ~open /\ Waves # {}
          /\ "warm" \in Overlaps \/ cache = NotCached
          /\ open' = TRUE /\ UNCHANGED <<cfg, tagged>>
    /\ UNCHANGED <<server, cache, queue, answer, device, told>>
    /\ "revert" \in Overlaps \/ Current' \notin (told \cup {device.token}) \ {Current}

(* Time passes for every copy of a recorded failure.                        *)
Older(f) == IF f # NoFailure /\ f.waited < 2 THEN [f EXCEPT !.waited = @ + 1] ELSE f
Tick ==
    /\ row.failure # NoFailure /\ row.failure.waited < 2
    /\ row' = [row EXCEPT !.failure = Older(@)]
    /\ sync' = [p \in Callers |-> IF sync[p].pc = "decide"
                                  THEN [sync[p] EXCEPT !.row.failure = Older(@)] ELSE sync[p]]
    /\ UNCHANGED <<config, tasks, cache, queue, answer, device, told, events>>

Restart ==
    /\ Event
    /\ sync' = [p \in Callers |-> Idle] /\ cache' = NotCached
    /\ UNCHANGED <<config, row, tasks, queue, answer, device, told>>

Init ==
    /\ cfg = [i \in Items |-> 1] /\ tagged = FALSE /\ open = FALSE
    /\ row = [enrolled |-> TRUE, published |-> Nothing, started |-> FALSE,
              failure |-> NoFailure, status |-> {}, lacks |-> {}]
    /\ tasks = {} /\ sync = [p \in Callers |-> Idle] /\ cache = NotCached
    /\ queue = <<>> /\ answer = NoAnswer /\ device = NewDevice /\ told = {}
    /\ events = 0

Next ==
    \/ \E p \in Callers : \/ BeginSync(p) \/ Decide(p) \/ Accepted(p) \/ SavePublished(p)
                          \/ \E reached \in BOOLEAN : Refused(p, reached)
    \/ \E full, lost \in BOOLEAN : Report(full, lost)
    \/ HandleAnswer \/ DiscardAnswer
    \/ \E ok \in BOOLEAN : DeviceSyncs(ok)
    \/ DeviceGetsManifest \/ (\E i \in Items \cup {"properties"} : DeviceFetches(i))
    \/ DeviceApplies \/ CheckOut \/ Reenroll
    \/ CacheExpires \/ Edit \/ Tick \/ Restart

(* The minute's reconcile, NanoMDM and the device keep going.               *)
Fairness ==
    /\ \A p \in Callers : WF_vars(Decide(p)) /\ WF_vars(Accepted(p)) /\ WF_vars(SavePublished(p))
    /\ WF_vars(BeginSync("reconcile"))
    /\ WF_vars(HandleAnswer) /\ WF_vars(DiscardAnswer) /\ WF_vars(DeviceSyncs(TRUE))
    /\ WF_vars(DeviceGetsManifest) /\ WF_vars(DeviceApplies) /\ WF_vars(Tick)
    /\ \A i \in Items \cup {"properties"} : WF_vars(DeviceFetches(i))
    /\ WF_vars(Report(FALSE, FALSE)) /\ WF_vars(CacheExpires)
    /\ WF_vars(~row.enrolled /\ Reenroll)

Spec == Init /\ [][Next]_vars /\ Fairness

----------------------------------------------------------------------------
(* The device ends up with exactly the declarations its configuration       *)
(* gives it, and the console with exactly what the device has.              *)
Converges == <>[](device.held = Current /\ row.status = device.held)

(* The published token names a set that was sent to this enrollment of the  *)
(* device: otherwise sync_device takes it for in sync and sends nothing.    *)
PublishedWasSent == row.published # Nothing => row.published \in told

(* A device that is done with the set the server serves it holds exactly    *)
(* that set, whatever was edited while it fetched, and the console, which   *)
(* has heard of it by incremental reports, names exactly what it holds.     *)
SettledIsTrue ==
    device.pc = "idle" /\ device.token = Current
    => device.held = Current /\ row.status = device.held
=============================================================================
