-------------------------------- MODULE Apps --------------------------------
(* App installs: app_manager.py, the app pass of the reconciler, the answers *)
(* webhook_handler.py takes and the manifests the Mac fetches, for one app   *)
(* on one enrolled Mac.                                                      *)
(*                                                                           *)
(* A Mac acknowledges InstallApplication before it has downloaded anything,  *)
(* so the row becomes "accepted" and only an InstalledApplicationList that   *)
(* names the app makes it "installed". The manifest names the version the    *)
(* row has at the moment the Mac asks, not the version the command was for.  *)
(*                                                                           *)
(* Between two awaits on the database nothing else is let in here; between   *)
(* the link of a row, the call to NanoMDM and the save after it everything   *)
(* is, and so it is between the reads and the decisions of a cycle.          *)
EXTENDS Integers, FiniteSets

CONSTANTS
    Tasks,           \* ids of app_install tasks
    NoTask,          \* none of them
    MaxVersion,      \* versions of the app are 1..MaxVersion
    Mishaps,         \* may an upgrade fail, or overtake an attempt given up?
    MaxEvents        \* edits and faults

ASSUME AppsAssumption == NoTask \notin Tasks /\ MaxVersion \in Nat \ {0} /\ MaxEvents \in Nat

VARIABLES
    config,   \* the app in apps.yaml
    row,      \* AppDeployment
    task,     \* Task rows
    handler,  \* deploy_app, one per task
    cycle,    \* what the reconcile cycle is about to do
    queue,    \* external: commands NanoMDM holds
    answers,  \* external: answers on their way to the webhook
    mac,      \* external: what the Mac holds and downloads
    query,    \* the app_list query, one at a time
    events

vars == <<config, row, task, handler, cycle, queue, answers, mac, query, events>>

NoRow == [status |-> "none", version |-> 0, task |-> NoTask, reported |-> 0, aged |-> FALSE]
NoHandler == [pc |-> "none", copy |-> NoRow]
Idle == [do |-> "nothing", version |-> 0]
NoQuery == [pc |-> "idle", holds |-> 0]
Unused == [status |-> "none", version |-> 0, sent |-> FALSE, late |-> FALSE]
Open == {t \in Tasks : task[t].status \in {"pending", "running"}}

Event == events < MaxEvents /\ events' = events + 1

\* The version the Mac should have: the newest whose rollout wave it is in, if
\* in scope. A closed wave holds the newest version back.
Wanted(c) == IF ~c.scoped THEN 0 ELSE IF c.open THEN c.version ELSE c.version - 1

\* deployment.save() of a copy: all columns, and updated_at. A deleted row stays so.
Saved(copy, status) ==
    IF copy.status = "none" THEN row ELSE [copy EXCEPT !.status = status, !.aged = FALSE]

-----------------------------------------------------------------------------
(* Administrators and time. An attempt at one version that is given up and   *)
(* answered after another is wanted is a mishap: see Converges.              *)
Answerable(t) == \E c \in queue \cup answers : c.task = t

Edit ==
    /\ Event
    /\ Mishaps \/ \A t \in Tasks : task[t].late => ~Answerable(t)
    /\ \/ \E v \in 1..MaxVersion \ {config.version} : config' = [config EXCEPT !.version = v]
       \/ config' = [config EXCEPT !.open = ~@]
       \/ config' = [config EXCEPT !.scoped = ~@]
       \/ config' = [config EXCEPT !.blocked = ~@]
    /\ UNCHANGED <<row, task, handler, cycle, queue, answers, mac, query>>

\* The row has stood for as long as the cycle waits in its status. An accepted
\* row is asked about every few minutes, so unless the Mac was away an hour
\* passes only when it downloads nothing and has been asked to no avail.
Ages ==
    /\ row.status \in {"pending", "installing", "accepted", "failed"} /\ ~row.aged
    /\ IF row.status = "accepted" /\ (mac.loading # 0 \/ query.pc # "idle" \/ mac.news)
       THEN Event
       ELSE UNCHANGED events
    /\ row' = [row EXCEPT !.aged = TRUE]
    /\ UNCHANGED <<config, task, handler, cycle, queue, answers, mac, query>>

\* TASK_TIMEOUT_HOURS pass: the Mac was away, or the process that ran it died.
TaskAges(t) ==
    /\ t \in Open /\ ~task[t].late /\ handler[t].pc = "none"
    /\ IF task[t].sent THEN Event ELSE UNCHANGED events
    /\ Mishaps \/ task[t].version = Wanted(config) \/ ~Answerable(t)
    /\ task' = [task EXCEPT ![t].late = TRUE]
    /\ UNCHANGED <<config, row, handler, cycle, queue, answers, mac, query>>

Restart ==
    /\ Event
    /\ handler' = [t \in Tasks |-> NoHandler]
    /\ cycle' = Idle
    /\ UNCHANGED <<config, row, task, queue, answers, mac, query>>

Purge(t) ==
    /\ task[t].status \in {"completed", "failed"} /\ handler[t].pc = "none"
    /\ row.task # t /\ ~Answerable(t)
    /\ \A u \in Tasks : handler[u].copy.task # t
    /\ task' = [task EXCEPT ![t] = Unused]
    /\ UNCHANGED <<config, row, handler, cycle, queue, answers, mac, query, events>>

-----------------------------------------------------------------------------
(* reconcile_tenant for this app.                                            *)
FailTimedOut(r, S) ==
    IF r.task \in S /\ r.status \in {"pending", "installing", "installed"}
    THEN [r EXCEPT !.status = "failed", !.aged = FALSE] ELSE r

\* (mutant) An acceptance that nothing confirms is waited for for ever.
FailUnconfirmedNever(r) == r

FailUnconfirmed(r) ==
    IF r.status = "accepted" /\ r.aged
    THEN [r EXCEPT !.status = "failed", !.aged = FALSE] ELSE r

\* _app_needs_deploy.
NeedsDeploy(r, version) ==
    \/ r.status \in {"none", "unscoped"}
    \/ r.status \in {"failed", "installed"} /\ r.version # version
    \/ r.status \in {"failed", "pending", "installing"} /\ r.aged

\* What a cycle does about the row and the open tasks it has read.
Decision(r, busy) ==
    CASE Wanted(config) # 0 /\ ~config.blocked /\ ~busy /\ NeedsDeploy(r, Wanted(config)) ->
            [do |-> "install", version |-> Wanted(config)]
      [] ~config.scoped /\ r.status \in {"failed", "pending"} ->
            [do |-> "drop", version |-> 0]
      [] ~config.scoped /\ r.status \in {"installing", "accepted", "installed"} ->
            [do |-> "unscope", version |-> 0]
      [] OTHER -> Idle

\* Tasks that waited too long and acceptances that nothing confirmed fail first.
StartCycle ==
    LET late == {t \in Open : task[t].late}
    IN  /\ cycle = Idle
        /\ task' = [t \in Tasks |-> IF t \in late THEN [task[t] EXCEPT !.status = "failed"]
                                                  ELSE task[t]]
        /\ row' = FailUnconfirmed(FailTimedOut(row, late))
        /\ cycle' = Decision(row', Open \ late # {})
        /\ UNCHANGED <<config, handler, queue, answers, mac, query, events>>

CycleInstalls ==
    /\ cycle.do = "install" /\ cycle' = Idle
    /\ \E t \in Tasks : task[t] = Unused
    /\ LET t == CHOOSE u \in Tasks : task[u] = Unused
       IN  /\ task' = [task EXCEPT ![t].status = "pending", ![t].version = cycle.version]
           /\ handler' = [handler EXCEPT ![t].pc = "spawned"]
    /\ UNCHANGED <<config, row, queue, answers, mac, query, events>>

\* _unscope_apps. A row that is gone is saved to no more, and the manifest at its
\* id is not found.
CycleDrops ==
    /\ cycle.do = "drop" /\ cycle' = Idle
    /\ row' = NoRow
    /\ handler' = [t \in Tasks |-> [handler[t] EXCEPT !.copy = NoRow]]
    /\ queue' = {[c EXCEPT !.live = FALSE] : c \in queue}
    /\ UNCHANGED <<config, task, answers, mac, query, events>>

CycleUnscopes ==
    /\ cycle.do = "unscope" /\ cycle' = Idle
    /\ row' = [row EXCEPT !.status = "unscoped", !.aged = FALSE]
    /\ UNCHANGED <<config, task, handler, queue, answers, mac, query, events>>

-----------------------------------------------------------------------------
(* handle_app_install_task: deploy_app.                                      *)

\* ensure_deployment saves only the columns it changes, so updated_at stays.
Ensured(t) ==
    IF row.status = "none"
    THEN [NoRow EXCEPT !.status = "pending", !.version = task[t].version, !.task = t]
    ELSE [row EXCEPT !.task = t, !.version = task[t].version,
                     !.status = IF row.version # task[t].version THEN "pending" ELSE @]

Link(t) ==
    /\ handler[t].pc = "spawned"
    /\ row' = Ensured(t)
    /\ handler' = [handler EXCEPT ![t] = [pc |-> "linked", copy |-> Ensured(t)]]
    /\ task' = [task EXCEPT ![t].status = "running"]
    /\ UNCHANGED <<config, cycle, queue, answers, mac, query, events>>

\* NanoMDM may have queued a command whose reply never came.
Push(t) ==
    LET command == [task |-> t, live |-> handler[t].copy.status # "none"]
    IN  /\ handler[t].pc = "linked"
        /\ \/ /\ queue' = queue \cup {command}
              /\ handler' = [handler EXCEPT ![t].pc = "pushed"]
              /\ UNCHANGED events
           \/ /\ Event
              /\ queue' \in {queue, queue \cup {command}}
              /\ handler' = [handler EXCEPT ![t].pc = "refused"]
        /\ UNCHANGED <<config, row, task, cycle, answers, mac, query>>

\* The row, then the task.
Finish(t) ==
    LET sent == handler[t].pc = "pushed"
    IN  /\ handler[t].pc \in {"pushed", "refused"}
        /\ row' = Saved(handler[t].copy, IF sent THEN "installing" ELSE "failed")
        /\ task' = [task EXCEPT ![t].status = IF sent THEN "running" ELSE "failed", ![t].sent = sent]
        /\ handler' = [handler EXCEPT ![t] = NoHandler]
        /\ UNCHANGED <<config, cycle, queue, answers, mac, query, events>>

-----------------------------------------------------------------------------
(* The Mac. It says so when it is given no manifest (_resolve_package); of a *)
(* download that fails it says nothing.                                      *)
Served(c) == c.live /\ row.status # "none" /\ row.version <= config.version

\* An install of version may come to nothing.
MayFail(version) == Event /\ (mac.holds \in {0, version} \/ Mishaps)

Take(c) ==
    /\ c \in queue /\ mac.loading = 0
    /\ queue' = queue \ {c}
    /\ \/ /\ Served(c)
          /\ mac' = [mac EXCEPT !.loading = row.version]
          /\ answers' = answers \cup {[task |-> c.task, ok |-> TRUE]}
          /\ UNCHANGED events
       \/ /\ IF Served(c) THEN MayFail(row.version) ELSE UNCHANGED events
          /\ answers' = answers \cup {[task |-> c.task, ok |-> FALSE]}
          /\ UNCHANGED mac
    /\ UNCHANGED <<config, row, task, handler, cycle, query>>

Downloaded ==
    /\ mac.loading # 0
    /\ mac' = [mac EXCEPT !.loading = 0, !.holds = mac.loading, !.news = TRUE]
    /\ UNCHANGED <<config, row, task, handler, cycle, queue, answers, query, events>>

DownloadFails ==
    /\ mac.loading # 0 /\ MayFail(mac.loading)
    /\ mac' = [mac EXCEPT !.loading = 0]
    /\ UNCHANGED <<config, row, task, handler, cycle, queue, answers, query>>

-----------------------------------------------------------------------------
(* Answers: _handle_app_install_response and _confirm_accepted_apps.         *)

\* A late success is always applied, a late failure only to its own attempt. The
\* webhook waits for a handler that has not recorded its command yet.
Answered(t, ok) ==
    IF row.status = "none" \/ ~task[t].sent THEN row
    ELSE IF ok THEN [row EXCEPT !.status = "accepted", !.aged = FALSE,
                                !.reported = IF row.status = "installed" THEN @ ELSE 0]
    ELSE IF row.task \in {t, NoTask} THEN [row EXCEPT !.status = "failed", !.aged = FALSE]
    ELSE row

HandleAnswer(a) ==
    /\ a \in answers /\ handler[a.task].pc \notin {"linked", "pushed"}
    /\ answers' = answers \ {a}
    /\ row' = Answered(a.task, a.ok)
    /\ task' = IF task[a.task].sent
               THEN [task EXCEPT ![a.task].status = IF a.ok THEN "completed" ELSE "failed"]
               ELSE task
    /\ mac' = [mac EXCEPT !.news = TRUE]
    /\ UNCHANGED <<config, handler, cycle, queue, query, events>>

\* By the acknowledgement or the poller (_awaiting_app_confirmation) while the row
\* is accepted (as often as there is news), else by the daily inventory.
Ask ==
    /\ query.pc = "idle"
    /\ IF row.status = "accepted" /\ mac.news THEN UNCHANGED events ELSE Event
    /\ query' = [NoQuery EXCEPT !.pc = "asked"]
    /\ mac' = [mac EXCEPT !.news = FALSE]
    /\ UNCHANGED <<config, row, task, handler, cycle, queue, answers>>

Report ==
    /\ query.pc = "asked"
    /\ query' = [pc |-> "told", holds |-> mac.holds]
    /\ UNCHANGED <<config, row, task, handler, cycle, queue, answers, mac, events>>

QueryLost ==
    /\ query.pc # "idle" /\ Event
    /\ query' = NoQuery
    /\ mac' = [mac EXCEPT !.news = TRUE]
    /\ UNCHANGED <<config, row, task, handler, cycle, queue, answers>>

\* The version is looked at only against the one reported at an earlier
\* confirmation: it need not be spelled as apps.yaml spells it.
Confirms(r, holds) == r.status = "accepted" /\ holds # 0 /\ holds # r.reported

HandleReport ==
    /\ query.pc = "told"
    /\ query' = NoQuery
    /\ row' = IF Confirms(row, query.holds)
              THEN [row EXCEPT !.status = "installed", !.reported = query.holds, !.aged = FALSE]
              ELSE row
    /\ UNCHANGED <<config, task, handler, cycle, queue, answers, mac, events>>

-----------------------------------------------------------------------------
Init ==
    /\ config \in [version : {1}, open : {TRUE}, scoped : {TRUE}, blocked : BOOLEAN]
    /\ row = NoRow
    /\ task = [t \in Tasks |-> Unused]
    /\ handler = [t \in Tasks |-> NoHandler]
    /\ cycle = Idle
    /\ queue = {} /\ answers = {}
    /\ mac = [holds |-> 0, loading |-> 0, news |-> FALSE]
    /\ query = NoQuery
    /\ events = 0

Server == StartCycle \/ CycleInstalls \/ CycleDrops \/ CycleUnscopes \/ Ages \/ Ask \/ HandleReport
Deploys(t) == TaskAges(t) \/ Purge(t) \/ Link(t) \/ Push(t) \/ Finish(t)
World == \/ Edit \/ Restart
         \/ \E c \in queue : Take(c)
         \/ \E a \in answers : HandleAnswer(a)
         \/ Downloaded \/ DownloadFails \/ Report \/ QueryLost

Next == Server \/ (\E t \in Tasks : Deploys(t)) \/ World

\* Cycles and polls recur, handlers finish, and a Mac that is on answers and downloads.
Fairness ==
    /\ WF_vars(StartCycle) /\ WF_vars(CycleInstalls) /\ WF_vars(CycleDrops) /\ WF_vars(CycleUnscopes)
    /\ WF_vars(Ages)
    /\ WF_vars(Ask) /\ WF_vars(Report) /\ WF_vars(HandleReport)
    /\ WF_vars(Downloaded)
    /\ \A t \in Tasks :
          /\ WF_vars(TaskAges(t)) /\ WF_vars(Purge(t))
          /\ WF_vars(Link(t)) /\ WF_vars(Push(t)) /\ WF_vars(Finish(t))
          /\ WF_vars(\E c \in queue : c.task = t /\ Take(c))
          /\ WF_vars(\E a \in answers : a.task = t /\ HandleAnswer(a))

Spec == Init /\ [][Next]_vars /\ Fairness

-----------------------------------------------------------------------------
Current == /\ row.status = "installed" /\ row.version = Wanted(config)
           /\ mac.holds = Wanted(config)
Retired == row.status \in {"none", "unscoped"}

\* Once edits and faults stop, a Mac in scope comes to hold the version it should
\* and its row to say so, whatever answers were late, lost or from attempts given
\* up, and a Mac out of scope is left alone (the app pass of reconcile_tenant).
\* With Mishaps it does not: see _confirm_accepted_apps, which takes the version
\* the Mac has held all along for the one the row names.
Converges ==
    <>[](/\ Wanted(config) # 0 /\ ~config.blocked => Current
         /\ ~config.scoped => Retired)
=============================================================================
