----------------------------- MODULE Deployment -----------------------------
(***************************************************************************)
(* One configuration profile on one device: the desired state in           *)
(* profiles.yaml, the ProfileDeployment row, the Task rows that carry its  *)
(* installs and removals, the background handlers that push the commands,  *)
(* NanoMDM's command queue and the device's answers.                       *)
(*                                                                         *)
(* Several server processes share the database and nothing else: each runs *)
(* its own reconcile cycle (services/reconciler.py) and its own handlers   *)
(* (services/task_handlers.py, services/profile_manager.py); the webhook   *)
(* process applies the answers (services/webhook_handler.py).  A step of   *)
(* the model ends where the code awaits something another process can      *)
(* overtake: a row is read in one step and written back in a later one.    *)
(*                                                                         *)
(* Rows of different (device, profile) pairs never touch each other, so    *)
(* one pair is the whole story; what the pairs share, the tenant-wide      *)
(* snapshots a cycle reads before it decides, is kept as a separate step.  *)
(***************************************************************************)
EXTENDS Naturals, FiniteSets, Sequences

CONSTANTS
    TaskIds,        \* identities of Task rows; an id is reused once nothing refers to it
    NoTask,         \* last_task_id IS NULL
    Versions,       \* profile definitions, told apart by their payload_hash
    NoVersion,      \* no definition: payload_hash IS NULL, or nothing on the device
    Procs,          \* server processes that reconcile
    Faults,         \* the disturbances this instance allows, see AllFaults
    MaxFaults,      \* how many of them may happen (bound)
    RetryTicks,     \* RETRY_MINUTES, in ticks of the clock
    RetryMaxTicks,  \* RETRY_MAX_MINUTES
    TimeoutTicks,   \* TASK_TIMEOUT_HOURS
    Backlog,        \* may a handler wait behind its semaphore for more than a tick?
    MaxAge,         \* ages are counted no further (bound)
    MaxAttempts     \* failed_attempts is counted no further (bound)

\* What may go wrong, or be asked for, from outside.
AllFaults == {"edit", "cancel", "retry", "crash", "checkout",
              "refused", "rejected", "notnow", "lost"}

ASSUME ConstantsAssumption ==
    /\ IsFiniteSet(TaskIds)
    /\ NoTask \notin TaskIds
    /\ NoVersion \notin Versions
    /\ Versions # {} /\ Procs # {}
    /\ Faults \subseteq AllFaults
    /\ Backlog \in BOOLEAN
    /\ {MaxFaults, RetryTicks, RetryMaxTicks, TimeoutTicks,
        MaxAge, MaxAttempts} \subseteq Nat
    \* failed_attempts stops mattering where the doubling reaches its cap
    /\ RetryTicks * 2^MaxAttempts >= RetryMaxTicks
    \* ... and ages where every comparison has come out
    /\ MaxAge > TimeoutTicks /\ MaxAge > RetryTicks /\ MaxAge >= RetryMaxTicks

VARIABLES
    config,   \* what profiles.yaml says now: the definition, and the device's scope
    task,     \* the Task rows
    handler,  \* the background coroutine executing each task, if any
    row,      \* the ProfileDeployment row
    cycle,    \* each process's reconcile cycle
    enrolled, \* Device.enrollment_state = "enrolled"
    held,     \* external: the definition installed on the device
    queue,    \* external: commands NanoMDM holds for the device
    answer,   \* the device's answer to each task's command, on its way in
    faults    \* disturbances so far

vars == <<config, task, handler, row, cycle, enrolled, held, queue, answer, faults>>

-----------------------------------------------------------------------------
(* Shapes *)

Types      == {"profile_install", "profile_remove"}
OpenStatus == {"pending", "running"}
EndStatus  == {"completed", "failed", "cancelled"}

\* "held" is a device in scope whose rollout wave has not come: kept, not installed.
Config == [def : Versions, scope : {"in", "held", "out"}]

Task == [status   : {"absent"} \cup OpenStatus \cup EndStatus,
         type     : Types,
         ver      : Versions \cup {NoVersion},  \* details.profile_info
         sent     : BOOLEAN,                    \* command_uuid IS NOT NULL
         timedOut : BOOLEAN,                    \* error starts with "Timed out"
         age      : 0..MaxAge]                  \* since created_at

Row == [status   : {"absent", "pending", "installing", "installed", "failed"},
        hash     : Versions \cup {NoVersion},
        last     : TaskIds \cup {NoTask},
        attempts : 0..MaxAttempts,
        age      : 0..MaxAge]                  \* since updated_at

\* A handler holds a copy of the row from one await to the next.  A copy whose
\* row has been deleted is "absent": saving it updates nothing.
Handler == [pc   : {"none", "spawned", "linked", "pushed", "saved"},
            proc : Procs,
            api  : BOOLEAN,      \* started by retry_task, so registered in running_tasks
            copy : Row]

Cycle == [pc     : {"idle", "started", "decide"},
          config : Config,                      \* the YAML as this cycle read it
          stale  : SUBSET TaskIds,              \* tasks found timed out
          busy   : SUBSET Types,                \* keys with an open task
          row    : Row,                         \* prefetched row
          live   : BOOLEAN]                     \* ... which still exists

Answer == [stage : {"none", "arrived", "read"},
           ok    : BOOLEAN,      \* Acknowledged, or Error
           copy  : Row]          \* the row as the response handler read it

AbsentTask == [status |-> "absent", type |-> "profile_install", ver |-> NoVersion,
               sent |-> FALSE, timedOut |-> FALSE, age |-> 0]
AbsentRow  == [status |-> "absent", hash |-> NoVersion, last |-> NoTask,
               attempts |-> 0, age |-> 0]
NoHandler  == [pc |-> "none", proc |-> CHOOSE p \in Procs : TRUE, api |-> FALSE,
               copy |-> AbsentRow]
NoAnswer   == [stage |-> "none", ok |-> FALSE, copy |-> AbsentRow]
IdleCycle  == [pc |-> "idle", config |-> [def |-> CHOOSE v \in Versions : TRUE, scope |-> "out"],
               stale |-> {}, busy |-> {}, row |-> AbsentRow, live |-> FALSE]

-----------------------------------------------------------------------------
(* Helpers *)

IsOpen(t) == task[t].status \in OpenStatus
OnQueue(t) == \E i \in 1..Len(queue) : queue[i] = t
OpenTypes(tasks) == {tasks[t].type : t \in {u \in TaskIds : tasks[u].status \in OpenStatus}}
Fresh     == {t \in TaskIds : task[t].status = "absent"}
NextId    == CHOOSE t \in Fresh : TRUE
Lesser(a, b) == IF a < b THEN a ELSE b

\* One disturbance, if this instance allows its kind and the bound is not reached.
Spend(kind) == /\ kind \in Faults
               /\ faults < MaxFaults
               /\ faults' = faults + 1

\* Task.create by create_task: a pending row.
NewTask(type, ver) == [AbsentTask EXCEPT !.status = "pending", !.type = type, !.ver = ver]

\* _spawn(execute_task(...)): queued behind the semaphore of its process.
NewHandler(p, api) == [NoHandler EXCEPT !.pc = "spawned", !.proc = p, !.api = api]

\* The row is deleted: copies of it save to nothing from now on.  cyc and h are
\* the cycles and handlers as the step leaves them otherwise.
Forgotten(copies) == [t \in TaskIds |-> [copies[t] EXCEPT !.copy = AbsentRow]]
DeleteRow(cyc, h) ==
    /\ row' = AbsentRow
    /\ cycle' = [p \in Procs |-> [cyc[p] EXCEPT !.live = FALSE]]
    /\ handler' = Forgotten(h)
    /\ answer' = Forgotten(answer)

\* deployment.save() of a copy changed to new: every column is written, the stale
\* ones too, and updated_at is now.  Nothing happens when the row is gone.
Saved(copy, new) == IF copy.status = "absent" THEN row ELSE [new EXCEPT !.age = 0]

\* _retry_delay_minutes: doubling from RETRY_MINUTES up to RETRY_MAX_MINUTES.
RetryDelay(attempts) == Lesser(RetryTicks * 2^attempts, RetryMaxTicks)

\* (mutants) ... which never retries a failure, or never looks at the hash of an
\* installed row.
NeedsDeployNoRetry(r, def) ==
    CASE r.status = "absent" -> "not deployed"
      [] r.status = "failed" -> IF r.hash \notin {NoVersion, def} THEN "definition changed" ELSE "none"
      [] r.status \in {"pending", "installing"} ->
           IF r.age > RetryTicks THEN "no device response" ELSE "none"
      [] r.status = "installed" -> IF r.hash = def THEN "none" ELSE "definition changed"
NeedsDeployBlind(r, def) ==
    IF r.status = "installed" THEN "none" ELSE NeedsDeployNoRetry(r, def)

\* _needs_deploy with _profile_needs_deploy's hash tests: why a row in this
\* state should be pushed again with definition def, "none" if it should not.
NeedsDeploy(r, def) ==
    CASE r.status = "absent" -> "not deployed"
      [] r.status = "failed" ->
           IF r.hash \notin {NoVersion, def} THEN "definition changed"
           ELSE IF r.age < RetryDelay(r.attempts) THEN "none"
           ELSE "previous attempt failed"
      [] r.status \in {"pending", "installing"} ->
           IF r.age > RetryTicks THEN "no device response" ELSE "none"
      [] r.status = "installed" ->
           IF r.hash = def THEN "none" ELSE "definition changed"

\* _note_attempt: the failure counter after a cycle has decided.
NoteAttempt(r, reason) ==
    IF reason = "previous attempt failed" THEN Lesser(r.attempts + 1, MaxAttempts)
    ELSE IF \/ r.status = "failed" /\ reason # "none"
            \/ r.status = "installed"
         THEN 0
         ELSE r.attempts

\* fail_tasks: every listed task fails, whatever its status has become since it
\* was listed, and so does the row whose current attempt is one of them.
FailTasks(ids, timedOut) ==
    [t \in TaskIds |->
        IF t \in ids /\ task[t].status # "absent"
        THEN [task[t] EXCEPT !.status = "failed", !.timedOut = timedOut]
        ELSE task[t]]

RowAfterFailing(ids) ==
    IF /\ row.last \in ids
       /\ task[row.last].type = "profile_install"
       /\ row.status \in {"pending", "installing", "installed"}
    THEN [row EXCEPT !.status = "failed", !.age = 0]
    ELSE row

\* ensure_deployment: get or create, a failed row pending again, linked to task t.
\* Only a created row moves updated_at: the link is saved with update_fields.
Ensured(t) ==
    IF row.status = "absent"
    THEN [AbsentRow EXCEPT !.status = "pending", !.last = t]
    ELSE [row EXCEPT !.status = IF @ = "failed" THEN "pending" ELSE @, !.last = t]

-----------------------------------------------------------------------------
(* The world outside *)

\* Nothing is deployed yet, or the profile is and has left scope since the controller
\* last looked.
Init ==
    /\ \/ /\ config = [IdleCycle.config EXCEPT !.scope = "in"]
          /\ row = AbsentRow /\ held = NoVersion
       \/ /\ config = IdleCycle.config
          /\ row = [AbsentRow EXCEPT !.status = "installed", !.hash = config.def]
          /\ held = config.def
    /\ task = [t \in TaskIds |-> AbsentTask]
    /\ handler = [t \in TaskIds |-> NoHandler]
    /\ cycle = [p \in Procs |-> IdleCycle]
    /\ enrolled = TRUE
    /\ queue = <<>>
    /\ answer = [t \in TaskIds |-> NoAnswer]
    /\ faults = 0

\* An administrator saves another definition, or the device's scope changes.
EditConfig ==
    /\ Spend("edit")
    /\ \E c \in Config \ {config} : config' = c
    /\ UNCHANGED <<task, handler, row, cycle, enrolled, held, queue, answer>>

\* Half an hour passes.  Handlers past the semaphore and answers take seconds
\* (their database and HTTP calls time out), so none is under way; a cycle over a
\* large tenant may be.  An age is followed while the code can still read it.
Tick ==
    /\ \A t \in TaskIds : answer[t].stage = "none"
    /\ \A t \in TaskIds : handler[t].pc \in {"none"} \cup (IF Backlog THEN {"spawned"} ELSE {})
    /\ task' = [t \in TaskIds |->
                   IF IsOpen(t) THEN [task[t] EXCEPT !.age = Lesser(@ + 1, MaxAge)] ELSE task[t]]
    /\ row' = IF row.status \in {"pending", "installing", "failed"}
              THEN [row EXCEPT !.age = Lesser(@ + 1, MaxAge)] ELSE row
    /\ UNCHANGED <<config, handler, cycle, enrolled, held, queue, answer, faults>>

\* A server process restarts: its cycle and its handlers are gone, their rows stay.
Crash(p) ==
    /\ Spend("crash")
    /\ cycle' = [cycle EXCEPT ![p] = IdleCycle]
    /\ handler' = [t \in TaskIds |-> IF handler[t].proc = p THEN NoHandler ELSE handler[t]]
    /\ UNCHANGED <<config, task, row, enrolled, held, queue, answer>>

\* cleanup_old_tasks deletes finished tasks long after everything about them is
\* over.  The model reuses an id once nothing could confuse the new task with it.
PurgeTask(t) ==
    /\ task[t].status \in EndStatus
    /\ row.last # t
    /\ handler[t].pc = "none" /\ answer[t].stage = "none"
    /\ ~OnQueue(t)
    /\ \A o \in TaskIds : handler[o].copy.last # t /\ answer[o].copy.last # t
    /\ \A p \in Procs : t \notin cycle[p].stale /\ cycle[p].row.last # t
    /\ task' = [task EXCEPT ![t] = AbsentTask]
    /\ UNCHANGED <<config, handler, row, cycle, enrolled, held, queue, answer, faults>>

-----------------------------------------------------------------------------
(* The reconcile cycle of process p: reconcile_tenant *)

\* (mutant) The timeout sweep looks at running tasks only.
StartCycleRunningOnly(p) ==
    /\ cycle[p].pc = "idle"
    /\ cycle' = [cycle EXCEPT ![p] =
          [IdleCycle EXCEPT !.pc = "started", !.config = config,
                            !.stale = {t \in TaskIds : task[t].status = "running"
                                                       /\ task[t].age > TimeoutTicks}]]
    /\ UNCHANGED <<config, task, handler, row, enrolled, held, queue, answer, faults>>

\* The YAML is read, then the open tasks older than TASK_TIMEOUT_HOURS.
StartCycle(p) ==
    /\ cycle[p].pc = "idle"
    /\ cycle' = [cycle EXCEPT ![p] =
          [IdleCycle EXCEPT !.pc = "started", !.config = config,
                            !.stale = {t \in TaskIds : IsOpen(t) /\ task[t].age > TimeoutTicks}]]
    /\ UNCHANGED <<config, task, handler, row, enrolled, held, queue, answer, faults>>

\* _fail_timed_out_tasks updates the ids read above, then the cycle takes its
\* snapshot: the enrolled devices, _active_task_keys, _prefetch_deployments.
Survey(p) ==
    /\ cycle[p].pc = "started"
    /\ task' = FailTasks(cycle[p].stale, TRUE)
    /\ row' = RowAfterFailing(cycle[p].stale)
    /\ cycle' = [cycle EXCEPT ![p] =
          IF enrolled
          THEN [@ EXCEPT !.pc = "decide", !.stale = {}, !.busy = OpenTypes(task'),
                         !.row = row', !.live = row'.status # "absent"]
          ELSE IdleCycle]
    /\ UNCHANGED <<config, handler, enrolled, held, queue, answer, faults>>

\* Records that say nothing reliable is on the device.  (mutant) Not the failed ones.
UnreliablePending == {"pending"}
Unreliable == {"pending", "failed"}

\* What the cycle does about its snapshot.  The profile is desired when it is in
\* scope, kept when its rollout wave has not come, and otherwise retired.
Reason(c) == NeedsDeploy(c.row, c.config.def)
Decision(c) ==
    CASE c.config.scope = "in" /\ "profile_install" \notin c.busy /\ Reason(c) # "none" ->
            "install"
      [] c.config.scope = "out" /\ c.row.status \in Unreliable ->
            "drop"
      [] c.config.scope = "out" /\ c.row.status \in {"installing", "installed"}
            /\ "profile_remove" \notin c.busy ->
            "remove"
      [] OTHER -> "leave"

\* The counter write of _note_attempt, to the row if it still exists.
NotedRow(c, reason) ==
    IF c.live /\ NoteAttempt(c.row, reason) # c.row.attempts
    THEN [row EXCEPT !.attempts = NoteAttempt(c.row, reason)]
    ELSE row

QueueInstall(p) ==
    LET c == cycle[p]
    IN  /\ c.pc = "decide" /\ Decision(c) = "install"
        /\ Fresh # {}
        /\ row' = NotedRow(c, Reason(c))
        /\ task' = [task EXCEPT ![NextId] = NewTask("profile_install", c.config.def)]
        /\ handler' = [handler EXCEPT ![NextId] = NewHandler(p, FALSE)]
        /\ cycle' = [cycle EXCEPT ![p] = IdleCycle]
        /\ UNCHANGED <<config, enrolled, held, queue, answer, faults>>

QueueRemoval(p) ==
    LET c == cycle[p]
    IN  /\ c.pc = "decide" /\ Decision(c) = "remove"
        /\ Fresh # {}
        /\ task' = [task EXCEPT ![NextId] = NewTask("profile_remove", NoVersion)]
        /\ handler' = [handler EXCEPT ![NextId] = NewHandler(p, FALSE)]
        /\ cycle' = [cycle EXCEPT ![p] = IdleCycle]
        /\ UNCHANGED <<config, row, enrolled, held, queue, answer, faults>>

\* A failed or pending record is dropped and nothing is sent.
DropRecord(p) ==
    LET c == cycle[p]
        rest == [cycle EXCEPT ![p] = IdleCycle]
    IN  /\ c.pc = "decide" /\ Decision(c) = "drop"
        /\ IF c.live THEN DeleteRow(rest, handler)
           ELSE cycle' = rest /\ UNCHANGED <<row, handler, answer>>
        /\ UNCHANGED <<config, task, enrolled, held, queue, faults>>

\* Nothing to queue (an installed row's counter is still reset), or no task id
\* left to queue it with (bound: the next cycle tries again).
LeaveAlone(p) ==
    LET c == cycle[p]
    IN  /\ c.pc = "decide"
        /\ \/ /\ Decision(c) = "leave"
              /\ row' = IF c.config.scope = "in" /\ "profile_install" \notin c.busy
                        THEN NotedRow(c, "none") ELSE row
           \/ Decision(c) \in {"install", "remove"} /\ Fresh = {} /\ UNCHANGED row
        /\ cycle' = [cycle EXCEPT ![p] = IdleCycle]
        /\ UNCHANGED <<config, task, handler, enrolled, held, queue, answer, faults>>

-----------------------------------------------------------------------------
(* The handler of task t: execute_task, handle_profile_install_task,         *)
(* handle_profile_remove_task                                                *)

\* update_progress from the handler's own copy of the task: status running and
\* no error, whatever another process has written since.
Running(t) == [task EXCEPT ![t].status = "running", ![t].timedOut = FALSE]

\* deploy_profile up to the connector call; the handler keeps the row it read.
BeginInstall(t) ==
    /\ handler[t].pc = "spawned" /\ task[t].type = "profile_install"
    /\ task' = Running(t)
    /\ row' = Ensured(t)
    /\ handler' = [handler EXCEPT ![t].pc = "linked", ![t].copy = row']
    /\ UNCHANGED <<config, cycle, enrolled, held, queue, answer, faults>>

\* (mutant) The connector call is made again.
PushInstallAgain(t) ==
    /\ handler[t].pc = "linked"
    /\ handler' \in {handler, [handler EXCEPT ![t].pc = "pushed"]}
    /\ queue' = Append(queue, t)
    /\ UNCHANGED <<config, task, row, cycle, enrolled, held, answer, faults>>

\* The install command is handed to NanoMDM.
PushInstall(t) ==
    /\ handler[t].pc = "linked"
    /\ handler' = [handler EXCEPT ![t].pc = "pushed"]
    /\ queue' = Append(queue, t)
    /\ UNCHANGED <<config, task, row, cycle, enrolled, held, answer, faults>>

\* The connector raises: NanoMDM refused the command, or took it and its reply was
\* lost.  The row fails with the definition it attempted, and so does the task.
InstallRefused(t) ==
    /\ handler[t].pc = "linked"
    /\ Spend("refused")
    /\ row' = Saved(handler[t].copy,
                    [handler[t].copy EXCEPT !.status = "failed", !.hash = task[t].ver])
    /\ task' = [task EXCEPT ![t].status = "failed", ![t].timedOut = FALSE]
    /\ handler' = [handler EXCEPT ![t] = NoHandler]
    /\ queue' \in {queue, Append(queue, t)}
    /\ UNCHANGED <<config, cycle, enrolled, held, answer>>

\* remove_profile up to and including the connector call.
PushRemoval(t) ==
    /\ handler[t].pc = "spawned" /\ task[t].type = "profile_remove"
    /\ task' = Running(t)
    /\ handler' = [handler EXCEPT ![t].pc = "pushed"]
    /\ queue' = Append(queue, t)
    /\ UNCHANGED <<config, row, cycle, enrolled, held, answer, faults>>

\* The connector raises on a removal: the task fails, the row stays as it is.
RemovalRefused(t) ==
    /\ handler[t].pc = "spawned" /\ task[t].type = "profile_remove"
    /\ Spend("refused")
    /\ task' = [task EXCEPT ![t].status = "failed", ![t].timedOut = FALSE]
    /\ handler' = [handler EXCEPT ![t] = NoHandler]
    /\ queue' \in {queue, Append(queue, t)}
    /\ UNCHANGED <<config, row, cycle, enrolled, held, answer>>

\* The install went out: the row the handler read is saved whole, now installing.
SaveInstalling(t) ==
    /\ handler[t].pc = "pushed" /\ task[t].type = "profile_install"
    /\ row' = Saved(handler[t].copy,
                    [handler[t].copy EXCEPT !.status = "installing", !.hash = task[t].ver])
    /\ handler' = [handler EXCEPT ![t].pc = "saved", ![t].copy = AbsentRow]
    /\ UNCHANGED <<config, task, cycle, enrolled, held, queue, answer, faults>>

\* The removal went out: the row of the profile is deleted, whichever it is.
DropRemoved(t) ==
    /\ handler[t].pc = "pushed" /\ task[t].type = "profile_remove"
    /\ DeleteRow(cycle, [handler EXCEPT ![t].pc = "saved"])
    /\ UNCHANGED <<config, task, enrolled, held, queue, faults>>

\* mark_sent: the row re-read, command_uuid recorded, status running.
MarkSent(t) ==
    /\ handler[t].pc = "saved"
    /\ task' = [task EXCEPT ![t].status = "running", ![t].sent = TRUE]
    /\ handler' = [handler EXCEPT ![t] = NoHandler]
    /\ UNCHANGED <<config, row, cycle, enrolled, held, queue, answer, faults>>

-----------------------------------------------------------------------------
(* The device and the webhook process *)

\* The device fetches its next command, executes it and reports.  Removing what
\* it does not hold is an error; any other error is a disturbance.
DeviceExecutes ==
    /\ enrolled /\ queue # <<>>
    /\ LET t == Head(queue)
           missing == task[t].type = "profile_remove" /\ held = NoVersion
       IN  \/ /\ ~missing
              /\ held' = IF task[t].type = "profile_install" THEN task[t].ver ELSE NoVersion
              /\ answer' = [answer EXCEPT ![t].stage = "arrived", ![t].ok = TRUE]
              /\ UNCHANGED faults
           \/ /\ IF missing THEN UNCHANGED faults ELSE Spend("rejected")
              /\ answer' = [answer EXCEPT ![t].stage = "arrived", ![t].ok = FALSE]
              /\ UNCHANGED held
    /\ queue' = Tail(queue)
    /\ UNCHANGED <<config, task, handler, row, cycle, enrolled>>

\* The device is busy (NotNow): the command stays queued behind the others, and
\* the response handlers do nothing.
DeviceNotNow ==
    /\ enrolled /\ Len(queue) > 1
    /\ Spend("notnow")
    /\ queue' = Append(Tail(queue), Head(queue))
    /\ UNCHANGED <<config, task, handler, row, cycle, enrolled, held, answer>>

\* _apply_command_response's gate: an open task, or one the timeout sweep failed.
AcceptsAnswer(t) == IsOpen(t) \/ (task[t].status = "failed" /\ task[t].timedOut)

\* The answer is correlated by its CommandUUID and the deployment row is read.
ReadAnswer(t) ==
    /\ answer[t].stage = "arrived"
    /\ task[t].sent
    /\ answer' = [answer EXCEPT ![t] =
          IF ~AcceptsAnswer(t) THEN NoAnswer
          ELSE [@ EXCEPT !.stage = "read",
                         !.copy = IF task[t].type = "profile_install" THEN row ELSE AbsentRow]]
    /\ UNCHANGED <<config, task, handler, row, cycle, enrolled, held, queue, faults>>

\* What an answer makes of its task.
Answered(t) == [task EXCEPT ![t].status = IF answer[t].ok THEN "completed" ELSE "failed",
                            ![t].timedOut = FALSE]

\* (mutants) The row goes where an app's would; any answer counts as a success.
RowAnsweredAsApp(t) == Saved(answer[t].copy, [answer[t].copy EXCEPT !.status = "accepted"])
RowAnsweredAnyway(t) ==
    Saved(answer[t].copy, [answer[t].copy EXCEPT !.status = "installed", !.attempts = 0])

\* A late success is always applied, a late failure only to its own attempt.
RowAnswered(t) ==
    LET copy == answer[t].copy
    IN  IF answer[t].ok
        THEN Saved(copy, [copy EXCEPT !.status = "installed", !.attempts = 0])
        ELSE IF copy.last \in {NoTask, t}
             THEN Saved(copy, [copy EXCEPT !.status = "failed"])
             ELSE row

WriteAnswer(t) ==
    /\ answer[t].stage = "read"
    /\ task' = Answered(t)
    /\ row' = RowAnswered(t)
    /\ answer' = [answer EXCEPT ![t] = NoAnswer]
    /\ UNCHANGED <<config, handler, cycle, enrolled, held, queue, faults>>

\* _await_late_task gives up on an answer no task row has the CommandUUID of.
\* With its dispatch still under way that takes a handler slower than the wait.
DiscardAnswer(t) ==
    /\ answer[t].stage = "arrived"
    /\ ~task[t].sent
    /\ IF handler[t].pc = "none" THEN UNCHANGED faults ELSE Spend("lost")
    /\ answer' = [answer EXCEPT ![t] = NoAnswer]
    /\ UNCHANGED <<config, task, handler, row, cycle, enrolled, held, queue>>

\* The webhook process stops over an answer, before its writes or between them.
LoseAnswer(t) ==
    /\ Spend("lost")
    /\ \/ answer[t].stage \in {"arrived", "read"} /\ UNCHANGED task
       \/ answer[t].stage = "read" /\ task' = Answered(t)
    /\ answer' = [answer EXCEPT ![t] = NoAnswer]
    /\ UNCHANGED <<config, handler, row, cycle, enrolled, held, queue>>

\* _clear_managed_state: open tasks are cancelled, the deployment rows deleted.
Cancelled(tasks) == [t \in TaskIds |->
    IF tasks[t].status \in OpenStatus THEN [tasks[t] EXCEPT !.status = "cancelled"] ELSE tasks[t]]

\* _handle_checkout: the device leaves management, and with it the profile.
CheckOut ==
    /\ enrolled
    /\ Spend("checkout")
    /\ enrolled' = FALSE
    /\ held' = NoVersion
    /\ task' = Cancelled(task)
    /\ DeleteRow(cycle, handler)
    /\ UNCHANGED <<config, queue>>

\* _reenroll, a fresh enrollment: NanoMDM has cleared the queue, so the commands
\* sent are failed, and the managed state is cleared as on a CheckOut.
Enroll ==
    /\ ~enrolled
    /\ enrolled' = TRUE
    /\ queue' = <<>>
    /\ task' = Cancelled(FailTasks({t \in TaskIds : IsOpen(t) /\ task[t].sent}, FALSE))
    /\ DeleteRow(cycle, handler)
    /\ UNCHANGED <<config, held, faults>>

-----------------------------------------------------------------------------
(* The task routes of the API *)

\* cancel_task: the stored status; only a retried task's handler is registered
\* where cancel can stop it.
CancelTask(t) ==
    /\ IsOpen(t)
    /\ Spend("cancel")
    /\ task' = [task EXCEPT ![t].status = "cancelled"]
    /\ handler' = IF handler[t].api /\ handler[t].pc # "spawned"
                  THEN [handler EXCEPT ![t] = NoHandler] ELSE handler
    /\ UNCHANGED <<config, row, cycle, enrolled, held, queue, answer>>

\* (mutant) The same task is executed again instead of a new one.
RetryTaskInPlace(t, p) ==
    /\ task[t].status \in {"failed", "cancelled"}
    /\ Spend("retry")
    /\ task' = [task EXCEPT ![t] = NewTask(task[t].type, task[t].ver)]
    /\ handler' = [handler EXCEPT ![t] = NewHandler(p, TRUE)]
    /\ row' = IF task[t].type = "profile_install" THEN Ensured(t) ELSE row
    /\ UNCHANGED <<config, cycle, enrolled, held, queue, answer>>

\* retry_task: a failed or cancelled task again as a new one, its row linked now.
RetryTask(t, p) ==
    /\ task[t].status \in {"failed", "cancelled"}
    /\ Fresh # {}
    /\ Spend("retry")
    /\ task' = [task EXCEPT ![NextId] = NewTask(task[t].type, task[t].ver)]
    /\ handler' = [handler EXCEPT ![NextId] = NewHandler(p, TRUE)]
    /\ row' = IF task[t].type = "profile_install" THEN Ensured(NextId) ELSE row
    /\ UNCHANGED <<config, cycle, enrolled, held, queue, answer>>

-----------------------------------------------------------------------------
(* Specification *)

CycleStep(p) == \/ Survey(p)
                \/ QueueInstall(p) \/ QueueRemoval(p) \/ DropRecord(p) \/ LeaveAlone(p)

HandlerStep(t) == \/ BeginInstall(t) \/ PushInstall(t) \/ SaveInstalling(t)
                  \/ PushRemoval(t) \/ DropRemoved(t) \/ MarkSent(t)

AnswerStep(t) == ReadAnswer(t) \/ WriteAnswer(t) \/ DiscardAnswer(t)

Next == \/ EditConfig \/ Tick \/ DeviceExecutes \/ DeviceNotNow \/ CheckOut \/ Enroll
        \/ \E p \in Procs : \/ StartCycle(p) \/ CycleStep(p) \/ Crash(p)
        \/ \E t \in TaskIds : \/ HandlerStep(t) \/ InstallRefused(t) \/ RemovalRefused(t)
                              \/ AnswerStep(t) \/ LoseAnswer(t)
                              \/ CancelTask(t) \/ PurgeTask(t)
        \/ \E t \in TaskIds, p \in Procs : RetryTask(t, p)

\* The scheduler starts cycles for ever (sync_all_tenants), started work runs on,
\* an enrolled device fetches its commands, retention runs, and time passes.
Fairness == /\ \A p \in Procs : WF_vars(StartCycle(p)) /\ WF_vars(CycleStep(p))
            /\ \A t \in TaskIds : WF_vars(HandlerStep(t)) /\ WF_vars(AnswerStep(t))
            /\ \A t \in TaskIds : WF_vars(PurgeTask(t))
            /\ WF_vars(DeviceExecutes)
            /\ SF_vars(Tick)

Spec == Init /\ [][Next]_vars /\ Fairness

-----------------------------------------------------------------------------
(* Properties *)

\* Every variable keeps its shape: statuses stay within what the models name.
TypeOK ==
    /\ config \in Config
    /\ task \in [TaskIds -> Task]
    /\ handler \in [TaskIds -> Handler]
    /\ row \in Row
    /\ cycle \in [Procs -> Cycle]
    /\ enrolled \in BOOLEAN
    /\ held \in Versions \cup {NoVersion}
    /\ queue \in Seq(TaskIds)
    /\ answer \in [TaskIds -> Answer]
    /\ faults \in Nat

\* A task puts its command before the device at most once.  Whatever retries,
\* restarts, refusals and NotNows interleave, no task has two commands in the
\* queue, one there while another is answered, or a handler still about to push
\* (execute_task) after one was queued; and a Task row outlives all of them.
PushedOnce ==
    /\ \A i, j \in 1..Len(queue) : queue[i] = queue[j] => i = j
    /\ \A t \in TaskIds :
         /\ OnQueue(t) => answer[t].stage = "none"
         /\ handler[t].pc \in {"spawned", "linked"} => ~OnQueue(t) /\ answer[t].stage = "none"
         /\ (OnQueue(t) \/ answer[t].stage # "none" \/ handler[t].pc # "none")
              => task[t].status # "absent"

\* No task waits for ever: a device that never answers, a handler that died with
\* its process and an answer that was lost all end at _fail_timed_out_tasks.
EveryTaskSettles == \A t \in TaskIds : IsOpen(t) ~> ~IsOpen(t)

\* The device answers before time passes, from some point on.  Without it every
\* retry may meet a device that answers just as the timeout sweep gives it up.
EventuallyPrompt == <>[][Tick => queue = <<>>]_vars

\* The record catches up with the configuration: once disturbances stop, a profile
\* in scope of an enrolled device is recorded installed with today's hash for good.
RowConverges == EventuallyPrompt =>
    <>[](config.scope = "in" /\ enrolled => row.status = "installed" /\ row.hash = config.def)

\* A profile that has left scope is forgotten: a removal that was refused, lost or
\* stopped half-way is tried again until there is no record.
RecordFollowsScope == EventuallyPrompt =>
    <>[](config.scope = "out" /\ enrolled => row.status = "absent")

\* ... and the device itself ends up holding today's definition, which is what the
\* reconcile loop is for (_needs_deploy sees only the record).
DeviceConverges == EventuallyPrompt =>
    <>[](config.scope = "in" /\ enrolled => held = config.def)

-----------------------------------------------------------------------------
(* What the comments say, and the code does not quite do *)

\* models/tenant.py on task_dedup_key: the reconciler queues no second task while
\* one with the same (device, type, key) is pending or running.
NoSecondTask ==
    [][\A p \in Procs : QueueInstall(p) =>
          \A t \in TaskIds : IsOpen(t) => task[t].type # "profile_install"]_vars

\* reconciler.py where a failed or pending record is dropped: nothing reliably on
\* the device.  Nothing is installed, and no install is on its way.
DroppedRecordIsDead ==
    [][\A p \in Procs : DropRecord(p) =>
          held = NoVersion /\ \A t \in TaskIds : OnQueue(t) => task[t].type # "profile_install"]_vars

\* webhook_handler.py where an answer is applied: do not resurrect a task the user
\* cancelled.  A cancelled task stays cancelled until retention deletes it.
CancelledStays ==
    [][\A t \in TaskIds : task[t].status = "cancelled" =>
          task'[t].status \in {"cancelled", "absent"}]_vars

\* models/tenant.py on payload_hash: the sync loop compares it with the current
\* YAML to detect an edit and re-push.  An edit reaches the device in the end.
EditReachesDevice == DeviceConverges
=============================================================================
