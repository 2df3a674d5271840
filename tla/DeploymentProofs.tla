-------------------------- MODULE DeploymentProofs --------------------------
(***************************************************************************)
(* Proofs about Deployment, for any number of tasks, profile definitions,  *)
(* processes and disturbances and for any clock constants; and, at the     *)
(* end, about the coalescer that starts its cycles.                        *)
(***************************************************************************)
EXTENDS Deployment, ReconcileCoalescer, TLAPS

-----------------------------------------------------------------------------
(* The blanks, and what the helpers return, have the declared shapes. *)

LEMMA Bounds == MaxAge \in Nat /\ MaxAttempts \in Nat /\ MaxFaults \in Nat
<1>1. {MaxFaults, MaxAge, MaxAttempts} \subseteq Nat
  BY ConstantsAssumption DEF ConstantsAssumption
<1>2. QED BY <1>1

LEMMA AbsentTaskType == AbsentTask \in Task
BY Bounds DEF AbsentTask, Task, Types, OpenStatus, EndStatus

LEMMA AbsentRowType == AbsentRow \in Row
BY Bounds DEF AbsentRow, Row

LEMMA NoAnswerType == NoAnswer \in Answer
BY AbsentRowType DEF NoAnswer, Answer

LEMMA NoHandlerType == NoHandler \in Handler
<1>1. (CHOOSE p \in Procs : TRUE) \in Procs
  BY ConstantsAssumption DEF ConstantsAssumption
<1>2. QED BY <1>1, AbsentRowType DEF NoHandler, Handler

LEMMA IdleCycleType == IdleCycle \in Cycle
<1>1. (CHOOSE v \in Versions : TRUE) \in Versions
  BY ConstantsAssumption DEF ConstantsAssumption
<1>2. QED BY <1>1, AbsentRowType DEF IdleCycle, Cycle, Config, Types

LEMMA NewTaskType ==
    ASSUME NEW type \in Types, NEW ver \in Versions \cup {NoVersion}
    PROVE  NewTask(type, ver) \in Task
BY AbsentTaskType DEF NewTask, Task, AbsentTask, OpenStatus

LEMMA NewHandlerType ==
    ASSUME NEW p \in Procs, NEW api \in BOOLEAN
    PROVE  NewHandler(p, api) \in Handler
BY NoHandlerType DEF NewHandler, Handler, NoHandler

LEMMA NextIdFresh == Fresh # {} => NextId \in TaskIds /\ task[NextId].status = "absent"
<1>1. Fresh # {} => NextId \in Fresh
  BY DEF NextId
<1>2. QED BY <1>1 DEF Fresh

LEMMA FailTasksType ==
    ASSUME task \in [TaskIds -> Task], NEW ids, NEW timedOut \in BOOLEAN
    PROVE  FailTasks(ids, timedOut) \in [TaskIds -> Task]
BY DEF FailTasks, Task, EndStatus

LEMMA CancelledType ==
    ASSUME NEW tasks \in [TaskIds -> Task]
    PROVE  Cancelled(tasks) \in [TaskIds -> Task]
BY DEF Cancelled, Task, EndStatus

LEMMA RowAfterFailingType ==
    ASSUME row \in Row, NEW ids
    PROVE  RowAfterFailing(ids) \in Row
<1>1. 0 \in 0..MaxAge
  BY Bounds
<1>2. \A r \in Row : [r EXCEPT !.status = "failed"] \in Row
  BY DEF Row
<1>3. \A r \in Row : [r EXCEPT !.age = 0] \in Row
  BY <1>1 DEF Row
<1>4. [row EXCEPT !.status = "failed", !.age = 0] \in Row
  BY <1>2, <1>3
<1>5. QED BY <1>4 DEF RowAfterFailing

LEMMA EnsuredType ==
    ASSUME row \in Row, NEW t \in TaskIds
    PROVE  Ensured(t) \in Row
BY AbsentRowType DEF Ensured, Row, AbsentRow

LEMMA SavedType ==
    ASSUME row \in Row, NEW copy, NEW new \in Row
    PROVE  Saved(copy, new) \in Row
BY Bounds DEF Saved, Row

LEMMA ForgottenType ==
    /\ \A h \in [TaskIds -> Handler] : Forgotten(h) \in [TaskIds -> Handler]
    /\ \A a \in [TaskIds -> Answer] : Forgotten(a) \in [TaskIds -> Answer]
BY AbsentRowType DEF Forgotten, Handler, Answer

LEMMA NoteAttemptType ==
    ASSUME NEW r \in Row, NEW reason
    PROVE  NoteAttempt(r, reason) \in 0..MaxAttempts
<1>1. r.attempts \in 0..MaxAttempts
  BY DEF Row
<1>2. Lesser(r.attempts + 1, MaxAttempts) \in 0..MaxAttempts /\ 0 \in 0..MaxAttempts
  BY <1>1, Bounds DEF Lesser
<1>3. QED BY <1>1, <1>2 DEF NoteAttempt

LEMMA NotedRowType ==
    ASSUME row \in Row, NEW c \in Cycle, NEW reason
    PROVE  NotedRow(c, reason) \in Row
<1>1. NoteAttempt(c.row, reason) \in 0..MaxAttempts
  BY NoteAttemptType DEF Cycle
<1>2. QED BY <1>1 DEF NotedRow, Row

LEMMA DeleteRowType ==
    ASSUME NEW cyc \in [Procs -> Cycle], NEW h \in [TaskIds -> Handler],
           answer \in [TaskIds -> Answer], DeleteRow(cyc, h)
    PROVE  /\ row' \in Row /\ cycle' \in [Procs -> Cycle]
           /\ handler' \in [TaskIds -> Handler] /\ answer' \in [TaskIds -> Answer]
<1>1. row' \in Row
  BY AbsentRowType DEF DeleteRow
<1>2. cycle' \in [Procs -> Cycle]
  BY DEF DeleteRow, Cycle
<1>3. handler' \in [TaskIds -> Handler] /\ answer' \in [TaskIds -> Answer]
  BY ForgottenType DEF DeleteRow
<1>4. QED BY <1>1, <1>2, <1>3

-----------------------------------------------------------------------------
(* Type correctness *)

LEMMA InitTypeOK == Init => TypeOK
<1> SUFFICES ASSUME Init PROVE TypeOK
  OBVIOUS
<1>1. config \in Config
  <2>1. IdleCycle.config \in Config
    BY IdleCycleType DEF Cycle
  <2>2. QED BY <2>1 DEF Init, Config
<1>2. task \in [TaskIds -> Task]
  BY AbsentTaskType DEF Init
<1>3. handler \in [TaskIds -> Handler]
  BY NoHandlerType DEF Init
<1>4. row \in Row
  <2>1. CASE row = AbsentRow
    BY <2>1, AbsentRowType
  <2>2. CASE row = [AbsentRow EXCEPT !.status = "installed", !.hash = config.def]
    BY <1>1, <2>2, AbsentRowType DEF Row, Config
  <2>3. QED BY <2>1, <2>2 DEF Init
<1>5. cycle \in [Procs -> Cycle]
  BY IdleCycleType DEF Init
<1>6. answer \in [TaskIds -> Answer]
  BY NoAnswerType DEF Init
<1>7. enrolled \in BOOLEAN /\ held \in Versions \cup {NoVersion} /\ queue \in Seq(TaskIds)
      /\ faults \in Nat
  BY <1>1 DEF Init, Config
<1>8. QED BY <1>1, <1>2, <1>3, <1>4, <1>5, <1>6, <1>7 DEF TypeOK

LEMMA SpendType == \A kind : faults \in Nat /\ Spend(kind) => faults' \in Nat
BY DEF Spend

\* What the outside world does.
LEMMA WorldTypeOK ==
    ASSUME TypeOK,
           \/ EditConfig \/ Tick \/ DeviceExecutes \/ DeviceNotNow \/ CheckOut \/ Enroll
           \/ \E p \in Procs : Crash(p)
           \/ \E t \in TaskIds : PurgeTask(t)
    PROVE  TypeOK'
<1> USE DEF TypeOK
<1>1. CASE EditConfig
  BY <1>1, SpendType DEF EditConfig
<1>2. CASE Tick
  <2>1. \A a \in 0..MaxAge : Lesser(a + 1, MaxAge) \in 0..MaxAge
    BY Bounds DEF Lesser
  <2>2. task' \in [TaskIds -> Task]
    BY <1>2, <2>1 DEF Tick, Task
  <2>3. row' \in Row
    BY <1>2, <2>1 DEF Tick, Row
  <2>4. QED BY <1>2, <2>2, <2>3 DEF Tick
<1>3. CASE DeviceExecutes
  <2>1. queue # <<>> /\ queue' = Tail(queue)
    BY <1>3 DEF DeviceExecutes
  <2>2. queue' \in Seq(TaskIds) /\ Head(queue) \in TaskIds
    BY <2>1
  <2>3. answer' \in [TaskIds -> Answer]
    BY <1>3, <2>2 DEF DeviceExecutes, Answer
  <2>4. held' \in Versions \cup {NoVersion}
    BY <1>3, <2>2 DEF DeviceExecutes, Task
  <2>5. faults' \in Nat
    BY <1>3, SpendType DEF DeviceExecutes
  <2>6. QED BY <1>3, <2>2, <2>3, <2>4, <2>5 DEF DeviceExecutes
<1>4. CASE DeviceNotNow
  <2>1. queue # <<>> /\ queue' = Append(Tail(queue), Head(queue))
    BY <1>4 DEF DeviceNotNow
  <2>2. queue' \in Seq(TaskIds)
    BY <2>1
  <2>3. faults' \in Nat
    BY <1>4, SpendType DEF DeviceNotNow
  <2>4. QED BY <1>4, <2>2, <2>3 DEF DeviceNotNow
<1>5. CASE CheckOut
  <2>1. /\ row' \in Row /\ cycle' \in [Procs -> Cycle]
        /\ handler' \in [TaskIds -> Handler] /\ answer' \in [TaskIds -> Answer]
    BY <1>5, DeleteRowType DEF CheckOut
  <2>2. task' \in [TaskIds -> Task]
    BY <1>5, CancelledType DEF CheckOut
  <2>3. faults' \in Nat
    BY <1>5, SpendType DEF CheckOut
  <2>4. QED BY <1>5, <2>1, <2>2, <2>3 DEF CheckOut
<1>6. CASE Enroll
  <2>1. /\ row' \in Row /\ cycle' \in [Procs -> Cycle]
        /\ handler' \in [TaskIds -> Handler] /\ answer' \in [TaskIds -> Answer]
    BY <1>6, DeleteRowType DEF Enroll
  <2>2. task' \in [TaskIds -> Task]
    BY <1>6, FailTasksType, CancelledType DEF Enroll
  <2>3. queue' = <<>> /\ <<>> \in Seq(TaskIds)
    BY <1>6 DEF Enroll
  <2>4. enrolled' \in BOOLEAN /\ UNCHANGED <<config, held, faults>>
    BY <1>6 DEF Enroll
  <2>5. QED BY <2>1, <2>2, <2>3, <2>4
<1>7. ASSUME NEW p \in Procs, Crash(p) PROVE TypeOK'
  <2>1. cycle' \in [Procs -> Cycle]
    BY <1>7, IdleCycleType DEF Crash
  <2>2. handler' \in [TaskIds -> Handler]
    BY <1>7, NoHandlerType DEF Crash
  <2>3. QED BY <1>7, <2>1, <2>2, SpendType DEF Crash
<1>8. ASSUME NEW t \in TaskIds, PurgeTask(t) PROVE TypeOK'
  <2>1. task' \in [TaskIds -> Task]
    BY <1>8, AbsentTaskType DEF PurgeTask
  <2>2. QED BY <1>8, <2>1 DEF PurgeTask
<1>9. QED BY <1>1, <1>2, <1>3, <1>4, <1>5, <1>6, <1>7, <1>8

\* The reconcile cycle.
LEMMA CycleTypeOK ==
    ASSUME TypeOK, NEW p \in Procs, StartCycle(p) \/ CycleStep(p)
    PROVE  TypeOK'
<1> USE DEF TypeOK
<1>1. IdleCycle \in Cycle /\ cycle[p] \in Cycle
  BY IdleCycleType
<1>2. [cycle EXCEPT ![p] = IdleCycle] \in [Procs -> Cycle]
  BY <1>1
<1>3. cycle[p].config \in Config /\ cycle[p].config.def \in Versions
  BY <1>1 DEF Cycle, Config
<1>4. CASE StartCycle(p)
  <2>1. cycle' \in [Procs -> Cycle]
    BY <1>1, <1>4 DEF StartCycle, Cycle
  <2>2. QED BY <1>4, <2>1 DEF StartCycle
<1>5. CASE Survey(p)
  <2>1. task' \in [TaskIds -> Task] /\ row' \in Row
    BY <1>5, FailTasksType, RowAfterFailingType DEF Survey
  <2>2. OpenTypes(task') \in SUBSET Types
    BY <2>1 DEF OpenTypes, Task
  <2>3. cycle' \in [Procs -> Cycle]
    BY <1>1, <1>5, <2>1, <2>2 DEF Survey, Cycle
  <2>4. QED BY <1>5, <2>1, <2>3 DEF Survey
<1>6. CASE QueueInstall(p)
  <2>1. NextId \in TaskIds
    BY <1>6, NextIdFresh DEF QueueInstall
  <2>2. row' \in Row
    BY <1>1, <1>6, NotedRowType DEF QueueInstall
  <2>3. NewTask("profile_install", cycle[p].config.def) \in Task
    BY <1>3, NewTaskType DEF Types
  <2>4. task' \in [TaskIds -> Task]
    BY <1>6, <2>1, <2>3 DEF QueueInstall
  <2>5. handler' \in [TaskIds -> Handler]
    BY <1>6, <2>1, NewHandlerType DEF QueueInstall
  <2>6. QED BY <1>2, <1>6, <2>2, <2>4, <2>5 DEF QueueInstall
<1>7. CASE QueueRemoval(p)
  <2>1. NextId \in TaskIds
    BY <1>7, NextIdFresh DEF QueueRemoval
  <2>2. NewTask("profile_remove", NoVersion) \in Task
    BY NewTaskType DEF Types
  <2>3. task' \in [TaskIds -> Task]
    BY <1>7, <2>1, <2>2 DEF QueueRemoval
  <2>4. handler' \in [TaskIds -> Handler]
    BY <1>7, <2>1, NewHandlerType DEF QueueRemoval
  <2>5. QED BY <1>2, <1>7, <2>3, <2>4 DEF QueueRemoval
<1>8. CASE DropRecord(p)
  <2>1. CASE cycle[p].live
    <3>1. DeleteRow([cycle EXCEPT ![p] = IdleCycle], handler)
      BY <1>8, <2>1 DEF DropRecord
    <3>2. /\ row' \in Row /\ cycle' \in [Procs -> Cycle]
          /\ handler' \in [TaskIds -> Handler] /\ answer' \in [TaskIds -> Answer]
      BY <1>2, <3>1, DeleteRowType
    <3>3. QED BY <1>8, <3>2 DEF DropRecord
  <2>2. CASE ~cycle[p].live
    BY <1>2, <1>8, <2>2 DEF DropRecord
  <2>3. QED BY <2>1, <2>2
<1>9. CASE LeaveAlone(p)
  <2>1. row' \in Row
    BY <1>1, <1>9, NotedRowType DEF LeaveAlone
  <2>2. QED BY <1>2, <1>9, <2>1 DEF LeaveAlone
<1>10. QED BY <1>4, <1>5, <1>6, <1>7, <1>8, <1>9 DEF CycleStep

LEMMA FailedTaskType ==
    ASSUME task \in [TaskIds -> Task], NEW t \in TaskIds,
           NEW status \in {"completed", "failed"}
    PROVE  [task EXCEPT ![t].status = status, ![t].timedOut = FALSE] \in [TaskIds -> Task]
<1>1. \A k \in Task : [k EXCEPT !.status = status] \in Task
  BY DEF Task, EndStatus
<1>2. \A k \in Task : [k EXCEPT !.timedOut = FALSE] \in Task
  BY DEF Task
<1>3. [[task[t] EXCEPT !.status = status] EXCEPT !.timedOut = FALSE] \in Task
  BY <1>1, <1>2
<1>4. QED BY <1>3

\* The handlers of the tasks.
LEMMA HandlerTypeOK ==
    ASSUME TypeOK, NEW t \in TaskIds,
           HandlerStep(t) \/ InstallRefused(t) \/ RemovalRefused(t)
    PROVE  TypeOK'
<1> USE DEF TypeOK
<1>1. NoHandler \in Handler /\ handler[t] \in Handler /\ task[t] \in Task
  BY NoHandlerType
<1>2. handler[t].copy \in Row /\ task[t].ver \in Versions \cup {NoVersion}
  BY <1>1 DEF Handler, Task
<1>3. Running(t) \in [TaskIds -> Task]
  BY DEF Running, Task, OpenStatus
<1>4. Append(queue, t) \in Seq(TaskIds)
  OBVIOUS
<1>5. \A h \in Handler, pc \in {"linked", "pushed", "saved"} : [h EXCEPT !.pc = pc] \in Handler
  BY DEF Handler
<1>6. \A h \in Handler, r \in Row : [h EXCEPT !.copy = r] \in Handler
  BY DEF Handler
<1>7. \A h \in Handler : [handler EXCEPT ![t] = h] \in [TaskIds -> Handler]
  OBVIOUS
<1>8. CASE BeginInstall(t)
  <2>1. row' \in Row
    BY <1>8, EnsuredType DEF BeginInstall
  <2>2. [handler[t] EXCEPT !.pc = "linked", !.copy = row'] \in Handler
    BY <1>1, <2>1 DEF Handler
  <2>3. handler' = [handler EXCEPT ![t] = [handler[t] EXCEPT !.pc = "linked", !.copy = row']]
    BY <1>8 DEF BeginInstall
  <2>4. QED BY <1>3, <1>7, <1>8, <2>1, <2>2, <2>3 DEF BeginInstall
<1>9. CASE PushInstall(t)
  <2>1. handler' \in [TaskIds -> Handler]
    BY <1>1, <1>5, <1>7, <1>9 DEF PushInstall
  <2>2. QED BY <1>4, <1>9, <2>1 DEF PushInstall
<1>10. CASE InstallRefused(t)
  <2>1. [handler[t].copy EXCEPT !.status = "failed", !.hash = task[t].ver] \in Row
    BY <1>2 DEF Row
  <2>2. row' \in Row
    BY <1>10, <2>1, SavedType DEF InstallRefused
  <2>3. task' \in [TaskIds -> Task]
    BY <1>10, FailedTaskType DEF InstallRefused
  <2>4. handler' \in [TaskIds -> Handler]
    BY <1>1, <1>10 DEF InstallRefused
  <2>5. queue' \in Seq(TaskIds)
    BY <1>4, <1>10 DEF InstallRefused
  <2>6. faults' \in Nat
    BY <1>10, SpendType DEF InstallRefused
  <2>7. QED BY <1>10, <2>2, <2>3, <2>4, <2>5, <2>6 DEF InstallRefused
<1>11. CASE RemovalRefused(t)
  <2>1. task' \in [TaskIds -> Task]
    BY <1>11, FailedTaskType DEF RemovalRefused
  <2>2. handler' \in [TaskIds -> Handler]
    BY <1>1, <1>11 DEF RemovalRefused
  <2>3. queue' \in Seq(TaskIds)
    BY <1>4, <1>11 DEF RemovalRefused
  <2>4. faults' \in Nat
    BY <1>11, SpendType DEF RemovalRefused
  <2>5. QED BY <1>11, <2>1, <2>2, <2>3, <2>4 DEF RemovalRefused
<1>12. CASE PushRemoval(t)
  <2>1. handler' \in [TaskIds -> Handler]
    BY <1>1, <1>5, <1>7, <1>12 DEF PushRemoval
  <2>2. QED BY <1>3, <1>4, <1>12, <2>1 DEF PushRemoval
<1>13. CASE SaveInstalling(t)
  <2>1. [handler[t].copy EXCEPT !.status = "installing", !.hash = task[t].ver] \in Row
    BY <1>2 DEF Row
  <2>2. row' \in Row
    BY <1>13, <2>1, SavedType DEF SaveInstalling
  <2>3. [handler[t] EXCEPT !.pc = "saved", !.copy = AbsentRow] \in Handler
    BY <1>1, AbsentRowType DEF Handler
  <2>4. handler' = [handler EXCEPT ![t] = [handler[t] EXCEPT !.pc = "saved", !.copy = AbsentRow]]
    BY <1>13 DEF SaveInstalling
  <2>5. QED BY <1>7, <1>13, <2>2, <2>3, <2>4 DEF SaveInstalling
<1>14. CASE DropRemoved(t)
  <2>1. [handler EXCEPT ![t].pc = "saved"] \in [TaskIds -> Handler]
    BY <1>1, <1>5, <1>7
  <2>2. /\ row' \in Row /\ cycle' \in [Procs -> Cycle]
        /\ handler' \in [TaskIds -> Handler] /\ answer' \in [TaskIds -> Answer]
    BY <1>14, <2>1, DeleteRowType DEF DropRemoved
  <2>3. QED BY <1>14, <2>2 DEF DropRemoved
<1>15. CASE MarkSent(t)
  <2>1. task' \in [TaskIds -> Task]
    BY <1>15 DEF MarkSent, Task, OpenStatus
  <2>2. handler' \in [TaskIds -> Handler]
    BY <1>1, <1>15 DEF MarkSent
  <2>3. QED BY <1>15, <2>1, <2>2 DEF MarkSent
<1>16. QED BY <1>8, <1>9, <1>10, <1>11, <1>12, <1>13, <1>14, <1>15 DEF HandlerStep

\* The answers of the device.
LEMMA AnswerTypeOK ==
    ASSUME TypeOK, NEW t \in TaskIds, AnswerStep(t) \/ LoseAnswer(t)
    PROVE  TypeOK'
<1> USE DEF TypeOK
<1>1. NoAnswer \in Answer /\ answer[t] \in Answer
  BY NoAnswerType
<1>2. \A a \in Answer : [answer EXCEPT ![t] = a] \in [TaskIds -> Answer]
  OBVIOUS
<1>3. Answered(t) \in [TaskIds -> Task]
  BY FailedTaskType DEF Answered
<1>4. CASE ReadAnswer(t)
  <2>1. \A r \in Row : [answer[t] EXCEPT !.stage = "read", !.copy = r] \in Answer
    BY <1>1 DEF Answer
  <2>2. row \in Row /\ AbsentRow \in Row
    BY AbsentRowType
  <2>3. answer' \in [TaskIds -> Answer]
    BY <1>1, <1>2, <1>4, <2>1, <2>2 DEF ReadAnswer
  <2>4. QED BY <1>4, <2>3 DEF ReadAnswer
<1>5. CASE WriteAnswer(t)
  <2>1. answer[t].copy \in Row
    BY <1>1 DEF Answer
  <2>2. 0 \in 0..MaxAttempts
    BY Bounds
  <2>3. [answer[t].copy EXCEPT !.status = "installed", !.attempts = 0] \in Row
    BY <2>1, <2>2 DEF Row
  <2>4. [answer[t].copy EXCEPT !.status = "failed"] \in Row
    BY <2>1 DEF Row
  <2>5. RowAnswered(t) \in Row
    BY <2>3, <2>4, SavedType DEF RowAnswered
  <2>6. QED BY <1>1, <1>2, <1>3, <1>5, <2>5 DEF WriteAnswer
<1>6. CASE DiscardAnswer(t)
  <2>1. faults' \in Nat
    BY <1>6, SpendType DEF DiscardAnswer
  <2>2. QED BY <1>1, <1>2, <1>6, <2>1 DEF DiscardAnswer
<1>7. CASE LoseAnswer(t)
  <2>1. faults' \in Nat
    BY <1>7, SpendType DEF LoseAnswer
  <2>2. task' \in [TaskIds -> Task]
    BY <1>3, <1>7 DEF LoseAnswer
  <2>3. QED BY <1>1, <1>2, <1>7, <2>1, <2>2 DEF LoseAnswer
<1>8. QED BY <1>4, <1>5, <1>6, <1>7 DEF AnswerStep

\* The task routes of the API.
LEMMA ApiTypeOK ==
    ASSUME TypeOK, NEW t \in TaskIds, NEW p \in Procs, CancelTask(t) \/ RetryTask(t, p)
    PROVE  TypeOK'
<1> USE DEF TypeOK
<1>1. CASE CancelTask(t)
  <2>1. task' \in [TaskIds -> Task]
    BY <1>1 DEF CancelTask, Task, EndStatus
  <2>2. handler' \in [TaskIds -> Handler]
    BY <1>1, NoHandlerType DEF CancelTask
  <2>3. faults' \in Nat
    BY <1>1, SpendType DEF CancelTask
  <2>4. QED BY <1>1, <2>1, <2>2, <2>3 DEF CancelTask
<1>2. CASE RetryTask(t, p)
  <2>1. NextId \in TaskIds
    BY <1>2, NextIdFresh DEF RetryTask
  <2>2. task[t].type \in Types /\ task[t].ver \in Versions \cup {NoVersion}
    BY DEF Task
  <2>3. NewTask(task[t].type, task[t].ver) \in Task
    BY <2>2, NewTaskType
  <2>4. task' \in [TaskIds -> Task]
    BY <1>2, <2>1, <2>3 DEF RetryTask
  <2>5. NewHandler(p, TRUE) \in Handler
    BY NewHandlerType
  <2>6. handler' \in [TaskIds -> Handler]
    BY <1>2, <2>1, <2>5 DEF RetryTask
  <2>7. row' \in Row
    BY <1>2, <2>1, EnsuredType DEF RetryTask
  <2>8. faults' \in Nat
    BY <1>2, SpendType DEF RetryTask
  <2>9. QED BY <1>2, <2>4, <2>6, <2>7, <2>8 DEF RetryTask
<1>3. QED BY <1>1, <1>2

LEMMA NextTypeOK == TypeOK /\ [Next]_vars => TypeOK'
<1> SUFFICES ASSUME TypeOK, [Next]_vars PROVE TypeOK'
  OBVIOUS
<1>1. CASE Next
  <2>1. CASE \/ EditConfig \/ Tick \/ DeviceExecutes \/ DeviceNotNow \/ CheckOut \/ Enroll
             \/ \E p \in Procs : Crash(p)
             \/ \E t \in TaskIds : PurgeTask(t)
    BY <2>1, WorldTypeOK
  <2>2. ASSUME NEW p \in Procs, StartCycle(p) \/ CycleStep(p) PROVE TypeOK'
    BY <2>2, CycleTypeOK
  <2>3. ASSUME NEW t \in TaskIds, HandlerStep(t) \/ InstallRefused(t) \/ RemovalRefused(t)
        PROVE TypeOK'
    BY <2>3, HandlerTypeOK
  <2>4. ASSUME NEW t \in TaskIds, AnswerStep(t) \/ LoseAnswer(t) PROVE TypeOK'
    BY <2>4, AnswerTypeOK
  <2>5. ASSUME NEW t \in TaskIds, CancelTask(t) PROVE TypeOK'
    <3>1. PICK p \in Procs : TRUE
      BY ConstantsAssumption DEF ConstantsAssumption
    <3>2. QED BY <2>5, <3>1, ApiTypeOK
  <2>6. ASSUME NEW t \in TaskIds, NEW p \in Procs, RetryTask(t, p) PROVE TypeOK'
    BY <2>6, ApiTypeOK
  <2>7. QED BY <1>1, <2>1, <2>2, <2>3, <2>4, <2>5, <2>6 DEF Next
<1>2. CASE UNCHANGED vars
  BY <1>2 DEF TypeOK, vars
<1>3. QED BY <1>1, <1>2

\* Type correctness: no step of a cycle, a handler, a response or a task route
\* leaves a row in a state the models do not name.
THEOREM TypeCorrect == Spec => []TypeOK
BY InitTypeOK, NextTypeOK, PTL DEF Spec

-----------------------------------------------------------------------------
(* One command per task *)

Distinct(q)  == \A i, j \in 1..Len(q) : q[i] = q[j] => i = j
Occurs(t, q) == \E i \in 1..Len(q) : q[i] = t

\* What PushedOnce says of one task.
Once(t) == /\ OnQueue(t) => answer[t].stage = "none"
           /\ handler[t].pc \in {"spawned", "linked"} => ~OnQueue(t) /\ answer[t].stage = "none"
           /\ (OnQueue(t) \/ answer[t].stage # "none" \/ handler[t].pc # "none")
                => task[t].status # "absent"

LEMMA PushedOnceParts ==
    /\ PushedOnce <=> Distinct(queue) /\ \A t \in TaskIds : Once(t)
    /\ \A t : OnQueue(t) <=> Occurs(t, queue)
BY DEF PushedOnce, Distinct, Occurs, Once, OnQueue

LEMMA PushedOnceParts2 ==
    /\ PushedOnce' <=> Distinct(queue') /\ \A t \in TaskIds : Once(t)'
    /\ \A t : OnQueue(t)' <=> Occurs(t, queue')
BY DEF PushedOnce, Distinct, Occurs, Once, OnQueue

\* A command appended to a queue it is not in.
LEMMA AppendOnce ==
    ASSUME NEW q \in Seq(TaskIds), NEW t \in TaskIds, Distinct(q), ~Occurs(t, q)
    PROVE  /\ Distinct(Append(q, t))
           /\ \A u : Occurs(u, Append(q, t)) <=> Occurs(u, q) \/ u = t
<1> DEFINE r == Append(q, t)
<1>1. Len(r) = Len(q) + 1 /\ r[Len(q) + 1] = t /\ \A i \in 1..Len(q) : r[i] = q[i]
  OBVIOUS
<1>2. Len(q) \in Nat
  OBVIOUS
<1> HIDE DEF r
<1>3. Distinct(r)
  BY <1>1, <1>2 DEF Distinct, Occurs
<1>4. ASSUME NEW u PROVE Occurs(u, r) <=> Occurs(u, q) \/ u = t
  <2>1. Occurs(u, r) => Occurs(u, q) \/ u = t
    BY <1>1, <1>2 DEF Occurs
  <2>2. Occurs(u, q) => Occurs(u, r)
    BY <1>1, <1>2 DEF Occurs
  <2>3. Len(q) + 1 \in 1..Len(r)
    BY <1>1, <1>2
  <2>4. u = t => Occurs(u, r)
    BY <1>1, <2>3 DEF Occurs
  <2>5. QED BY <2>1, <2>2, <2>4
<1>5. QED BY <1>3, <1>4 DEF r

\* The first command taken off a queue.
LEMMA TailOnce ==
    ASSUME NEW q \in Seq(TaskIds), q # <<>>, Distinct(q)
    PROVE  /\ Distinct(Tail(q)) /\ Occurs(Head(q), q)
           /\ \A u : Occurs(u, Tail(q)) <=> Occurs(u, q) /\ u # Head(q)
<1> DEFINE r == Tail(q)
<1>1. /\ Len(q) \in Nat /\ Len(q) > 0 /\ Len(r) = Len(q) - 1
      /\ \A i \in 1..(Len(q) - 1) : r[i] = q[i + 1]
      /\ q[1] = Head(q)
  OBVIOUS
<1> HIDE DEF r
<1>2. Distinct(r)
  BY <1>1 DEF Distinct
<1>3. Occurs(Head(q), q)
  BY <1>1 DEF Occurs
<1>4. ASSUME NEW u PROVE Occurs(u, r) <=> Occurs(u, q) /\ u # Head(q)
  <2>1. ASSUME NEW i \in 1..Len(r), r[i] = u PROVE Occurs(u, q) /\ u # Head(q)
    <3>1. i + 1 \in 1..Len(q) /\ q[i + 1] = u /\ i + 1 # 1 /\ 1 \in 1..Len(q)
      BY <1>1, <2>1
    <3>2. q[i + 1] # q[1]
      BY <3>1 DEF Distinct
    <3>3. QED BY <1>1, <3>1, <3>2 DEF Occurs
  <2>2. ASSUME NEW i \in 1..Len(q), q[i] = u, u # Head(q) PROVE Occurs(u, r)
    <3>1. i # 1 /\ i - 1 \in 1..Len(r) /\ (i - 1) + 1 = i
      BY <1>1, <2>2
    <3>2. r[i - 1] = u
      BY <1>1, <2>2, <3>1
    <3>3. QED BY <3>1, <3>2 DEF Occurs
  <2>3. QED BY <2>1, <2>2 DEF Occurs
<1>5. QED BY <1>2, <1>3, <1>4 DEF r

\* The steps that give nobody a command, an answer or a handler it had not.
Calm == /\ queue' \in {queue, <<>>}
        /\ \A t \in TaskIds :
             /\ answer'[t].stage # "none" => answer[t].stage # "none"
             /\ handler'[t].pc # "none" => handler[t].pc # "none"
             /\ handler'[t].pc \in {"spawned", "linked"} => handler[t].pc \in {"spawned", "linked"}
             /\ task'[t].status = "absent" => task[t].status = "absent"

LEMMA CalmKeeps == PushedOnce /\ Calm => PushedOnce'
<1> SUFFICES ASSUME PushedOnce, Calm PROVE PushedOnce'
  OBVIOUS
<1>1. Distinct(queue') /\ \A t : OnQueue(t)' => OnQueue(t)
  <2>1. Distinct(<<>>) /\ \A t : ~Occurs(t, <<>>)
    BY DEF Distinct, Occurs
  <2>2. QED BY <2>1, PushedOnceParts, PushedOnceParts2 DEF Calm
<1>2. ASSUME NEW t \in TaskIds PROVE Once(t)'
  <2>1. Once(t)
    BY PushedOnceParts
  <2>2. OnQueue(t)' => OnQueue(t)
    BY <1>1
  <2>3. /\ answer'[t].stage # "none" => answer[t].stage # "none"
        /\ handler'[t].pc # "none" => handler[t].pc # "none"
        /\ handler'[t].pc \in {"spawned", "linked"} => handler[t].pc \in {"spawned", "linked"}
        /\ task'[t].status = "absent" => task[t].status = "absent"
    BY DEF Calm
  <2>4. QED BY <2>1, <2>2, <2>3 DEF Once
<1>3. QED BY <1>1, <1>2, PushedOnceParts2

LEMMA CancelledPresent ==
    ASSUME NEW tasks \in [TaskIds -> Task], NEW t \in TaskIds,
           Cancelled(tasks)[t].status = "absent"
    PROVE  tasks[t].status = "absent"
BY DEF Cancelled, Task

LEMMA FailTasksPresent ==
    ASSUME task \in [TaskIds -> Task], NEW ids, NEW timedOut, NEW t \in TaskIds,
           FailTasks(ids, timedOut)[t].status = "absent"
    PROVE  task[t].status = "absent"
BY DEF FailTasks, Task

LEMMA ForgottenKeeps ==
    /\ \A h \in [TaskIds -> Handler], t \in TaskIds : Forgotten(h)[t].pc = h[t].pc
    /\ \A a \in [TaskIds -> Answer], t \in TaskIds : Forgotten(a)[t].stage = a[t].stage
BY DEF Forgotten, Handler, Answer

\* Deleting the row changes the copies only.
LEMMA DeleteRowKeeps ==
    ASSUME answer \in [TaskIds -> Answer], NEW h \in [TaskIds -> Handler], NEW cyc,
           DeleteRow(cyc, h), NEW t \in TaskIds
    PROVE  handler'[t].pc = h[t].pc /\ answer'[t].stage = answer[t].stage
BY ForgottenKeeps DEF DeleteRow

LEMMA CalmWorld ==
    ASSUME TypeOK,
           \/ EditConfig \/ Tick \/ CheckOut \/ Enroll \/ UNCHANGED vars
           \/ \E p \in Procs : Crash(p) \/ StartCycle(p) \/ Survey(p) \/ DropRecord(p) \/ LeaveAlone(p)
    PROVE  Calm
<1> USE DEF TypeOK
<1>1. CASE EditConfig
  BY <1>1 DEF EditConfig, Calm
<1>2. CASE Tick
  <2>1. \A t \in TaskIds : task'[t].status = task[t].status
    BY <1>2 DEF Tick, Task
  <2>2. QED BY <1>2, <2>1 DEF Tick, Calm
<1>3. CASE CheckOut
  <2>1. \A t \in TaskIds : handler'[t].pc = handler[t].pc /\ answer'[t].stage = answer[t].stage
    BY <1>3, DeleteRowKeeps DEF CheckOut
  <2>2. \A t \in TaskIds : task'[t].status = "absent" => task[t].status = "absent"
    BY <1>3, CancelledPresent DEF CheckOut
  <2>3. queue' = queue
    BY <1>3 DEF CheckOut
  <2>4. QED BY <2>1, <2>2, <2>3 DEF Calm
<1>4. CASE Enroll
  <2>1. \A t \in TaskIds : handler'[t].pc = handler[t].pc /\ answer'[t].stage = answer[t].stage
    BY <1>4, DeleteRowKeeps DEF Enroll
  <2>2. PICK ids : task' = Cancelled(FailTasks(ids, FALSE))
    BY <1>4 DEF Enroll
  <2>3. \A t \in TaskIds : task'[t].status = "absent" => task[t].status = "absent"
    <3>1. FALSE \in BOOLEAN /\ FailTasks(ids, FALSE) \in [TaskIds -> Task]
      BY FailTasksType
    <3>2. TAKE t \in TaskIds
    <3>3. HAVE task'[t].status = "absent"
    <3>4. FailTasks(ids, FALSE)[t].status = "absent"
      BY <2>2, <3>1, <3>3, CancelledPresent
    <3>5. QED BY <3>4, FailTasksPresent
  <2>4. queue' = <<>>
    BY <1>4 DEF Enroll
  <2>5. QED BY <2>1, <2>3, <2>4 DEF Calm
<1>5. CASE UNCHANGED vars
  BY <1>5 DEF vars, Calm
<1>6. ASSUME NEW p \in Procs, Crash(p) PROVE Calm
  <2>1. \A t \in TaskIds : handler'[t].pc \in {"none", handler[t].pc}
    BY <1>6 DEF Crash, NoHandler
  <2>2. QED BY <1>6, <2>1 DEF Crash, Calm
<1>7. ASSUME NEW p \in Procs, StartCycle(p) PROVE Calm
  BY <1>7 DEF StartCycle, Calm
<1>8. ASSUME NEW p \in Procs, Survey(p) PROVE Calm
  <2>1. \A t \in TaskIds : task'[t].status = "absent" => task[t].status = "absent"
    BY <1>8, FailTasksPresent DEF Survey
  <2>2. QED BY <1>8, <2>1 DEF Survey, Calm
<1>9. ASSUME NEW p \in Procs, DropRecord(p) PROVE Calm
  <2>1. \A t \in TaskIds : handler'[t].pc = handler[t].pc /\ answer'[t].stage = answer[t].stage
    BY <1>9, DeleteRowKeeps DEF DropRecord
  <2>2. queue' = queue /\ task' = task
    BY <1>9 DEF DropRecord
  <2>3. QED BY <2>1, <2>2 DEF Calm
<1>10. ASSUME NEW p \in Procs, LeaveAlone(p) PROVE Calm
  BY <1>10 DEF LeaveAlone, Calm
<1>11. QED BY <1>1, <1>2, <1>3, <1>4, <1>5, <1>6, <1>7, <1>8, <1>9, <1>10

LEMMA CalmTask ==
    ASSUME TypeOK, NEW t \in TaskIds,
           \/ BeginInstall(t) \/ SaveInstalling(t) \/ DropRemoved(t) \/ MarkSent(t)
           \/ AnswerStep(t) \/ LoseAnswer(t) \/ CancelTask(t)
    PROVE  Calm
<1> USE DEF TypeOK
<1>1. NoHandler.pc = "none" /\ NoAnswer.stage = "none"
  BY DEF NoHandler, NoAnswer
<1>2. \A u \in TaskIds : Answered(t)[u].status = "absent" => task[u].status = "absent"
  BY DEF Answered, Task
<1>3. CASE BeginInstall(t)
  <2>1. \A u \in TaskIds : task'[u].status = "absent" => task[u].status = "absent"
    BY <1>3 DEF BeginInstall, Running, Task
  <2>2. handler[t].pc = "spawned" /\ \A u \in TaskIds : u # t => handler'[u] = handler[u]
    BY <1>3 DEF BeginInstall
  <2>3. QED BY <1>3, <2>1, <2>2 DEF BeginInstall, Calm
<1>4. CASE SaveInstalling(t)
  <2>1. handler[t].pc = "pushed" /\ handler'[t].pc = "saved"
        /\ \A u \in TaskIds : u # t => handler'[u] = handler[u]
    BY <1>4 DEF SaveInstalling, Handler
  <2>2. QED BY <1>4, <2>1 DEF SaveInstalling, Calm
<1>5. CASE DropRemoved(t)
  <2>1. [handler EXCEPT ![t].pc = "saved"] \in [TaskIds -> Handler]
    BY DEF Handler
  <2>2. \A u \in TaskIds : /\ handler'[u].pc = [handler EXCEPT ![t].pc = "saved"][u].pc
                           /\ answer'[u].stage = answer[u].stage
    BY <1>5, <2>1, DeleteRowKeeps DEF DropRemoved
  <2>3. handler[t].pc = "pushed" /\ handler'[t].pc = "saved"
        /\ \A u \in TaskIds : u # t => handler'[u].pc = handler[u].pc
    BY <1>5, <2>2 DEF DropRemoved, Handler
  <2>4. queue' = queue /\ task' = task
    BY <1>5 DEF DropRemoved
  <2>5. QED BY <2>2, <2>3, <2>4 DEF Calm
<1>6. CASE MarkSent(t)
  <2>1. \A u \in TaskIds : task'[u].status = "absent" => task[u].status = "absent"
    BY <1>6 DEF MarkSent, Task
  <2>2. \A u \in TaskIds : handler'[u].pc \in {"none", handler[u].pc}
    BY <1>1, <1>6 DEF MarkSent
  <2>3. QED BY <1>6, <2>1, <2>2 DEF MarkSent, Calm
<1>7. CASE ReadAnswer(t)
  <2>1. \A u \in TaskIds : answer'[u].stage # "none" => answer[u].stage # "none"
    BY <1>1, <1>7 DEF ReadAnswer
  <2>2. QED BY <1>7, <2>1 DEF ReadAnswer, Calm
<1>8. CASE WriteAnswer(t)
  <2>1. \A u \in TaskIds : answer'[u].stage # "none" => answer[u].stage # "none"
    BY <1>1, <1>8 DEF WriteAnswer
  <2>2. QED BY <1>2, <1>8, <2>1 DEF WriteAnswer, Calm
<1>9. CASE DiscardAnswer(t)
  <2>1. \A u \in TaskIds : answer'[u].stage # "none" => answer[u].stage # "none"
    BY <1>1, <1>9 DEF DiscardAnswer
  <2>2. QED BY <1>9, <2>1 DEF DiscardAnswer, Calm
<1>10. CASE LoseAnswer(t)
  <2>1. \A u \in TaskIds : answer'[u].stage # "none" => answer[u].stage # "none"
    BY <1>1, <1>10 DEF LoseAnswer
  <2>2. \A u \in TaskIds : task'[u].status = "absent" => task[u].status = "absent"
    BY <1>2, <1>10 DEF LoseAnswer
  <2>3. QED BY <1>10, <2>1, <2>2 DEF LoseAnswer, Calm
<1>11. CASE CancelTask(t)
  <2>1. \A u \in TaskIds : task'[u].status = "absent" => task[u].status = "absent"
    BY <1>11 DEF CancelTask, Task
  <2>2. \A u \in TaskIds : handler'[u].pc \in {"none", handler[u].pc}
    BY <1>1, <1>11 DEF CancelTask
  <2>3. QED BY <1>11, <2>1, <2>2 DEF CancelTask, Calm
<1>12. QED BY <1>3, <1>4, <1>5, <1>6, <1>7, <1>8, <1>9, <1>10, <1>11 DEF AnswerStep

\* A new task under an unused id: nothing is left of the old owner of the id.
LEMMA NewTaskKeeps ==
    ASSUME TypeOK, PushedOnce, NEW n \in TaskIds, task[n].status = "absent",
           NEW k \in Task, k.status # "absent", NEW h \in Handler,
           task' = [task EXCEPT ![n] = k], handler' = [handler EXCEPT ![n] = h],
           UNCHANGED <<queue, answer>>
    PROVE  PushedOnce'
<1>1. Distinct(queue') /\ \A u : OnQueue(u)' <=> OnQueue(u)
  BY PushedOnceParts, PushedOnceParts2
<1>2. ASSUME NEW u \in TaskIds PROVE Once(u)'
  <2>1. Once(u) /\ Once(n)
    BY PushedOnceParts
  <2>2. ~OnQueue(n) /\ answer[n].stage = "none"
    BY <2>1 DEF Once
  <2>3. CASE u = n
    <3>1. task'[n].status # "absent" /\ answer'[n].stage = "none" /\ ~OnQueue(n)'
      BY <1>1, <2>2 DEF TypeOK
    <3>2. QED BY <2>3, <3>1 DEF Once
  <2>4. CASE u # n
    <3>1. task'[u] = task[u] /\ answer'[u] = answer[u] /\ handler'[u] = handler[u]
      BY <2>4 DEF TypeOK
    <3>2. QED BY <1>1, <2>1, <3>1 DEF Once
  <2>5. QED BY <2>3, <2>4
<1>3. QED BY <1>1, <1>2, PushedOnceParts2

\* A command pushed by a handler that had not pushed one.
LEMMA PushKeeps ==
    ASSUME TypeOK, PushedOnce, NEW t \in TaskIds, handler[t].pc \in {"spawned", "linked"},
           queue' = Append(queue, t), UNCHANGED answer,
           handler'[t].pc \notin {"spawned", "linked"}, task'[t].status # "absent",
           \A u \in TaskIds \ {t} : handler'[u] = handler[u] /\ task'[u] = task[u]
    PROVE  PushedOnce'
<1>1. Once(t)
  BY PushedOnceParts
<1>2. ~OnQueue(t) /\ answer[t].stage = "none"
  BY <1>1 DEF Once
<1>3. Distinct(queue') /\ \A u : Occurs(u, queue') <=> Occurs(u, queue) \/ u = t
  BY <1>2, PushedOnceParts, AppendOnce DEF TypeOK
<1>4. \A u : OnQueue(u)' <=> OnQueue(u) \/ u = t
  BY <1>3, PushedOnceParts, PushedOnceParts2
<1>5. ASSUME NEW u \in TaskIds PROVE Once(u)'
  <2>1. CASE u = t
    <3>1. answer'[t].stage = "none"
      BY <1>2
    <3>2. QED BY <2>1, <3>1 DEF Once
  <2>2. CASE u # t
    <3>1. Once(u) /\ (OnQueue(u)' <=> OnQueue(u))
      BY <1>4, <2>2, PushedOnceParts
    <3>2. handler'[u] = handler[u] /\ task'[u] = task[u] /\ answer'[u] = answer[u]
      BY <2>2
    <3>3. QED BY <3>1, <3>2 DEF Once
  <2>3. QED BY <2>1, <2>2
<1>6. QED BY <1>3, <1>5, PushedOnceParts2

LEMMA NextPushedOnce == TypeOK /\ PushedOnce /\ [Next]_vars => PushedOnce'
<1> SUFFICES ASSUME TypeOK, PushedOnce, [Next]_vars PROVE PushedOnce'
  OBVIOUS
<1>1. \A k \in Types, v \in Versions \cup {NoVersion} :
         NewTask(k, v) \in Task /\ NewTask(k, v).status # "absent"
  BY NewTaskType DEF NewTask, AbsentTask
<1>2. \A u \in TaskIds : task[u].type \in Types /\ task[u].ver \in Versions \cup {NoVersion}
  BY DEF TypeOK, Task
<1>3. \A h \in Handler : [h EXCEPT !.pc = "pushed"].pc = "pushed"
  BY DEF Handler
<1>4. NoHandler.pc = "none" /\ NoHandler \in Handler
  BY NoHandlerType DEF NoHandler
<1>5. CASE \/ EditConfig \/ Tick \/ CheckOut \/ Enroll \/ UNCHANGED vars
           \/ \E p \in Procs : \/ Crash(p) \/ StartCycle(p) \/ Survey(p)
                               \/ DropRecord(p) \/ LeaveAlone(p)
  BY <1>5, CalmWorld, CalmKeeps
<1>6. ASSUME NEW t \in TaskIds,
             \/ BeginInstall(t) \/ SaveInstalling(t) \/ DropRemoved(t) \/ MarkSent(t)
             \/ AnswerStep(t) \/ LoseAnswer(t) \/ CancelTask(t)
      PROVE  PushedOnce'
  BY <1>6, CalmTask, CalmKeeps
<1>7. ASSUME NEW p \in Procs, QueueInstall(p) PROVE PushedOnce'
  <2>1. NextId \in TaskIds /\ task[NextId].status = "absent"
    BY <1>7, NextIdFresh DEF QueueInstall
  <2>2. cycle[p].config.def \in Versions
    BY DEF TypeOK, Cycle, Config
  <2>3. "profile_install" \in Types
    BY DEF Types
  <2>4. NewHandler(p, FALSE) \in Handler
    BY NewHandlerType
  <2>5. /\ task' = [task EXCEPT ![NextId] = NewTask("profile_install", cycle[p].config.def)]
        /\ handler' = [handler EXCEPT ![NextId] = NewHandler(p, FALSE)]
        /\ UNCHANGED <<queue, answer>>
    BY <1>7 DEF QueueInstall
  <2>6. QED BY <1>1, <2>1, <2>2, <2>3, <2>4, <2>5, NewTaskKeeps
<1>8. ASSUME NEW p \in Procs, QueueRemoval(p) PROVE PushedOnce'
  <2>1. NextId \in TaskIds /\ task[NextId].status = "absent"
    BY <1>8, NextIdFresh DEF QueueRemoval
  <2>2. "profile_remove" \in Types
    BY DEF Types
  <2>3. NewHandler(p, FALSE) \in Handler
    BY NewHandlerType
  <2>4. /\ task' = [task EXCEPT ![NextId] = NewTask("profile_remove", NoVersion)]
        /\ handler' = [handler EXCEPT ![NextId] = NewHandler(p, FALSE)]
        /\ UNCHANGED <<queue, answer>>
    BY <1>8 DEF QueueRemoval
  <2>5. QED BY <1>1, <2>1, <2>2, <2>3, <2>4, NewTaskKeeps
<1>9. ASSUME NEW t \in TaskIds, NEW p \in Procs, RetryTask(t, p) PROVE PushedOnce'
  <2>1. NextId \in TaskIds /\ task[NextId].status = "absent"
    BY <1>9, NextIdFresh DEF RetryTask
  <2>2. NewHandler(p, TRUE) \in Handler
    BY NewHandlerType
  <2>3. /\ task' = [task EXCEPT ![NextId] = NewTask(task[t].type, task[t].ver)]
        /\ handler' = [handler EXCEPT ![NextId] = NewHandler(p, TRUE)]
        /\ UNCHANGED <<queue, answer>>
    BY <1>9 DEF RetryTask
  <2>4. QED BY <1>1, <1>2, <2>1, <2>2, <2>3, NewTaskKeeps
<1>10. ASSUME NEW t \in TaskIds, PushInstall(t) PROVE PushedOnce'
  <2>1. Once(t)
    BY PushedOnceParts
  <2>2. handler[t].pc = "linked" /\ task[t].status # "absent"
    BY <1>10, <2>1 DEF PushInstall, Once
  <2>3. /\ handler'[t].pc = "pushed" /\ task' = task
        /\ \A u \in TaskIds \ {t} : handler'[u] = handler[u]
    BY <1>3, <1>10 DEF PushInstall, TypeOK
  <2>4. queue' = Append(queue, t) /\ UNCHANGED answer
    BY <1>10 DEF PushInstall
  <2>5. QED BY <2>2, <2>3, <2>4, PushKeeps
<1>11. ASSUME NEW t \in TaskIds, PushRemoval(t) PROVE PushedOnce'
  <2>1. handler[t].pc = "spawned"
    BY <1>11 DEF PushRemoval
  <2>2. /\ handler'[t].pc = "pushed" /\ \A u \in TaskIds \ {t} : handler'[u] = handler[u]
    BY <1>3, <1>11 DEF PushRemoval, TypeOK
  <2>3. /\ task'[t].status # "absent" /\ \A u \in TaskIds \ {t} : task'[u] = task[u]
    BY <1>11 DEF PushRemoval, Running, TypeOK, Task
  <2>4. queue' = Append(queue, t) /\ UNCHANGED answer
    BY <1>11 DEF PushRemoval
  <2>5. QED BY <2>1, <2>2, <2>3, <2>4, PushKeeps
<1>12. ASSUME NEW t \in TaskIds, InstallRefused(t) \/ RemovalRefused(t) PROVE PushedOnce'
  <2>1. handler[t].pc \in {"spawned", "linked"}
    BY <1>12 DEF InstallRefused, RemovalRefused
  <2>2. handler'[t].pc = "none" /\ \A u \in TaskIds \ {t} : handler'[u] = handler[u]
    BY <1>4, <1>12 DEF InstallRefused, RemovalRefused, TypeOK
  <2>3. task' = [task EXCEPT ![t].status = "failed", ![t].timedOut = FALSE]
    BY <1>12 DEF InstallRefused, RemovalRefused
  <2>4. /\ task'[t].status # "absent" /\ \A u \in TaskIds \ {t} : task'[u] = task[u]
    BY <2>3 DEF TypeOK, Task
  <2>5. queue' \in {queue, Append(queue, t)} /\ UNCHANGED answer
    BY <1>12 DEF InstallRefused, RemovalRefused
  <2>6. CASE queue' = Append(queue, t)
    BY <2>1, <2>2, <2>4, <2>5, <2>6, PushKeeps
  <2>7. CASE queue' = queue
    <3>1. \A u \in TaskIds : task'[u].status = "absent" => task[u].status = "absent"
      BY <2>4
    <3>2. \A u \in TaskIds : handler'[u].pc \in {"none", handler[u].pc}
      BY <2>2
    <3>3. Calm
      BY <2>5, <2>7, <3>1, <3>2 DEF Calm
    <3>4. QED BY <3>3, CalmKeeps
  <2>8. QED BY <2>5, <2>6, <2>7
<1>13. CASE DeviceExecutes
  <2> DEFINE t == Head(queue)
  <2>1. queue # <<>> /\ queue \in Seq(TaskIds) /\ queue' = Tail(queue)
    BY <1>13 DEF DeviceExecutes, TypeOK
  <2>2. t \in TaskIds
    BY <2>1
  <2>3. /\ Distinct(queue') /\ Occurs(t, queue)
        /\ \A u : Occurs(u, queue') <=> Occurs(u, queue) /\ u # t
    BY <2>1, PushedOnceParts, TailOnce
  <2>4. OnQueue(t) /\ \A u : OnQueue(u)' <=> OnQueue(u) /\ u # t
    BY <2>3, PushedOnceParts, PushedOnceParts2
  <2>5. task' = task /\ handler' = handler
    BY <1>13 DEF DeviceExecutes
  <2>6. \A u \in TaskIds \ {t} : answer'[u] = answer[u]
    BY <1>13 DEF DeviceExecutes, TypeOK
  <2> HIDE DEF t
  <2>7. ASSUME NEW u \in TaskIds PROVE Once(u)'
    <3>1. Once(u)
      BY PushedOnceParts
    <3>2. CASE u = t
      <4>1. task[u].status # "absent" /\ handler[u].pc \notin {"spawned", "linked"}
        BY <2>4, <3>1, <3>2 DEF Once
      <4>2. ~OnQueue(u)'
        BY <2>4, <3>2
      <4>3. QED BY <2>5, <4>1, <4>2 DEF Once
    <3>3. CASE u # t
      BY <2>4, <2>5, <2>6, <3>1, <3>3 DEF Once
    <3>4. QED BY <3>2, <3>3
  <2>8. QED BY <2>3, <2>7, PushedOnceParts2
<1>14. CASE DeviceNotNow
  <2> DEFINE t == Head(queue)
  <2>1. queue # <<>> /\ queue \in Seq(TaskIds) /\ queue' = Append(Tail(queue), t)
    BY <1>14 DEF DeviceNotNow, TypeOK
  <2>2. t \in TaskIds /\ Tail(queue) \in Seq(TaskIds)
    BY <2>1
  <2>3. /\ Distinct(Tail(queue)) /\ Occurs(t, queue)
        /\ \A u : Occurs(u, Tail(queue)) <=> Occurs(u, queue) /\ u # t
    BY <2>1, PushedOnceParts, TailOnce
  <2> HIDE DEF t
  <2>4. /\ Distinct(queue')
        /\ \A u : Occurs(u, queue') <=> Occurs(u, Tail(queue)) \/ u = t
    BY <2>1, <2>2, <2>3, AppendOnce
  <2>5. \A u : OnQueue(u)' <=> OnQueue(u)
    BY <2>3, <2>4, PushedOnceParts, PushedOnceParts2
  <2>6. UNCHANGED <<task, handler, answer>>
    BY <1>14 DEF DeviceNotNow
  <2>7. \A u \in TaskIds : Once(u)'
    BY <2>5, <2>6, PushedOnceParts DEF Once
  <2>8. QED BY <2>4, <2>7, PushedOnceParts2
<1>15. ASSUME NEW t \in TaskIds, PurgeTask(t) PROVE PushedOnce'
  <2>1. UNCHANGED <<queue, answer, handler>>
    BY <1>15 DEF PurgeTask
  <2>2. /\ handler[t].pc = "none" /\ answer[t].stage = "none" /\ ~OnQueue(t)
        /\ \A u \in TaskIds \ {t} : task'[u] = task[u]
    BY <1>15 DEF PurgeTask, TypeOK
  <2>3. Distinct(queue') /\ \A u : OnQueue(u)' <=> OnQueue(u)
    BY <2>1, PushedOnceParts, PushedOnceParts2
  <2>4. ASSUME NEW u \in TaskIds PROVE Once(u)'
    <3>1. Once(u)
      BY PushedOnceParts
    <3>2. QED BY <2>1, <2>2, <2>3, <3>1 DEF Once
  <2>5. QED BY <2>3, <2>4, PushedOnceParts2
<1>16. QED BY <1>5, <1>6, <1>7, <1>8, <1>9, <1>10, <1>11, <1>12, <1>13, <1>14, <1>15
           DEF Next, CycleStep, HandlerStep

\* A task puts its command before the device at most once, however retries,
\* restarts of the server and refusals interleave (execute_task, retry_task).
THEOREM PushedOnceAlways == Spec => []PushedOnce
<1>1. Init => PushedOnce
  <2> SUFFICES ASSUME Init PROVE PushedOnce
    OBVIOUS
  <2>1. queue = <<>>
    BY DEF Init
  <2>2. Distinct(queue) /\ \A t : ~Occurs(t, queue)
    BY <2>1 DEF Distinct, Occurs
  <2>3. \A t \in TaskIds : answer[t].stage = "none" /\ handler[t].pc = "none"
    BY DEF Init, NoAnswer, NoHandler
  <2>4. \A t \in TaskIds : ~OnQueue(t)
    BY <2>2, PushedOnceParts
  <2>5. QED BY <2>2, <2>3, <2>4, PushedOnceParts DEF Once
<1>2. QED BY <1>1, TypeCorrect, NextPushedOnce, PTL DEF Spec

-----------------------------------------------------------------------------
(* The coalescer that starts the cycles (ReconcileCoalescer), for any      *)
(* number of workers, saves, requests and failures.  Its inductive         *)
(* invariant adds to the properties that the map names exactly the worker  *)
(* that is alive.                                                          *)

\* _reconcile_workers holds the one worker that has not ended.
MapExact == \A w \in Workers : worker[w] # "none" <=> registered = w

\* A flag left set has a worker registered to pop it, while there is a tenant.
FlagWatched == dirty /\ tenant = "present" => registered # NoWorker

WorkerInv == CoalescerTypeOK /\ MapExact /\ FlagWatched

-----------------------------------------------------------------------------

LEMMA InitWorkers == CoalescerInit => WorkerInv
<1> USE CoalescerAssumption DEF CoalescerAssumption
<1> SUFFICES ASSUME CoalescerInit PROVE WorkerInv
  OBVIOUS
<1>1. CoalescerTypeOK
  BY DEF CoalescerInit, CoalescerTypeOK, WorkerState
<1>2. MapExact
  BY DEF CoalescerInit, MapExact
<1>3. FlagWatched
  BY DEF CoalescerInit, FlagWatched
<1>4. QED BY <1>1, <1>2, <1>3 DEF WorkerInv

\* Popping the flag, from whatever point of its loop the worker does.
LEMMA PopKeepsWorkers ==
    ASSUME WorkerInv, NEW w \in Workers,
           worker[w] # "none", Pop(w), UNCHANGED tenant
    PROVE  /\ dirty' \in BOOLEAN /\ runs' \in Nat
           /\ registered' \in Workers \cup {NoWorker}
           /\ worker' \in [Workers -> WorkerState]
           /\ MapExact' /\ FlagWatched'
<1> USE CoalescerAssumption DEF CoalescerAssumption
<1>1. CASE dirty
  <2>1. dirty' = FALSE
    BY <1>1 DEF Pop
  <2>2. /\ worker' = [worker EXCEPT ![w] = "lookup"]
        /\ runs' = runs + 1
        /\ registered' = registered
    BY <1>1 DEF Pop
  <2>3. worker' \in [Workers -> WorkerState] /\ MapExact'
    BY <2>2 DEF WorkerInv, CoalescerTypeOK, MapExact, WorkerState
  <2>4. FlagWatched'
    BY <2>1 DEF FlagWatched
  <2>5. dirty' \in BOOLEAN
    BY <2>1
  <2>6. runs' \in Nat /\ registered' \in Workers \cup {NoWorker}
    BY <2>2 DEF WorkerInv, CoalescerTypeOK
  <2>7. QED BY <2>3, <2>4, <2>5, <2>6
<1>2. CASE ~dirty
  BY <1>2 DEF WorkerInv, CoalescerTypeOK, MapExact, FlagWatched, WorkerState, Pop
<1>3. QED BY <1>1, <1>2

LEMMA WorkersStay ==
    WorkerInv /\ [CoalescerNext]_coalescerVars => WorkerInv'
<1> SUFFICES ASSUME WorkerInv, [CoalescerNext]_coalescerVars PROVE WorkerInv'
  OBVIOUS
<1> USE CoalescerAssumption
    DEF CoalescerAssumption, WorkerInv, CoalescerTypeOK, MapExact, FlagWatched, WorkerState
<1>1. CASE UNCHANGED coalescerVars
  BY <1>1 DEF coalescerVars
<1>2. CASE SaveConfig
  BY <1>2 DEF SaveConfig
<1>3. CASE RemoveTenant
  BY <1>3 DEF RemoveTenant
<1>4. CASE Request
  <2>1. CASE registered # NoWorker /\ UNCHANGED <<registered, worker>>
    BY <1>4, <2>1 DEF Request
  <2>2. CASE registered = NoWorker
    <3>1. PICK w \in Workers : /\ worker[w] = "none"
                               /\ worker' = [worker EXCEPT ![w] = "created"]
                               /\ registered' = w
      BY <1>4, <2>2 DEF Request
    <3>2. QED BY <1>4, <2>2, <3>1 DEF Request
  <2>3. QED BY <1>4, <2>1, <2>2 DEF Request
<1>5. ASSUME NEW w \in Workers, WorkerBegins(w) PROVE WorkerInv'
  <2>1. worker[w] # "none" /\ Pop(w) /\ UNCHANGED tenant
    BY <1>5 DEF WorkerBegins
  <2>2. QED BY <1>5, <2>1, PopKeepsWorkers DEF WorkerBegins
<1>6. ASSUME NEW w \in Workers, RunStarts(w) PROVE WorkerInv'
  BY <1>6 DEF RunStarts
<1>7. ASSUME NEW w \in Workers, TenantMissing(w) PROVE WorkerInv'
  BY <1>7 DEF TenantMissing
<1>8. ASSUME NEW w \in Workers, RunEnds(w) PROVE WorkerInv'
  <2>1. worker[w] # "none" /\ Pop(w) /\ UNCHANGED tenant
    BY <1>8 DEF RunEnds
  <2>2. applied' \in Nat
    BY <1>8 DEF RunEnds, Later
  <2>3. QED BY <1>8, <2>1, <2>2, PopKeepsWorkers DEF RunEnds
<1>9. ASSUME NEW w \in Workers, RoundRaises(w) PROVE WorkerInv'
  <2>1. worker[w] # "none" /\ Pop(w) /\ UNCHANGED tenant
    BY <1>9 DEF RoundRaises
  <2>2. QED BY <1>9, <2>1, PopKeepsWorkers DEF RoundRaises, Fail
<1>10. CASE SyncStarts
  BY <1>10 DEF SyncStarts
<1>11. CASE SyncEnds
  BY <1>11 DEF SyncEnds, Later, Fail
<1>12. CASE Restart
  <2>1. CoalescerTypeOK'
    <3>1. dirty' \in BOOLEAN
      BY <1>12 DEF Restart
    <3>2. mishaps' \in Nat
      BY <1>12 DEF Restart, Fail
    <3>3. worker' \in [Workers -> WorkerState]
      BY <1>12 DEF Restart
    <3>4. QED BY <1>12, <3>1, <3>2, <3>3 DEF Restart
  <2>2. MapExact'
    BY <1>12 DEF Restart
  <2>3. FlagWatched'
    <3>1. dirty' = FALSE
      BY <1>12 DEF Restart
    <3>2. QED BY <3>1
  <2>4. QED BY <2>1, <2>2, <2>3
<1>13. QED
  BY <1>1, <1>2, <1>3, <1>4, <1>5, <1>6, <1>7, <1>8, <1>9, <1>10, <1>11, <1>12
  DEF CoalescerNext, WorkerStep

LEMMA WorkersAlways == CoalescerSpec => []WorkerInv
<1>1. CoalescerInit => WorkerInv
  BY InitWorkers
<1>2. WorkerInv /\ [CoalescerNext]_coalescerVars => WorkerInv'
  BY WorkersStay
<1>3. QED BY <1>1, <1>2, PTL DEF CoalescerSpec

-----------------------------------------------------------------------------

\* The variables keep their types, whatever is requested, raised or restarted.
THEOREM CoalescerTypeCorrect ==
    CoalescerSpec => []CoalescerTypeOK
<1>1. WorkerInv => CoalescerTypeOK
  BY DEF WorkerInv
<1>2. CoalescerSpec => []WorkerInv
  BY WorkersAlways
<1>3. QED BY <1>1, <1>2, PTL

\* One worker per tenant runs at most one reconcile at a time.
THEOREM OneRunAlways ==
    CoalescerSpec => []OneRun
<1>1. WorkerInv => OneRun
  BY DEF WorkerInv, MapExact, OneRun, Busy
<1>2. CoalescerSpec => []WorkerInv
  BY WorkersAlways
<1>3. QED BY <1>1, <1>2, PTL

\* A flag that is set has a registered, living worker that will pop it.
THEOREM RequestsCarried ==
    CoalescerSpec => []RequestCarried
<1>1. WorkerInv => RequestCarried
  BY DEF WorkerInv, CoalescerTypeOK, MapExact, FlagWatched, RequestCarried
<1>2. CoalescerSpec => []WorkerInv
  BY WorkersAlways
<1>3. QED BY <1>1, <1>2, PTL

\* Reactive attempts never outnumber the requests behind them.
THEOREM NoSpuriousRuns ==
    CoalescerSpec => []NoSpuriousRun
<1>1. CoalescerInit => NoSpuriousRun
  BY DEF CoalescerInit, NoSpuriousRun
<1>2. CoalescerTypeOK /\ NoSpuriousRun /\ [CoalescerNext]_coalescerVars => NoSpuriousRun'
  <2> SUFFICES ASSUME CoalescerTypeOK, NoSpuriousRun, [CoalescerNext]_coalescerVars
               PROVE  NoSpuriousRun'
    OBVIOUS
  <2> USE DEF CoalescerTypeOK, NoSpuriousRun
  <2>1. ASSUME NEW w \in Workers, Pop(w), UNCHANGED requests PROVE NoSpuriousRun'
    BY <2>1 DEF Pop
  <2>2. ASSUME NEW w \in Workers, WorkerStep(w) PROVE NoSpuriousRun'
    BY <2>1, <2>2 DEF WorkerStep, WorkerBegins, RunStarts, TenantMissing, RunEnds
  <2>3. ASSUME NEW w \in Workers, RoundRaises(w) PROVE NoSpuriousRun'
    BY <2>1, <2>3 DEF RoundRaises
  <2>4. CASE Request
    BY <2>4 DEF Request
  <2>5. CASE SaveConfig \/ RemoveTenant \/ SyncStarts \/ SyncEnds \/ UNCHANGED coalescerVars
    BY <2>5 DEF SaveConfig, RemoveTenant, SyncStarts, SyncEnds, coalescerVars
  <2>6. CASE Restart
    BY <2>6 DEF Restart
  <2>7. QED BY <2>2, <2>3, <2>4, <2>5, <2>6 DEF CoalescerNext
<1>3. CoalescerSpec => []CoalescerTypeOK
  BY CoalescerTypeCorrect
<1>4. QED BY <1>1, <1>2, <1>3, PTL DEF CoalescerSpec

-----------------------------------------------------------------------------
(* The workers and their map do what SingleFlight says, step by step. *)

\* SingleFlight's busy, as the refinement mapping gives it.
SomeBusy == \E w \in Workers : Busy(w)

\* Popping is Take, Done or Renew: a worker at the head of its loop has no other
\* worker busy beside it.
LEMMA PopRefines ==
    ASSUME WorkerInv, NEW w \in Workers, worker[w] # "none", Pop(w), UNCHANGED tenant
    PROVE  [Promise!Next]_(Promise!vars)
<1>1. \A v \in Workers : worker[v] # "none" => v = w
  BY DEF WorkerInv, MapExact
<1>2. SomeBusy <=> Busy(w)
  BY <1>1 DEF SomeBusy, Busy
<1>3. CASE dirty
  <2>1. dirty' = FALSE
    BY <1>3 DEF Pop
  <2>2. worker' = [worker EXCEPT ![w] = "lookup"]
    BY <1>3 DEF Pop
  <2>3. worker'[w] = "lookup"
    BY <2>2 DEF WorkerInv, CoalescerTypeOK
  <2>4. SomeBusy'
    BY <2>3 DEF SomeBusy, Busy
  <2>5. CASE SomeBusy
    <3>1. Promise!Renew
      BY <1>3, <2>1, <2>4, <2>5 DEF Promise!Renew, SomeBusy
    <3>2. QED BY <3>1 DEF Promise!Next
  <2>6. CASE ~SomeBusy
    <3>1. Promise!Take
      BY <1>3, <2>1, <2>4, <2>6 DEF Promise!Take, SomeBusy
    <3>2. QED BY <3>1 DEF Promise!Next
  <2>7. QED BY <2>5, <2>6
<1>4. CASE ~dirty
  <2>1. worker' = [worker EXCEPT ![w] = "none"] /\ dirty' = dirty
    BY <1>4 DEF Pop
  <2>2. ~SomeBusy'
    BY <1>1, <2>1 DEF SomeBusy, Busy, WorkerInv, CoalescerTypeOK
  <2>3. CASE SomeBusy
    <3>1. Promise!Done
      BY <1>4, <2>1, <2>2, <2>3 DEF Promise!Done, SomeBusy
    <3>2. QED BY <3>1 DEF Promise!Next
  <2>4. CASE ~SomeBusy
    <3>1. UNCHANGED Promise!vars
      BY <2>1, <2>2, <2>4 DEF Promise!vars, SomeBusy
    <3>2. QED BY <3>1
  <2>5. QED BY <2>3, <2>4
<1>5. QED BY <1>3, <1>4

LEMMA CoalescerStarts == CoalescerInit => Promise!Init
<1> SUFFICES ASSUME CoalescerInit PROVE Promise!Init
  OBVIOUS
<1>1. ~(\E w \in Workers : Busy(w))
  BY DEF CoalescerInit, Busy
<1>2. dirty = FALSE /\ ~(tenant = "gone")
  BY DEF CoalescerInit
<1>3. QED BY <1>1, <1>2 DEF Promise!Init

\* A step that moves neither the flag, the tenant nor any worker is a stutter.
LEMMA QuietStep ==
    ASSUME UNCHANGED <<dirty, worker, tenant>>
    PROVE  UNCHANGED Promise!vars
BY DEF Promise!vars, Busy

LEMMA CoalescerStep ==
    WorkerInv /\ [CoalescerNext]_coalescerVars => [Promise!Next]_(Promise!vars)
<1> SUFFICES ASSUME WorkerInv, [CoalescerNext]_coalescerVars PROVE [Promise!Next]_(Promise!vars)
  OBVIOUS
<1>1. CASE SaveConfig \/ SyncStarts \/ SyncEnds \/ UNCHANGED coalescerVars
  BY <1>1, QuietStep DEF SaveConfig, SyncStarts, SyncEnds, coalescerVars
<1>2. CASE RemoveTenant
  <2>1. /\ UNCHANGED <<dirty, worker>>
        /\ ~(tenant = "gone") /\ tenant' = "gone"
    BY <1>2 DEF RemoveTenant
  <2>2. Promise!Close
    BY <2>1 DEF Promise!Close, Busy
  <2>3. QED BY <2>2 DEF Promise!Next
<1>3. CASE Request
  <2>1. dirty' = TRUE /\ UNCHANGED tenant
    BY <1>3 DEF Request
  <2>2. \A w \in Workers : Busy(w)' <=> Busy(w)
    <3>1. CASE UNCHANGED worker
      BY <3>1 DEF Busy
    <3>2. ASSUME NEW v \in Workers, worker[v] = "none",
                 worker' = [worker EXCEPT ![v] = "created"]
          PROVE  \A w \in Workers : Busy(w)' <=> Busy(w)
      BY <3>2 DEF Busy, WorkerInv, CoalescerTypeOK
    <3>3. QED BY <1>3, <3>1, <3>2 DEF Request
  <2>3. Promise!Ask
    BY <2>1, <2>2 DEF Promise!Ask
  <2>4. QED BY <2>3 DEF Promise!Next
<1>4. ASSUME NEW w \in Workers,
             WorkerBegins(w) \/ RunEnds(w) \/ RoundRaises(w)
      PROVE  [Promise!Next]_(Promise!vars)
  <2>1. worker[w] # "none" /\ Pop(w) /\ UNCHANGED tenant
    BY <1>4 DEF WorkerBegins, RunEnds, RoundRaises
  <2>2. QED BY <2>1, PopRefines
<1>5. ASSUME NEW w \in Workers, RunStarts(w) PROVE [Promise!Next]_(Promise!vars)
  <2>1. /\ worker[w] = "lookup" /\ worker' = [worker EXCEPT ![w] = "running"]
        /\ UNCHANGED <<dirty, tenant>>
    BY <1>5 DEF RunStarts
  <2>2. \A v \in Workers : Busy(v)' <=> Busy(v)
    BY <2>1 DEF Busy, WorkerInv, CoalescerTypeOK
  <2>3. UNCHANGED Promise!vars
    BY <2>1, <2>2 DEF Promise!vars
  <2>4. QED BY <2>3
<1>6. ASSUME NEW w \in Workers, TenantMissing(w) PROVE [Promise!Next]_(Promise!vars)
  <2>1. /\ worker[w] = "lookup" /\ worker' = [worker EXCEPT ![w] = "none"]
        /\ tenant = "gone" /\ UNCHANGED <<dirty, tenant>>
    BY <1>6 DEF TenantMissing
  <2>2. \E v \in Workers : Busy(v)
    BY <2>1 DEF Busy
  <2>3. ~(\E v \in Workers : Busy(v)')
    BY <2>1 DEF Busy, WorkerInv, MapExact, CoalescerTypeOK
  <2>4. Promise!Leave
    BY <2>1, <2>2, <2>3 DEF Promise!Leave
  <2>5. QED BY <2>4 DEF Promise!Next
<1>7. CASE Restart
  <2>1. dirty' = FALSE /\ UNCHANGED tenant
    BY <1>7 DEF Restart
  <2>2. ~(\E v \in Workers : Busy(v)')
    BY <1>7 DEF Restart, Busy
  <2>3. Promise!Reset
    BY <2>1, <2>2 DEF Promise!Reset
  <2>4. QED BY <2>3 DEF Promise!Next
<1>8. QED
  BY <1>1, <1>2, <1>3, <1>4, <1>5, <1>6, <1>7 DEF CoalescerNext, WorkerStep

\* request_reconcile's flag, map and workers implement SingleFlight (its safety
\* part; that pending requests are taken up eventually is left to TLC).
THEOREM CoalescerRefines ==
    CoalescerSpec => Promise!Init /\ [][Promise!Next]_(Promise!vars)
<1>1. CoalescerSpec => []WorkerInv
  BY WorkersAlways
<1>2. QED BY <1>1, CoalescerStarts, CoalescerStep, PTL DEF CoalescerSpec
=============================================================================
