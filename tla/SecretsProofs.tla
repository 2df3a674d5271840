--------------------------- MODULE SecretsProofs ---------------------------
(* Proofs about Secrets, for any passwords, any number of commands and any  *)
(* number of disturbances: the reveal of a stored password stays on record; *)
(* the password the Mac answers to is held; one shown as settled opens it.  *)
EXTENDS Secrets, TLAPS, SequenceTheorems

----------------------------------------------------------------------------
(* Types, and the sequences of tasks and commands.                        *)

Words == Passwords \cup {NoPassword}
Anything == Words \cup {Foreign}
Statuses == {"pending", "running", "completed", "failed", "cancelled", "timed out"}
Ended == {"completed", "failed"}
Said == {"changed", "error", "kept"}
TaskKinds == {"lock", "account"}
RowSet == [value : Words, pending : Words, pendingTask : Nat, unconfirmed : Nat,
           revealed : BOOLEAN]
TaskSet == [kind : TaskKinds, new : Passwords, current : Anything, status : Statuses,
            sent : BOOLEAN, queued : BOOLEAN, changed : BOOLEAN]
ChangeSet == [pc : {"idle", "begin", "send", "mark", "abort"}, kind : TaskKinds,
              new : Words, current : Anything, rotating : BOOLEAN, row : RowSet,
              task : Nat]
MacSet == [lock : Anything, account : Words, bypass : Passwords, awaiting : BOOLEAN]

Shapes ==
    /\ secret \in [Kinds -> RowSet]
    /\ alert \in [Kinds -> BOOLEAN]
    /\ tasks \in Seq(TaskSet)
    /\ change \in [Callers -> ChangeSet]
    /\ \A c \in Callers : change[c].pc # "idle" => change[c].new \in Passwords
    /\ \A c \in Callers : change[c].pc \in {"send", "mark", "abort"} => change[c].task \in DOMAIN tasks
    /\ viewing \in [Kinds -> Words]
    /\ queue \in Seq(DOMAIN tasks)
    /\ air \subseteq (DOMAIN tasks) \X Said
    /\ acks \subseteq DOMAIN tasks
    /\ mac \in MacSet
    /\ seen \in [Kinds -> SUBSET Passwords]

----------------------------------------------------------------------------
LEMMA Blanks == NoRow \in RowSet /\ Idle \in ChangeSet /\ NoPassword \notin Passwords
BY SecretsAssumption DEF NoRow, RowSet, Words, NoTask, Idle, ChangeSet, Anything, TaskKinds

LEMMA Domain == ASSUME NEW S, NEW s \in Seq(S) PROVE DOMAIN s = 1 .. Len(s) /\ Len(s) \in Nat
                                                     /\ \A i \in DOMAIN s : s[i] \in S
BY LenProperties, ElementOfSeq

LEMMA Wider ==
    ASSUME NEW S, NEW T, S \subseteq T, NEW s \in Seq(S) PROVE s \in Seq(T)
BY SeqMonotonic

(* A new task, and one that changes.                                        *)
LEMMA Appended ==
    ASSUME NEW S, NEW s \in Seq(S), NEW e \in S
    PROVE  LET r == Append(s, e)
           IN  /\ r \in Seq(S) /\ Len(r) = Len(s) + 1
               /\ DOMAIN r = DOMAIN s \cup {Len(s) + 1}
               /\ Len(s) + 1 \notin DOMAIN s
               /\ \A i \in DOMAIN s : r[i] = s[i]
               /\ r[Len(s) + 1] = e
<1> DEFINE r == Append(s, e)
<1>1. /\ r \in Seq(S) /\ Len(r) = Len(s) + 1 /\ r[Len(s) + 1] = e
      /\ \A i \in 1 .. Len(s) : r[i] = s[i]
  BY AppendProperties
<1>2. DOMAIN r = 1 .. Len(r) /\ DOMAIN s = 1 .. Len(s) /\ Len(s) \in Nat
  BY <1>1, LenProperties
<1> HIDE DEF r
<1>3. QED BY <1>1, <1>2 DEF r

LEMMA Mapped ==
    ASSUME NEW S, NEW s \in Seq(S), NEW f, f \in [DOMAIN s -> S]
    PROVE  f \in Seq(S) /\ Len(f) = Len(s) /\ DOMAIN f = DOMAIN s
<1>1. DOMAIN s = 1 .. Len(s) /\ Len(s) \in Nat
  BY LenProperties
<1>2. f \in [1 .. Len(s) -> S]
  BY <1>1
<1>3. f \in Seq(S)
  BY <1>1, <1>2, SeqDef
<1>4. DOMAIN f = 1 .. Len(f) /\ Len(f) \in Nat
  BY <1>3, LenProperties
<1>5. QED BY <1>1, <1>2, <1>3, <1>4

LEMMA TailOf ==
    ASSUME NEW S, NEW s \in Seq(S), s # <<>>
    PROVE  /\ Head(s) \in S /\ Head(s) = s[1] /\ 1 \in DOMAIN s
           /\ Tail(s) \in Seq(S) /\ Len(Tail(s)) = Len(s) - 1
           /\ \A i \in DOMAIN Tail(s) : i + 1 \in DOMAIN s /\ Tail(s)[i] = s[i + 1]
           /\ \A j \in DOMAIN s : j = 1 \/ (j - 1 \in DOMAIN Tail(s) /\ Tail(s)[j - 1] = s[j])
<1>1. /\ Head(s) \in S /\ Tail(s) \in Seq(S) /\ Len(Tail(s)) = Len(s) - 1
      /\ \A i \in 1 .. Len(Tail(s)) : Tail(s)[i] = s[i + 1]
  BY HeadTailProperties
<1>2. DOMAIN s = 1 .. Len(s) /\ Len(s) \in Nat /\ DOMAIN Tail(s) = 1 .. Len(Tail(s))
  BY <1>1, LenProperties
<1>3. Len(s) # 0
  BY EmptySeq
<1>4. Head(s) = s[1]
  OBVIOUS
<1>5. QED BY <1>1, <1>2, <1>3, <1>4

----------------------------------------------------------------------------
(* The types are kept: a change is planned and begun,                     *)

(* What the operators of the rows return.                                   *)
LEMMA RowsAre ==
    ASSUME NEW r \in RowSet
    PROVE  /\ Cleared(r) \in RowSet /\ Confirmed(r) \in RowSet
           /\ \A t : Settle(r, t) \in RowSet
           /\ \A b \in BOOLEAN : [r EXCEPT !.revealed = b] \in RowSet
<1>1. Cleared(r) \in RowSet /\ Confirmed(r) \in RowSet
  BY DEF Cleared, Confirmed, RowSet, NoTask, Words
<1>2. [NoRow EXCEPT !.value = r.pending] \in RowSet
  BY Blanks DEF RowSet
<1>3. \A t : Settle(r, t) \in {r, Cleared(r), Confirmed(r), [NoRow EXCEPT !.value = r.pending]}
  BY DEF Settle
<1>4. \A b \in BOOLEAN : [r EXCEPT !.revealed = b] \in RowSet
  BY DEF RowSet
<1>5. QED BY <1>1, <1>2, <1>3, <1>4

LEMMA EscrowShapes ==
    ASSUME Shapes, NEW k \in Kinds, NEW w \in Passwords, NEW u \in Nat, Escrow(k, w, u)
    PROVE  /\ secret' \in [Kinds -> RowSet] /\ alert' \in [Kinds -> BOOLEAN]
           /\ seen' \in [Kinds -> SUBSET Passwords]
<1> DEFINE same == k = "bypass" /\ secret[k].value = w
           r == [NoRow EXCEPT !.value = w, !.unconfirmed = u,
                              !.revealed = same /\ secret[k].revealed]
<1>1. secret \in [Kinds -> RowSet] /\ alert \in [Kinds -> BOOLEAN]
      /\ seen \in [Kinds -> SUBSET Passwords]
  BY DEF Shapes
<1>2. same \in BOOLEAN /\ secret[k].revealed \in BOOLEAN
  BY <1>1 DEF RowSet
<1>3. r \in RowSet
  BY <1>2, Blanks DEF RowSet, NoRow, Words
<1>4. secret' = [secret EXCEPT ![k] = r]
  BY DEF Escrow
<1> HIDE DEF r
<1>5. secret' \in [Kinds -> RowSet]
  BY <1>1, <1>3, <1>4
<1>6. alert' = [alert EXCEPT ![k] = same /\ @]
  BY DEF Escrow
<1>7. alert' \in [Kinds -> BOOLEAN]
  BY <1>1, <1>2, <1>6
<1>8. seen' \in [Kinds -> SUBSET Passwords]
  BY <1>1 DEF Escrow
<1>9. QED BY <1>5, <1>7, <1>8

LEMMA EditTask ==
    ASSUME Shapes, NEW t \in DOMAIN tasks, NEW e \in TaskSet
    PROVE  /\ [tasks EXCEPT ![t] = e] \in Seq(TaskSet)
           /\ DOMAIN [tasks EXCEPT ![t] = e] = DOMAIN tasks
           /\ Len([tasks EXCEPT ![t] = e]) = Len(tasks)
<1>1. tasks \in Seq(TaskSet)
  BY DEF Shapes
<1>2. [tasks EXCEPT ![t] = e] \in [DOMAIN tasks -> TaskSet]
  BY <1>1, Domain
<1>3. QED BY <1>1, <1>2, Mapped

(* Each field of a task that a handler writes.                              *)
LEMMA TaskWrites ==
    ASSUME Shapes, NEW t \in DOMAIN tasks
    PROVE  /\ tasks[t] \in TaskSet /\ tasks \in Seq(TaskSet)
           /\ DOMAIN tasks = 1 .. Len(tasks) /\ Len(tasks) \in Nat /\ t \in Nat
           /\ \A s \in Statuses, b \in BOOLEAN :
                /\ [tasks[t] EXCEPT !.status = s] \in TaskSet
                /\ [tasks[t] EXCEPT !.status = s, !.sent = b] \in TaskSet
                /\ [tasks[t] EXCEPT !.status = s, !.changed = b] \in TaskSet
           /\ [tasks[t] EXCEPT !.queued = TRUE] \in TaskSet
<1>1. tasks[t] \in TaskSet /\ tasks \in Seq(TaskSet)
  BY Domain DEF Shapes
<1>2. DOMAIN tasks = 1 .. Len(tasks) /\ Len(tasks) \in Nat /\ t \in Nat
  BY <1>1, Domain
<1>3. ASSUME NEW e \in TaskSet, NEW s \in Statuses, NEW b \in BOOLEAN
      PROVE  /\ [e EXCEPT !.status = s] \in TaskSet
             /\ [e EXCEPT !.status = s, !.sent = b] \in TaskSet
             /\ [e EXCEPT !.status = s, !.changed = b] \in TaskSet
             /\ [e EXCEPT !.queued = TRUE] \in TaskSet
  BY DEF TaskSet
<1>4. [tasks[t] EXCEPT !.queued = TRUE] \in TaskSet
  BY <1>1 DEF TaskSet
<1>5. QED BY <1>1, <1>2, <1>3, <1>4

LEMMA Written ==
    ASSUME Shapes, NEW t \in DOMAIN tasks, NEW e \in TaskSet,
           tasks' = [tasks EXCEPT ![t] = e]
    PROVE  /\ tasks' \in Seq(TaskSet) /\ DOMAIN tasks' = DOMAIN tasks /\ Len(tasks') = Len(tasks)
           /\ tasks'[t] = e /\ \A s \in DOMAIN tasks : s # t => tasks'[s] = tasks[s]
BY EditTask

LEMMA ChangeIs ==
    ASSUME Shapes, NEW c \in Callers
    PROVE  /\ change[c] \in ChangeSet
           /\ change[c].kind \in Kinds /\ change[c].row \in RowSet
           /\ change[c].kind = "lock" \/ change[c].kind = "account"
BY DEF Shapes, ChangeSet, TaskKinds, Kinds

----------------------------------------------------------------------------
LEMMA PlanLockShapes ==
    ASSUME Shapes, NEW c \in Callers, NEW new \in Passwords,
           NEW supplied \in Anything, NEW rotate, PlanLock(c, new, supplied, rotate)
    PROVE  Shapes'
<1> DEFINE ch == [Idle EXCEPT !.pc = "begin", !.kind = "lock", !.new = new,
                        !.current = IF supplied # NoPassword THEN supplied
                                    ELSE secret["lock"].value,
                        !.rotating = Stored("lock"), !.row = secret["lock"]]
<1>1. secret["lock"] \in RowSet
  BY DEF Shapes, Kinds
<1>2. secret["lock"].value \in Anything /\ Stored("lock") \in BOOLEAN
  BY <1>1 DEF RowSet, Anything, Stored
<1>3. ch \in ChangeSet /\ ch.new = new /\ ch.pc = "begin"
  BY <1>1, <1>2, Blanks DEF ChangeSet, TaskKinds, Words, Idle, NoTask
<1>4. change' = [change EXCEPT ![c] = ch]
  BY DEF PlanLock
<1> HIDE DEF ch
<1>5. /\ change' \in [Callers -> ChangeSet]
      /\ \A d \in Callers : change'[d].pc # "idle" => change'[d].new \in Passwords
      /\ \A d \in Callers : change'[d].pc \in {"send", "mark", "abort"}
                              => change'[d].task \in DOMAIN tasks
  BY <1>3, <1>4 DEF Shapes
<1>6. QED BY <1>5 DEF Shapes, PlanLock, rows

LEMMA PlanAccountShapes ==
    ASSUME Shapes, NEW c \in Callers, NEW new \in Passwords, PlanAccount(c, new)
    PROVE  Shapes'
<1> DEFINE ch == [Idle EXCEPT !.pc = "begin", !.kind = "account", !.new = new,
                        !.row = secret["account"]]
<1>1. secret["account"] \in RowSet
  BY DEF Shapes, Kinds
<1>3. ch \in ChangeSet /\ ch.new = new /\ ch.pc = "begin"
  BY <1>1, Blanks DEF ChangeSet, TaskKinds, Words, Idle, NoTask
<1>4. change' = [change EXCEPT ![c] = ch]
  BY DEF PlanAccount
<1> HIDE DEF ch
<1>5. /\ change' \in [Callers -> ChangeSet]
      /\ \A d \in Callers : change'[d].pc # "idle" => change'[d].new \in Passwords
      /\ \A d \in Callers : change'[d].pc \in {"send", "mark", "abort"}
                              => change'[d].task \in DOMAIN tasks
  BY <1>3, <1>4 DEF Shapes
<1>6. QED BY <1>5 DEF Shapes, PlanAccount, rows

(* The new task of a change, and the caller that has it.                    *)
NewTask(ch) == [kind |-> ch.kind, new |-> ch.new, current |-> ch.current,
                status |-> "pending", sent |-> FALSE, queued |-> FALSE,
                changed |-> FALSE]
LEMMA Begun ==
    ASSUME Shapes, NEW c \in Callers, Begin(c)
    PROVE  /\ tasks' \in Seq(TaskSet) /\ Len(tasks') = Len(tasks) + 1
           /\ DOMAIN tasks' = DOMAIN tasks \cup {Len(tasks) + 1}
           /\ Len(tasks) + 1 \notin DOMAIN tasks /\ Len(tasks) \in Nat
           /\ DOMAIN tasks = 1 .. Len(tasks)
           /\ \A t \in DOMAIN tasks : tasks'[t] = tasks[t]
           /\ tasks'[Len(tasks) + 1] = NewTask(change[c])
<1>1. change[c].new \in Passwords /\ change[c] \in ChangeSet
  BY DEF Shapes, Begin
<1>2. NewTask(change[c]) \in TaskSet
  BY <1>1 DEF NewTask, TaskSet, ChangeSet, Statuses
<1>3. tasks' = Append(tasks, NewTask(change[c]))
  BY DEF Begin, NewTask
<1>4. tasks \in Seq(TaskSet)
  BY DEF Shapes
<1>5. QED BY <1>2, <1>3, <1>4, Appended, Domain

LEMMA BeginShapes == ASSUME Shapes, NEW c \in Callers, Begin(c) PROVE Shapes'
<1> DEFINE ch == change[c]
           t == Len(tasks) + 1
<1>1. /\ ch \in ChangeSet /\ ch.new \in Passwords /\ ch.kind \in Kinds /\ ch.row \in RowSet
  BY ChangeIs DEF Shapes, Begin
<1>2. tasks' \in Seq(TaskSet) /\ DOMAIN tasks \subseteq DOMAIN tasks' /\ t \in DOMAIN tasks'
      /\ t \in Nat
  BY Begun
<1>3. secret' \in [Kinds -> RowSet] /\ alert' \in [Kinds -> BOOLEAN]
      /\ seen' \in [Kinds -> SUBSET Passwords]
  <2>1. CASE ch.rotating
    <3> DEFINE r == [secret["lock"] EXCEPT !.pending = ch.new, !.pendingTask = t,
                                           !.unconfirmed = ch.row.unconfirmed]
    <3>1. secret["lock"] \in RowSet /\ secret \in [Kinds -> RowSet]
      BY DEF Shapes, Kinds
    <3>2. r \in RowSet
      BY <1>1, <1>2, <3>1 DEF RowSet, Words
    <3>3. secret' = [secret EXCEPT !["lock"] = r]
      BY <2>1, <3>1 DEF Begin
    <3> HIDE DEF r
    <3>4. secret' \in [Kinds -> RowSet]
      BY <3>1, <3>2, <3>3
    <3>5. QED BY <2>1, <3>4 DEF Begin, Shapes
  <2>2. CASE ~ch.rotating
    <3>1. Escrow(ch.kind, ch.new, t)
      BY <2>2 DEF Begin
    <3>2. QED BY <1>1, <1>2, <3>1, EscrowShapes
  <2>3. QED BY <2>1, <2>2
<1>4. /\ change' \in [Callers -> ChangeSet]
      /\ \A d \in Callers : change'[d].pc # "idle" => change'[d].new \in Passwords
      /\ \A d \in Callers : change'[d].pc \in {"send", "mark", "abort"}
                              => change'[d].task \in DOMAIN tasks'
  <2> DEFINE e == [ch EXCEPT !.pc = "send", !.task = t, !.row = secret[ch.kind]]
  <2>1. secret[ch.kind] \in RowSet
    BY <1>1 DEF Shapes
  <2>2. e \in ChangeSet /\ e.new = ch.new /\ e.task = t
    BY <1>1, <1>2, <2>1 DEF ChangeSet
  <2>3. change' = [change EXCEPT ![c] = e]
    BY DEF Begin, Shapes
  <2> HIDE DEF e
  <2>4. QED BY <1>1, <1>2, <2>2, <2>3 DEF Shapes
<1>5. queue' \in Seq(DOMAIN tasks') /\ air' \subseteq (DOMAIN tasks') \X Said
      /\ acks' \subseteq DOMAIN tasks'
  <2>1. queue' = queue /\ air' = air /\ acks' = acks
    BY DEF Begin
  <2>2. queue \in Seq(DOMAIN tasks')
    BY <1>2, Wider DEF Shapes
  <2>3. QED BY <1>2, <2>1, <2>2 DEF Shapes
<1>6. viewing' = viewing /\ mac' = mac
  BY DEF Begin
<1>7. QED BY <1>2, <1>3, <1>4, <1>5, <1>6 DEF Shapes

----------------------------------------------------------------------------
(* sent, marked or aborted,                                               *)

(* A caller goes on to another step of its change, or is done.              *)
Steps == {"idle", "begin", "send", "mark", "abort"}
LEMMA GoesTo ==
    ASSUME Shapes, NEW c \in Callers, NEW p \in {"mark", "abort"}, change[c].pc = "send",
           change' = [change EXCEPT ![c].pc = p]
    PROVE  /\ change' \in [Callers -> ChangeSet]
           /\ change'[c] = [change[c] EXCEPT !.pc = p]
           /\ \A d \in Callers : d # c => change'[d] = change[d]
           /\ \A d \in Callers : change'[d].pc # "idle" => change'[d].new \in Passwords
           /\ \A d \in Callers : change'[d].pc \in {"send", "mark", "abort"}
                                   => change'[d].task \in DOMAIN tasks
<1>1. change \in [Callers -> ChangeSet]
  BY DEF Shapes
<1>2. change'[c] = [change[c] EXCEPT !.pc = p] /\ \A d \in Callers : d # c => change'[d] = change[d]
  BY <1>1
<1>3. [change[c] EXCEPT !.pc = p] \in ChangeSet
  BY <1>1 DEF ChangeSet
<1>4. change' \in [Callers -> ChangeSet]
  BY <1>1, <1>2, <1>3
<1>5. change[c].new \in Passwords /\ change[c].task \in DOMAIN tasks
  BY DEF Shapes
<1>6. change'[c].new = change[c].new /\ change'[c].task = change[c].task
  BY <1>1, <1>2 DEF ChangeSet
<1>7. QED BY <1>2, <1>4, <1>5, <1>6 DEF Shapes

LEMMA IsDone ==
    ASSUME Shapes, NEW c \in Callers, change' = [change EXCEPT ![c] = Idle]
    PROVE  /\ change' \in [Callers -> ChangeSet]
           /\ change'[c] = Idle
           /\ \A d \in Callers : d # c => change'[d] = change[d]
           /\ \A d \in Callers : change'[d].pc # "idle" => change'[d].new \in Passwords
           /\ \A d \in Callers : change'[d].pc \in {"send", "mark", "abort"}
                                   => change'[d].task \in DOMAIN tasks
<1>1. change \in [Callers -> ChangeSet]
  BY DEF Shapes
<1>2. change'[c] = Idle /\ \A d \in Callers : d # c => change'[d] = change[d]
  BY <1>1
<1>3. Idle \in ChangeSet /\ Idle.pc = "idle"
  BY Blanks DEF Idle
<1>4. QED BY <1>1, <1>2, <1>3 DEF Shapes

LEMMA Enqueued ==
    ASSUME Shapes, NEW t \in DOMAIN tasks, Enqueue(t)
    PROVE  /\ queue' \in Seq(DOMAIN tasks) /\ tasks' \in Seq(TaskSet)
           /\ DOMAIN tasks' = DOMAIN tasks /\ Len(tasks') = Len(tasks)
           /\ tasks'[t] = [tasks[t] EXCEPT !.queued = TRUE]
           /\ \A s \in DOMAIN tasks : s # t => tasks'[s] = tasks[s]
           /\ DOMAIN queue' = DOMAIN queue \cup {Len(queue) + 1}
           /\ Len(queue) + 1 \notin DOMAIN queue /\ DOMAIN queue = 1 .. Len(queue)
           /\ Len(queue) \in Nat
           /\ \A i \in DOMAIN queue : queue'[i] = queue[i]
           /\ queue'[Len(queue) + 1] = t
<1>1. [tasks[t] EXCEPT !.queued = TRUE] \in TaskSet /\ tasks \in Seq(TaskSet)
  BY TaskWrites
<1>2. tasks' = [tasks EXCEPT ![t] = [tasks[t] EXCEPT !.queued = TRUE]]
  BY <1>1, Domain DEF Enqueue
<1>3. /\ tasks' \in Seq(TaskSet) /\ DOMAIN tasks' = DOMAIN tasks /\ Len(tasks') = Len(tasks)
      /\ tasks'[t] = [tasks[t] EXCEPT !.queued = TRUE]
      /\ \A s \in DOMAIN tasks : s # t => tasks'[s] = tasks[s]
  BY <1>1, <1>2, Written
<1>4. queue \in Seq(DOMAIN tasks) /\ queue' = Append(queue, t)
  BY DEF Shapes, Enqueue
<1>5. /\ queue' \in Seq(DOMAIN tasks) /\ DOMAIN queue' = DOMAIN queue \cup {Len(queue) + 1}
      /\ Len(queue) + 1 \notin DOMAIN queue
      /\ \A i \in DOMAIN queue : queue'[i] = queue[i]
      /\ queue'[Len(queue) + 1] = t
  BY <1>4, Appended
<1>6. DOMAIN queue = 1 .. Len(queue) /\ Len(queue) \in Nat
  BY <1>4, Domain
<1>7. QED BY <1>3, <1>5, <1>6

LEMMA SendShapes == ASSUME Shapes, NEW c \in Callers, Send(c) PROVE Shapes'
<1> DEFINE t == change[c].task
<1>1. change[c].pc = "send" /\ t \in DOMAIN tasks
  BY DEF Send, Shapes
<1>2. /\ change' \in [Callers -> ChangeSet]
      /\ \A d \in Callers : change'[d].pc # "idle" => change'[d].new \in Passwords
      /\ \A d \in Callers : change'[d].pc \in {"send", "mark", "abort"}
                              => change'[d].task \in DOMAIN tasks
  <2>1. \E p \in {"mark", "abort"} : change' = [change EXCEPT ![c].pc = p]
    BY DEF Send, Sent, NotSent
  <2>2. QED BY <1>1, <2>1, GoesTo
<1>3. queue' \in Seq(DOMAIN tasks) /\ tasks' \in Seq(TaskSet) /\ DOMAIN tasks' = DOMAIN tasks
  <2>1. Enqueue(t) \/ UNCHANGED <<queue, tasks>>
    BY DEF Send, Sent, NotSent
  <2>2. QED BY <1>1, <2>1, Enqueued DEF Shapes
<1>4. QED BY <1>2, <1>3 DEF Shapes, Send, rows

LEMMA MarkSentWrites ==
    ASSUME Shapes, NEW c \in Callers, MarkSent(c)
    PROVE  LET t == change[c].task
           IN  /\ t \in DOMAIN tasks
               /\ tasks' \in Seq(TaskSet) /\ DOMAIN tasks' = DOMAIN tasks /\ Len(tasks') = Len(tasks)
               /\ tasks'[t] = [tasks[t] EXCEPT !.status = "running", !.sent = TRUE]
               /\ \A s \in DOMAIN tasks : s # t => tasks'[s] = tasks[s]
<1> DEFINE t == change[c].task
           e == [tasks[t] EXCEPT !.status = "running", !.sent = TRUE]
<1>1. t \in DOMAIN tasks
  BY DEF MarkSent, Shapes
<1>2. "running" \in Statuses /\ TRUE \in BOOLEAN
  BY DEF Statuses
<1>3. e \in TaskSet
  BY <1>1, <1>2, TaskWrites
<1>4. tasks' = [tasks EXCEPT ![t] = e]
  BY <1>1, TaskWrites, Domain DEF MarkSent
<1>5. QED BY <1>1, <1>3, <1>4, Written

LEMMA MarkSentShapes == ASSUME Shapes, NEW c \in Callers, MarkSent(c) PROVE Shapes'
<1>1. change' = [change EXCEPT ![c] = Idle]
  BY DEF MarkSent
<1>2. tasks' \in Seq(TaskSet) /\ DOMAIN tasks' = DOMAIN tasks
  BY MarkSentWrites
<1>3. QED BY <1>1, <1>2, IsDone DEF Shapes, MarkSent, rows

LEMMA AbortWrites ==
    ASSUME Shapes, NEW c \in Callers, Abort(c)
    PROVE  LET t == change[c].task
           IN  /\ t \in DOMAIN tasks
               /\ tasks' \in Seq(TaskSet) /\ DOMAIN tasks' = DOMAIN tasks /\ Len(tasks') = Len(tasks)
               /\ tasks'[t] = [tasks[t] EXCEPT !.status = "failed"]
               /\ \A s \in DOMAIN tasks : s # t => tasks'[s] = tasks[s]
<1> DEFINE t == change[c].task
           e == [tasks[t] EXCEPT !.status = "failed"]
<1>1. t \in DOMAIN tasks
  BY DEF Abort, Shapes
<1>2. "failed" \in Statuses
  BY DEF Statuses
<1>3. e \in TaskSet
  BY <1>1, <1>2, TaskWrites
<1>4. tasks' = [tasks EXCEPT ![t] = e]
  BY <1>1, TaskWrites, Domain DEF Abort
<1>5. QED BY <1>1, <1>3, <1>4, Written

LEMMA AbortShapes == ASSUME Shapes, NEW c \in Callers, Abort(c) PROVE Shapes'
<1> DEFINE ch == change[c]
           k == ch.kind
<1>1. ch \in ChangeSet /\ k \in Kinds /\ ch.row \in RowSet
  BY ChangeIs
<1>2. change' = [change EXCEPT ![c] = Idle]
  BY DEF Abort
<1>3. tasks' \in Seq(TaskSet) /\ DOMAIN tasks' = DOMAIN tasks
  BY AbortWrites
<1>4. secret' \in [Kinds -> RowSet] /\ alert' \in [Kinds -> BOOLEAN]
  <2>1. secret[k] \in RowSet /\ secret \in [Kinds -> RowSet] /\ alert \in [Kinds -> BOOLEAN]
    BY <1>1 DEF Shapes
  <2>2. CASE ch.rotating
    <3> DEFINE r == [Cleared(secret[k]) EXCEPT !.unconfirmed = ch.row.unconfirmed]
    <3>1. Cleared(secret[k]) \in RowSet
      BY <2>1, RowsAre
    <3>2. r \in RowSet
      BY <1>1, <3>1 DEF RowSet
    <3>3. secret' = [secret EXCEPT ![k] = r] /\ alert' = alert
      BY <1>1, <2>1, <2>2 DEF Abort
    <3> HIDE DEF r
    <3>4. QED BY <2>1, <3>2, <3>3
  <2>3. CASE ~ch.rotating
    <3>1. Reopened(k, ch.row) \in BOOLEAN
      BY <1>1, <2>1 DEF Reopened, RowSet
    <3>2. QED BY <1>1, <2>1, <2>3, <3>1 DEF Abort
  <2>4. QED BY <2>2, <2>3
<1>5. QED BY <1>2, <1>3, <1>4, IsDone DEF Shapes, Abort

----------------------------------------------------------------------------
(* and everything else.                                                   *)

(* The command at the head of the queue, and what the Mac says of it.       *)
LEMMA Taken ==
    ASSUME Shapes, Take
    PROVE  \E t \in DOMAIN tasks, x \in Said :
             /\ queue # <<>> /\ t = Head(queue) /\ t = queue[1] /\ 1 \in DOMAIN queue
             /\ x \in Answers(t)
             /\ mac' = IF x = "changed"
                       THEN IF tasks[t].kind = "lock"
                            THEN [mac EXCEPT !.lock = tasks[t].new]
                            ELSE [mac EXCEPT !.account = tasks[t].new]
                       ELSE mac
             /\ air' = air \cup {<<t, x>>}
             /\ queue' = Tail(queue) /\ queue' \in Seq(DOMAIN tasks)
             /\ \A i \in DOMAIN queue' : i + 1 \in DOMAIN queue /\ queue'[i] = queue[i + 1]
             /\ \A j \in DOMAIN queue : j = 1 \/ (j - 1 \in DOMAIN queue' /\ queue'[j - 1] = queue[j])
<1> DEFINE t == Head(queue)
<1>1. queue # <<>> /\ queue \in Seq(DOMAIN tasks) /\ queue' = Tail(queue)
  BY DEF Take, Shapes
<1>2. /\ t \in DOMAIN tasks /\ t = queue[1] /\ 1 \in DOMAIN queue /\ queue' \in Seq(DOMAIN tasks)
      /\ \A i \in DOMAIN queue' : i + 1 \in DOMAIN queue /\ queue'[i] = queue[i + 1]
      /\ \A j \in DOMAIN queue : j = 1 \/ (j - 1 \in DOMAIN queue' /\ queue'[j - 1] = queue[j])
  BY <1>1, TailOf
<1>3. PICK x \in Answers(t) :
             /\ mac' = IF x = "changed"
                       THEN IF tasks[t].kind = "lock"
                            THEN [mac EXCEPT !.lock = tasks[t].new]
                            ELSE [mac EXCEPT !.account = tasks[t].new]
                       ELSE mac
             /\ air' = air \cup {<<t, x>>}
  BY DEF Take
<1>4. x \in Said
  BY <1>3 DEF Answers, Said
<1> HIDE DEF t
<1>5. t = Head(queue)
  BY DEF t
<1>6. QED BY <1>1, <1>2, <1>3, <1>4, <1>5

LEMMA TakeShapes == ASSUME Shapes, Take PROVE Shapes'
<1>1. PICK t \in DOMAIN tasks, x \in Said :
             /\ mac' = IF x = "changed"
                       THEN IF tasks[t].kind = "lock"
                            THEN [mac EXCEPT !.lock = tasks[t].new]
                            ELSE [mac EXCEPT !.account = tasks[t].new]
                       ELSE mac
             /\ air' = air \cup {<<t, x>>}
             /\ queue' \in Seq(DOMAIN tasks)
  BY Taken
<1>2. tasks[t].new \in Passwords
  BY TaskWrites DEF TaskSet
<1>3. mac' \in MacSet
  BY <1>1, <1>2 DEF MacSet, Shapes, Anything, Words
<1>4. QED BY <1>1, <1>3 DEF Take, Shapes, rows

LEMMA ReenrollTasks ==
    ASSUME Shapes, Reenroll
    PROVE  /\ tasks' \in Seq(TaskSet) /\ DOMAIN tasks' = DOMAIN tasks /\ Len(tasks') = Len(tasks)
           /\ \A t \in DOMAIN tasks :
                IF tasks[t].sent /\ Open(t)
                THEN tasks'[t] = [tasks[t] EXCEPT !.status = "failed"] /\ t \in acks'
                ELSE tasks'[t] = tasks[t] /\ (t \in acks' => t \in acks)
           /\ acks' \subseteq DOMAIN tasks
           /\ queue' = <<>> /\ air' = {}
<1> DEFINE failed == {t \in DOMAIN tasks : tasks[t].sent /\ Open(t)}
           f == [t \in DOMAIN tasks |->
                    IF t \in failed THEN [tasks[t] EXCEPT !.status = "failed"] ELSE tasks[t]]
<1>1. tasks' = f /\ acks' = acks \cup failed /\ queue' = <<>> /\ air' = {}
  BY DEF Reenroll
<1>2. "failed" \in Statuses
  BY DEF Statuses
<1>3. \A t \in DOMAIN tasks : tasks[t] \in TaskSet /\ [tasks[t] EXCEPT !.status = "failed"] \in TaskSet
  BY <1>2, TaskWrites
<1>4. f \in [DOMAIN tasks -> TaskSet]
  BY <1>3
<1>5. tasks \in Seq(TaskSet) /\ acks \subseteq DOMAIN tasks
  BY DEF Shapes
<1>6. tasks' \in Seq(TaskSet) /\ DOMAIN tasks' = DOMAIN tasks /\ Len(tasks') = Len(tasks)
  BY <1>1, <1>4, <1>5, Mapped
<1>7. \A t \in DOMAIN tasks :
        tasks'[t] = IF t \in failed THEN [tasks[t] EXCEPT !.status = "failed"] ELSE tasks[t]
  BY <1>1
<1>8. QED BY <1>1, <1>5, <1>6, <1>7

LEMMA ReenrollShapes == ASSUME Shapes, Reenroll PROVE Shapes'
<1>1. PICK erased \in BOOLEAN, lock \in {mac.lock, NoPassword} :
          mac' = IF erased THEN [mac EXCEPT !.lock = lock, !.account = NoPassword,
                                            !.awaiting = TRUE]
                 ELSE mac
  BY DEF Reenroll
<1>2. mac' \in MacSet
  BY <1>1 DEF Shapes, MacSet, Anything, Words
<1>3. <<>> \in Seq(DOMAIN tasks)
  BY EmptySeq
<1>4. QED BY <1>2, <1>3, ReenrollTasks DEF Shapes, Reenroll, rows

LEMMA ReceiveWrites ==
    ASSUME Shapes, NEW a \in air, Receive(a)
    PROVE  LET t == a[1]
           IN  /\ a \in (DOMAIN tasks) \X Said /\ t \in DOMAIN tasks
               /\ tasks' \in Seq(TaskSet) /\ DOMAIN tasks' = DOMAIN tasks /\ Len(tasks') = Len(tasks)
               /\ \A s \in DOMAIN tasks : s # t => tasks'[s] = tasks[s]
               /\ IF Open(t) \/ tasks[t].status = "timed out"
                  THEN /\ tasks'[t] = [tasks[t] EXCEPT
                              !.status = IF a[2] = "error" THEN "failed" ELSE "completed",
                              !.changed = a[2] = "changed"]
                       /\ acks' = acks \cup {t}
                  ELSE tasks'[t] = tasks[t] /\ acks' = acks
<1> DEFINE t == a[1]
           s1 == IF a[2] = "error" THEN "failed" ELSE "completed"
           b1 == a[2] = "changed"
           e == [tasks[t] EXCEPT !.status = s1, !.changed = b1]
<1>1. a \in (DOMAIN tasks) \X Said /\ t \in DOMAIN tasks
  BY DEF Shapes
<1>2. CASE Open(t) \/ tasks[t].status = "timed out"
  <2>1. s1 \in Statuses /\ b1 \in BOOLEAN
    BY DEF Statuses
  <2>2. e \in TaskSet
    <3> HIDE DEF s1, b1
    <3>1. QED BY <1>1, <2>1, TaskWrites
  <2>3. tasks' = [tasks EXCEPT ![t] = e] /\ acks' = acks \cup {t}
    BY <1>1, <1>2, TaskWrites, Domain DEF Receive
  <2>4. /\ tasks' \in Seq(TaskSet) /\ DOMAIN tasks' = DOMAIN tasks /\ Len(tasks') = Len(tasks)
        /\ tasks'[t] = e /\ \A s \in DOMAIN tasks : s # t => tasks'[s] = tasks[s]
    <3> HIDE DEF e
    <3>1. QED BY <1>1, <2>2, <2>3, Written
  <2>5. QED BY <1>1, <1>2, <2>3, <2>4
<1>3. CASE ~(Open(t) \/ tasks[t].status = "timed out")
  BY <1>1, <1>3 DEF Receive, Shapes
<1>4. QED BY <1>2, <1>3

LEMMA ReceiveShapes == ASSUME Shapes, NEW a \in air, Receive(a) PROVE Shapes'
<1>0. acks \subseteq DOMAIN tasks
  BY DEF Shapes
<1>1. tasks' \in Seq(TaskSet) /\ DOMAIN tasks' = DOMAIN tasks /\ acks' \subseteq DOMAIN tasks
  <2>1. a[1] \in DOMAIN tasks /\ (acks' = acks \/ acks' = acks \cup {a[1]})
        /\ tasks' \in Seq(TaskSet) /\ DOMAIN tasks' = DOMAIN tasks
    BY ReceiveWrites
  <2>2. QED BY <1>0, <2>1
<1>2. air' \subseteq air
  BY DEF Receive
<1>3. QED BY <1>1, <1>2 DEF Shapes, Receive, rows

LEMMA EndWrites ==
    ASSUME Shapes, NEW t \in DOMAIN tasks, NEW s \in {"cancelled", "timed out"}, End(t, s)
    PROVE  /\ tasks' \in Seq(TaskSet) /\ DOMAIN tasks' = DOMAIN tasks /\ Len(tasks') = Len(tasks)
           /\ tasks'[t] = [tasks[t] EXCEPT !.status = s]
           /\ \A u \in DOMAIN tasks : u # t => tasks'[u] = tasks[u]
<1> DEFINE e == [tasks[t] EXCEPT !.status = s]
<1>1. s \in Statuses
  BY DEF Statuses
<1>2. e \in TaskSet
  BY <1>1, TaskWrites
<1>3. tasks' = [tasks EXCEPT ![t] = e]
  BY TaskWrites, Domain DEF End
<1>4. QED BY <1>2, <1>3, Written

LEMMA EndShapes ==
    ASSUME Shapes, NEW t \in DOMAIN tasks, NEW s \in {"cancelled", "timed out"}, End(t, s)
    PROVE  Shapes'
BY EndWrites DEF Shapes, End, rows

LEMMA AcknowledgeShapes ==
    ASSUME Shapes, NEW t \in DOMAIN tasks, Acknowledge(t) PROVE Shapes'
<1> DEFINE k == tasks[t].kind
           r == Settle(secret[k], t)
           promoted == r.value # secret[k].value
<1>1. k \in Kinds
  BY TaskWrites DEF TaskSet, TaskKinds, Kinds
<1>2. secret[k] \in RowSet /\ secret \in [Kinds -> RowSet] /\ alert \in [Kinds -> BOOLEAN]
      /\ seen \in [Kinds -> SUBSET Passwords]
  BY <1>1 DEF Shapes
<1>3. r \in RowSet
  BY <1>2, RowsAre
<1>4. /\ secret' = [secret EXCEPT ![k] = r]
      /\ alert' = [alert EXCEPT ![k] = @ /\ ~promoted]
      /\ seen' = [seen EXCEPT ![k] = IF promoted THEN @ \ {r.value} ELSE @]
  BY DEF Acknowledge
<1> HIDE DEF r
<1>5. secret' \in [Kinds -> RowSet] /\ alert' \in [Kinds -> BOOLEAN]
      /\ seen' \in [Kinds -> SUBSET Passwords]
  BY <1>1, <1>2, <1>3, <1>4
<1>6. acks' \subseteq acks
  BY DEF Acknowledge
<1>7. QED BY <1>5, <1>6 DEF Shapes, Acknowledge

LEMMA RevealShapes == ASSUME Shapes, NEW k \in Kinds, Reveal(k) PROVE Shapes'
<1> DEFINE r == [secret[k] EXCEPT !.revealed = TRUE]
<1>1. secret[k] \in RowSet /\ secret \in [Kinds -> RowSet]
  BY DEF Shapes
<1>2. r \in RowSet /\ secret[k].value \in Words
  BY <1>1 DEF RowSet
<1>3. secret' = [secret EXCEPT ![k] = r]
  BY <1>1 DEF Reveal
<1> HIDE DEF r
<1>4. secret' \in [Kinds -> RowSet]
  BY <1>1, <1>2, <1>3
<1>5. viewing' \in [Kinds -> Words]
  BY <1>2 DEF Reveal, Shapes
<1>6. QED BY <1>4, <1>5 DEF Shapes, Reveal

LEMMA InitShapes == Init => Shapes
<1> SUFFICES ASSUME Init PROVE Shapes
  OBVIOUS
<1>1. PICK lock \in Passwords \cup {NoPassword, Foreign}, code \in Passwords :
          /\ mac = [lock |-> lock, account |-> NoPassword, bypass |-> code,
                    awaiting |-> TRUE]
          /\ secret = [k \in Kinds |-> IF k = "lock" /\ lock \in Passwords
                                      THEN [NoRow EXCEPT !.value = lock] ELSE NoRow]
  BY DEF Init
<1>2. mac \in MacSet
  BY <1>1 DEF MacSet, Anything, Words
<1>3. lock \in Passwords => [NoRow EXCEPT !.value = lock] \in RowSet
  BY Blanks DEF RowSet, Words
<1>4. secret \in [Kinds -> RowSet]
  BY <1>1, <1>3, Blanks
<1>5. tasks \in Seq(TaskSet) /\ queue \in Seq(DOMAIN tasks)
  BY EmptySeq DEF Init
<1>6. /\ change \in [Callers -> ChangeSet]
      /\ \A c \in Callers : change[c].pc = "idle"
  BY Blanks DEF Init, Idle
<1>7. QED BY <1>2, <1>4, <1>5, <1>6 DEF Shapes, Init, Words

LEMMA ShapesStay == ASSUME Shapes, [Next]_vars PROVE Shapes'
<1>1. ASSUME NEW c \in Callers, Change(c) PROVE Shapes'
  <2>1. Passwords \cup {NoPassword, Foreign} \subseteq Anything
    BY DEF Anything, Words
  <2>2. QED
    BY <1>1, <2>1, PlanLockShapes, PlanAccountShapes, BeginShapes, SendShapes,
       MarkSentShapes, AbortShapes DEF Change
<1>2. CASE Device
  <2>1. CASE LeaveSetupAssistant
    <3>1. mac' \in MacSet
      BY <2>1 DEF LeaveSetupAssistant, Shapes, MacSet
    <3>2. QED BY <2>1, <3>1 DEF LeaveSetupAssistant, Shapes, rows
  <2>2. ASSUME NEW a \in air, LoseAnswer(a) PROVE Shapes'
    BY <2>2 DEF LoseAnswer, Shapes, rows
  <2>3. ASSUME NEW a \in air, Discard(a) PROVE Shapes'
    BY <2>3 DEF Discard, Shapes, rows
  <2>4. QED BY <1>2, <2>1, <2>2, <2>3, TakeShapes, ReenrollShapes, ReceiveShapes DEF Device
<1>3. CASE Console
  <2>1. ASSUME NEW k \in Kinds, RaiseAlert(k) PROVE Shapes'
    <3>1. viewing[k] \in Passwords
      BY <2>1 DEF RaiseAlert, Shapes, Words
    <3>2. alert' \in [Kinds -> BOOLEAN] /\ seen' \in [Kinds -> SUBSET Passwords]
          /\ viewing' \in [Kinds -> Words]
      BY <2>1, <3>1 DEF RaiseAlert, Shapes, Words
    <3>3. QED BY <2>1, <3>2 DEF RaiseAlert, Shapes
  <2>2. ASSUME NEW k \in Kinds, CloseAlert(k) PROVE Shapes'
    <3>1. alert' \in [Kinds -> BOOLEAN] /\ seen' \in [Kinds -> SUBSET Passwords]
      BY <2>2 DEF CloseAlert, Shapes
    <3>2. QED BY <2>2, <3>1 DEF CloseAlert, Shapes
  <2>3. QED BY <1>3, <2>1, <2>2, RevealShapes DEF Console
<1>4. CASE Restart
  <2>1. change' \in [Callers -> ChangeSet] /\ (\A c \in Callers : change'[c].pc = "idle")
        /\ viewing' \in [Kinds -> Words] /\ acks' = {}
    BY <1>4, Blanks DEF Restart, Idle, Words
  <2>2. QED BY <1>4, <2>1 DEF Restart, Shapes, rows
<1>5. CASE Fetch
  <2>1. Escrow("bypass", mac.bypass, NoTask) /\ mac.bypass \in Passwords /\ NoTask \in Nat
        /\ "bypass" \in Kinds
    BY <1>5 DEF Fetch, Shapes, MacSet, NoTask, Kinds
  <2>2. secret' \in [Kinds -> RowSet] /\ alert' \in [Kinds -> BOOLEAN]
        /\ seen' \in [Kinds -> SUBSET Passwords]
    BY <2>1, EscrowShapes
  <2>3. QED BY <1>5, <2>2 DEF Fetch, Shapes
<1>6. ASSUME NEW code \in Passwords, Wiped(code) PROVE Shapes'
  <2>1. mac' \in MacSet /\ alert' \in [Kinds -> BOOLEAN] /\ seen' \in [Kinds -> SUBSET Passwords]
    BY <1>6 DEF Wiped, Shapes, MacSet
  <2>2. QED BY <1>6, <2>1 DEF Wiped, Shapes
<1>7. CASE UNCHANGED vars
  BY <1>7 DEF vars, rows, Shapes
<1>8. QED
  BY <1>1, <1>2, <1>3, <1>4, <1>5, <1>6, <1>7, AcknowledgeShapes, EndShapes DEF Next

----------------------------------------------------------------------------
(* Reveals. What lasts of a task.                                         *)

(* At most one caller has a change under way, unless two may.               *)
Lone == \A c, d \in Callers : change[c].pc # "idle" /\ change[d].pc # "idle" => c = d

LEMMA LoneInit == Init => Lone
BY DEF Init, Lone, Idle

LEMMA LoneStays ==
    ASSUME "two" \notin Overlaps, Shapes, Lone, [Next]_vars PROVE Lone'
<1>0. change \in [Callers -> ChangeSet]
  BY DEF Shapes
<1>1. ASSUME NEW c \in Callers, Change(c) PROVE Lone'
  <2>1. ASSUME NEW new \in Passwords, NEW supplied, NEW rotate, PlanLock(c, new, supplied, rotate)
        PROVE  Lone'
    <3>1. \A d \in Callers \ {c} : change'[d] = change[d] /\ change[d].pc = "idle"
      BY <1>0, <2>1 DEF PlanLock, Alone
    <3>2. QED BY <3>1 DEF Lone
  <2>2. ASSUME NEW new \in Passwords, PlanAccount(c, new) PROVE Lone'
    <3>1. \A d \in Callers \ {c} : change'[d] = change[d] /\ change[d].pc = "idle"
      BY <1>0, <2>2 DEF PlanAccount, Alone
    <3>2. QED BY <3>1 DEF Lone
  <2>3. CASE Begin(c) \/ Send(c) \/ MarkSent(c) \/ Abort(c)
    <3>1. change[c].pc # "idle" /\ \A d \in Callers \ {c} : change'[d] = change[d]
      BY <1>0, <2>3 DEF Begin, Send, Sent, NotSent, MarkSent, Abort
    <3>2. QED BY <3>1 DEF Lone
  <2>4. QED BY <1>1, <2>1, <2>2, <2>3 DEF Change
<1>2. CASE Restart
  <2>1. \A c \in Callers : change'[c].pc = "idle"
    BY <1>2 DEF Restart, Idle
  <2>2. QED BY <2>1 DEF Lone
<1>3. CASE UNCHANGED change
  BY <1>3 DEF Lone
<1>4. CASE Device \/ Console \/ Fetch \/ UNCHANGED vars
  <2>1. UNCHANGED change
    BY <1>4 DEF Device, Console, Fetch, vars, Take, LeaveSetupAssistant, Reenroll, LoseAnswer,
       Receive, Discard, Reveal, RaiseAlert, CloseAlert
  <2>2. QED BY <1>3, <2>1
<1>5. ASSUME NEW code \in Passwords, Wiped(code) PROVE Lone'
  BY <1>3, <1>5 DEF Wiped
<1>6. ASSUME NEW t \in DOMAIN tasks, Acknowledge(t) \/ End(t, "cancelled") \/ End(t, "timed out")
      PROVE  Lone'
  BY <1>3, <1>6 DEF Acknowledge, End
<1>7. QED BY <1>1, <1>2, <1>4, <1>5, <1>6 DEF Next

----------------------------------------------------------------------------
(* Only a change that begins makes tasks, and what a task sets is for good. *)
TasksLast ==
    /\ DOMAIN tasks' = DOMAIN tasks
    /\ \A t \in DOMAIN tasks : tasks'[t].kind = tasks[t].kind /\ tasks'[t].new = tasks[t].new

LEMMA OneTaskLasts ==
    ASSUME Shapes, NEW t \in DOMAIN tasks, DOMAIN tasks' = DOMAIN tasks,
           tasks'[t].kind = tasks[t].kind, tasks'[t].new = tasks[t].new,
           \A s \in DOMAIN tasks : s # t => tasks'[s] = tasks[s]
    PROVE  TasksLast
BY DEF TasksLast

LEMMA SendLasts == ASSUME Shapes, NEW c \in Callers, Send(c) PROVE TasksLast
<1> DEFINE t == change[c].task
<1>1. t \in DOMAIN tasks
  BY DEF Send, Shapes
<1>2. Enqueue(t) \/ UNCHANGED tasks
  BY DEF Send, Sent, NotSent
<1>3. CASE Enqueue(t)
  <2>1. /\ DOMAIN tasks' = DOMAIN tasks /\ tasks'[t] = [tasks[t] EXCEPT !.queued = TRUE]
        /\ \A s \in DOMAIN tasks : s # t => tasks'[s] = tasks[s]
    BY <1>1, <1>3, Enqueued
  <2>2. tasks'[t].kind = tasks[t].kind /\ tasks'[t].new = tasks[t].new
    <3>1. tasks[t] \in TaskSet
      BY <1>1, TaskWrites
    <3>2. QED BY <2>1, <3>1 DEF TaskSet
  <2>3. QED BY <1>1, <2>1, <2>2 DEF TasksLast
<1>4. QED BY <1>2, <1>3 DEF TasksLast

LEMMA MarkLasts == ASSUME Shapes, NEW c \in Callers, MarkSent(c) PROVE TasksLast
<1> DEFINE t == change[c].task
<1>1. /\ t \in DOMAIN tasks /\ DOMAIN tasks' = DOMAIN tasks
      /\ tasks'[t] = [tasks[t] EXCEPT !.status = "running", !.sent = TRUE]
      /\ \A s \in DOMAIN tasks : s # t => tasks'[s] = tasks[s]
  BY MarkSentWrites
<1>2. tasks'[t].kind = tasks[t].kind /\ tasks'[t].new = tasks[t].new
  <2>1. tasks[t] \in TaskSet
    BY <1>1, TaskWrites
  <2>2. QED BY <1>1, <2>1 DEF TaskSet
<1>3. QED BY <1>1, <1>2 DEF TasksLast

LEMMA AbortLasts == ASSUME Shapes, NEW c \in Callers, Abort(c) PROVE TasksLast
<1> DEFINE t == change[c].task
<1>1. /\ t \in DOMAIN tasks /\ DOMAIN tasks' = DOMAIN tasks
      /\ tasks'[t] = [tasks[t] EXCEPT !.status = "failed"]
      /\ \A s \in DOMAIN tasks : s # t => tasks'[s] = tasks[s]
  BY AbortWrites
<1>2. tasks'[t].kind = tasks[t].kind /\ tasks'[t].new = tasks[t].new
  <2>1. tasks[t] \in TaskSet
    BY <1>1, TaskWrites
  <2>2. QED BY <1>1, <2>1 DEF TaskSet
<1>3. QED BY <1>1, <1>2 DEF TasksLast

LEMMA ReceiveLasts == ASSUME Shapes, NEW a \in air, Receive(a) PROVE TasksLast
<1> DEFINE t == a[1]
           s1 == IF a[2] = "error" THEN "failed" ELSE "completed"
           b1 == a[2] = "changed"
<1>1. /\ t \in DOMAIN tasks /\ DOMAIN tasks' = DOMAIN tasks
      /\ tasks'[t] = tasks[t] \/ tasks'[t] = [tasks[t] EXCEPT !.status = s1, !.changed = b1]
      /\ \A s \in DOMAIN tasks : s # t => tasks'[s] = tasks[s]
  BY ReceiveWrites
<1> HIDE DEF s1, b1
<1>2. tasks'[t].kind = tasks[t].kind /\ tasks'[t].new = tasks[t].new
  <2>1. tasks[t] \in TaskSet
    BY <1>1, TaskWrites
  <2>2. QED BY <1>1, <2>1 DEF TaskSet
<1>3. QED BY <1>1, <1>2 DEF TasksLast

LEMMA ReenrollLasts == ASSUME Shapes, Reenroll PROVE TasksLast
<1>1. DOMAIN tasks' = DOMAIN tasks
  BY ReenrollTasks
<1>2. ASSUME NEW t \in DOMAIN tasks
      PROVE  tasks'[t].kind = tasks[t].kind /\ tasks'[t].new = tasks[t].new
  <2>1. tasks'[t] = tasks[t] \/ tasks'[t] = [tasks[t] EXCEPT !.status = "failed"]
    BY ReenrollTasks
  <2>2. tasks[t] \in TaskSet
    BY TaskWrites
  <2>3. QED BY <2>1, <2>2 DEF TaskSet
<1>3. QED BY <1>1, <1>2 DEF TasksLast

LEMMA EndLasts ==
    ASSUME Shapes, NEW t \in DOMAIN tasks, NEW s \in {"cancelled", "timed out"}, End(t, s)
    PROVE  TasksLast
<1>1. /\ DOMAIN tasks' = DOMAIN tasks /\ tasks'[t] = [tasks[t] EXCEPT !.status = s]
      /\ \A u \in DOMAIN tasks : u # t => tasks'[u] = tasks[u]
  BY EndWrites
<1>2. tasks'[t].kind = tasks[t].kind /\ tasks'[t].new = tasks[t].new
  <2>1. tasks[t] \in TaskSet
    BY <1>1, TaskWrites
  <2>2. QED BY <1>1, <2>1 DEF TaskSet
<1>3. QED BY <1>1, <1>2 DEF TasksLast

----------------------------------------------------------------------------
(* The ledger of what was revealed, and the steps that leave it alone.    *)

(* A row whose reveals are on the board, or will be, is marked as revealed: *)
(* a rollback that puts it back then opens its alert again.                 *)
Marked(r) == r.value # NoPassword /\ r.value \in seen["account"] \cup {viewing["account"]}
                => r.revealed
AccountWord(w) ==
    w = NoPassword \/ \E t \in DOMAIN tasks : tasks[t].kind = "account" /\ tasks[t].new = w
LockChange(ch) ==
    /\ ch.pc = "begin" => secret["lock"] = NoRow
    /\ ch.pc \in {"send", "abort"} => ch.row = NoRow
AccountChange(ch) ==
    /\ ~ch.rotating
    /\ ch.pc = "begin" => ~AccountWord(ch.new)
    /\ ch.pc \in {"send", "abort"} =>
          /\ AccountWord(ch.row.value) /\ ch.row.value # ch.new
          /\ secret["account"].value = ch.new
          /\ Marked(ch.row) /\ ch.row.pendingTask = NoTask
Ledger ==
    /\ RevealOnRecord
    /\ \A w \in seen["account"] \cup {viewing["account"], secret["account"].value} : AccountWord(w)
    /\ Marked(secret["account"]) /\ secret["account"].pendingTask = NoTask
    /\ \A c \in Callers : IF change[c].kind = "account" THEN AccountChange(change[c])
                          ELSE ~change[c].rotating => LockChange(change[c])

(* What the writes to a row do.                                             *)
LEMMA EscrowDoes ==
    ASSUME Shapes, NEW k \in Kinds, NEW w, NEW u, Escrow(k, w, u)
    PROVE  /\ secret'[k].value = w /\ secret'[k].pending = NoPassword
           /\ secret'[k].pendingTask = NoTask /\ secret'[k].unconfirmed = u
           /\ \A j \in Kinds \ {k} : /\ secret'[j] = secret[j] /\ alert'[j] = alert[j]
                                     /\ seen'[j] = seen[j]
           /\ seen'[k] \subseteq seen[k]
           /\ w \in seen'[k] => alert'[k] = alert[k] /\ w \in seen[k] /\ secret[k].value = w
           /\ k # "bypass" => seen'[k] = seen[k] \ {w}
<1> DEFINE same == k = "bypass" /\ secret[k].value = w
           r == [NoRow EXCEPT !.value = w, !.unconfirmed = u,
                              !.revealed = same /\ secret[k].revealed]
<1>1. secret \in [Kinds -> RowSet] /\ alert \in [Kinds -> BOOLEAN] /\ DOMAIN seen = Kinds
  BY DEF Shapes
<1>2. secret' = [secret EXCEPT ![k] = r]
  BY DEF Escrow
<1>3. r.value = w /\ r.pending = NoPassword /\ r.pendingTask = NoTask /\ r.unconfirmed = u
  BY DEF NoRow
<1>4. secret'[k] = r /\ \A j \in Kinds \ {k} : secret'[j] = secret[j]
  <2> HIDE DEF r
  <2>1. QED BY <1>1, <1>2
<1>5. seen' = [seen EXCEPT ![k] = IF same THEN @ ELSE @ \ {w}]
  BY DEF Escrow
<1>6. alert' = [alert EXCEPT ![k] = same /\ @]
  BY DEF Escrow
<1>7. /\ \A j \in Kinds \ {k} : alert'[j] = alert[j] /\ seen'[j] = seen[j]
      /\ same => alert'[k] = alert[k] /\ seen'[k] = seen[k]
      /\ ~same => seen'[k] = seen[k] \ {w}
  BY <1>1, <1>5, <1>6
<1>8. QED BY <1>3, <1>4, <1>7

LEMMA SettleDoes ==
    ASSUME NEW r \in RowSet, NEW t
    PROVE  LET s == Settle(r, t)
           IN  \/ s = r /\ r.pendingTask # t /\ ~(r.unconfirmed = t /\ Took(t))
               \/ /\ r.pendingTask = t /\ ~Took(t)
                  /\ s.value = r.value /\ s.revealed = r.revealed /\ s.unconfirmed = r.unconfirmed
                  /\ s.pending = NoPassword /\ s.pendingTask = NoTask
               \/ /\ r.pendingTask = t /\ Took(t)
                  /\ s.value = r.pending /\ s.unconfirmed = NoTask
                  /\ s.pending = NoPassword /\ s.pendingTask = NoTask
               \/ /\ r.pendingTask # t /\ r.unconfirmed = t /\ Took(t)
                  /\ s.value = r.value /\ s.revealed = r.revealed /\ s.unconfirmed = NoTask
                  /\ s.pending = r.pending /\ s.pendingTask = r.pendingTask
BY DEF Settle, Cleared, Confirmed, RowSet, NoRow

LEMMA WordsLast ==
    ASSUME TasksLast PROVE \A w : AccountWord(w)' <=> AccountWord(w)
BY DEF TasksLast, AccountWord

(* A step that leaves the account's row and what has been seen of it alone. *)
Follows(c) ==
    \/ change'[c].pc = "idle" /\ change'[c].kind = "lock"
    \/ /\ change'[c].kind = change[c].kind /\ change'[c].rotating = change[c].rotating
       /\ change'[c].new = change[c].new /\ change'[c].row = change[c].row
       /\ \/ change'[c].pc = change[c].pc
          \/ change[c].pc = "send" /\ change'[c].pc \in {"mark", "abort"}
LedgerCalm ==
    /\ RevealOnRecord'
    /\ \A w : AccountWord(w)' <=> AccountWord(w)
    /\ secret'["account"].value = secret["account"].value
    /\ secret'["account"].revealed = secret["account"].revealed
    /\ secret'["account"].pendingTask = secret["account"].pendingTask
    /\ seen'["account"] \cup {viewing'["account"]}
          \subseteq seen["account"] \cup {viewing["account"], NoPassword}
    /\ (\E c \in Callers : change'[c].pc = "begin") /\ secret["lock"] = NoRow
          => secret'["lock"] = NoRow
    /\ \A c \in Callers : Follows(c)

LEMMA CalmLedger == ASSUME Ledger, LedgerCalm PROVE Ledger'
<1>1. ASSUME NEW r, Marked(r) PROVE Marked(r)'
  BY <1>1 DEF Marked, LedgerCalm
<1>2. Marked(secret["account"])'
  BY DEF Marked, Ledger, LedgerCalm
<1>3. \A w \in (seen["account"] \cup {viewing["account"], secret["account"].value})' : AccountWord(w)'
  BY DEF Ledger, LedgerCalm, AccountWord
<1>4. ASSUME NEW c \in Callers
      PROVE  IF change'[c].kind = "account" THEN AccountChange(change[c])'
             ELSE ~change'[c].rotating => LockChange(change[c])'
  <2>1. CASE change'[c].pc = "idle" /\ change'[c].kind = "lock"
    BY <2>1 DEF LockChange
  <2>2. CASE /\ change'[c].kind = change[c].kind /\ change'[c].rotating = change[c].rotating
             /\ change'[c].new = change[c].new /\ change'[c].row = change[c].row
             /\ \/ change'[c].pc = change[c].pc
                \/ change[c].pc = "send" /\ change'[c].pc \in {"mark", "abort"}
    <3>1. CASE change[c].kind = "account"
      <4>1. AccountChange(change[c])
        BY <3>1 DEF Ledger
      <4>2. change'[c].pc \in {"send", "abort"} => Marked(change[c].row)'
        BY <2>2, <4>1 DEF AccountChange, Marked, LedgerCalm
      <4>3. QED BY <2>2, <3>1, <4>1, <4>2 DEF AccountChange, LedgerCalm
    <3>2. CASE change[c].kind # "account"
      <4>1. ~change[c].rotating => LockChange(change[c])
        BY <3>2 DEF Ledger
      <4>2. QED BY <2>2, <3>2, <4>1 DEF LockChange, LedgerCalm
    <3>3. QED BY <3>1, <3>2
  <2>3. QED BY <2>1, <2>2 DEF LedgerCalm, Follows
<1>5. QED BY <1>2, <1>3, <1>4 DEF Ledger, LedgerCalm

LEMMA SameLedger ==
    ASSUME Ledger, UNCHANGED <<secret, alert, seen, viewing>>, TasksLast,
           \A c \in Callers : Follows(c)
    PROVE  Ledger'
<1>1. RevealOnRecord'
  BY DEF Ledger, RevealOnRecord
<1>2. LedgerCalm
  BY <1>1, WordsLast DEF LedgerCalm
<1>3. QED BY <1>2, CalmLedger

----------------------------------------------------------------------------
(* The ledger when a change is planned and begun,                         *)

LEMMA InitLedger == Init => Ledger
<1> SUFFICES ASSUME Init PROVE Ledger
  OBVIOUS
<1>1. /\ \A c \in Callers : /\ change[c].kind = "lock" /\ change[c].pc = "idle"
                            /\ change[c].kind # "account"
      /\ secret["account"] = NoRow
      /\ \A k \in Kinds : seen[k] = {} /\ viewing[k] = NoPassword
  BY DEF Init, Idle, Kinds
<1>2. secret["account"].value = NoPassword /\ secret["account"].pendingTask = NoTask
  BY <1>1 DEF NoRow
<1>3. RevealOnRecord /\ Marked(secret["account"])
  BY <1>1, <1>2 DEF RevealOnRecord, Marked, Kinds
<1>4. \A c \in Callers : LockChange(change[c])
  BY <1>1 DEF LockChange
<1>5. QED BY <1>1, <1>2, <1>3, <1>4 DEF Ledger, AccountWord, Kinds

(* A change is planned.                                                     *)
LEMMA PlanLedger ==
    ASSUME Shapes, Ledger, NEW c \in Callers, NEW ch, change' = [change EXCEPT ![c] = ch],
           UNCHANGED <<secret, alert, seen, viewing, tasks>>,
           IF ch.kind = "account" THEN AccountChange(ch) ELSE ~ch.rotating => LockChange(ch)
    PROVE  Ledger'
<1>1. change'[c] = ch /\ \A d \in Callers : d # c => change'[d] = change[d]
  BY DEF Shapes
<1>2. RevealOnRecord' /\ Marked(secret["account"])'
      /\ \A w \in (seen["account"] \cup {viewing["account"], secret["account"].value})' : AccountWord(w)'
  BY DEF Ledger, RevealOnRecord, Marked, AccountWord
<1>3. ASSUME NEW d \in Callers
      PROVE  IF change'[d].kind = "account" THEN AccountChange(change[d])'
             ELSE ~change'[d].rotating => LockChange(change[d])'
  <2>1. IF change'[d].kind = "account" THEN AccountChange(change'[d])
        ELSE ~change'[d].rotating => LockChange(change'[d])
    BY <1>1 DEF Ledger
  <2>2. AccountChange(change'[d]) => AccountChange(change[d])'
    BY DEF AccountChange, AccountWord, Marked
  <2>3. LockChange(change'[d]) => LockChange(change[d])'
    BY DEF LockChange
  <2>4. QED BY <2>1, <2>2, <2>3
<1>4. QED BY <1>2, <1>3 DEF Ledger

LEMMA PlanLockLedger ==
    ASSUME Shapes, Ledger, NEW c \in Callers, NEW new \in Passwords, NEW supplied, NEW rotate,
           PlanLock(c, new, supplied, rotate)
    PROVE  Ledger'
<1> DEFINE ch == [Idle EXCEPT !.pc = "begin", !.kind = "lock", !.new = new,
                        !.current = IF supplied # NoPassword THEN supplied
                                    ELSE secret["lock"].value,
                        !.rotating = Stored("lock"), !.row = secret["lock"]]
<1>1. change' = [change EXCEPT ![c] = ch]
  BY DEF PlanLock
<1>2. ch.kind = "lock" /\ ch.pc = "begin" /\ ch.rotating = Stored("lock")
  BY DEF Idle
<1> HIDE DEF ch
<1>3. ~ch.rotating => LockChange(ch)
  BY <1>2 DEF LockChange, Stored
<1>4. UNCHANGED <<secret, alert, seen, viewing, tasks>>
  BY DEF PlanLock, rows
<1>5. QED BY <1>1, <1>2, <1>3, <1>4, PlanLedger

LEMMA PlanAccountLedger ==
    ASSUME "again" \notin Overlaps, Shapes, Ledger, NEW c \in Callers, NEW new \in Passwords,
           PlanAccount(c, new)
    PROVE  Ledger'
<1> DEFINE ch == [Idle EXCEPT !.pc = "begin", !.kind = "account", !.new = new,
                        !.row = secret["account"]]
<1>1. change' = [change EXCEPT ![c] = ch]
  BY DEF PlanAccount
<1>2. ch.kind = "account" /\ ch.pc = "begin" /\ ~ch.rotating /\ ch.new = new
  BY DEF Idle
<1> HIDE DEF ch
<1>3. ~AccountWord(new)
  BY Blanks DEF PlanAccount, AccountWord
<1>4. AccountChange(ch)
  BY <1>2, <1>3 DEF AccountChange
<1>5. UNCHANGED <<secret, alert, seen, viewing, tasks>>
  BY DEF PlanAccount, rows
<1>6. QED BY <1>1, <1>2, <1>4, <1>5, PlanLedger

(* What the caller carries once it has begun.                               *)
LEMMA BegunChange ==
    ASSUME Shapes, NEW c \in Callers, Begin(c)
    PROVE  /\ change'[c].pc = "send" /\ change'[c].task = Len(tasks) + 1
           /\ change'[c].row = secret[change[c].kind]
           /\ change'[c].kind = change[c].kind /\ change'[c].new = change[c].new
           /\ change'[c].rotating = change[c].rotating
           /\ \A d \in Callers : d # c => change'[d] = change[d]
<1>1. change \in [Callers -> ChangeSet] /\ change[c] \in ChangeSet
  BY DEF Shapes
<1> DEFINE e == [change[c] EXCEPT !.pc = "send", !.task = Len(tasks) + 1,
                                  !.row = secret[change[c].kind]]
<1>2. change' = [change EXCEPT ![c] = e]
  BY <1>1 DEF Begin
<1>3. /\ e.pc = "send" /\ e.task = Len(tasks) + 1 /\ e.row = secret[change[c].kind]
      /\ e.kind = change[c].kind /\ e.new = change[c].new /\ e.rotating = change[c].rotating
  BY <1>1 DEF ChangeSet
<1> HIDE DEF e
<1>4. QED BY <1>1, <1>2, <1>3

LEMMA RotationDoes ==
    ASSUME Shapes, NEW c \in Callers, Begin(c), change[c].rotating
    PROVE  /\ secret'["lock"].value = secret["lock"].value
           /\ secret'["lock"].pending = change[c].new
           /\ secret'["lock"].pendingTask = Len(tasks) + 1
           /\ secret'["lock"].unconfirmed = change[c].row.unconfirmed
           /\ \A k \in Kinds \ {"lock"} : secret'[k] = secret[k]
           /\ UNCHANGED <<alert, seen>>
<1> DEFINE ch == change[c]
           r == [secret["lock"] EXCEPT !.pending = ch.new, !.pendingTask = Len(tasks) + 1,
                                           !.unconfirmed = ch.row.unconfirmed]
<1>1. secret["lock"] \in RowSet /\ secret \in [Kinds -> RowSet] /\ "lock" \in Kinds
  BY DEF Shapes, Kinds
<1>2. secret' = [secret EXCEPT !["lock"] = r]
  BY <1>1 DEF Begin
<1>3. /\ r.value = secret["lock"].value /\ r.pending = ch.new /\ r.pendingTask = Len(tasks) + 1
      /\ r.unconfirmed = ch.row.unconfirmed
  BY <1>1 DEF RowSet
<1>4. secret'["lock"] = r /\ \A k \in Kinds \ {"lock"} : secret'[k] = secret[k]
  <2> HIDE DEF r
  <2>1. QED BY <1>1, <1>2
<1>5. UNCHANGED <<alert, seen>>
  BY DEF Begin
<1>6. QED BY <1>3, <1>4, <1>5

LEMMA BeginLedger ==
    ASSUME Shapes, Ledger, Lone, NEW c \in Callers, Begin(c)
    PROVE  Ledger'
<1> DEFINE ch == change[c]
           t == Len(tasks) + 1
<1>1. ch.pc = "begin" /\ ch.new \in Passwords /\ ch.kind \in Kinds
      /\ ch.kind \in {"lock", "account"} /\ viewing' = viewing
  BY ChangeIs DEF Shapes, Begin
<1>2. \A d \in Callers : d # c => change'[d] = change[d] /\ change[d].pc = "idle"
  BY <1>1, BegunChange DEF Lone
<1>3. \A d \in Callers : d # c =>
          IF change'[d].kind = "account" THEN AccountChange(change[d])'
          ELSE ~change'[d].rotating => LockChange(change[d])'
  <2>1. ASSUME NEW d \in Callers, d # c
        PROVE  IF change'[d].kind = "account" THEN AccountChange(change[d])'
               ELSE ~change'[d].rotating => LockChange(change[d])'
    <3>1. change'[d] = change[d] /\ change'[d].pc = "idle"
      BY <1>2, <2>1
    <3>2. change[d].kind = "account" => ~change[d].rotating
      BY DEF Ledger, AccountChange
    <3>3. QED BY <3>1, <3>2 DEF AccountChange, LockChange
  <2>2. QED BY <2>1
<1>4. \A w : AccountWord(w) => AccountWord(w)'
  BY Begun DEF AccountWord
<1>5. CASE ch.kind = "lock" /\ ch.rotating
  <2>1. /\ secret'["lock"].value = secret["lock"].value
        /\ secret'["account"] = secret["account"] /\ secret'["bypass"] = secret["bypass"]
        /\ alert' = alert /\ seen' = seen
    BY <1>5, RotationDoes DEF Kinds
  <2>2. RevealOnRecord'
    BY <2>1 DEF Ledger, RevealOnRecord, Kinds
  <2>3. Marked(secret["account"])' /\ secret'["account"].pendingTask = NoTask
    BY <1>1, <2>1 DEF Ledger, Marked
  <2>4. \A w \in (seen["account"] \cup {viewing["account"], secret["account"].value})' : AccountWord(w)'
    BY <1>1, <1>4, <2>1 DEF Ledger
  <2>5. change'[c].rotating /\ change'[c].kind = "lock"
    BY <1>5, BegunChange
  <2>6. QED BY <1>3, <2>2, <2>3, <2>4, <2>5 DEF Ledger
<1>6. CASE ch.kind = "lock" /\ ~ch.rotating
  <2>1. Escrow("lock", ch.new, t)
    BY <1>6 DEF Begin
  <2>2. /\ secret'["lock"].value = ch.new
        /\ secret'["account"] = secret["account"] /\ secret'["bypass"] = secret["bypass"]
        /\ alert'["account"] = alert["account"] /\ alert'["bypass"] = alert["bypass"]
        /\ seen'["account"] = seen["account"] /\ seen'["bypass"] = seen["bypass"]
        /\ seen'["lock"] = seen["lock"] \ {ch.new}
    BY <2>1, EscrowDoes DEF Kinds
  <2>3. RevealOnRecord'
    BY <2>2 DEF Ledger, RevealOnRecord, Kinds
  <2>4. Marked(secret["account"])' /\ secret'["account"].pendingTask = NoTask
    BY <1>1, <2>2 DEF Ledger, Marked
  <2>5. \A w \in (seen["account"] \cup {viewing["account"], secret["account"].value})' : AccountWord(w)'
    BY <1>1, <1>4, <2>2 DEF Ledger
  <2>6. change'[c].kind = "lock" /\ change'[c].pc = "send" /\ change'[c].row = NoRow
    BY <1>1, <1>6, BegunChange DEF Ledger, LockChange
  <2>7. LockChange(change[c])'
    BY <2>6 DEF LockChange
  <2>8. QED BY <1>3, <2>3, <2>4, <2>5, <2>6, <2>7 DEF Ledger
<1>7. CASE ch.kind = "account"
  <2>1. AccountChange(ch) /\ ~ch.rotating /\ ~AccountWord(ch.new)
    BY <1>1, <1>7 DEF Ledger, AccountChange
  <2>2. Escrow("account", ch.new, t)
    BY <1>7, <2>1 DEF Begin
  <2>3. /\ secret'["account"].value = ch.new /\ secret'["account"].pendingTask = NoTask
        /\ secret'["lock"] = secret["lock"] /\ secret'["bypass"] = secret["bypass"]
        /\ alert'["lock"] = alert["lock"] /\ alert'["bypass"] = alert["bypass"]
        /\ seen'["lock"] = seen["lock"] /\ seen'["bypass"] = seen["bypass"]
        /\ seen'["account"] = seen["account"] \ {ch.new}
    BY <2>2, EscrowDoes DEF Kinds
  <2>4. RevealOnRecord'
    BY <2>3 DEF Ledger, RevealOnRecord, Kinds
  <2>5. ch.new \notin seen["account"] \cup {viewing["account"]}
    BY <2>1 DEF Ledger
  <2>6. Marked(secret["account"])'
    BY <1>1, <2>3, <2>5 DEF Marked
  <2>7. \A w : w = ch.new => AccountWord(w)'
    <3>1. /\ t \in DOMAIN tasks' /\ tasks'[t] = NewTask(ch)
          /\ NewTask(ch).kind = "account" /\ NewTask(ch).new = ch.new
      BY <1>7, Begun DEF NewTask
    <3>2. QED BY <3>1 DEF AccountWord
  <2>8. \A w \in (seen["account"] \cup {viewing["account"], secret["account"].value})' : AccountWord(w)'
    BY <1>1, <1>4, <2>3, <2>7 DEF Ledger
  <2>9. /\ change'[c].kind = "account" /\ change'[c].pc = "send" /\ ~change'[c].rotating
        /\ change'[c].new = ch.new /\ change'[c].row = secret["account"]
    BY <1>7, <2>1, BegunChange
  <2>10. AccountWord(secret["account"].value) /\ secret["account"].value # ch.new
    BY <2>1 DEF Ledger
  <2>11. Marked(change[c].row)'
    BY <1>1, <2>3, <2>9 DEF Ledger, Marked
  <2>12. AccountChange(change[c])'
    BY <1>4, <2>3, <2>9, <2>10, <2>11 DEF AccountChange, Ledger
  <2>13. QED BY <1>3, <2>3, <2>4, <2>6, <2>8, <2>9, <2>12 DEF Ledger
<1>8. QED BY <1>1, <1>5, <1>6, <1>7

----------------------------------------------------------------------------
(* sent, aborted, and when the console is used,                           *)

LEMMA FollowsSame ==
    ASSUME NEW c \in Callers, change'[c] = change[c] \/ change'[c] = Idle PROVE Follows(c)
<1>1. CASE change'[c] = change[c]
  BY <1>1 DEF Follows
<1>2. CASE change'[c] = Idle
  BY <1>2 DEF Follows, Idle
<1>3. QED BY <1>1, <1>2

LEMMA SendLedger ==
    ASSUME Shapes, Ledger, NEW c \in Callers, Send(c) PROVE Ledger'
<1>1. \E p \in {"mark", "abort"} : change' = [change EXCEPT ![c].pc = p]
  BY DEF Send, Sent, NotSent
<1>2. PICK p \in {"mark", "abort"} : /\ change'[c] = [change[c] EXCEPT !.pc = p]
                                     /\ \A d \in Callers : d # c => change'[d] = change[d]
  BY <1>1, GoesTo DEF Send
<1>3. change[c] \in ChangeSet /\ change[c].pc = "send"
  BY DEF Shapes, Send
<1>4. Follows(c)
  BY <1>2, <1>3 DEF Follows, ChangeSet
<1>5. \A d \in Callers : Follows(d)
  BY <1>2, <1>4, FollowsSame
<1>6. UNCHANGED <<secret, alert, seen, viewing>>
  BY DEF Send, rows
<1>7. QED BY <1>5, <1>6, SendLasts, SameLedger

LEMMA MarkLedger ==
    ASSUME Shapes, Ledger, NEW c \in Callers, MarkSent(c) PROVE Ledger'
<1>1. \A d \in Callers : Follows(d)
  BY IsDone, FollowsSame DEF MarkSent
<1>2. UNCHANGED <<secret, alert, seen, viewing>>
  BY DEF MarkSent, rows
<1>3. QED BY <1>1, <1>2, MarkLasts, SameLedger

(* A change that was not sent is taken back.                                *)
LEMMA AbortDoes ==
    ASSUME Shapes, NEW c \in Callers, Abort(c)
    PROVE  LET ch == change[c]
               k == ch.kind
           IN  /\ k \in Kinds /\ \A j \in Kinds \ {k} : secret'[j] = secret[j] /\ alert'[j] = alert[j]
               /\ ch.rotating => /\ secret'[k].value = secret[k].value
                                 /\ secret'[k].revealed = secret[k].revealed
                                 /\ secret'[k].pending = NoPassword
                                 /\ secret'[k].pendingTask = NoTask
                                 /\ secret'[k].unconfirmed = ch.row.unconfirmed
                                 /\ alert'[k] = alert[k]
               /\ ~ch.rotating => /\ secret'[k] = ch.row
                                  /\ alert'[k] = (alert[k] \/ ch.row.revealed)
<1> DEFINE ch == change[c]
           k == ch.kind
<1>1. k \in Kinds /\ secret[k] \in RowSet /\ DOMAIN secret = Kinds /\ DOMAIN alert = Kinds
  BY ChangeIs DEF Shapes
<1>2. CASE ch.rotating
  <2> DEFINE r == [Cleared(secret[k]) EXCEPT !.unconfirmed = ch.row.unconfirmed]
  <2>1. secret' = [secret EXCEPT ![k] = r] /\ alert' = alert
    BY <1>1, <1>2 DEF Abort
  <2>2. /\ r.value = secret[k].value /\ r.revealed = secret[k].revealed
        /\ r.pending = NoPassword /\ r.pendingTask = NoTask
        /\ r.unconfirmed = ch.row.unconfirmed
    BY <1>1 DEF Cleared, RowSet
  <2>3. secret'[k] = r /\ \A j \in Kinds \ {k} : secret'[j] = secret[j]
    <3> HIDE DEF r
    <3>1. QED BY <1>1, <2>1
  <2>4. QED BY <1>1, <1>2, <2>1, <2>2, <2>3
<1>3. CASE ~ch.rotating
  <2>1. secret' = [secret EXCEPT ![k] = ch.row]
        /\ alert' = [alert EXCEPT ![k] = Reopened(k, ch.row)]
    BY <1>3 DEF Abort
  <2>2. Reopened(k, ch.row) = (alert[k] \/ ch.row.revealed)
    BY DEF Reopened
  <2>3. QED BY <1>1, <1>3, <2>1, <2>2
<1>4. QED BY <1>2, <1>3

LEMMA AbortLedger ==
    ASSUME Shapes, Ledger, Lone, NEW c \in Callers, Abort(c) PROVE Ledger'
<1> DEFINE ch == change[c]
           k == ch.kind
<1>1. /\ ch.pc = "abort" /\ seen' = seen /\ viewing' = viewing
      /\ k \in {"lock", "account"} /\ ch.row \in RowSet
      /\ \A j \in Kinds : seen[j] \subseteq Passwords
  BY ChangeIs DEF Abort, Shapes
<1>2. \A d \in Callers : Follows(d)
  BY IsDone, FollowsSame DEF Abort
<1>3. \A w : AccountWord(w)' <=> AccountWord(w)
  BY AbortLasts, WordsLast
<1>4. CASE ch.rotating
  <2>1. k = "lock"
    BY <1>1, <1>4 DEF Ledger, AccountChange
  <2>2. /\ secret'["lock"].value = secret["lock"].value /\ alert'["lock"] = alert["lock"]
        /\ \A j \in Kinds \ {"lock"} : secret'[j] = secret[j] /\ alert'[j] = alert[j]
    BY <1>4, <2>1, AbortDoes
  <2>3. RevealOnRecord'
    BY <1>1, <2>2 DEF Ledger, RevealOnRecord, Kinds
  <2>4. secret'["account"] = secret["account"]
    BY <2>2 DEF Kinds
  <2>5. \A d \in Callers : change'[d].pc # "begin"
    BY <1>1, IsDone DEF Lone, Abort, Idle
  <2>6. LedgerCalm
    BY <1>1, <1>2, <1>3, <2>3, <2>4, <2>5 DEF LedgerCalm
  <2>7. QED BY <2>6, CalmLedger
<1>5. CASE ~ch.rotating /\ k = "lock"
  <2>1. ch.row = NoRow
    BY <1>1, <1>5 DEF Ledger, LockChange
  <2>2. /\ secret'["lock"] = NoRow
        /\ \A j \in Kinds \ {"lock"} : secret'[j] = secret[j] /\ alert'[j] = alert[j]
    BY <1>5, <2>1, AbortDoes
  <2>3. secret'["lock"].value \notin seen'["lock"]
    BY <1>1, <2>2, Blanks DEF NoRow, Kinds
  <2>4. RevealOnRecord'
    BY <1>1, <2>2, <2>3 DEF Ledger, RevealOnRecord, Kinds
  <2>5. secret'["account"] = secret["account"]
    BY <2>2 DEF Kinds
  <2>6. LedgerCalm
    BY <1>1, <1>2, <1>3, <2>2, <2>4, <2>5 DEF LedgerCalm
  <2>7. QED BY <2>6, CalmLedger
<1>6. CASE ~ch.rotating /\ k = "account"
  <2>1. AccountChange(ch)
    BY <1>6 DEF Ledger
  <2>2. /\ secret'["account"] = ch.row /\ alert'["account"] = (alert["account"] \/ ch.row.revealed)
        /\ \A j \in Kinds \ {"account"} : secret'[j] = secret[j] /\ alert'[j] = alert[j]
    BY <1>6, AbortDoes
  <2>3. Marked(ch.row) /\ AccountWord(ch.row.value) /\ ch.row.pendingTask = NoTask
    BY <1>1, <2>1 DEF AccountChange
  <2>4. ch.row.value \in seen["account"] => alert'["account"]
    BY <1>1, <2>2, <2>3, Blanks DEF Marked, Kinds
  <2>5. RevealOnRecord'
    BY <1>1, <2>2, <2>4 DEF Ledger, RevealOnRecord, Kinds
  <2>6. Marked(secret["account"])'
    BY <1>1, <2>2, <2>3 DEF Marked
  <2>7. \A w \in (seen["account"] \cup {viewing["account"], secret["account"].value})' : AccountWord(w)'
    BY <1>1, <1>3, <2>2, <2>3 DEF Ledger
  <2>8. ASSUME NEW d \in Callers
        PROVE  IF change'[d].kind = "account" THEN AccountChange(change[d])'
               ELSE ~change'[d].rotating => LockChange(change[d])'
    <3>1. CASE d = c
      BY <3>1, IsDone DEF Abort, Idle, LockChange
    <3>2. CASE d # c
      <4>1. change'[d] = change[d] /\ change[d].pc = "idle"
        BY <1>1, <3>2, IsDone DEF Abort, Lone
      <4>2. change[d].kind = "account" => ~change[d].rotating
        BY DEF Ledger, AccountChange
      <4>3. QED BY <4>1, <4>2 DEF AccountChange, LockChange
    <3>3. QED BY <3>1, <3>2
  <2>9. QED BY <2>2, <2>3, <2>5, <2>6, <2>7, <2>8 DEF Ledger
<1>7. QED BY <1>1, <1>4, <1>5, <1>6

----------------------------------------------------------------------------
(* and when an answer settles a row.                                      *)

LEMMA AcknowledgeDoes ==
    ASSUME Shapes, NEW t \in DOMAIN tasks, Acknowledge(t)
    PROVE  LET k == tasks[t].kind
               s == Settle(secret[k], t)
           IN  /\ k \in {"lock", "account"} /\ k \in Kinds /\ secret'[k] = s
               /\ \A j \in Kinds \ {k} : /\ secret'[j] = secret[j] /\ alert'[j] = alert[j]
                                         /\ seen'[j] = seen[j]
               /\ IF s.value # secret[k].value THEN seen'[k] = seen[k] \ {s.value}
                  ELSE seen'[k] = seen[k] /\ alert'[k] = alert[k]
<1> DEFINE k == tasks[t].kind
           s == Settle(secret[k], t)
           promoted == s.value # secret[k].value
<1>1. k \in {"lock", "account"} /\ k \in Kinds
  BY TaskWrites DEF TaskSet, TaskKinds, Kinds
<1>2. DOMAIN secret = Kinds /\ alert \in [Kinds -> BOOLEAN] /\ DOMAIN seen = Kinds
  BY DEF Shapes
<1>3. /\ secret' = [secret EXCEPT ![k] = s]
      /\ alert' = [alert EXCEPT ![k] = @ /\ ~promoted]
      /\ seen' = [seen EXCEPT ![k] = IF promoted THEN @ \ {s.value} ELSE @]
  BY DEF Acknowledge
<1> HIDE DEF s
<1>4. QED BY <1>1, <1>2, <1>3 DEF s

LEMMA AcknowledgeLedger ==
    ASSUME Shapes, Ledger, NEW t \in DOMAIN tasks, Acknowledge(t) PROVE Ledger'
<1> DEFINE k == tasks[t].kind
           s == Settle(secret[k], t)
<1>1. /\ k \in {"lock", "account"} /\ k \in Kinds /\ secret'[k] = s
      /\ \A j \in Kinds \ {k} : /\ secret'[j] = secret[j] /\ alert'[j] = alert[j]
                                /\ seen'[j] = seen[j]
      /\ IF s.value # secret[k].value THEN seen'[k] = seen[k] \ {s.value}
         ELSE seen'[k] = seen[k] /\ alert'[k] = alert[k]
  BY AcknowledgeDoes
<1>2. secret[k] \in RowSet /\ t # NoTask
  <2>1. DOMAIN tasks = 1 .. Len(tasks)
    BY TaskWrites
  <2>2. t # NoTask
    BY <2>1 DEF NoTask
  <2>3. QED BY <1>1, <2>2 DEF Shapes
<1> HIDE DEF s
<1>3. RevealOnRecord'
  BY <1>1 DEF Ledger, RevealOnRecord
<1>4. /\ secret'["account"].value = secret["account"].value
      /\ secret'["account"].revealed = secret["account"].revealed
      /\ secret'["account"].pendingTask = secret["account"].pendingTask
      /\ seen'["account"] = seen["account"]
  <2>1. CASE k = "lock"
    BY <1>1, <2>1 DEF Kinds
  <2>2. CASE k = "account"
    <3>1. secret["account"].pendingTask # t
      BY <1>2 DEF Ledger
    <3>2. /\ s.value = secret["account"].value /\ s.revealed = secret["account"].revealed
          /\ s.pendingTask = secret["account"].pendingTask
      BY <1>2, <2>2, <3>1, SettleDoes DEF s
    <3>3. QED BY <1>1, <2>2, <3>2
  <2>3. QED BY <1>1, <2>1, <2>2
<1>5. secret["lock"] = NoRow => secret'["lock"] = NoRow
  <2>1. CASE k = "lock" /\ secret["lock"] = NoRow
    <3>1. secret["lock"].pendingTask # t /\ secret["lock"].unconfirmed # t
      BY <1>2, <2>1 DEF NoRow
    <3>2. s = secret["lock"]
      BY <1>2, <2>1, <3>1, SettleDoes DEF s
    <3>3. QED BY <1>1, <2>1, <3>2
  <2>2. CASE k = "account"
    BY <1>1, <2>2 DEF Kinds
  <2>3. QED BY <1>1, <2>1, <2>2
<1>6. UNCHANGED <<tasks, change, viewing>>
  BY DEF Acknowledge
<1>7. LedgerCalm
  BY <1>3, <1>4, <1>5, <1>6, FollowsSame DEF LedgerCalm, AccountWord
<1>8. QED BY <1>7, CalmLedger

LEMMA RevealLedger ==
    ASSUME Shapes, Ledger, NEW k \in Kinds, Reveal(k) PROVE Ledger'
<1> DEFINE r == [secret[k] EXCEPT !.revealed = TRUE]
<1>1. secret[k] \in RowSet /\ DOMAIN secret = Kinds /\ DOMAIN viewing = Kinds
  BY DEF Shapes
<1>2. /\ r.value = secret[k].value /\ r.revealed = TRUE /\ r.pendingTask = secret[k].pendingTask
  BY <1>1 DEF RowSet
<1>3. secret' = [secret EXCEPT ![k] = r]
  BY <1>1 DEF Reveal
<1> HIDE DEF r
<1>4. secret'[k] = r /\ \A j \in Kinds \ {k} : secret'[j] = secret[j]
  BY <1>1, <1>3
<1>5. /\ viewing'[k] = secret[k].value /\ \A j \in Kinds \ {k} : viewing'[j] = viewing[j]
      /\ UNCHANGED <<alert, seen, tasks, change>> /\ Stored(k) /\ viewing[k] = NoPassword
  BY <1>1 DEF Reveal
<1>6. RevealOnRecord'
  BY <1>2, <1>4, <1>5 DEF Ledger, RevealOnRecord
<1>7. CASE k = "account"
  <2>1. Marked(secret["account"])' /\ secret'["account"].pendingTask = NoTask
    BY <1>2, <1>4, <1>7 DEF Marked, Ledger
  <2>2. \A w \in (seen["account"] \cup {viewing["account"], secret["account"].value})' : AccountWord(w)'
    BY <1>2, <1>4, <1>5, <1>7 DEF Ledger, AccountWord
  <2>3. ASSUME NEW c \in Callers
        PROVE  IF change'[c].kind = "account" THEN AccountChange(change[c])'
               ELSE ~change'[c].rotating => LockChange(change[c])'
    <3>1. CASE change[c].kind = "account"
      <4>1. AccountChange(change[c])
        BY <3>1 DEF Ledger
      <4>2. change[c].pc \in {"send", "abort"} => Marked(change[c].row)'
        BY <1>5, <1>7, <4>1 DEF AccountChange, Marked
      <4>3. QED BY <1>2, <1>4, <1>5, <1>7, <3>1, <4>1, <4>2 DEF AccountChange, AccountWord
    <3>2. CASE change[c].kind # "account"
      <4>1. secret'["lock"] = secret["lock"]
        BY <1>4, <1>7 DEF Kinds
      <4>2. QED BY <1>5, <3>2, <4>1 DEF Ledger, LockChange
    <3>3. QED BY <3>1, <3>2
  <2>4. QED BY <1>6, <2>1, <2>2, <2>3 DEF Ledger
<1>8. CASE k # "account"
  <2>1. secret'["account"] = secret["account"] /\ viewing'["account"] = viewing["account"]
    BY <1>4, <1>5, <1>8 DEF Kinds
  <2>2. secret["lock"] = NoRow => secret'["lock"] = NoRow
    BY <1>4, <1>5 DEF Stored, Kinds
  <2>3. LedgerCalm
    BY <1>5, <1>6, <2>1, <2>2, FollowsSame DEF LedgerCalm, AccountWord
  <2>4. QED BY <2>3, CalmLedger
<1>9. QED BY <1>7, <1>8

LEMMA ConsoleLedger ==
    ASSUME Shapes, Ledger, NEW k \in Kinds, RaiseAlert(k) \/ CloseAlert(k) PROVE Ledger'
<1>1. UNCHANGED <<secret, tasks, change>>
  BY DEF RaiseAlert, CloseAlert
<1>2. RevealOnRecord'
  BY DEF RaiseAlert, CloseAlert, Ledger, RevealOnRecord, Shapes
<1>3. seen'["account"] \cup {viewing'["account"]}
          \subseteq seen["account"] \cup {viewing["account"], NoPassword}
  <2>1. CASE RaiseAlert(k)
    <3>1. /\ viewing' = [viewing EXCEPT ![k] = NoPassword]
          /\ seen' = [seen EXCEPT ![k] = @ \cup {viewing[k]}]
          /\ DOMAIN viewing = Kinds /\ DOMAIN seen = Kinds /\ "account" \in Kinds
      BY <2>1 DEF RaiseAlert, Shapes, Kinds
    <3>2. QED BY <3>1
  <2>2. CASE CloseAlert(k)
    <3>1. /\ viewing' = viewing /\ seen' = [seen EXCEPT ![k] = {}]
          /\ DOMAIN seen = Kinds /\ "account" \in Kinds
      BY <2>2 DEF CloseAlert, Shapes, Kinds
    <3>2. QED BY <3>1
  <2>3. QED BY <2>1, <2>2
<1>4. LedgerCalm
  BY <1>1, <1>2, <1>3, FollowsSame DEF LedgerCalm, AccountWord
<1>5. QED BY <1>4, CalmLedger

LEMMA BypassLedger ==
    ASSUME Shapes, Ledger, Fetch \/ \E code \in Passwords : Wiped(code) PROVE Ledger'
<1>1. UNCHANGED <<tasks, change, viewing>>
  BY DEF Fetch, Wiped
<1>2. \A j \in Kinds \ {"bypass"} : /\ secret'[j] = secret[j] /\ alert'[j] = alert[j]
                                    /\ seen'[j] = seen[j]
  <2>1. CASE Fetch
    BY <2>1, EscrowDoes DEF Fetch, Kinds
  <2>2. CASE \E code \in Passwords : Wiped(code)
    BY <2>2 DEF Wiped, Shapes
  <2>3. QED BY <2>1, <2>2
<1>3. secret'["bypass"].value \in seen'["bypass"] => alert'["bypass"]
  <2>1. CASE Fetch
    <3>1. Escrow("bypass", mac.bypass, NoTask) /\ "bypass" \in Kinds
      BY <2>1 DEF Fetch, Kinds
    <3>2. /\ secret'["bypass"].value = mac.bypass
          /\ mac.bypass \in seen'["bypass"] => /\ alert'["bypass"] = alert["bypass"]
                                               /\ mac.bypass \in seen["bypass"]
                                               /\ secret["bypass"].value = mac.bypass
      BY <3>1, EscrowDoes
    <3>3. QED BY <3>1, <3>2 DEF Ledger, RevealOnRecord
  <2>2. CASE \E code \in Passwords : Wiped(code)
    BY <2>2 DEF Wiped, Shapes, Kinds
  <2>3. QED BY <2>1, <2>2
<1>4. RevealOnRecord'
  BY <1>2, <1>3 DEF Ledger, RevealOnRecord
<1>5. /\ secret'["account"] = secret["account"] /\ secret'["lock"] = secret["lock"]
      /\ seen'["account"] = seen["account"]
  BY <1>2 DEF Kinds
<1>6. LedgerCalm
  BY <1>1, <1>4, <1>5, FollowsSame DEF LedgerCalm, AccountWord
<1>7. QED BY <1>6, CalmLedger

LEMMA LedgerStays ==
    ASSUME "two" \notin Overlaps, "again" \notin Overlaps, Shapes, Lone, Ledger, [Next]_vars
    PROVE  Ledger'
<1>1. ASSUME NEW c \in Callers, Change(c) PROVE Ledger'
  BY <1>1, PlanLockLedger, PlanAccountLedger, BeginLedger, SendLedger, MarkLedger, AbortLedger
     DEF Change
<1>2. CASE Device
  <2>1. UNCHANGED <<secret, alert, seen, viewing, change>>
    BY <1>2 DEF Device, Take, LeaveSetupAssistant, Reenroll, LoseAnswer, Receive, Discard, rows
  <2>2. TasksLast
    <3>1. CASE UNCHANGED tasks
      BY <3>1 DEF TasksLast
    <3>2. CASE Reenroll \/ \E a \in air : Receive(a)
      BY <3>2, ReenrollLasts, ReceiveLasts
    <3>3. QED BY <1>2, <3>1, <3>2 DEF Device, Take, LeaveSetupAssistant, LoseAnswer, Discard
  <2>3. QED BY <2>1, <2>2, FollowsSame, SameLedger
<1>3. CASE Console
  BY <1>3, RevealLedger, ConsoleLedger DEF Console
<1>4. CASE Restart
  <2>1. UNCHANGED <<secret, alert, seen, tasks>> /\ (\A c \in Callers : Follows(c))
        /\ viewing'["account"] = NoPassword
    BY <1>4, FollowsSame DEF Restart, rows, Kinds
  <2>2. RevealOnRecord'
    BY <2>1 DEF Ledger, RevealOnRecord
  <2>3. LedgerCalm
    BY <2>1, <2>2 DEF LedgerCalm, AccountWord
  <2>4. QED BY <2>3, CalmLedger
<1>5. CASE Fetch \/ \E code \in Passwords : Wiped(code)
  BY <1>5, BypassLedger
<1>6. ASSUME NEW t \in DOMAIN tasks, NEW s \in {"cancelled", "timed out"}, End(t, s)
      PROVE  Ledger'
  <2>1. UNCHANGED <<secret, alert, seen, viewing, change>>
    BY <1>6 DEF End, rows
  <2>2. QED BY <1>6, <2>1, EndLasts, FollowsSame, SameLedger
<1>7. CASE UNCHANGED vars
  <2>1. UNCHANGED <<secret, alert, seen, viewing, change, tasks>>
    BY <1>7 DEF vars, rows
  <2>2. TasksLast
    BY <2>1 DEF TasksLast
  <2>3. QED BY <2>1, <2>2, FollowsSame, SameLedger
<1>8. QED
  BY <1>1, <1>2, <1>3, <1>4, <1>5, <1>6, <1>7, AcknowledgeLedger DEF Next

(* While a revealed password is the stored one its alert is open, if two    *)
(* changes are not under way at once and no account password is set twice.  *)
THEOREM RevealsStayOnRecord ==
    ASSUME {"two", "again"} \cap Overlaps = {} PROVE Spec => []RevealOnRecord
<1>1. Init => Shapes /\ Lone /\ Ledger
  BY InitShapes, LoneInit, InitLedger
<1>2. Shapes /\ Lone /\ Ledger /\ [Next]_vars => (Shapes /\ Lone /\ Ledger)'
  BY ShapesStay, LoneStays, LedgerStays
<1>3. Ledger => RevealOnRecord
  BY DEF Ledger
<1>4. QED BY <1>1, <1>2, <1>3, PTL DEF Spec

----------------------------------------------------------------------------
(* Commands. A task, its place in the queue and its answer.               *)

(* NanoMDM hands out the commands in the order they were queued; what a     *)
(* command's task, its place in the queue and its answer say of each other. *)
InQueue(t) == \E i \in DOMAIN queue : queue[i] = t
Command(t) ==
    /\ InQueue(t) => tasks[t].queued /\ tasks[t].status \notin Ended
    /\ tasks[t].sent => tasks[t].queued
    /\ tasks[t].changed => tasks[t].status = "completed" /\ tasks[t].sent
    /\ \A x \in Said : <<t, x>> \in air =>
          /\ tasks[t].queued /\ ~InQueue(t) /\ tasks[t].status \notin Ended
          /\ \A y \in Said : <<t, y>> \in air => x = y
    /\ t \in acks => tasks[t].sent /\ tasks[t].status \in Ended
Commands ==
    /\ \A i, j \in DOMAIN queue : i < j => queue[i] < queue[j]
    /\ \A t \in DOMAIN tasks : Command(t)

(* The task of a change that is being sent is the last one made.            *)
Busy(c) == change[c].pc \in {"send", "mark", "abort"}
Caller(c) ==
    LET ch == change[c]
        t == ch.task
    IN  /\ Busy(c) => /\ t = Len(tasks) /\ t \in DOMAIN tasks
                      /\ tasks[t].kind = ch.kind /\ tasks[t].new = ch.new
                      /\ ~tasks[t].sent /\ tasks[t].status \notin Ended
        /\ ch.pc \in {"send", "abort"} => ~tasks[t].queued
        /\ ch.pc = "mark" => tasks[t].queued
CallersOk == \A c \in Callers : Caller(c)

LEMMA QueueIs ==
    ASSUME Shapes
    PROVE  /\ \A i \in DOMAIN queue : queue[i] \in DOMAIN tasks
           /\ \A t : InQueue(t) => t \in DOMAIN tasks
           /\ DOMAIN queue = 1 .. Len(queue) /\ Len(queue) \in Nat
           /\ DOMAIN tasks = 1 .. Len(tasks) /\ Len(tasks) \in Nat
           /\ ~InQueue(NoTask) /\ NoTask \notin DOMAIN tasks
<1>1. queue \in Seq(DOMAIN tasks) /\ tasks \in Seq(TaskSet)
  BY DEF Shapes
<1>2. /\ \A i \in DOMAIN queue : queue[i] \in DOMAIN tasks
      /\ DOMAIN queue = 1 .. Len(queue) /\ Len(queue) \in Nat
      /\ DOMAIN tasks = 1 .. Len(tasks) /\ Len(tasks) \in Nat
  BY <1>1, Domain
<1>3. NoTask \notin DOMAIN tasks
  BY <1>2 DEF NoTask
<1>4. QED BY <1>2, <1>3 DEF InQueue

(* A command that a step leaves alone, or forgets part of.                  *)
LEMMA CommandStays ==
    ASSUME NEW t, Command(t), tasks'[t] = tasks[t], InQueue(t)' => InQueue(t),
           \A x \in Said : <<t, x>> \in air' => <<t, x>> \in air,
           t \in acks' => t \in acks
    PROVE  Command(t)'
BY DEF Command

LEMMA CommandsStay ==
    ASSUME Commands, tasks' = tasks, queue' = queue, air' \subseteq air, acks' \subseteq acks
    PROVE  Commands'
<1>1. \A t : InQueue(t)' <=> InQueue(t)
  BY DEF InQueue
<1>2. \A t \in DOMAIN tasks : Command(t)'
  BY <1>1, CommandStays DEF Commands
<1>3. QED BY <1>2 DEF Commands

(* One task is written, none is queued or answered.                         *)
LEMMA OneCommand ==
    ASSUME Commands, NEW t \in DOMAIN tasks, DOMAIN tasks' = DOMAIN tasks,
           \A s \in DOMAIN tasks : s # t => tasks'[s] = tasks[s],
           queue' = queue, air' \subseteq air, acks' \subseteq acks \cup {t}, Command(t)'
    PROVE  Commands'
<1>1. \A s : InQueue(s)' <=> InQueue(s)
  BY DEF InQueue
<1>2. \A s \in DOMAIN tasks : s # t => Command(s)'
  BY <1>1, CommandStays DEF Commands
<1>3. QED BY <1>2 DEF Commands

LEMMA BeginCommands ==
    ASSUME Shapes, Commands, NEW c \in Callers, Begin(c) PROVE Commands'
<1>0. PICK n : n = Len(tasks) + 1
  OBVIOUS
<1>1. /\ DOMAIN tasks' = DOMAIN tasks \cup {n} /\ n \notin DOMAIN tasks
      /\ \A t \in DOMAIN tasks : tasks'[t] = tasks[t]
      /\ tasks'[n] = NewTask(change[c])
  BY <1>0, Begun
<1>2. UNCHANGED <<queue, air, acks>>
  BY DEF Begin
<1>3. \A t : InQueue(t)' <=> InQueue(t)
  BY <1>2 DEF InQueue
<1>4. \A t \in DOMAIN tasks : Command(t)'
  BY <1>1, <1>2, <1>3, CommandStays DEF Commands
<1>5. Command(n)'
  <2>1. ~InQueue(n)' /\ n \notin acks' /\ \A x \in Said : <<n, x>> \notin air'
    <3>1. ~InQueue(n)
      BY <1>1, QueueIs
    <3>2. n \notin acks /\ \A x \in Said : <<n, x>> \notin air
      BY <1>1 DEF Shapes
    <3>3. QED BY <1>2, <1>3, <3>1, <3>2
  <2>2. ~tasks'[n].sent /\ ~tasks'[n].changed
    BY <1>1 DEF NewTask
  <2>3. QED BY <2>1, <2>2 DEF Command
<1>6. QED BY <1>1, <1>2, <1>4, <1>5 DEF Commands

(* The last task made, not queued yet, goes to the end of the queue.        *)
LEMMA EnqueueCommands ==
    ASSUME Shapes, Commands, NEW t \in DOMAIN tasks, t = Len(tasks), Enqueue(t),
           ~tasks[t].queued, tasks[t].status \notin Ended, UNCHANGED <<air, acks>>
    PROVE  /\ Commands' /\ InQueue(t)' /\ \A s : s # t => (InQueue(s)' <=> InQueue(s))
           /\ ~InQueue(t) /\ tasks'[t] = [tasks[t] EXCEPT !.queued = TRUE]
<1> DEFINE n == Len(queue) + 1
<1>1. /\ DOMAIN tasks' = DOMAIN tasks /\ tasks'[t] = [tasks[t] EXCEPT !.queued = TRUE]
      /\ \A s \in DOMAIN tasks : s # t => tasks'[s] = tasks[s]
      /\ DOMAIN queue' = DOMAIN queue \cup {n} /\ n \notin DOMAIN queue
      /\ DOMAIN queue = 1 .. Len(queue) /\ Len(queue) \in Nat
      /\ \A i \in DOMAIN queue : queue'[i] = queue[i]
      /\ queue'[n] = t
  BY Enqueued
<1>2. Command(t) /\ ~InQueue(t) /\ ~tasks[t].sent /\ ~tasks[t].changed /\ t \notin acks
      /\ \A x \in Said : <<t, x>> \notin air
  BY DEF Commands, Command
<1>3. InQueue(t)' /\ \A s : s # t => (InQueue(s)' <=> InQueue(s))
  BY <1>1 DEF InQueue
<1>4. \A s \in DOMAIN tasks : s # t => Command(s)'
  BY <1>1, <1>3, CommandStays DEF Commands
<1>5. Command(t)'
  <2>1. /\ tasks'[t].queued /\ tasks'[t].sent = tasks[t].sent
        /\ tasks'[t].changed = tasks[t].changed /\ tasks'[t].status = tasks[t].status
    <3>1. tasks[t] \in TaskSet
      BY TaskWrites
    <3>2. QED BY <1>1, <3>1 DEF TaskSet
  <2>2. QED BY <1>2, <2>1 DEF Command
<1>6. \A i, j \in DOMAIN queue' : i < j => queue'[i] < queue'[j]
  <2>1. ASSUME NEW i \in DOMAIN queue', NEW j \in DOMAIN queue', i < j
        PROVE  queue'[i] < queue'[j]
    <3>1. CASE j \in DOMAIN queue
      BY <1>1, <2>1, <3>1 DEF Commands
    <3>2. CASE j = n
      <4>1. i \in DOMAIN queue /\ queue'[i] = queue[i] /\ queue'[j] = t
        BY <1>1, <2>1, <3>2
      <4>2. queue[i] \in 1 .. Len(tasks) /\ queue[i] # t
        BY <1>2, <4>1, QueueIs DEF InQueue
      <4>3. QED BY <4>1, <4>2, QueueIs
    <3>3. QED BY <1>1, <2>1, <3>1, <3>2
  <2>2. QED BY <2>1
<1>7. QED BY <1>1, <1>2, <1>3, <1>4, <1>5, <1>6 DEF Commands

----------------------------------------------------------------------------
(* The queue when a command is marked, aborted or taken,                  *)

LEMMA MarkCommands ==
    ASSUME Shapes, Commands, CallersOk, NEW c \in Callers, MarkSent(c) PROVE Commands'
<1>0. PICK t : t = change[c].task
  OBVIOUS
<1>1. /\ t \in DOMAIN tasks /\ DOMAIN tasks' = DOMAIN tasks
      /\ tasks'[t] = [tasks[t] EXCEPT !.status = "running", !.sent = TRUE]
      /\ \A s \in DOMAIN tasks : s # t => tasks'[s] = tasks[s]
  BY <1>0, MarkSentWrites
<1>2. ~tasks[t].sent /\ tasks[t].queued /\ Command(t) /\ UNCHANGED <<queue, air, acks>>
  BY <1>0, <1>1 DEF MarkSent, CallersOk, Caller, Busy, Commands
<1>3. /\ tasks'[t].status = "running" /\ tasks'[t].sent /\ tasks'[t].queued
      /\ tasks'[t].changed = tasks[t].changed
  <2>1. tasks[t] \in TaskSet
    BY <1>1, TaskWrites
  <2>2. QED BY <1>1, <1>2, <2>1 DEF TaskSet
<1>4. Command(t)'
  <2>1. InQueue(t)' <=> InQueue(t)
    BY <1>2 DEF InQueue
  <2>2. ~tasks[t].changed /\ t \notin acks
    BY <1>2 DEF Command
  <2>3. QED BY <1>2, <1>3, <2>1, <2>2 DEF Command, Ended
<1>5. QED BY <1>1, <1>2, <1>4, OneCommand

LEMMA AbortCommands ==
    ASSUME Shapes, Commands, CallersOk, NEW c \in Callers, Abort(c) PROVE Commands'
<1>0. PICK t : t = change[c].task
  OBVIOUS
<1>1. /\ t \in DOMAIN tasks /\ DOMAIN tasks' = DOMAIN tasks
      /\ tasks'[t] = [tasks[t] EXCEPT !.status = "failed"]
      /\ \A s \in DOMAIN tasks : s # t => tasks'[s] = tasks[s]
  BY <1>0, AbortWrites
<1>2. ~tasks[t].sent /\ ~tasks[t].queued /\ Command(t) /\ UNCHANGED <<queue, air, acks>>
  BY <1>0, <1>1 DEF Abort, CallersOk, Caller, Busy, Commands
<1>3. ~tasks'[t].sent /\ ~tasks'[t].queued /\ tasks'[t].changed = tasks[t].changed
  <2>1. tasks[t] \in TaskSet
    BY <1>1, TaskWrites
  <2>2. QED BY <1>1, <1>2, <2>1 DEF TaskSet
<1>4. Command(t)'
  <2>1. InQueue(t)' <=> InQueue(t)
    BY <1>2 DEF InQueue
  <2>2. ~tasks[t].changed /\ t \notin acks /\ ~InQueue(t) /\ \A x \in Said : <<t, x>> \notin air
    BY <1>2 DEF Command
  <2>3. QED BY <1>2, <1>3, <2>1, <2>2 DEF Command
<1>5. QED BY <1>1, <1>2, <1>4, OneCommand

(* The Mac takes the oldest command: no other place in the queue is its.    *)
LEMMA TakeDoes ==
    ASSUME Shapes, Commands, Take
    PROVE  \E t \in DOMAIN tasks, x \in Said :
             /\ x \in Answers(t) /\ InQueue(t) /\ ~InQueue(t)'
             /\ \A s : s # t => (InQueue(s)' <=> InQueue(s))
             /\ \A s : InQueue(s) => s >= t
             /\ mac' = IF x = "changed"
                       THEN IF tasks[t].kind = "lock"
                            THEN [mac EXCEPT !.lock = tasks[t].new]
                            ELSE [mac EXCEPT !.account = tasks[t].new]
                       ELSE mac
             /\ air' = air \cup {<<t, x>>}
             /\ UNCHANGED <<secret, alert, tasks, change, acks>>
             /\ \A i, j \in DOMAIN queue' : i < j => queue'[i] < queue'[j]
<1>1. PICK t \in DOMAIN tasks, x \in Said :
             /\ queue # <<>> /\ t = Head(queue) /\ t = queue[1] /\ 1 \in DOMAIN queue
             /\ x \in Answers(t)
             /\ mac' = IF x = "changed"
                       THEN IF tasks[t].kind = "lock"
                            THEN [mac EXCEPT !.lock = tasks[t].new]
                            ELSE [mac EXCEPT !.account = tasks[t].new]
                       ELSE mac
             /\ air' = air \cup {<<t, x>>}
             /\ queue' = Tail(queue) /\ queue' \in Seq(DOMAIN tasks)
             /\ \A i \in DOMAIN queue' : i + 1 \in DOMAIN queue /\ queue'[i] = queue[i + 1]
  BY Taken
<1>2. /\ DOMAIN queue = 1 .. Len(queue) /\ Len(queue) \in Nat
      /\ \A i \in DOMAIN queue : queue[i] \in Nat
  BY QueueIs
<1>3. /\ \A i \in DOMAIN queue' : i \in Nat /\ i \in 1 .. Len(queue')
      /\ \A j \in DOMAIN queue : j = 1 \/ (j - 1 \in DOMAIN queue' /\ queue'[j - 1] = queue[j])
  <2>1. queue \in Seq(DOMAIN tasks)
    BY DEF Shapes
  <2>2. \A j \in DOMAIN queue : j = 1 \/ (j - 1 \in DOMAIN queue' /\ queue'[j - 1] = queue[j])
    BY <1>1, <2>1, TailOf
  <2>3. DOMAIN queue' = 1 .. Len(queue') /\ Len(queue') \in Nat
    BY <1>1, Domain
  <2>4. QED BY <2>2, <2>3
<1>4. InQueue(t) /\ \A s : InQueue(s) => s >= t
  BY <1>1, <1>2 DEF InQueue, Commands
<1>5. ~InQueue(t)'
  <2>1. ASSUME NEW i \in DOMAIN queue', queue'[i] = t PROVE FALSE
    <3>1. i + 1 \in DOMAIN queue /\ queue[i + 1] = t /\ 1 < i + 1 /\ queue[1] = t
      BY <1>1, <1>3, <2>1
    <3>2. queue[1] < queue[i + 1]
      BY <1>1, <3>1 DEF Commands
    <3>3. QED BY <1>1, <1>2, <3>1, <3>2
  <2>2. QED BY <2>1 DEF InQueue
<1>6. \A s : s # t => (InQueue(s)' <=> InQueue(s))
  <2>1. ASSUME NEW s, InQueue(s)' PROVE InQueue(s)
    BY <1>1, <2>1 DEF InQueue
  <2>2. ASSUME NEW s, s # t, InQueue(s) PROVE InQueue(s)'
    BY <1>1, <1>3, <2>2 DEF InQueue
  <2>3. QED BY <2>1, <2>2
<1>7. \A i, j \in DOMAIN queue' : i < j => queue'[i] < queue'[j]
  <2>1. ASSUME NEW i \in DOMAIN queue', NEW j \in DOMAIN queue', i < j
        PROVE  queue'[i] < queue'[j]
    <3>1. i + 1 \in DOMAIN queue /\ j + 1 \in DOMAIN queue /\ i + 1 < j + 1
          /\ queue'[i] = queue[i + 1] /\ queue'[j] = queue[j + 1]
      BY <1>1, <1>3, <2>1
    <3>2. QED BY <3>1 DEF Commands
  <2>2. QED BY <2>1
<1>8. UNCHANGED <<secret, alert, tasks, change, acks>>
  BY DEF Take, rows
<1>9. QED BY <1>1, <1>4, <1>5, <1>6, <1>7, <1>8

LEMMA TakeCommands == ASSUME Shapes, Commands, Take PROVE Commands'
<1>1. PICK t \in DOMAIN tasks, x \in Said :
             /\ x \in Answers(t) /\ InQueue(t) /\ ~InQueue(t)'
             /\ \A s : s # t => (InQueue(s)' <=> InQueue(s))
             /\ air' = air \cup {<<t, x>>} /\ UNCHANGED <<tasks, acks>>
             /\ \A i, j \in DOMAIN queue' : i < j => queue'[i] < queue'[j]
  BY TakeDoes
<1>2. \A s \in DOMAIN tasks : s # t => Command(s)'
  <2>1. ASSUME NEW s \in DOMAIN tasks, s # t PROVE Command(s)'
    <3>1. \A y \in Said : <<s, y>> \in air' => <<s, y>> \in air
      BY <1>1, <2>1
    <3>2. QED BY <1>1, <2>1, <3>1, CommandStays DEF Commands
  <2>2. QED BY <2>1
<1>3. Command(t)'
  <2>1. Command(t)
    BY DEF Commands
  <2>2. \A y \in Said : <<t, y>> \in air' => y = x
    BY <1>1, <2>1 DEF Command
  <2>3. QED BY <1>1, <2>1, <2>2 DEF Command
<1>4. QED BY <1>1, <1>2, <1>3 DEF Commands

----------------------------------------------------------------------------
(* answered, ended or forgotten by an enrollment.                         *)

(* What an answer that arrives does to its task.                            *)
LEMMA ReceiveDoes ==
    ASSUME Shapes, Commands, NEW a \in air, Receive(a)
    PROVE  \E t \in DOMAIN tasks, x \in Said :
             /\ a = <<t, x>> /\ tasks[t].sent /\ <<t, x>> \in air
             /\ air' = air \ {a} /\ queue' = queue
             /\ DOMAIN tasks' = DOMAIN tasks
             /\ \A s \in DOMAIN tasks : s # t => tasks'[s] = tasks[s]
             /\ acks' \subseteq acks \cup {t}
             /\ \/ tasks'[t] = tasks[t] /\ acks' = acks
                \/ /\ tasks'[t].status = (IF x = "error" THEN "failed" ELSE "completed")
                   /\ tasks'[t].changed = (x = "changed")
                   /\ tasks'[t].sent = tasks[t].sent /\ tasks'[t].queued = tasks[t].queued
<1>1. PICK t \in DOMAIN tasks, x \in Said : a = <<t, x>>
  <2>1. a \in (DOMAIN tasks) \X Said
    BY ReceiveWrites
  <2>2. QED BY <2>1
<1>2. a[1] = t /\ a[2] = x
  BY <1>1
<1> DEFINE s1 == IF x = "error" THEN "failed" ELSE "completed"
           b1 == x = "changed"
<1>3. /\ DOMAIN tasks' = DOMAIN tasks
      /\ \A s \in DOMAIN tasks : s # t => tasks'[s] = tasks[s]
      /\ IF Open(t) \/ tasks[t].status = "timed out"
         THEN /\ tasks'[t] = [tasks[t] EXCEPT !.status = s1, !.changed = b1]
              /\ acks' = acks \cup {t}
         ELSE tasks'[t] = tasks[t] /\ acks' = acks
  BY <1>2, ReceiveWrites
<1>4. tasks[t].sent /\ air' = air \ {a} /\ queue' = queue
  BY <1>2 DEF Receive
<1>5. tasks[t] \in TaskSet
  BY TaskWrites
<1>6. b1 \in BOOLEAN
  OBVIOUS
<1>7. tasks'[t] = [tasks[t] EXCEPT !.status = s1, !.changed = b1] =>
         /\ tasks'[t].status = s1 /\ tasks'[t].changed = b1
         /\ tasks'[t].sent = tasks[t].sent /\ tasks'[t].queued = tasks[t].queued
  <2> HIDE DEF s1, b1
  <2>1. QED BY <1>5, <1>6 DEF TaskSet
<1>8. acks' \subseteq acks \cup {t}
  BY <1>3
<1>9. \/ tasks'[t] = tasks[t] /\ acks' = acks
      \/ /\ tasks'[t].status = s1 /\ tasks'[t].changed = b1
         /\ tasks'[t].sent = tasks[t].sent /\ tasks'[t].queued = tasks[t].queued
  <2> HIDE DEF s1, b1
  <2>1. QED BY <1>3, <1>7
<1>10. QED BY <1>1, <1>3, <1>4, <1>8, <1>9

LEMMA ReceiveCommands ==
    ASSUME Shapes, Commands, NEW a \in air, Receive(a) PROVE Commands'
<1>1. PICK t \in DOMAIN tasks, x \in Said :
             /\ a = <<t, x>> /\ tasks[t].sent /\ <<t, x>> \in air
             /\ air' = air \ {a} /\ queue' = queue
             /\ DOMAIN tasks' = DOMAIN tasks
             /\ \A s \in DOMAIN tasks : s # t => tasks'[s] = tasks[s]
             /\ acks' \subseteq acks \cup {t}
             /\ \/ tasks'[t] = tasks[t] /\ acks' = acks
                \/ /\ tasks'[t].status = (IF x = "error" THEN "failed" ELSE "completed")
                   /\ tasks'[t].changed = (x = "changed")
                   /\ tasks'[t].sent = tasks[t].sent /\ tasks'[t].queued = tasks[t].queued
  BY ReceiveDoes
<1>2. Command(t)
  BY DEF Commands
<1>3. (InQueue(t)' <=> InQueue(t)) /\ ~InQueue(t) /\ tasks[t].queued
      /\ \A y \in Said : <<t, y>> \notin air'
  <2>1. InQueue(t)' <=> InQueue(t)
    BY <1>1 DEF InQueue
  <2>2. QED BY <1>1, <1>2, <2>1 DEF Command
<1>4. Command(t)'
  <2>1. CASE tasks'[t] = tasks[t] /\ acks' = acks
    BY <1>2, <1>3, <2>1 DEF Command
  <2>2. CASE /\ tasks'[t].status = (IF x = "error" THEN "failed" ELSE "completed")
             /\ tasks'[t].changed = (x = "changed")
             /\ tasks'[t].sent = tasks[t].sent /\ tasks'[t].queued = tasks[t].queued
    <3>1. tasks'[t].status \in Ended /\ tasks'[t].sent /\ tasks'[t].queued
          /\ (tasks'[t].changed => tasks'[t].status = "completed")
      BY <1>1, <1>3, <2>2 DEF Ended
    <3>2. QED BY <1>3, <3>1 DEF Command
  <2>3. QED BY <1>1, <2>1, <2>2
<1>5. air' \subseteq air
  BY <1>1
<1>6. QED BY <1>1, <1>4, <1>5, OneCommand

LEMMA EndDoes ==
    ASSUME Shapes, NEW t \in DOMAIN tasks, NEW s \in {"cancelled", "timed out"}, End(t, s)
    PROVE  /\ DOMAIN tasks' = DOMAIN tasks /\ tasks'[t].status = s /\ Open(t)
           /\ tasks'[t].sent = tasks[t].sent /\ tasks'[t].queued = tasks[t].queued
           /\ tasks'[t].changed = tasks[t].changed
           /\ \A u \in DOMAIN tasks : u # t => tasks'[u] = tasks[u]
           /\ UNCHANGED <<secret, alert, change, queue, air, acks, mac>>
<1>1. /\ DOMAIN tasks' = DOMAIN tasks /\ tasks'[t] = [tasks[t] EXCEPT !.status = s]
      /\ \A u \in DOMAIN tasks : u # t => tasks'[u] = tasks[u]
  BY EndWrites
<1>2. tasks[t] \in TaskSet
  BY TaskWrites
<1>3. /\ tasks'[t].status = s /\ tasks'[t].sent = tasks[t].sent
      /\ tasks'[t].queued = tasks[t].queued /\ tasks'[t].changed = tasks[t].changed
  BY <1>1, <1>2 DEF TaskSet
<1>4. Open(t) /\ UNCHANGED <<secret, alert, change, queue, air, acks, mac>>
  BY DEF End, rows
<1>5. QED BY <1>1, <1>3, <1>4

LEMMA EndCommands ==
    ASSUME Shapes, Commands, NEW t \in DOMAIN tasks, NEW s \in {"cancelled", "timed out"},
           End(t, s)
    PROVE  Commands'
<1>1. /\ DOMAIN tasks' = DOMAIN tasks /\ tasks'[t].status = s /\ Open(t)
      /\ tasks'[t].sent = tasks[t].sent /\ tasks'[t].queued = tasks[t].queued
      /\ tasks'[t].changed = tasks[t].changed
      /\ \A u \in DOMAIN tasks : u # t => tasks'[u] = tasks[u]
      /\ UNCHANGED <<queue, air, acks>>
  BY EndDoes
<1>2. Command(t) /\ (InQueue(t)' <=> InQueue(t))
  BY <1>1 DEF Commands, InQueue
<1>3. ~tasks[t].changed /\ t \notin acks /\ s \notin Ended
  BY <1>1, <1>2 DEF Command, Open, Ended
<1>4. Command(t)'
  BY <1>1, <1>2, <1>3 DEF Command
<1>5. air' \subseteq air /\ acks' \subseteq acks \cup {t}
  BY <1>1
<1>6. QED BY <1>1, <1>4, <1>5, OneCommand

(* An enrollment empties the queue and fails what was sent.                 *)
LEMMA ReenrollDoes ==
    ASSUME Shapes, Reenroll
    PROVE  /\ DOMAIN tasks' = DOMAIN tasks /\ queue' = <<>> /\ air' = {}
           /\ \A t : ~InQueue(t)'
           /\ \A t \in DOMAIN tasks :
                \/ tasks'[t] = tasks[t] /\ (t \in acks' => t \in acks)
                \/ /\ tasks[t].sent /\ Open(t) /\ tasks'[t].status = "failed"
                   /\ tasks'[t].sent = tasks[t].sent /\ tasks'[t].queued = tasks[t].queued
                   /\ tasks'[t].changed = tasks[t].changed
           /\ UNCHANGED <<secret, alert, change>>
<1>1. /\ DOMAIN tasks' = DOMAIN tasks /\ queue' = <<>> /\ air' = {}
      /\ UNCHANGED <<secret, alert, change>>
  BY ReenrollTasks DEF Reenroll, rows
<1>2. \A t : ~InQueue(t)'
  BY <1>1 DEF InQueue
<1>3. ASSUME NEW t \in DOMAIN tasks
      PROVE  \/ tasks'[t] = tasks[t] /\ (t \in acks' => t \in acks)
             \/ /\ tasks[t].sent /\ Open(t) /\ tasks'[t].status = "failed"
                /\ tasks'[t].sent = tasks[t].sent /\ tasks'[t].queued = tasks[t].queued
                /\ tasks'[t].changed = tasks[t].changed
  <2>1. tasks[t] \in TaskSet
    BY TaskWrites
  <2>2. IF tasks[t].sent /\ Open(t)
        THEN tasks'[t] = [tasks[t] EXCEPT !.status = "failed"] /\ t \in acks'
        ELSE tasks'[t] = tasks[t] /\ (t \in acks' => t \in acks)
    BY ReenrollTasks
  <2>3. QED BY <2>1, <2>2 DEF TaskSet
<1>4. QED BY <1>1, <1>2, <1>3

LEMMA ReenrollCommands == ASSUME Shapes, Commands, Reenroll PROVE Commands'
<1>1. /\ DOMAIN tasks' = DOMAIN tasks /\ queue' = <<>> /\ air' = {} /\ \A t : ~InQueue(t)'
  BY ReenrollDoes
<1>2. ASSUME NEW t \in DOMAIN tasks PROVE Command(t)'
  <2>1. Command(t)
    BY DEF Commands
  <2>2. CASE tasks'[t] = tasks[t] /\ (t \in acks' => t \in acks)
    BY <1>1, <2>1, <2>2, CommandStays
  <2>3. CASE /\ tasks[t].sent /\ Open(t) /\ tasks'[t].status = "failed"
             /\ tasks'[t].sent = tasks[t].sent /\ tasks'[t].queued = tasks[t].queued
             /\ tasks'[t].changed = tasks[t].changed
    <3>1. ~tasks'[t].changed
      BY <2>1, <2>3 DEF Command, Open
    <3>2. tasks'[t].queued
      BY <2>1, <2>3 DEF Command
    <3>3. QED BY <1>1, <2>3, <3>1, <3>2 DEF Command, Ended
  <2>4. QED BY <2>2, <2>3, ReenrollDoes
<1>3. \A i, j \in DOMAIN queue' : i < j => queue'[i] < queue'[j]
  BY <1>1
<1>4. QED BY <1>1, <1>2, <1>3 DEF Commands

----------------------------------------------------------------------------
(* A change under way and the command it sends.                           *)

LEMMA BusyTask ==
    ASSUME Shapes, Commands, CallersOk, NEW c \in Callers, Busy(c)
    PROVE  LET t == change[c].task
           IN  /\ t \in DOMAIN tasks /\ t = Len(tasks) /\ ~tasks[t].sent
               /\ tasks[t].kind = change[c].kind /\ tasks[t].new = change[c].new
               /\ tasks[t].status \notin Ended /\ ~tasks[t].changed /\ t \notin acks
               /\ change[c].pc \in {"send", "abort"} =>
                     ~tasks[t].queued /\ ~InQueue(t) /\ \A x \in Said : <<t, x>> \notin air
BY DEF CallersOk, Caller, Commands, Command

(* A command goes into the queue, or it does not.                           *)
LEMMA SendDoes ==
    ASSUME "lostReply" \notin Overlaps, Shapes, Commands, CallersOk, NEW c \in Callers, Send(c)
    PROVE  /\ change[c].pc = "send" /\ UNCHANGED <<secret, alert, air, acks, mac>>
           /\ \A d \in Callers : d # c => change'[d] = change[d]
           /\ \/ /\ change'[c] = [change[c] EXCEPT !.pc = "abort"] /\ UNCHANGED <<queue, tasks>>
              \/ /\ change'[c] = [change[c] EXCEPT !.pc = "mark"] /\ Enqueue(change[c].task)
<1>1. change[c].pc = "send" /\ UNCHANGED <<secret, alert, air, acks, mac>>
  BY DEF Send, rows
<1>2. CASE Sent(c)
  <2>1. change' = [change EXCEPT ![c].pc = "mark"] /\ Enqueue(change[c].task)
    BY <1>2 DEF Sent
  <2>2. QED BY <1>1, <2>1, GoesTo
<1>3. CASE NotSent(c)
  <2>1. change' = [change EXCEPT ![c].pc = "abort"] /\ UNCHANGED <<queue, tasks>>
    BY <1>3 DEF NotSent
  <2>2. QED BY <1>1, <2>1, GoesTo
<1>4. QED BY <1>2, <1>3 DEF Send

LEMMA SentDoes ==
    ASSUME Shapes, Commands, CallersOk, NEW c \in Callers, change[c].pc = "send",
           NEW t, t = change[c].task, Enqueue(t), UNCHANGED <<air, acks>>
    PROVE  /\ Commands' /\ InQueue(t)' /\ \A s : s # t => (InQueue(s)' <=> InQueue(s))
           /\ DOMAIN tasks' = DOMAIN tasks /\ Len(tasks') = Len(tasks)
           /\ \A s \in DOMAIN tasks : s # t => tasks'[s] = tasks[s]
           /\ tasks'[t].queued /\ tasks'[t].sent = tasks[t].sent
           /\ tasks'[t].kind = tasks[t].kind /\ tasks'[t].new = tasks[t].new
           /\ tasks'[t].status = tasks[t].status /\ tasks'[t].changed = tasks[t].changed
<1>1. /\ t \in DOMAIN tasks /\ t = Len(tasks) /\ ~tasks[t].queued
      /\ tasks[t].status \notin Ended
  BY BusyTask DEF Busy
<1>2. /\ Commands' /\ InQueue(t)' /\ \A s : s # t => (InQueue(s)' <=> InQueue(s))
      /\ tasks'[t] = [tasks[t] EXCEPT !.queued = TRUE]
  BY <1>1, EnqueueCommands
<1>3. /\ DOMAIN tasks' = DOMAIN tasks /\ Len(tasks') = Len(tasks)
      /\ \A s \in DOMAIN tasks : s # t => tasks'[s] = tasks[s]
  BY <1>1, Enqueued
<1>4. tasks[t] \in TaskSet
  BY <1>1, TaskWrites
<1>5. QED BY <1>2, <1>3, <1>4 DEF TaskSet

----------------------------------------------------------------------------
LEMMA CallerStays ==
    ASSUME NEW c \in Callers, Caller(c), change'[c] = change[c],
           Busy(c) => LET t == change[c].task
                      IN  /\ Len(tasks') = Len(tasks) /\ DOMAIN tasks' = DOMAIN tasks
                          /\ tasks'[t].kind = tasks[t].kind /\ tasks'[t].new = tasks[t].new
                          /\ tasks'[t].sent = tasks[t].sent
                          /\ tasks'[t].queued = tasks[t].queued
                          /\ tasks'[t].status \in Ended => tasks[t].status \in Ended
    PROVE  Caller(c)'
BY DEF Caller, Busy

LEMMA CallerFree ==
    ASSUME NEW c \in Callers, change'[c].pc \in {"idle", "begin"} PROVE Caller(c)'
BY DEF Caller, Busy

LEMMA OthersFree ==
    ASSUME Lone, NEW c \in Callers, change[c].pc # "idle",
           \A d \in Callers : d # c => change'[d] = change[d]
    PROVE  \A d \in Callers : d # c => Caller(d)' /\ change'[d].pc = "idle"
<1>1. \A d \in Callers : d # c => change'[d].pc = "idle"
  BY DEF Lone
<1>2. QED BY <1>1, CallerFree

LEMMA SameTasksCallers ==
    ASSUME CallersOk, UNCHANGED tasks,
           \A c \in Callers : change'[c] = change[c] \/ change'[c].pc \in {"idle", "begin"}
    PROVE  CallersOk'
<1>1. ASSUME NEW c \in Callers PROVE Caller(c)'
  <2>1. CASE change'[c] = change[c]
    BY <2>1, CallerStays DEF CallersOk
  <2>2. QED BY <2>1, CallerFree
<1>2. QED BY <1>1 DEF CallersOk

LEMMA ChangeCallers ==
    ASSUME "lostReply" \notin Overlaps, Shapes, Lone, Commands, CallersOk,
           NEW c \in Callers, Change(c)
    PROVE  CallersOk'
<1>1. ASSUME NEW ch, ch.pc = "begin", change' = [change EXCEPT ![c] = ch], UNCHANGED tasks
      PROVE  CallersOk'
  <2>1. \A d \in Callers : change'[d] = change[d] \/ change'[d].pc = "begin"
    BY <1>1 DEF Shapes
  <2>2. QED BY <1>1, <2>1, SameTasksCallers
<1>2. ASSUME NEW new \in Passwords, NEW supplied, NEW rotate, PlanLock(c, new, supplied, rotate)
      PROVE  CallersOk'
  <2> DEFINE ch == [Idle EXCEPT !.pc = "begin", !.kind = "lock", !.new = new,
                        !.current = IF supplied # NoPassword THEN supplied
                                    ELSE secret["lock"].value,
                        !.rotating = Stored("lock"), !.row = secret["lock"]]
  <2>1. ch.pc = "begin"
    BY DEF Idle
  <2>2. change' = [change EXCEPT ![c] = ch] /\ UNCHANGED tasks
    BY <1>2 DEF PlanLock
  <2> HIDE DEF ch
  <2>3. QED BY <1>1, <2>1, <2>2
<1>3. ASSUME NEW new \in Passwords, PlanAccount(c, new) PROVE CallersOk'
  BY <1>1, <1>3 DEF PlanAccount, Idle
<1>4. CASE Begin(c)
  <2>0. PICK n : n = Len(tasks) + 1
    OBVIOUS
  <2>1. /\ change'[c].pc = "send" /\ change'[c].task = n
        /\ change'[c].kind = change[c].kind /\ change'[c].new = change[c].new
        /\ \A d \in Callers : d # c => change'[d] = change[d]
    BY <1>4, <2>0, BegunChange
  <2>2. /\ Len(tasks') = n /\ n \in DOMAIN tasks' /\ tasks'[n] = NewTask(change[c])
    BY <1>4, <2>0, Begun
  <2>3. Caller(c)'
    BY <2>1, <2>2 DEF Caller, Busy, NewTask, Ended
  <2>4. QED BY <1>4, <2>1, <2>3, OthersFree DEF CallersOk, Begin
<1>5. CASE Send(c)
  <2>0. PICK t : t = change[c].task
    OBVIOUS
  <2>1. /\ change[c].pc = "send" /\ UNCHANGED <<air, acks>> /\ change[c] \in ChangeSet
        /\ \A d \in Callers : d # c => change'[d] = change[d]
        /\ \/ /\ change'[c] = [change[c] EXCEPT !.pc = "abort"] /\ UNCHANGED <<queue, tasks>>
           \/ /\ change'[c] = [change[c] EXCEPT !.pc = "mark"] /\ Enqueue(t)
    BY <1>5, <2>0, SendDoes, ChangeIs
  <2>2. /\ t \in DOMAIN tasks /\ t = Len(tasks) /\ ~tasks[t].sent
        /\ tasks[t].kind = change[c].kind /\ tasks[t].new = change[c].new
        /\ tasks[t].status \notin Ended /\ ~tasks[t].queued
    BY <2>0, <2>1, BusyTask DEF Busy
  <2>3. CASE change'[c] = [change[c] EXCEPT !.pc = "abort"] /\ UNCHANGED tasks
    <3>1. /\ change'[c].pc = "abort" /\ change'[c].task = t
          /\ change'[c].kind = change[c].kind /\ change'[c].new = change[c].new
      BY <2>0, <2>1, <2>3 DEF ChangeSet
    <3>2. Caller(c)'
      BY <2>2, <2>3, <3>1 DEF Caller, Busy
    <3>3. QED BY <2>1, <3>2, OthersFree DEF CallersOk
  <2>4. CASE change'[c] = [change[c] EXCEPT !.pc = "mark"] /\ Enqueue(t)
    <3>1. /\ change'[c].pc = "mark" /\ change'[c].task = t
          /\ change'[c].kind = change[c].kind /\ change'[c].new = change[c].new
      BY <2>0, <2>1, <2>4 DEF ChangeSet
    <3>2. /\ DOMAIN tasks' = DOMAIN tasks /\ Len(tasks') = Len(tasks)
          /\ tasks'[t].queued /\ tasks'[t].sent = tasks[t].sent
          /\ tasks'[t].kind = tasks[t].kind /\ tasks'[t].new = tasks[t].new
          /\ tasks'[t].status = tasks[t].status
      BY <2>0, <2>1, <2>4, SentDoes
    <3>3. Caller(c)'
      BY <2>2, <3>1, <3>2 DEF Caller, Busy
    <3>4. QED BY <2>1, <3>3, OthersFree DEF CallersOk
  <2>5. QED BY <2>1, <2>3, <2>4
<1>6. CASE MarkSent(c) \/ Abort(c)
  <2>1. /\ change[c].pc # "idle" /\ change'[c] = Idle
        /\ \A d \in Callers : d # c => change'[d] = change[d]
    BY <1>6, IsDone DEF MarkSent, Abort
  <2>2. Caller(c)'
    BY <2>1, CallerFree DEF Idle
  <2>3. QED BY <2>1, <2>2, OthersFree DEF CallersOk
<1>7. QED BY <1>2, <1>3, <1>4, <1>5, <1>6 DEF Change

----------------------------------------------------------------------------
(* The commands are kept.                                                 *)

LEMMA ChangeCommands ==
    ASSUME "lostReply" \notin Overlaps, Shapes, Commands, CallersOk, NEW c \in Callers, Change(c)
    PROVE  Commands'
<1>1. ASSUME NEW new \in Passwords, NEW supplied, NEW rotate, PlanLock(c, new, supplied, rotate)
      PROVE  Commands'
  BY <1>1, CommandsStay DEF PlanLock
<1>2. ASSUME NEW new \in Passwords, PlanAccount(c, new) PROVE Commands'
  BY <1>2, CommandsStay DEF PlanAccount
<1>3. CASE Send(c)
  <2>1. /\ change[c].pc = "send" /\ UNCHANGED <<air, acks>>
        /\ UNCHANGED <<queue, tasks>> \/ Enqueue(change[c].task)
    BY <1>3, SendDoes
  <2>2. CASE UNCHANGED <<queue, tasks>>
    BY <2>1, <2>2, CommandsStay
  <2>3. CASE Enqueue(change[c].task)
    BY <2>1, <2>3, SentDoes
  <2>4. QED BY <2>1, <2>2, <2>3
<1>4. QED BY <1>1, <1>2, <1>3, BeginCommands, MarkCommands, AbortCommands DEF Change

LEMMA CommandsAlways ==
    ASSUME "lostReply" \notin Overlaps, Shapes, Lone, Commands, CallersOk, [Next]_vars
    PROVE  Commands' /\ CallersOk'
<1>1. ASSUME NEW c \in Callers, Change(c) PROVE Commands' /\ CallersOk'
  BY <1>1, ChangeCommands, ChangeCallers
<1>2. CASE Take
  <2>1. UNCHANGED <<tasks, change>>
    BY <1>2 DEF Take
  <2>2. QED BY <1>2, <2>1, TakeCommands, SameTasksCallers
<1>3. ASSUME NEW a \in air, Receive(a) PROVE Commands' /\ CallersOk'
  <2>1. PICK t \in DOMAIN tasks :
          /\ tasks[t].sent /\ DOMAIN tasks' = DOMAIN tasks
          /\ \A s \in DOMAIN tasks : s # t => tasks'[s] = tasks[s]
    <3>1. /\ a[1] \in DOMAIN tasks /\ DOMAIN tasks' = DOMAIN tasks
          /\ \A s \in DOMAIN tasks : s # a[1] => tasks'[s] = tasks[s]
      BY <1>3, ReceiveWrites
    <3>2. tasks[a[1]].sent
      BY <1>3 DEF Receive
    <3>3. QED BY <3>1, <3>2
  <2>2. Len(tasks') = Len(tasks) /\ UNCHANGED change
    BY <1>3, ReceiveWrites DEF Receive
  <2>3. ASSUME NEW c \in Callers PROVE Caller(c)'
    <3>1. Busy(c) => change[c].task \in DOMAIN tasks /\ change[c].task # t
      BY <2>1, BusyTask
    <3>2. QED BY <2>1, <2>2, <3>1, CallerStays DEF CallersOk
  <2>4. QED BY <1>3, <2>3, ReceiveCommands DEF CallersOk
<1>4. CASE Reenroll
  <2>1. Len(tasks') = Len(tasks) /\ DOMAIN tasks' = DOMAIN tasks /\ UNCHANGED change
    BY <1>4, ReenrollTasks DEF Reenroll
  <2>2. ASSUME NEW c \in Callers PROVE Caller(c)'
    <3>1. Busy(c) => tasks'[change[c].task] = tasks[change[c].task]
      BY <1>4, BusyTask, ReenrollTasks
    <3>2. QED BY <2>1, <3>1, CallerStays DEF CallersOk
  <2>3. QED BY <1>4, <2>2, ReenrollCommands DEF CallersOk
<1>5. ASSUME NEW t \in DOMAIN tasks, NEW s \in {"cancelled", "timed out"}, End(t, s)
      PROVE  Commands' /\ CallersOk'
  <2>1. /\ DOMAIN tasks' = DOMAIN tasks /\ tasks'[t].status = s /\ Len(tasks') = Len(tasks)
        /\ tasks'[t].sent = tasks[t].sent /\ tasks'[t].queued = tasks[t].queued
        /\ tasks'[t].kind = tasks[t].kind /\ tasks'[t].new = tasks[t].new
        /\ \A u \in DOMAIN tasks : u # t => tasks'[u] = tasks[u]
        /\ UNCHANGED change
    BY <1>5, EndDoes, EndWrites, EndLasts DEF TasksLast
  <2>2. ASSUME NEW c \in Callers PROVE Caller(c)'
    <3>1. Busy(c) => change[c].task \in DOMAIN tasks
      BY BusyTask
    <3>2. QED BY <2>1, <3>1, CallerStays DEF CallersOk, Ended
  <2>3. QED BY <1>5, <2>2, EndCommands DEF CallersOk
<1>6. ASSUME UNCHANGED <<tasks, queue>>, air' \subseteq air, acks' \subseteq acks,
             \A c \in Callers : change'[c] = change[c] \/ change'[c].pc = "idle"
      PROVE  Commands' /\ CallersOk'
  BY <1>6, CommandsStay, SameTasksCallers
<1>7. CASE Device
  <2>1. CASE LeaveSetupAssistant \/ \E a \in air : LoseAnswer(a) \/ Discard(a)
    BY <1>6, <2>1 DEF LeaveSetupAssistant, LoseAnswer, Discard
  <2>2. QED BY <1>2, <1>3, <1>4, <1>7, <2>1 DEF Device
<1>8. CASE Restart
  <2>1. /\ UNCHANGED <<tasks, queue>> /\ air' \subseteq air /\ acks' \subseteq acks
        /\ \A c \in Callers : change'[c].pc = "idle"
    BY <1>8 DEF Restart, Idle
  <2>2. QED BY <1>6, <2>1
<1>9. CASE Console \/ Fetch \/ (\E code \in Passwords : Wiped(code)) \/ UNCHANGED vars
           \/ \E t \in DOMAIN tasks : Acknowledge(t)
  <2>1. UNCHANGED <<tasks, queue, air, change>> /\ acks' \subseteq acks
    BY <1>9 DEF Console, Reveal, RaiseAlert, CloseAlert, Fetch, Wiped, vars, Acknowledge
  <2>2. QED BY <1>6, <2>1
<1>10. QED BY <1>1, <1>5, <1>7, <1>8, <1>9 DEF Next

LEMMA CommandsInit == Init => Commands /\ CallersOk
<1> SUFFICES ASSUME Init PROVE Commands /\ CallersOk
  OBVIOUS
<1>1. tasks = <<>> /\ queue = <<>> /\ \A c \in Callers : change[c].pc = "idle"
  BY DEF Init, Idle
<1>2. Commands
  BY <1>1 DEF Commands
<1>3. CallersOk
  BY <1>1 DEF CallersOk, Caller, Busy
<1>4. QED BY <1>2, <1>3

----------------------------------------------------------------------------
(* The lock: its row, its two commands and the Mac.                       *)

(* What the Mac did with a command for which an answer is still due, or has *)
(* been heard.                                                              *)
Did(t) == <<t, "changed">> \in air \/ tasks[t].changed
DidNot(t) ==
    \/ ~tasks[t].queued \/ InQueue(t)
    \/ <<t, "error">> \in air \/ <<t, "kept">> \in air
    \/ tasks[t].status \in Ended /\ ~tasks[t].changed

IsLock(t) == t \in DOMAIN tasks /\ tasks[t].kind = "lock"
Unlocked == mac.lock \in {NoPassword, Foreign} /\ \A t : IsLock(t) => ~tasks[t].queued
(* The command that the stored password came with, older than a rotation's. *)
First(u) ==
    u # NoTask => /\ IsLock(u) /\ tasks[u].new = secret["lock"].value
                  /\ secret["lock"].pendingTask # NoTask => u < secret["lock"].pendingTask

(* The row of the lock, the commands on their way and the Mac's lock.       *)
LockOk ==
    LET r == secret["lock"]
        p == r.pendingTask
        u == r.unconfirmed
    IN  /\ r.value = NoPassword => r = NoRow /\ Unlocked
        /\ p = NoTask <=> r.pending = NoPassword
        /\ p # NoTask => IsLock(p) /\ tasks[p].new = r.pending
        /\ First(u)
        /\ \A t : IsLock(t) /\ InQueue(t) => t \in {u, p}
        /\ p # NoTask /\ tasks[p].queued /\ ~InQueue(p) => ~InQueue(u)
        /\ mac.lock \in {NoPassword, Foreign, r.value, r.pending}
        /\ p # NoTask /\ DidNot(p) => mac.lock \in {NoPassword, Foreign, r.value}
        /\ p # NoTask /\ Did(p) => mac.lock \in {NoPassword, r.pending}
        /\ u # NoTask /\ Did(u) => mac.lock # Foreign
        /\ r.value # NoPassword /\ u = NoTask => mac.lock # Foreign

(* A change of the lock under way: the first set, and a rotation, whose     *)
(* copy of the row may be older than the row. Where they differ, the Mac    *)
(* has a password of ours and neither command is still to be taken.         *)
LockCaller(c) ==
    LET ch == change[c]
        r == secret["lock"]
        x == ch.row.unconfirmed
        y == r.unconfirmed
    IN  ch.kind = "lock" /\ ch.pc # "idle" =>
          /\ ch.pc = "begin" => r.pendingTask = NoTask
          /\ ~ch.rotating /\ ch.pc = "begin" => r = NoRow
          /\ ~ch.rotating /\ ch.pc \in {"send", "abort"} =>
                ch.row = NoRow /\ r.pendingTask = NoTask /\ y = ch.task /\ Unlocked
          /\ ch.rotating => r.value # NoPassword
          /\ ch.rotating /\ ch.pc \in {"send", "abort"} => r.pendingTask = ch.task
          /\ ch.rotating /\ ch.pc \in {"begin", "send", "abort"} =>
                First(x) /\ (y # x => mac.lock # Foreign /\ ~InQueue(y) /\ ~InQueue(x))
LockCallers == \A c \in Callers : LockCaller(c)

(* A step that leaves the lock's row, its commands and the Mac's lock as    *)
(* they were, or loses some of what is on its way.                          *)
LockCalm ==
    /\ secret'["lock"].value = secret["lock"].value
    /\ secret'["lock"].pending = secret["lock"].pending
    /\ secret'["lock"].pendingTask = secret["lock"].pendingTask
    /\ secret'["lock"].unconfirmed = secret["lock"].unconfirmed
    /\ secret["lock"] = NoRow => secret'["lock"] = NoRow
    /\ mac'.lock \in {mac.lock, NoPassword}
    /\ \A t : IsLock(t)' <=> IsLock(t)
    /\ \A t : IsLock(t) =>
          /\ tasks'[t].new = tasks[t].new /\ tasks'[t].queued = tasks[t].queued
          /\ Did(t)' => Did(t)
          /\ DidNot(t)' => DidNot(t)
          /\ InQueue(t)' => InQueue(t)
    /\ \/ \A t : IsLock(t) => (InQueue(t) => InQueue(t)')
       \/ \A t : ~InQueue(t)'
    /\ ~InQueue(NoTask)'
Goes(c) ==
    \/ change'[c].pc = "idle"
    \/ change'[c] = change[c]
    \/ /\ change[c].pc = "send" /\ change'[c].pc \in {"mark", "abort"}
       /\ change'[c].kind = change[c].kind /\ change'[c].rotating = change[c].rotating
       /\ change'[c].row = change[c].row /\ change'[c].task = change[c].task
       /\ change'[c].new = change[c].new

LEMMA Apart == NoPassword # Foreign /\ NoPassword \notin Passwords /\ Foreign \notin Passwords
BY SecretsAssumption

LEMMA CalmUnlocked == ASSUME Unlocked, LockCalm PROVE Unlocked'
BY DEF Unlocked, LockCalm

LEMMA CalmFirst == ASSUME NEW u, First(u), LockCalm PROVE First(u)'
BY DEF First, LockCalm

LEMMA CalmLock == ASSUME LockOk, LockCalm PROVE LockOk'
<1>0. PICK p, u : p = secret["lock"].pendingTask /\ u = secret["lock"].unconfirmed
  OBVIOUS
<1>1. secret'["lock"].pendingTask = p /\ secret'["lock"].unconfirmed = u
  BY <1>0 DEF LockCalm
<1>2. /\ (secret["lock"].value = NoPassword => secret["lock"] = NoRow /\ Unlocked)'
      /\ (secret["lock"].pendingTask = NoTask <=> secret["lock"].pending = NoPassword)'
  BY CalmUnlocked DEF LockOk, LockCalm
<1>3. /\ p # NoTask => IsLock(p) /\ tasks[p].new = secret["lock"].pending
      /\ First(u)
      /\ \A t : IsLock(t) /\ InQueue(t) => t \in {u, p}
      /\ p # NoTask /\ tasks[p].queued /\ ~InQueue(p) => ~InQueue(u)
      /\ mac.lock \in {NoPassword, Foreign, secret["lock"].value, secret["lock"].pending}
      /\ p # NoTask /\ DidNot(p) => mac.lock \in {NoPassword, Foreign, secret["lock"].value}
      /\ p # NoTask /\ Did(p) => mac.lock \in {NoPassword, secret["lock"].pending}
      /\ u # NoTask /\ Did(u) => mac.lock # Foreign
      /\ secret["lock"].value # NoPassword /\ u = NoTask => mac.lock # Foreign
  BY <1>0 DEF LockOk
<1>4. (p # NoTask => IsLock(p) /\ tasks[p].new = secret["lock"].pending)'
  BY <1>3 DEF LockCalm
<1>5. First(u)'
  BY <1>3, CalmFirst
<1>6. \A t : IsLock(t)' /\ InQueue(t)' => t \in {u, p}
  BY <1>3 DEF LockCalm
<1>7. p # NoTask /\ tasks'[p].queued /\ ~InQueue(p)' => ~InQueue(u)'
  <2>1. u = NoTask \/ IsLock(u)
    BY <1>3 DEF First
  <2>2. CASE \A t : ~InQueue(t)'
    BY <2>2
  <2>3. CASE \A t : IsLock(t) => (InQueue(t) => InQueue(t)')
    BY <1>3, <2>1, <2>3 DEF LockCalm
  <2>4. QED BY <2>2, <2>3 DEF LockCalm
<1>8. mac'.lock \in {NoPassword, Foreign, secret'["lock"].value, secret'["lock"].pending}
  BY <1>3 DEF LockCalm
<1>9. p # NoTask /\ DidNot(p)' => mac'.lock \in {NoPassword, Foreign, secret'["lock"].value}
  BY <1>3 DEF LockCalm
<1>10. p # NoTask /\ Did(p)' => mac'.lock \in {NoPassword, secret'["lock"].pending}
  BY <1>3 DEF LockCalm
<1>11. u # NoTask /\ Did(u)' => mac'.lock # Foreign
  BY <1>3, Apart DEF LockCalm, First
<1>12. secret'["lock"].value # NoPassword /\ u = NoTask => mac'.lock # Foreign
  BY <1>3, Apart DEF LockCalm
<1>13. QED BY <1>1, <1>2, <1>4, <1>5, <1>6, <1>7, <1>8, <1>9, <1>10, <1>11, <1>12 DEF LockOk

LEMMA CalmLockCaller ==
    ASSUME LockOk, NEW c \in Callers, LockCaller(c), LockCalm, Goes(c) PROVE LockCaller(c)'
<1>0. PICK x, y : x = change[c].row.unconfirmed /\ y = secret["lock"].unconfirmed
  OBVIOUS
<1>1. SUFFICES ASSUME change'[c].kind = "lock", change'[c].pc # "idle"
               PROVE  LockCaller(c)'
  BY DEF LockCaller
<1>2. /\ change'[c].kind = change[c].kind /\ change'[c].rotating = change[c].rotating
      /\ change'[c].row = change[c].row /\ change'[c].task = change[c].task
      /\ change[c].pc # "idle" /\ (change'[c].pc = "begin" => change[c].pc = "begin")
      /\ change'[c].pc \in {"send", "abort"} => change[c].pc \in {"send", "abort"}
  <2>1. CASE change'[c] = change[c]
    BY <1>1, <2>1
  <2>2. CASE change'[c].pc # change[c].pc
    BY <1>1, <2>2 DEF Goes
  <2>3. QED BY <1>1, <2>1, <2>2 DEF Goes
<1>3. change'[c].row.unconfirmed = x /\ secret'["lock"].unconfirmed = y
  BY <1>0, <1>2 DEF LockCalm
<1>4. change[c].rotating /\ change[c].pc \in {"begin", "send", "abort"} =>
        First(x)' /\ (y # x => mac'.lock # Foreign /\ ~InQueue(y)' /\ ~InQueue(x)')
  <2>1. SUFFICES ASSUME change[c].rotating, change[c].pc \in {"begin", "send", "abort"}
                 PROVE  First(x)' /\ (y # x => mac'.lock # Foreign /\ ~InQueue(y)' /\ ~InQueue(x)')
    OBVIOUS
  <2>2. First(x) /\ First(y) /\ (y # x => mac.lock # Foreign /\ ~InQueue(y) /\ ~InQueue(x))
    BY <1>0, <1>1, <1>2, <2>1 DEF LockCaller, LockOk
  <2>3. First(x)'
    BY <2>2, CalmFirst
  <2>4. (x = NoTask \/ IsLock(x)) /\ (y = NoTask \/ IsLock(y))
    BY <2>2 DEF First
  <2>5. QED BY <2>2, <2>3, <2>4, Apart DEF LockCalm
<1>5. ~change[c].rotating /\ change[c].pc \in {"send", "abort"} =>
        /\ change[c].row = NoRow /\ secret["lock"].pendingTask = NoTask
        /\ y = change[c].task /\ Unlocked'
  BY <1>0, <1>1, <1>2, CalmUnlocked DEF LockCaller
<1>6. /\ change[c].pc = "begin" => secret["lock"].pendingTask = NoTask
      /\ ~change[c].rotating /\ change[c].pc = "begin" => secret["lock"] = NoRow
      /\ change[c].rotating => secret["lock"].value # NoPassword
      /\ change[c].rotating /\ change[c].pc \in {"send", "abort"}
           => secret["lock"].pendingTask = change[c].task
  BY <1>1, <1>2 DEF LockCaller
<1>7. /\ secret'["lock"].value = secret["lock"].value
      /\ secret'["lock"].pendingTask = secret["lock"].pendingTask
      /\ secret["lock"] = NoRow => secret'["lock"] = NoRow
  BY DEF LockCalm
<1>8. QED BY <1>2, <1>3, <1>4, <1>5, <1>6, <1>7 DEF LockCaller

----------------------------------------------------------------------------
(* Steps that leave the lock's commands alone.                            *)

LockRowCalm ==
    /\ secret'["lock"].value = secret["lock"].value
    /\ secret'["lock"].pending = secret["lock"].pending
    /\ secret'["lock"].pendingTask = secret["lock"].pendingTask
    /\ secret'["lock"].unconfirmed = secret["lock"].unconfirmed
    /\ secret["lock"] = NoRow => secret'["lock"] = NoRow
LockTasksCalm ==
    /\ \A t : IsLock(t)' <=> IsLock(t)
    /\ \A t : IsLock(t) =>
          /\ tasks'[t].new = tasks[t].new /\ tasks'[t].queued = tasks[t].queued
          /\ Did(t)' => Did(t)
          /\ DidNot(t)' => DidNot(t)
          /\ InQueue(t)' => InQueue(t)
    /\ \/ \A t : IsLock(t) => (InQueue(t) => InQueue(t)')
       \/ \A t : ~InQueue(t)'
    /\ ~InQueue(NoTask)'

LEMMA LockCalmIs ==
    ASSUME LockRowCalm, LockTasksCalm, mac'.lock \in {mac.lock, NoPassword} PROVE LockCalm
BY DEF LockCalm, LockRowCalm, LockTasksCalm

LEMMA SameRowCalm == ASSUME secret'["lock"] = secret["lock"] PROVE LockRowCalm
BY DEF LockRowCalm

LEMMA SameTasksCalm ==
    ASSUME Shapes, UNCHANGED <<tasks, queue>>, air' \subseteq air PROVE LockTasksCalm
<1>1. \A t : InQueue(t)' <=> InQueue(t)
  BY DEF InQueue
<1>2. \A t : (IsLock(t)' <=> IsLock(t)) /\ (Did(t)' => Did(t)) /\ (DidNot(t)' => DidNot(t))
  BY <1>1 DEF IsLock, Did, DidNot
<1>3. ~InQueue(NoTask)
  BY QueueIs
<1>4. QED BY <1>1, <1>2, <1>3 DEF LockTasksCalm

LEMMA OneTaskCalm ==
    ASSUME Shapes, NEW t \in DOMAIN tasks, DOMAIN tasks' = DOMAIN tasks,
           \A s \in DOMAIN tasks : s # t => tasks'[s] = tasks[s],
           tasks'[t].kind = tasks[t].kind, tasks'[t].new = tasks[t].new,
           queue' = queue, air' \subseteq air,
           IsLock(t) => /\ tasks'[t].queued = tasks[t].queued
                        /\ Did(t)' => Did(t)
                        /\ DidNot(t)' => DidNot(t)
    PROVE  LockTasksCalm
<1>1. \A s : InQueue(s)' <=> InQueue(s)
  BY DEF InQueue
<1>2. \A s : IsLock(s)' <=> IsLock(s)
  <2>1. ASSUME NEW s \in DOMAIN tasks PROVE tasks'[s].kind = tasks[s].kind
    BY <2>1
  <2>2. QED BY <2>1 DEF IsLock
<1>3. ASSUME NEW s, IsLock(s)
      PROVE  /\ tasks'[s].new = tasks[s].new /\ tasks'[s].queued = tasks[s].queued
             /\ (Did(s)' => Did(s)) /\ (DidNot(s)' => DidNot(s))
  <2>1. s \in DOMAIN tasks
    BY <1>3 DEF IsLock
  <2>2. CASE s = t
    BY <1>3, <2>2
  <2>3. CASE s # t
    <3>1. tasks'[s] = tasks[s]
      BY <2>1, <2>3
    <3>2. QED BY <1>1, <3>1 DEF Did, DidNot
  <2>4. QED BY <2>2, <2>3
<1>4. ~InQueue(NoTask)
  BY QueueIs
<1>5. QED BY <1>1, <1>2, <1>3, <1>4 DEF LockTasksCalm

LEMMA MarkCalm ==
    ASSUME Shapes, Commands, CallersOk, NEW c \in Callers, MarkSent(c) PROVE LockTasksCalm
<1>0. PICK t : t = change[c].task
  OBVIOUS
<1>1. /\ t \in DOMAIN tasks /\ DOMAIN tasks' = DOMAIN tasks
      /\ tasks'[t] = [tasks[t] EXCEPT !.status = "running", !.sent = TRUE]
      /\ \A s \in DOMAIN tasks : s # t => tasks'[s] = tasks[s]
  BY <1>0, MarkSentWrites
<1>2. UNCHANGED <<queue, air>>
  BY DEF MarkSent
<1>3. /\ tasks'[t].kind = tasks[t].kind /\ tasks'[t].new = tasks[t].new
      /\ tasks'[t].queued = tasks[t].queued /\ tasks'[t].changed = tasks[t].changed
      /\ tasks'[t].status = "running"
  <2>1. tasks[t] \in TaskSet
    BY <1>1, TaskWrites
  <2>2. QED BY <1>1, <2>1 DEF TaskSet
<1>4. InQueue(t)' <=> InQueue(t)
  BY <1>2 DEF InQueue
<1>5. (Did(t)' => Did(t)) /\ (DidNot(t)' => DidNot(t))
  BY <1>2, <1>3, <1>4 DEF Did, DidNot, Ended
<1>6. QED BY <1>1, <1>2, <1>3, <1>5, OneTaskCalm

LEMMA AbortCalm ==
    ASSUME Shapes, NEW c \in Callers, Abort(c), tasks[change[c].task].kind = "account"
    PROVE  LockTasksCalm
<1>0. PICK t : t = change[c].task
  OBVIOUS
<1>1. /\ t \in DOMAIN tasks /\ DOMAIN tasks' = DOMAIN tasks
      /\ tasks'[t] = [tasks[t] EXCEPT !.status = "failed"]
      /\ \A s \in DOMAIN tasks : s # t => tasks'[s] = tasks[s]
  BY <1>0, AbortWrites
<1>2. UNCHANGED <<queue, air>>
  BY DEF Abort
<1>3. tasks'[t].kind = tasks[t].kind /\ tasks'[t].new = tasks[t].new /\ ~IsLock(t)
  BY <1>0, <1>1, AbortLasts DEF TasksLast, IsLock
<1>4. QED BY <1>1, <1>2, <1>3, OneTaskCalm

LEMMA ReceiveCalm ==
    ASSUME Shapes, Commands, NEW a \in air, Receive(a) PROVE LockTasksCalm
<1>1. PICK t \in DOMAIN tasks, x \in Said :
             /\ a = <<t, x>> /\ tasks[t].sent /\ <<t, x>> \in air
             /\ air' = air \ {a} /\ queue' = queue
             /\ DOMAIN tasks' = DOMAIN tasks
             /\ \A s \in DOMAIN tasks : s # t => tasks'[s] = tasks[s]
             /\ acks' \subseteq acks \cup {t}
             /\ \/ tasks'[t] = tasks[t] /\ acks' = acks
                \/ /\ tasks'[t].status = (IF x = "error" THEN "failed" ELSE "completed")
                   /\ tasks'[t].changed = (x = "changed")
                   /\ tasks'[t].sent = tasks[t].sent /\ tasks'[t].queued = tasks[t].queued
  BY ReceiveDoes
<1>2. tasks'[t].kind = tasks[t].kind /\ tasks'[t].new = tasks[t].new /\ air' \subseteq air
  BY <1>1, ReceiveLasts DEF TasksLast
<1>3. InQueue(t)' <=> InQueue(t)
  BY <1>1 DEF InQueue
<1>4. tasks'[t].queued = tasks[t].queued /\ (Did(t)' => Did(t)) /\ (DidNot(t)' => DidNot(t))
  <2>1. CASE tasks'[t] = tasks[t] /\ acks' = acks
    BY <1>2, <1>3, <2>1 DEF Did, DidNot
  <2>2. CASE /\ tasks'[t].status = (IF x = "error" THEN "failed" ELSE "completed")
             /\ tasks'[t].changed = (x = "changed")
             /\ tasks'[t].sent = tasks[t].sent /\ tasks'[t].queued = tasks[t].queued
    <3>1. Did(t)' => Did(t)
      BY <1>1, <1>2, <2>2 DEF Did
    <3>2. DidNot(t)' => DidNot(t)
      <4>1. CASE x = "changed"
        BY <1>2, <1>3, <2>2, <4>1 DEF DidNot
      <4>2. CASE x \in {"error", "kept"}
        BY <1>1, <4>2 DEF DidNot
      <4>3. QED BY <4>1, <4>2 DEF Said
    <3>3. QED BY <2>2, <3>1, <3>2
  <2>3. QED BY <1>1, <2>1, <2>2
<1>5. QED BY <1>1, <1>2, <1>4, OneTaskCalm

LEMMA EndCalm ==
    ASSUME Shapes, NEW t \in DOMAIN tasks, NEW s \in {"cancelled", "timed out"}, End(t, s)
    PROVE  LockTasksCalm
<1>1. /\ DOMAIN tasks' = DOMAIN tasks /\ tasks'[t].status = s /\ Open(t)
      /\ tasks'[t].queued = tasks[t].queued /\ tasks'[t].changed = tasks[t].changed
      /\ \A u \in DOMAIN tasks : u # t => tasks'[u] = tasks[u]
      /\ UNCHANGED <<queue, air>>
  BY EndDoes
<1>2. tasks'[t].kind = tasks[t].kind /\ tasks'[t].new = tasks[t].new
  BY EndLasts DEF TasksLast
<1>3. InQueue(t)' <=> InQueue(t)
  BY <1>1 DEF InQueue
<1>4. s \notin Ended
  BY DEF Ended
<1>5. (Did(t)' => Did(t)) /\ (DidNot(t)' => DidNot(t))
  BY <1>1, <1>3, <1>4 DEF Did, DidNot
<1>6. QED BY <1>1, <1>2, <1>5, OneTaskCalm

(* What an enrollment fails is still in the queue: had the Mac taken it,    *)
(* the server would have heard of it.                                       *)
LEMMA ReenrollCalm ==
    ASSUME "reenroll" \notin Overlaps, Shapes, Commands, Reenroll PROVE LockTasksCalm
<1>1. /\ DOMAIN tasks' = DOMAIN tasks /\ air' = {} /\ \A t : ~InQueue(t)'
      /\ \A t \in DOMAIN tasks :
           \/ tasks'[t] = tasks[t]
           \/ /\ tasks[t].sent /\ Open(t) /\ tasks'[t].status = "failed"
              /\ tasks'[t].queued = tasks[t].queued /\ tasks'[t].changed = tasks[t].changed
  BY ReenrollDoes
<1>2. \A t \in DOMAIN tasks : tasks'[t].kind = tasks[t].kind /\ tasks'[t].new = tasks[t].new
  BY ReenrollLasts DEF TasksLast
<1>3. \A t \in DOMAIN tasks : ~Unheard(t)
  BY DEF Reenroll
<1>4. ASSUME NEW t \in DOMAIN tasks
      PROVE  /\ tasks'[t].queued = tasks[t].queued
             /\ (Did(t)' => Did(t)) /\ (DidNot(t)' => DidNot(t))
  <2>1. CASE tasks'[t] = tasks[t]
    BY <1>1, <2>1 DEF Did, DidNot
  <2>2. CASE /\ tasks[t].sent /\ Open(t) /\ tasks'[t].status = "failed"
             /\ tasks'[t].queued = tasks[t].queued /\ tasks'[t].changed = tasks[t].changed
    <3>1. tasks[t].queued
      BY <2>2 DEF Commands, Command
    <3>2. InQueue(t)
      BY <1>3, <2>2, <3>1 DEF Unheard, InQueue
    <3>3. QED BY <1>1, <2>2, <3>2 DEF Did, DidNot
  <2>3. QED BY <1>1, <2>1, <2>2
<1>5. \A t : IsLock(t)' <=> IsLock(t)
  BY <1>1, <1>2 DEF IsLock
<1>6. QED BY <1>1, <1>2, <1>4, <1>5 DEF LockTasksCalm, IsLock

(* A command of another kind is made, or goes into the queue.               *)
LEMMA BeginCalm ==
    ASSUME Shapes, NEW c \in Callers, Begin(c), change[c].kind = "account"
    PROVE  LockTasksCalm
<1>0. PICK n : n = Len(tasks) + 1
  OBVIOUS
<1>1. /\ DOMAIN tasks' = DOMAIN tasks \cup {n} /\ n \notin DOMAIN tasks
      /\ \A t \in DOMAIN tasks : tasks'[t] = tasks[t]
      /\ tasks'[n] = NewTask(change[c])
  BY <1>0, Begun
<1>2. UNCHANGED <<queue, air>>
  BY DEF Begin
<1>3. tasks'[n].kind = "account"
  BY <1>1 DEF NewTask
<1>4. \A t : InQueue(t)' <=> InQueue(t)
  BY <1>2 DEF InQueue
<1>5. \A t : IsLock(t)' <=> IsLock(t)
  BY <1>1, <1>3 DEF IsLock
<1>6. ~InQueue(NoTask)
  BY QueueIs
<1>7. \A t \in DOMAIN tasks : (Did(t)' => Did(t)) /\ (DidNot(t)' => DidNot(t))
  BY <1>1, <1>2, <1>4 DEF Did, DidNot
<1>8. QED BY <1>1, <1>4, <1>5, <1>6, <1>7 DEF LockTasksCalm, IsLock

LEMMA SentCalm ==
    ASSUME Shapes, Commands, CallersOk, NEW c \in Callers, change[c].pc = "send",
           change[c].kind = "account", Enqueue(change[c].task), UNCHANGED <<air, acks>>
    PROVE  LockTasksCalm
<1>0. PICK t : t = change[c].task
  OBVIOUS
<1>1. /\ InQueue(t)' /\ \A s : s # t => (InQueue(s)' <=> InQueue(s))
      /\ DOMAIN tasks' = DOMAIN tasks
      /\ \A s \in DOMAIN tasks : s # t => tasks'[s] = tasks[s]
      /\ tasks'[t].kind = tasks[t].kind
  BY <1>0, SentDoes
<1>2. t \in DOMAIN tasks /\ tasks[t].kind = "account" /\ t # NoTask
  BY <1>0, BusyTask, QueueIs DEF Busy
<1>3. \A s : IsLock(s)' <=> IsLock(s)
  BY <1>1, <1>2 DEF IsLock
<1>4. \A s : IsLock(s) => s # t /\ s \in DOMAIN tasks
  BY <1>2 DEF IsLock
<1>5. \A s : IsLock(s) => (Did(s)' => Did(s)) /\ (DidNot(s)' => DidNot(s))
  BY <1>1, <1>4 DEF Did, DidNot
<1>6. ~InQueue(NoTask)'
  BY <1>1, <1>2, QueueIs
<1>7. QED BY <1>1, <1>3, <1>4, <1>5, <1>6 DEF LockTasksCalm

----------------------------------------------------------------------------
(* The Mac takes a command of the lock,                                   *)

(* The Mac takes a command.                                                 *)
LEMMA TakeCalm ==
    ASSUME Shapes, NEW t \in DOMAIN tasks, tasks[t].kind = "account", NEW x \in Said,
           ~InQueue(t)', \A s : s # t => (InQueue(s)' <=> InQueue(s)),
           air' = air \cup {<<t, x>>}, UNCHANGED tasks
    PROVE  LockTasksCalm
<1>1. \A s : IsLock(s)' <=> IsLock(s)
  BY DEF IsLock
<1>2. \A s : IsLock(s) => s # t
  BY DEF IsLock
<1>3. ~InQueue(NoTask)'
  BY QueueIs
<1>4. \A s : IsLock(s) => (Did(s)' => Did(s)) /\ (DidNot(s)' => DidNot(s))
  BY <1>2 DEF Did, DidNot
<1>5. QED BY <1>1, <1>2, <1>3, <1>4 DEF LockTasksCalm

LEMMA MacTakes ==
    ASSUME Shapes, NEW t \in DOMAIN tasks, NEW x,
           mac' = IF x = "changed"
                  THEN IF tasks[t].kind = "lock"
                       THEN [mac EXCEPT !.lock = tasks[t].new]
                       ELSE [mac EXCEPT !.account = tasks[t].new]
                  ELSE mac
    PROVE  /\ mac'.lock = IF x = "changed" /\ tasks[t].kind = "lock" THEN tasks[t].new ELSE mac.lock
           /\ mac'.account = IF x = "changed" /\ tasks[t].kind # "lock" THEN tasks[t].new
                             ELSE mac.account
<1>1. mac \in MacSet
  BY DEF Shapes
<1>2. CASE x = "changed" /\ tasks[t].kind = "lock"
  <2>1. mac' = [mac EXCEPT !.lock = tasks[t].new]
    BY <1>2
  <2>2. QED BY <1>1, <1>2, <2>1 DEF MacSet
<1>3. CASE x = "changed" /\ tasks[t].kind # "lock"
  <2>1. mac' = [mac EXCEPT !.account = tasks[t].new]
    BY <1>3
  <2>2. QED BY <1>1, <1>3, <2>1 DEF MacSet
<1>4. CASE x # "changed"
  BY <1>4
<1>5. QED BY <1>2, <1>3, <1>4

(* The lock's row after the Mac took one of its two commands.               *)
LEMMA TakeLock ==
    ASSUME Shapes, Commands, LockOk, NEW t \in DOMAIN tasks, tasks[t].kind = "lock",
           NEW x \in Said, InQueue(t), ~InQueue(t)',
           \A s : s # t => (InQueue(s)' <=> InQueue(s)), \A s : InQueue(s) => s >= t,
           air' = air \cup {<<t, x>>}, UNCHANGED <<secret, tasks>>,
           mac'.lock = IF x = "changed" THEN tasks[t].new ELSE mac.lock
    PROVE  LockOk'
<1>0. PICK p, u, v, w : /\ p = secret["lock"].pendingTask /\ u = secret["lock"].unconfirmed
                        /\ v = secret["lock"].value /\ w = secret["lock"].pending
  OBVIOUS
<1>1. /\ v = NoPassword => secret["lock"] = NoRow /\ Unlocked
      /\ p = NoTask <=> w = NoPassword
      /\ p # NoTask => IsLock(p) /\ tasks[p].new = w
      /\ First(u)
      /\ \A s : IsLock(s) /\ InQueue(s) => s \in {u, p}
      /\ p # NoTask /\ tasks[p].queued /\ ~InQueue(p) => ~InQueue(u)
      /\ mac.lock \in {NoPassword, Foreign, v, w}
      /\ p # NoTask /\ DidNot(p) => mac.lock \in {NoPassword, Foreign, v}
      /\ p # NoTask /\ Did(p) => mac.lock \in {NoPassword, w}
      /\ u # NoTask /\ Did(u) => mac.lock # Foreign
      /\ v # NoPassword /\ u = NoTask => mac.lock # Foreign
  BY <1>0 DEF LockOk
<1>2. IsLock(t) /\ t # NoTask /\ t \in Nat /\ tasks[t].new \in Passwords
  BY QueueIs, TaskWrites DEF IsLock, TaskSet
<1>3. Command(t) /\ tasks[t].queued /\ tasks[t].status \notin Ended /\ ~tasks[t].changed
      /\ \A y \in Said : <<t, y>> \notin air
  BY DEF Commands, Command, Ended
<1>4. v # NoPassword
  BY <1>1, <1>2, <1>3 DEF Unlocked
<1>5. \A s : (IsLock(s)' <=> IsLock(s)) /\ (s # t => (Did(s)' <=> Did(s)) /\ (DidNot(s)' <=> DidNot(s)))
  BY DEF IsLock, Did, DidNot
<1>6. /\ Did(t)' <=> x = "changed"
      /\ DidNot(t)' <=> x \in {"error", "kept"}
  BY <1>3 DEF Did, DidNot, Said
<1>7. /\ First(u)' /\ \A s : IsLock(s)' /\ InQueue(s)' => s \in {u, p}
      /\ p # NoTask => IsLock(p)' /\ tasks'[p].new = w
  BY <1>1, <1>5 DEF First
<1>8. t \in {u, p}
  BY <1>1, <1>2
<1>9. /\ p # NoTask /\ tasks'[p].queued /\ ~InQueue(p)' => ~InQueue(u)'
      /\ mac'.lock \in {NoPassword, Foreign, v, w}
      /\ p # NoTask /\ DidNot(p)' => mac'.lock \in {NoPassword, Foreign, v}
      /\ p # NoTask /\ Did(p)' => mac'.lock \in {NoPassword, w}
      /\ u # NoTask /\ Did(u)' => mac'.lock # Foreign
      /\ u = NoTask => mac'.lock # Foreign
  <2>1. CASE t = p
    <3>1. ~InQueue(u) /\ u # t
      <4>1. u # NoTask => u \in Nat /\ u < p
        BY <1>0, <1>1, <1>2, <2>1, TaskWrites DEF First, IsLock
      <4>2. u # t
        BY <1>2, <2>1, <4>1
      <4>3. InQueue(u) => u >= t /\ u # NoTask
        BY QueueIs
      <4>4. QED BY <1>2, <2>1, <4>1, <4>2, <4>3
    <3>2. CASE x = "changed"
      <4>1. mac'.lock = w /\ w # Foreign
        BY <1>1, <1>2, <2>1, <3>2, Apart
      <4>2. QED BY <1>6, <2>1, <3>1, <3>2, <4>1
    <3>3. CASE x # "changed"
      <4>1. mac'.lock = mac.lock /\ DidNot(p)
        BY <2>1, <3>3 DEF DidNot
      <4>2. QED BY <1>1, <1>4, <1>5, <1>6, <2>1, <3>1, <3>3, <4>1
    <3>4. QED BY <3>2, <3>3
  <2>2. CASE t = u /\ t # p
    <3>1. tasks[t].new = v /\ u # NoTask
      BY <1>0, <1>1, <1>2, <2>2 DEF First
    <3>2. p # NoTask /\ tasks[p].queued => InQueue(p)
      BY <1>1, <2>2
    <3>3. p # NoTask => ~Did(p)
      <4>1. p # NoTask => p \in DOMAIN tasks /\ Command(p)
        BY <1>1 DEF IsLock, Commands
      <4>2. QED BY <3>2, <4>1 DEF Did, Command, Said, Ended
    <3>4. CASE x = "changed"
      <4>1. mac'.lock = v /\ v # Foreign
        BY <1>2, <3>1, <3>4, Apart
      <4>2. QED BY <1>5, <2>2, <3>1, <3>2, <3>3, <4>1
    <3>5. CASE x # "changed"
      <4>1. mac'.lock = mac.lock
        BY <3>5
      <4>2. QED BY <1>1, <1>5, <1>6, <2>2, <3>1, <3>2, <3>3, <3>5, <4>1
    <3>6. QED BY <3>4, <3>5
  <2>3. QED BY <1>8, <2>1, <2>2
<1>10. /\ secret'["lock"].pendingTask = p /\ secret'["lock"].unconfirmed = u
       /\ secret'["lock"].value = v /\ secret'["lock"].pending = w
  BY <1>0
<1>11. QED BY <1>1, <1>4, <1>7, <1>9, <1>10 DEF LockOk

LEMMA TakeLockCaller ==
    ASSUME Shapes, Commands, CallersOk, LockOk, NEW c \in Callers, LockCaller(c),
           NEW t \in DOMAIN tasks, tasks[t].kind = "lock", InQueue(t), ~InQueue(t)',
           \A s : s # t => (InQueue(s)' <=> InQueue(s)), UNCHANGED <<secret, tasks, change>>
    PROVE  LockCaller(c)'
<1>0. PICK p, u, x : /\ p = secret["lock"].pendingTask /\ u = secret["lock"].unconfirmed
                     /\ x = change[c].row.unconfirmed
  OBVIOUS
<1>1. IsLock(t) /\ tasks[t].queued /\ t \in {u, p} /\ ~Unlocked
  BY <1>0 DEF IsLock, Commands, Command, LockOk, Unlocked
<1>2. secret["lock"] # NoRow
  <2>1. secret["lock"].value # NoPassword
    BY <1>1 DEF LockOk
  <2>2. QED BY <2>1 DEF NoRow
<1>3. SUFFICES ASSUME change[c].kind = "lock", change[c].pc # "idle" PROVE LockCaller(c)'
  BY DEF LockCaller
<1>4. CASE ~change[c].rotating
  BY <1>1, <1>2, <1>3, <1>4 DEF LockCaller
<1>5. CASE change[c].rotating
  <2>1. change[c].pc \in {"begin", "send", "abort"} => t # p
    <3>1. change[c].pc \in {"send", "abort"} => ~InQueue(change[c].task)
      BY BusyTask DEF Busy
    <3>2. t # NoTask
      BY QueueIs
    <3>3. QED BY <1>0, <1>3, <1>5, <3>1, <3>2 DEF LockCaller
  <2>2. change[c].pc \in {"begin", "send", "abort"} => u = x /\ First(x)'
    BY <1>0, <1>1, <1>3, <1>5, <2>1 DEF LockCaller, First, IsLock
  <2>3. QED BY <1>0, <1>3, <1>5, <2>2 DEF LockCaller
<1>6. QED BY <1>4, <1>5

----------------------------------------------------------------------------
(* a change of it begins,                                                 *)

(* A change of the lock begins: the first set is stored at once, a rotation *)
(* parks its password beside the stored one.                                *)
LEMMA BeginLock ==
    ASSUME Shapes, Commands, LockOk, NEW c \in Callers, LockCaller(c), Begin(c),
           change[c].kind = "lock"
    PROVE  LockOk' /\ LockCaller(c)'
<1>0. PICK n, p, u, v, x : /\ n = Len(tasks) + 1 /\ p = secret["lock"].pendingTask
                           /\ u = secret["lock"].unconfirmed /\ v = secret["lock"].value
                           /\ x = change[c].row.unconfirmed
  OBVIOUS
<1>1. /\ change'[c].pc = "send" /\ change'[c].task = n /\ change'[c].kind = "lock"
      /\ change'[c].row = secret["lock"] /\ change'[c].rotating = change[c].rotating
  BY <1>0, BegunChange
<1>2. /\ DOMAIN tasks' = DOMAIN tasks \cup {n} /\ n \notin DOMAIN tasks
      /\ DOMAIN tasks = 1 .. Len(tasks) /\ Len(tasks) \in Nat
      /\ \A t \in DOMAIN tasks : tasks'[t] = tasks[t]
      /\ tasks'[n] = NewTask(change[c])
  BY <1>0, Begun
<1>3. /\ change[c].pc = "begin" /\ UNCHANGED <<queue, air, mac>> /\ change[c].new \in Passwords
      /\ secret["lock"] \in RowSet
  BY DEF Begin, Shapes, Kinds
<1>4. /\ n # NoTask /\ n \in Nat /\ ~InQueue(n) /\ \A y \in Said : <<n, y>> \notin air
      /\ NoTask \notin DOMAIN tasks
  <2>1. \A y \in Said : <<n, y>> \notin air
    BY <1>2 DEF Shapes
  <2>2. n # NoTask /\ n \in Nat
    BY <1>0, <1>2 DEF NoTask
  <2>3. QED BY <1>2, <2>1, <2>2, QueueIs
<1>5. /\ ~tasks'[n].queued /\ ~tasks'[n].changed /\ tasks'[n].new = change[c].new
      /\ tasks'[n].kind = "lock"
  BY <1>2 DEF NewTask
<1>6. /\ \A t : InQueue(t)' <=> InQueue(t)
      /\ \A t : IsLock(t)' <=> (IsLock(t) \/ t = n)
      /\ \A t \in DOMAIN tasks : Did(t)' <=> Did(t)
      /\ ~Did(n)'
  <2>1. \A t : InQueue(t)' <=> InQueue(t)
    BY <1>3 DEF InQueue
  <2>2. \A t : IsLock(t)' <=> (IsLock(t) \/ t = n)
    BY <1>2, <1>5 DEF IsLock
  <2>3. \A t \in DOMAIN tasks : Did(t)' <=> Did(t)
    BY <1>2, <1>3 DEF Did
  <2>4. ~Did(n)'
    BY <1>3, <1>4, <1>5 DEF Did, Said
  <2>5. QED BY <2>1, <2>2, <2>3, <2>4
<1>7. /\ p = NoTask
      /\ ~change[c].rotating => secret["lock"] = NoRow
      /\ change[c].rotating => /\ v # NoPassword /\ First(x)
                               /\ u # x => mac.lock # Foreign /\ ~InQueue(u) /\ ~InQueue(x)
  BY <1>0, <1>3 DEF LockCaller
<1>8. CASE ~change[c].rotating
  <2>1. secret["lock"] = NoRow /\ Unlocked
    BY <1>0, <1>7, <1>8 DEF LockOk, NoRow
  <2>2. /\ secret'["lock"].value = change[c].new /\ secret'["lock"].pending = NoPassword
        /\ secret'["lock"].pendingTask = NoTask /\ secret'["lock"].unconfirmed = n
    <3>1. Escrow("lock", change[c].new, n) /\ "lock" \in Kinds
      BY <1>0, <1>8 DEF Begin, Kinds
    <3>2. QED BY <3>1, EscrowDoes
  <2>3. Unlocked'
    BY <1>2, <1>3, <1>5, <1>6, <2>1 DEF Unlocked, IsLock
  <2>4. First(n)'
    BY <1>5, <1>6, <2>2 DEF First
  <2>5. \A t : ~(IsLock(t)' /\ InQueue(t)')
    BY <1>4, <1>6, <2>1 DEF Unlocked, Commands, Command, IsLock
  <2>6. LockOk'
    BY <1>3, <1>4, <1>6, <2>1, <2>2, <2>3, <2>4, <2>5, Apart DEF LockOk, Unlocked
  <2>7. LockCaller(c)'
    BY <1>1, <1>8, <2>1, <2>2, <2>3 DEF LockCaller
  <2>8. QED BY <2>6, <2>7
<1>9. CASE change[c].rotating
  <2>1. /\ secret'["lock"].value = v /\ secret'["lock"].pending = change[c].new
        /\ secret'["lock"].pendingTask = n /\ secret'["lock"].unconfirmed = x
    BY <1>0, <1>9, RotationDoes
  <2>2. /\ First(u) /\ First(x) /\ v # NoPassword
        /\ u # x => mac.lock # Foreign /\ ~InQueue(u) /\ ~InQueue(x)
        /\ \A t : IsLock(t) /\ InQueue(t) => t = u
        /\ mac.lock \in {NoPassword, Foreign, v}
        /\ u # NoTask /\ Did(u) => mac.lock # Foreign
        /\ u = NoTask => mac.lock # Foreign
    <3>1. secret["lock"].pending = NoPassword
      BY <1>0, <1>7 DEF LockOk
    <3>2. \A t : IsLock(t) /\ InQueue(t) => t \in {u, p}
      BY <1>0 DEF LockOk
    <3>3. \A t : IsLock(t) /\ InQueue(t) => t = u
      BY <1>4, <1>7, <3>2 DEF IsLock
    <3>4. QED BY <1>0, <1>7, <1>9, <3>1, <3>3 DEF LockOk
  <2>3. ASSUME NEW y, First(y) PROVE First(y)'
    <3>1. y # NoTask => y \in 1 .. Len(tasks) /\ tasks'[y] = tasks[y] /\ IsLock(y)
      BY <1>2, <2>3 DEF First, IsLock
    <3>2. y # NoTask => y < n
      BY <1>0, <1>2, <3>1
    <3>3. QED BY <1>0, <1>6, <2>1, <2>3, <3>1, <3>2 DEF First
  <2>4. x # NoTask => x \in DOMAIN tasks
    BY <2>2 DEF First, IsLock
  <2>5. \A t : IsLock(t)' /\ InQueue(t)' => t \in {x, n}
    BY <1>4, <1>6, <2>2
  <2>6. x # NoTask /\ Did(x)' => mac'.lock # Foreign
    BY <1>3, <1>6, <2>2, <2>4
  <2>7. First(x)' /\ First(u)'
    BY <2>2, <2>3
  <2>8. x = NoTask => mac'.lock # Foreign
    BY <1>3, <2>2
  <2>9. LockOk'
    BY <1>3, <1>4, <1>5, <1>6, <2>1, <2>2, <2>5, <2>6, <2>7, <2>8, Apart DEF LockOk
  <2>10. LockCaller(c)'
    BY <1>0, <1>1, <1>3, <1>6, <1>9, <2>1, <2>2, <2>7 DEF LockCaller
  <2>11. QED BY <2>9, <2>10
<1>10. QED BY <1>8, <1>9

----------------------------------------------------------------------------
(* is sent or aborted,                                                    *)

(* The command of a lock change goes into the queue.                        *)
LEMMA SentLock ==
    ASSUME Shapes, Commands, CallersOk, LockOk, NEW c \in Callers, LockCaller(c),
           change[c].pc = "send", change[c].kind = "lock",
           change'[c].pc = "mark", change'[c].rotating = change[c].rotating,
           Enqueue(change[c].task), UNCHANGED <<secret, air, acks, mac>>
    PROVE  LockOk' /\ LockCaller(c)'
<1>0. PICK t, p, u, v : /\ t = change[c].task /\ p = secret["lock"].pendingTask
                        /\ u = secret["lock"].unconfirmed /\ v = secret["lock"].value
  OBVIOUS
<1>1. /\ t \in DOMAIN tasks /\ tasks[t].kind = "lock" /\ ~tasks[t].queued
      /\ ~InQueue(t) /\ ~tasks[t].changed /\ t # NoTask
      /\ \A x \in Said : <<t, x>> \notin air
  BY <1>0, BusyTask, QueueIs DEF Busy
<1>2. /\ InQueue(t)' /\ \A s : s # t => (InQueue(s)' <=> InQueue(s))
      /\ DOMAIN tasks' = DOMAIN tasks
      /\ \A s \in DOMAIN tasks : s # t => tasks'[s] = tasks[s]
      /\ tasks'[t].queued /\ tasks'[t].kind = tasks[t].kind /\ tasks'[t].new = tasks[t].new
      /\ tasks'[t].changed = tasks[t].changed
  BY <1>0, SentDoes
<1>3. /\ \A s \in DOMAIN tasks : tasks'[s].kind = tasks[s].kind /\ tasks'[s].new = tasks[s].new
                                 /\ tasks'[s].changed = tasks[s].changed
  BY <1>2
<1>4. /\ \A s : IsLock(s)' <=> IsLock(s)
      /\ \A s \in DOMAIN tasks : Did(s)' <=> Did(s)
      /\ \A s \in DOMAIN tasks : s # t => (DidNot(s)' <=> DidNot(s))
      /\ ~Did(t) /\ DidNot(t)
  <2>1. \A s : IsLock(s)' <=> IsLock(s)
    BY <1>2, <1>3 DEF IsLock
  <2>2. \A s \in DOMAIN tasks : Did(s)' <=> Did(s)
    BY <1>3 DEF Did
  <2>3. \A s \in DOMAIN tasks : s # t => (DidNot(s)' <=> DidNot(s))
    BY <1>2 DEF DidNot
  <2>4. ~Did(t) /\ DidNot(t)
    BY <1>1 DEF Did, DidNot, Said
  <2>5. QED BY <2>1, <2>2, <2>3, <2>4
<1>5. ASSUME NEW y, First(y) PROVE First(y)'
  BY <1>3, <1>4, <1>5 DEF First, IsLock
<1>6. /\ v = NoPassword => secret["lock"] = NoRow
      /\ p # NoTask => IsLock(p) /\ tasks[p].new = secret["lock"].pending
      /\ First(u)
      /\ \A s : IsLock(s) /\ InQueue(s) => s \in {u, p}
      /\ p # NoTask /\ tasks[p].queued /\ ~InQueue(p) => ~InQueue(u)
  BY <1>0 DEF LockOk
<1>7. t \in {u, p} /\ v # NoPassword
  <2>1. CASE change[c].rotating
    BY <1>0, <1>1, <2>1 DEF LockCaller
  <2>2. CASE ~change[c].rotating
    <3>1. u = t
      BY <1>0, <2>2 DEF LockCaller
    <3>2. secret["lock"] # NoRow
      <4>1. NoRow.unconfirmed = NoTask
        BY DEF NoRow
      <4>2. QED BY <1>0, <1>1, <3>1, <4>1
    <3>3. QED BY <1>6, <3>1, <3>2
  <2>3. QED BY <2>1, <2>2
<1>8. p # NoTask => p = t
  BY <1>0 DEF LockCaller
<1>9. /\ \A s : IsLock(s)' /\ InQueue(s)' => s \in {u, p}
      /\ p # NoTask => IsLock(p)' /\ tasks'[p].new = secret["lock"].pending
  BY <1>2, <1>3, <1>4, <1>6, <1>7 DEF IsLock
<1>10. p # NoTask => InQueue(p)' /\ DidNot(p) /\ ~Did(p)'
  BY <1>1, <1>2, <1>4, <1>8
<1>11. u # NoTask => (Did(u)' <=> Did(u))
  BY <1>4, <1>6 DEF First, IsLock
<1>12. LockOk'
  BY <1>0, <1>5, <1>6, <1>7, <1>9, <1>10, <1>11 DEF LockOk
<1>13. LockCaller(c)'
  BY <1>0, <1>7 DEF LockCaller
<1>14. QED BY <1>12, <1>13

(* A change that was not sent: the row is put back, or the parked password  *)
(* cleared; the copy's unconfirmed command is written again.                *)
LEMMA AbortLock ==
    ASSUME Shapes, Commands, CallersOk, LockOk, NEW c \in Callers, LockCaller(c), Abort(c),
           change[c].kind = "lock"
    PROVE  LockOk'
<1>0. PICK t, p, u, v, x : /\ t = change[c].task /\ p = secret["lock"].pendingTask
                           /\ u = secret["lock"].unconfirmed /\ v = secret["lock"].value
                           /\ x = change[c].row.unconfirmed
  OBVIOUS
<1>1. /\ change[c].pc = "abort" /\ UNCHANGED <<queue, air, mac>>
  BY DEF Abort
<1>2. /\ t \in DOMAIN tasks /\ tasks[t].kind = "lock" /\ ~tasks[t].queued
      /\ ~InQueue(t) /\ t # NoTask
  BY <1>0, <1>1, BusyTask, QueueIs DEF Busy
<1>3. /\ DOMAIN tasks' = DOMAIN tasks /\ tasks'[t] = [tasks[t] EXCEPT !.status = "failed"]
      /\ \A s \in DOMAIN tasks : s # t => tasks'[s] = tasks[s]
  BY <1>0, AbortWrites
<1>4. \A s \in DOMAIN tasks :
        /\ tasks'[s].kind = tasks[s].kind /\ tasks'[s].new = tasks[s].new
        /\ tasks'[s].queued = tasks[s].queued /\ tasks'[s].changed = tasks[s].changed
  <2>1. tasks[t] \in TaskSet
    BY <1>2, TaskWrites
  <2>2. QED BY <1>3, <2>1 DEF TaskSet
<1>5. /\ \A s : InQueue(s)' <=> InQueue(s)
      /\ \A s : IsLock(s)' <=> IsLock(s)
      /\ \A s \in DOMAIN tasks : Did(s)' <=> Did(s)
  BY <1>1, <1>3, <1>4 DEF InQueue, IsLock, Did
<1>6. CASE ~change[c].rotating
  <2>1. secret'["lock"] = NoRow /\ Unlocked
    BY <1>1, <1>6, AbortDoes DEF LockCaller
  <2>2. Unlocked'
    BY <1>1, <1>4, <1>5, <2>1 DEF Unlocked, IsLock
  <2>3. \A s : ~(IsLock(s)' /\ InQueue(s)')
    BY <1>5, <2>1 DEF Unlocked, Commands, Command, IsLock
  <2>4. /\ secret'["lock"].value = NoPassword /\ secret'["lock"].pending = NoPassword
        /\ secret'["lock"].pendingTask = NoTask /\ secret'["lock"].unconfirmed = NoTask
    BY <2>1 DEF NoRow
  <2>5. QED BY <2>1, <2>2, <2>3, <2>4 DEF LockOk, Unlocked, First
<1>7. CASE change[c].rotating
  <2>1. /\ secret'["lock"].value = v /\ secret'["lock"].pending = NoPassword
        /\ secret'["lock"].pendingTask = NoTask /\ secret'["lock"].unconfirmed = x
    BY <1>0, <1>7, AbortDoes
  <2>2. /\ p = t /\ v # NoPassword /\ First(x)
        /\ u # x => mac.lock # Foreign /\ ~InQueue(u) /\ ~InQueue(x)
    BY <1>0, <1>1, <1>7 DEF LockCaller
  <2>3. DidNot(p)
    BY <1>2, <2>2 DEF DidNot
  <2>4. /\ mac.lock \in {NoPassword, Foreign, v}
        /\ \A s : IsLock(s) /\ InQueue(s) => s \in {u, p}
        /\ u # NoTask /\ Did(u) => mac.lock # Foreign
        /\ u = NoTask => mac.lock # Foreign
    BY <1>0, <1>2, <2>2, <2>3 DEF LockOk
  <2>5. \A s : IsLock(s)' /\ InQueue(s)' => s = x
    BY <1>2, <1>5, <2>2, <2>4
  <2>6. First(x)' /\ (x # NoTask => x \in DOMAIN tasks)
    BY <1>0, <1>4, <1>5, <2>1, <2>2 DEF First, IsLock
  <2>7. /\ x # NoTask /\ Did(x)' => mac'.lock # Foreign
        /\ x = NoTask => mac'.lock # Foreign
    BY <1>1, <1>5, <2>2, <2>4, <2>6
  <2>8. QED BY <1>1, <2>1, <2>2, <2>4, <2>5, <2>6, <2>7 DEF LockOk
<1>8. QED BY <1>6, <1>7

----------------------------------------------------------------------------
(* and is acknowledged.                                                   *)

(* An acknowledgement settles the command the row waits for.                *)
LEMMA AckTook ==
    ASSUME Shapes, Commands, NEW t \in DOMAIN tasks, Acknowledge(t)
    PROVE  /\ tasks[t].sent /\ tasks[t].queued /\ ~InQueue(t) /\ t # NoTask
           /\ Took(t) => Did(t)
           /\ ~Took(t) => DidNot(t)
           /\ UNCHANGED <<tasks, change, queue, air, mac>>
<1>1. t \in acks /\ Command(t)
  BY DEF Acknowledge, Commands
<1>2. tasks[t].sent /\ tasks[t].queued /\ ~InQueue(t) /\ tasks[t].status \in Ended
  BY <1>1 DEF Command
<1>3. (Took(t) => Did(t)) /\ (~Took(t) => DidNot(t))
  BY <1>1, <1>2 DEF Took, Did, DidNot, Command
<1>4. t # NoTask
  BY QueueIs
<1>5. QED BY <1>2, <1>3, <1>4 DEF Acknowledge

LEMMA AckLock ==
    ASSUME Shapes, Commands, CallersOk, LockOk, LockCallers, NEW t \in DOMAIN tasks,
           Acknowledge(t), tasks[t].kind = "lock"
    PROVE  LockOk' /\ LockCallers'
<1>0. PICK p, u, v, w : /\ p = secret["lock"].pendingTask /\ u = secret["lock"].unconfirmed
                        /\ v = secret["lock"].value /\ w = secret["lock"].pending
  OBVIOUS
<1>1. /\ tasks[t].sent /\ tasks[t].queued /\ ~InQueue(t) /\ t # NoTask
      /\ Took(t) => Did(t)
      /\ ~Took(t) => DidNot(t)
      /\ UNCHANGED <<tasks, change, queue, air, mac>>
  BY AckTook
<1>2. /\ v = NoPassword => secret["lock"] = NoRow /\ Unlocked
      /\ p = NoTask <=> w = NoPassword
      /\ p # NoTask => IsLock(p) /\ tasks[p].new = w
      /\ First(u)
      /\ \A s : IsLock(s) /\ InQueue(s) => s \in {u, p}
      /\ p # NoTask /\ tasks[p].queued /\ ~InQueue(p) => ~InQueue(u)
      /\ mac.lock \in {NoPassword, Foreign, v, w}
      /\ p # NoTask /\ DidNot(p) => mac.lock \in {NoPassword, Foreign, v}
      /\ p # NoTask /\ Did(p) => mac.lock \in {NoPassword, w}
      /\ u # NoTask /\ Did(u) => mac.lock # Foreign
      /\ v # NoPassword /\ u = NoTask => mac.lock # Foreign
  BY <1>0 DEF LockOk
<1>3. v # NoPassword
  BY <1>1, <1>2 DEF Unlocked, IsLock
<1>4. /\ secret["lock"] \in RowSet /\ secret'["lock"] = Settle(secret["lock"], t)
  BY AcknowledgeDoes DEF Shapes, Kinds
<1>5. /\ \A s : InQueue(s)' <=> InQueue(s)
      /\ \A s : IsLock(s)' <=> IsLock(s)
      /\ \A s : Did(s)' <=> Did(s)
      /\ \A s : DidNot(s)' <=> DidNot(s)
      /\ Unlocked' <=> Unlocked
  BY <1>1 DEF InQueue, IsLock, Did, DidNot, Unlocked
<1>6. \A c \in Callers : change[c].pc \in {"send", "abort"} => change[c].task # t
  BY <1>1, BusyTask DEF Busy
<1>7. ASSUME NEW c \in Callers, change[c].kind = "lock", change[c].pc # "idle"
      PROVE  /\ change[c].pc = "begin" => p = NoTask
             /\ ~(change[c].pc = "begin" /\ ~change[c].rotating)
             /\ change[c].pc \in {"send", "abort"} /\ ~change[c].rotating => u = change[c].task /\ p = NoTask
             /\ change[c].pc \in {"send", "abort"} /\ change[c].rotating => p = change[c].task
             /\ change[c].rotating /\ change[c].pc \in {"begin", "send", "abort"} =>
                   /\ First(change[c].row.unconfirmed)
                   /\ u # change[c].row.unconfirmed =>
                        mac.lock # Foreign /\ ~InQueue(u) /\ ~InQueue(change[c].row.unconfirmed)
  <2>1. secret["lock"] # NoRow
    BY <1>0, <1>3 DEF NoRow
  <2>2. QED BY <1>0, <1>7, <2>1 DEF LockCaller, LockCallers
<1>8. CASE secret'["lock"] = secret["lock"]
  <2>1. \A y : First(y)' <=> First(y)
    BY <1>1, <1>5, <1>8 DEF First
  <2>2. LockOk'
    BY <1>0, <1>1, <1>2, <1>3, <1>5, <1>8, <2>1 DEF LockOk
  <2>3. LockCallers'
    BY <1>1, <1>5, <1>8, <2>1 DEF LockCaller, LockCallers
  <2>4. QED BY <2>2, <2>3
(* A rotation that the Mac did not make.                                    *)
<1>9. CASE /\ p = t /\ ~Took(t)
           /\ secret'["lock"].value = v /\ secret'["lock"].unconfirmed = u
           /\ secret'["lock"].pending = NoPassword /\ secret'["lock"].pendingTask = NoTask
  <2>1. First(u)'
    BY <1>0, <1>1, <1>2, <1>5, <1>9 DEF First
  <2>2. mac.lock \in {NoPassword, Foreign, v} /\ \A s : IsLock(s) /\ InQueue(s) => s = u
    BY <1>1, <1>2, <1>9
  <2>3. LockOk'
    BY <1>1, <1>2, <1>3, <1>5, <1>9, <2>1, <2>2 DEF LockOk
  <2>4. ASSUME NEW c \in Callers, change[c].kind = "lock", change[c].pc # "idle"
        PROVE  change[c].pc \notin {"begin", "send", "abort"}
    BY <1>1, <1>6, <1>7, <1>9, <2>4
  <2>5. LockCallers'
    BY <1>1, <1>3, <1>9, <2>4 DEF LockCaller, LockCallers
  <2>6. QED BY <2>3, <2>5
(* A rotation that it made: the parked password is the stored one now.      *)
<1>10. CASE /\ p = t /\ Took(t)
            /\ secret'["lock"].value = w /\ secret'["lock"].unconfirmed = NoTask
            /\ secret'["lock"].pending = NoPassword /\ secret'["lock"].pendingTask = NoTask
  <2>1. w # NoPassword /\ w # Foreign /\ mac.lock \in {NoPassword, w}
    <3>1. tasks[t].new \in Passwords
      BY TaskWrites DEF TaskSet
    <3>2. QED BY <1>1, <1>2, <1>10, <3>1, Apart
  <2>2. \A s : ~(IsLock(s) /\ InQueue(s))
    BY <1>1, <1>2, <1>10
  <2>3. First(NoTask)'
    BY DEF First
  <2>4. LockOk'
    BY <1>1, <1>5, <1>10, <2>1, <2>2, <2>3, Apart DEF LockOk
  <2>5. ASSUME NEW c \in Callers, change[c].kind = "lock", change[c].pc # "idle"
        PROVE  change[c].pc \notin {"begin", "send", "abort"}
    BY <1>1, <1>6, <1>7, <1>10, <2>5
  <2>6. LockCallers'
    BY <1>1, <1>10, <2>1, <2>5 DEF LockCaller, LockCallers
  <2>7. QED BY <2>4, <2>6
(* The command of the stored password took.                                 *)
<1>11. CASE /\ p # t /\ u = t /\ Took(t)
            /\ secret'["lock"].value = v /\ secret'["lock"].unconfirmed = NoTask
            /\ secret'["lock"].pending = w /\ secret'["lock"].pendingTask = p
  <2>1. mac.lock # Foreign /\ \A s : IsLock(s) /\ InQueue(s) => s = p
    BY <1>1, <1>2, <1>11
  <2>2. \A y : First(y)' <=> First(y)
    BY <1>0, <1>1, <1>5, <1>11 DEF First
  <2>3. First(NoTask)'
    BY DEF First
  <2>4. ~InQueue(NoTask)
    BY QueueIs
  <2>5. LockOk'
    BY <1>1, <1>2, <1>3, <1>5, <1>11, <2>1, <2>3, <2>4 DEF LockOk
  <2>6. ASSUME NEW c \in Callers PROVE LockCaller(c)'
    <3>1. SUFFICES ASSUME change[c].kind = "lock", change[c].pc # "idle" PROVE LockCaller(c)'
      BY <1>1 DEF LockCaller
    <3>2. ~(change[c].pc \in {"send", "abort"} /\ ~change[c].rotating)
      BY <1>6, <1>7, <1>11, <3>1
    <3>3. change[c].rotating /\ change[c].pc \in {"begin", "send", "abort"} =>
             First(change[c].row.unconfirmed) /\ ~InQueue(change[c].row.unconfirmed)
      BY <1>1, <1>7, <1>11, <3>1
    <3>4. QED BY <1>1, <1>3, <1>5, <1>7, <1>11, <2>1, <2>2, <2>4, <3>1, <3>2, <3>3 DEF LockCaller
  <2>7. QED BY <2>5, <2>6 DEF LockCallers
<1>12. QED
  <2>1. \/ secret'["lock"] = secret["lock"]
        \/ /\ p = t /\ ~Took(t)
           /\ secret'["lock"].value = v /\ secret'["lock"].unconfirmed = u
           /\ secret'["lock"].pending = NoPassword /\ secret'["lock"].pendingTask = NoTask
        \/ /\ p = t /\ Took(t)
           /\ secret'["lock"].value = w /\ secret'["lock"].unconfirmed = NoTask
           /\ secret'["lock"].pending = NoPassword /\ secret'["lock"].pendingTask = NoTask
        \/ /\ p # t /\ u = t /\ Took(t)
           /\ secret'["lock"].value = v /\ secret'["lock"].unconfirmed = NoTask
           /\ secret'["lock"].pending = w /\ secret'["lock"].pendingTask = p
    BY <1>0, <1>4, SettleDoes
  <2>2. QED BY <1>8, <1>9, <1>10, <1>11, <2>1

----------------------------------------------------------------------------
(* The steps of a caller, put together.                                   *)

LEMMA NotALock ==
    ASSUME NEW c \in Callers, change'[c].pc = "idle" \/ change'[c].kind # "lock"
    PROVE  LockCaller(c)'
BY DEF LockCaller

LEMMA OthersIdle ==
    ASSUME Lone, NEW c \in Callers, change[c].pc # "idle",
           \A d \in Callers : d # c => change'[d] = change[d]
    PROVE  \A d \in Callers : d # c => change'[d].pc = "idle"
BY DEF Lone

LEMMA CalmStep ==
    ASSUME LockOk, LockCallers, LockCalm,
           \A c \in Callers : Goes(c) \/ change'[c].pc = "idle" \/ change'[c].kind # "lock"
    PROVE  LockOk' /\ LockCallers'
BY CalmLock, CalmLockCaller, NotALock DEF LockCallers

LEMMA PlanLockStep ==
    ASSUME {"two", "debris"} \cap Overlaps = {}, Shapes, LockOk, LockCallers,
           NEW c \in Callers, NEW new \in Passwords, NEW supplied, NEW rotate,
           PlanLock(c, new, supplied, rotate)
    PROVE  LockOk' /\ LockCallers'
<1> DEFINE ch == [Idle EXCEPT !.pc = "begin", !.kind = "lock", !.new = new,
                        !.current = IF supplied # NoPassword THEN supplied
                                    ELSE secret["lock"].value,
                        !.rotating = Stored("lock"), !.row = secret["lock"]]
<1>1. /\ ch.pc = "begin" /\ ch.kind = "lock" /\ ch.rotating = Stored("lock")
      /\ ch.row = secret["lock"]
  BY DEF Idle
<1>2. /\ change' = [change EXCEPT ![c] = ch]
      /\ UNCHANGED <<secret, tasks, queue, air, mac>>
  BY DEF PlanLock, rows
<1>3. secret["lock"].pendingTask = NoTask
  BY DEF PlanLock, MayChange, InFlight, Debris
<1>4. \A d \in Callers \ {c} : change[d].pc = "idle"
  BY DEF PlanLock, Alone
<1> HIDE DEF ch
<1>5. change'[c] = ch /\ \A d \in Callers : d # c => change'[d] = change[d]
  BY <1>2 DEF Shapes
<1>6. LockCalm
  <2>1. LockRowCalm /\ LockTasksCalm
    BY <1>2, SameRowCalm, SameTasksCalm
  <2>2. QED BY <1>2, <2>1, LockCalmIs
<1>7. LockOk'
  BY <1>6, CalmLock
<1>8. LockCaller(c)'
  <2>1. /\ change'[c].pc = "begin" /\ change'[c].rotating = (secret["lock"] # NoRow)
        /\ change'[c].row = secret["lock"]
    BY <1>1, <1>5 DEF Stored
  <2>2. First(secret["lock"].unconfirmed)
    BY DEF LockOk
  <2>3. secret["lock"] # NoRow => secret["lock"].value # NoPassword
    BY DEF LockOk
  <2>4. PICK x : x = secret["lock"].unconfirmed
    OBVIOUS
  <2>5. First(x)' /\ secret'["lock"].unconfirmed = x /\ change'[c].row.unconfirmed = x
    BY <1>2, <1>6, <2>1, <2>2, <2>4, CalmFirst
  <2>6. QED BY <1>2, <1>3, <2>1, <2>3, <2>5 DEF LockCaller
<1>9. \A d \in Callers : d # c => LockCaller(d)'
  BY <1>4, <1>5, NotALock
<1>10. QED BY <1>7, <1>8, <1>9 DEF LockCallers

LEMMA OneCaller ==
    ASSUME Lone, NEW c \in Callers, change[c].pc # "idle", LockCaller(c)',
           \A d \in Callers : d # c => change'[d] = change[d]
    PROVE  LockCallers'
BY OthersIdle, NotALock DEF LockCallers

LEMMA BeginStep ==
    ASSUME Shapes, Lone, Commands, CallersOk, LockOk, LockCallers, NEW c \in Callers, Begin(c),
           change[c].kind = "account" => ~change[c].rotating
    PROVE  LockOk' /\ LockCallers'
<1>1. /\ change[c].pc # "idle" /\ mac' = mac /\ change'[c].kind = change[c].kind
      /\ \A d \in Callers : d # c => change'[d] = change[d]
  BY BegunChange DEF Begin
<1>2. CASE change[c].kind = "lock"
  <2>1. LockOk' /\ LockCaller(c)'
    BY <1>2, BeginLock DEF LockCallers
  <2>2. QED BY <1>1, <2>1, OneCaller
<1>3. CASE change[c].kind = "account"
  <2>1. Escrow("account", change[c].new, Len(tasks) + 1)
    BY <1>3 DEF Begin
  <2>2. secret'["lock"] = secret["lock"]
    BY <2>1, EscrowDoes DEF Kinds
  <2>3. LockCalm
    BY <1>1, <1>3, <2>2, SameRowCalm, BeginCalm, LockCalmIs
  <2>4. \A d \in Callers : change'[d].pc = "idle" \/ change'[d].kind # "lock"
    BY <1>1, <1>3, OthersIdle
  <2>5. QED BY <2>3, <2>4, CalmStep
<1>4. QED BY <1>2, <1>3, ChangeIs

LEMMA SendStep ==
    ASSUME "lostReply" \notin Overlaps, Shapes, Lone, Commands, CallersOk, LockOk, LockCallers,
           NEW c \in Callers, Send(c)
    PROVE  LockOk' /\ LockCallers'
<1>1. /\ change[c].pc = "send" /\ UNCHANGED <<secret, air, acks, mac>>
      /\ \A d \in Callers : d # c => change'[d] = change[d]
      /\ \/ change'[c] = [change[c] EXCEPT !.pc = "abort"] /\ UNCHANGED <<queue, tasks>>
         \/ change'[c] = [change[c] EXCEPT !.pc = "mark"] /\ Enqueue(change[c].task)
      /\ change[c] \in ChangeSet
  BY SendDoes, ChangeIs
<1>2. /\ change'[c].pc \in {"mark", "abort"} /\ change'[c].kind = change[c].kind
      /\ change'[c].rotating = change[c].rotating /\ change'[c].row = change[c].row
      /\ change'[c].task = change[c].task /\ change'[c].new = change[c].new
  <2>1. \A s \in {"mark", "abort"} : LET r == [change[c] EXCEPT !.pc = s]
          IN  /\ r.pc = s /\ r.kind = change[c].kind
              /\ r.rotating = change[c].rotating /\ r.row = change[c].row
              /\ r.task = change[c].task /\ r.new = change[c].new
    BY <1>1 DEF ChangeSet
  <2>2. QED BY <1>1, <2>1
<1>3. Goes(c) /\ \A d \in Callers : d # c => Goes(d)
  BY <1>1, <1>2 DEF Goes
<1>4. LockRowCalm
  BY <1>1, SameRowCalm
<1>5. CASE UNCHANGED <<queue, tasks>>
  <2>1. LockCalm
    BY <1>1, <1>4, <1>5, SameTasksCalm, LockCalmIs
  <2>2. QED BY <1>3, <2>1, CalmStep
<1>6. CASE Enqueue(change[c].task) /\ change[c].kind = "account"
  <2>1. LockCalm
    BY <1>1, <1>4, <1>6, SentCalm, LockCalmIs
  <2>2. QED BY <1>3, <2>1, CalmStep
<1>7. CASE /\ change'[c] = [change[c] EXCEPT !.pc = "mark"] /\ Enqueue(change[c].task)
           /\ change[c].kind = "lock"
  <2>1. change'[c].pc = "mark"
    BY <1>1, <1>7 DEF ChangeSet
  <2>2. LockOk' /\ LockCaller(c)'
    BY <1>1, <1>2, <1>7, <2>1, SentLock DEF LockCallers
  <2>3. QED BY <1>1, <2>2, OneCaller
<1>8. QED BY <1>1, <1>5, <1>6, <1>7, ChangeIs

LEMMA AbortStep ==
    ASSUME Shapes, Lone, Commands, CallersOk, LockOk, LockCallers, NEW c \in Callers, Abort(c),
           change[c].kind = "account" => ~change[c].rotating
    PROVE  LockOk' /\ LockCallers'
<1>1. /\ change[c].pc = "abort" /\ mac' = mac /\ change'[c].pc = "idle"
      /\ \A d \in Callers : d # c => change'[d] = change[d]
  BY IsDone DEF Abort, Idle
<1>2. CASE change[c].kind = "lock"
  <2>1. LockOk' /\ LockCaller(c)'
    BY <1>1, <1>2, AbortLock, NotALock DEF LockCallers
  <2>2. QED BY <1>1, <2>1, OneCaller
<1>3. CASE change[c].kind = "account"
  <2>1. secret'["lock"] = secret["lock"]
    BY <1>3, AbortDoes DEF Kinds
  <2>2. tasks[change[c].task].kind = "account"
    BY <1>1, <1>3, BusyTask DEF Busy
  <2>3. LockCalm
    BY <1>1, <2>1, <2>2, SameRowCalm, AbortCalm, LockCalmIs
  <2>4. \A d \in Callers : change'[d].pc = "idle"
    BY <1>1, OthersIdle
  <2>5. QED BY <2>3, <2>4, CalmStep
<1>4. QED BY <1>2, <1>3, ChangeIs

----------------------------------------------------------------------------
(* The administrator's account: its row and its one command.              *)

(* The administrator's row and the one command that sets it.                *)
Asked(t) == t \in DOMAIN tasks /\ tasks[t].kind = "account" /\ tasks[t].queued
Unasked == \A t : ~Asked(t)
Plain(r) == r.pendingTask = NoTask /\ r.pending = NoPassword /\ (r.value = NoPassword => r = NoRow)
AccountOk ==
    /\ Plain(secret["account"])
    /\ Unasked => mac.account = NoPassword
    /\ \A s, t : Asked(s) /\ Asked(t) => s = t
    /\ \A t : Asked(t) => /\ tasks[t].new = secret["account"].value
                          /\ mac.account \in {NoPassword, secret["account"].value}
AccountCaller(c) ==
    LET ch == change[c]
    IN  ch.kind = "account" /\ ch.pc \in {"begin", "send", "abort"} =>
          /\ ~ch.rotating /\ Unasked /\ Plain(ch.row)
          /\ ch.pc \in {"send", "abort"} => secret["account"].value = ch.new
AccountCallers == \A c \in Callers : AccountCaller(c)

AskedCalm ==
    \A t : (Asked(t)' <=> Asked(t)) /\ (Asked(t) => tasks'[t].new = tasks[t].new)
AccountCalm ==
    /\ AskedCalm
    /\ secret'["account"].value = secret["account"].value
    /\ secret'["account"].pending = secret["account"].pending
    /\ secret'["account"].pendingTask = secret["account"].pendingTask
    /\ secret["account"] = NoRow => secret'["account"] = NoRow
    /\ mac'.account \in {mac.account, NoPassword}

LEMMA CalmAccount == ASSUME AccountOk, AccountCalm PROVE AccountOk'
<1>1. Unasked' <=> Unasked
  BY DEF AccountCalm, AskedCalm, Unasked
<1>2. Plain(secret["account"])'
  BY DEF Plain, AccountOk, AccountCalm
<1>3. QED BY <1>1, <1>2 DEF AccountOk, AccountCalm, AskedCalm

LEMMA CalmAccountCaller ==
    ASSUME NEW c \in Callers, AccountCaller(c), AccountCalm,
           Goes(c) \/ change'[c].pc = "idle" \/ change'[c].kind # "account"
    PROVE  AccountCaller(c)'
<1>1. Unasked' <=> Unasked
  BY DEF AccountCalm, AskedCalm, Unasked
<1>2. SUFFICES ASSUME change'[c].kind = "account", change'[c].pc \in {"begin", "send", "abort"}
               PROVE  AccountCaller(c)'
  BY DEF AccountCaller
<1>3. /\ change'[c].kind = change[c].kind /\ change'[c].rotating = change[c].rotating
      /\ change'[c].row = change[c].row /\ change'[c].new = change[c].new
      /\ change[c].pc \in {"begin", "send", "abort"}
      /\ change'[c].pc \in {"send", "abort"} => change[c].pc \in {"send", "abort"}
  <2>1. CASE change'[c] = change[c]
    BY <1>2, <2>1
  <2>2. CASE change'[c] # change[c]
    BY <1>2, <2>2 DEF Goes
  <2>3. QED BY <2>1, <2>2
<1>4. ~change[c].rotating /\ Unasked /\ Plain(change[c].row)
      /\ (change[c].pc \in {"send", "abort"} => secret["account"].value = change[c].new)
  BY <1>2, <1>3 DEF AccountCaller
<1>5. Plain(change[c].row)'
  BY <1>3, <1>4 DEF Plain
<1>6. QED BY <1>1, <1>3, <1>4, <1>5 DEF AccountCaller, AccountCalm

LEMMA AccountCalmStep ==
    ASSUME AccountOk, AccountCallers, AccountCalm,
           \A c \in Callers : Goes(c) \/ change'[c].pc = "idle" \/ change'[c].kind # "account"
    PROVE  AccountOk' /\ AccountCallers'
BY CalmAccount, CalmAccountCaller DEF AccountCallers

(* No step but the sending of an account's command changes what was asked.  *)
LEMMA AskedStays ==
    ASSUME DOMAIN tasks' = DOMAIN tasks,
           \A t \in DOMAIN tasks : /\ tasks'[t].kind = tasks[t].kind
                                   /\ tasks'[t].new = tasks[t].new
                                   /\ tasks'[t].queued = tasks[t].queued
    PROVE  AskedCalm
BY DEF AskedCalm, Asked

LEMMA OneAskedStays ==
    ASSUME TasksLast, NEW t \in DOMAIN tasks, tasks'[t].queued = tasks[t].queued,
           \A s \in DOMAIN tasks : s # t => tasks'[s] = tasks[s]
    PROVE  AskedCalm
BY AskedStays DEF TasksLast

LEMMA AskedCalmAlways ==
    ASSUME "lostReply" \notin Overlaps, Shapes, Commands, CallersOk, [Next]_vars,
           ~(\E c \in Callers : Send(c) /\ change[c].kind = "account")
    PROVE  AskedCalm
<1>0. CASE UNCHANGED tasks
  BY <1>0 DEF AskedCalm, Asked
<1>1. ASSUME NEW c \in Callers, Begin(c) PROVE AskedCalm
  <2>0. PICK n : n = Len(tasks) + 1
    OBVIOUS
  <2>1. /\ DOMAIN tasks' = DOMAIN tasks \cup {n} /\ n \notin DOMAIN tasks
        /\ \A t \in DOMAIN tasks : tasks'[t] = tasks[t]
        /\ tasks'[n] = NewTask(change[c])
    BY <1>1, <2>0, Begun
  <2>2. ~tasks'[n].queued
    BY <2>1 DEF NewTask
  <2>3. QED BY <2>1, <2>2 DEF AskedCalm, Asked
<1>2. ASSUME NEW c \in Callers, Send(c) PROVE AskedCalm
  <2>0. PICK t : t = change[c].task
    OBVIOUS
  <2>1. CASE Enqueue(t)
    <3>1. change[c].pc = "send" /\ UNCHANGED <<air, acks>> /\ change[c].kind = "lock"
      BY <1>2, SendDoes, ChangeIs
    <3>2. t \in DOMAIN tasks /\ tasks[t].kind = "lock"
      BY <2>0, <3>1, BusyTask DEF Busy
    <3>3. /\ DOMAIN tasks' = DOMAIN tasks /\ tasks'[t].kind = tasks[t].kind
          /\ \A s \in DOMAIN tasks : s # t => tasks'[s] = tasks[s]
      BY <2>0, <2>1, <3>1, SentDoes
    <3>4. QED BY <3>2, <3>3 DEF AskedCalm, Asked
  <2>2. QED BY <1>0, <1>2, <2>0, <2>1, SendDoes
<1>3. ASSUME NEW c \in Callers, MarkSent(c) PROVE AskedCalm
  <2>0. PICK t : t = change[c].task
    OBVIOUS
  <2>1. /\ t \in DOMAIN tasks /\ tasks'[t] = [tasks[t] EXCEPT !.status = "running", !.sent = TRUE]
        /\ \A s \in DOMAIN tasks : s # t => tasks'[s] = tasks[s]
    BY <1>3, <2>0, MarkSentWrites
  <2>2. tasks[t] \in TaskSet
    BY <2>1, TaskWrites
  <2>3. tasks'[t].queued = tasks[t].queued
    BY <2>1, <2>2 DEF TaskSet
  <2>4. QED BY <1>3, <2>1, <2>3, MarkLasts, OneAskedStays
<1>4. ASSUME NEW c \in Callers, Abort(c) PROVE AskedCalm
  <2>0. PICK t : t = change[c].task
    OBVIOUS
  <2>1. /\ t \in DOMAIN tasks /\ tasks'[t] = [tasks[t] EXCEPT !.status = "failed"]
        /\ \A s \in DOMAIN tasks : s # t => tasks'[s] = tasks[s]
    BY <1>4, <2>0, AbortWrites
  <2>2. tasks[t] \in TaskSet
    BY <2>1, TaskWrites
  <2>3. tasks'[t].queued = tasks[t].queued
    BY <2>1, <2>2 DEF TaskSet
  <2>4. QED BY <1>4, <2>1, <2>3, AbortLasts, OneAskedStays
<1>5. ASSUME NEW c \in Callers, Change(c) PROVE AskedCalm
  BY <1>0, <1>1, <1>2, <1>3, <1>4, <1>5 DEF Change, PlanLock, PlanAccount
<1>6. ASSUME NEW a \in air, Receive(a) PROVE AskedCalm
  <2>1. \E t \in DOMAIN tasks : /\ \A s \in DOMAIN tasks : s # t => tasks'[s] = tasks[s]
                                /\ tasks'[t].queued = tasks[t].queued
    BY <1>6, ReceiveDoes
  <2>2. QED BY <1>6, <2>1, ReceiveLasts, OneAskedStays
<1>7. CASE Reenroll
  <2>1. \A t \in DOMAIN tasks : tasks'[t].queued = tasks[t].queued
    BY <1>7, ReenrollDoes
  <2>2. QED BY <1>7, <2>1, ReenrollLasts, AskedStays DEF TasksLast
<1>8. ASSUME NEW t \in DOMAIN tasks, NEW s \in {"cancelled", "timed out"}, End(t, s)
      PROVE  AskedCalm
  BY <1>8, EndDoes, EndLasts, OneAskedStays
<1>9. CASE Device
  BY <1>0, <1>6, <1>7, <1>9 DEF Device, Take, LeaveSetupAssistant, LoseAnswer, Discard
<1>10. CASE Console \/ Restart \/ Fetch \/ (\E code \in Passwords : Wiped(code)) \/ UNCHANGED vars
            \/ \E t \in DOMAIN tasks : Acknowledge(t)
  BY <1>0, <1>10 DEF Console, Reveal, RaiseAlert, CloseAlert, Restart, Fetch, Wiped, vars, Acknowledge
<1>11. QED BY <1>5, <1>8, <1>9, <1>10 DEF Next

----------------------------------------------------------------------------
(* The lock is kept.                                                      *)

RowCalm(k) ==
    /\ secret'[k].value = secret[k].value /\ secret'[k].pending = secret[k].pending
    /\ secret'[k].pendingTask = secret[k].pendingTask
    /\ secret'[k].unconfirmed = secret[k].unconfirmed
    /\ secret[k] = NoRow => secret'[k] = NoRow

LEMMA RevealRow ==
    ASSUME Shapes, NEW k \in Kinds, Reveal(k) PROVE \A j \in Kinds : RowCalm(j)
<1> DEFINE r == [secret[k] EXCEPT !.revealed = TRUE]
<1>1. secret[k] \in RowSet /\ DOMAIN secret = Kinds /\ secret[k] # NoRow
  BY DEF Shapes, Reveal, Stored
<1>2. /\ r.value = secret[k].value /\ r.pending = secret[k].pending
      /\ r.pendingTask = secret[k].pendingTask /\ r.unconfirmed = secret[k].unconfirmed
  BY <1>1 DEF RowSet
<1>3. secret' = [secret EXCEPT ![k] = r]
  BY <1>1 DEF Reveal
<1> HIDE DEF r
<1>4. secret'[k] = r /\ \A j \in Kinds : j # k => secret'[j] = secret[j]
  BY <1>1, <1>3
<1>5. RowCalm(k)
  BY <1>1, <1>2, <1>4 DEF RowCalm
<1>6. \A j \in Kinds : j # k => RowCalm(j)
  BY <1>4 DEF RowCalm
<1>7. QED BY <1>5, <1>6

(* The steps that are none of a caller's, the Mac's taking a command or an  *)
(* acknowledgement leave both rows and what was asked for as they were.     *)
QuietStep ==
    \/ LeaveSetupAssistant \/ Reenroll \/ Restart \/ Fetch \/ Console \/ UNCHANGED vars
    \/ \E a \in air : LoseAnswer(a) \/ Receive(a) \/ Discard(a)
    \/ \E code \in Passwords : Wiped(code)
    \/ \E t \in DOMAIN tasks : End(t, "cancelled") \/ End(t, "timed out")

LEMMA QuietDoes ==
    ASSUME "reenroll" \notin Overlaps, Shapes, Commands, QuietStep
    PROVE  /\ \A k \in {"lock", "account"} : RowCalm(k)
           /\ LockTasksCalm
           /\ mac'.lock \in {mac.lock, NoPassword}
           /\ mac'.account \in {mac.account, NoPassword}
           /\ \A c \in Callers : Goes(c)
<1>1. ASSUME secret'["lock"] = secret["lock"], secret'["account"] = secret["account"]
      PROVE  \A k \in {"lock", "account"} : RowCalm(k)
  BY <1>1 DEF RowCalm
<1>2. \A k \in {"lock", "account"} : RowCalm(k)
  <2>1. CASE Console
    <3>1. CASE \E k \in Kinds : Reveal(k)
      BY <3>1, RevealRow DEF Kinds
    <3>2. CASE \E k \in Kinds : RaiseAlert(k) \/ CloseAlert(k)
      BY <1>1, <3>2 DEF RaiseAlert, CloseAlert
    <3>3. QED BY <2>1, <3>1, <3>2 DEF Console
  <2>2. CASE Fetch
    <3>1. Escrow("bypass", mac.bypass, NoTask)
      BY <2>2 DEF Fetch
    <3>2. secret'["lock"] = secret["lock"] /\ secret'["account"] = secret["account"]
      BY <3>1, EscrowDoes DEF Kinds
    <3>3. QED BY <1>1, <3>2
  <2>3. CASE ~Console /\ ~Fetch
    <3>1. UNCHANGED secret
      BY <2>3 DEF QuietStep, LeaveSetupAssistant, Reenroll, Restart, vars, LoseAnswer, Receive,
         Discard, Wiped, End, rows
    <3>2. QED BY <1>1, <3>1
  <2>4. QED BY <2>1, <2>2, <2>3
<1>3. LockTasksCalm
  <2>1. CASE Reenroll
    BY <2>1, ReenrollCalm
  <2>2. CASE \E a \in air : Receive(a)
    BY <2>2, ReceiveCalm
  <2>3. CASE \E t \in DOMAIN tasks : End(t, "cancelled") \/ End(t, "timed out")
    BY <2>3, EndCalm
  <2>4. CASE UNCHANGED <<tasks, queue>> /\ air' \subseteq air
    BY <2>4, SameTasksCalm
  <2>5. QED
    BY <2>1, <2>2, <2>3, <2>4 DEF QuietStep, LeaveSetupAssistant, Restart, Fetch, Console, Reveal,
       RaiseAlert, CloseAlert, vars, LoseAnswer, Discard, Wiped
<1>4. mac'.lock \in {mac.lock, NoPassword} /\ mac'.account \in {mac.account, NoPassword}
  <2>0. mac \in MacSet
    BY DEF Shapes
  <2>1. CASE Reenroll
    <3>1. PICK erased \in BOOLEAN, lock \in {mac.lock, NoPassword} :
            mac' = IF erased THEN [mac EXCEPT !.lock = lock, !.account = NoPassword,
                                              !.awaiting = TRUE]
                   ELSE mac
      BY <2>1 DEF Reenroll
    <3>2. LET m == [mac EXCEPT !.lock = lock, !.account = NoPassword, !.awaiting = TRUE]
          IN  m.lock = lock /\ m.account = NoPassword
      BY <2>0 DEF MacSet
    <3>3. QED BY <3>1, <3>2
  <2>2. CASE LeaveSetupAssistant
    BY <2>0, <2>2 DEF LeaveSetupAssistant, MacSet
  <2>3. CASE \E code \in Passwords : Wiped(code)
    BY <2>0, <2>3 DEF Wiped, MacSet
  <2>4. CASE UNCHANGED mac
    BY <2>4
  <2>5. QED
    BY <2>1, <2>2, <2>3, <2>4 DEF QuietStep, Restart, Fetch, Console, Reveal, RaiseAlert, CloseAlert,
       vars, LoseAnswer, Receive, Discard, End
<1>5. \A c \in Callers : Goes(c)
  <2>1. CASE Restart
    BY <2>1 DEF Restart, Idle, Goes
  <2>2. CASE UNCHANGED change
    BY <2>2 DEF Goes
  <2>3. QED
    BY <2>1, <2>2 DEF QuietStep, LeaveSetupAssistant, Reenroll, Fetch, Console, Reveal, RaiseAlert,
       CloseAlert, vars, LoseAnswer, Receive, Discard, Wiped, End
<1>6. QED BY <1>2, <1>3, <1>4, <1>5

LEMMA StepIs ==
    ASSUME [Next]_vars
    PROVE  \/ \E c \in Callers : Change(c)
           \/ Take \/ QuietStep
           \/ \E t \in DOMAIN tasks : Acknowledge(t)
BY DEF Next, Device, QuietStep

LEMMA LockStays ==
    ASSUME {"two", "debris", "lostReply", "rerun", "reenroll"} \cap Overlaps = {},
           Shapes, Lone, Commands, CallersOk, LockOk, LockCallers, AccountCallers, [Next]_vars
    PROVE  LockOk' /\ LockCallers'
<1>1. ASSUME NEW c \in Callers, Change(c) PROVE LockOk' /\ LockCallers'
  <2>1. ASSUME NEW new \in Passwords, NEW supplied, NEW rotate,
               PlanLock(c, new, supplied, rotate)
        PROVE  LockOk' /\ LockCallers'
    BY <2>1, PlanLockStep
  <2>2. ASSUME NEW new \in Passwords, PlanAccount(c, new) PROVE LockOk' /\ LockCallers'
    <3>1. UNCHANGED <<secret, tasks, queue, air, mac>>
      BY <2>2 DEF PlanAccount, rows
    <3>2. LockCalm
      BY <3>1, SameRowCalm, SameTasksCalm, LockCalmIs
    <3>3. /\ change'[c].kind = "account"
          /\ \A d \in Callers : d # c => change'[d] = change[d]
      <4> DEFINE ch == [Idle EXCEPT !.pc = "begin", !.kind = "account", !.new = new,
                                    !.row = secret["account"]]
      <4>1. ch.kind = "account"
        BY DEF Idle
      <4>2. change' = [change EXCEPT ![c] = ch]
        BY <2>2 DEF PlanAccount
      <4> HIDE DEF ch
      <4>3. QED BY <4>1, <4>2 DEF Shapes
    <3>4. QED BY <3>2, <3>3, CalmStep DEF Goes
  <2>3. CASE Begin(c)
    <3>1. change[c].kind = "account" => ~change[c].rotating
      BY <2>3 DEF AccountCallers, AccountCaller, Begin
    <3>2. QED BY <2>3, <3>1, BeginStep
  <2>4. CASE Send(c)
    BY <2>4, SendStep
  <2>5. CASE MarkSent(c)
    <3>1. UNCHANGED <<secret, mac>> /\ LockTasksCalm
      BY <2>5, MarkCalm DEF MarkSent, rows
    <3>2. \A d \in Callers : Goes(d)
      BY <2>5, IsDone DEF MarkSent, Goes, Idle
    <3>3. QED BY <3>1, <3>2, SameRowCalm, LockCalmIs, CalmStep
  <2>6. CASE Abort(c)
    <3>1. change[c].kind = "account" => ~change[c].rotating
      BY <2>6 DEF AccountCallers, AccountCaller, Abort
    <3>2. QED BY <2>6, <3>1, AbortStep
  <2>7. QED BY <1>1, <2>1, <2>2, <2>3, <2>4, <2>5, <2>6 DEF Change
<1>2. CASE Take
  <2>1. PICK t \in DOMAIN tasks, x \in Said :
             /\ x \in Answers(t) /\ InQueue(t) /\ ~InQueue(t)'
             /\ \A s : s # t => (InQueue(s)' <=> InQueue(s))
             /\ \A s : InQueue(s) => s >= t
             /\ mac' = IF x = "changed"
                       THEN IF tasks[t].kind = "lock"
                            THEN [mac EXCEPT !.lock = tasks[t].new]
                            ELSE [mac EXCEPT !.account = tasks[t].new]
                       ELSE mac
             /\ air' = air \cup {<<t, x>>}
             /\ UNCHANGED <<secret, alert, tasks, change, acks>>
    BY <1>2, TakeDoes
  <2>2. mac'.lock = IF x = "changed" /\ tasks[t].kind = "lock" THEN tasks[t].new ELSE mac.lock
    BY <2>1, MacTakes
  <2>3. CASE tasks[t].kind = "lock"
    <3>1. LockOk'
      BY <2>1, <2>2, <2>3, TakeLock
    <3>2. \A c \in Callers : LockCaller(c)'
      BY <2>1, <2>3, TakeLockCaller DEF LockCallers
    <3>3. QED BY <3>1, <3>2 DEF LockCallers
  <2>4. CASE tasks[t].kind = "account"
    <3>1. LockTasksCalm
      BY <2>1, <2>4, TakeCalm
    <3>2. LockCalm
      BY <2>1, <2>2, <2>4, <3>1, SameRowCalm, LockCalmIs
    <3>3. QED BY <2>1, <3>2, CalmStep DEF Goes
  <2>5. QED BY <2>3, <2>4, TaskWrites DEF TaskSet, TaskKinds
<1>3. CASE QuietStep
  <2>1. LockCalm
    BY <1>3, QuietDoes, LockCalmIs DEF RowCalm, LockRowCalm
  <2>2. QED BY <1>3, <2>1, QuietDoes, CalmStep
<1>4. ASSUME NEW t \in DOMAIN tasks, Acknowledge(t) PROVE LockOk' /\ LockCallers'
  <2>1. CASE tasks[t].kind = "lock"
    BY <1>4, <2>1, AckLock
  <2>2. CASE tasks[t].kind = "account"
    <3>1. secret'["lock"] = secret["lock"]
      BY <1>4, <2>2, AcknowledgeDoes DEF Kinds
    <3>2. UNCHANGED <<tasks, change, queue, air, mac>>
      BY <1>4 DEF Acknowledge
    <3>3. LockCalm
      BY <3>1, <3>2, SameRowCalm, SameTasksCalm, LockCalmIs
    <3>4. QED BY <3>2, <3>3, CalmStep DEF Goes
  <2>3. QED BY <2>1, <2>2, TaskWrites DEF TaskSet, TaskKinds
<1>5. QED BY <1>1, <1>2, <1>3, <1>4, StepIs

----------------------------------------------------------------------------
(* The account when its change is planned, begun, sent or aborted,        *)

LEMMA SameAccountCalm ==
    ASSUME AskedCalm, secret'["account"] = secret["account"],
           mac'.account \in {mac.account, NoPassword}
    PROVE  AccountCalm
BY DEF AccountCalm

(* The account's command goes into the queue: the only one ever asked.      *)
LEMMA SendAccount ==
    ASSUME "lostReply" \notin Overlaps, Shapes, Lone, Commands, CallersOk, AccountOk,
           AccountCallers, NEW c \in Callers, Send(c), change[c].kind = "account"
    PROVE  AccountOk' /\ AccountCallers'
<1>0. PICK t : t = change[c].task
  OBVIOUS
<1>1. /\ change[c].pc = "send" /\ UNCHANGED <<secret, air, acks, mac>>
      /\ \A d \in Callers : d # c => change'[d] = change[d]
      /\ \/ change'[c] = [change[c] EXCEPT !.pc = "abort"] /\ UNCHANGED <<queue, tasks>>
         \/ change'[c] = [change[c] EXCEPT !.pc = "mark"] /\ Enqueue(t)
      /\ change[c] \in ChangeSet
  BY <1>0, SendDoes, ChangeIs
<1>2. /\ ~change[c].rotating /\ Unasked /\ Plain(change[c].row)
      /\ secret["account"].value = change[c].new
  BY <1>1 DEF AccountCallers, AccountCaller
<1>3. t \in DOMAIN tasks /\ tasks[t].kind = "account" /\ tasks[t].new = change[c].new
  BY <1>0, <1>1, BusyTask DEF Busy
<1>4. CASE change'[c] = [change[c] EXCEPT !.pc = "abort"] /\ UNCHANGED <<queue, tasks>>
  <2>1. AccountCalm
    BY <1>1, <1>4, SameAccountCalm DEF AskedCalm, Asked
  <2>2. /\ change'[c].pc = "abort" /\ change'[c].kind = change[c].kind
        /\ change'[c].rotating = change[c].rotating /\ change'[c].row = change[c].row
        /\ change'[c].task = change[c].task /\ change'[c].new = change[c].new
    BY <1>1, <1>4 DEF ChangeSet
  <2>3. \A d \in Callers : Goes(d)
    BY <1>1, <2>2 DEF Goes
  <2>4. QED BY <2>1, <2>3, AccountCalmStep
<1>5. CASE change'[c] = [change[c] EXCEPT !.pc = "mark"] /\ Enqueue(t)
  <2>1. /\ DOMAIN tasks' = DOMAIN tasks /\ tasks'[t].queued
        /\ tasks'[t].kind = tasks[t].kind /\ tasks'[t].new = tasks[t].new
        /\ \A s \in DOMAIN tasks : s # t => tasks'[s] = tasks[s]
    BY <1>0, <1>1, <1>5, SentDoes
  <2>2. \A s : Asked(s)' <=> s = t
    BY <1>2, <1>3, <2>1 DEF Unasked, Asked
  <2>3. tasks'[t].new = secret["account"].value /\ mac.account = NoPassword
    BY <1>2, <1>3, <2>1 DEF AccountOk
  <2>4. Plain(secret["account"])'
    BY <1>1 DEF AccountOk, Plain
  <2>5. AccountOk'
    BY <1>1, <2>2, <2>3, <2>4 DEF AccountOk, Unasked
  <2>6. change'[c].pc = "mark"
    BY <1>1, <1>5 DEF ChangeSet
  <2>7. \A d \in Callers : d # c => change'[d].pc = "idle"
    BY <1>1, OthersIdle
  <2>8. AccountCallers'
    BY <2>6, <2>7 DEF AccountCallers, AccountCaller
  <2>9. QED BY <2>5, <2>8
<1>6. QED BY <1>1, <1>4, <1>5

(* The node plans it, and stores the new password before it is asked for.   *)
LEMMA PlanAccountStep ==
    ASSUME "rerun" \notin Overlaps, Shapes, AccountOk, AccountCallers,
           NEW c \in Callers, NEW new \in Passwords, PlanAccount(c, new)
    PROVE  AccountOk' /\ AccountCallers'
<1> DEFINE ch == [Idle EXCEPT !.pc = "begin", !.kind = "account", !.new = new,
                              !.row = secret["account"]]
<1>1. UNCHANGED <<secret, tasks, mac>> /\ change' = [change EXCEPT ![c] = ch]
  BY DEF PlanAccount, rows
<1>2. /\ ch.pc = "begin" /\ ch.kind = "account" /\ ~ch.rotating /\ ch.row = secret["account"]
  BY DEF Idle
<1> HIDE DEF ch
<1>3. change'[c] = ch /\ \A d \in Callers : d # c => change'[d] = change[d]
  BY <1>1 DEF Shapes
<1>4. Unasked
  BY DEF PlanAccount, Unasked, Asked
<1>5. AccountCalm
  BY <1>1, SameAccountCalm DEF AskedCalm, Asked
<1>6. AccountOk' /\ \A d \in Callers : d # c => AccountCaller(d)'
  BY <1>3, <1>5, CalmAccount, CalmAccountCaller DEF Goes, AccountCallers
<1>7. Unasked'
  BY <1>4, <1>5 DEF Unasked, AccountCalm, AskedCalm
<1>8. Plain(ch.row)
  BY <1>2 DEF AccountOk
<1>9. AccountCaller(c)'
  BY <1>2, <1>3, <1>7, <1>8 DEF AccountCaller, Plain
<1>10. QED BY <1>6, <1>9 DEF AccountCallers

LEMMA BeginAccount ==
    ASSUME Shapes, Lone, AccountOk, AccountCallers, AskedCalm, NEW c \in Callers, Begin(c),
           change[c].kind = "account"
    PROVE  AccountOk' /\ AccountCallers'
<1>1. /\ change[c].pc = "begin" /\ mac' = mac /\ ~change[c].rotating /\ Unasked
      /\ change[c].new \in Passwords
  BY DEF Begin, AccountCallers, AccountCaller, Shapes
<1>2. Escrow("account", change[c].new, Len(tasks) + 1)
  BY <1>1 DEF Begin
<1>3. /\ secret'["account"].value = change[c].new /\ secret'["account"].pending = NoPassword
      /\ secret'["account"].pendingTask = NoTask
  BY <1>2, EscrowDoes DEF Kinds
<1>4. Plain(secret["account"])'
  BY <1>1, <1>3, Apart DEF Plain
<1>5. Unasked'
  BY <1>1 DEF Unasked, AskedCalm
<1>6. AccountOk'
  BY <1>1, <1>4, <1>5 DEF AccountOk, Unasked
<1>7. /\ change'[c].new = change[c].new /\ change'[c].rotating = change[c].rotating
      /\ change'[c].row = secret["account"] /\ change'[c].pc = "send"
      /\ \A d \in Callers : d # c => change'[d] = change[d]
  BY BegunChange
<1>8. Plain(change[c].row)'
  BY <1>7 DEF AccountOk, Plain
<1>9. AccountCaller(c)'
  BY <1>1, <1>3, <1>5, <1>7, <1>8 DEF AccountCaller
<1>10. \A d \in Callers : d # c => AccountCaller(d)'
  BY <1>1, <1>7, OthersIdle DEF AccountCaller
<1>11. QED BY <1>6, <1>9, <1>10 DEF AccountCallers

(* The send failed: the row is put back as it was before.                   *)
LEMMA AbortAccount ==
    ASSUME Shapes, Lone, AccountOk, AccountCallers, AskedCalm, NEW c \in Callers, Abort(c),
           change[c].kind = "account"
    PROVE  AccountOk' /\ AccountCallers'
<1>1. /\ change[c].pc = "abort" /\ mac' = mac /\ ~change[c].rotating /\ Unasked
      /\ Plain(change[c].row)
  BY DEF Abort, AccountCallers, AccountCaller
<1>2. secret'["account"] = change[c].row
  BY <1>1, AbortDoes
<1>3. Plain(secret["account"])' /\ Unasked'
  BY <1>1, <1>2 DEF Plain, Unasked, AskedCalm
<1>4. AccountOk'
  BY <1>1, <1>3 DEF AccountOk, Unasked
<1>5. change'[c].pc = "idle" /\ \A d \in Callers : d # c => change'[d].pc = "idle"
  BY <1>1, IsDone, OthersIdle DEF Abort, Idle
<1>6. QED BY <1>4, <1>5 DEF AccountCallers, AccountCaller

----------------------------------------------------------------------------
(* answered and acknowledged.                                             *)

(* The Mac answers the account's command.                                   *)
LEMMA TakeAccount ==
    ASSUME Shapes, Commands, AccountOk, AccountCallers, AskedCalm, Take
    PROVE  AccountOk' /\ AccountCallers'
<1>1. PICK t \in DOMAIN tasks, x \in Said :
             /\ InQueue(t)
             /\ mac' = IF x = "changed"
                       THEN IF tasks[t].kind = "lock"
                            THEN [mac EXCEPT !.lock = tasks[t].new]
                            ELSE [mac EXCEPT !.account = tasks[t].new]
                       ELSE mac
             /\ UNCHANGED <<secret, tasks, change>>
  BY TakeDoes
<1>2. mac'.account = IF x = "changed" /\ tasks[t].kind # "lock" THEN tasks[t].new
                     ELSE mac.account
  BY <1>1, MacTakes
<1>3. CASE mac'.account = mac.account
  <2>1. AccountCalm
    BY <1>1, <1>3, SameAccountCalm
  <2>2. QED BY <1>1, <2>1, AccountCalmStep DEF Goes
<1>4. CASE mac'.account # mac.account
  <2>1. tasks[t].kind = "account" /\ mac'.account = tasks[t].new
    BY <1>2, <1>4, TaskWrites DEF TaskSet, TaskKinds
  <2>2. Asked(t)
    BY <1>1, <2>1 DEF Asked, Commands, Command
  <2>3. mac'.account = secret["account"].value /\ ~Unasked /\ ~Unasked'
    BY <2>1, <2>2 DEF AccountOk, Unasked, AskedCalm
  <2>4. Plain(secret["account"])'
    BY <1>1 DEF AccountOk, Plain
  <2>5. AccountOk'
    BY <1>1, <2>3, <2>4 DEF AccountOk, AskedCalm
  <2>6. AccountCallers'
    BY <1>1, <2>3 DEF AccountCallers, AccountCaller
  <2>7. QED BY <2>5, <2>6
<1>5. QED BY <1>3, <1>4

(* Its acknowledgement confirms the stored password, or changes nothing.    *)
LEMMA AckAccount ==
    ASSUME Shapes, Commands, AccountOk, AccountCallers, AskedCalm,
           NEW t \in DOMAIN tasks, Acknowledge(t)
    PROVE  AccountOk' /\ AccountCallers'
<1>1. UNCHANGED <<tasks, change, mac>> /\ t # NoTask
  BY AckTook
<1>2. CASE tasks[t].kind = "lock"
  <2>1. secret'["account"] = secret["account"]
    BY <1>2, AcknowledgeDoes DEF Kinds
  <2>2. QED BY <1>1, <2>1, SameAccountCalm, AccountCalmStep DEF Goes
<1>3. CASE tasks[t].kind = "account"
  <2>1. PICK r : r = secret["account"]
    OBVIOUS
  <2>2. r \in RowSet /\ r.pendingTask # t /\ secret'["account"] = Settle(r, t)
    BY <1>1, <1>3, <2>1, AcknowledgeDoes DEF Shapes, Kinds, AccountOk, Plain
  <2>3. /\ secret'["account"].value = r.value /\ secret'["account"].pending = r.pending
        /\ secret'["account"].pendingTask = r.pendingTask
    BY <2>2, SettleDoes
  <2>4. r = NoRow => secret'["account"] = r
    <3>1. NoRow.unconfirmed = NoTask /\ NoRow.pendingTask = NoTask
      BY DEF NoRow
    <3>2. QED BY <1>1, <2>2, <3>1 DEF Settle
  <2>5. AccountCalm
    BY <1>1, <2>1, <2>3, <2>4 DEF AccountCalm
  <2>6. QED BY <1>1, <2>5, AccountCalmStep DEF Goes
<1>4. QED BY <1>2, <1>3, TaskWrites DEF TaskSet, TaskKinds

LEMMA AccountStays ==
    ASSUME {"two", "debris", "lostReply", "rerun", "reenroll"} \cap Overlaps = {},
           Shapes, Lone, Commands, CallersOk, AccountOk, AccountCallers, [Next]_vars
    PROVE  AccountOk' /\ AccountCallers'
<1>1. CASE \E c \in Callers : Send(c) /\ change[c].kind = "account"
  BY <1>1, SendAccount
<1> SUFFICES ASSUME ~(\E c \in Callers : Send(c) /\ change[c].kind = "account")
             PROVE  AccountOk' /\ AccountCallers'
  BY <1>1
<1>2. AskedCalm
  BY AskedCalmAlways
<1>3. ASSUME NEW c \in Callers, Change(c) PROVE AccountOk' /\ AccountCallers'
  <2>1. ASSUME NEW new \in Passwords, NEW supplied, NEW rotate,
               PlanLock(c, new, supplied, rotate)
        PROVE  AccountOk' /\ AccountCallers'
    <3> DEFINE ch == [Idle EXCEPT !.pc = "begin", !.kind = "lock", !.new = new,
                        !.current = IF supplied # NoPassword THEN supplied
                                    ELSE secret["lock"].value,
                        !.rotating = Stored("lock"), !.row = secret["lock"]]
    <3>1. ch.kind = "lock"
      BY DEF Idle
    <3>2. UNCHANGED <<secret, mac>> /\ change' = [change EXCEPT ![c] = ch]
      BY <2>1 DEF PlanLock, rows
    <3> HIDE DEF ch
    <3>3. change'[c] = ch /\ \A d \in Callers : d # c => change'[d] = change[d]
      BY <3>2 DEF Shapes
    <3>4. QED BY <1>2, <3>1, <3>2, <3>3, SameAccountCalm, AccountCalmStep DEF Goes
  <2>2. CASE Begin(c) /\ change[c].kind = "lock"
    <3>1. /\ mac' = mac /\ change'[c].kind = "lock"
          /\ \A d \in Callers : d # c => change'[d] = change[d]
      BY <2>2, BegunChange DEF Begin
    <3>2. secret'["account"] = secret["account"]
      <4>1. CASE change[c].rotating
        BY <2>2, <4>1, RotationDoes DEF Kinds
      <4>2. CASE ~change[c].rotating
        <5>1. Escrow("lock", change[c].new, Len(tasks) + 1)
          BY <2>2, <4>2 DEF Begin
        <5>2. QED BY <5>1, EscrowDoes DEF Kinds
      <4>3. QED BY <4>1, <4>2
    <3>3. QED BY <1>2, <3>1, <3>2, SameAccountCalm, AccountCalmStep DEF Goes
  <2>3. CASE Send(c) \/ MarkSent(c)
    <3>1. UNCHANGED <<secret, mac>>
      BY <2>3 DEF Send, MarkSent, rows
    <3>2. \A d \in Callers : d # c => change'[d] = change[d]
      BY <2>3, SendDoes, IsDone DEF MarkSent
    <3>3. Send(c) => change'[c].kind # "account"
      BY SendDoes, ChangeIs DEF ChangeSet
    <3>4. MarkSent(c) => change'[c].pc = "idle"
      <4>1. ASSUME MarkSent(c) PROVE change'[c] = Idle
        BY <4>1, IsDone DEF MarkSent
      <4>2. QED BY <4>1 DEF Idle
    <3>5. QED BY <1>2, <2>3, <3>1, <3>2, <3>3, <3>4, SameAccountCalm, AccountCalmStep DEF Goes
  <2>4. CASE Abort(c) /\ change[c].kind = "lock"
    <3>1. mac' = mac /\ secret'["account"] = secret["account"]
      BY <2>4, AbortDoes DEF Abort, Kinds
    <3>2. change'[c].pc = "idle" /\ \A d \in Callers : d # c => change'[d] = change[d]
      BY <2>4, IsDone DEF Abort, Idle
    <3>3. QED BY <1>2, <3>1, <3>2, SameAccountCalm, AccountCalmStep DEF Goes
  <2>5. CASE \E new \in Passwords : PlanAccount(c, new)
    BY <2>5, PlanAccountStep
  <2>6. CASE (Begin(c) \/ Abort(c)) /\ change[c].kind = "account"
    BY <1>2, <2>6, BeginAccount, AbortAccount
  <2>7. QED BY <1>3, <2>1, <2>2, <2>3, <2>4, <2>5, <2>6, ChangeIs DEF Change
<1>4. CASE Take
  BY <1>2, <1>4, TakeAccount
<1>5. CASE QuietStep
  <2>1. AccountCalm
    BY <1>2, <1>5, QuietDoes DEF RowCalm, AccountCalm
  <2>2. QED BY <1>5, <2>1, QuietDoes, AccountCalmStep
<1>6. ASSUME NEW t \in DOMAIN tasks, Acknowledge(t) PROVE AccountOk' /\ AccountCallers'
  BY <1>2, <1>6, AckAccount
<1>7. QED BY <1>3, <1>4, <1>5, <1>6, StepIs

----------------------------------------------------------------------------
(* The invariant, and what it says of the escrow.                         *)

Escrowed ==
    /\ Shapes /\ Lone /\ Commands /\ CallersOk
    /\ LockOk /\ LockCallers /\ AccountOk /\ AccountCallers

LEMMA EscrowedInit == Init => Escrowed
<1> SUFFICES ASSUME Init PROVE Escrowed
  OBVIOUS
<1>1. PICK lock \in Passwords \cup {NoPassword, Foreign}, code \in Passwords :
          /\ mac = [lock |-> lock, account |-> NoPassword, bypass |-> code,
                    awaiting |-> TRUE]
          /\ secret = [k \in Kinds |-> IF k = "lock" /\ lock \in Passwords
                                      THEN [NoRow EXCEPT !.value = lock] ELSE NoRow]
  BY DEF Init
<1>2. /\ tasks = <<>> /\ queue = <<>>
      /\ \A c \in Callers : change[c].pc = "idle"
  BY DEF Init, Idle
<1>3. /\ \A t : ~InQueue(t) /\ ~IsLock(t) /\ ~Asked(t)
      /\ Unasked
  BY <1>2 DEF InQueue, IsLock, Asked, Unasked
<1>4. LockCallers /\ AccountCallers
  BY <1>2 DEF LockCallers, LockCaller, AccountCallers, AccountCaller
<1>5. /\ NoRow.value = NoPassword /\ NoRow.pending = NoPassword
      /\ NoRow.pendingTask = NoTask /\ NoRow.unconfirmed = NoTask
  BY DEF NoRow
<1>6. AccountOk
  <2>1. secret["account"] = NoRow /\ mac.account = NoPassword
    BY <1>1 DEF Kinds
  <2>2. QED BY <1>3, <1>5, <2>1 DEF AccountOk, Plain
<1>7. LockOk
  <2>1. CASE lock \in Passwords
    <3>1. PICK r : r = [NoRow EXCEPT !.value = lock]
      OBVIOUS
    <3>2. secret["lock"] = r /\ mac.lock = lock
      BY <1>1, <2>1, <3>1 DEF Kinds
    <3>3. /\ r.value = lock /\ r.pending = NoPassword
          /\ r.pendingTask = NoTask /\ r.unconfirmed = NoTask
      BY <3>1 DEF NoRow
    <3>4. QED BY <1>3, <2>1, <3>2, <3>3, Apart DEF LockOk, First
  <2>2. CASE lock \notin Passwords
    <3>1. secret["lock"] = NoRow /\ mac.lock \in {NoPassword, Foreign}
      BY <1>1, <2>2 DEF Kinds
    <3>2. QED BY <1>3, <1>5, <3>1 DEF LockOk, First, Unlocked
  <2>3. QED BY <2>1, <2>2
<1>8. QED BY <1>4, <1>6, <1>7, InitShapes, LoneInit, CommandsInit DEF Escrowed

LEMMA EscrowedStays ==
    ASSUME {"two", "debris", "lostReply", "rerun", "reenroll"} \cap Overlaps = {},
           Escrowed, [Next]_vars
    PROVE  Escrowed'
<1>1. Shapes' /\ Lone'
  BY ShapesStay, LoneStays DEF Escrowed
<1>2. Commands' /\ CallersOk'
  BY CommandsAlways DEF Escrowed
<1>3. LockOk' /\ LockCallers'
  BY LockStays DEF Escrowed
<1>4. AccountOk' /\ AccountCallers'
  BY AccountStays DEF Escrowed
<1>5. QED BY <1>1, <1>2, <1>3, <1>4 DEF Escrowed

(* What the Mac has of the administrator's.                                 *)
LEMMA AccountIs ==
    ASSUME AccountOk PROVE mac.account \in {NoPassword, secret["account"].value}
BY DEF AccountOk, Unasked

LEMMA HeldOfRow ==
    ASSUME Escrowed PROVE EscrowHolds
<1>1. mac.lock \in {NoPassword, Foreign, secret["lock"].value, secret["lock"].pending}
  BY DEF Escrowed, LockOk
<1>2. mac.account \in {NoPassword, secret["account"].value}
  BY AccountIs DEF Escrowed
<1>3. QED BY <1>1, <1>2 DEF EscrowHolds, Held

LEMMA SettledOpens ==
    ASSUME Escrowed PROVE ConfirmedOpens
<1>1. ASSUME secret["lock"] # NoRow, secret["lock"].pendingTask = NoTask,
             secret["lock"].unconfirmed = NoTask
      PROVE  mac.lock \in {NoPassword, secret["lock"].value}
  BY <1>1 DEF Escrowed, LockOk
<1>2. mac.account \in {NoPassword, secret["account"].value}
  BY AccountIs DEF Escrowed
<1>3. QED BY <1>1, <1>2 DEF ConfirmedOpens, Stored

(* Whatever password of ours the Mac answers to, the server still has it,   *)
(* unless two changes overlap or what Overlaps names loses track of one.    *)
THEOREM PasswordsAreHeld ==
    ASSUME {"two", "debris", "lostReply", "rerun", "reenroll"} \cap Overlaps = {}
    PROVE  Spec => []EscrowHolds
<1>1. Escrowed /\ [Next]_vars => Escrowed'
  BY EscrowedStays
<1>2. QED BY <1>1, EscrowedInit, HeldOfRow, PTL DEF Spec

(* A password shown as settled opens the Mac, when it has one: no rotation  *)
(* that the Mac refused is ever taken for one that it made.                 *)
THEOREM SettledPasswordsOpen ==
    ASSUME {"two", "debris", "lostReply", "rerun", "reenroll"} \cap Overlaps = {}
    PROVE  Spec => []ConfirmedOpens
<1>1. Escrowed /\ [Next]_vars => Escrowed'
  BY EscrowedStays
<1>2. QED BY <1>1, EscrowedInit, SettledOpens, PTL DEF Spec
=============================================================================
