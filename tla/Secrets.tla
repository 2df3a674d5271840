------------------------------ MODULE Secrets ------------------------------
(* The passwords the server sets on one Mac and keeps for its owners:       *)
(* device_secrets.py, the two nodes of atc_node_effects.py and the command  *)
(* path of device_commands.py that set them, the answers' way back through  *)
(* webhook_handler.py, and the reveal endpoint of routes/secrets.py.        *)
(*                                                                          *)
(* Three kinds of secret: the firmware or recovery lock (a rotation parks   *)
(* the new password until the Mac says it took it; a first set is stored at *)
(* once, unconfirmed), the managed administrator's password (stored at      *)
(* once, put back when the command could not be sent), and the activation   *)
(* lock bypass code (the Mac's own, fetched).                               *)
EXTENDS Integers, Sequences, FiniteSets

CONSTANTS
    Passwords,   \* what a password may be
    NoPassword,  \* the Mac has none
    Foreign,     \* one that somebody else set on the Mac
    Callers,     \* who sets passwords: admin (a command), flow (a node)
    Overlaps,    \* what else may happen: two, debris, lostReply, rerun,
                 \* reenroll, again (below)
    MaxTasks,    \* commands
    MaxEvents    \* faults, cancellations, reveals, re-enrollments, fetches

ASSUME SecretsAssumption ==
    /\ {NoPassword, Foreign} \cap Passwords = {}
    /\ NoPassword # Foreign

Kinds == {"lock", "account", "bypass"}
NoTask == 0
NoRow == [value |-> NoPassword, pending |-> NoPassword, pendingTask |-> NoTask,
          unconfirmed |-> NoTask, revealed |-> FALSE]
Idle == [pc |-> "idle", kind |-> "lock", new |-> NoPassword, current |-> NoPassword,
         rotating |-> FALSE, row |-> NoRow, task |-> NoTask]

VARIABLES
    secret,   \* the DeviceSecret row of each kind
    alert,    \* the break-glass alert of each kind is open or acknowledged
    tasks,    \* the Task rows, in the order they were created
    change,   \* what each caller is doing
    viewing,  \* a reveal under way: the password read
    queue,    \* NanoMDM: the tasks whose commands the Mac has yet to take
    air,      \* the Mac's answers on their way: <<task, answer>>
    acks,     \* the command_ack signals deferred in memory
    mac,      \* the Mac: its passwords, and whether it is in Setup Assistant
    seen,     \* history: passwords revealed, whose alert nobody has closed
    events

rows == <<secret, alert>>
vars == <<secret, alert, tasks, change, viewing, queue, air, acks, mac, seen, events>>

Event == events < MaxEvents /\ events' = events + 1
Open(t) == tasks[t].status \in {"pending", "running"}
Stored(k) == secret[k] # NoRow

(* escrow: a new credential closes the alert its reveals raised; only an    *)
(* unchanged bypass code keeps the ledger.                                  *)
Escrow(k, password, unconfirmed) ==
    LET same == k = "bypass" /\ secret[k].value = password
    IN  /\ secret' = [secret EXCEPT ![k] =
                          [NoRow EXCEPT !.value = password, !.unconfirmed = unconfirmed,
                                        !.revealed = same /\ secret[k].revealed]]
        /\ alert' = [alert EXCEPT ![k] = same /\ @]
        /\ seen' = [seen EXCEPT ![k] = IF same THEN @ ELSE @ \ {password}]

----------------------------------------------------------------------------
(* plan_lock_change. A parked password whose task is still open holds a new *)
(* change off; one whose task has ended does not ("debris").                *)
InFlight(r) == r.pendingTask # NoTask /\ Open(r.pendingTask)
Debris(r) == r.pendingTask # NoTask /\ ~Open(r.pendingTask)
MayChangeAnyTime(r, new, supplied, rotateExisting) ==          \* (mutant)
    r # NoRow => rotateExisting /\ (new # r.value \/ supplied # NoPassword)
MayChange(r, new, supplied, rotateExisting) ==
    /\ ~InFlight(r)
    /\ r # NoRow => /\ rotateExisting
                    /\ new # r.value \/ supplied # NoPassword
Alone(c) == "two" \in Overlaps \/ \A d \in Callers \ {c} : change[d].pc = "idle"

PlanLock(c, new, supplied, rotateExisting) ==
    /\ change[c].pc = "idle" /\ Len(tasks) < MaxTasks
    /\ c = "flow" => supplied = NoPassword
    /\ c = "admin" => rotateExisting
    /\ MayChange(secret["lock"], new, supplied, rotateExisting)
    /\ Alone(c) /\ ("debris" \in Overlaps \/ ~Debris(secret["lock"]))
    /\ change' = [change EXCEPT ![c] =
           [Idle EXCEPT !.pc = "begin", !.kind = "lock", !.new = new,
                        !.current = IF supplied # NoPassword THEN supplied
                                    ELSE secret["lock"].value,
                        !.rotating = Stored("lock"), !.row = secret["lock"]]]
    /\ UNCHANGED <<rows, tasks, viewing, queue, air, acks, mac, seen, events>>

(* _configure_accounts. The node asks for a Mac that was enrolled           *)
(* automatically; that it has no account of ours yet, and that no other     *)
(* command is on its way, is what the step's place in a flow gives it. A    *)
(* password from the flow itself is set a second time when a restart cut    *)
(* the first short ("again"); a generated one is new.                       *)
PlanAccount(c, new) ==
    /\ c = "flow" /\ change[c].pc = "idle" /\ Len(tasks) < MaxTasks
    /\ \/ "rerun" \in Overlaps
       \/ /\ mac.account = NoPassword
          /\ \A t \in DOMAIN tasks : tasks[t].kind = "account" => ~tasks[t].queued
    /\ \/ "again" \in Overlaps
       \/ \A t \in DOMAIN tasks : tasks[t].kind = "account" => tasks[t].new # new
    /\ Alone(c)
    /\ change' = [change EXCEPT ![c] =
           [Idle EXCEPT !.pc = "begin", !.kind = "account", !.new = new,
                        !.row = secret["account"]]]
    /\ UNCHANGED <<rows, tasks, viewing, queue, air, acks, mac, seen, events>>

(* create_task and begin_lock_change. A rotation writes the copy of meta    *)
(* that the plan read.                                                      *)
Begin(c) ==
    LET ch == change[c]
        t == Len(tasks) + 1
    IN  /\ ch.pc = "begin"
        /\ tasks' = Append(tasks, [kind |-> ch.kind, new |-> ch.new, current |-> ch.current,
                                   status |-> "pending", sent |-> FALSE, queued |-> FALSE,
                                   changed |-> FALSE])
        /\ IF ch.rotating
           THEN /\ secret' = [secret EXCEPT !["lock"].pending = ch.new,
                                            !["lock"].pendingTask = t,
                                            !["lock"].unconfirmed = ch.row.unconfirmed]
                /\ UNCHANGED <<alert, seen>>
           ELSE Escrow(ch.kind, ch.new, t)
        /\ change' = [change EXCEPT ![c].pc = "send", ![c].task = t, ![c].row = secret[ch.kind]]
        /\ UNCHANGED <<viewing, queue, air, acks, mac, events>>

Enqueue(t) ==
    /\ queue' = Append(queue, t)
    /\ tasks' = [tasks EXCEPT ![t].queued = TRUE]

(* The command goes to NanoMDM, or the send fails; a failed send may have   *)
(* been queued all the same when only the reply was lost ("lostReply").     *)
Sent(c) ==
    /\ Enqueue(change[c].task)
    /\ change' = [change EXCEPT ![c].pc = "mark"]
    /\ UNCHANGED events

NotSent(c) ==
    /\ Event
    /\ change' = [change EXCEPT ![c].pc = "abort"]
    /\ \/ UNCHANGED <<queue, tasks>>
       \/ "lostReply" \in Overlaps /\ Enqueue(change[c].task)

Send(c) ==
    /\ change[c].pc = "send"
    /\ Sent(c) \/ NotSent(c)
    /\ UNCHANGED <<rows, viewing, air, acks, mac, seen>>

(* mark_sent, a whole save.                                                 *)
MarkSent(c) ==
    LET ch == change[c]
    IN  /\ ch.pc = "mark"
        /\ tasks' = [tasks EXCEPT ![ch.task].status = "running", ![ch.task].sent = TRUE]
        /\ change' = [change EXCEPT ![c] = Idle]
        /\ UNCHANGED <<rows, viewing, queue, air, acks, mac, seen, events>>

(* mark_push_failed; then clear_pending for a rotation, rollback otherwise: *)
(* the row comes back as it was, and the alert that its reveals had raised. *)
Cleared(r) == [r EXCEPT !.pending = NoPassword, !.pendingTask = NoTask]
Reopened(k, prior) == alert[k] \/ prior.revealed
Abort(c) ==
    LET ch == change[c]
        k == ch.kind
    IN  /\ ch.pc = "abort"
        /\ tasks' = [tasks EXCEPT ![ch.task].status = "failed"]
        /\ IF ch.rotating
           THEN /\ secret' = [secret EXCEPT ![k] =
                                 [Cleared(@) EXCEPT !.unconfirmed = ch.row.unconfirmed]]
                /\ UNCHANGED alert
           ELSE /\ secret' = [secret EXCEPT ![k] = ch.row]
                /\ alert' = [alert EXCEPT ![k] = Reopened(k, ch.row)]
        /\ change' = [change EXCEPT ![c] = Idle]
        /\ UNCHANGED <<viewing, queue, air, acks, mac, seen, events>>

----------------------------------------------------------------------------
(* The Mac. It changes its lock when it is given the current password, and  *)
(* takes an administrator only in Setup Assistant; SetFirmwarePassword may  *)
(* acknowledge a change that it did not make.                               *)
Answers(t) ==
    IF tasks[t].kind = "account" THEN {IF mac.awaiting THEN "changed" ELSE "error"}
    ELSE IF mac.lock \in {NoPassword, tasks[t].current} THEN {"changed"}
    ELSE {"error", "kept"}

Take ==
    /\ queue # <<>>
    /\ \E answer \in Answers(Head(queue)) :
          /\ mac' = IF answer = "changed"
                    THEN IF tasks[Head(queue)].kind = "lock"
                         THEN [mac EXCEPT !.lock = tasks[Head(queue)].new]
                         ELSE [mac EXCEPT !.account = tasks[Head(queue)].new]
                    ELSE mac
          /\ air' = air \cup {<<Head(queue), answer>>}
    /\ queue' = Tail(queue)
    /\ UNCHANGED <<rows, tasks, change, viewing, acks, seen, events>>

LoseAnswer(a) ==
    /\ a \in air /\ Event
    /\ air' = air \ {a}
    /\ UNCHANGED <<rows, tasks, change, viewing, queue, acks, mac, seen>>

LeaveSetupAssistant ==
    /\ mac.awaiting
    /\ mac' = [mac EXCEPT !.awaiting = FALSE]
    /\ UNCHANGED <<rows, tasks, change, viewing, queue, air, acks, seen, events>>

----------------------------------------------------------------------------
(* _apply_command_response and _handle_generic_response: an answer settles  *)
(* an open task, or one the timeout failed; the signal follows, deferred.   *)
(* An answer whose task carries no command uuid yet waits for it.           *)
Receive(a) ==
    LET t == a[1]
    IN  /\ a \in air /\ tasks[t].sent
        /\ air' = air \ {a}
        /\ IF Open(t) \/ tasks[t].status = "timed out"
           THEN /\ tasks' = [tasks EXCEPT
                       ![t].status = IF a[2] = "error" THEN "failed" ELSE "completed",
                       ![t].changed = a[2] = "changed"]
                /\ acks' = acks \cup {t}
           ELSE UNCHANGED <<tasks, acks>>
        /\ UNCHANGED <<rows, change, viewing, queue, mac, seen, events>>

(* _await_late_task gives up: no task ever claimed the command.             *)
Discard(a) ==
    LET t == a[1]
    IN  /\ a \in air /\ ~tasks[t].sent /\ \A c \in Callers : change[c].task # t
        /\ air' = air \ {a}
        /\ UNCHANGED <<rows, tasks, change, viewing, queue, acks, mac, seen, events>>

(* reconcile_command_ack. A command took when it succeeded and the Mac did  *)
(* not say that it kept its password.                                       *)
Took(t) == tasks[t].status = "completed" /\ tasks[t].changed
Confirmed(r) == [r EXCEPT !.unconfirmed = NoTask]

SettleBlindly(r, t) ==                                         \* (mutant)
    IF r.pendingTask = t
    THEN [NoRow EXCEPT !.value = r.pending]
    ELSE IF r.unconfirmed = t THEN Confirmed(r) ELSE r
Settle(r, t) ==
    IF r.pendingTask = t
    THEN IF Took(t) THEN [NoRow EXCEPT !.value = r.pending] ELSE Cleared(r)
    ELSE IF r.unconfirmed = t /\ Took(t) THEN Confirmed(r) ELSE r

AcknowledgeClosing(t) ==                                       \* (mutant)
    LET k == tasks[t].kind
    IN  /\ t \in acks
        /\ acks' = acks \ {t}
        /\ secret' = [secret EXCEPT ![k] = Settle(@, t)]
        /\ alert' = [alert EXCEPT ![k] = @ /\ secret[k].pendingTask # t]
        /\ seen' = [seen EXCEPT ![k] = IF secret[k].pendingTask = t /\ Took(t)
                                      THEN @ \ {secret[k].pending} ELSE @]
        /\ UNCHANGED <<tasks, change, viewing, queue, air, mac, events>>
Acknowledge(t) ==
    LET k == tasks[t].kind
        settled == Settle(secret[k], t)
        promoted == settled.value # secret[k].value
    IN  /\ t \in acks
        /\ acks' = acks \ {t}
        /\ secret' = [secret EXCEPT ![k] = settled]
        /\ alert' = [alert EXCEPT ![k] = @ /\ ~promoted]
        /\ seen' = [seen EXCEPT ![k] = IF promoted THEN @ \ {settled.value} ELSE @]
        /\ UNCHANGED <<tasks, change, viewing, queue, air, mac, events>>

----------------------------------------------------------------------------
(* cancel_task and the reconciler's timeout; neither recalls the command.   *)
End(t, status) ==
    /\ t \in DOMAIN tasks /\ Open(t) /\ Event
    /\ tasks' = [tasks EXCEPT ![t].status = status]
    /\ UNCHANGED <<rows, change, viewing, queue, air, acks, mac, seen>>

(* A restart of the server: what it held in memory is gone.                 *)
Restart ==
    /\ Event
    /\ change' = [c \in Callers |-> Idle]
    /\ viewing' = [k \in Kinds |-> NoPassword]
    /\ acks' = {}
    /\ UNCHANGED <<rows, tasks, queue, air, mac, seen>>

(* The Mac enrolls again (_reenroll), erased or not: the commands sent are  *)
(* failed, each with its signal. Those it took without the server having    *)
(* heard of it are failed as well ("reenroll").                             *)
Unheard(t) == tasks[t].queued /\ t \notin {queue[i] : i \in DOMAIN queue} /\ Open(t)
Reenroll ==
    /\ Event
    /\ "reenroll" \in Overlaps \/ (air = {} /\ \A t \in DOMAIN tasks : ~Unheard(t))
    /\ \E erased \in BOOLEAN, lock \in {mac.lock, NoPassword} :
          mac' = IF erased THEN [mac EXCEPT !.lock = lock, !.account = NoPassword,
                                            !.awaiting = TRUE]
                 ELSE mac
    /\ LET failed == {t \in DOMAIN tasks : tasks[t].sent /\ Open(t)}
       IN  /\ tasks' = [t \in DOMAIN tasks |->
                           IF t \in failed THEN [tasks[t] EXCEPT !.status = "failed"]
                           ELSE tasks[t]]
           /\ acks' = acks \cup failed
    /\ queue' = <<>> /\ air' = {}
    /\ UNCHANGED <<rows, change, viewing, seen>>

----------------------------------------------------------------------------
(* The bypass code, answered by the Mac, and what an acknowledged erase     *)
(* does with its alert (on_device_wiped).                                   *)
Fetch ==
    /\ Event
    /\ Escrow("bypass", mac.bypass, NoTask)
    /\ UNCHANGED <<tasks, change, viewing, queue, air, acks, mac>>

Wiped(code) ==
    /\ Event
    /\ alert' = [alert EXCEPT !["bypass"] = FALSE]
    /\ seen' = [seen EXCEPT !["bypass"] = {}]
    /\ mac' = [mac EXCEPT !.bypass = code]
    /\ UNCHANGED <<secret, tasks, change, viewing, queue, air, acks>>

(* reveal: the ledger is stamped on the row as it is then, the alert raised *)
(* after; and the alert closed from the console.                            *)
Reveal(k) ==
    /\ Stored(k) /\ viewing[k] = NoPassword /\ Event
    /\ viewing' = [viewing EXCEPT ![k] = secret[k].value]
    /\ secret' = [secret EXCEPT ![k].revealed = TRUE]
    /\ UNCHANGED <<alert, tasks, change, queue, air, acks, mac, seen>>

RaiseAlert(k) ==
    /\ viewing[k] # NoPassword
    /\ alert' = [alert EXCEPT ![k] = TRUE]
    /\ seen' = [seen EXCEPT ![k] = @ \cup {viewing[k]}]
    /\ viewing' = [viewing EXCEPT ![k] = NoPassword]
    /\ UNCHANGED <<secret, tasks, change, queue, air, acks, mac, events>>

CloseAlert(k) ==
    /\ alert[k] /\ Event
    /\ alert' = [alert EXCEPT ![k] = FALSE]
    /\ seen' = [seen EXCEPT ![k] = {}]
    /\ UNCHANGED <<secret, tasks, change, viewing, queue, air, acks, mac>>

----------------------------------------------------------------------------
Init ==
    /\ \E lock \in Passwords \cup {NoPassword, Foreign}, code \in Passwords :
          /\ mac = [lock |-> lock, account |-> NoPassword, bypass |-> code,
                    awaiting |-> TRUE]
          /\ secret = [k \in Kinds |-> IF k = "lock" /\ lock \in Passwords
                                      THEN [NoRow EXCEPT !.value = lock] ELSE NoRow]
    /\ alert = [k \in Kinds |-> FALSE]
    /\ tasks = <<>>
    /\ change = [c \in Callers |-> Idle]
    /\ viewing = [k \in Kinds |-> NoPassword]
    /\ queue = <<>> /\ air = {} /\ acks = {}
    /\ seen = [k \in Kinds |-> {}]
    /\ events = 0

Change(c) ==
    \/ \E new \in Passwords, supplied \in Passwords \cup {NoPassword, Foreign},
          rotate \in BOOLEAN : PlanLock(c, new, supplied, rotate)
    \/ \E new \in Passwords : PlanAccount(c, new)
    \/ Begin(c) \/ Send(c) \/ MarkSent(c) \/ Abort(c)
Device ==
    \/ Take \/ LeaveSetupAssistant \/ Reenroll
    \/ \E a \in air : LoseAnswer(a) \/ Receive(a) \/ Discard(a)
Console ==
    \E k \in Kinds : Reveal(k) \/ RaiseAlert(k) \/ CloseAlert(k)

Next ==
    \/ \E c \in Callers : Change(c)
    \/ Device \/ Console \/ Restart \/ Fetch
    \/ \E code \in Passwords : Wiped(code)
    \/ \E t \in DOMAIN tasks : \/ Acknowledge(t)
                               \/ End(t, "cancelled") \/ End(t, "timed out")

Spec == Init /\ [][Next]_vars

----------------------------------------------------------------------------
(* Whatever password of ours the Mac answers to, the server still has it:   *)
(* as the stored value, or parked beside it. (The reason the escrow is      *)
(* written before the command goes out, and a rotation parks.)              *)
Held(r) == {r.value, r.pending} \ {NoPassword}
EscrowHolds ==
    \A k \in {"lock", "account"} :
        mac[k] \in {NoPassword, Foreign} \cup Held(secret[k])

(* A password the console shows as settled (nothing parked, nothing         *)
(* unconfirmed) is the one the Mac answers to, when it has any.             *)
ConfirmedOpens ==
    \A k \in {"lock", "account"} :
        LET r == secret[k]
        IN  Stored(k) /\ r.pendingTask = NoTask /\ r.unconfirmed = NoTask
                => mac[k] \in {NoPassword, r.value}

(* While a password that was revealed is the stored one, the alert that     *)
(* says so is open: neither a rotation that did not happen nor one that was *)
(* rolled back closes it.                                                   *)
RevealOnRecord ==
    \A k \in Kinds : secret[k].value \in seen[k] => alert[k]

(* What _reconcile_account_escrow says of a rejected AccountConfiguration:  *)
(* "A failure keeps the row rather than deleting it: it may be the only     *)
(* record of a password an earlier run set." With nothing under way, the    *)
(* administrator's password is the one stored. (Refuted with "rerun": the   *)
(* row was overwritten before the command was sent.)                        *)
AtRest == queue = <<>> /\ air = {} /\ acks = {} /\ \A c \in Callers : change[c].pc = "idle"
AccountHeldAtRest == AtRest => mac.account \in {NoPassword, secret["account"].value}
=============================================================================
