------------------------------- MODULE Alerts -------------------------------
(* Compliance alerts of one device: dispatcher.py and api/routes/alerts.py. *)
(* An evaluation (a sweep, or a check-in's deferred evaluation) walks the   *)
(* rules; administrators acknowledge, resolve, approve and reject from      *)
(* another process.                                                         *)
(*                                                                          *)
(* A read and the write that follows it at once are one step, except where  *)
(* the code guards that gap itself (the claim of an approval). Commands are *)
(* sent to NanoMDM between steps. `Overlaps` names the pairs of handlers    *)
(* that may run at the same time.                                           *)
EXTENDS Integers, FiniteSets, FiniteSetsExt

CONSTANTS
    Rules,        \* the rules of dispatcher.yaml
    TagsOf,       \* the tags a rule's assign_tag action adds
    Repairs,      \* the rules with an automatic remediation
    Risky,        \* the rules with a destructive command, which needs approval
    AutoResolve,  \* the rules whose alerts close by themselves
    Approvers,    \* approvals under way at once
    Overlaps,     \* the sets of handler kinds that may overlap
    Grace,        \* the minutes a rule waits before its alert opens
    Cooldown, MaxAttempts,
    MaxAlerts, MaxClock, MaxChanges, MaxRequests      \* bounds

ASSUME AlertsAssumption ==
    /\ "none" \notin Rules
    /\ {Cooldown, MaxAttempts, MaxAlerts, MaxRequests} \subseteq Nat

VARIABLES
    alert,     \* the Alert rows, in order of creation
    tags,      \* the dispatcher's tags on the device
    verdict,   \* what each rule's check would say now
    live,      \* the rules that are in dispatcher.yaml and enabled
    armed,     \* the kill switch: automatic remediation is enabled
    pass,      \* the evaluation under way
    approver,  \* the approval requests under way
    clock,
    changes,   \* changes of verdict, rules and kill switch so far
    requests,  \* approvals asked for so far; a request is known by its number
    sent,      \* how often each request's command was sent
    refused,   \* the requests an administrator declined
    lastFire,  \* when a rule's remediation last ran
    burst,     \* its runs since the rule was last quiet for a cooldown
    quietAt    \* since when the rule has no active alert

vars == <<alert, tags, verdict, live, armed, pass, approver, clock, changes,
          requests, sent, refused, lastFire, burst, quietAt>>
ghosts == <<sent, refused, lastFire, burst, quietAt>>

Ids == 1 .. MaxAlerts
Never == -1
NoRow == [rule |-> "none"]
NoDetail == [tags |-> {}, attempts |-> 0, last |-> Never, failed |-> FALSE,
             pending |-> 0, declined |-> FALSE, approved |-> 0, told |-> "no"]
IdlePass == [pc |-> "idle", todo |-> {}, pairs |-> {}, verdict |-> <<>>,
             armed |-> FALSE, id |-> 0, detail |-> NoDetail]
IdleApprover == [pc |-> "idle", id |-> 0, req |-> 0, ver |-> 0, detail |-> NoDetail]

Rows(A) == {i \in Ids : A[i] # NoRow}
Active(A) == {i \in Rows(A) : A[i].status # "resolved"}
ActiveOf(A, r) == {i \in Active(A) : A[i].rule = r}

----------------------------------------------------------------------------
(* Resolving an alert removes the tags it added, except those another       *)
(* active alert of the device added too.                                    *)
(* (mutant) no other alert is looked at. *)
StillNeededByNone(A, ids) == {}
StillNeeded(A, ids) == UNION {A[i].detail.tags : i \in Active(A) \ ids}

Resolve(ids) ==
    /\ alert' = [i \in Ids |->
                   IF i \in ids
                   THEN [alert[i] EXCEPT !.status = "resolved", !.resolvedAt = clock]
                   ELSE alert[i]]
    /\ tags' = tags \ ((UNION {alert[i].detail.tags : i \in ids}) \ StillNeeded(alert, ids))
    /\ quietAt' = [r \in Rules |-> IF \E i \in ids : alert[i].rule = r
                                   THEN clock ELSE quietAt[r]]

(* What a rule's latest resolved alert hands to the next one: the attempt   *)
(* counters, when it was resolved no longer ago than the cooldown.          *)
(* (mutant) a recurrence starts anew. *)
CarriedNothing(r) == NoDetail
Carried(r) ==
    LET resolved == {i \in Rows(alert) : alert[i].rule = r /\ alert[i].status = "resolved"}
        latest == Max(resolved)
    IN  IF resolved = {} \/ clock - alert[latest].resolvedAt > Cooldown THEN NoDetail
        ELSE [NoDetail EXCEPT !.attempts = alert[latest].detail.attempts,
                              !.last = alert[latest].detail.last,
                              !.failed = alert[latest].detail.failed]

NewRow(r) == [rule |-> r, status |-> "pending", since |-> clock, resolvedAt |-> Never,
              severity |-> "authored", ver |-> 0, detail |-> Carried(r)]

(* The last write of a pass keeps the decisions recorded while it ran.      *)
(* (mutant) the last write wins. *)
WithStaleVetoes(stored, mine) == mine
WithFreshVetoes(stored, mine) ==
    [mine EXCEPT
       !.declined = mine.declined \/ stored.declined,
       !.approved = IF stored.approved # 0 THEN stored.approved ELSE mine.approved,
       !.pending = IF stored.declined \/ (stored.approved # 0 /\ mine.pending <= stored.approved)
                   THEN 0 ELSE mine.pending]

(* Whether a handler of this kind may start beside the ones under way.      *)
Running == (IF pass.pc = "idle" THEN {} ELSE {"pass"})
             \cup {"approve" : a \in {b \in Approvers : approver[b].pc # "idle"}}
MayStart(kind) == \A k \in Running : {kind, k} \in Overlaps

----------------------------------------------------------------------------
(* A pass starts: a sweep first resolves the alerts of retired rules and    *)
(* remembers which rules have an active alert; a check-in does neither.     *)
Orphans == {i \in Active(alert) : alert[i].rule \notin live}
StartPass(sweep) ==
    /\ pass.pc = "idle" /\ MayStart("pass")
    /\ live # {} \/ sweep
    /\ IF sweep THEN Resolve(Orphans) ELSE UNCHANGED <<alert, tags, quietAt>>
    /\ pass' = [IdlePass EXCEPT
                  !.pc = IF live = {} THEN "idle" ELSE "rule", !.todo = live,
                  !.pairs = IF sweep THEN {alert[i].rule : i \in Active(alert)} ELSE Rules,
                  !.verdict = verdict, !.armed = armed]
    /\ UNCHANGED <<verdict, live, armed, approver, clock, changes, requests,
                   sent, refused, lastFire, burst>>

Done(r, p) == LET left == p.todo \ {r}
              IN  IF left = {} THEN IdlePass
                  ELSE [p EXCEPT !.pc = "rule", !.todo = left, !.id = 0, !.detail = NoDetail]

(* A rule that does not apply any more, or whose check passes.              *)
ResolveRule(r) ==
    /\ pass.pc = "rule" /\ r \in pass.todo
    /\ pass.verdict[r] # "violated"
    /\ LET mine == IF r \in pass.pairs THEN ActiveOf(alert, r) ELSE {}
           closes == {i \in mine : \/ pass.verdict[r] = "out"
                                   \/ alert[i].status = "pending"
                                   \/ r \in AutoResolve}
       IN  IF closes = {} THEN UNCHANGED <<alert, tags, quietAt>> ELSE Resolve(closes)
    /\ pass' = Done(r, pass)
    /\ UNCHANGED <<verdict, live, armed, approver, clock, changes, requests,
                   sent, refused, lastFire, burst>>

(* A destructive command is asked for once, unless it was declined.         *)
AsksApproval(r, d) == r \in Risky /\ ~d.declined /\ d.pending = 0

(* The remediation: not with the kill switch off, not after MaxAttempts     *)
(* (it then escalates, once), not within the cooldown.                      *)
Repairing(r) == r \in Repairs /\ pass.armed
(* (mutant) one attempt too many. *)
HaltsLate(r, d) == Repairing(r) /\ d.attempts > MaxAttempts
Halts(r, d) == Repairing(r) /\ d.attempts >= MaxAttempts
Escalates(r, d) == Halts(r, d) /\ ~d.failed
Fires(r, d) == /\ Repairing(r) /\ ~Halts(r, d)
               /\ d.last = Never \/ clock - d.last >= Cooldown

(* A rule whose check fails: the alert is created or found, opened when the *)
(* grace period is over, and an open one fires its actions.                 *)
ViolatedRule(r) ==
    /\ pass.pc = "rule" /\ r \in pass.todo
    /\ pass.verdict[r] = "violated"
    /\ LET fresh == ActiveOf(alert, r) = {}
           i == IF fresh THEN Cardinality(Rows(alert)) + 1 ELSE Min(ActiveOf(alert, r))
           row == IF fresh THEN NewRow(r) ELSE alert[i]
           opens == row.status # "pending" \/ clock - row.since >= Grace[r]
           d == row.detail
           asks == AsksApproval(r, d)
           severity == IF Escalates(r, d) THEN "raised" ELSE row.severity
           fired == [d EXCEPT !.tags = @ \cup TagsOf[r],
                              !.pending = IF asks THEN requests + 1 ELSE @,
                              !.failed = @ \/ Halts(r, d),
                              !.told = severity]
           opened == [row EXCEPT !.status = IF @ = "pending" THEN "open" ELSE @,
                                 !.severity = severity]
       IN  /\ i \in Ids
           /\ quietAt' = [quietAt EXCEPT ![r] = Never]
           /\ burst' = IF fresh /\ (quietAt[r] = Never \/ clock - quietAt[r] > Cooldown)
                       THEN [burst EXCEPT ![r] = 0] ELSE burst
           /\ IF ~opens
              THEN /\ alert' = [alert EXCEPT ![i] = row]
                   /\ pass' = Done(r, pass)
                   /\ UNCHANGED <<tags, requests>>
              ELSE /\ tags' = tags \cup TagsOf[r]
                   /\ requests' = IF asks THEN requests + 1 ELSE requests
                   /\ requests' <= MaxRequests
                   /\ IF Fires(r, d)
                      THEN /\ alert' = [alert EXCEPT ![i] = opened]
                           /\ pass' = [pass EXCEPT !.pc = "sending", !.id = i, !.detail = fired]
                      ELSE /\ alert' = [alert EXCEPT ![i] = [opened EXCEPT
                                !.detail = WithFreshVetoes(d, fired)]]
                           /\ pass' = Done(r, pass)
    /\ UNCHANGED <<verdict, live, armed, approver, clock, changes, sent, refused, lastFire>>

(* The remediation was queued or refused, or there was nothing to attempt;  *)
(* the pass then writes the alert's detail, and nothing else of the row.    *)
FinishRepair(attempted) ==
    /\ pass.pc = "sending"
    /\ LET i == pass.id
           r == alert[i].rule
           d == IF attempted THEN [pass.detail EXCEPT !.attempts = @ + 1, !.last = clock]
                ELSE pass.detail
       IN  /\ alert' = [alert EXCEPT ![i].detail = WithFreshVetoes(alert[i].detail, d)]
           /\ pass' = Done(r, pass)
           /\ lastFire' = IF attempted THEN [lastFire EXCEPT ![r] = clock] ELSE lastFire
           /\ burst' = IF attempted THEN [burst EXCEPT ![r] = @ + 1] ELSE burst
    /\ UNCHANGED <<tags, verdict, live, armed, approver, clock, changes, requests,
                   sent, refused, quietAt>>

----------------------------------------------------------------------------
(* The administrator's side. "open" stands for open and acknowledged alike: *)
(* only the console tells them apart. Acknowledging a pending alert ends    *)
(* its grace period.                                                        *)
Acknowledge(i) ==
    /\ i \in Active(alert) /\ MayStart("mark")
    /\ alert[i].status = "pending"
    /\ alert' = [alert EXCEPT ![i].status = "open"]
    /\ UNCHANGED <<tags, verdict, live, armed, pass, approver, clock, changes, requests, ghosts>>

ResolveByHand(i) ==
    /\ i \in Active(alert) /\ MayStart("resolve")
    /\ Resolve({i})
    /\ UNCHANGED <<verdict, live, armed, pass, approver, clock, changes, requests,
                   sent, refused, lastFire, burst>>

(* A refusal drops the request and is remembered on the alert. It is saved  *)
(* without touching updated_at.                                             *)
Rejectable(i) == i \in Rows(alert) /\ alert[i].detail.pending # 0

Reject(i) ==
    /\ MayStart("reject") /\ Rejectable(i)
    /\ alert' = [alert EXCEPT ![i].detail = [@ EXCEPT !.pending = 0, !.declined = TRUE]]
    /\ refused' = refused \cup {alert[i].detail.pending}
    /\ UNCHANGED <<tags, verdict, live, armed, pass, approver, clock, changes, requests,
                   sent, lastFire, burst, quietAt>>

StartApproval(a, i) ==
    /\ approver[a].pc = "idle" /\ MayStart("approve")
    /\ i \in Active(alert)
    /\ alert[i].rule \in Risky \cap live
    /\ approver' = [approver EXCEPT ![a] = [IdleApprover EXCEPT !.pc = "claim", !.id = i]]
    /\ UNCHANGED <<alert, tags, verdict, live, armed, pass, clock, changes, requests, ghosts>>

(* The claim reads the row; a declined or missing request ends it.          *)
ReadClaim(a) ==
    /\ approver[a].pc = "claim"
    /\ LET row == alert[approver[a].id]
       IN  approver' = [approver EXCEPT ![a] =
              IF row.detail.declined \/ row.detail.pending = 0 THEN IdleApprover
              ELSE [@ EXCEPT !.pc = "write", !.detail = row.detail, !.ver = row.ver,
                             !.req = row.detail.pending]]
    /\ UNCHANGED <<alert, tags, verdict, live, armed, pass, clock, changes, requests, ghosts>>

(* (mutant) the claim is written whatever happened since it was read. *)
WriteClaimBlindly(a) ==
    /\ approver[a].pc = "write"
    /\ alert' = [alert EXCEPT ![approver[a].id].detail = [approver[a].detail EXCEPT !.pending = 0],
                              ![approver[a].id].ver = @ + 1]
    /\ approver' = [approver EXCEPT ![a].pc = "send"]
    /\ UNCHANGED <<tags, verdict, live, armed, pass, clock, changes, requests, ghosts>>

(* The conditional write: it holds if updated_at is what was read, and      *)
(* writes the whole detail. Otherwise it reads again, a few times.          *)
WriteClaim(a) ==
    /\ approver[a].pc = "write"
    /\ LET me == approver[a]
       IN  \/ /\ alert[me.id].ver = me.ver
              /\ alert' = [alert EXCEPT ![me.id].detail = [me.detail EXCEPT !.pending = 0],
                                        ![me.id].ver = @ + 1]
              /\ approver' = [approver EXCEPT ![a].pc = "send"]
           \/ /\ alert[me.id].ver # me.ver
              /\ \/ approver' = [approver EXCEPT ![a].pc = "claim"]
                 \/ approver' = [approver EXCEPT ![a] = IdleApprover]
              /\ UNCHANGED alert
    /\ UNCHANGED <<tags, verdict, live, armed, pass, clock, changes, requests, ghosts>>

SendApproved(a) ==
    /\ approver[a].pc = "send"
    /\ \/ sent' = [sent EXCEPT ![approver[a].req] = @ + 1]
       \/ UNCHANGED sent                       \* the command path refuses it
    /\ approver' = [approver EXCEPT ![a].pc = "record"]
    /\ UNCHANGED <<alert, tags, verdict, live, armed, pass, clock, changes, requests,
                   refused, lastFire, burst, quietAt>>

(* The approval is recorded: it covers every request made until now.        *)
RecordOutcome(a) ==
    /\ approver[a].pc = "record"
    /\ LET i == approver[a].id
       IN  alert' = [alert EXCEPT ![i].detail.approved = requests, ![i].ver = @ + 1]
    /\ approver' = [approver EXCEPT ![a] = IdleApprover]
    /\ UNCHANGED <<tags, verdict, live, armed, pass, clock, changes, requests, ghosts>>

----------------------------------------------------------------------------
(* The device's posture and dispatcher.yaml change; time passes (not while  *)
(* a command is being sent, which takes seconds).                           *)
Change ==
    /\ changes < MaxChanges
    /\ changes' = changes + 1
    /\ \/ \E r \in Rules, v \in {"violated", "compliant", "out"} :
             /\ v # verdict[r]
             /\ verdict' = [verdict EXCEPT ![r] = v]
             /\ UNCHANGED <<live, armed>>
       \/ \E r \in Rules : live' = (live \ {r}) \cup ({r} \ live) /\ UNCHANGED <<verdict, armed>>
       \/ armed /\ armed' = FALSE /\ UNCHANGED <<verdict, live>>
    /\ UNCHANGED <<alert, tags, pass, approver, clock, requests, ghosts>>

Tick ==
    /\ clock < MaxClock
    /\ Running = {}
    /\ clock' = clock + 1
    /\ UNCHANGED <<alert, tags, verdict, live, armed, pass, approver, changes, requests, ghosts>>

Init ==
    /\ alert = [i \in Ids |-> NoRow]
    /\ tags = {} /\ live = Rules /\ armed = TRUE
    /\ verdict = [r \in Rules |-> "compliant"]
    /\ pass = IdlePass
    /\ approver = [a \in Approvers |-> IdleApprover]
    /\ clock = 0 /\ changes = 0 /\ requests = 0
    /\ sent = [n \in 1 .. MaxRequests |-> 0]
    /\ refused = {}
    /\ lastFire = [r \in Rules |-> Never]
    /\ burst = [r \in Rules |-> 0]
    /\ quietAt = [r \in Rules |-> Never]

Next ==
    \/ \E sweep \in BOOLEAN : StartPass(sweep)
    \/ \E r \in Rules : ResolveRule(r) \/ ViolatedRule(r)
    \/ \E attempted \in BOOLEAN : FinishRepair(attempted)
    \/ \E i \in Ids : Acknowledge(i) \/ ResolveByHand(i) \/ Reject(i)
    \/ \E a \in Approvers : \/ \E i \in Ids : StartApproval(a, i)
                            \/ ReadClaim(a) \/ WriteClaim(a) \/ SendApproved(a) \/ RecordOutcome(a)
    \/ Change \/ Tick

Spec == Init /\ [][Next]_vars

----------------------------------------------------------------------------
(* An administrator's refusal outlives the evaluations of the alert: no     *)
(* request is pending on an alert that carries one, also when a pass that   *)
(* read the alert before the refusal writes it afterwards.                  *)
VetoHolds ==
    \A i \in Rows(alert) : alert[i].detail.pending # 0 =>
        /\ ~alert[i].detail.declined
        /\ alert[i].detail.pending \notin refused

(* Two runs of one rule's remediation are a cooldown apart, also when the   *)
(* alert was resolved in between and a new one opened.                      *)
CooldownRespected ==
    [][\A r \in Rules : burst'[r] > burst[r] /\ lastFire[r] # Never
                          => clock - lastFire[r] >= Cooldown]_vars

(* A rule that never stays quiet for longer than the cooldown gets          *)
(* MaxAttempts runs in all, however often its alert is resolved and reopened. *)
BudgetHeld == \A r \in Rules : burst[r] <= MaxAttempts

(* Between passes the device carries the tags of its active alerts: a tag   *)
(* two rules share stays until the last of them is resolved, then goes.     *)
TagsFollowAlerts ==
    pass.pc # "sending" => tags = UNION {alert[i].detail.tags : i \in Active(alert)}

(* An approved command is sent once per request, whatever else approves it. *)
ApprovedOnce == \A n \in 1 .. MaxRequests : sent[n] <= 1

(* A declined command is not sent: dispatcher.py's claim promises that a    *)
(* refusal recorded in between is honoured.                                 *)
DeclineHonoured ==
    [][\A n \in 1 .. MaxRequests : sent'[n] # sent[n] => n \notin refused]_vars
=============================================================================
