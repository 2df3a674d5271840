------------------------------- MODULE FlowRun -------------------------------
(***************************************************************************)
(* The runs of one flow on one device (services/atc.py): FlowRun rows that *)
(* are started, advanced node by node, parked on a wait or a gate, claimed *)
(* from there by a device signal, a timeout or an administrator, and ended.*)
(*                                                                         *)
(* Three processes work on the same rows.  The webhook process handles one *)
(* device's signals one at a time (_defer takes the device lock), the      *)
(* controller sweeps deadlines and orphans, and the API serves             *)
(* administrators side by side.  Each of them reads rows into memory,      *)
(* awaits, claims a run by a conditional UPDATE, carries the copy it read  *)
(* through the flow and saves every column of it; a step of the model ends *)
(* where the code awaits.                                                  *)
(***************************************************************************)
EXTENDS Naturals, FiniteSets

CONSTANTS
    Runs, NoRun,      \* identities of FlowRun rows
    Refs, NoRef,      \* profiles the flow installs
    Nodes, NoNode,    \* the flow's nodes; no edge, or current_node IS NULL
    Start, Event,     \* its start node, and the event that starts it
    Kind,             \* what each node is
    After,            \* its "next" edge
    OnTimeout,        \* a wait's "on_timeout" edge
    Choices,          \* the nodes a gate's options lead to
    Installs,         \* the profiles an install_profiles node names
    Webhook, Sweeper, \* the webhook process, and the controller's poll tick
    Admins,           \* requests the API process is serving
    Rungs,            \* rungs of a gate's escalation ladder before the last
    MaxTroubles       \* how many processes stop and active runs are superseded (bound)

Kinds  == {"start", "install", "wait", "gate", "release", "end"}
Actors == {Webhook, Sweeper} \cup Admins

ASSUME ConstantsAssumption ==
    /\ NoRun \notin Runs /\ NoRef \notin Refs /\ NoNode \notin Nodes
    /\ Start \in Nodes /\ Event \in {"enroll", "checkin", "schedule"}
    /\ Kind \in [Nodes -> Kinds]
    /\ After \in [Nodes -> Nodes \cup {NoNode}]
    /\ OnTimeout \in [Nodes -> Nodes \cup {NoNode}]
    /\ Choices \in [Nodes -> SUBSET Nodes]
    /\ Installs \in [Nodes -> SUBSET Refs]
    /\ Webhook # Sweeper /\ {Webhook, Sweeper} \cap Admins = {}
    /\ {Rungs, MaxTroubles} \subseteq Nat
    \* the validator: every node but an end has a way on
    /\ \A n \in Nodes : Kind[n] \in {"start", "install", "wait", "release"} => After[n] \in Nodes

VARIABLES
    run,      \* the FlowRun rows
    actor,    \* what each caller is doing, with the rows it holds in memory
    deployed, \* each profile's ProfileDeployment row: "none", "queued", "installed"
    signals,  \* profile_installed signals deferred in the webhook process
    asked,    \* history: the profiles each run has asked for
    release,  \* history: whether each run released the device, and with what installed
    troubles  \* processes stopped and runs superseded so far

vars == <<run, actor, deployed, signals, asked, release, troubles>>

-----------------------------------------------------------------------------
(* Shapes *)

ActiveStates == {"running", "waiting"}
EndStates    == {"completed", "failed", "cancelled"}

Context == [flow       : BOOLEAN,      \* the pinned flow snapshot is there
            expected   : SUBSET Refs,  \* expected["profile_installed"]
            satisfied  : SUBSET Refs,  \* satisfied["profile_installed"]
            gaps       : BOOLEAN,      \* the gap ledger has an entry
            unverified : BOOLEAN,      \* released over a gap
            rung       : 0..Rungs]     \* gate_ladder.step

Row == [status   : {"absent"} \cup ActiveStates \cup EndStates,
        node     : Nodes \cup {NoNode},
        signal   : {"none", "profile_installed", "manual"},
        deadline : {"none", "ahead", "over"},
        recent   : BOOLEAN,            \* updated_at within STALE_RUNNING_MINUTES
        context  : Context]

\* An actor works through the copies it has listed; cur is the run at hand.
Actor == [job    : {"none", "signal", "sweep", "decide", "dismiss", "start", "run"},
          pc     : {"idle", "next", "recorded", "advance", "park", "escalate", "fail", "drop"},
          cur    : Runs \cup {NoRun},
          ref    : Refs \cup {NoRef},
          edge   : Nodes \cup {NoNode},
          copies : [Runs -> Row]]

NoContext == [flow |-> FALSE, expected |-> {}, satisfied |-> {}, gaps |-> FALSE,
              unverified |-> FALSE, rung |-> 0]
AbsentRow == [status |-> "absent", node |-> NoNode, signal |-> "none",
              deadline |-> "none", recent |-> TRUE, context |-> NoContext]
IdleActor == [job |-> "none", pc |-> "idle", cur |-> NoRun, ref |-> NoRef,
              edge |-> NoNode, copies |-> [r \in Runs |-> AbsentRow]]

-----------------------------------------------------------------------------
(* Helpers *)

Active(r)  == run[r].status \in ActiveStates
Fresh      == {r \in Runs : run[r].status = "absent"}
Installed  == {f \in Refs : deployed[f] = "installed"}
Idle(a)    == actor[a].pc = "idle"
Copy(a)    == actor[a].copies[actor[a].cur]
Listed(a)  == {r \in Runs : actor[a].copies[r].status # "absent"}
Advancing(a, r) == actor[a].cur = r /\ actor[a].pc \in {"advance", "park", "escalate", "fail"}

\* One more disturbance, within the bound.
Spend == troubles < MaxTroubles /\ troubles' = troubles + 1

\* The turn of run r in the list an actor is working through for its job.
Turn(a, job, r) == actor[a].job = job /\ actor[a].pc = "next" /\ r \in Listed(a)

\* What a query returns: copies of the rows that match.
ListOf(job, matching) ==
    [IdleActor EXCEPT !.job = job, !.pc = "next",
                      !.copies = [r \in Runs |-> IF r \in matching THEN run[r] ELSE AbsentRow]]

\* The actor with run r in hand, its copy changed to c.
Holding(a, r, pc, c) == [actor[a] EXCEPT !.pc = pc, !.cur = r, !.copies[r] = c]

\* The actor once it is through with run r: on to the next listed, or back to its
\* caller.  A start goes on to create its run.
Through(a, r) ==
    LET rest == [actor[a].copies EXCEPT ![r] = AbsentRow]
    IN  IF actor[a].job # "start" /\ \A q \in Runs : rest[q].status = "absent"
        THEN IdleActor
        ELSE [actor[a] EXCEPT !.pc = "next", !.cur = NoRun, !.copies = rest]

\* _claim_waiting: a conditional UPDATE that moves a waiting row to running.  It
\* does not touch updated_at, which only save() renews.  (mutant) Any active row.
ClaimableIfActive(r) == Active(r)
Claimable(r) == run[r].status = "waiting"
Claimed(r) == [run EXCEPT ![r].status = "running", ![r].signal = "none", ![r].deadline = "none"]

\* The same in the memory of the claimant, who goes on at node n.
Resumed(c, n) == [c EXCEPT !.status = "running", !.node = n, !.signal = "none",
                           !.deadline = "none"]

\* _consume_expected: a barrier that was left wants nothing and has nothing.
Consumed(c) == [c EXCEPT !.context.expected = {}, !.context.satisfied = {}]

\* _persist: every column of the copy is written.
Saved(r, c) == [run EXCEPT ![r] = [c EXCEPT !.recent = TRUE]]

\* _persist_context writes the context and updated_at alone.  (mutant) Every column.
ContextSavedInFull(r, c) == Saved(r, c)
ContextSaved(r, c) == [run EXCEPT ![r].context = c.context, ![r].recent = TRUE]

Completed(c) == [c EXCEPT !.status = "completed", !.node = NoNode, !.signal = "none",
                          !.deadline = "none", !.context.flow = FALSE]
Failed(c)    == [c EXCEPT !.status = "failed", !.signal = "none", !.deadline = "none",
                          !.context.flow = FALSE]

-----------------------------------------------------------------------------
(* The device, the clock and the processes *)

Init ==
    /\ run = [r \in Runs |-> AbsentRow]
    /\ actor = [a \in Actors |-> IdleActor]
    /\ deployed = [f \in Refs |-> "none"]
    /\ signals = {}
    /\ asked = [r \in Runs |-> {}]
    /\ release = [r \in Runs |-> "none"]
    /\ troubles = 0

\* The device answers an install: the deployment row is written, then the signal
\* deferred.
DeviceInstalls(f) ==
    /\ deployed[f] = "queued"
    /\ deployed' = [deployed EXCEPT ![f] = "installed"]
    /\ signals' = signals \cup {f}
    /\ UNCHANGED <<run, actor, asked, release, troubles>>

\* A deadline passes.  It is minutes away when a run parks, so nobody still holds
\* a copy of the run from before.
Expires(r) ==
    /\ run[r].status = "waiting" /\ run[r].deadline = "ahead"
    /\ \A a \in Actors : r \in Listed(a) => actor[a].copies[r].node = run[r].node
                                            /\ actor[a].copies[r].status = "waiting"
    /\ run' = [run EXCEPT ![r].deadline = "over"]
    /\ UNCHANGED <<actor, deployed, signals, asked, release, troubles>>

\* Half an hour passes.  What is being handled takes seconds.
Tick ==
    /\ \A a \in Actors : Idle(a)
    /\ \E r \in Runs : Active(r) /\ run[r].recent
    /\ run' = [r \in Runs |-> IF Active(r) THEN [run[r] EXCEPT !.recent = FALSE] ELSE run[r]]
    /\ UNCHANGED <<actor, deployed, signals, asked, release, troubles>>

\* A process stops: whatever it was doing is forgotten, deferred signals too.
Stop(process) ==
    /\ Spend
    /\ actor' = [a \in Actors |-> IF a \in process THEN IdleActor ELSE actor[a]]
    /\ signals' = IF Webhook \in process THEN {} ELSE signals
    /\ UNCHANGED <<run, deployed, asked, release>>

-----------------------------------------------------------------------------
(* Starting a run: start_flows_for_event, sweep_scheduled_starts,            *)
(* start_run_from_start                                                      *)

\* A check-in or a schedule starts a run unless one from this start is active.  Whether its
\* cooldown or its interval is over, and the tick's launches not used up, is left open.
CheckinDue  == Event = "checkin" /\ \A r \in Runs : ~Active(r)
ScheduleDue == Event = "schedule" /\ \A r \in Runs : ~Active(r)

BeginIfNone(a) ==
    /\ Idle(a) /\ Fresh # {}
    /\ IF Event = "checkin" THEN a = Webhook /\ CheckinDue ELSE a = Sweeper /\ ScheduleDue
    /\ actor' = [actor EXCEPT ![a] = ListOf("start", {})]
    /\ UNCHANGED <<run, deployed, signals, asked, release, troubles>>

\* An enrollment or an administrator supersedes the active ones.
BeginAnew(a) ==
    /\ Idle(a) /\ a \in Admins \cup (IF Event = "enroll" THEN {Webhook} ELSE {})
    /\ \/ Fresh # {} /\ UNCHANGED troubles
       \/ (\E r \in Runs : Active(r)) /\ Spend
    /\ actor' = [actor EXCEPT ![a] = ListOf("start", {r \in Runs : Active(r)})]
    /\ UNCHANGED <<run, deployed, signals, asked, release>>

\* _supersede claims a row that is still active, whoever may be advancing it ...
Cancel(a, r) ==
    /\ Turn(a, "start", r)
    /\ IF Active(r)
       THEN /\ run' = [run EXCEPT ![r].status = "cancelled", ![r].node = NoNode,
                                  ![r].signal = "none", ![r].deadline = "none"]
            /\ actor' = [actor EXCEPT ![a] =
                  IF actor[a].copies[r].context.flow
                  THEN Holding(a, r, "drop", [actor[a].copies[r] EXCEPT !.context.flow = FALSE])
                  ELSE Through(a, r)]
       ELSE /\ actor' = [actor EXCEPT ![a] = Through(a, r)]
            /\ UNCHANGED run
    /\ UNCHANGED <<deployed, signals, asked, release, troubles>>

\* ... and saves its context without the flow snapshot.
DropSnapshot(a) ==
    /\ actor[a].pc = "drop"
    /\ run' = ContextSaved(actor[a].cur, Copy(a))
    /\ actor' = [actor EXCEPT ![a] = Through(a, actor[a].cur)]
    /\ UNCHANGED <<deployed, signals, asked, release, troubles>>

\* _start_run creates the row running at the start node and advances it.  (No row
\* to create it with: bound.)
Create(a) ==
    /\ actor[a].job = "start" /\ actor[a].pc = "next" /\ Listed(a) = {}
    /\ \/ \E r \in Fresh :
             LET new == [AbsentRow EXCEPT !.status = "running", !.node = Start,
                                          !.context.flow = TRUE]
             IN  /\ run' = [run EXCEPT ![r] = new]
                 /\ actor' = [actor EXCEPT ![a] =
                       [Holding(a, r, "advance", new) EXCEPT !.job = "run"]]
       \/ /\ Fresh = {}
          /\ actor' = [actor EXCEPT ![a] = IdleActor]
          /\ UNCHANGED run
    /\ UNCHANGED <<deployed, signals, asked, release, troubles>>

-----------------------------------------------------------------------------
(* Advancing a run in memory: _advance, _park, _park_manual, _complete, _fail *)

\* The copy goes on at node n.
GoOn(a, c) == actor' = [actor EXCEPT ![a] = Holding(a, actor[a].cur, "advance", c)]

AtStart(a) ==
    /\ actor[a].pc = "advance" /\ Kind[Copy(a).node] = "start"
    /\ GoOn(a, [Copy(a) EXCEPT !.node = After[@]])
    /\ UNCHANGED <<run, deployed, signals, asked, release, troubles>>

\* _install_profiles, _install_apps: what can be queued is queued and expected,
\* and what cannot is written to the gap ledger.
AtInstall(a) ==
    /\ actor[a].pc = "advance" /\ Kind[Copy(a).node] = "install"
    /\ LET c == Copy(a)
           named == Installs[c.node]
       IN  \E queued \in {named, {}} :
             /\ deployed' = [f \in Refs |-> IF f \in queued /\ deployed[f] = "none"
                                            THEN "queued" ELSE deployed[f]]
             /\ asked' = [asked EXCEPT ![actor[a].cur] = @ \cup named]
             /\ GoOn(a, [c EXCEPT !.node = After[@],
                                  !.context.expected = @ \cup queued,
                                  !.context.gaps = @ \/ named \ queued # {}])
    /\ UNCHANGED <<run, signals, release, troubles>>

\* _wait_already_satisfied: every expected profile has been signalled or is
\* installed; nothing expected is a gap.
PassWait(a) ==
    LET c == Copy(a)
    IN  /\ actor[a].pc = "advance" /\ Kind[c.node] = "wait"
        /\ c.context.expected \subseteq c.context.satisfied \cup Installed
        /\ GoOn(a, Consumed([c EXCEPT !.node = After[@],
                                      !.context.gaps = @ \/ c.context.expected = {}]))
        /\ UNCHANGED <<run, deployed, signals, asked, release, troubles>>

\* It is not: the run will be parked, once _park has looked after its alert.
StopAtWait(a) ==
    /\ actor[a].pc = "advance" /\ Kind[Copy(a).node] = "wait"
    /\ ~(Copy(a).context.expected \subseteq Copy(a).context.satisfied \cup Installed)
    /\ actor' = [actor EXCEPT ![a].pc = "park"]
    /\ UNCHANGED <<run, deployed, signals, asked, release, troubles>>

StopAtGate(a) ==
    /\ actor[a].pc = "advance" /\ Kind[Copy(a).node] = "gate"
    /\ actor' = [actor EXCEPT ![a].pc = IF Choices[Copy(a).node] = {} THEN "fail" ELSE "park"]
    /\ UNCHANGED <<run, deployed, signals, asked, release, troubles>>

Park(a) ==
    /\ actor[a].pc = "park"
    /\ LET parked == [Copy(a) EXCEPT !.status = "waiting", !.deadline = "ahead"]
       IN  run' = Saved(actor[a].cur,
                        IF Kind[parked.node] = "gate"
                        THEN [parked EXCEPT !.signal = "manual", !.context.rung = 0]
                        ELSE [parked EXCEPT !.signal = "profile_installed"])
    /\ actor' = [actor EXCEPT ![a] = Through(a, actor[a].cur)]
    /\ UNCHANGED <<deployed, signals, asked, release, troubles>>

\* _release_device lets the device out and marks the run if its ledger has a gap.
AtRelease(a) ==
    LET c == Copy(a)
        r == actor[a].cur
    IN  /\ actor[a].pc = "advance" /\ Kind[c.node] = "release"
        /\ release' = [release EXCEPT ![r] =
              IF asked[r] \subseteq Installed THEN "configured" ELSE "unconfigured"]
        /\ GoOn(a, [c EXCEPT !.node = After[@], !.context.unverified = @ \/ c.context.gaps])
        /\ UNCHANGED <<run, deployed, signals, asked, troubles>>

\* _complete, which fails a run that released the device over a gap.
AtEnd(a) ==
    /\ actor[a].pc = "advance" /\ Kind[Copy(a).node] = "end"
    /\ run' = Saved(actor[a].cur, IF Copy(a).context.unverified
                                  THEN Failed(Copy(a)) ELSE Completed(Copy(a)))
    /\ actor' = [actor EXCEPT ![a] = Through(a, actor[a].cur)]
    /\ UNCHANGED <<deployed, signals, asked, release, troubles>>

Fail(a) ==
    /\ actor[a].pc = "fail"
    /\ run' = Saved(actor[a].cur, Failed(Copy(a)))
    /\ actor' = [actor EXCEPT ![a] = Through(a, actor[a].cur)]
    /\ UNCHANGED <<deployed, signals, asked, release, troubles>>

-----------------------------------------------------------------------------
(* A device signal: advance_on_signal *)

\* The runs waiting for the signal are read; without one it is gone.
Hear(f) ==
    /\ Idle(Webhook) /\ f \in signals
    /\ signals' = signals \ {f}
    /\ LET waiting == {r \in Runs : run[r].status = "waiting" /\ run[r].signal = "profile_installed"}
       IN  actor' = IF waiting = {} THEN actor
                    ELSE [actor EXCEPT ![Webhook] = [ListOf("signal", waiting) EXCEPT !.ref = f]]
    /\ UNCHANGED <<run, deployed, asked, release, troubles>>

\* _signal_expected, then _record_satisfied with what the row has by now.
Record(r) ==
    /\ Turn(Webhook, "signal", r)
    /\ LET c == actor[Webhook].copies[r]
           f == actor[Webhook].ref
       IN  actor' = [actor EXCEPT ![Webhook] =
              IF f \in c.context.expected
              THEN Holding(Webhook, r, "recorded",
                     [c EXCEPT !.context.satisfied = @ \cup run[r].context.satisfied \cup {f}])
              ELSE Through(Webhook, r)]
    /\ UNCHANGED <<run, deployed, signals, asked, release, troubles>>

\* Some are missing: the arrival is saved and the run stays where it is.
SavePartial ==
    /\ actor[Webhook].pc = "recorded"
    /\ ~(Copy(Webhook).context.expected \subseteq Copy(Webhook).context.satisfied)
    /\ run' = ContextSaved(actor[Webhook].cur, Copy(Webhook))
    /\ actor' = [actor EXCEPT ![Webhook] = Through(Webhook, actor[Webhook].cur)]
    /\ UNCHANGED <<deployed, signals, asked, release, troubles>>

\* All are there: the run is claimed and leaves its wait, or fails when its flow
\* snapshot is gone.
ClaimForSignal ==
    LET c == Copy(Webhook)
        r == actor[Webhook].cur
    IN  /\ actor[Webhook].pc = "recorded"
        /\ c.context.expected \subseteq c.context.satisfied
        /\ IF Claimable(r)
           THEN /\ run' = Claimed(r)
                /\ actor' = [actor EXCEPT ![Webhook] =
                      IF c.context.flow
                      THEN Holding(Webhook, r, "advance", Resumed(Consumed(c), After[c.node]))
                      ELSE Holding(Webhook, r, "fail", c)]
           ELSE /\ actor' = [actor EXCEPT ![Webhook] = Through(Webhook, r)]
                /\ UNCHANGED run
        /\ UNCHANGED <<deployed, signals, asked, release, troubles>>

-----------------------------------------------------------------------------
(* The controller's sweep: sweep_timeouts, _sweep_manual_gate *)

\* What the sweep's query returns.  (mutant) Gates have no deadline.
OverdueWaits == {r \in Runs : /\ run[r].status = "waiting" /\ run[r].deadline = "over"
                              /\ run[r].signal # "manual"}
Overdue == {r \in Runs : run[r].status = "waiting" /\ run[r].deadline = "over"}

BeginSweep ==
    /\ Idle(Sweeper) /\ Overdue # {}
    /\ actor' = [actor EXCEPT ![Sweeper] = ListOf("sweep", Overdue)]
    /\ UNCHANGED <<run, deployed, signals, asked, release, troubles>>

\* A wait: the run goes down its on_timeout edge with a gap for what never came, or
\* fails without one.  The claim asks for no more than a waiting row.
ClaimForTimeout(r) ==
    LET c == actor[Sweeper].copies[r]
        missing == ~(c.context.expected \subseteq c.context.satisfied)
    IN  /\ Turn(Sweeper, "sweep", r) /\ c.signal # "manual"
        /\ IF Claimable(r)
           THEN /\ run' = Claimed(r)
                /\ actor' = [actor EXCEPT ![Sweeper] =
                      IF ~c.context.flow \/ OnTimeout[c.node] = NoNode THEN Holding(Sweeper, r, "fail", c)
                      ELSE Holding(Sweeper, r, "advance",
                             Resumed(Consumed([c EXCEPT !.context.gaps = @ \/ missing]),
                                     OnTimeout[c.node]))]
           ELSE /\ actor' = [actor EXCEPT ![Sweeper] = Through(Sweeper, r)]
                /\ UNCHANGED run
        /\ UNCHANGED <<deployed, signals, asked, release, troubles>>

AtGate(r) == run[r].status = "waiting" /\ run[r].signal = "manual"

\* The claim of a gate asks for a deadline that is over.  (mutant) For a gate.
ClaimableGate(r) == AtGate(r)
ClaimableForRung(r) == AtGate(r) /\ run[r].deadline = "over"

\* Rungs that are left on a gate's ladder.  (mutant) One more.
RungIsThere(c) == c.context.rung <= Rungs
RungsLeft(c) == c.context.rung < Rungs

\* A gate: its run climbs a rung, or fails after the last one.
ClaimForRung(r) ==
    LET c == actor[Sweeper].copies[r]
    IN  /\ Turn(Sweeper, "sweep", r) /\ c.signal = "manual"
        /\ IF ClaimableForRung(r)
           THEN /\ run' = Claimed(r)
                /\ actor' = [actor EXCEPT ![Sweeper] =
                      Holding(Sweeper, r, IF RungsLeft(c) THEN "escalate" ELSE "fail",
                              Resumed(c, c.node))]
           ELSE /\ actor' = [actor EXCEPT ![Sweeper] = Through(Sweeper, r)]
                /\ UNCHANGED run
        /\ UNCHANGED <<deployed, signals, asked, release, troubles>>

\* The alert has been made louder; the gate is parked on its next rung.
Escalate ==
    LET c == Copy(Sweeper)
    IN  /\ actor[Sweeper].pc = "escalate"
        /\ run' = Saved(actor[Sweeper].cur,
                        [c EXCEPT !.status = "waiting", !.signal = "manual", !.deadline = "ahead",
                                  !.context.rung = @ + 1])
        /\ actor' = [actor EXCEPT ![Sweeper] = Through(Sweeper, actor[Sweeper].cur)]
        /\ UNCHANGED <<deployed, signals, asked, release, troubles>>

\* A run found running and not saved for STALE_RUNNING_MINUTES is failed.
FailOrphan(r) ==
    /\ Idle(Sweeper)
    /\ run[r].status = "running" /\ ~run[r].recent
    /\ run' = [run EXCEPT ![r].status = "failed", ![r].recent = TRUE, ![r].context.flow = FALSE]
    /\ UNCHANGED <<actor, deployed, signals, asked, release, troubles>>

-----------------------------------------------------------------------------
(* Administrators: resume_manual_gate, fail_gate_run *)

BeginDecision(a, r) ==
    /\ Idle(a) /\ a \in Admins /\ AtGate(r)
    /\ \/ \E n \in Choices[run[r].node] :
             run[r].context.flow /\ actor' = [actor EXCEPT ![a] = [ListOf("decide", {r}) EXCEPT !.edge = n]]
       \/ actor' = [actor EXCEPT ![a] = ListOf("dismiss", {r})]
    /\ UNCHANGED <<run, deployed, signals, asked, release, troubles>>

\* The claim asks for a run at a gate.
ClaimForDecision(a, r) ==
    /\ \E job \in {"decide", "dismiss"} : Turn(a, job, r)
    /\ IF AtGate(r)
       THEN /\ run' = Claimed(r)
            /\ actor' = [actor EXCEPT ![a] =
                  IF actor[a].job = "decide"
                  THEN Holding(a, r, "advance", Resumed(actor[a].copies[r], actor[a].edge))
                  ELSE Holding(a, r, "fail", Resumed(actor[a].copies[r], actor[a].copies[r].node))]
       ELSE /\ actor' = [actor EXCEPT ![a] = Through(a, r)]
            /\ UNCHANGED run
    /\ UNCHANGED <<deployed, signals, asked, release, troubles>>

-----------------------------------------------------------------------------
(* Specification *)

Advance(a) == \/ AtStart(a) \/ AtInstall(a) \/ PassWait(a) \/ StopAtWait(a) \/ StopAtGate(a)
              \/ Park(a) \/ AtRelease(a) \/ AtEnd(a) \/ Fail(a)

Work(a) == Advance(a) \/ DropSnapshot(a) \/ Create(a) \/ \E r \in Runs : Cancel(a, r)

SignalStep == SavePartial \/ ClaimForSignal \/ \E r \in Runs : Record(r)
SweepStep  == Escalate \/ \E r \in Runs : ClaimForTimeout(r) \/ ClaimForRung(r)

Next == \/ \E f \in Refs : DeviceInstalls(f) \/ Hear(f)
        \/ \E r \in Runs : Expires(r) \/ FailOrphan(r)
        \/ Tick \/ BeginSweep
        \/ \E p \in {{Webhook}, {Sweeper}, Admins} : Stop(p)
        \/ \E a \in Actors : BeginIfNone(a) \/ BeginAnew(a) \/ Work(a)
        \/ SignalStep \/ SweepStep
        \/ \E a \in Admins, r \in Runs : BeginDecision(a, r) \/ ClaimForDecision(a, r)

\* What is being handled goes on, deferred signals are handled, the poll tick comes
\* again and sweeps, and time passes.  The device and administrators owe nothing.
Fairness == /\ \A a \in Actors : WF_vars(Work(a))
            /\ \A a \in Admins : WF_vars(\E r \in Runs : ClaimForDecision(a, r))
            /\ WF_vars(SignalStep) /\ WF_vars(SweepStep)
            /\ SF_vars(BeginSweep) /\ SF_vars(Tick)
            /\ WF_vars(\E r \in Runs : Expires(r)) /\ SF_vars(\E r \in Runs : FailOrphan(r))

Spec == Init /\ [][Next]_vars /\ Fairness

-----------------------------------------------------------------------------
(* Properties *)

\* Rows, callers and their copies keep their shapes.
TypeOK ==
    /\ run \in [Runs -> Row]
    /\ actor \in [Actors -> Actor]
    /\ deployed \in [Refs -> {"none", "queued", "installed"}]
    /\ signals \subseteq Refs
    /\ asked \in [Runs -> SUBSET Refs]
    /\ release \in [Runs -> {"none", "configured", "unconfigured"}]
    /\ troubles \in Nat

\* The waiting->running claim makes its claimant the only one to carry the run
\* through the flow (_claim_waiting): signals, timeouts, rungs, decisions and starts
\* never advance one run from two copies at a time.
OneAdvancer ==
    \A r \in Runs, a, b \in Actors : Advancing(a, r) /\ Advancing(b, r) => a = b

\* A completed run is over: no stale copy, sweep or restart brings it back.
CompletedStays ==
    [][\A r \in Runs : run[r].status = "completed" => run'[r].status = "completed"]_vars

\* The sweep's claim of a gate is pinned to the park it saw: one that was decided and
\* parked again meanwhile is not escalated or failed on the old deadline.
EscalationPinned ==
    [][\A r \in Runs : ClaimForRung(r) /\ run' # run =>
          run[r].node = actor[Sweeper].copies[r].node]_vars

\* No run is left hanging: lost signals, silent devices, undecided gates and stopped
\* processes all end at a deadline or at the orphan sweep.
EveryRunEnds == \A r \in Runs : Active(r) ~> run[r].status \in EndStates

-----------------------------------------------------------------------------
(* What the comments say, and the code does not quite do *)

\* atc.py on _persist: a full save cannot clobber a concurrent writer.  A run that
\* was cancelled, failed or completed by anyone stays so.
EndedStays ==
    [][\A r \in Runs : run[r].status \in EndStates => run'[r].status = run[r].status]_vars

\* atc.py on the check before parking: no lost wakeup.  A parked run whose profiles are
\* all on the device has a signal coming, or in the webhook's hands.
NoLostWakeup ==
    \A r \in Runs :
       run[r].status = "waiting" /\ run[r].signal = "profile_installed" /\ run[r].deadline = "ahead"
          /\ run[r].context.expected \subseteq Installed
       => \/ run[r].context.expected \cap signals # {}
          \/ actor[Webhook].job = "signal"

\* atc_context.py on the gap ledger: append-only per run, and consulted before a
\* device is let out.  A run that released a device that had not installed what the
\* run asked for does not complete.
ReleaseVerified ==
    \A r \in Runs : run[r].status = "completed" => release[r] # "unconfigured"
=============================================================================
