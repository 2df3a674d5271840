---------------------------- MODULE FlowRunProofs ----------------------------
(***************************************************************************)
(* Proofs about FlowRun, for any flow, any number of runs, profiles and    *)
(* administrators and any bounds.                                          *)
(***************************************************************************)
EXTENDS FlowRun, TLAPS

-----------------------------------------------------------------------------
(* The inductive invariant *)

\* A copy that is carried through the flow.
Carried(c) == c.node \in Nodes /\ c.status = "running"

\* A parked row is at a node of the flow, and a row that waits for profiles at a wait.
Parked(c) ==
    c.status = "waiting" =>
       /\ c.node \in Nodes /\ c.signal \in {"profile_installed", "manual"}
       /\ c.signal = "profile_installed" => Kind[c.node] = "wait"

\* What advance_on_signal and sweep_timeouts list.
Heard(c) == /\ c.status \in {"absent", "waiting"}
            /\ c.status = "waiting" => c.signal = "profile_installed"
Swept(c) == c.status \in {"absent", "waiting"}

\* What a caller has in memory fits what it is doing.
ActorOK(w) ==
    /\ w \in Actor
    /\ w.cur = NoRun <=> w.pc \in {"idle", "next"}
    /\ \A r \in Runs : Parked(w.copies[r])
    /\ w.job = "signal" => \A r \in Runs : r # w.cur => Heard(w.copies[r])
    /\ w.job = "sweep" => \A r \in Runs : r # w.cur => Swept(w.copies[r])
    /\ w.job = "decide" => w.edge \in Nodes
    /\ w.pc = "recorded" => Heard(w.copies[w.cur]) /\ w.copies[w.cur].status = "waiting"
    /\ w.pc \in {"advance", "park", "escalate"} => Carried(w.copies[w.cur])
    /\ w.pc = "park" => Kind[w.copies[w.cur].node] \in {"wait", "gate"}
    /\ w.pc = "escalate" => w.copies[w.cur].context.rung < Rungs

RunsOK   == run \in [Runs -> Row] /\ \A r \in Runs : Parked(run[r])
ActorsOK == actor \in [Actors -> Actor] /\ \A a \in Actors : ActorOK(actor[a])
RestOK   == /\ deployed \in [Refs -> {"none", "queued", "installed"}]
            /\ signals \subseteq Refs
            /\ asked \in [Runs -> SUBSET Refs]
            /\ release \in [Runs -> {"none", "configured", "unconfigured"}]
            /\ troubles \in Nat

Shape == RunsOK /\ ActorsOK /\ RestOK

-----------------------------------------------------------------------------
(* Rows and copies keep their shape under what the code does to them *)

LEMMA Consts ==
    /\ NoRun \notin Runs /\ NoNode \notin Nodes /\ Start \in Nodes /\ Rungs \in Nat
    /\ Kind \in [Nodes -> Kinds] /\ After \in [Nodes -> Nodes \cup {NoNode}]
    /\ OnTimeout \in [Nodes -> Nodes \cup {NoNode}]
    /\ Choices \in [Nodes -> SUBSET Nodes] /\ Installs \in [Nodes -> SUBSET Refs]
    /\ \A n \in Nodes : Kind[n] \in {"start", "install", "wait", "release"} => After[n] \in Nodes
    /\ Webhook # Sweeper /\ Webhook \notin Admins /\ Sweeper \notin Admins
    /\ MaxTroubles \in Nat
<1>1. {Rungs, MaxTroubles} \subseteq Nat
  BY ConstantsAssumption DEF ConstantsAssumption
<1>2. Webhook # Sweeper /\ {Webhook, Sweeper} \cap Admins = {}
  BY ConstantsAssumption DEF ConstantsAssumption
<1>3. QED BY <1>1, <1>2, ConstantsAssumption DEF ConstantsAssumption

LEMMA ContextEdits ==
    ASSUME NEW x \in Context, NEW S \in SUBSET Refs, NEW b \in BOOLEAN
    PROVE  /\ [x EXCEPT !.flow = b] \in Context
           /\ [x EXCEPT !.expected = S] \in Context
           /\ [x EXCEPT !.satisfied = S] \in Context
           /\ [x EXCEPT !.gaps = b] \in Context
           /\ [x EXCEPT !.unverified = b] \in Context
           /\ [x EXCEPT !.rung = 0] \in Context
           /\ x.rung < Rungs => [x EXCEPT !.rung = @ + 1] \in Context
<1>1. /\ [x EXCEPT !.flow = b] \in Context
      /\ [x EXCEPT !.expected = S] \in Context
      /\ [x EXCEPT !.satisfied = S] \in Context
      /\ [x EXCEPT !.gaps = b] \in Context
      /\ [x EXCEPT !.unverified = b] \in Context
  BY DEF Context
<1>2. \A i \in 0..Rungs : [x EXCEPT !.rung = i] \in Context
  BY DEF Context
<1>3. 0 \in 0..Rungs /\ (x.rung < Rungs => x.rung + 1 \in 0..Rungs)
  BY Consts DEF Context
<1>4. x.rung < Rungs => [x EXCEPT !.rung = x.rung + 1] \in Context
  BY <1>2, <1>3
<1>5. QED BY <1>1, <1>2, <1>3, <1>4

LEMMA AbsentRowType == AbsentRow \in Row /\ Parked(AbsentRow) /\ AbsentRow.status = "absent"
BY Consts DEF AbsentRow, NoContext, Row, Context, Parked, ActiveStates, EndStates

LEMMA AbsentListed == Heard(AbsentRow) /\ Swept(AbsentRow)
BY AbsentRowType DEF Heard, Swept

LEMMA ResumedEdit ==
    ASSUME NEW c \in Row, NEW n \in Nodes \cup {NoNode}
    PROVE  /\ Resumed(c, n) \in Row /\ Resumed(c, n).status = "running"
           /\ Resumed(c, n).node = n /\ Resumed(c, n).context = c.context
BY DEF Resumed, Row, ActiveStates

LEMMA RowEdits ==
    ASSUME NEW c \in Row
    PROVE  /\ Completed(c) \in Row /\ Completed(c).status = "completed"
           /\ Failed(c) \in Row /\ Failed(c).status = "failed"
           /\ Consumed(c) \in Row /\ Consumed(c).node = c.node
           /\ Consumed(c).status = c.status
<1>1. c.context \in Context
  BY DEF Row
<1>2. Completed(c) \in Row /\ Completed(c).status = "completed"
  <2>1. [c.context EXCEPT !.flow = FALSE] \in Context
    BY <1>1, ContextEdits
  <2>2. Completed(c) = [c EXCEPT !.status = "completed", !.node = NoNode, !.signal = "none",
                                 !.deadline = "none", !.context = [c.context EXCEPT !.flow = FALSE]]
    BY DEF Completed, Row
  <2>3. QED BY <2>1, <2>2 DEF Row, EndStates
<1>3. Failed(c) \in Row /\ Failed(c).status = "failed"
  <2>1. [c.context EXCEPT !.flow = FALSE] \in Context
    BY <1>1, ContextEdits
  <2>2. Failed(c) = [c EXCEPT !.status = "failed", !.signal = "none", !.deadline = "none",
                              !.context = [c.context EXCEPT !.flow = FALSE]]
    BY DEF Failed, Row
  <2>3. QED BY <2>1, <2>2 DEF Row, EndStates
<1>4. Consumed(c) \in Row /\ Consumed(c).node = c.node /\ Consumed(c).status = c.status
  <2> DEFINE x == [c.context EXCEPT !.expected = {}, !.satisfied = {}]
  <2>1. x \in Context
    BY <1>1 DEF Context
  <2>2. Consumed(c) = [c EXCEPT !.context = x]
    BY <1>1 DEF Consumed, Row
  <2> HIDE DEF x
  <2>3. QED BY <2>1, <2>2 DEF Row
<1>5. QED BY <1>2, <1>3, <1>4

LEMMA EndEdits ==
    ASSUME NEW c \in Row
    PROVE  /\ Completed(c) \in Row /\ Parked(Completed(c)) /\ Completed(c).status = "completed"
           /\ Failed(c) \in Row /\ Parked(Failed(c)) /\ Failed(c).status = "failed"
BY RowEdits, Consts DEF Parked

-----------------------------------------------------------------------------
(* One row, one caller at a time *)

LEMMA OneRow ==
    ASSUME RunsOK, NEW r \in Runs, NEW c \in Row, Parked(c), run' = [run EXCEPT ![r] = c]
    PROVE  RunsOK'
BY DEF RunsOK

LEMMA ClaimedOK ==
    ASSUME RunsOK, NEW r \in Runs, run' = Claimed(r)
    PROVE  RunsOK'
<1>1. run' = [run EXCEPT ![r] = [run[r] EXCEPT !.status = "running", !.signal = "none",
                                              !.deadline = "none"]]
  BY DEF Claimed, RunsOK
<1> DEFINE c == [run[r] EXCEPT !.status = "running", !.signal = "none", !.deadline = "none"]
<1>2. c \in Row /\ c.status = "running"
  BY DEF RunsOK, Row, ActiveStates
<1>3. Parked(c)
  BY <1>2 DEF Parked
<1> HIDE DEF c
<1>4. QED BY <1>1, <1>2, <1>3, OneRow DEF c

LEMMA ContextSavedOK ==
    ASSUME RunsOK, NEW r \in Runs, NEW c \in Row, run' = ContextSaved(r, c)
    PROVE  RunsOK'
<1> DEFINE d == [run[r] EXCEPT !.context = c.context, !.recent = TRUE]
<1>1. run' = [run EXCEPT ![r] = d]
  BY DEF ContextSaved, RunsOK
<1>2. d \in Row /\ d.status = run[r].status /\ d.node = run[r].node /\ d.signal = run[r].signal
  BY DEF RunsOK, Row
<1>3. Parked(d)
  BY <1>2 DEF Parked, RunsOK
<1> HIDE DEF d
<1>4. QED BY <1>1, <1>2, <1>3, OneRow

LEMMA SavedOK ==
    ASSUME RunsOK, NEW r \in Runs, NEW c \in Row, Parked(c), run' = Saved(r, c)
    PROVE  RunsOK'
<1> DEFINE d == [c EXCEPT !.recent = TRUE]
<1>1. run' = [run EXCEPT ![r] = d]
  BY DEF Saved
<1>2. d \in Row /\ d.status = c.status /\ d.node = c.node /\ d.signal = c.signal
  BY DEF Row
<1>3. Parked(d)
  BY <1>2 DEF Parked
<1> HIDE DEF d
<1>4. QED BY <1>1, <1>2, <1>3, OneRow

LEMMA OneActor ==
    ASSUME ActorsOK, NEW a \in Actors, NEW w, ActorOK(w), actor' = [actor EXCEPT ![a] = w]
    PROVE  ActorsOK'
<1>1. w \in Actor
  BY DEF ActorOK
<1>2. \A b \in Actors : actor'[b] = IF b = a THEN w ELSE actor[b]
  BY DEF ActorsOK
<1>3. \A b \in Actors : ActorOK(actor'[b])
  BY <1>2 DEF ActorsOK
<1>4. actor' \in [Actors -> Actor]
  BY <1>1 DEF ActorsOK
<1>5. QED BY <1>3, <1>4 DEF ActorsOK

LEMMA IdleActorOK == ActorOK(IdleActor) /\ IdleActor \in Actor
<1>1. IdleActor \in Actor
  BY AbsentRowType DEF IdleActor, Actor
<1>2. QED BY <1>1, AbsentRowType DEF ActorOK, IdleActor

LEMMA ListOfOK ==
    ASSUME RunsOK, NEW job \in {"signal", "sweep", "dismiss", "start"}, NEW matching \in SUBSET Runs,
           job = "signal" => \A r \in matching : Heard(run[r]),
           job = "sweep" => \A r \in matching : Swept(run[r]),
           NEW f \in Refs \cup {NoRef}
    PROVE  ActorOK([ListOf(job, matching) EXCEPT !.ref = f]) /\ ActorOK(ListOf(job, matching))
<1> DEFINE w == [ListOf(job, matching) EXCEPT !.ref = f]
<1>1. w \in Actor /\ ListOf(job, matching) \in Actor
  BY AbsentRowType DEF ListOf, IdleActor, Actor, RunsOK
<1>2. w.job = job /\ w.pc = "next" /\ w.cur = NoRun
  BY DEF ListOf, IdleActor
<1>3. \A r \in Runs : w.copies[r] = IF r \in matching THEN run[r] ELSE AbsentRow
  BY DEF ListOf, IdleActor
<1>4. ListOf(job, matching).job = job /\ ListOf(job, matching).pc = "next"
      /\ ListOf(job, matching).cur = NoRun /\ ListOf(job, matching).copies = w.copies
  BY DEF ListOf, IdleActor
<1>5. \A r \in Runs : Parked(w.copies[r])
  BY <1>3, AbsentRowType DEF RunsOK
<1> HIDE DEF w
<1>6. job = "signal" => \A r \in Runs : Heard(w.copies[r])
  BY <1>3, AbsentListed
<1>7. job = "sweep" => \A r \in Runs : Swept(w.copies[r])
  BY <1>3, AbsentListed
<1>8. ActorOK(w)
  BY <1>1, <1>2, <1>5, <1>6, <1>7 DEF ActorOK
<1>9. ActorOK(ListOf(job, matching))
  BY <1>1, <1>4, <1>5, <1>6, <1>7 DEF ActorOK
<1>10. QED BY <1>8, <1>9 DEF w

LEMMA ListForDecisionOK ==
    ASSUME RunsOK, NEW r \in Runs, NEW n \in Nodes
    PROVE  ActorOK([ListOf("decide", {r}) EXCEPT !.edge = n])
<1> DEFINE w == [ListOf("decide", {r}) EXCEPT !.edge = n]
<1>1. w \in Actor
  BY AbsentRowType DEF ListOf, IdleActor, Actor, RunsOK
<1>2. w.job = "decide" /\ w.pc = "next" /\ w.cur = NoRun /\ w.edge = n
  BY DEF ListOf, IdleActor
<1>3. \A q \in Runs : w.copies[q] = IF q = r THEN run[q] ELSE AbsentRow
  BY DEF ListOf, IdleActor
<1>4. \A q \in Runs : Parked(w.copies[q])
  BY <1>3, AbsentRowType DEF RunsOK
<1> HIDE DEF w
<1>5. ActorOK(w)
  BY <1>1, <1>2, <1>4 DEF ActorOK
<1>6. QED BY <1>5 DEF w

LEMMA ThroughOK ==
    ASSUME ActorsOK, NEW a \in Actors, NEW r \in Runs, actor[a].cur \in {r, NoRun}
    PROVE  ActorOK(Through(a, r))
<1> DEFINE rest == [actor[a].copies EXCEPT ![r] = AbsentRow]
           w == [actor[a] EXCEPT !.pc = "next", !.cur = NoRun, !.copies = rest]
<1>1. actor[a] \in Actor /\ ActorOK(actor[a])
  BY DEF ActorsOK
<1>2. rest \in [Runs -> Row]
  BY <1>1, AbsentRowType DEF Actor
<1>3. \A q \in Runs : rest[q] = IF q = r THEN AbsentRow ELSE actor[a].copies[q]
  BY <1>1 DEF Actor
<1> HIDE DEF rest
<1>4. /\ w \in Actor /\ w.pc = "next" /\ w.cur = NoRun /\ w.copies = rest
      /\ w.job = actor[a].job /\ w.edge = actor[a].edge
  BY <1>1, <1>2 DEF Actor
<1> HIDE DEF w
<1>5. \A q \in Runs : Parked(rest[q])
  BY <1>1, <1>3, AbsentRowType DEF ActorOK
<1>6. w.job = "signal" => \A q \in Runs : Heard(rest[q])
  <2>1. SUFFICES ASSUME w.job = "signal", NEW q \in Runs PROVE Heard(rest[q])
    OBVIOUS
  <2>2. CASE q = r
    BY <2>2, <1>3, AbsentListed
  <2>3. CASE q # r
    BY <2>1, <2>3, <1>1, <1>3, <1>4, Consts DEF ActorOK
  <2>4. QED BY <2>2, <2>3
<1>7. w.job = "sweep" => \A q \in Runs : Swept(rest[q])
  <2>1. SUFFICES ASSUME w.job = "sweep", NEW q \in Runs PROVE Swept(rest[q])
    OBVIOUS
  <2>2. CASE q = r
    BY <2>2, <1>3, AbsentListed
  <2>3. CASE q # r
    BY <2>1, <2>3, <1>1, <1>3, <1>4, Consts DEF ActorOK
  <2>4. QED BY <2>2, <2>3
<1>8. w.job = "decide" => w.edge \in Nodes
  BY <1>1, <1>4 DEF ActorOK
<1>9. ActorOK(w)
  BY <1>4, <1>5, <1>6, <1>7, <1>8 DEF ActorOK
<1>10. Through(a, r) = IdleActor \/ Through(a, r) = w
  BY DEF Through, w, rest
<1>11. QED BY <1>9, <1>10, IdleActorOK

LEMMA HoldingOK ==
    ASSUME ActorsOK, NEW a \in Actors, NEW r \in Runs, actor[a].cur \in {r, NoRun},
           NEW c \in Row, Parked(c),
           NEW pc \in {"recorded", "advance", "park", "escalate", "fail", "drop"},
           pc = "recorded" => Heard(c) /\ c.status = "waiting",
           pc \in {"advance", "park", "escalate"} => Carried(c),
           pc = "park" => Kind[c.node] \in {"wait", "gate"},
           pc = "escalate" => c.context.rung < Rungs
    PROVE  /\ ActorOK(Holding(a, r, pc, c))
           /\ ActorOK([Holding(a, r, pc, c) EXCEPT !.job = "run"])
<1> DEFINE w == Holding(a, r, pc, c)
           v == [w EXCEPT !.job = "run"]
<1>1. actor[a] \in Actor /\ ActorOK(actor[a])
  BY DEF ActorsOK
<1>2. /\ w \in Actor /\ w.pc = pc /\ w.cur = r /\ w.job = actor[a].job /\ w.edge = actor[a].edge
      /\ \A q \in Runs : w.copies[q] = IF q = r THEN c ELSE actor[a].copies[q]
  BY <1>1 DEF Holding, Actor
<1>3. /\ v \in Actor /\ v.pc = pc /\ v.cur = r /\ v.job = "run" /\ v.copies = w.copies
  BY <1>2 DEF Actor
<1> HIDE DEF w
<1> HIDE DEF v
<1>4. \A q \in Runs : Parked(w.copies[q])
  BY <1>1, <1>2 DEF ActorOK
<1>5. w.job = "signal" => \A q \in Runs : q # r => Heard(w.copies[q])
  <2>1. SUFFICES ASSUME w.job = "signal", NEW q \in Runs, q # r PROVE Heard(w.copies[q])
    OBVIOUS
  <2>2. w.copies[q] = actor[a].copies[q] /\ q # actor[a].cur /\ actor[a].job = "signal"
    BY <2>1, <1>2, Consts
  <2>3. QED BY <2>2, <1>1 DEF ActorOK
<1>6. w.job = "sweep" => \A q \in Runs : q # r => Swept(w.copies[q])
  <2>1. SUFFICES ASSUME w.job = "sweep", NEW q \in Runs, q # r PROVE Swept(w.copies[q])
    OBVIOUS
  <2>2. w.copies[q] = actor[a].copies[q] /\ q # actor[a].cur /\ actor[a].job = "sweep"
    BY <2>1, <1>2, Consts
  <2>3. QED BY <2>2, <1>1 DEF ActorOK
<1>7. w.job = "decide" => w.edge \in Nodes
  BY <1>1, <1>2 DEF ActorOK
<1>8. w.copies[r] = c /\ r # NoRun
  BY <1>2, Consts
<1>9. ActorOK(w)
  BY <1>2, <1>4, <1>5, <1>6, <1>7, <1>8 DEF ActorOK
<1>10. ActorOK(v)
  BY <1>2, <1>3, <1>4, <1>8 DEF ActorOK
<1>11. QED BY <1>9, <1>10 DEF w, v

-----------------------------------------------------------------------------
(* Every step keeps the shape *)

LEMMA ShapeIsTyped == Shape => TypeOK
BY DEF Shape, TypeOK, RunsOK, ActorsOK, RestOK

LEMMA CopyFacts ==
    ASSUME ActorsOK, NEW a \in Actors, actor[a].pc \notin {"idle", "next"}
    PROVE  /\ actor[a].cur \in Runs /\ Copy(a) \in Row /\ Parked(Copy(a))
           /\ actor[a].pc \in {"advance", "park", "escalate"} => Carried(Copy(a))
           /\ actor[a].pc = "park" => Kind[Copy(a).node] \in {"wait", "gate"}
           /\ actor[a].pc = "escalate" => Copy(a).context.rung < Rungs
           /\ actor[a].pc = "recorded" => Heard(Copy(a)) /\ Copy(a).status = "waiting"
<1>1. actor[a] \in Actor /\ ActorOK(actor[a])
  BY DEF ActorsOK
<1>2. actor[a].cur \in Runs
  BY <1>1 DEF ActorOK, Actor
<1>3. QED BY <1>1, <1>2 DEF ActorOK, Actor, Copy

LEMMA TurnFacts ==
    ASSUME ActorsOK, NEW a \in Actors, NEW job, NEW r \in Runs, Turn(a, job, r)
    PROVE  /\ actor[a].cur = NoRun /\ actor[a].copies[r] \in Row /\ Parked(actor[a].copies[r])
           /\ job = "signal" => Heard(actor[a].copies[r]) /\ actor[a].copies[r].status = "waiting"
           /\ job = "sweep" => actor[a].copies[r].status = "waiting"
           /\ job = "decide" => actor[a].edge \in Nodes
<1>1. actor[a] \in Actor /\ ActorOK(actor[a])
  BY DEF ActorsOK
<1>2. actor[a].cur = NoRun /\ actor[a].job = job /\ r # NoRun
      /\ actor[a].copies[r].status # "absent"
  BY <1>1, Consts DEF Turn, Listed, ActorOK
<1>3. job = "signal" => Heard(actor[a].copies[r])
  BY <1>1, <1>2 DEF ActorOK
<1>4. job = "sweep" => Swept(actor[a].copies[r])
  BY <1>1, <1>2 DEF ActorOK
<1>5. QED BY <1>1, <1>2, <1>3, <1>4 DEF ActorOK, Actor, Heard, Swept

LEMMA InitShape == Init => Shape
<1>1. SUFFICES ASSUME Init PROVE Shape
  OBVIOUS
<1>2. RunsOK
  BY <1>1, AbsentRowType DEF Init, RunsOK
<1>3. ActorsOK
  BY <1>1, IdleActorOK DEF Init, ActorsOK
<1>4. RestOK
  BY <1>1 DEF Init, RestOK
<1>5. QED BY <1>2, <1>3, <1>4 DEF Shape

LEMMA WorldShape ==
    ASSUME Shape,
           \/ \E f \in Refs : DeviceInstalls(f)
           \/ \E r \in Runs : Expires(r) \/ FailOrphan(r)
           \/ Tick
           \/ \E p \in {{Webhook}, {Sweeper}, Admins} : Stop(p)
    PROVE  Shape'
<1> USE DEF Shape
<1>1. ASSUME NEW f \in Refs, DeviceInstalls(f) PROVE Shape'
  <2>1. UNCHANGED <<run, actor>>
    BY <1>1 DEF DeviceInstalls
  <2>2. RestOK'
    BY <1>1 DEF DeviceInstalls, RestOK
  <2>3. QED BY <2>1, <2>2 DEF RunsOK, ActorsOK
<1>2. ASSUME NEW r \in Runs, Expires(r) PROVE Shape'
  <2> DEFINE c == [run[r] EXCEPT !.deadline = "over"]
  <2>1. run' = [run EXCEPT ![r] = c]
    BY <1>2 DEF Expires, RunsOK
  <2>2. c \in Row /\ c.status = run[r].status /\ c.node = run[r].node /\ c.signal = run[r].signal
    BY DEF RunsOK, Row
  <2>3. Parked(c)
    BY <2>2 DEF RunsOK, Parked
  <2> HIDE DEF c
  <2>4. RunsOK'
    BY <2>1, <2>2, <2>3, OneRow
  <2>5. QED BY <1>2, <2>4 DEF Expires, ActorsOK, RestOK
<1>3. ASSUME NEW r \in Runs, FailOrphan(r) PROVE Shape'
  <2> DEFINE c == [run[r] EXCEPT !.status = "failed", !.recent = TRUE, !.context.flow = FALSE]
  <2>1. run' = [run EXCEPT ![r] = c]
    BY <1>3 DEF FailOrphan, RunsOK
  <2>2. c \in Row /\ c.status = "failed"
    <3>1. run[r] \in Row /\ run[r].context \in Context
      BY DEF RunsOK, Row
    <3>2. [run[r].context EXCEPT !.flow = FALSE] \in Context
      BY <3>1, ContextEdits
    <3>3. c = [run[r] EXCEPT !.status = "failed", !.recent = TRUE,
                             !.context = [run[r].context EXCEPT !.flow = FALSE]]
      BY <3>1 DEF Row
    <3>4. QED BY <3>1, <3>2, <3>3 DEF Row, EndStates
  <2>3. Parked(c)
    BY <2>2 DEF Parked
  <2> HIDE DEF c
  <2>4. RunsOK'
    BY <2>1, <2>2, <2>3, OneRow
  <2>5. QED BY <1>3, <2>4 DEF FailOrphan, ActorsOK, RestOK
<1>4. ASSUME Tick PROVE Shape'
  <2>1. \A r \in Runs : [run[r] EXCEPT !.recent = FALSE] \in Row
    BY DEF RunsOK, Row
  <2>2. run' \in [Runs -> Row]
    BY <1>4, <2>1 DEF Tick, RunsOK
  <2>3. \A r \in Runs :
           /\ run'[r].status = run[r].status /\ run'[r].node = run[r].node
           /\ run'[r].signal = run[r].signal
    BY <1>4 DEF Tick, RunsOK, Row
  <2>4. \A r \in Runs : Parked(run'[r])
    BY <2>3 DEF RunsOK, Parked
  <2>5. QED BY <1>4, <2>2, <2>4 DEF Tick, RunsOK, ActorsOK, RestOK
<1>5. ASSUME NEW p \in {{Webhook}, {Sweeper}, Admins}, Stop(p) PROVE Shape'
  <2>1. \A a \in Actors : actor'[a] = IdleActor \/ actor'[a] = actor[a]
    BY <1>5 DEF Stop
  <2>2. actor' \in [Actors -> Actor]
    BY <1>5, IdleActorOK DEF Stop, ActorsOK
  <2>3. \A a \in Actors : ActorOK(actor'[a])
    BY <2>1, IdleActorOK DEF ActorsOK
  <2>4. troubles' \in Nat /\ signals' \subseteq Refs
    BY <1>5 DEF Stop, Spend, RestOK
  <2>5. RestOK'
    BY <1>5, <2>4 DEF Stop, RestOK
  <2>6. QED BY <1>5, <2>2, <2>3, <2>5 DEF Stop, RunsOK, ActorsOK
<1>6. QED BY <1>1, <1>2, <1>3, <1>4, <1>5

LEMMA StartShape ==
    ASSUME Shape, NEW a \in Actors,
           \/ BeginIfNone(a) \/ BeginAnew(a) \/ DropSnapshot(a) \/ Create(a)
           \/ \E r \in Runs : Cancel(a, r)
    PROVE  Shape'
<1> USE DEF Shape
<1>1. CASE BeginIfNone(a)
  <2>1. actor' = [actor EXCEPT ![a] = ListOf("start", {})]
    BY <1>1 DEF BeginIfNone
  <2>2. ActorOK(ListOf("start", {}))
    BY ListOfOK
  <2>3. ActorsOK'
    BY <2>1, <2>2, OneActor
  <2>4. QED BY <1>1, <2>3 DEF BeginIfNone, RunsOK, RestOK
<1>2. CASE BeginAnew(a)
  <2> DEFINE active == {r \in Runs : Active(r)}
  <2>1. actor' = [actor EXCEPT ![a] = ListOf("start", active)]
    BY <1>2 DEF BeginAnew
  <2>2. ActorOK(ListOf("start", active))
    BY ListOfOK
  <2> HIDE DEF active
  <2>3. ActorsOK'
    BY <2>1, <2>2, OneActor
  <2>4. troubles' \in Nat
    BY <1>2 DEF BeginAnew, Spend, RestOK
  <2>5. QED BY <1>2, <2>3, <2>4 DEF BeginAnew, RunsOK, RestOK
<1>3. CASE DropSnapshot(a)
  <2>1. actor[a].cur \in Runs /\ Copy(a) \in Row
    BY <1>3, CopyFacts DEF DropSnapshot
  <2>2. RunsOK'
    BY <1>3, <2>1, ContextSavedOK DEF DropSnapshot
  <2>3. ActorOK(Through(a, actor[a].cur))
    BY <2>1, ThroughOK
  <2>4. ActorsOK'
    BY <1>3, <2>3, OneActor DEF DropSnapshot
  <2>5. QED BY <1>3, <2>2, <2>4 DEF DropSnapshot, RestOK
<1>4. CASE Create(a)
  <2>1. actor[a].cur = NoRun
    BY <1>4 DEF Create, ActorsOK, ActorOK
  <2>2. ASSUME NEW r \in Fresh,
               run' = [run EXCEPT ![r] = [AbsentRow EXCEPT !.status = "running", !.node = Start,
                                                           !.context.flow = TRUE]],
               actor' = [actor EXCEPT ![a] = [Holding(a, r, "advance",
                            [AbsentRow EXCEPT !.status = "running", !.node = Start,
                                              !.context.flow = TRUE]) EXCEPT !.job = "run"]]
        PROVE  RunsOK' /\ ActorsOK'
    <3> DEFINE new == [AbsentRow EXCEPT !.status = "running", !.node = Start, !.context.flow = TRUE]
    <3>1. r \in Runs
      BY DEF Fresh
    <3>2. new \in Row /\ Carried(new)
      <4>1. NoContext \in Context
        BY Consts DEF NoContext, Context
      <4>2. [NoContext EXCEPT !.flow = TRUE] \in Context
        BY <4>1, ContextEdits
      <4>3. new = [AbsentRow EXCEPT !.status = "running", !.node = Start,
                                    !.context = [NoContext EXCEPT !.flow = TRUE]]
        BY DEF AbsentRow
      <4>4. new \in Row /\ new.status = "running" /\ new.node = Start
        BY <4>2, <4>3, AbsentRowType, Consts DEF Row, ActiveStates
      <4>5. QED BY <4>4, Consts DEF Carried
    <3>3. Parked(new)
      BY <3>2 DEF Carried, Parked
    <3> HIDE DEF new
    <3>4. RunsOK'
      BY <2>2, <3>1, <3>2, <3>3, OneRow DEF new
    <3>5. ActorOK([Holding(a, r, "advance", new) EXCEPT !.job = "run"])
      BY <2>1, <3>1, <3>2, <3>3, HoldingOK
    <3>6. ActorsOK'
      BY <2>2, <3>5, OneActor DEF new
    <3>7. QED BY <3>4, <3>6
  <2>4. RunsOK' /\ ActorsOK'
    <3>1. CASE Fresh = {} /\ actor' = [actor EXCEPT ![a] = IdleActor] /\ UNCHANGED run
      BY <3>1, IdleActorOK, OneActor DEF RunsOK
    <3>2. CASE ~(Fresh = {} /\ actor' = [actor EXCEPT ![a] = IdleActor] /\ UNCHANGED run)
      <4>1. PICK r \in Fresh :
              LET new == [AbsentRow EXCEPT !.status = "running", !.node = Start,
                                           !.context.flow = TRUE]
              IN  /\ run' = [run EXCEPT ![r] = new]
                  /\ actor' = [actor EXCEPT ![a] =
                        [Holding(a, r, "advance", new) EXCEPT !.job = "run"]]
        BY <1>4, <3>2 DEF Create
      <4>2. QED BY <4>1, <2>2
    <3>3. QED BY <3>1, <3>2
  <2>5. QED BY <1>4, <2>4 DEF Create, RestOK
<1>5. ASSUME NEW r \in Runs, Cancel(a, r) PROVE Shape'
  <2>1. /\ actor[a].cur = NoRun /\ actor[a].copies[r] \in Row /\ Parked(actor[a].copies[r])
    BY <1>5, TurnFacts DEF Cancel
  <2>2. ActorOK(Through(a, r))
    BY <2>1, ThroughOK
  <2>3. RunsOK'
    <3>1. CASE Active(r)
      <4> DEFINE c == [run[r] EXCEPT !.status = "cancelled", !.node = NoNode,
                                     !.signal = "none", !.deadline = "none"]
      <4>1. run' = [run EXCEPT ![r] = c]
        BY <1>5, <3>1 DEF Cancel, RunsOK
      <4>2. c \in Row /\ c.status = "cancelled"
        BY DEF RunsOK, Row, EndStates
      <4>3. Parked(c)
        BY <4>2 DEF Parked
      <4> HIDE DEF c
      <4>4. QED BY <4>1, <4>2, <4>3, OneRow
    <3>2. CASE ~Active(r)
      BY <1>5, <3>2 DEF Cancel, RunsOK
    <3>3. QED BY <3>1, <3>2
  <2> DEFINE d == [actor[a].copies[r] EXCEPT !.context.flow = FALSE]
  <2>4. d \in Row /\ Parked(d)
    <3>1. actor[a].copies[r].context \in Context
      BY <2>1 DEF Row
    <3>2. d = [actor[a].copies[r] EXCEPT !.context = [actor[a].copies[r].context EXCEPT !.flow = FALSE]]
      BY <2>1 DEF Row
    <3>3. d \in Row /\ d.status = actor[a].copies[r].status /\ d.node = actor[a].copies[r].node
          /\ d.signal = actor[a].copies[r].signal
      BY <2>1, <3>1, <3>2, ContextEdits DEF Row
    <3>4. QED BY <2>1, <3>3 DEF Parked
  <2> HIDE DEF d
  <2>5. ActorOK(Holding(a, r, "drop", d))
    BY <2>1, <2>4, HoldingOK
  <2>6. ActorsOK'
    BY <1>5, <2>2, <2>5, OneActor DEF Cancel, d
  <2>7. QED BY <1>5, <2>3, <2>6 DEF Cancel, RestOK
<1>6. QED BY <1>1, <1>2, <1>3, <1>4, <1>5

\* A copy that goes on from a node that has a way on.
LEMMA GoOnOK ==
    ASSUME ActorsOK, NEW a \in Actors, actor[a].pc = "advance",
           NEW n \in Nodes, NEW x \in Context,
           GoOn(a, [Copy(a) EXCEPT !.node = n, !.context = x])
    PROVE  ActorsOK'
<1> DEFINE c == [Copy(a) EXCEPT !.node = n, !.context = x]
<1>1. actor[a].cur \in Runs /\ Copy(a) \in Row /\ Carried(Copy(a))
  BY CopyFacts
<1>2. c \in Row /\ c.status = "running" /\ c.node = n
  BY <1>1 DEF Row, Carried
<1>3. Carried(c) /\ Parked(c)
  BY <1>2 DEF Carried, Parked
<1>4. actor' = [actor EXCEPT ![a] = Holding(a, actor[a].cur, "advance", c)]
  BY DEF GoOn
<1> HIDE DEF c
<1>5. ActorOK(Holding(a, actor[a].cur, "advance", c))
  BY <1>1, <1>2, <1>3, HoldingOK
<1>6. QED BY <1>4, <1>5, OneActor

\* A run that is saved from the copy at hand, which is then done with.
LEMMA SavedAndThrough ==
    ASSUME Shape, NEW a \in Actors, actor[a].cur \in Runs, NEW c \in Row, Parked(c),
           run' = Saved(actor[a].cur, c),
           actor' = [actor EXCEPT ![a] = Through(a, actor[a].cur)],
           UNCHANGED <<deployed, signals, asked, release, troubles>>
    PROVE  Shape'
<1>1. RunsOK'
  BY SavedOK DEF Shape
<1>2. ActorsOK'
  BY ThroughOK, OneActor DEF Shape
<1>3. QED BY <1>1, <1>2 DEF Shape, RestOK

LEMMA AdvanceShape ==
    ASSUME Shape, NEW a \in Actors, Advance(a)
    PROVE  Shape'
<1> USE DEF Shape
<1> DEFINE c == Copy(a)
<1>1. ASSUME actor[a].pc = "advance"
      PROVE  /\ c \in Row /\ c.context \in Context /\ c.node \in Nodes
             /\ Kind[c.node] \in {"start", "install", "wait", "release"} => After[c.node] \in Nodes
  BY <1>1, CopyFacts, Consts DEF Carried, Row
<1>2. ASSUME actor[a].pc \in {"park", "fail", "advance"}
      PROVE  actor[a].cur \in Runs /\ c \in Row /\ c.context \in Context
  BY <1>2, CopyFacts DEF Row
<1> HIDE DEF c
<1>3. CASE AtStart(a)
  <2>1. [c EXCEPT !.node = After[@]] = [c EXCEPT !.node = After[c.node], !.context = c.context]
    BY <1>1, <1>3 DEF AtStart, Row
  <2>2. ActorsOK'
    BY <1>1, <1>3, <2>1, GoOnOK DEF AtStart, c
  <2>3. QED BY <1>3, <2>2 DEF AtStart, RunsOK, RestOK
<1>4. CASE AtInstall(a)
  <2>1. PICK queued \in {Installs[c.node], {}} :
          /\ deployed' = [f \in Refs |-> IF f \in queued /\ deployed[f] = "none"
                                         THEN "queued" ELSE deployed[f]]
          /\ asked' = [asked EXCEPT ![actor[a].cur] = @ \cup Installs[c.node]]
          /\ GoOn(a, [c EXCEPT !.node = After[@], !.context.expected = @ \cup queued,
                               !.context.gaps = @ \/ Installs[c.node] \ queued # {}])
    BY <1>4 DEF AtInstall, c
  <2> DEFINE x == [[c.context EXCEPT !.expected = c.context.expected \cup queued]
                              EXCEPT !.gaps = c.context.gaps \/ Installs[c.node] \ queued # {}]
  <2>2. Installs[c.node] \subseteq Refs /\ queued \subseteq Refs
    BY <1>1, <1>4, Consts DEF AtInstall
  <2>3. x \in Context
    BY <1>1, <1>4, <2>2 DEF AtInstall, Context
  <2>4. [c EXCEPT !.node = After[@], !.context.expected = @ \cup queued,
                  !.context.gaps = @ \/ Installs[c.node] \ queued # {}]
        = [c EXCEPT !.node = After[c.node], !.context = x]
    BY <1>1, <1>4 DEF AtInstall, Row, Context
  <2> HIDE DEF x
  <2>5. After[c.node] \in Nodes /\ actor[a].pc = "advance"
    BY <1>1, <1>4 DEF AtInstall, c
  <2>6. ActorsOK'
    BY <2>1, <2>3, <2>4, <2>5, GoOnOK DEF c
  <2>7. RestOK'
    <3>1. deployed' \in [Refs -> {"none", "queued", "installed"}]
      BY <2>1 DEF RestOK
    <3>2. asked' \in [Runs -> SUBSET Refs]
      BY <2>1, <2>2 DEF RestOK
    <3>3. QED BY <1>4, <3>1, <3>2 DEF AtInstall, RestOK
  <2>8. QED BY <1>4, <2>6, <2>7 DEF AtInstall, RunsOK
<1>5. CASE PassWait(a)
  <2> DEFINE x == [[[c.context EXCEPT !.gaps = c.context.gaps \/ c.context.expected = {}]
                              EXCEPT !.expected = {}] EXCEPT !.satisfied = {}]
  <2>1. x \in Context
    BY <1>1, <1>5 DEF PassWait, Context
  <2>2. Consumed([c EXCEPT !.node = After[@], !.context.gaps = @ \/ c.context.expected = {}])
        = [c EXCEPT !.node = After[c.node], !.context = x]
    BY <1>1, <1>5 DEF PassWait, Consumed, Row, Context
  <2> HIDE DEF x
  <2>3. After[c.node] \in Nodes /\ actor[a].pc = "advance"
    BY <1>1, <1>5 DEF PassWait, c
  <2>4. ActorsOK'
    <3>1. GoOn(a, Consumed([c EXCEPT !.node = After[@],
                                     !.context.gaps = @ \/ c.context.expected = {}]))
      BY <1>5 DEF PassWait, c
    <3>2. GoOn(a, [c EXCEPT !.node = After[c.node], !.context = x])
      BY <2>2, <3>1
    <3>3. QED BY <2>1, <2>3, <3>2, GoOnOK DEF c
  <2>5. QED BY <1>5, <2>4 DEF PassWait, RunsOK, RestOK
<1>6. CASE StopAtWait(a) \/ StopAtGate(a)
  <2>1. actor[a].pc = "advance"
    BY <1>6 DEF StopAtWait, StopAtGate
  <2>2. PICK pc \in {"fail", "park"} :
          /\ actor' = [actor EXCEPT ![a].pc = pc]
          /\ pc = "park" => Kind[c.node] \in {"wait", "gate"}
    BY <1>6 DEF StopAtWait, StopAtGate, c
  <2>3. actor[a].cur \in Runs /\ Copy(a) \in Row /\ Parked(Copy(a)) /\ Carried(Copy(a))
    BY <2>1, CopyFacts
  <2>4. ActorOK(Holding(a, actor[a].cur, pc, Copy(a)))
    BY <2>2, <2>3, HoldingOK DEF c
  <2>5. Holding(a, actor[a].cur, pc, Copy(a)) = [actor[a] EXCEPT !.pc = pc]
    BY <2>3 DEF Holding, Copy, ActorsOK, Actor
  <2>6. ActorsOK'
    BY <2>2, <2>4, <2>5, OneActor DEF ActorsOK
  <2>7. QED BY <1>6, <2>6 DEF StopAtWait, StopAtGate, RunsOK, RestOK
<1>7. CASE Park(a)
  <2> DEFINE parked == [c EXCEPT !.status = "waiting", !.deadline = "ahead"]
             atGate == [parked EXCEPT !.signal = "manual", !.context.rung = 0]
             atWait == [parked EXCEPT !.signal = "profile_installed"]
  <2>1. c \in Row /\ c.context \in Context /\ c.node \in Nodes
        /\ Kind[c.node] \in {"wait", "gate"} /\ actor[a].cur \in Runs
    BY <1>7, CopyFacts DEF Park, c, Carried, Row
  <2>2. parked \in Row /\ parked.node = c.node /\ parked.context = c.context
        /\ parked.status = "waiting"
    BY <2>1 DEF Row, ActiveStates
  <2> HIDE DEF parked
  <2>3. atWait \in Row /\ (Kind[c.node] = "wait" => Parked(atWait))
    BY <2>1, <2>2 DEF Row, Parked
  <2>4. atGate \in Row /\ Parked(atGate)
    <3>1. [c.context EXCEPT !.rung = 0] \in Context
      BY <2>1, ContextEdits
    <3>2. atGate = [parked EXCEPT !.signal = "manual", !.context = [c.context EXCEPT !.rung = 0]]
      BY <2>2 DEF Row
    <3>3. atGate \in Row /\ atGate.status = "waiting" /\ atGate.node = c.node
          /\ atGate.signal = "manual"
      BY <2>2, <3>1, <3>2 DEF Row
    <3>4. QED BY <2>1, <3>3 DEF Parked
  <2>5. PICK d \in Row : Parked(d) /\ run' = Saved(actor[a].cur, d)
    <3>1. run' = Saved(actor[a].cur, IF Kind[c.node] = "gate" THEN atGate ELSE atWait)
      BY <1>7, <2>2 DEF Park, c, parked
    <3> HIDE DEF atGate, atWait
    <3>2. CASE Kind[c.node] = "gate"
      BY <2>4, <3>1, <3>2
    <3>3. CASE Kind[c.node] # "gate"
      BY <2>1, <2>3, <3>1, <3>3
    <3>4. QED BY <3>2, <3>3
  <2>6. QED BY <1>7, <2>1, <2>5, SavedAndThrough DEF Park
<1>8. CASE AtRelease(a)
  <2> DEFINE x == [c.context EXCEPT !.unverified = c.context.unverified \/ c.context.gaps]
  <2>1. x \in Context
    BY <1>1, <1>8 DEF AtRelease, Context
  <2>2. [c EXCEPT !.node = After[@], !.context.unverified = @ \/ c.context.gaps]
        = [c EXCEPT !.node = After[c.node], !.context = x]
    BY <1>1, <1>8 DEF AtRelease, Row, Context
  <2> HIDE DEF x
  <2>3. After[c.node] \in Nodes /\ actor[a].pc = "advance"
    BY <1>1, <1>8 DEF AtRelease, c
  <2>4. ActorsOK'
    BY <1>8, <2>1, <2>2, <2>3, GoOnOK DEF AtRelease, c
  <2>5. release' \in [Runs -> {"none", "configured", "unconfigured"}]
    BY <1>8 DEF AtRelease, RestOK
  <2>6. QED BY <1>8, <2>4, <2>5 DEF AtRelease, RunsOK, RestOK
<1>9. CASE AtEnd(a) \/ Fail(a)
  <2>1. actor[a].cur \in Runs /\ c \in Row /\ c.context \in Context
    BY <1>2, <1>9 DEF AtEnd, Fail
  <2>2. Failed(c) \in Row /\ Completed(c) \in Row /\ Parked(Failed(c)) /\ Parked(Completed(c))
    BY <2>1, EndEdits
  <2>3. PICK d \in Row : Parked(d) /\ run' = Saved(actor[a].cur, d)
    BY <1>9, <2>2 DEF AtEnd, Fail, c
  <2>4. QED BY <1>9, <2>1, <2>3, SavedAndThrough DEF AtEnd, Fail
<1>10. QED BY <1>3, <1>4, <1>5, <1>6, <1>7, <1>8, <1>9 DEF Advance

\* A row that is claimed, and taken into the claimant's hands.
LEMMA ClaimedAndHeld ==
    ASSUME Shape, NEW a \in Actors, NEW r \in Runs, actor[a].cur \in {r, NoRun},
           NEW c \in Row, Parked(c), NEW pc \in {"advance", "escalate", "fail"},
           pc \in {"advance", "escalate"} => Carried(c),
           pc = "escalate" => c.context.rung < Rungs,
           run' = Claimed(r), actor' = [actor EXCEPT ![a] = Holding(a, r, pc, c)],
           UNCHANGED <<deployed, signals, asked, release, troubles>>
    PROVE  Shape'
<1>1. RunsOK'
  BY ClaimedOK DEF Shape
<1>2. ActorOK(Holding(a, r, pc, c))
  BY HoldingOK DEF Shape
<1>3. ActorsOK'
  BY <1>2, OneActor DEF Shape
<1>4. QED BY <1>1, <1>3 DEF Shape, RestOK

\* A caller that only turns to something else.
LEMMA OneActorMoves ==
    ASSUME Shape, NEW a \in Actors, NEW w, ActorOK(w), actor' = [actor EXCEPT ![a] = w],
           UNCHANGED <<run, deployed, signals, asked, release, troubles>>
    PROVE  Shape'
<1>1. ActorsOK'
  BY OneActor DEF Shape
<1>2. QED BY <1>1 DEF Shape, RunsOK, RestOK

LEMMA ResumedOK ==
    ASSUME NEW c \in Row, NEW n \in Nodes
    PROVE  Resumed(c, n) \in Row /\ Parked(Resumed(c, n)) /\ Carried(Resumed(c, n))
           /\ Resumed(c, n).context = c.context /\ Resumed(c, n).node = n
<1> DEFINE d == Resumed(c, n)
<1>1. d \in Row /\ d.status = "running" /\ d.node = n /\ d.context = c.context
  <2>1. n \in Nodes \cup {NoNode}
    OBVIOUS
  <2>2. QED BY <2>1, ResumedEdit
<1> HIDE DEF d
<1>2. Parked(d) /\ Carried(d)
  BY <1>1 DEF Parked, Carried
<1>3. QED BY <1>1, <1>2 DEF d

LEMMA SignalShape ==
    ASSUME Shape, (\E f \in Refs : Hear(f)) \/ SignalStep
    PROVE  Shape'
<1> USE DEF Shape
<1> DEFINE w == actor[Webhook]
           k == Copy(Webhook)
<1>1. Webhook \in Actors
  BY DEF Actors
<1>2. ASSUME NEW f \in Refs, Hear(f) PROVE Shape'
  <2> DEFINE waiting == {r \in Runs : run[r].status = "waiting" /\ run[r].signal = "profile_installed"}
  <2>1. \A r \in waiting : Heard(run[r])
    BY DEF Heard
  <2>2. ActorOK([ListOf("signal", waiting) EXCEPT !.ref = f])
    BY <2>1, ListOfOK
  <2>3. signals' \subseteq Refs
    BY <1>2 DEF Hear, RestOK
  <2>4. actor' = actor \/ actor' = [actor EXCEPT ![Webhook] = [ListOf("signal", waiting) EXCEPT !.ref = f]]
    BY <1>2 DEF Hear
  <2> HIDE DEF waiting
  <2>5. ActorsOK'
    BY <1>1, <2>2, <2>4, OneActor DEF ActorsOK
  <2>6. QED BY <1>2, <2>3, <2>5 DEF Hear, RunsOK, RestOK
<1>3. ASSUME NEW r \in Runs, Record(r) PROVE Shape'
  <2> DEFINE c == w.copies[r]
             S == c.context.satisfied \cup run[r].context.satisfied \cup {w.ref}
             d == [c EXCEPT !.context.satisfied = S]
  <2>1. w.cur = NoRun /\ c \in Row /\ Parked(c) /\ Heard(c) /\ c.status = "waiting"
    BY <1>1, <1>3, TurnFacts DEF Record
  <2>2. CASE w.ref \notin c.context.expected
    <3>1. ActorOK(Through(Webhook, r))
      BY <1>1, <2>1, ThroughOK
    <3>2. QED BY <1>1, <1>3, <2>2, <3>1, OneActorMoves DEF Record
  <2>3. CASE w.ref \in c.context.expected
    <3>1. S \subseteq Refs /\ c.context \in Context
      BY <2>1, <2>3 DEF Row, Context, RunsOK
    <3>2. actor' = [actor EXCEPT ![Webhook] = Holding(Webhook, r, "recorded",
                      [c EXCEPT !.context.satisfied = @ \cup run[r].context.satisfied \cup {w.ref}])]
      BY <1>3, <2>3 DEF Record
    <3>3. [c EXCEPT !.context.satisfied = @ \cup run[r].context.satisfied \cup {w.ref}] = d
      BY <2>1, <3>1 DEF Row, Context
    <3>4. d = [c EXCEPT !.context = [c.context EXCEPT !.satisfied = S]]
      BY <2>1, <3>1 DEF Row
    <3>5. [c.context EXCEPT !.satisfied = S] \in Context
      BY <3>1, ContextEdits
    <3>6. d \in Row /\ d.status = c.status /\ d.node = c.node /\ d.signal = c.signal
      BY <2>1, <3>4, <3>5 DEF Row
    <3>7. Parked(d) /\ Heard(d) /\ d.status = "waiting"
      BY <2>1, <3>6 DEF Parked, Heard
    <3>8. ActorOK(Holding(Webhook, r, "recorded", d))
      <4> HIDE DEF d, c, w
      <4>1. QED BY <1>1, <2>1, <3>6, <3>7, HoldingOK DEF w
    <3>9. QED BY <1>1, <1>3, <3>2, <3>3, <3>8, OneActorMoves DEF Record
  <2>4. QED BY <2>2, <2>3
<1>4. CASE SavePartial
  <2>1. w.cur \in Runs /\ k \in Row
    BY <1>1, <1>4, CopyFacts DEF SavePartial
  <2>2. RunsOK'
    BY <1>4, <2>1, ContextSavedOK DEF SavePartial
  <2>3. ActorsOK'
    BY <1>1, <1>4, <2>1, ThroughOK, OneActor DEF SavePartial
  <2>4. QED BY <1>4, <2>2, <2>3 DEF SavePartial, RestOK
<1>5. CASE ClaimForSignal
  <2> DEFINE r == w.cur
  <2>1. r \in Runs /\ k \in Row /\ Parked(k) /\ Heard(k) /\ k.status = "waiting"
    BY <1>1, <1>5, CopyFacts DEF ClaimForSignal
  <2>2. CASE ~Claimable(r)
    <3>1. ActorOK(Through(Webhook, r))
      BY <1>1, <2>1, ThroughOK
    <3>2. QED BY <1>1, <1>5, <2>2, <3>1, OneActorMoves DEF ClaimForSignal
  <2>3. CASE Claimable(r) /\ k.context.flow
    <3>1. After[k.node] \in Nodes
      BY <2>1, Consts DEF Parked, Heard
    <3>2. Consumed(k) \in Row
      BY <2>1, RowEdits, Consts
    <3> DEFINE d == Resumed(Consumed(k), After[k.node])
    <3>3. d \in Row /\ Parked(d) /\ Carried(d)
      BY <3>1, <3>2, ResumedOK
    <3>4. run' = Claimed(r) /\ actor' = [actor EXCEPT ![Webhook] = Holding(Webhook, r, "advance", d)]
          /\ UNCHANGED <<deployed, signals, asked, release, troubles>>
      BY <1>5, <2>3 DEF ClaimForSignal
    <3> HIDE DEF d
    <3>5. QED BY <1>1, <2>1, <3>3, <3>4, ClaimedAndHeld
  <2>4. CASE Claimable(r) /\ ~k.context.flow
    <3>1. run' = Claimed(r) /\ actor' = [actor EXCEPT ![Webhook] = Holding(Webhook, r, "fail", k)]
          /\ UNCHANGED <<deployed, signals, asked, release, troubles>>
      BY <1>5, <2>4 DEF ClaimForSignal
    <3>2. QED BY <1>1, <2>1, <3>1, ClaimedAndHeld
  <2>5. QED BY <2>2, <2>3, <2>4
<1>6. QED BY <1>2, <1>3, <1>4, <1>5 DEF SignalStep

LEMMA SweepShape ==
    ASSUME Shape, BeginSweep \/ SweepStep
    PROVE  Shape'
<1> USE DEF Shape
<1> DEFINE w == actor[Sweeper]
<1>1. Sweeper \in Actors
  BY DEF Actors
<1>2. CASE BeginSweep
  <2>1. Overdue \subseteq Runs /\ \A r \in Overdue : Swept(run[r])
    BY DEF Overdue, Swept
  <2>2. ActorOK(ListOf("sweep", Overdue))
    BY <2>1, ListOfOK
  <2>3. QED BY <1>1, <1>2, <2>2, OneActorMoves DEF BeginSweep
<1>3. ASSUME NEW r \in Runs, ClaimForTimeout(r) PROVE Shape'
  <2> DEFINE c == w.copies[r]
             missing == ~(c.context.expected \subseteq c.context.satisfied)
             e == [c EXCEPT !.context.gaps = @ \/ missing]
             d == Resumed(Consumed(e), OnTimeout[c.node])
  <2>1. /\ w.cur = NoRun /\ c \in Row /\ Parked(c) /\ c.status = "waiting"
        /\ c.signal # "manual"
    BY <1>1, <1>3, TurnFacts DEF ClaimForTimeout
  <2>2. CASE ~Claimable(r)
    <3>1. ActorOK(Through(Sweeper, r))
      BY <1>1, <2>1, ThroughOK
    <3>2. QED BY <1>1, <1>3, <2>2, <3>1, OneActorMoves DEF ClaimForTimeout
  <2>3. CASE Claimable(r) /\ c.context.flow /\ OnTimeout[c.node] # NoNode
    <3>1. OnTimeout[c.node] \in Nodes
      BY <2>1, <2>3, Consts DEF Parked
    <3>2. e = [c EXCEPT !.context = [c.context EXCEPT !.gaps = c.context.gaps \/ missing]]
      BY <2>1 DEF Row, Context
    <3>3. [c.context EXCEPT !.gaps = c.context.gaps \/ missing] \in Context
      BY <2>1 DEF Row, Context
    <3>4. e \in Row
      BY <2>1, <3>2, <3>3 DEF Row
    <3> HIDE DEF e
    <3>5. d \in Row /\ Parked(d) /\ Carried(d)
      BY <3>1, <3>4, RowEdits, ResumedOK
    <3>6. run' = Claimed(r) /\ actor' = [actor EXCEPT ![Sweeper] = Holding(Sweeper, r, "advance", d)]
          /\ UNCHANGED <<deployed, signals, asked, release, troubles>>
      BY <1>3, <2>3 DEF ClaimForTimeout, e
    <3> HIDE DEF d
    <3>7. QED BY <1>1, <2>1, <3>5, <3>6, ClaimedAndHeld
  <2>4. CASE Claimable(r) /\ ~(c.context.flow /\ OnTimeout[c.node] # NoNode)
    <3>1. run' = Claimed(r) /\ actor' = [actor EXCEPT ![Sweeper] = Holding(Sweeper, r, "fail", c)]
          /\ UNCHANGED <<deployed, signals, asked, release, troubles>>
      BY <1>3, <2>4 DEF ClaimForTimeout
    <3>2. QED BY <1>1, <2>1, <3>1, ClaimedAndHeld
  <2>5. QED BY <2>2, <2>3, <2>4
<1>4. ASSUME NEW r \in Runs, ClaimForRung(r) PROVE Shape'
  <2> DEFINE c == w.copies[r]
             d == Resumed(c, c.node)
  <2>1. /\ w.cur = NoRun /\ c \in Row /\ Parked(c) /\ c.status = "waiting"
    BY <1>1, <1>4, TurnFacts DEF ClaimForRung
  <2>2. CASE ~ClaimableForRung(r)
    <3>1. ActorOK(Through(Sweeper, r))
      BY <1>1, <2>1, ThroughOK
    <3>2. QED BY <1>1, <1>4, <2>2, <3>1, OneActorMoves DEF ClaimForRung
  <2>3. CASE ClaimableForRung(r)
    <3>1. d \in Row /\ Parked(d) /\ Carried(d) /\ d.context = c.context
      BY <2>1, ResumedOK DEF Parked
    <3>2. PICK pc \in {"escalate", "fail"} :
            /\ pc = "escalate" => RungsLeft(c)
            /\ run' = Claimed(r)
            /\ actor' = [actor EXCEPT ![Sweeper] = Holding(Sweeper, r, pc, d)]
            /\ UNCHANGED <<deployed, signals, asked, release, troubles>>
      BY <1>4, <2>3 DEF ClaimForRung
    <3>3. pc = "escalate" => d.context.rung < Rungs
      BY <3>1, <3>2 DEF RungsLeft
    <3> HIDE DEF d, c
    <3>4. QED BY <1>1, <2>1, <3>1, <3>2, <3>3, ClaimedAndHeld
  <2>4. QED BY <2>2, <2>3
<1>5. CASE Escalate
  <2> DEFINE c == Copy(Sweeper)
             x == [c.context EXCEPT !.rung = @ + 1]
             d == [c EXCEPT !.status = "waiting", !.signal = "manual", !.deadline = "ahead",
                            !.context = x]
  <2>1. /\ w.cur \in Runs /\ c \in Row /\ c.context \in Context /\ c.node \in Nodes
        /\ c.context.rung < Rungs
    BY <1>1, <1>5, CopyFacts DEF Escalate, Carried, Row
  <2>2. x \in Context
    BY <2>1, ContextEdits
  <2>3. [c EXCEPT !.status = "waiting", !.signal = "manual", !.deadline = "ahead",
                  !.context.rung = @ + 1] = d
    BY <2>1 DEF Row, Context
  <2>4. run' = Saved(w.cur, d)
    <3>1. run' = Saved(w.cur, [c EXCEPT !.status = "waiting", !.signal = "manual",
                                        !.deadline = "ahead", !.context.rung = @ + 1])
      BY <1>5 DEF Escalate
    <3>2. QED BY <2>3, <3>1
  <2> HIDE DEF x, c
  <2>5. d \in Row /\ d.status = "waiting" /\ d.signal = "manual" /\ d.node = c.node
    BY <2>1, <2>2 DEF Row, ActiveStates
  <2>6. Parked(d)
    BY <2>1, <2>5 DEF Parked
  <2> HIDE DEF d
  <2>7. QED BY <1>1, <1>5, <2>1, <2>4, <2>5, <2>6, SavedAndThrough DEF Escalate
<1>6. QED BY <1>2, <1>3, <1>4, <1>5 DEF SweepStep

LEMMA DecisionShape ==
    ASSUME Shape, NEW a \in Admins, NEW r \in Runs, BeginDecision(a, r) \/ ClaimForDecision(a, r)
    PROVE  Shape'
<1> USE DEF Shape
<1>1. a \in Actors
  BY DEF Actors
<1>2. CASE BeginDecision(a, r)
  <2>1. run[r].node \in Nodes
    BY <1>2 DEF BeginDecision, AtGate, RunsOK, Parked
  <2>2. ActorOK(ListOf("dismiss", {r}))
    BY ListOfOK
  <2>3. ASSUME NEW n \in Choices[run[r].node],
               actor' = [actor EXCEPT ![a] = [ListOf("decide", {r}) EXCEPT !.edge = n]]
        PROVE  Shape'
    <3>1. n \in Nodes
      BY <2>1, Consts
    <3>2. ActorOK([ListOf("decide", {r}) EXCEPT !.edge = n])
      BY <3>1, ListForDecisionOK
    <3>3. QED BY <1>1, <1>2, <2>3, <3>2, OneActorMoves DEF BeginDecision
  <2>4. CASE actor' = [actor EXCEPT ![a] = ListOf("dismiss", {r})]
    BY <1>1, <1>2, <2>2, <2>4, OneActorMoves DEF BeginDecision
  <2>5. QED BY <1>2, <2>3, <2>4 DEF BeginDecision
<1>3. CASE ClaimForDecision(a, r)
  <2> DEFINE c == actor[a].copies[r]
  <2>1. PICK job \in {"decide", "dismiss"} : Turn(a, job, r)
    BY <1>3 DEF ClaimForDecision
  <2>2. actor[a].job = job /\ actor[a].cur = NoRun /\ c \in Row
        /\ (job = "decide" => actor[a].edge \in Nodes)
    BY <1>1, <2>1, TurnFacts DEF Turn
  <2>3. CASE ~AtGate(r)
    <3>1. ActorOK(Through(a, r))
      BY <1>1, <2>2, ThroughOK
    <3>2. QED BY <1>1, <1>3, <2>3, <3>1, OneActorMoves DEF ClaimForDecision
  <2>4. CASE AtGate(r) /\ job = "decide"
    <3> DEFINE d == Resumed(c, actor[a].edge)
    <3>1. d \in Row /\ Parked(d) /\ Carried(d)
      BY <2>2, <2>4, ResumedOK
    <3>2. run' = Claimed(r) /\ actor' = [actor EXCEPT ![a] = Holding(a, r, "advance", d)]
          /\ UNCHANGED <<deployed, signals, asked, release, troubles>>
      BY <1>3, <2>2, <2>4 DEF ClaimForDecision
    <3> HIDE DEF d
    <3>3. QED BY <1>1, <2>2, <3>1, <3>2, ClaimedAndHeld
  <2>5. CASE AtGate(r) /\ job = "dismiss"
    <3> DEFINE d == Resumed(c, c.node)
    <3>1. d \in Row /\ d.status = "running"
      <4>1. c.node \in Nodes \cup {NoNode}
        BY <2>2 DEF Row
      <4>2. QED BY <2>2, <4>1, ResumedEdit
    <3>2. Parked(d)
      BY <3>1 DEF Parked
    <3>3. run' = Claimed(r) /\ actor' = [actor EXCEPT ![a] = Holding(a, r, "fail", d)]
          /\ UNCHANGED <<deployed, signals, asked, release, troubles>>
      BY <1>3, <2>2, <2>5 DEF ClaimForDecision
    <3> HIDE DEF d
    <3>4. QED BY <1>1, <2>2, <3>1, <3>2, <3>3, ClaimedAndHeld
  <2>6. QED BY <2>3, <2>4, <2>5
<1>4. QED BY <1>2, <1>3

LEMMA NextShape == Shape /\ [Next]_vars => Shape'
<1>1. SUFFICES ASSUME Shape, [Next]_vars PROVE Shape'
  OBVIOUS
<1>2. CASE UNCHANGED vars
  BY <1>1, <1>2 DEF vars, Shape, RunsOK, ActorsOK, RestOK
<1>3. ASSUME NEW f \in Refs, DeviceInstalls(f) \/ Hear(f) PROVE Shape'
  BY <1>1, <1>3, WorldShape, SignalShape
<1>4. ASSUME NEW r \in Runs, Expires(r) \/ FailOrphan(r) PROVE Shape'
  BY <1>1, <1>4, WorldShape
<1>5. CASE Tick
  BY <1>1, <1>5, WorldShape
<1>6. ASSUME NEW p \in {{Webhook}, {Sweeper}, Admins}, Stop(p) PROVE Shape'
  BY <1>1, <1>6, WorldShape
<1>7. ASSUME NEW a \in Actors, BeginIfNone(a) \/ BeginAnew(a) \/ Work(a) PROVE Shape'
  BY <1>1, <1>7, StartShape, AdvanceShape DEF Work
<1>8. CASE SignalStep
  BY <1>1, <1>8, SignalShape
<1>9. CASE SweepStep \/ BeginSweep
  BY <1>1, <1>9, SweepShape
<1>10. ASSUME NEW a \in Admins, NEW r \in Runs, BeginDecision(a, r) \/ ClaimForDecision(a, r)
       PROVE  Shape'
  BY <1>1, <1>10, DecisionShape
<1>11. QED BY <1>1, <1>2, <1>3, <1>4, <1>5, <1>6, <1>7, <1>8, <1>9, <1>10 DEF Next

LEMMA ShapeAlways == Spec => []Shape
BY InitShape, NextShape, PTL DEF Spec

\* Rows, callers and the copies they hold keep their shapes, for any flow.
THEOREM TypeCorrect == Spec => []TypeOK
BY ShapeAlways, ShapeIsTyped, PTL

-----------------------------------------------------------------------------
(* One caller at a time carries a run through the flow.  Whoever does took it from *)
(* a waiting row, or created it: nobody else had it, and until that caller is done *)
(* nobody else can claim it.                                                       *)

Closed == {"absent", "waiting", "completed"}
Hands  == {"advance", "park", "escalate", "fail"}
Over(r) == run[r].status = "waiting" /\ run[r].deadline = "over"

\* A run somebody carries is not there to be claimed, and is carried by one.
Carriers ==
    \A r \in Runs, a \in Actors : Advancing(a, r) =>
       run[r].status \notin Closed /\ \A b \in Actors : Advancing(b, r) => a = b

\* When a row's deadline is over, nobody holds a copy from another node.
Pinned ==
    \A r \in Runs, a \in Actors :
       Over(r) /\ r \in Listed(a) => actor[a].copies[r].node = run[r].node

Others(a) == \A b \in Actors : b # a => actor'[b] = actor[b]

\* What one caller's step does: nobody else changes, it gets hold of no run but one
\* that was there to be claimed, and a row changes its status only in the hands of
\* that caller or from a status in which the run is not over.
Orderly(a) ==
    /\ Others(a)
    /\ \A r \in Runs : Advancing(a, r)' =>
          \/ Advancing(a, r) /\ (run'[r].status = run[r].status \/ run'[r].status \notin Closed)
          \/ run[r].status \in Closed /\ run'[r].status \notin Closed
    /\ \A r \in Runs :
          \/ run'[r].status = run[r].status
          \/ Advancing(a, r)
          \/ run[r].status \in {"absent", "running", "waiting"} /\ run'[r].status \notin Closed

\* It leaves an overdue row at its node, and holds no other copy of it than before,
\* unless of the row as it is, or of a run it carries.
Pinning(a) ==
    \A r \in Runs : Over(r)' =>
       /\ Over(r) /\ run'[r].node = run[r].node
       /\ r \in Listed(a)' =>
             \/ actor'[a].copies[r].node = run'[r].node
             \/ r \in Listed(a) /\ actor'[a].copies[r].node = actor[a].copies[r].node
             \/ Advancing(a, r)'

LEMMA OrderlyKeeps ==
    ASSUME Carriers, NEW a \in Actors, Orderly(a)
    PROVE  /\ Carriers'
           /\ \A r \in Runs : run[r].status = "completed" => run'[r].status = "completed"
<1>1. ASSUME NEW r \in Runs, NEW b \in Actors, Advancing(b, r)', b # a
      PROVE  Advancing(b, r)
  BY <1>1 DEF Orderly, Others, Advancing
<1>2. ASSUME NEW r \in Runs, NEW b \in Actors, Advancing(b, r)' PROVE run'[r].status \notin Closed
  <2>1. CASE b = a
    BY <1>2, <2>1 DEF Orderly, Carriers
  <2>2. CASE b # a
    <3>1. Advancing(b, r) /\ run[r].status \notin Closed /\ ~Advancing(a, r)
      BY <1>1, <1>2, <2>2 DEF Carriers
    <3>2. QED BY <3>1 DEF Orderly
  <2>3. QED BY <2>1, <2>2
<1>3. ASSUME NEW r \in Runs, NEW b \in Actors, NEW c \in Actors,
             Advancing(b, r)', Advancing(c, r)'
      PROVE  b = c
  <2>1. CASE b # a /\ c # a
    BY <1>1, <1>3, <2>1 DEF Carriers
  <2>2. CASE b = a /\ c # a
    <3>1. Advancing(c, r) /\ run[r].status \notin Closed
      BY <1>1, <1>3, <2>2 DEF Carriers
    <3>2. Advancing(a, r)
      BY <1>3, <2>2, <3>1 DEF Orderly
    <3>3. QED BY <2>2, <3>1, <3>2 DEF Carriers
  <2>3. CASE b # a /\ c = a
    <3>1. Advancing(b, r) /\ run[r].status \notin Closed
      BY <1>1, <1>3, <2>3 DEF Carriers
    <3>2. Advancing(a, r)
      BY <1>3, <2>3, <3>1 DEF Orderly
    <3>3. QED BY <2>3, <3>1, <3>2 DEF Carriers
  <2>4. QED BY <2>1, <2>2, <2>3
<1>4. Carriers'
  BY <1>2, <1>3 DEF Carriers
<1>5. ASSUME NEW r \in Runs, run[r].status = "completed" PROVE run'[r].status = "completed"
  <2>1. ~Advancing(a, r)
    BY <1>5 DEF Carriers, Closed
  <2>2. QED BY <1>5, <2>1 DEF Orderly
<1>6. QED BY <1>4, <1>5

LEMMA PinningKeeps ==
    ASSUME Pinned, Carriers', NEW a \in Actors, Orderly(a), Pinning(a)
    PROVE  Pinned'
<1>1. SUFFICES ASSUME NEW r \in Runs, NEW b \in Actors, Over(r)', r \in Listed(b)'
               PROVE  actor'[b].copies[r].node = run'[r].node
  BY DEF Pinned
<1>2. Over(r) /\ run'[r].node = run[r].node
  BY <1>1 DEF Pinning
<1>3. CASE b # a
  BY <1>1, <1>2, <1>3 DEF Pinned, Orderly, Others, Listed
<1>4. CASE b = a
  <2>1. ~Advancing(a, r)'
    BY <1>1 DEF Carriers, Over, Closed
  <2>2. QED BY <1>1, <1>2, <1>4, <2>1 DEF Pinning, Pinned
<1>5. QED BY <1>3, <1>4

-----------------------------------------------------------------------------
(* Every step but two is orderly: a process that stops changes several callers, and *)
(* a deadline that passes makes a row overdue.                                      *)

LEMMA ThroughFacts ==
    ASSUME ActorsOK, NEW a \in Actors, NEW r \in Runs
    PROVE  /\ Through(a, r).pc \notin Hands
           /\ \A q \in Runs : Through(a, r).copies[q].status # "absent" =>
                              Through(a, r).copies[q] = actor[a].copies[q]
<1> DEFINE rest == [actor[a].copies EXCEPT ![r] = AbsentRow]
<1>1. actor[a] \in Actor
  BY DEF ActorsOK
<1>2. \A q \in Runs : rest[q] = AbsentRow \/ rest[q] = actor[a].copies[q]
  BY <1>1 DEF Actor
<1>3. CASE Through(a, r) = IdleActor
  BY <1>3, AbsentRowType DEF IdleActor, Hands
<1>4. CASE Through(a, r) # IdleActor
  <2>1. Through(a, r) = [actor[a] EXCEPT !.pc = "next", !.cur = NoRun, !.copies = rest]
    BY <1>4 DEF Through
  <2> HIDE DEF rest
  <2>2. Through(a, r).pc = "next" /\ Through(a, r).copies = rest
    BY <1>1, <2>1 DEF Actor
  <2>3. QED BY <1>2, <2>2, AbsentRowType DEF Hands
<1>5. QED BY <1>3, <1>4

LEMMA HoldingFacts ==
    ASSUME ActorsOK, NEW a \in Actors, NEW r \in Runs, NEW pc, NEW c
    PROVE  /\ Holding(a, r, pc, c).pc = pc /\ Holding(a, r, pc, c).cur = r
           /\ \A q \in Runs : Holding(a, r, pc, c).copies[q] = IF q = r THEN c ELSE actor[a].copies[q]
BY DEF Holding, ActorsOK, Actor

\* The rows keep their places, and the caller carries nothing.
LEMMA TurnsAway ==
    ASSUME NEW a \in Actors, Others(a), actor'[a].pc \notin Hands,
           \A q \in Runs : actor'[a].copies[q].status # "absent" =>
              \/ actor'[a].copies[q].node = run[q].node
              \/ /\ actor[a].copies[q].status # "absent"
                 /\ actor'[a].copies[q].node = actor[a].copies[q].node,
           \A q \in Runs :
              /\ run'[q].status = run[q].status /\ run'[q].node = run[q].node
              /\ run'[q].deadline = run[q].deadline
    PROVE  Orderly(a) /\ Pinning(a)
<1>1. \A r \in Runs : ~Advancing(a, r)'
  BY DEF Advancing, Hands
<1>2. Orderly(a)
  BY <1>1 DEF Orderly, Others
<1>3. Pinning(a)
  BY DEF Pinning, Over, Listed
<1>4. QED BY <1>2, <1>3

\* The caller goes on with the run it carries.
LEMMA GoesOn ==
    ASSUME NEW a \in Actors, ActorsOK, actor[a].cur \in Runs, actor[a].pc \in Hands,
           NEW pc, NEW c, actor' = [actor EXCEPT ![a] = Holding(a, actor[a].cur, pc, c)],
           pc \in Hands, UNCHANGED run
    PROVE  Orderly(a) /\ Pinning(a)
<1> DEFINE w == Holding(a, actor[a].cur, pc, c)
<1>1. actor'[a] = w /\ Others(a)
  BY DEF ActorsOK, Others
<1>2. w.pc = pc /\ w.cur = actor[a].cur
      /\ \A q \in Runs : q # actor[a].cur => w.copies[q] = actor[a].copies[q]
  BY HoldingFacts
<1> HIDE DEF w
<1>3. \A r \in Runs : (Advancing(a, r) <=> r = actor[a].cur) /\ (Advancing(a, r)' <=> r = actor[a].cur)
  BY <1>1, <1>2 DEF Advancing, Hands
<1>4. Orderly(a)
  BY <1>1, <1>3 DEF Orderly
<1>5. Pinning(a)
  BY <1>1, <1>2, <1>3 DEF Pinning, Over, Listed
<1>6. QED BY <1>4, <1>5

\* The caller saves the run it carries, and is done with it.
LEMMA SavesIt ==
    ASSUME NEW a \in Actors, ActorsOK, RunsOK, actor[a].cur \in Runs, actor[a].pc \in Hands,
           NEW c \in Row, ~(c.status = "waiting" /\ c.deadline = "over"),
           run' = Saved(actor[a].cur, c),
           actor' = [actor EXCEPT ![a] = Through(a, actor[a].cur)]
    PROVE  Orderly(a) /\ Pinning(a)
<1> DEFINE w == Through(a, actor[a].cur)
<1>1. actor'[a] = w /\ Others(a)
  BY DEF ActorsOK, Others
<1>2. w.pc \notin Hands
      /\ \A q \in Runs : w.copies[q].status # "absent" => w.copies[q] = actor[a].copies[q]
  BY ThroughFacts
<1> HIDE DEF w
<1>3. \A q \in Runs : q # actor[a].cur => run'[q] = run[q]
  BY DEF Saved, RunsOK
<1>4. run'[actor[a].cur].status = c.status /\ run'[actor[a].cur].deadline = c.deadline
  BY DEF Saved, RunsOK, Row
<1>5. \A r \in Runs : ~Advancing(a, r)' /\ (Advancing(a, r) <=> r = actor[a].cur)
  BY <1>1, <1>2 DEF Advancing, Hands
<1>6. Orderly(a)
  BY <1>1, <1>3, <1>5 DEF Orderly
<1>7. \A r \in Runs : Over(r)' => r # actor[a].cur
  BY <1>4 DEF Over
<1>8. Pinning(a)
  BY <1>1, <1>2, <1>3, <1>7 DEF Pinning, Over, Listed
<1>9. QED BY <1>6, <1>8

\* A row that was nobody's becomes the caller's.
LEMMA TakesIt ==
    ASSUME NEW a \in Actors, NEW r \in Runs, Others(a), actor'[a].cur = r,
           \A q \in Runs : q # r => actor'[a].copies[q] = actor[a].copies[q],
           run[r].status \in {"absent", "waiting"}, run'[r].status = "running",
           \A q \in Runs : q # r => run'[q] = run[q]
    PROVE  Orderly(a) /\ Pinning(a)
<1>1. \A q \in Runs : Advancing(a, q)' => q = r
  BY DEF Advancing
<1>2. Orderly(a)
  BY <1>1 DEF Orderly, Others, Closed
<1>3. \A q \in Runs : Over(q)' => q # r
  BY DEF Over
<1>4. Pinning(a)
  BY <1>3 DEF Pinning, Over, Listed
<1>5. QED BY <1>2, <1>4

\* What a list returned by a query holds.
LEMMA ListOfFacts ==
    ASSUME NEW job, NEW matching
    PROVE  /\ ListOf(job, matching).pc = "next"
           /\ \A q \in Runs : ListOf(job, matching).copies[q].status # "absent" =>
                 ListOf(job, matching).copies[q] = run[q]
           /\ \A f : /\ [ListOf(job, matching) EXCEPT !.ref = f].pc = "next"
                     /\ [ListOf(job, matching) EXCEPT !.ref = f].copies = ListOf(job, matching).copies
           /\ \A n : /\ [ListOf(job, matching) EXCEPT !.edge = n].pc = "next"
                     /\ [ListOf(job, matching) EXCEPT !.edge = n].copies = ListOf(job, matching).copies
BY AbsentRowType DEF ListOf, IdleActor

\* The caller turns to a list just read.
LEMMA Lists ==
    ASSUME NEW a \in Actors, UNCHANGED run, Others(a), actor'[a].pc = "next",
           NEW job, NEW matching, actor'[a].copies = ListOf(job, matching).copies
    PROVE  Orderly(a) /\ Pinning(a)
<1>1. \A q \in Runs : actor'[a].copies[q].status # "absent" => actor'[a].copies[q] = run[q]
  BY ListOfFacts
<1>2. actor'[a].pc \notin Hands
  BY DEF Hands
<1>3. QED BY <1>1, <1>2, TurnsAway

\* The caller is through with a run it has not saved, or with everything.
LEMMA Passes ==
    ASSUME NEW a \in Actors, ActorsOK, NEW r \in Runs, UNCHANGED run,
           actor' = [actor EXCEPT ![a] = Through(a, r)]
    PROVE  Orderly(a) /\ Pinning(a)
<1>1. Others(a) /\ actor'[a] = Through(a, r)
  BY DEF Others, ActorsOK
<1>2. QED BY <1>1, ThroughFacts, TurnsAway

LEMMA Idles ==
    ASSUME NEW a \in Actors, ActorsOK, UNCHANGED run,
           actor' = actor \/ actor' = [actor EXCEPT ![a] = IdleActor]
    PROVE  Orderly(a) /\ Pinning(a)
<1>1. CASE actor' = actor
  BY <1>1 DEF Orderly, Others, Pinning, Advancing, Over, Listed
<1>2. CASE actor' = [actor EXCEPT ![a] = IdleActor]
  <2>1. Others(a) /\ actor'[a] = IdleActor
    BY <1>2 DEF Others, ActorsOK
  <2>2. IdleActor.pc \notin Hands /\ \A q \in Runs : IdleActor.copies[q].status = "absent"
    BY AbsentRowType DEF IdleActor, Hands
  <2>3. QED BY <2>1, <2>2, TurnsAway
<1>3. QED BY <1>1, <1>2

\* A waiting row that is claimed is the claimant's.
LEMMA Claims ==
    ASSUME NEW a \in Actors, ActorsOK, RunsOK, NEW r \in Runs, run[r].status = "waiting",
           NEW pc, NEW c, run' = Claimed(r), actor' = [actor EXCEPT ![a] = Holding(a, r, pc, c)]
    PROVE  Orderly(a) /\ Pinning(a)
<1>1. run'[r].status = "running" /\ \A q \in Runs : q # r => run'[q] = run[q]
  BY DEF Claimed, RunsOK, Row
<1>2. Others(a) /\ actor'[a] = Holding(a, r, pc, c)
  BY DEF Others, ActorsOK
<1>3. actor'[a].cur = r /\ \A q \in Runs : q # r => actor'[a].copies[q] = actor[a].copies[q]
  BY <1>2, HoldingFacts
<1>4. QED BY <1>1, <1>2, <1>3, TakesIt

LEMMA ContextSavedKeeps ==
    ASSUME RunsOK, NEW r, NEW c, run' = ContextSaved(r, c), NEW q \in Runs
    PROVE  /\ run'[q].status = run[q].status /\ run'[q].node = run[q].node
           /\ run'[q].deadline = run[q].deadline
<1>1. run'[q] = run[q] \/ run'[q] = [run[q] EXCEPT !.context = c.context, !.recent = TRUE]
  BY DEF ContextSaved, RunsOK
<1>2. QED BY <1>1 DEF RunsOK, Row

LEMMA StartOrderly ==
    ASSUME Shape, NEW a \in Actors,
           \/ BeginIfNone(a) \/ BeginAnew(a) \/ DropSnapshot(a) \/ Create(a)
           \/ \E r \in Runs : Cancel(a, r)
    PROVE  Orderly(a) /\ Pinning(a)
<1> USE DEF Shape
<1>1. CASE BeginIfNone(a) \/ BeginAnew(a)
  <2>1. PICK matching : actor' = [actor EXCEPT ![a] = ListOf("start", matching)]
    BY <1>1 DEF BeginIfNone, BeginAnew
  <2>2. UNCHANGED run /\ Others(a) /\ actor'[a] = ListOf("start", matching)
    BY <1>1, <2>1 DEF BeginIfNone, BeginAnew, Others, ActorsOK
  <2>3. QED BY <2>2, ListOfFacts, Lists
<1>2. CASE DropSnapshot(a)
  <2>1. actor[a].cur \in Runs
    BY <1>2, CopyFacts DEF DropSnapshot
  <2>2. Others(a) /\ actor'[a] = Through(a, actor[a].cur)
    BY <1>2 DEF DropSnapshot, Others, ActorsOK
  <2>3. \A q \in Runs :
           /\ run'[q].status = run[q].status /\ run'[q].node = run[q].node
           /\ run'[q].deadline = run[q].deadline
    BY <1>2, ContextSavedKeeps DEF DropSnapshot
  <2>4. actor'[a].pc \notin Hands
        /\ \A q \in Runs : actor'[a].copies[q].status # "absent" =>
                              actor'[a].copies[q] = actor[a].copies[q]
    BY <2>1, <2>2, ThroughFacts
  <2>5. QED BY <2>2, <2>3, <2>4, TurnsAway
<1>3. CASE Create(a)
  <2>1. CASE actor' = [actor EXCEPT ![a] = IdleActor] /\ UNCHANGED run
    BY <2>1, Idles
  <2>2. CASE ~(actor' = [actor EXCEPT ![a] = IdleActor] /\ UNCHANGED run)
    <3>1. PICK r \in Fresh :
            LET new == [AbsentRow EXCEPT !.status = "running", !.node = Start,
                                         !.context.flow = TRUE]
            IN  /\ run' = [run EXCEPT ![r] = new]
                /\ actor' = [actor EXCEPT ![a] =
                      [Holding(a, r, "advance", new) EXCEPT !.job = "run"]]
      BY <1>3, <2>2 DEF Create
    <3> DEFINE new == [AbsentRow EXCEPT !.status = "running", !.node = Start, !.context.flow = TRUE]
               h == Holding(a, r, "advance", new)
               w == [h EXCEPT !.job = "run"]
    <3>2. r \in Runs /\ run[r].status = "absent"
      BY DEF Fresh
    <3>3. new.status = "running"
      BY DEF AbsentRow
    <3>4. run' = [run EXCEPT ![r] = new] /\ actor' = [actor EXCEPT ![a] = w]
      BY <3>1
    <3> HIDE DEF new
    <3>5. h.cur = r /\ \A q \in Runs : q # r => h.copies[q] = actor[a].copies[q]
      BY <3>2, HoldingFacts
    <3>6. w.cur = h.cur /\ w.copies = h.copies
      BY DEF Holding, ActorsOK, Actor
    <3> HIDE DEF h, w
    <3>7. run'[r].status = "running" /\ \A q \in Runs : q # r => run'[q] = run[q]
      BY <3>2, <3>3, <3>4 DEF RunsOK
    <3>8. Others(a) /\ actor'[a] = w
      BY <3>4 DEF Others, ActorsOK
    <3>9. QED BY <3>2, <3>5, <3>6, <3>7, <3>8, TakesIt
  <2>3. QED BY <2>1, <2>2
<1>4. ASSUME NEW r \in Runs, Cancel(a, r) PROVE Orderly(a) /\ Pinning(a)
  <2>1. CASE ~Active(r)
    BY <1>4, <2>1, Passes DEF Cancel
  <2>2. CASE Active(r)
    <3> DEFINE c == actor[a].copies[r]
               d == [c EXCEPT !.context.flow = FALSE]
               h == Holding(a, r, "drop", d)
               t == Through(a, r)
    <3>1. Others(a) /\ (actor'[a] = h \/ actor'[a] = t)
      <4>1. actor' = [actor EXCEPT ![a] = h] \/ actor' = [actor EXCEPT ![a] = t]
        BY <1>4, <2>2 DEF Cancel
      <4>2. QED BY <4>1 DEF Others, ActorsOK
    <3>2. c \in Row /\ c.status # "absent"
      BY <1>4, TurnFacts DEF Cancel, Turn, Listed
    <3>3. d.status = c.status /\ d.node = c.node
      BY <3>2 DEF Row
    <3> HIDE DEF d
    <3>4. h.pc \notin Hands /\ \A q \in Runs : h.copies[q] = IF q = r THEN d ELSE actor[a].copies[q]
      BY HoldingFacts DEF Hands
    <3>5. t.pc \notin Hands
          /\ \A q \in Runs : t.copies[q].status # "absent" => t.copies[q] = actor[a].copies[q]
      BY ThroughFacts
    <3> HIDE DEF h, t
    <3>6. actor'[a].pc \notin Hands
          /\ \A q \in Runs : actor'[a].copies[q].status # "absent" =>
                /\ actor[a].copies[q].status # "absent"
                /\ actor'[a].copies[q].node = actor[a].copies[q].node
      BY <3>1, <3>2, <3>3, <3>4, <3>5
    <3>7. /\ run[r].status \in {"running", "waiting"} /\ run'[r].status = "cancelled"
          /\ \A q \in Runs : q # r => run'[q] = run[q]
      <4>1. run' = [run EXCEPT ![r].status = "cancelled", ![r].node = NoNode,
                               ![r].signal = "none", ![r].deadline = "none"]
        BY <1>4, <2>2 DEF Cancel
      <4>2. QED BY <2>2, <4>1 DEF Active, ActiveStates, RunsOK, Row
    <3>8. Orderly(a)
      <4>1. \A q \in Runs : ~Advancing(a, q)'
        BY <3>6 DEF Advancing, Hands
      <4>2. QED BY <3>1, <3>7, <4>1 DEF Orderly, Closed
    <3>9. Pinning(a)
      BY <3>6, <3>7 DEF Pinning, Over, Listed
    <3>10. QED BY <3>8, <3>9
  <2>3. QED BY <2>1, <2>2
<1>5. QED BY <1>1, <1>2, <1>3, <1>4

LEMMA AdvanceOrderly ==
    ASSUME Shape, NEW a \in Actors, Advance(a)
    PROVE  Orderly(a) /\ Pinning(a)
<1> USE DEF Shape
<1> DEFINE r == actor[a].cur
<1>1. actor[a].pc \in Hands /\ actor[a].pc \notin {"idle", "next"}
  BY DEF Advance, AtStart, AtInstall, PassWait, StopAtWait, StopAtGate, Park, AtRelease, AtEnd, Fail,
         Hands
<1>2. r \in Runs /\ Copy(a) \in Row
  BY <1>1, CopyFacts
<1>3. CASE AtStart(a) \/ AtInstall(a) \/ PassWait(a) \/ AtRelease(a)
  <2>1. PICK c : GoOn(a, c)
    BY <1>3 DEF AtStart, AtInstall, PassWait, AtRelease
  <2>2. UNCHANGED run
    BY <1>3 DEF AtStart, AtInstall, PassWait, AtRelease
  <2>3. QED BY <1>1, <1>2, <2>1, <2>2, GoesOn DEF GoOn, Hands
<1>4. CASE StopAtWait(a) \/ StopAtGate(a)
  <2>1. PICK pc \in {"park", "fail"} : actor' = [actor EXCEPT ![a].pc = pc]
    BY <1>4 DEF StopAtWait, StopAtGate
  <2>2. Holding(a, r, pc, Copy(a)) = [actor[a] EXCEPT !.pc = pc]
    BY <1>2 DEF Holding, Copy, ActorsOK, Actor
  <2>3. actor' = [actor EXCEPT ![a] = Holding(a, r, pc, Copy(a))] /\ UNCHANGED run
    BY <1>4, <2>1, <2>2 DEF ActorsOK, StopAtWait, StopAtGate
  <2>4. QED BY <1>1, <1>2, <2>1, <2>3, GoesOn DEF Hands
<1>5. CASE Park(a)
  <2> DEFINE parked == [Copy(a) EXCEPT !.status = "waiting", !.deadline = "ahead"]
             atGate == [parked EXCEPT !.signal = "manual", !.context.rung = 0]
             atWait == [parked EXCEPT !.signal = "profile_installed"]
  <2>1. run' = Saved(r, atGate) \/ run' = Saved(r, atWait)
    BY <1>5 DEF Park
  <2>2. parked \in Row /\ parked.deadline = "ahead"
    BY <1>2 DEF Row, ActiveStates
  <2> HIDE DEF parked
  <2>3. atWait \in Row /\ atWait.deadline = "ahead"
    BY <2>2 DEF Row
  <2>4. [parked.context EXCEPT !.rung = 0] \in Context
    BY <2>2, ContextEdits DEF Row
  <2>5. atGate = [parked EXCEPT !.signal = "manual",
                                !.context = [parked.context EXCEPT !.rung = 0]]
    BY <2>2 DEF Row
  <2>6. atGate \in Row /\ atGate.deadline = "ahead"
    BY <2>2, <2>4, <2>5 DEF Row
  <2> HIDE DEF atWait, atGate
  <2>7. actor' = [actor EXCEPT ![a] = Through(a, r)]
    BY <1>5 DEF Park
  <2>8. QED BY <1>1, <1>2, <2>1, <2>3, <2>6, <2>7, SavesIt
<1>6. CASE AtEnd(a) \/ Fail(a)
  <2>1. run' = Saved(r, Failed(Copy(a))) \/ run' = Saved(r, Completed(Copy(a)))
    BY <1>6 DEF AtEnd, Fail
  <2>2. actor' = [actor EXCEPT ![a] = Through(a, r)]
    BY <1>6 DEF AtEnd, Fail
  <2>3. QED BY <1>1, <1>2, <2>1, <2>2, EndEdits, SavesIt
<1>7. QED BY <1>3, <1>4, <1>5, <1>6 DEF Advance

LEMMA SignalOrderly ==
    ASSUME Shape, (\E f \in Refs : Hear(f)) \/ SignalStep
    PROVE  Orderly(Webhook) /\ Pinning(Webhook)
<1> USE DEF Shape
<1> DEFINE w == actor[Webhook]
           k == Copy(Webhook)
<1>1. Webhook \in Actors
  BY DEF Actors
<1>2. ASSUME NEW f \in Refs, Hear(f) PROVE Orderly(Webhook) /\ Pinning(Webhook)
  <2>1. CASE actor' = actor
    BY <1>1, <1>2, <2>1, Idles DEF Hear
  <2>2. CASE actor' # actor
    <3>1. PICK matching : actor' = [actor EXCEPT ![Webhook] =
                                      [ListOf("signal", matching) EXCEPT !.ref = f]]
      BY <1>2, <2>2 DEF Hear
    <3>2. Others(Webhook) /\ actor'[Webhook] = [ListOf("signal", matching) EXCEPT !.ref = f]
      BY <1>1, <3>1 DEF Others, ActorsOK
    <3>3. actor'[Webhook].pc = "next"
          /\ actor'[Webhook].copies = ListOf("signal", matching).copies
      BY <3>2, ListOfFacts
    <3>4. QED BY <1>1, <1>2, <3>2, <3>3, Lists DEF Hear
  <2>3. QED BY <2>1, <2>2
<1>3. ASSUME NEW r \in Runs, Record(r) PROVE Orderly(Webhook) /\ Pinning(Webhook)
  <2> DEFINE c == w.copies[r]
             d == [c EXCEPT !.context.satisfied = @ \cup run[r].context.satisfied \cup {w.ref}]
             h == Holding(Webhook, r, "recorded", d)
  <2>1. c \in Row /\ c.status # "absent"
    BY <1>1, <1>3, TurnFacts DEF Record, Turn, Listed
  <2>2. CASE w.ref \notin c.context.expected
    BY <1>1, <1>3, <2>2, Passes DEF Record
  <2>3. CASE w.ref \in c.context.expected
    <3>1. Others(Webhook) /\ actor'[Webhook] = h
      <4>1. actor' = [actor EXCEPT ![Webhook] = h]
        BY <1>3, <2>3 DEF Record
      <4>2. QED BY <1>1, <4>1 DEF Others, ActorsOK
    <3>2. d.node = c.node
      BY <2>1 DEF Row
    <3> HIDE DEF d
    <3>3. h.pc \notin Hands /\ \A q \in Runs : h.copies[q] = IF q = r THEN d ELSE w.copies[q]
      BY <1>1, HoldingFacts DEF Hands
    <3> HIDE DEF h
    <3>4. UNCHANGED run
      BY <1>3 DEF Record
    <3>5. actor'[Webhook].pc \notin Hands
          /\ \A q \in Runs : actor'[Webhook].copies[q].status # "absent" =>
                \/ actor'[Webhook].copies[q].node = run[q].node
                \/ /\ actor[Webhook].copies[q].status # "absent"
                   /\ actor'[Webhook].copies[q].node = actor[Webhook].copies[q].node
      BY <2>1, <3>1, <3>2, <3>3
    <3>6. QED BY <1>1, <3>1, <3>4, <3>5, TurnsAway
  <2>4. QED BY <2>2, <2>3
<1>4. CASE SavePartial
  <2>1. w.cur \in Runs
    BY <1>1, <1>4, CopyFacts DEF SavePartial
  <2>2. Others(Webhook) /\ actor'[Webhook] = Through(Webhook, w.cur)
    BY <1>1, <1>4 DEF SavePartial, Others, ActorsOK
  <2>3. \A q \in Runs :
           /\ run'[q].status = run[q].status /\ run'[q].node = run[q].node
           /\ run'[q].deadline = run[q].deadline
    BY <1>4, ContextSavedKeeps DEF SavePartial
  <2>4. actor'[Webhook].pc \notin Hands
        /\ \A q \in Runs : actor'[Webhook].copies[q].status # "absent" =>
                              actor'[Webhook].copies[q] = actor[Webhook].copies[q]
    BY <1>1, <2>1, <2>2, ThroughFacts
  <2>5. QED BY <1>1, <2>2, <2>3, <2>4, TurnsAway
<1>5. CASE ClaimForSignal
  <2>1. w.cur \in Runs
    BY <1>1, <1>5, CopyFacts DEF ClaimForSignal
  <2>2. CASE ~Claimable(w.cur)
    BY <1>1, <1>5, <2>1, <2>2, Passes DEF ClaimForSignal
  <2>3. CASE Claimable(w.cur)
    <3>1. PICK pc, c : actor' = [actor EXCEPT ![Webhook] = Holding(Webhook, w.cur, pc, c)]
      BY <1>5, <2>3 DEF ClaimForSignal
    <3>2. run' = Claimed(w.cur) /\ run[w.cur].status = "waiting"
      BY <1>5, <2>3 DEF ClaimForSignal, Claimable
    <3>3. QED BY <1>1, <2>1, <3>1, <3>2, Claims
  <2>4. QED BY <2>2, <2>3
<1>6. QED BY <1>2, <1>3, <1>4, <1>5 DEF SignalStep

LEMMA SweepOrderly ==
    ASSUME Shape, BeginSweep \/ SweepStep
    PROVE  Orderly(Sweeper) /\ Pinning(Sweeper)
<1> USE DEF Shape
<1>1. Sweeper \in Actors
  BY DEF Actors
<1>2. CASE BeginSweep
  <2>1. UNCHANGED run /\ Others(Sweeper) /\ actor'[Sweeper] = ListOf("sweep", Overdue)
    BY <1>1, <1>2 DEF BeginSweep, Others, ActorsOK
  <2>2. QED BY <1>1, <2>1, ListOfFacts, Lists
<1>3. ASSUME NEW r \in Runs, ClaimForTimeout(r) PROVE Orderly(Sweeper) /\ Pinning(Sweeper)
  <2>1. CASE ~Claimable(r)
    BY <1>1, <1>3, <2>1, Passes DEF ClaimForTimeout
  <2>2. CASE Claimable(r)
    <3>1. PICK pc, c : actor' = [actor EXCEPT ![Sweeper] = Holding(Sweeper, r, pc, c)]
      BY <1>3, <2>2 DEF ClaimForTimeout
    <3>2. run' = Claimed(r) /\ run[r].status = "waiting"
      BY <1>3, <2>2 DEF ClaimForTimeout, Claimable
    <3>3. QED BY <1>1, <3>1, <3>2, Claims
  <2>3. QED BY <2>1, <2>2
<1>4. ASSUME NEW r \in Runs, ClaimForRung(r) PROVE Orderly(Sweeper) /\ Pinning(Sweeper)
  <2>1. CASE ~ClaimableForRung(r)
    BY <1>1, <1>4, <2>1, Passes DEF ClaimForRung
  <2>2. CASE ClaimableForRung(r)
    <3>1. PICK pc, c : actor' = [actor EXCEPT ![Sweeper] = Holding(Sweeper, r, pc, c)]
      BY <1>4, <2>2 DEF ClaimForRung
    <3>2. run' = Claimed(r) /\ run[r].status = "waiting"
      BY <1>4, <2>2 DEF ClaimForRung, ClaimableForRung, AtGate
    <3>3. QED BY <1>1, <3>1, <3>2, Claims
  <2>3. QED BY <2>1, <2>2
<1>5. CASE Escalate
  <2> DEFINE c == Copy(Sweeper)
             x == [c.context EXCEPT !.rung = @ + 1]
             d == [c EXCEPT !.status = "waiting", !.signal = "manual", !.deadline = "ahead",
                            !.context = x]
  <2>1. /\ actor[Sweeper].cur \in Runs /\ actor[Sweeper].pc \in Hands
        /\ c \in Row /\ c.context \in Context /\ c.context.rung < Rungs
    BY <1>1, <1>5, CopyFacts DEF Escalate, Row, Hands
  <2>2. x \in Context
    BY <2>1, ContextEdits
  <2>3. [c EXCEPT !.status = "waiting", !.signal = "manual", !.deadline = "ahead",
                  !.context.rung = @ + 1] = d
    BY <2>1 DEF Row, Context
  <2>4. run' = Saved(actor[Sweeper].cur, d)
    <3>1. run' = Saved(actor[Sweeper].cur,
                       [c EXCEPT !.status = "waiting", !.signal = "manual",
                                 !.deadline = "ahead", !.context.rung = @ + 1])
      BY <1>5 DEF Escalate
    <3>2. QED BY <2>3, <3>1
  <2> HIDE DEF x, c
  <2>5. d \in Row /\ d.deadline = "ahead"
    BY <2>1, <2>2 DEF Row, ActiveStates
  <2> HIDE DEF d
  <2>6. actor' = [actor EXCEPT ![Sweeper] = Through(Sweeper, actor[Sweeper].cur)]
    BY <1>5 DEF Escalate
  <2>7. QED BY <1>1, <2>1, <2>4, <2>5, <2>6, SavesIt
<1>6. QED BY <1>2, <1>3, <1>4, <1>5 DEF SweepStep

LEMMA DecisionOrderly ==
    ASSUME Shape, NEW a \in Admins, NEW r \in Runs, BeginDecision(a, r) \/ ClaimForDecision(a, r)
    PROVE  Orderly(a) /\ Pinning(a)
<1> USE DEF Shape
<1>1. a \in Actors
  BY DEF Actors
<1>2. CASE BeginDecision(a, r)
  <2>1. UNCHANGED run
    BY <1>2 DEF BeginDecision
  <2>2. ASSUME NEW n, actor' = [actor EXCEPT ![a] = [ListOf("decide", {r}) EXCEPT !.edge = n]]
        PROVE  Orderly(a) /\ Pinning(a)
    <3>1. Others(a) /\ actor'[a] = [ListOf("decide", {r}) EXCEPT !.edge = n]
      BY <1>1, <2>2 DEF Others, ActorsOK
    <3>2. actor'[a].pc = "next" /\ actor'[a].copies = ListOf("decide", {r}).copies
      BY <3>1, ListOfFacts
    <3>3. QED BY <1>1, <2>1, <3>1, <3>2, Lists
  <2>3. CASE actor' = [actor EXCEPT ![a] = ListOf("dismiss", {r})]
    <3>1. Others(a) /\ actor'[a] = ListOf("dismiss", {r})
      BY <1>1, <2>3 DEF Others, ActorsOK
    <3>2. QED BY <1>1, <2>1, <3>1, ListOfFacts, Lists
  <2>4. QED BY <1>2, <2>2, <2>3 DEF BeginDecision
<1>3. CASE ClaimForDecision(a, r)
  <2>1. CASE ~AtGate(r)
    BY <1>1, <1>3, <2>1, Passes DEF ClaimForDecision
  <2>2. CASE AtGate(r)
    <3>1. PICK pc, c : actor' = [actor EXCEPT ![a] = Holding(a, r, pc, c)]
      BY <1>3, <2>2 DEF ClaimForDecision
    <3>2. run' = Claimed(r) /\ run[r].status = "waiting"
      BY <1>3, <2>2 DEF ClaimForDecision, AtGate
    <3>3. QED BY <1>1, <3>1, <3>2, Claims
  <2>3. QED BY <2>1, <2>2
<1>4. QED BY <1>2, <1>3

\* What the device and the clock do, and the sweep of the orphans: no caller moves.
LEMMA WorldOrderly ==
    ASSUME Shape,
           (\E f \in Refs : DeviceInstalls(f)) \/ Tick \/ (\E r \in Runs : FailOrphan(r))
    PROVE  Orderly(Webhook) /\ Pinning(Webhook)
<1> USE DEF Shape
<1>1. Webhook \in Actors /\ actor' = actor
  BY DEF Actors, DeviceInstalls, Tick, FailOrphan
<1>2. CASE \E f \in Refs : DeviceInstalls(f)
  BY <1>1, <1>2, Idles DEF DeviceInstalls
<1>3. CASE Tick
  <2>1. \A q \in Runs :
           /\ run'[q].status = run[q].status /\ run'[q].node = run[q].node
           /\ run'[q].deadline = run[q].deadline
    BY <1>3 DEF Tick, RunsOK, Row
  <2>2. QED BY <1>1, <2>1 DEF Orderly, Others, Pinning, Advancing, Over, Listed
<1>4. ASSUME NEW r \in Runs, FailOrphan(r) PROVE Orderly(Webhook) /\ Pinning(Webhook)
  <2>1. run[r].status = "running"
    BY <1>4 DEF FailOrphan
  <2>2. run' = [run EXCEPT ![r].status = "failed", ![r].recent = TRUE, ![r].context.flow = FALSE]
    BY <1>4 DEF FailOrphan
  <2>3. run'[r].status = "failed" /\ \A q \in Runs : q # r => run'[q] = run[q]
    BY <2>2 DEF RunsOK, Row
  <2>4. Orderly(Webhook)
    BY <1>1, <2>1, <2>3 DEF Orderly, Others, Advancing, Closed
  <2>5. Pinning(Webhook)
    BY <1>1, <2>3 DEF Pinning, Over, Listed
  <2>6. QED BY <2>4, <2>5
<1>5. QED BY <1>2, <1>3, <1>4

-----------------------------------------------------------------------------
(* The invariant, and what follows *)

Safe == Shape /\ Carriers /\ Pinned

LEMMA StepIsOrderly ==
    ASSUME Shape, Next
    PROVE  \/ \E a \in Actors : Orderly(a) /\ Pinning(a)
           \/ \E p \in {{Webhook}, {Sweeper}, Admins} : Stop(p)
           \/ \E r \in Runs : Expires(r)
<1> DEFINE Goal == \E a \in Actors : Orderly(a) /\ Pinning(a)
<1>1. Webhook \in Actors /\ Sweeper \in Actors /\ Admins \subseteq Actors
  BY DEF Actors
<1>2. CASE (\E f \in Refs : DeviceInstalls(f)) \/ Tick \/ (\E r \in Runs : FailOrphan(r))
  BY <1>1, <1>2, WorldOrderly
<1>3. CASE (\E f \in Refs : Hear(f)) \/ SignalStep
  BY <1>1, <1>3, SignalOrderly
<1>4. CASE BeginSweep \/ SweepStep
  BY <1>1, <1>4, SweepOrderly
<1>5. ASSUME NEW a \in Actors, BeginIfNone(a) \/ BeginAnew(a) \/ Work(a) PROVE Goal
  BY <1>5, StartOrderly, AdvanceOrderly DEF Work
<1>6. ASSUME NEW a \in Admins, NEW r \in Runs, BeginDecision(a, r) \/ ClaimForDecision(a, r)
      PROVE  Goal
  BY <1>1, <1>6, DecisionOrderly
<1>7. QED BY <1>2, <1>3, <1>4, <1>5, <1>6 DEF Next

\* A caller that is stopped carries nothing and holds nothing.
LEMMA StopKeeps ==
    ASSUME Safe, NEW p, Stop(p)
    PROVE  Carriers' /\ Pinned' /\ UNCHANGED run
<1>1. UNCHANGED run
  BY DEF Stop
<1>2. \A a \in Actors : actor'[a] = IdleActor \/ actor'[a] = actor[a]
  BY DEF Stop
<1>3. IdleActor.pc \notin Hands /\ \A q \in Runs : IdleActor.copies[q].status = "absent"
  BY AbsentRowType DEF IdleActor, Hands
<1>4. \A a \in Actors, r \in Runs : Advancing(a, r)' => Advancing(a, r)
  BY <1>2, <1>3 DEF Advancing, Hands
<1>5. Carriers'
  BY <1>1, <1>4 DEF Safe, Carriers
<1>6. Pinned'
  BY <1>1, <1>2, <1>3 DEF Safe, Pinned, Over, Listed
<1>7. QED BY <1>1, <1>5, <1>6

LEMMA ExpiresKeeps ==
    ASSUME Safe, NEW r \in Runs, Expires(r)
    PROVE  Carriers' /\ Pinned' /\ \A q \in Runs : run'[q].status = run[q].status
<1>1. actor' = actor /\ run' = [run EXCEPT ![r].deadline = "over"]
  BY DEF Expires
<1>2. \A q \in Runs : run'[q].status = run[q].status /\ run'[q].node = run[q].node
  BY <1>1 DEF Safe, Shape, RunsOK, Row
<1>3. \A q \in Runs : q # r => run'[q] = run[q]
  BY <1>1 DEF Safe, Shape, RunsOK
<1>4. Carriers'
  BY <1>1, <1>2 DEF Safe, Carriers, Advancing
<1>5. ASSUME NEW q \in Runs, NEW a \in Actors, Over(q)', q \in Listed(a)'
      PROVE  actor'[a].copies[q].node = run'[q].node
  <2>1. CASE q = r
    BY <1>1, <1>2, <1>5, <2>1 DEF Expires, Listed
  <2>2. CASE q # r
    BY <1>1, <1>3, <1>5, <2>2 DEF Safe, Pinned, Over, Listed
  <2>3. QED BY <2>1, <2>2
<1>6. QED BY <1>2, <1>4, <1>5 DEF Pinned

LEMMA NextKeeps ==
    ASSUME Safe, Next
    PROVE  /\ Safe'
           /\ \A r \in Runs : run[r].status = "completed" => run'[r].status = "completed"
<1>1. Shape'
  BY NextShape DEF Safe
<1>2. CASE \E a \in Actors : Orderly(a) /\ Pinning(a)
  <2>1. PICK a \in Actors : Orderly(a) /\ Pinning(a)
    BY <1>2
  <2>2. Carriers' /\ \A r \in Runs : run[r].status = "completed" => run'[r].status = "completed"
    BY <2>1, OrderlyKeeps DEF Safe
  <2>3. Pinned'
    BY <2>1, <2>2, PinningKeeps DEF Safe
  <2>4. QED BY <1>1, <2>2, <2>3 DEF Safe
<1>3. CASE \E p \in {{Webhook}, {Sweeper}, Admins} : Stop(p)
  BY <1>1, <1>3, StopKeeps DEF Safe
<1>4. CASE \E r \in Runs : Expires(r)
  BY <1>1, <1>4, ExpiresKeeps DEF Safe
<1>5. QED BY <1>2, <1>3, <1>4, StepIsOrderly DEF Safe

LEMMA SafeAlways == Spec => []Safe
<1>1. Init => Safe
  <2>1. SUFFICES ASSUME Init PROVE Safe
    OBVIOUS
  <2>2. \A a \in Actors : actor[a] = IdleActor
    BY <2>1 DEF Init
  <2>3. IdleActor.pc = "idle" /\ \A q \in Runs : IdleActor.copies[q].status = "absent"
    BY AbsentRowType DEF IdleActor
  <2>4. Carriers
    BY <2>2, <2>3 DEF Carriers, Advancing
  <2>5. Pinned
    BY <2>2, <2>3 DEF Pinned, Listed
  <2>6. QED BY <2>1, <2>4, <2>5, InitShape DEF Safe
<1>2. Safe /\ [Next]_vars => Safe'
  <2>1. SUFFICES ASSUME Safe, [Next]_vars PROVE Safe'
    OBVIOUS
  <2>2. CASE Next
    BY <2>1, <2>2, NextKeeps
  <2>3. CASE UNCHANGED vars
    <3>1. Shape'
      BY <2>1, NextShape DEF Safe
    <3>2. QED BY <2>1, <2>3, <3>1 DEF vars, Safe, Carriers, Pinned, Advancing, Over, Listed
  <2>4. QED BY <2>1, <2>2, <2>3
<1>3. QED BY <1>1, <1>2, PTL DEF Spec

\* No run is advanced from two copies at a time, whatever the flow, however many
\* administrators decide at once, and wherever processes stop.
THEOREM OneAdvancerAlways == Spec => []OneAdvancer
<1>1. Safe => OneAdvancer
  BY DEF Safe, Carriers, OneAdvancer
<1>2. QED BY <1>1, SafeAlways, PTL

\* A run that completed stays completed: every claim, supersession and save finds it
\* closed, and whoever could still save it would be its one carrier.
THEOREM CompletedStaysAlways == Spec => CompletedStays
<1>1. Safe /\ [Next]_vars =>
         [\A r \in Runs : run[r].status = "completed" => run'[r].status = "completed"]_vars
  BY NextKeeps DEF vars
<1>2. QED BY <1>1, SafeAlways, PTL DEF Spec, CompletedStays

\* The sweep never escalates or fails a gate on the deadline of an earlier park.
THEOREM EscalationPinnedAlways == Spec => EscalationPinned
<1>1. Safe => [\A r \in Runs : ClaimForRung(r) /\ run' # run =>
                  run[r].node = actor[Sweeper].copies[r].node]_vars
  <2>1. SUFFICES ASSUME Safe, NEW r \in Runs, ClaimForRung(r), run' # run
                 PROVE  run[r].node = actor[Sweeper].copies[r].node
    OBVIOUS
  <2>2. Sweeper \in Actors
    BY DEF Actors
  <2>3. Over(r) /\ r \in Listed(Sweeper)
    BY <2>1 DEF ClaimForRung, ClaimableForRung, AtGate, Over, Turn
  <2>4. QED BY <2>1, <2>2, <2>3 DEF Safe, Pinned
<1>2. QED BY <1>1, SafeAlways, PTL DEF EscalationPinned

=============================================================================
