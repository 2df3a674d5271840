------------------------------ MODULE FlowChecks ------------------------------
(***************************************************************************)
(* What the validator says of a drawn flow (utils/yaml_flow_checks.py)     *)
(* against what the engine does with it (services/atc.py).  An author      *)
(* draws a flow node by node, with at most a few slips; a flow without     *)
(* errors is saved, and a run of it takes whatever way the device, the     *)
(* rollout and the clock leave it.                                         *)
(*                                                                         *)
(* FlowRun is about the callers of one run, and takes its flow as given.   *)
(* Here one caller takes every run of every small flow.                    *)
(***************************************************************************)
EXTENDS Naturals, FiniteSets

CONSTANTS
    Sizes,     \* how many nodes a flow may have; the first is the start, the last an end
    Palette,   \* the steps an author puts between them
    Ungateable,\* the kinds of step drawn with gate: false too
    Signals,   \* what a wait may be drawn to wait for
    Careful,   \* the sizes drawn without a slip, and without gate: false
    MaxSlips,  \* how many edges are missing, unknown or lead back (bound)
    MAX_NODES_PER_ADVANCE

None    == 0           \* no edge from this handle
Unknown == 100         \* an edge to a node id that is not in the flow

Steps == {"install_profiles", "wait_for", "branch", "release_device"}

ASSUME ConstantsAssumption ==
    /\ Sizes \subseteq 2..Unknown - 1 /\ Careful \subseteq Sizes
    /\ Palette \subseteq Steps /\ Ungateable \subseteq Palette
    /\ "profile_installed" \in Signals
    /\ {MaxSlips, MAX_NODES_PER_ADVANCE} \subseteq Nat

VARIABLES
    last,   \* the last node of the flow
    flow,   \* the flow document: the nodes drawn so far
    saved,  \* has it been saved without errors?
    run,    \* the run of it
    device, \* the profiles the device has installed, by the step that asked for them
    asked,  \* history: the gated install steps the run has been through
    blind   \* history: what it had asked for and knew nothing of when it released

vars == <<last, flow, saved, run, device, asked, blind>>

-----------------------------------------------------------------------------
(* The step catalog and the document *)

\* node_edges: the handles each type of node wires from.
Handles(type) == CASE type = "branch"   -> {"on_true", "on_false"}
                   [] type = "wait_for" -> {"next", "on_timeout"}
                   [] type = "end"      -> {}
                   [] OTHER             -> {"next"}

\* ... and those it cannot do without: a wait may fail its run at its deadline.
Required(type) == Handles(type) \ (IF type = "wait_for" THEN {"on_timeout"} ELSE {})

OfType(f, type) == {n \in DOMAIN f : f[n].type = type}

\* The waits for profiles; nothing here feeds a wait for another signal.
Barriers(f) == {n \in OfType(f, "wait_for") : f[n].signal = "profile_installed"}

\* gate: false, and nothing else, keeps a step from holding the flow up.
Gated(f, nodes) == {n \in nodes : f[n].gate}

-----------------------------------------------------------------------------
(* The checks: _flow_edges, _check_flow_graph *)

\* The adjacency map; an edge to nowhere is not in it.  (mutant) Only the way on is
\* followed, not on_timeout or on_false.
EdgesAhead(f) ==
    [n \in DOMAIN f |-> {f[n].edges[h] : h \in Handles(f[n].type) \ {"on_timeout", "on_false"}}
                           \cap DOMAIN f]
Edges(f) == [n \in DOMAIN f |-> {f[n].edges[h] : h \in Handles(f[n].type)} \cap DOMAIN f]

\* _reach_nodes: what can be walked to from roots without entering a blocked node.
Reach(edges, roots, blocked) ==
    LET within[k \in Nat] ==
            IF k = 0 THEN roots \ blocked
            ELSE LET near == within[k - 1] IN near \cup ((UNION {edges[n] : n \in near}) \ blocked)
    IN  within[Cardinality(DOMAIN edges)]

Live(f) == Reach(Edges(f), OfType(f, "start"), {})

\* A required handle without an edge, or an edge to an unknown node.
BadEdge(f) ==
    \E n \in DOMAIN f : \E h \in Handles(f[n].type) :
        f[n].edges[h] = Unknown \/ (f[n].edges[h] = None /\ h \in Required(f[n].type))

\* A cycle that a start reaches.
Cyclic(f) == \E n \in Live(f) : n \in Reach(Edges(f), Edges(f)[n], {})

\* No errors: the flow may be saved.  (mutant) Cycles are not looked for.
AcceptedCyclic(f) == ~BadEdge(f) /\ Live(f) \cap OfType(f, "end") # {}
Accepted(f) == ~BadEdge(f) /\ ~Cyclic(f) /\ Live(f) \cap OfType(f, "end") # {}

-----------------------------------------------------------------------------
(* The warnings: _warn_flow_semantics *)

LiveInstalls(f) == Gated(f, OfType(f, "install_profiles") \cap Live(f))

\* release-ordering: the releases some gated install reaches without passing a wait.
ReleaseOrdering(f) ==
    {r \in OfType(f, "release_device") : \E i \in LiveInstalls(f) :
        r \in Reach(Edges(f), Edges(f)[i], Barriers(f))}

\* The barriers some gated install reaches with its list still intact.  (mutant) The
\* wait looked at blocks the walk like the others.
FedThroughNone(f) ==
    {w \in Barriers(f) :
        w \in Reach(Edges(f), UNION {Edges(f)[i] : i \in LiveInstalls(f)}, Barriers(f))}
Fed(f) ==
    {w \in Barriers(f) :
        w \in Reach(Edges(f), UNION {Edges(f)[i] : i \in LiveInstalls(f)}, Barriers(f) \ {w})}

\* barrier-empty: a wait that holds nothing back on any run.
BarrierEmpty(f) == Gated(f, OfType(f, "wait_for") \cap Live(f)) \ Fed(f)

-----------------------------------------------------------------------------
(* Drawing and saving *)

\* A node of this type at position n: its edges lead forward, but for those in wrong.
\* (The two ways of a branch are told apart by nothing here, so one order is enough.)
Drawn(n, type, gate, signal, wrong) ==
    {[type |-> type, gate |-> gate, signal |-> signal, edges |-> e] :
        e \in {e \in [Handles(type) -> {None, Unknown} \cup 1..last] :
                 /\ \A h \in Handles(type) :
                       IF h \in wrong
                       THEN e[h] \in {None, Unknown} \cup 2..n
                       ELSE e[h] \in (n + 1)..last \/ (h \notin Required(type) /\ e[h] = None)
                 /\ type = "branch" /\ wrong = {} => e["on_true"] <= e["on_false"]}}

\* Positions whose edges do not all lead forward.
Slips(f) == {n \in DOMAIN f : \E h \in Required(f[n].type) : f[n].edges[h] \notin (n + 1)..last}

NewRun == [status |-> "running", at |-> 1, expected |-> {}, satisfied |-> {}, ungated |-> FALSE, gaps |-> {},
           unverified |-> FALSE, steps |-> 0]

Init ==
    /\ last \in Sizes
    /\ flow = [n \in {1} |-> [type |-> "start", gate |-> TRUE, signal |-> "profile_installed",
                           edges |-> [h \in {"next"} |-> 2]]]
    /\ saved = FALSE
    /\ run = NewRun
    /\ device = {} /\ asked = {} /\ blind = {}

\* The author draws the next node, the end last.
Draw ==
    /\ DOMAIN flow # 1..last
    /\ LET n == Cardinality(DOMAIN flow) + 1
       IN  \E type \in (IF n = last THEN {"end"} ELSE Palette),
              gate \in BOOLEAN, signal \in Signals, wrong \in SUBSET {"next", "on_false"} :
             /\ gate \/ (type \in Ungateable /\ last \notin Careful)
             /\ type = "wait_for" \/ signal = "profile_installed"
             /\ wrong \subseteq Required(type)
             /\ Cardinality(wrong) + Cardinality(Slips(flow)) <= (IF last \in Careful THEN 0 ELSE MaxSlips)
             /\ \E node \in Drawn(n, type, gate, signal, wrong) :
                   flow' = [m \in 1..n |-> IF m = n THEN node ELSE flow[m]]
    /\ UNCHANGED <<last, saved, run, device, asked, blind>>

\* The document passes its checks and the flow starts on a device.
Save ==
    /\ DOMAIN flow = 1..last /\ ~saved /\ Accepted(flow)
    /\ saved' = TRUE
    /\ UNCHANGED <<last, flow, run, device, asked, blind>>

-----------------------------------------------------------------------------
(* The engine: _advance, _execute_node *)

Node    == flow[run.at]
AtA(type) == saved /\ run.status = "running" /\ Node.type = type

\* The run r goes on at the node a handle leads to.  Without such an edge or node, or
\* at the cap on nodes per advance, it fails for what its flow is.
Onward(r, handle) ==
    LET node == Node.edges[handle]
    IN  IF node \in 1..last /\ r.steps + 1 < MAX_NODES_PER_ADVANCE
        THEN [r EXCEPT !.at = node, !.steps = @ + 1]
        ELSE [r EXCEPT !.status = "broken"]

\* What the list of the wait's signal wants.
Wanted == IF Node.signal = "profile_installed" THEN run.expected ELSE {}

\* _consume_expected: the barrier that was left wants nothing and excuses nothing.
Consumed(r) == IF Node.signal = "profile_installed"
               THEN [r EXCEPT !.expected = {}, !.satisfied = {}, !.ungated = FALSE] ELSE r

\* _record_gap: the ledger of what the run did not get, by step.
WithGap(r, steps) == [r EXCEPT !.gaps = @ \cup steps]

AtStart ==
    /\ AtA("start")
    /\ run' = Onward(run, "next")
    /\ UNCHANGED <<last, flow, saved, device, asked, blind>>

\* The step's profiles and apps are queued and expected ...
Queued(r) == [r EXCEPT !.expected = @ \cup {r.at}]

\* ... or they are not, for the reason _why_app_not_queued finds, and that is a gap.
NotQueued(r) == WithGap(r, {r.at})

\* With gate: false nothing waits and nothing is a gap.
AtInstall ==
    /\ AtA("install_profiles")
    /\ IF Node.gate
       THEN /\ asked' = asked \cup {run.at}
            /\ \/ run' = Onward(Queued(run), "next")
               \/ run' = Onward(NotQueued(run), "next")
       ELSE /\ run' = Onward([run EXCEPT !.ungated = TRUE], "next")
            /\ UNCHANGED asked
    /\ UNCHANGED <<last, flow, saved, device, blind>>

\* The condition reads what the device is at the moment.
AtBranch ==
    /\ AtA("branch")
    /\ \E handle \in {"on_true", "on_false"} : run' = Onward(run, handle)
    /\ UNCHANGED <<last, flow, saved, device, asked, blind>>

\* A wait that held something, or may hold nothing.
Excused == \/ Wanted # {} \/ ~Node.gate
           \/ Node.signal = "profile_installed" /\ run.ungated

\* _wait_already_satisfied: everything expected is there, or nothing is expected, which
\* is a gap unless the author excused it.
PassWait ==
    /\ AtA("wait_for") /\ Wanted \subseteq device
    /\ run' = Onward(Consumed(IF Excused THEN run ELSE WithGap(run, {run.at})), "next")
    /\ UNCHANGED <<last, flow, saved, device, asked, blind>>

Park ==
    /\ AtA("wait_for") /\ ~(Wanted \subseteq device)
    /\ run' = [run EXCEPT !.status = "waiting"]
    /\ UNCHANGED <<last, flow, saved, device, asked, blind>>

\* The device reports an install the run expects.  Only a waiting run takes note.
DeviceInstalls ==
    /\ saved /\ run.status \in {"running", "waiting"}
    /\ \E i \in run.expected \ device :
          /\ device' = device \cup {i}
          /\ run' = IF run.status = "waiting" THEN [run EXCEPT !.satisfied = @ \cup {i}] ELSE run
    /\ UNCHANGED <<last, flow, saved, asked, blind>>

\* The last signal of the barrier has come.
Resume ==
    /\ run.status = "waiting" /\ Wanted \subseteq run.satisfied
    /\ run' = Onward(Consumed([run EXCEPT !.status = "running", !.steps = 0]), "next")
    /\ UNCHANGED <<last, flow, saved, device, asked, blind>>

\* The deadline is over: what never came is a gap, and the run goes down its on_timeout
\* edge or fails.
TimeOut ==
    /\ run.status = "waiting"
    /\ run' = IF Node.edges["on_timeout"] = None THEN [run EXCEPT !.status = "failed"]
              ELSE LET unmet == WithGap(run, Wanted \ run.satisfied)
                   IN  Onward(Consumed([unmet EXCEPT !.status = "running", !.steps = 0]), "on_timeout")
    /\ UNCHANGED <<last, flow, saved, device, asked, blind>>

\* _release_device, _guard_release: the device is let out, and the run marked if its
\* ledger has a gap.
AtRelease ==
    /\ AtA("release_device")
    /\ run' = Onward([run EXCEPT !.unverified = @ \/ run.gaps # {}], "next")
    /\ blind' = IF run.at \in ReleaseOrdering(flow) THEN blind
                ELSE blind \cup (asked \ (device \cup run.gaps))
    /\ UNCHANGED <<last, flow, saved, device, asked>>

\* _complete fails a run that released the device over a gap.
AtEnd ==
    /\ AtA("end")
    /\ run' = [run EXCEPT !.status = IF run.unverified THEN "failed" ELSE "completed"]
    /\ UNCHANGED <<last, flow, saved, device, asked, blind>>

Execute == AtStart \/ AtInstall \/ AtBranch \/ PassWait \/ Park \/ AtRelease \/ AtEnd
Next == Draw \/ Save \/ Execute \/ DeviceInstalls \/ Resume \/ TimeOut

Spec == Init /\ [][Next]_vars

-----------------------------------------------------------------------------
(* Properties *)

\* A flow that was saved without errors runs: no run of it finds an edge missing, a node
\* unknown, or goes round until the cap (_flow_edges and _check_flow_graph against
\* _advance).
AcceptedRuns == run.status # "broken"

\* A release without a release-ordering warning lets no device out blindly: whatever the
\* run had asked for and was to wait for is installed, or in the gap ledger that fails
\* the run (the warning's walk against the barriers and their deadlines).
ReleaseAccountedFor == blind = {}

\* A wait with a barrier-empty warning holds nothing back on any run, as the warning
\* says: no run is ever parked on it.
EmptyBarrierNeverParks ==
    run.status = "waiting" => run.at \notin BarrierEmpty(flow)
=============================================================================
