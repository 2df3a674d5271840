------------------------------ MODULE MCFlowRun ------------------------------
(* One small flow: install two profiles, wait for them, and release the device; *)
(* after a timeout an administrator may let it out or look again.               *)
EXTENDS FlowRun, TLC

CONSTANTS s, i, w, g1, g2, d, e, p1, p2

NodesDef     == {s, i, w, g1, g2, d, e}
KindDef      == s :> "start" @@ i :> "install" @@ w :> "wait" @@ g1 :> "gate"
                @@ g2 :> "gate" @@ d :> "release" @@ e :> "end"
AfterDef     == s :> i @@ i :> w @@ w :> d @@ d :> e @@ g1 :> NoNode @@ g2 :> NoNode @@ e :> NoNode
TimeoutDef   == [n \in Nodes |-> IF n = w THEN g1 ELSE NoNode]
ChoicesDef   == [n \in Nodes |-> CASE n = g1 -> {g2, e} [] n = g2 -> {d} [] OTHER -> {}]
InstallsDef  == [n \in Nodes |-> IF n = i THEN Refs ELSE {}]
=============================================================================
