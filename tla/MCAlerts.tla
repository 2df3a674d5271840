------------------------------ MODULE MCAlerts ------------------------------
(* The rule "lost" repairs by itself and asks for a destructive command; it *)
(* shares its tag with the rule "old-os".                                   *)
EXTENDS Alerts, TLC

TheRules == {"lost", "old-os"}
SharedTag == [r \in TheRules |-> {"quarantine"}]
TheGrace == [r \in TheRules |-> IF r = "lost" THEN 0 ELSE 1]
Symmetry == Permutations(Approvers)

(* What the code withstands: two approvals, a refusal during a pass.        *)
Withstood == {{"approve"}, {"pass", "reject"}}
(* A refusal during an approval.                                            *)
WithRefusal == Withstood \cup {{"approve", "reject"}}
(* An approval during a pass.                                               *)
WithApproval == Withstood \cup {{"pass", "approve"}}
=============================================================================
