---------------------------- MODULE MCFlowFiles -----------------------------
(* A small instance of FlowFiles: editors and passwords are interchangeable. *)
EXTENDS FlowFiles, TLC

Interchangeable == Permutations(Clients) \cup Permutations(Passwords)
=============================================================================
