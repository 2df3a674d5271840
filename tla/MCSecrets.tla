----------------------------- MODULE MCSecrets -----------------------------
(* The passwords are interchangeable: no definition tells them apart.       *)
EXTENDS Secrets, TLC

PasswordSymmetry == Permutations(Passwords)
=============================================================================
