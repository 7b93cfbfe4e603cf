------------------------------ MODULE MCSession ------------------------------
(* Small instances of Session: users and flows are interchangeable.          *)
EXTENDS Session, TLC

Symmetry == Permutations(Users) \cup Permutations(Flows)
=============================================================================
