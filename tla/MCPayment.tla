----------------------------- MODULE MCPayment -----------------------------
(* Model values and symmetry of the tries for Payment. *)
EXTENDS Payment, TLC

Symmetry == Permutations(Tries)
=============================================================================
