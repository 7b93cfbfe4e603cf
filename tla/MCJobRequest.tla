----------------------------- MODULE MCJobRequest -----------------------------
(* Bids and reads are interchangeable in the safety run. *)
EXTENDS JobRequest, TLC

Symmetry == Permutations(Bidders) \cup Permutations(Reads)
=============================================================================
