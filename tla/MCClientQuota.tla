----------------------------- MODULE MCClientQuota -----------------------------
(* Requests are interchangeable. *)
EXTENDS ClientQuota, TLC

MCSymmetry == Permutations(Requests)
=============================================================================
