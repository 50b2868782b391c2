------------------------------- MODULE MCBilling -------------------------------
(* One wallet shared by two requests and two administrator calls. *)
EXTENDS Reconciliation

CONSTANTS u1

MCOwner == [r \in Requests |-> u1]
=============================================================================
