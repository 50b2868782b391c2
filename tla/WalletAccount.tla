----------------------------- MODULE WalletAccount -----------------------------
(***************************************************************************)
(* What a user's wallet promises to the rest of the gateway, with the      *)
(* transactions, row locks, queues and crashes of the implementation left  *)
(* out: every movement is applied whole to the balance it finds, an        *)
(* administrator cannot overdraw it, a charge takes what is there, and a   *)
(* request is charged at most once.                                        *)
(***************************************************************************)
EXTENDS Integers

CONSTANTS Users, Requests, Amounts

VARIABLES balance, charged

accountVars == <<balance, charged>>

Init ==
    /\ balance = [u \in Users |-> 0]
    /\ charged = {}

Credit(u, a) ==
    /\ balance' = [balance EXCEPT ![u] = @ + a]
    /\ UNCHANGED charged

Correct(u, a) ==
    /\ balance[u] >= a
    /\ balance' = [balance EXCEPT ![u] = @ - a]
    /\ UNCHANGED charged

Charge(u, a, r) ==
    /\ r \notin charged
    /\ charged' = charged \cup {r}
    /\ balance' = [balance EXCEPT ![u] = IF @ >= a THEN @ - a ELSE 0]

Next == \E u \in Users, a \in Amounts :
            Credit(u, a) \/ Correct(u, a) \/ \E r \in Requests : Charge(u, a, r)

Spec == Init /\ [][Next]_accountVars
=============================================================================
