---------------------------- MODULE Reconciliation ----------------------------
(***************************************************************************)
(* The reports with which the gateway checks its own bookkeeping, read at  *)
(* any moment of Billing's history: the reconciliation of every wallet     *)
(* with its ledger and the search for requests that were logged as billed  *)
(* but never debited (backend/internal/repository/postgres/store.go).      *)
(***************************************************************************)
EXTENDS Billing, Functions

Signed(entry) == IF entry.direction = "credit" THEN entry.amount ELSE 0 - entry.amount

(* GetUserBillingReconciliation: LedgerNetAmount, in ledger units *)
LedgerNetAmount(u) ==
    SumFunction([i \in DOMAIN ledger[u] |-> Signed(ledger[u][i])])

(* GetUserBillingDebitAnomalies, without its thresholds *)
MissingDebits ==
    {r \in logs : Chargeable(r) /\ r \notin Charged}

(* What usage debits took less than their amount, the balance being too low. *)
Shortfall(entry) ==
    IF entry.by \in Requests /\ entry.amount > entry.before
    THEN entry.amount - entry.before ELSE 0

WrittenOff(u) ==
    SumFunction([i \in DOMAIN ledger[u] |-> Shortfall(ledger[u][i])])

Distance(a, b) == IF a >= b THEN a - b ELSE b - a

(* The wallet differs from the ledger's net amount by what was written off *)
(* and by at most half a ledger unit of rounding per entry: any larger     *)
(* difference in the reconciliation report is a lost update.               *)
DifferenceExplained ==
    \A u \in Users :
        2 * Distance(wallet[u], LedgerUnit * (LedgerNetAmount(u) + WrittenOff(u)))
            <= LedgerUnit * Len(ledger[u])

(* A request is reported as missing its debit exactly while the debit is   *)
(* pending, or because it failed, was refused or was lost in a crash after *)
(* the log row was committed: the report has no false alarm that lasts and *)
(* overlooks no lost charge of a logged request.                           *)
MissingDebitsExplained ==
    MissingDebits =
        {r \in logs : pc[r] \in {"logged", "debiting", "refused", "unpaid", "lost"}}

(* Whatever either report shows has one of the known causes.               *)
ReportsExplained == DifferenceExplained /\ MissingDebitsExplained
=============================================================================
