-------------------------------- MODULE Billing --------------------------------
(***************************************************************************)
(* How the gateway bills proxy requests to user wallets.                   *)
(*                                                                         *)
(* A request is admitted on the balance that authentication read, is       *)
(* forwarded without holding that balance, and is billed afterwards by a   *)
(* background task, which inserts the request log and then, in a second    *)
(* transaction, debits the wallet and appends to the wallet ledger.        *)
(* Administrators credit and correct the same wallets meanwhile.           *)
(*   backend/internal/middleware/public_api_auth.go  (admission)           *)
(*   backend/internal/api/openai/handler.go          (reserve, task)       *)
(*   backend/internal/repository/postgres/store.go   (transactions)        *)
(*                                                                         *)
(* Money is counted in units of the wallet column, NUMERIC(18,8).  The     *)
(* ledger columns are NUMERIC(14,4): Postgres rounds what is stored there  *)
(* to a multiple of LedgerUnit wallet units, and CHECKs that the amount of *)
(* an entry stays positive.                                                *)
(***************************************************************************)
EXTENDS Integers, Sequences, FiniteSets

CONSTANTS Users,
          Requests,      (* proxy requests, each sent once                    *)
          Owner,         (* the user who owns the client key of each request  *)
          AdminOps,      (* calls of AdjustUserWallet and CorrectUserWallet   *)
          LedgerUnit,    (* wallet units per ledger unit, 10^4 in the schema  *)
          MinBalance,    (* min_available_balance of every user               *)
          Reserves,      (* the reserves that requests are estimated to need  *)
          Billables,     (* the amounts that upstream usage comes to          *)
          AdminAmounts,  (* the amounts that administrators enter             *)
          NoTx           (* an actor without an open transaction              *)

Actors == Requests \cup AdminOps
Amounts == Billables \cup AdminAmounts
Directions == {"credit", "debit"}

ASSUME BillingAssumption ==
    /\ Owner \in [Requests -> Users]
    /\ Requests \cap AdminOps = {}
    /\ LedgerUnit \in Nat \ {0}
    /\ MinBalance \in Nat
    /\ Reserves \subseteq Nat
    /\ Billables \subseteq Nat
    /\ AdminAmounts \subseteq Nat \ {0}
    /\ NoTx \notin [user : Users, direction : Directions, amount : Nat, before : Nat]

VARIABLES
    wallet,  \* tenant_users.wallet_balance
    ledger,  \* tenant_wallet_ledger, the rows of each user in order
    logs,    \* request_logs: the requests that have a row
    pc,      \* how far each request has got
    bill,    \* what is known of each request's charge
    tx,      \* the transaction of each actor, which holds the user's row lock
    admin    \* how far each administrator call has got

vars == <<wallet, ledger, logs, pc, bill, tx, admin>>

(* A request is volatile while its progress is only in the process's memory. *)
Volatile == {"forwarded", "queued", "logged", "debiting"}
Ended == {"rejected", "dropped", "unlogged", "settled", "refused", "unpaid", "lost"}
States == {"new"} \cup Volatile \cup Ended

(* NUMERIC(14,4) rounds to the nearest multiple of its unit, half up. *)
ToLedger(a) == (2 * a + LedgerUnit) \div (2 * LedgerUnit)

Init ==
    /\ wallet = [u \in Users |-> 0]
    /\ ledger = [u \in Users |-> <<>>]
    /\ logs = {}
    /\ pc = [r \in Requests |-> "new"]
    /\ bill = [r \in Requests |->
                 [reserve |-> 0, snapshot |-> 0, success |-> FALSE, billable |-> 0]]
    /\ tx = [x \in Actors |-> NoTx]
    /\ admin = [a \in AdminOps |-> "new"]
-----------------------------------------------------------------------------
(* PublicAPIAuth reads the balance once; the handler compares the reserve  *)
(* with that value.  Nothing is set aside.                                 *)

(* Seeded bug: the reserve is not compared with the balance. *)
CoversMinimumOnly(balance, reserve) == balance > 0 /\ balance >= MinBalance

Covers(balance, reserve) ==
    /\ balance > 0
    /\ balance >= MinBalance
    /\ reserve > 0 => balance >= reserve

Admit(r) ==
    /\ pc[r] = "new"
    /\ \E reserve \in Reserves :
          LET balance == wallet[Owner[r]]
          IN  /\ Covers(balance, reserve)
              /\ bill' = [bill EXCEPT ![r] =
                            [reserve |-> reserve, snapshot |-> balance,
                             success |-> FALSE, billable |-> 0]]
    /\ pc' = [pc EXCEPT ![r] = "forwarded"]
    /\ UNCHANGED <<wallet, ledger, logs, tx, admin>>

Reject(r) ==
    /\ pc[r] = "new"
    /\ \E reserve \in Reserves : ~Covers(wallet[Owner[r]], reserve)
    /\ pc' = [pc EXCEPT ![r] = "rejected"]
    /\ UNCHANGED <<wallet, ledger, logs, bill, tx, admin>>

(* The upstream call ends with any outcome and any usage; the deferred     *)
(* log task is accepted by the pool or dropped.                            *)
Finish(r) ==
    /\ pc[r] = "forwarded"
    /\ \E success \in BOOLEAN, billable \in Billables :
          bill' = [bill EXCEPT ![r] =
                     [reserve |-> @.reserve, snapshot |-> @.snapshot,
                      success |-> success, billable |-> billable]]
    /\ \E fate \in {"queued", "dropped"} : pc' = [pc EXCEPT ![r] = fate]
    /\ UNCHANGED <<wallet, ledger, logs, tx, admin>>
-----------------------------------------------------------------------------
(* writeRequestLog, in a worker *)

(* Seeded bug: failed requests are charged as well. *)
ChargeableAlways(r) == bill[r].billable > 0

Chargeable(r) == bill[r].success /\ bill[r].billable > 0

(* Seeded bug: the debit of a chargeable request is forgotten. *)
WriteLogForgetsDebit(r) ==
    /\ pc[r] = "queued"
    /\ logs' = logs \cup {r}
    /\ pc' = [pc EXCEPT ![r] = "settled"]
    /\ UNCHANGED <<wallet, ledger, bill, tx, admin>>

WriteLog(r) ==
    /\ pc[r] = "queued"
    /\ logs' = logs \cup {r}
    /\ pc' = [pc EXCEPT ![r] = IF Chargeable(r) THEN "logged" ELSE "settled"]
    /\ UNCHANGED <<wallet, ledger, bill, tx, admin>>

LogFails(r) ==
    /\ pc[r] = "queued"
    /\ pc' = [pc EXCEPT ![r] = "unlogged"]
    /\ UNCHANGED <<wallet, ledger, logs, bill, tx, admin>>
-----------------------------------------------------------------------------
(* DeductUserWalletUsage and applyUserWalletAdminChange: lock the user's   *)
(* row and read it (SELECT ... FOR UPDATE), then update it, append to the  *)
(* ledger and commit.                                                      *)

(* Seeded bug: the row is read without FOR UPDATE. *)
UnlockedAlways(u) == TRUE

Unlocked(u) == \A x \in Actors : tx[x] # NoTx => tx[x].user # u

Begin(x, u, direction, amount) ==
    /\ Unlocked(u)
    /\ tx' = [tx EXCEPT ![x] = [user |-> u, direction |-> direction,
                                amount |-> amount, before |-> wallet[u]]]

Commit(x, after) ==
    /\ ToLedger(tx[x].amount) > 0
    /\ wallet' = [wallet EXCEPT ![tx[x].user] = after]
    /\ ledger' = [ledger EXCEPT ![tx[x].user] =
                    Append(@, [direction |-> tx[x].direction,
                               amount    |-> ToLedger(tx[x].amount),
                               before    |-> ToLedger(tx[x].before),
                               after     |-> ToLedger(after),
                               by        |-> x])]
    /\ tx' = [tx EXCEPT ![x] = NoTx]

Rollback(x) ==
    /\ tx' = [tx EXCEPT ![x] = NoTx]
    /\ UNCHANGED <<wallet, ledger>>

BeginDebit(r) ==
    /\ pc[r] = "logged"
    /\ Begin(r, Owner[r], "debit", bill[r].billable)
    /\ pc' = [pc EXCEPT ![r] = "debiting"]
    /\ UNCHANGED <<wallet, ledger, logs, bill, admin>>

AfterUsage(before, amount) == IF before >= amount THEN before - amount ELSE 0

CommitDebit(r) ==
    /\ pc[r] = "debiting"
    /\ Commit(r, AfterUsage(tx[r].before, tx[r].amount))
    /\ pc' = [pc EXCEPT ![r] = "settled"]
    /\ UNCHANGED <<logs, bill, admin>>

(* The ledger's CHECK (amount > 0) rejects an amount that rounds to zero;  *)
(* the transaction is rolled back and the error is discarded.              *)
CheckRefuses(r) ==
    /\ pc[r] = "debiting"
    /\ ToLedger(tx[r].amount) = 0
    /\ Rollback(r)
    /\ pc' = [pc EXCEPT ![r] = "refused"]
    /\ UNCHANGED <<logs, bill, admin>>

(* Seeded bug: a debit that failed is tried again, as often as it fails. *)
DebitFailsRetries(r) ==
    /\ pc[r] \in {"logged", "debiting"}
    /\ Rollback(r)
    /\ pc' = [pc EXCEPT ![r] = "logged"]
    /\ UNCHANGED <<logs, bill, admin>>

(* The ten second context ends, or the database fails. *)
DebitFails(r) ==
    /\ pc[r] \in {"logged", "debiting"}
    /\ Rollback(r)
    /\ pc' = [pc EXCEPT ![r] = "unpaid"]
    /\ UNCHANGED <<logs, bill, admin>>
-----------------------------------------------------------------------------
BeginAdmin(a) ==
    /\ admin[a] = "new"
    /\ \E u \in Users, direction \in Directions, amount \in AdminAmounts :
          Begin(a, u, direction, amount)
    /\ admin' = [admin EXCEPT ![a] = "open"]
    /\ UNCHANGED <<wallet, ledger, logs, pc, bill>>

AfterAdmin(t) == IF t.direction = "credit" THEN t.before + t.amount
                                           ELSE t.before - t.amount

(* Seeded bug: a correction may overdraw the wallet, down to zero. *)
CommitAdminOverdraws(a) ==
    /\ admin[a] = "open"
    /\ Commit(a, IF AfterAdmin(tx[a]) >= 0 THEN AfterAdmin(tx[a]) ELSE 0)
    /\ admin' = [admin EXCEPT ![a] = "done"]
    /\ UNCHANGED <<logs, pc, bill>>

CommitAdmin(a) ==
    /\ admin[a] = "open"
    /\ AfterAdmin(tx[a]) >= 0
    /\ Commit(a, AfterAdmin(tx[a]))
    /\ admin' = [admin EXCEPT ![a] = "done"]
    /\ UNCHANGED <<logs, pc, bill>>

AdminFails(a) ==
    /\ admin[a] = "open"
    /\ Rollback(a)
    /\ admin' = [admin EXCEPT ![a] = "failed"]
    /\ UNCHANGED <<logs, pc, bill>>
-----------------------------------------------------------------------------
(* The process dies: requests and tasks in memory are gone, Postgres rolls *)
(* its open transactions back.                                             *)
Crash ==
    /\ \/ \E r \in Requests : pc[r] \in Volatile
       \/ \E a \in AdminOps : admin[a] = "open"
    /\ pc' = [r \in Requests |-> IF pc[r] \in Volatile THEN "lost" ELSE pc[r]]
    /\ admin' = [a \in AdminOps |-> IF admin[a] = "open" THEN "failed" ELSE admin[a]]
    /\ tx' = [x \in Actors |-> NoTx]
    /\ UNCHANGED <<wallet, ledger, logs, bill>>

Debit(r) == BeginDebit(r) \/ CommitDebit(r) \/ CheckRefuses(r) \/ DebitFails(r)
Task(r) == WriteLog(r) \/ LogFails(r) \/ Debit(r)
AdminStep(a) == CommitAdmin(a) \/ AdminFails(a)

Next ==
    \/ \E r \in Requests : Admit(r) \/ Reject(r) \/ Finish(r) \/ Task(r)
    \/ \E a \in AdminOps : BeginAdmin(a) \/ AdminStep(a)
    \/ Crash

Spec == Init /\ [][Next]_vars

(* Workers run their tasks and a transaction that is open ends, both under *)
(* a context with a deadline.  Nothing obliges a request to be sent, an    *)
(* upstream to answer or an administrator to act.                          *)
FairSpec == Spec /\ (\A r \in Requests : WF_vars(Task(r)))
                 /\ (\A a \in AdminOps : WF_vars(AdminStep(a)))
-----------------------------------------------------------------------------
Bills == [reserve : Nat, snapshot : Nat, success : BOOLEAN, billable : Nat]
Transactions == [user : Users, direction : Directions, amount : Nat, before : Nat]
Entries == [direction : Directions, amount : Nat \ {0}, before : Nat, after : Nat,
            by : Actors]

(* Types, with the CHECKs of the schema: no balance is ever negative and   *)
(* every ledger entry moves a positive amount.                             *)
TypeOK ==
    /\ wallet \in [Users -> Nat]
    /\ ledger \in [Users -> Seq(Entries)]
    /\ logs \subseteq Requests
    /\ pc \in [Requests -> States]
    /\ bill \in [Requests -> Bills]
    /\ tx \in [Actors -> Transactions \cup {NoTx}]
    /\ admin \in [AdminOps -> {"new", "open", "done", "failed"}]

Chained(before, entries, after) ==
    IF entries = <<>> THEN before = after
    ELSE /\ entries[1].before = before
         /\ entries[Len(entries)].after = after
         /\ \A i \in 1 .. Len(entries) - 1 : entries[i].after = entries[i + 1].before

(* The ledger of a user tells the whole history of the wallet: it starts   *)
(* at zero, each entry starts where the one before it ended, and the last  *)
(* one ends at the present balance, however debits and administrator       *)
(* changes of the same wallet interleave, fail or are lost in a crash.     *)
LedgerChain == \A u \in Users : Chained(0, ledger[u], ToLedger(wallet[u]))

(* A request is charged at most once, to the owner of its key, only after  *)
(* its log row was committed, only if it succeeded, and for the amount     *)
(* the log row shows.                                                      *)
ChargesMatchLogs ==
    \A u \in Users : \A i \in 1 .. Len(ledger[u]) :
        LET r == ledger[u][i].by
        IN  r \in Requests =>
              /\ Owner[r] = u
              /\ r \in logs
              /\ bill[r].success
              /\ ledger[u][i].direction = "debit"
              /\ ledger[u][i].amount = ToLedger(bill[r].billable)
              /\ \A j \in 1 .. Len(ledger[u]) : ledger[u][j].by = r => j = i

(* A charge that stays within the reserve the handler required is cut      *)
(* short only if the wallet was drawn on after the request was admitted:   *)
(* the reserve check fails to protect the wallet in a race and nowhere     *)
(* else.                                                                   *)
ShortfallNeedsARace ==
    \A u \in Users : \A i \in 1 .. Len(ledger[u]) :
        LET e == ledger[u][i]
        IN  /\ e.by \in Requests
            /\ bill[e.by].billable <= bill[e.by].reserve
            /\ e.amount > e.before
            => e.before < ToLedger(bill[e.by].snapshot)

Charged == {r \in Requests : \E i \in 1 .. Len(ledger[Owner[r]]) :
                                ledger[Owner[r]][i].by = r}

Account == INSTANCE WalletAccount WITH balance <- wallet, charged <- Charged

(* The transactions on one wallet are applied one at a time, whole, each   *)
(* to the balance the one before it left: Billing implements WalletAccount.*)
AccountSpec == Account!Spec

(* A log task the pool has accepted comes to an end, with its charge       *)
(* settled, refused, failed or lost: no wallet lock is waited for, and no  *)
(* transaction retried, for ever.                                          *)
ChargeConcludes == \A r \in Requests : pc[r] = "queued" ~> pc[r] \in Ended

(* What the billing documentation says: a successful request's usage is    *)
(* charged and the charge is written to the ledger, unless the debit is    *)
(* pending, failed or lost.  Amounts below half the ledger's last digit    *)
(* never are.                                                              *)
UsageIsDebited ==
    \A r \in logs : /\ Chargeable(r)
                    /\ pc[r] \notin {"logged", "debiting", "unpaid", "lost"}
                    => r \in Charged
=============================================================================
