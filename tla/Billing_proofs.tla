----------------------------- MODULE Billing_proofs -----------------------------
(***************************************************************************)
(* Proofs about Billing.                                                   *)
(***************************************************************************)
EXTENDS Reconciliation, DataLemmas

(* Who has a transaction open is told by its own progress, and a debit's   *)
(* transaction is for the request's owner and amount.                      *)
TxInv ==
    /\ \A r \in Requests : tx[r] # NoTx <=> pc[r] = "debiting"
    /\ \A a \in AdminOps : tx[a] # NoTx <=> admin[a] = "open"
    /\ \A r \in Requests : tx[r] # NoTx => /\ tx[r].user = Owner[r]
                                           /\ tx[r].direction = "debit"
                                           /\ tx[r].amount = bill[r].billable

(* A wallet has at most one open transaction, and that transaction's read  *)
(* of the balance is current.                                              *)
LockInv ==
    \A x \in Actors : tx[x] # NoTx =>
        /\ tx[x].before = wallet[tx[x].user]
        /\ \A y \in Actors : tx[y] # NoTx /\ tx[y].user = tx[x].user => x = y

(* Rounding to the ledger keeps amounts natural and zero at zero. *)
LEMMA ToLedgerNat == ASSUME NEW a \in Nat PROVE ToLedger(a) \in Nat
  <1> DEFINE n == 2 * a + LedgerUnit
             d == 2 * LedgerUnit
  <1>1. n \in Nat /\ d \in Nat \ {0}
    BY BillingAssumption
  <1>2. \A i \in Nat, j \in Nat \ {0} : i \div j \in Nat
    BY SMT
  <1>3. n \div d \in Nat
    BY <1>1, <1>2
  <1> QED BY <1>3 DEF ToLedger

LEMMA ToLedgerZero == ToLedger(0) = 0
  <1>1. \A l \in Nat \ {0} : (2 * 0 + l) \div (2 * l) = 0
    BY SMT
  <1> QED BY <1>1, BillingAssumption DEF ToLedger

LEMMA ActorsSplit ==
    /\ \A r \in Requests : r \in Actors /\ r \notin AdminOps
    /\ \A a \in AdminOps : a \in Actors /\ a \notin Requests
    /\ \A r \in Requests : Owner[r] \in Users
    /\ NoTx \notin Transactions
  BY BillingAssumption DEF Actors, Transactions

(* What a commit writes has the right types, whoever commits. *)
LEMMA CommitTypes ==
    ASSUME TypeOK, NEW x \in Actors, tx[x] \in Transactions, NEW after \in Nat,
           Commit(x, after)
    PROVE  /\ wallet' \in [Users -> Nat]
           /\ ledger' \in [Users -> Seq(Entries)]
           /\ tx' \in [Actors -> Transactions \cup {NoTx}]
  <1> DEFINE u == tx[x].user
             e == [direction |-> tx[x].direction,
                   amount    |-> ToLedger(tx[x].amount),
                   before    |-> ToLedger(tx[x].before),
                   after     |-> ToLedger(after),
                   by        |-> x]
  <1>1. u \in Users /\ tx[x].direction \in Directions
        /\ tx[x].amount \in Nat /\ tx[x].before \in Nat
    BY DEF Transactions
  <1>2. ToLedger(tx[x].amount) \in Nat \ {0}
    <2>1. PICK a : a = ToLedger(tx[x].amount)
      OBVIOUS
    <2>2. a \in Nat
      BY <1>1, <2>1, ToLedgerNat
    <2>3. a > 0
      BY <2>1 DEF Commit
    <2>4. QED
      BY <2>1, <2>2, <2>3
  <1>3. ToLedger(tx[x].before) \in Nat /\ ToLedger(after) \in Nat
    BY <1>1, ToLedgerNat
  <1>4. e \in Entries
    BY <1>1, <1>2, <1>3 DEF Entries
  <1>5. Append(ledger[u], e) \in Seq(Entries)
    BY <1>1, <1>4 DEF TypeOK
  <1>6. wallet' \in [Users -> Nat]
    BY <1>1 DEF TypeOK, Commit
  <1>7. ledger' = [ledger EXCEPT ![u] = Append(ledger[u], e)]
    BY DEF Commit
  <1>8. ledger' \in [Users -> Seq(Entries)]
    <2> HIDE DEF u, e
    <2> QED BY <1>1, <1>5, <1>7 DEF TypeOK
  <1> QED BY <1>6, <1>8 DEF TypeOK, Commit

LEMMA BeginTypes ==
    ASSUME TypeOK, NEW x \in Actors, NEW u \in Users, NEW direction \in Directions,
           NEW amount \in Nat, Begin(x, u, direction, amount)
    PROVE  /\ tx' \in [Actors -> Transactions \cup {NoTx}]
           /\ tx'[x] = [user |-> u, direction |-> direction,
                        amount |-> amount, before |-> wallet[u]]
           /\ tx'[x] # NoTx
           /\ \A y \in Actors : y # x => tx'[y] = tx[y]
  <1> DEFINE t == [user |-> u, direction |-> direction,
                   amount |-> amount, before |-> wallet[u]]
  <1>1. t \in Transactions
    BY DEF TypeOK, Transactions
  <1>2. tx' = [tx EXCEPT ![x] = t]
    BY DEF Begin
  <1>3. t # NoTx
    BY <1>1, ActorsSplit
  <1> HIDE DEF t
  <1>4. tx'[x] = t
    BY <1>2 DEF TypeOK
  <1>5. /\ tx' \in [Actors -> Transactions \cup {NoTx}]
        /\ \A y \in Actors : y # x => tx'[y] = tx[y]
    BY <1>1, <1>2 DEF TypeOK
  <1> QED BY <1>3, <1>4, <1>5 DEF t

TypeInv == TypeOK /\ TxInv

LEMMA TypeInvInit == Init => TypeInv
  <1> SUFFICES ASSUME Init PROVE TypeInv
    OBVIOUS
  <1>1. TypeOK
    BY DEF Init, TypeOK, States, Volatile, Bills, Entries, Transactions
  <1>2. TxInv
    BY ActorsSplit DEF Init, TxInv
  <1> QED BY <1>1, <1>2 DEF TypeInv

LEMMA TypeInvStep == TypeInv /\ [Next]_vars => TypeInv'
  <1> SUFFICES ASSUME TypeInv, [Next]_vars PROVE TypeInv'
    OBVIOUS
  <1> USE BillingAssumption, ActorsSplit DEF TypeInv
  <1>1. ASSUME NEW r \in Requests, Admit(r) PROVE TypeInv'
    <2>1. TypeOK'
      BY <1>1 DEF Admit, TypeOK, Bills, States, Volatile
    <2>2. TxInv'
      BY <1>1 DEF Admit, TypeOK, TxInv, Bills
    <2> QED BY <2>1, <2>2
  <1>2. ASSUME NEW r \in Requests, Reject(r) PROVE TypeInv'
    <2>1. TypeOK'
      BY <1>2 DEF Reject, TypeOK, States, Ended
    <2>2. TxInv'
      BY <1>2 DEF Reject, TypeOK, TxInv
    <2> QED BY <2>1, <2>2
  <1>3. ASSUME NEW r \in Requests, Finish(r) PROVE TypeInv'
    <2>1. TypeOK'
      BY <1>3 DEF Finish, TypeOK, Bills, States, Volatile, Ended
    <2>2. TxInv'
      BY <1>3 DEF Finish, TypeOK, TxInv, Bills
    <2> QED BY <2>1, <2>2
  <1>4. ASSUME NEW r \in Requests, WriteLog(r) PROVE TypeInv'
    <2>1. TypeOK'
      BY <1>4 DEF WriteLog, TypeOK, States, Volatile, Ended
    <2>2. TxInv'
      BY <1>4 DEF WriteLog, TypeOK, TxInv
    <2> QED BY <2>1, <2>2
  <1>5. ASSUME NEW r \in Requests, LogFails(r) PROVE TypeInv'
    <2>1. TypeOK'
      BY <1>5 DEF LogFails, TypeOK, States, Ended
    <2>2. TxInv'
      BY <1>5 DEF LogFails, TypeOK, TxInv
    <2> QED BY <2>1, <2>2
  <1>6. ASSUME NEW r \in Requests, BeginDebit(r) PROVE TypeInv'
    <2>1. Begin(r, Owner[r], "debit", bill[r].billable)
      BY <1>6 DEF BeginDebit
    <2>2. bill[r].billable \in Nat /\ "debit" \in Directions
      BY DEF TypeOK, Bills, Directions
    <2>3. /\ tx' \in [Actors -> Transactions \cup {NoTx}]
          /\ tx'[r] = [user |-> Owner[r], direction |-> "debit",
                       amount |-> bill[r].billable, before |-> wallet[Owner[r]]]
          /\ tx'[r] # NoTx
          /\ \A y \in Actors : y # r => tx'[y] = tx[y]
      BY <2>1, <2>2, BeginTypes
    <2>4. TypeOK'
      BY <1>6, <2>3 DEF BeginDebit, TypeOK, States, Volatile
    <2>5. TxInv'
      BY <1>6, <2>3 DEF BeginDebit, TypeOK, TxInv
    <2> QED BY <2>4, <2>5
  <1>7. ASSUME NEW r \in Requests, CommitDebit(r) PROVE TypeInv'
    <2>1. tx[r] \in Transactions
      BY <1>7 DEF CommitDebit, TypeOK, TxInv
    <2>2. AfterUsage(tx[r].before, tx[r].amount) \in Nat
      BY <2>1 DEF AfterUsage, Transactions
    <2>3. /\ wallet' \in [Users -> Nat]
          /\ ledger' \in [Users -> Seq(Entries)]
          /\ tx' \in [Actors -> Transactions \cup {NoTx}]
      BY <1>7, <2>1, <2>2, CommitTypes DEF CommitDebit
    <2>4. TypeOK'
      BY <1>7, <2>3 DEF CommitDebit, TypeOK, States, Ended
    <2>5. TxInv'
      BY <1>7 DEF CommitDebit, Commit, TypeOK, TxInv
    <2> QED BY <2>4, <2>5
  <1>8. ASSUME NEW r \in Requests, CheckRefuses(r) PROVE TypeInv'
    <2>1. TypeOK'
      BY <1>8 DEF CheckRefuses, Rollback, TypeOK, States, Ended
    <2>2. TxInv'
      BY <1>8 DEF CheckRefuses, Rollback, TypeOK, TxInv
    <2> QED BY <2>1, <2>2
  <1>9. ASSUME NEW r \in Requests, DebitFails(r) PROVE TypeInv'
    <2>1. TypeOK'
      BY <1>9 DEF DebitFails, Rollback, TypeOK, States, Ended
    <2>2. TxInv'
      BY <1>9 DEF DebitFails, Rollback, TypeOK, TxInv
    <2> QED BY <2>1, <2>2
  <1>10. ASSUME NEW a \in AdminOps, BeginAdmin(a) PROVE TypeInv'
    <2>1. PICK u \in Users, direction \in Directions, amount \in AdminAmounts :
             Begin(a, u, direction, amount)
      BY <1>10 DEF BeginAdmin
    <2>2. /\ tx' \in [Actors -> Transactions \cup {NoTx}]
          /\ tx'[a] # NoTx
          /\ \A y \in Actors : y # a => tx'[y] = tx[y]
      BY <2>1, BeginTypes
    <2>3. TypeOK'
      BY <1>10, <2>2 DEF BeginAdmin, TypeOK
    <2>4. TxInv'
      BY <1>10, <2>2 DEF BeginAdmin, TypeOK, TxInv
    <2> QED BY <2>3, <2>4
  <1>11. ASSUME NEW a \in AdminOps, CommitAdmin(a) PROVE TypeInv'
    <2>1. tx[a] \in Transactions
      BY <1>11 DEF CommitAdmin, TypeOK, TxInv
    <2>2. AfterAdmin(tx[a]) \in Nat
      BY <1>11, <2>1 DEF CommitAdmin, AfterAdmin, Transactions
    <2>3. /\ wallet' \in [Users -> Nat]
          /\ ledger' \in [Users -> Seq(Entries)]
          /\ tx' \in [Actors -> Transactions \cup {NoTx}]
      BY <1>11, <2>1, <2>2, CommitTypes DEF CommitAdmin
    <2>4. TypeOK'
      BY <1>11, <2>3 DEF CommitAdmin, TypeOK
    <2>5. TxInv'
      BY <1>11 DEF CommitAdmin, Commit, TypeOK, TxInv
    <2> QED BY <2>4, <2>5
  <1>12. ASSUME NEW a \in AdminOps, AdminFails(a) PROVE TypeInv'
    <2>1. TypeOK'
      BY <1>12 DEF AdminFails, Rollback, TypeOK
    <2>2. TxInv'
      BY <1>12 DEF AdminFails, Rollback, TypeOK, TxInv
    <2> QED BY <2>1, <2>2
  <1>13. CASE Crash
    <2>1. TypeOK'
      BY <1>13 DEF Crash, TypeOK, States, Volatile, Ended
    <2>2. TxInv'
      BY <1>13 DEF Crash, TypeOK, TxInv, Volatile
    <2> QED BY <2>1, <2>2
  <1>14. CASE UNCHANGED vars
    BY <1>14 DEF vars, TypeOK, TxInv
  <1> QED BY <1>1, <1>2, <1>3, <1>4, <1>5, <1>6, <1>7, <1>8, <1>9, <1>10, <1>11,
             <1>12, <1>13, <1>14 DEF Next, Task, Debit, AdminStep

(* No balance is ever negative, no ledger entry ever moves nothing: the    *)
(* types hold for every number of users, requests and amounts.             *)
THEOREM BillingTypeCorrect == Spec => []TypeOK
  <1>1. TypeInv => TypeOK
    BY DEF TypeInv
  <1> QED BY TypeInvInit, TypeInvStep, <1>1, PTL DEF Spec

-----------------------------------------------------------------------------
(* The row lock *)

(* A commit leaves the transactions on other wallets current. *)
LEMMA CommitKeepsLocks ==
    ASSUME TypeOK, LockInv, NEW x \in Actors, tx[x] \in Transactions, NEW after,
           Commit(x, after)
    PROVE  LockInv'
  <1>1. tx[x] # NoTx /\ tx[x].user \in Users
    BY ActorsSplit DEF Transactions
  <1>2. tx'[x] = NoTx /\ \A y \in Actors : y # x => tx'[y] = tx[y]
    BY DEF Commit, TypeOK
  <1>3. \A y \in Actors : y # x /\ tx[y] # NoTx => tx[y].user # tx[x].user
    BY <1>1 DEF LockInv
  <1>4. \A u \in Users : u # tx[x].user => wallet'[u] = wallet[u]
    BY DEF Commit, TypeOK
  <1>5. \A y \in Actors : tx[y] # NoTx => tx[y].user \in Users
    BY DEF TypeOK, Transactions
  <1> QED BY <1>1, <1>2, <1>3, <1>4, <1>5 DEF LockInv

LEMMA BeginLocks ==
    ASSUME TypeOK, LockInv, NEW x \in Actors, NEW u \in Users,
           NEW direction \in Directions, NEW amount \in Nat,
           Begin(x, u, direction, amount), UNCHANGED wallet
    PROVE  LockInv'
  <1>1. /\ tx'[x] # NoTx
        /\ tx'[x] = [user |-> u, direction |-> direction,
                     amount |-> amount, before |-> wallet[u]]
        /\ \A y \in Actors : y # x => tx'[y] = tx[y]
    BY BeginTypes
  <1>2. \A y \in Actors : tx[y] # NoTx => tx[y].user # u
    BY DEF Begin, Unlocked
  <1> QED BY <1>1, <1>2 DEF LockInv

LEMMA RollbackUnlocks ==
    ASSUME TypeOK, LockInv, NEW x \in Actors, Rollback(x)
    PROVE  LockInv'
  BY DEF TypeOK, LockInv, Rollback

(* Every step commits, begins, rolls back, or leaves wallets, ledgers and  *)
(* transactions alone.                                                     *)
LEMMA LockStep == TypeInv /\ LockInv /\ [Next]_vars => LockInv'
  <1> SUFFICES ASSUME TypeInv, LockInv, [Next]_vars PROVE LockInv'
    OBVIOUS
  <1> USE ActorsSplit DEF TypeInv
  <1>1. ASSUME NEW r \in Requests,
               Admit(r) \/ Reject(r) \/ Finish(r) \/ WriteLog(r) \/ LogFails(r)
        PROVE  LockInv'
    <2>1. UNCHANGED <<wallet, tx>>
      BY <1>1 DEF Admit, Reject, Finish, WriteLog, LogFails
    <2> QED BY <2>1 DEF LockInv
  <1>2. ASSUME NEW r \in Requests, BeginDebit(r) PROVE LockInv'
    <2>1. Begin(r, Owner[r], "debit", bill[r].billable) /\ UNCHANGED wallet
      BY <1>2 DEF BeginDebit
    <2>2. bill[r].billable \in Nat /\ "debit" \in Directions
      BY DEF TypeOK, Bills, Directions
    <2> QED BY <2>1, <2>2, BeginLocks
  <1>3. ASSUME NEW r \in Requests, CommitDebit(r) PROVE LockInv'
    <2>1. tx[r] \in Transactions
      BY <1>3 DEF CommitDebit, TypeOK, TxInv
    <2> QED BY <1>3, <2>1, CommitKeepsLocks DEF CommitDebit
  <1>4. ASSUME NEW r \in Requests, CheckRefuses(r) \/ DebitFails(r) PROVE LockInv'
    BY <1>4, RollbackUnlocks DEF CheckRefuses, DebitFails
  <1>5. ASSUME NEW a \in AdminOps, BeginAdmin(a) PROVE LockInv'
    <2>1. PICK u \in Users, direction \in Directions, amount \in AdminAmounts :
             Begin(a, u, direction, amount)
      BY <1>5 DEF BeginAdmin
    <2>2. amount \in Nat /\ UNCHANGED wallet
      BY <1>5, BillingAssumption DEF BeginAdmin
    <2> QED BY <2>1, <2>2, BeginLocks
  <1>6. ASSUME NEW a \in AdminOps, CommitAdmin(a) PROVE LockInv'
    <2>1. tx[a] \in Transactions
      BY <1>6 DEF CommitAdmin, TypeOK, TxInv
    <2> QED BY <1>6, <2>1, CommitKeepsLocks DEF CommitAdmin
  <1>7. ASSUME NEW a \in AdminOps, AdminFails(a) PROVE LockInv'
    BY <1>7, RollbackUnlocks DEF AdminFails
  <1>8. CASE Crash
    BY <1>8 DEF Crash, LockInv
  <1>9. CASE UNCHANGED vars
    BY <1>9 DEF vars, LockInv
  <1> QED BY <1>1, <1>2, <1>3, <1>4, <1>5, <1>6, <1>7, <1>8, <1>9
          DEF Next, Task, Debit, AdminStep

-----------------------------------------------------------------------------
(* The ledger as a chain *)

LEMMA ChainAppend ==
    ASSUME NEW entries \in Seq(Entries), NEW e \in Entries, NEW b,
           Chained(0, entries, b), e.before = b
    PROVE  Chained(0, Append(entries, e), e.after)
  <1> DEFINE new == Append(entries, e)
  <1>1. /\ new # <<>>
        /\ Len(new) = Len(entries) + 1
        /\ new[Len(new)] = e
        /\ \A i \in 1 .. Len(entries) : new[i] = entries[i]
        /\ Len(entries) \in Nat
    OBVIOUS
  <1>2. CASE entries = <<>>
    <2>1. new[1] = e /\ Len(new) = 1 /\ b = 0
      BY <1>1, <1>2 DEF Chained
    <2> QED BY <1>1, <2>1 DEF Chained
  <1>3. CASE entries # <<>>
    <2>1. Len(entries) \in Nat \ {0}
      BY <1>3
    <2>2. new[1].before = 0
      BY <1>1, <1>3, <2>1 DEF Chained
    <2>3. \A i \in 1 .. Len(new) - 1 : new[i].after = new[i + 1].before
      <3> SUFFICES ASSUME NEW i \in 1 .. Len(entries)
                   PROVE  new[i].after = new[i + 1].before
        BY <1>1
      <3>1. CASE i = Len(entries)
        BY <1>1, <1>3, <2>1, <3>1 DEF Chained
      <3>2. CASE i # Len(entries)
        BY <1>1, <1>3, <2>1, <3>2 DEF Chained
      <3> QED BY <3>1, <3>2
    <2> HIDE DEF new
    <2> QED BY <1>1, <2>2, <2>3 DEF Chained
  <1> QED BY <1>2, <1>3

LEMMA CommitChains ==
    ASSUME TypeOK, LockInv, LedgerChain, NEW x \in Actors, tx[x] \in Transactions,
           NEW after \in Nat, Commit(x, after)
    PROVE  LedgerChain'
  <1> DEFINE u == tx[x].user
             e == [direction |-> tx[x].direction,
                   amount    |-> ToLedger(tx[x].amount),
                   before    |-> ToLedger(tx[x].before),
                   after     |-> ToLedger(after),
                   by        |-> x]
  <1>1. u \in Users /\ tx[x] # NoTx
    BY ActorsSplit DEF Transactions
  <1>2. e \in Entries
    <2>1. ToLedger(tx[x].amount) \in Nat \ {0}
      BY ToLedgerNat DEF Commit, Transactions
    <2>2. ToLedger(tx[x].before) \in Nat /\ ToLedger(after) \in Nat
      BY ToLedgerNat DEF Transactions
    <2> QED BY <2>1, <2>2 DEF Entries, Transactions
  <1>3. e.before = ToLedger(wallet[u]) /\ e.after = ToLedger(after)
    BY <1>1 DEF LockInv
  <1>4. /\ ledger' = [ledger EXCEPT ![u] = Append(ledger[u], e)]
        /\ wallet' = [wallet EXCEPT ![u] = after]
    BY DEF Commit
  <1> HIDE DEF u, e
  <1>5. Chained(0, Append(ledger[u], e), ToLedger(after))
    BY <1>1, <1>2, <1>3, ChainAppend DEF TypeOK, LedgerChain
  <1>6. ASSUME NEW v \in Users PROVE Chained(0, ledger'[v], ToLedger(wallet'[v]))
    <2>1. CASE v = u
      <3>1. ledger'[v] = Append(ledger[u], e) /\ wallet'[v] = after
        BY <1>4, <2>1 DEF TypeOK
      <3> QED BY <1>5, <3>1
    <2>2. CASE v # u
      <3>1. ledger'[v] = ledger[v] /\ wallet'[v] = wallet[v]
        BY <1>4, <2>2 DEF TypeOK
      <3> QED BY <3>1 DEF LedgerChain
    <2> QED BY <2>1, <2>2
  <1> QED BY <1>6 DEF LedgerChain, Chained, ToLedger

LEMMA ChainStep == TypeInv /\ LockInv /\ LedgerChain /\ [Next]_vars => LedgerChain'
  <1> SUFFICES ASSUME TypeInv, LockInv, LedgerChain, [Next]_vars PROVE LedgerChain'
    OBVIOUS
  <1> USE ActorsSplit DEF TypeInv
  <1>1. ASSUME NEW r \in Requests, CommitDebit(r) PROVE LedgerChain'
    <2>1. tx[r] \in Transactions
      BY <1>1 DEF CommitDebit, TypeOK, TxInv
    <2>2. AfterUsage(tx[r].before, tx[r].amount) \in Nat
      BY <2>1 DEF AfterUsage, Transactions
    <2> QED BY <1>1, <2>1, <2>2, CommitChains DEF CommitDebit
  <1>2. ASSUME NEW a \in AdminOps, CommitAdmin(a) PROVE LedgerChain'
    <2>1. tx[a] \in Transactions
      BY <1>2 DEF CommitAdmin, TypeOK, TxInv
    <2>2. AfterAdmin(tx[a]) \in Nat
      BY <1>2, <2>1 DEF CommitAdmin, AfterAdmin, Transactions
    <2> QED BY <1>2, <2>1, <2>2, CommitChains DEF CommitAdmin
  <1>3. CASE UNCHANGED <<wallet, ledger>>
    BY <1>3 DEF LedgerChain, Chained, ToLedger
  <1> QED BY <1>1, <1>2, <1>3
          DEF Next, Task, Debit, AdminStep, Admit, Reject, Finish, WriteLog, LogFails,
              BeginDebit, CheckRefuses, DebitFails, BeginAdmin, AdminFails,
              Rollback, Crash, vars

LEMMA LockInit == Init => LockInv /\ LedgerChain
  BY ToLedgerZero DEF Init, LockInv, LedgerChain, Chained

(* The ledger of every wallet is an unbroken history of its balance: the   *)
(* row lock makes each transaction's reading of the balance current when   *)
(* it commits.                                                             *)
THEOREM BillingLedgerChain == Spec => []LedgerChain
  <1> QED BY TypeInvInit, TypeInvStep, LockInit, LockStep, ChainStep, PTL DEF Spec

-----------------------------------------------------------------------------
(* Charges and log rows *)

EntryMatches(u, i) ==
    LET e == ledger[u][i]
        r == e.by
    IN  r \in Requests =>
          /\ pc[r] = "settled"
          /\ Owner[r] = u
          /\ r \in logs
          /\ bill[r].success
          /\ e.direction = "debit"
          /\ e.amount = ToLedger(bill[r].billable)
          /\ \A j \in 1 .. Len(ledger[u]) : ledger[u][j].by = r => j = i

(* Only a settled request can have been charged; one whose debit is        *)
(* pending has its row and is chargeable; and bills are what the handler   *)
(* admitted and the upstream reported.                                     *)
ChargeInv ==
    /\ \A u \in Users : \A i \in 1 .. Len(ledger[u]) : EntryMatches(u, i)
    /\ \A r \in Requests : pc[r] \in {"logged", "debiting"} =>
            r \in logs /\ bill[r].success
    /\ \A r \in Requests : bill[r].reserve <= bill[r].snapshot
    /\ \A r \in Requests : pc[r] \in {"queued", "logged", "debiting"} =>
            bill[r].billable \in Billables
    /\ \A a \in AdminOps : tx[a] # NoTx => tx[a].amount \in AdminAmounts

LEMMA ChargeInvInit == Init => ChargeInv
  BY ActorsSplit DEF Init, ChargeInv

(* A step that writes no ledger and keeps what the entries refer to. *)
LEMMA ChargesKept ==
    ASSUME TypeOK, ChargeInv, UNCHANGED ledger, logs \subseteq logs',
           \A r \in Requests : pc[r] = "settled" => pc'[r] = "settled" /\ bill'[r] = bill[r]
    PROVE  \A u \in Users : \A i \in 1 .. Len(ledger'[u]) : EntryMatches(u, i)'
  <1> SUFFICES ASSUME NEW u \in Users, NEW i \in 1 .. Len(ledger[u]),
                      ledger[u][i].by \in Requests
               PROVE  EntryMatches(u, i)'
    BY DEF EntryMatches
  <1>1. EntryMatches(u, i)
    BY DEF ChargeInv
  <1> QED BY <1>1 DEF EntryMatches, ToLedger

(* What a commit appends, and to which ledger. *)
LEMMA CommitAppends ==
    ASSUME TypeOK, NEW x \in Actors, tx[x] \in Transactions, NEW after, Commit(x, after)
    PROVE  LET u == tx[x].user
               n == Len(ledger[u])
           IN  /\ u \in Users
               /\ \A v \in Users : v # u => ledger'[v] = ledger[v]
               /\ n \in Nat
               /\ Len(ledger'[u]) = n + 1
               /\ \A i \in 1 .. n : ledger'[u][i] = ledger[u][i]
               /\ ledger'[u][n + 1].by = x
               /\ ledger'[u][n + 1].direction = tx[x].direction
               /\ ledger'[u][n + 1].amount = ToLedger(tx[x].amount)
               /\ ledger'[u][n + 1].before = ToLedger(tx[x].before)
  <1> DEFINE u == tx[x].user
             e == [direction |-> tx[x].direction,
                   amount    |-> ToLedger(tx[x].amount),
                   before    |-> ToLedger(tx[x].before),
                   after     |-> ToLedger(after),
                   by        |-> x]
  <1>1. u \in Users
    BY DEF Transactions
  <1>2. ledger' = [ledger EXCEPT ![u] = Append(ledger[u], e)]
    BY DEF Commit
  <1>3. /\ e.by = x /\ e.direction = tx[x].direction
        /\ e.amount = ToLedger(tx[x].amount) /\ e.before = ToLedger(tx[x].before)
    OBVIOUS
  <1> HIDE DEF u, e
  <1>4. ledger[u] \in Seq(Entries)
    BY <1>1 DEF TypeOK
  <1>5. /\ ledger'[u] = Append(ledger[u], e)
        /\ \A v \in Users : v # u => ledger'[v] = ledger[v]
    BY <1>1, <1>2 DEF TypeOK
  <1>6. /\ Len(ledger[u]) \in Nat
        /\ Len(ledger'[u]) = Len(ledger[u]) + 1
        /\ \A i \in 1 .. Len(ledger[u]) : ledger'[u][i] = ledger[u][i]
        /\ ledger'[u][Len(ledger[u]) + 1] = e
    BY <1>4, <1>5
  <1> QED BY <1>1, <1>3, <1>5, <1>6 DEF u

(* The commit of a pending debit appends the one entry of its request. *)
LEMMA DebitMatches ==
    ASSUME TypeInv, ChargeInv, NEW r \in Requests, CommitDebit(r)
    PROVE  \A u \in Users : \A i \in 1 .. Len(ledger'[u]) : EntryMatches(u, i)'
  <1> USE ActorsSplit DEF TypeInv
  <1>1. /\ pc[r] = "debiting" /\ tx[r] \in Transactions
        /\ Commit(r, AfterUsage(tx[r].before, tx[r].amount))
    BY DEF CommitDebit, TypeOK, TxInv
  <1>2. /\ tx[r].user = Owner[r] /\ tx[r].direction = "debit"
        /\ tx[r].amount = bill[r].billable
    BY <1>1 DEF TxInv
  <1>3. /\ UNCHANGED <<logs, bill>> /\ pc'[r] = "settled"
        /\ \A q \in Requests : q # r => pc'[q] = pc[q]
    BY DEF CommitDebit, TypeOK
  <1>4. r \in logs /\ bill[r].success
    BY <1>1 DEF ChargeInv
  <1> DEFINE o == Owner[r]
             n == Len(ledger[o])
  <1>5. /\ o \in Users
        /\ \A v \in Users : v # o => ledger'[v] = ledger[v]
        /\ n \in Nat
        /\ Len(ledger'[o]) = n + 1
        /\ \A i \in 1 .. n : ledger'[o][i] = ledger[o][i]
        /\ ledger'[o][n + 1].by = r
        /\ ledger'[o][n + 1].direction = "debit"
        /\ ledger'[o][n + 1].amount = ToLedger(bill[r].billable)
    BY <1>1, <1>2, CommitAppends
  <1>6. \A u \in Users : \A i \in 1 .. Len(ledger[u]) :
            EntryMatches(u, i) /\ ledger[u][i].by # r
    BY <1>1 DEF ChargeInv, EntryMatches
  <1> HIDE DEF o, n
  <1> SUFFICES ASSUME NEW u \in Users, NEW i \in 1 .. Len(ledger'[u])
               PROVE  EntryMatches(u, i)'
    OBVIOUS
  <1>7. CASE u # o
    <2>1. ledger'[u] = ledger[u] /\ EntryMatches(u, i) /\ ledger[u][i].by # r
      BY <1>5, <1>6, <1>7
    <2> QED BY <1>3, <2>1 DEF EntryMatches, ToLedger
  <1>8. CASE u = o /\ i \in 1 .. n
    <2>1. /\ ledger'[u][i] = ledger[u][i] /\ EntryMatches(u, i)
          /\ ledger[u][i].by # r
      BY <1>5, <1>6, <1>8 DEF n
    <2>2. ledger'[u][n + 1].by # ledger'[u][i].by
      BY <1>5, <1>8, <2>1
    <2>3. ASSUME NEW j \in 1 .. Len(ledger'[u]), ledger'[u][j].by = ledger'[u][i].by,
                 ledger[u][i].by \in Requests
          PROVE  j = i
      <3>1. j \in 1 .. n
        BY <1>5, <1>8, <2>2, <2>3
      <3>2. ledger'[u][j] = ledger[u][j]
        BY <1>5, <1>8, <3>1
      <3> QED BY <1>8, <2>1, <2>3, <3>1, <3>2 DEF EntryMatches, n
    <2> QED BY <1>3, <2>1, <2>3 DEF EntryMatches, ToLedger
  <1>9. CASE u = o /\ i = n + 1
    <2>1. \A j \in 1 .. Len(ledger'[u]) : ledger'[u][j].by = r => j = i
      <3> SUFFICES ASSUME NEW j \in 1 .. n PROVE ledger'[o][j].by # r
        BY <1>5, <1>9
      <3> QED BY <1>5, <1>6 DEF n
    <2> QED BY <1>3, <1>4, <1>5, <1>9, <2>1 DEF EntryMatches, ToLedger, o
  <1>10. i \in 1 .. n \/ i = n + 1 \/ u # o
    BY <1>5
  <1> QED BY <1>7, <1>8, <1>9, <1>10

(* An administrator's commit appends an entry of no request. *)
LEMMA AdminMatches ==
    ASSUME TypeInv, ChargeInv, NEW a \in AdminOps, CommitAdmin(a)
    PROVE  \A u \in Users : \A i \in 1 .. Len(ledger'[u]) : EntryMatches(u, i)'
  <1> USE ActorsSplit DEF TypeInv
  <1>1. tx[a] \in Transactions /\ Commit(a, AfterAdmin(tx[a]))
    BY DEF CommitAdmin, TypeOK, TxInv
  <1>2. UNCHANGED <<logs, pc, bill>>
    BY DEF CommitAdmin
  <1> DEFINE o == tx[a].user
             n == Len(ledger[o])
  <1>3. /\ o \in Users
        /\ \A v \in Users : v # o => ledger'[v] = ledger[v]
        /\ n \in Nat
        /\ Len(ledger'[o]) = n + 1
        /\ \A i \in 1 .. n : ledger'[o][i] = ledger[o][i]
        /\ ledger'[o][n + 1].by = a
    BY <1>1, CommitAppends
  <1>4. \A u \in Users : \A i \in 1 .. Len(ledger[u]) : EntryMatches(u, i)
    BY DEF ChargeInv
  <1> HIDE DEF o, n
  <1> SUFFICES ASSUME NEW u \in Users, NEW i \in 1 .. Len(ledger'[u]),
                      ledger'[u][i].by \in Requests
               PROVE  EntryMatches(u, i)'
    BY DEF EntryMatches
  <1>5. i \in 1 .. Len(ledger[u]) /\ ledger'[u][i] = ledger[u][i]
    BY <1>3 DEF n
  <1>6. \A j \in 1 .. Len(ledger'[u]) : ledger'[u][j].by \in Requests =>
            j \in 1 .. Len(ledger[u]) /\ ledger'[u][j] = ledger[u][j]
    BY <1>3 DEF n
  <1> QED BY <1>2, <1>4, <1>5, <1>6 DEF EntryMatches, ToLedger

LEMMA ChargeInvStep == TypeInv /\ ChargeInv /\ [Next]_vars => ChargeInv'
  <1> SUFFICES ASSUME TypeInv, ChargeInv, [Next]_vars PROVE ChargeInv'
    OBVIOUS
  <1> USE ActorsSplit DEF TypeInv
  <1> DEFINE Matches == \A u \in Users : \A i \in 1 .. Len(ledger[u]) : EntryMatches(u, i)
  <1>1. ASSUME NEW r \in Requests, Admit(r) PROVE ChargeInv'
    <2>1. Matches'
      BY <1>1, ChargesKept DEF Admit, TypeOK
    <2>2. PICK reserve \in Reserves :
             /\ Covers(wallet[Owner[r]], reserve)
             /\ bill' = [bill EXCEPT ![r] =
                           [reserve |-> reserve, snapshot |-> wallet[Owner[r]],
                            success |-> FALSE, billable |-> 0]]
      BY <1>1 DEF Admit
    <2>3. reserve <= wallet[Owner[r]]
      BY <2>2, BillingAssumption DEF Covers, TypeOK
    <2>4. \A q \in Requests : bill'[q].reserve <= bill'[q].snapshot
      BY <2>2, <2>3 DEF ChargeInv, TypeOK
    <2> QED BY <1>1, <2>1, <2>2, <2>4 DEF Admit, ChargeInv, TypeOK
  <1>2. ASSUME NEW r \in Requests, Finish(r) PROVE ChargeInv'
    <2>1. Matches'
      BY <1>2, ChargesKept DEF Finish, TypeOK
    <2>2. PICK success \in BOOLEAN, billable \in Billables :
             bill' = [bill EXCEPT ![r] =
                        [reserve |-> bill[r].reserve, snapshot |-> bill[r].snapshot,
                         success |-> success, billable |-> billable]]
      BY <1>2 DEF Finish
    <2>3. \A q \in Requests : bill'[q].reserve <= bill'[q].snapshot
      BY <2>2 DEF ChargeInv, TypeOK
    <2> QED BY <1>2, <2>1, <2>2, <2>3 DEF Finish, ChargeInv, TypeOK
  <1>3. ASSUME NEW r \in Requests, WriteLog(r) PROVE ChargeInv'
    <2>1. Matches'
      BY <1>3, ChargesKept DEF WriteLog, TypeOK
    <2> QED BY <1>3, <2>1 DEF WriteLog, Chargeable, ChargeInv, TypeOK
  <1>4. ASSUME NEW r \in Requests, CommitDebit(r) PROVE ChargeInv'
    <2>1. Matches'
      BY <1>4, DebitMatches
    <2> QED BY <1>4, <2>1 DEF CommitDebit, Commit, ChargeInv, TypeOK
  <1>5. ASSUME NEW a \in AdminOps, BeginAdmin(a) PROVE ChargeInv'
    <2>1. Matches'
      BY <1>5, ChargesKept DEF BeginAdmin
    <2>2. PICK u \in Users, direction \in Directions, amount \in AdminAmounts :
             Begin(a, u, direction, amount)
      BY <1>5 DEF BeginAdmin
    <2>3. /\ tx'[a].amount \in AdminAmounts
          /\ \A y \in Actors : y # a => tx'[y] = tx[y]
      BY <2>2 DEF Begin, TypeOK
    <2> QED BY <1>5, <2>1, <2>3 DEF BeginAdmin, ChargeInv
  <1>6. ASSUME NEW a \in AdminOps, CommitAdmin(a) PROVE ChargeInv'
    <2>1. Matches'
      BY <1>6, AdminMatches
    <2> QED BY <1>6, <2>1 DEF CommitAdmin, Commit, ChargeInv, TypeOK
  <1>7. ASSUME NEW r \in Requests, BeginDebit(r) PROVE ChargeInv'
    <2>1. Matches'
      BY <1>7, ChargesKept DEF BeginDebit, TypeOK
    <2> QED BY <1>7, <2>1 DEF BeginDebit, Begin, ChargeInv, TypeOK
  <1>8. ASSUME NEW r \in Requests,
               Reject(r) \/ LogFails(r) \/ CheckRefuses(r) \/ DebitFails(r)
        PROVE  ChargeInv'
    <2>1. Matches'
      BY <1>8, ChargesKept DEF Reject, LogFails, CheckRefuses, DebitFails, Rollback, TypeOK
    <2> QED BY <1>8, <2>1
            DEF Reject, LogFails, CheckRefuses, DebitFails, Rollback, ChargeInv, TypeOK
  <1>9. ASSUME NEW a \in AdminOps, AdminFails(a) PROVE ChargeInv'
    <2>1. Matches'
      BY <1>9, ChargesKept DEF AdminFails, Rollback
    <2> QED BY <1>9, <2>1 DEF AdminFails, Rollback, ChargeInv, TypeOK
  <1>10. CASE Crash
    <2>1. Matches'
      BY <1>10, ChargesKept DEF Crash, Volatile, TypeOK
    <2> QED BY <1>10, <2>1 DEF Crash, Volatile, ChargeInv, TypeOK
  <1>11. CASE UNCHANGED vars
    <2>1. Matches'
      BY <1>11, ChargesKept DEF vars
    <2> QED BY <1>11, <2>1 DEF vars, ChargeInv
  <1> QED BY <1>1, <1>2, <1>3, <1>4, <1>5, <1>6, <1>7, <1>8, <1>9, <1>10, <1>11
          DEF Next, Task, Debit, AdminStep

(* A request is charged at most once, and only what its log row shows. *)
THEOREM BillingChargesMatchLogs == Spec => []ChargesMatchLogs
  <1>1. ChargeInv => ChargesMatchLogs
    BY DEF ChargeInv, EntryMatches, ChargesMatchLogs
  <1> QED BY TypeInvInit, TypeInvStep, ChargeInvInit, ChargeInvStep, <1>1, PTL DEF Spec

LEMMA ToLedgerMonotone ==
    ASSUME NEW a \in Nat, NEW b \in Nat, a <= b
    PROVE  ToLedger(a) <= ToLedger(b)
  <1> DEFINE d == 2 * LedgerUnit
  <1>1. d \in Nat \ {0} /\ LedgerUnit \in Nat
    BY BillingAssumption
  <1>2. \A i \in Nat, j \in Nat, k \in Nat \ {0} : i <= j => i \div k <= j \div k
    BY SMT
  <1>3. (2 * a + LedgerUnit) \div d <= (2 * b + LedgerUnit) \div d
    BY <1>1, <1>2
  <1> QED BY <1>3 DEF ToLedger

(* A charge within its reserve is cut short only when the wallet has been  *)
(* drawn on since the reserve was checked.                                 *)
THEOREM BillingShortfallNeedsARace == Spec => []ShortfallNeedsARace
  <1>1. TypeInv /\ ChargeInv => ShortfallNeedsARace
    <2> SUFFICES ASSUME TypeInv, ChargeInv, NEW u \in Users,
                        NEW i \in 1 .. Len(ledger[u]),
                        ledger[u][i].by \in Requests,
                        bill[ledger[u][i].by].billable <= bill[ledger[u][i].by].reserve,
                        ledger[u][i].amount > ledger[u][i].before
                 PROVE  ledger[u][i].before < ToLedger(bill[ledger[u][i].by].snapshot)
      BY DEF ShortfallNeedsARace
    <2> DEFINE r == ledger[u][i].by
    <2>1. bill[r].billable \in Nat /\ bill[r].reserve \in Nat /\ bill[r].snapshot \in Nat
      BY DEF TypeInv, TypeOK, Bills
    <2>2. bill[r].billable <= bill[r].snapshot
      BY <2>1 DEF ChargeInv
    <2>3. ledger[u][i].amount = ToLedger(bill[r].billable)
      BY DEF ChargeInv, EntryMatches
    <2>4. /\ ToLedger(bill[r].billable) <= ToLedger(bill[r].snapshot)
          /\ ToLedger(bill[r].billable) \in Nat /\ ToLedger(bill[r].snapshot) \in Nat
      BY <2>1, <2>2, ToLedgerMonotone, ToLedgerNat
    <2>5. ledger[u] \in Seq(Entries)
      BY DEF TypeInv, TypeOK
    <2>6. ledger[u][i] \in Entries
      BY <2>5
    <2>7. ledger[u][i].before \in Nat
      BY <2>6 DEF Entries
    <2> QED BY <2>3, <2>4, <2>7
  <1> QED BY TypeInvInit, TypeInvStep, ChargeInvInit, ChargeInvStep, <1>1, PTL DEF Spec
-----------------------------------------------------------------------------
(* Billing implements WalletAccount *)

LEMMA UnchargedBeforeCommit ==
    ASSUME TypeInv, ChargeInv, NEW r \in Requests, pc[r] # "settled"
    PROVE  r \notin Charged
  <1>1. Owner[r] \in Users
    BY ActorsSplit
  <1> QED BY <1>1 DEF Charged, ChargeInv, EntryMatches

(* A commit charges its actor if that is a request, and nobody else. *)
LEMMA CommitCharges ==
    ASSUME TypeInv, NEW x \in Actors, tx[x] \in Transactions, NEW after, Commit(x, after),
           x \in Requests => tx[x].user = Owner[x]
    PROVE  Charged' = Charged \cup ({x} \cap Requests)
  <1> DEFINE u == tx[x].user
             n == Len(ledger[u])
  <1>1. /\ u \in Users
        /\ \A v \in Users : v # u => ledger'[v] = ledger[v]
        /\ n \in Nat
        /\ Len(ledger'[u]) = n + 1
        /\ \A i \in 1 .. n : ledger'[u][i] = ledger[u][i]
        /\ ledger'[u][n + 1].by = x
    BY CommitAppends DEF TypeInv
  <1> HIDE DEF u
  <1>2. ASSUME NEW r \in Requests, r # x PROVE r \in Charged' <=> r \in Charged
    <2>1. Owner[r] \in Users
      BY ActorsSplit
    <2>2. CASE Owner[r] # u
      BY <1>1, <2>1, <2>2 DEF Charged
    <2>3. CASE Owner[r] = u
      <3>1. \A i \in 1 .. n + 1 : ledger'[u][i].by = r => i \in 1 .. n
        BY <1>1, <1>2
      <3>2. (\E i \in 1 .. n + 1 : ledger'[u][i].by = r)
            <=> (\E i \in 1 .. n : ledger[u][i].by = r)
        BY <1>1, <3>1
      <3> QED BY <1>1, <2>3, <3>2 DEF Charged
    <2> QED BY <2>2, <2>3
  <1>3. x \in Requests => x \in Charged'
    <2> SUFFICES ASSUME x \in Requests PROVE x \in Charged'
      OBVIOUS
    <2>1. Owner[x] = u
      BY DEF u
    <2>2. n + 1 \in 1 .. Len(ledger'[u])
      BY <1>1
    <2> QED BY <1>1, <2>1, <2>2 DEF Charged
  <1>4. Charged \subseteq Requests /\ Charged' \subseteq Requests
    BY DEF Charged
  <1> QED BY <1>2, <1>3, <1>4

LEMMA AccountInit == Init => Account!Init
  BY ActorsSplit DEF Init, Account!Init, Charged

LEMMA AccountStep ==
    TypeInv /\ LockInv /\ ChargeInv /\ [Next]_vars => [Account!Next]_<<wallet, Charged>>
  <1> SUFFICES ASSUME TypeInv, LockInv, ChargeInv, [Next]_vars
               PROVE  [Account!Next]_<<wallet, Charged>>
    OBVIOUS
  <1> USE ActorsSplit
  <1>1. ASSUME NEW r \in Requests, CommitDebit(r) PROVE Account!Next
    <2>1. /\ pc[r] = "debiting" /\ tx[r] # NoTx /\ tx[r] \in Transactions
          /\ Commit(r, AfterUsage(tx[r].before, tx[r].amount))
      BY <1>1 DEF CommitDebit, TypeInv, TypeOK, TxInv
    <2>2. /\ tx[r].user = Owner[r] /\ tx[r].amount = bill[r].billable
          /\ bill[r].billable \in Amounts
      BY <2>1 DEF TypeInv, TxInv, ChargeInv, Amounts
    <2>3. tx[r].before = wallet[Owner[r]]
      BY <2>1, <2>2 DEF LockInv
    <2>4. Charged' = Charged \cup {r}
      BY <2>1, <2>2, CommitCharges
    <2>5. r \notin Charged
      BY <2>1, UnchargedBeforeCommit
    <2>6. wallet' = [wallet EXCEPT ![Owner[r]] =
                        IF @ >= bill[r].billable THEN @ - bill[r].billable ELSE 0]
      BY <2>1, <2>2, <2>3 DEF Commit, AfterUsage
    <2>7. Account!Charge(Owner[r], bill[r].billable, r)
      BY <2>4, <2>5, <2>6 DEF Account!Charge
    <2> QED BY <2>2, <2>7 DEF Account!Next
  <1>2. ASSUME NEW a \in AdminOps, CommitAdmin(a) PROVE Account!Next
    <2> DEFINE u == tx[a].user
               amount == tx[a].amount
    <2>1. /\ tx[a] # NoTx /\ tx[a] \in Transactions
          /\ AfterAdmin(tx[a]) >= 0 /\ Commit(a, AfterAdmin(tx[a]))
      BY <1>2 DEF CommitAdmin, TypeInv, TypeOK, TxInv
    <2>2. /\ u \in Users /\ amount \in Amounts /\ amount \in Nat
          /\ wallet[u] \in Nat /\ tx[a].direction \in Directions
      BY <2>1, BillingAssumption DEF ChargeInv, Amounts, Transactions, TypeInv, TypeOK
    <2>3. tx[a].before = wallet[u]
      BY <2>1 DEF LockInv
    <2>4. UNCHANGED Charged
      BY <2>1, CommitCharges
    <2>5. wallet' = [wallet EXCEPT ![u] = AfterAdmin(tx[a])]
      BY <2>1 DEF Commit
    <2>6. CASE tx[a].direction = "credit"
      <3>1. Account!Credit(u, amount)
        BY <2>3, <2>4, <2>5, <2>6 DEF AfterAdmin, Account!Credit
      <3> QED BY <2>2, <3>1 DEF Account!Next
    <2>7. CASE tx[a].direction = "debit"
      <3>1. wallet[u] >= amount
        BY <2>1, <2>2, <2>3, <2>7 DEF AfterAdmin
      <3>2. Account!Correct(u, amount)
        BY <2>3, <2>4, <2>5, <2>7, <3>1 DEF AfterAdmin, Account!Correct
      <3> QED BY <2>2, <3>2 DEF Account!Next
    <2> QED BY <2>2, <2>6, <2>7 DEF Directions
  <1>3. CASE UNCHANGED <<wallet, ledger>>
    BY <1>3 DEF Charged
  <1> QED BY <1>1, <1>2, <1>3
          DEF Next, Task, Debit, AdminStep, Admit, Reject, Finish, WriteLog, LogFails,
              BeginDebit, CheckRefuses, DebitFails, BeginAdmin, AdminFails,
              Rollback, Crash, vars

(* The wallet behaves as if every transaction were a single step on it.    *)
THEOREM BillingImplementsAccount == Spec => AccountSpec
  <1> QED BY TypeInvInit, TypeInvStep, LockInit, LockStep, ChargeInvInit, ChargeInvStep,
             AccountInit, AccountStep, PTL
          DEF Spec, AccountSpec, Account!Spec, Account!accountVars
-----------------------------------------------------------------------------
(* The reconciliation of a wallet with its ledger *)

(* Rounding to the ledger is off by half a ledger unit at most. *)
LEMMA ToLedgerClose ==
    ASSUME NEW a \in Nat
    PROVE  /\ LedgerUnit * ToLedger(a) \in Nat
           /\ 2 * (a - LedgerUnit * ToLedger(a)) <= LedgerUnit
           /\ 2 * (LedgerUnit * ToLedger(a) - a) <= LedgerUnit
  <1>1. PICK l \in Nat \ {0} : l = LedgerUnit
    BY BillingAssumption
  <1>2. PICK q \in Nat : q = ToLedger(a)
    BY ToLedgerNat
  <1>3. PICK n \in Nat : n = 2 * a + l
    OBVIOUS
  <1>4. PICK d \in Nat \ {0} : d = 2 * l
    OBVIOUS
  <1>5. q = n \div d
    BY <1>1, <1>2, <1>3, <1>4 DEF ToLedger
  <1>6. \A i \in Nat, j \in Nat \ {0} : (i \div j) * j <= i /\ i < (i \div j) * j + j
    BY SMT
  <1>7. q * d <= n /\ n < q * d + d
    BY <1>5, <1>6
  <1>8. PICK p \in Nat : p = l * q
    OBVIOUS
  <1>9. q * d = 2 * p
    BY <1>4, <1>8
  <1>10. 2 * p <= 2 * a + l /\ 2 * a + l < 2 * p + 2 * l
    BY <1>3, <1>4, <1>7, <1>9
  <1>11. 2 * (a - p) <= l /\ 2 * (p - a) <= l
    BY <1>10
  <1>12. QED
    BY <1>1, <1>2, <1>8, <1>11

(* The balance w is within half a ledger unit per entry of what the ledger *)
(* accounts for.                                                           *)
Close(w, p, n) == 2 * (w - p) <= LedgerUnit * n /\ 2 * (p - w) <= LedgerUnit * n

LEMMA CloseIsDistance ==
    ASSUME NEW w \in Nat, NEW p \in Int, NEW n \in Nat
    PROVE  Close(w, p, n) <=> 2 * Distance(w, p) <= LedgerUnit * n
  <1>1. PICK c \in Nat : c = LedgerUnit * n
    BY BillingAssumption
  <1>2. Close(w, p, n) <=> 2 * (w - p) <= c /\ 2 * (p - w) <= c
    BY <1>1 DEF Close
  <1>3. 2 * Distance(w, p) <= c <=> 2 * (w - p) <= c /\ 2 * (p - w) <= c
    BY DEF Distance
  <1>4. QED
    BY <1>1, <1>2, <1>3

LEMMA CloseStep ==
    ASSUME NEW w \in Nat, NEW v \in Nat, NEW s \in Int, NEW t \in Int, NEW n \in Nat,
           Close(w, LedgerUnit * s, n),
           2 * ((v - w) - LedgerUnit * t) <= LedgerUnit,
           2 * (LedgerUnit * t - (v - w)) <= LedgerUnit
    PROVE  Close(v, LedgerUnit * (s + t), n + 1)
  <1>1. PICK l \in Nat : l = LedgerUnit
    BY BillingAssumption
  <1>2. PICK p \in Int : p = l * s
    OBVIOUS
  <1>3. PICK q \in Int : q = l * t
    OBVIOUS
  <1>4. PICK c \in Nat : c = l * n
    OBVIOUS
  <1>5. l * (s + t) = p + q /\ l * (n + 1) = c + l
    BY <1>2, <1>3, <1>4
  <1>6. /\ 2 * (w - p) <= c /\ 2 * (p - w) <= c
        /\ 2 * ((v - w) - q) <= l /\ 2 * (q - (v - w)) <= l
    BY <1>1, <1>2, <1>3, <1>4 DEF Close
  <1>7. 2 * (v - (p + q)) <= c + l /\ 2 * ((p + q) - v) <= c + l
    BY <1>6
  <1>8. QED
    BY <1>1, <1>5, <1>7 DEF Close

(* What an entry says and what was written off with it tell how the        *)
(* transaction moved the balance, up to rounding.                          *)
Explains(e, w, v) ==
    LET t == Signed(e) + Shortfall(e)
    IN  /\ Signed(e) \in Int /\ Shortfall(e) \in Int
        /\ 2 * ((v - w) - LedgerUnit * t) <= LedgerUnit
        /\ 2 * (LedgerUnit * t - (v - w)) <= LedgerUnit

LEMMA AddExplains ==
    ASSUME NEW w \in Nat, NEW a \in Nat, NEW e, e.direction = "credit",
           e.amount = ToLedger(a), e.by \notin Requests
    PROVE  Explains(e, w, w + a)
  <1>1. Signed(e) = ToLedger(a) /\ Shortfall(e) = 0 /\ ToLedger(a) \in Nat
    BY ToLedgerNat DEF Signed, Shortfall
  <1>2. Signed(e) + Shortfall(e) = ToLedger(a) /\ (w + a) - w = a
    BY <1>1
  <1>3. QED
    BY <1>1, <1>2, ToLedgerClose DEF Explains

LEMMA NegativeClose ==
    ASSUME NEW a \in Nat
    PROVE  /\ 2 * ((0 - a) - LedgerUnit * (0 - ToLedger(a))) <= LedgerUnit
           /\ 2 * (LedgerUnit * (0 - ToLedger(a)) - (0 - a)) <= LedgerUnit
  <1>1. PICK l \in Nat : l = LedgerUnit
    BY BillingAssumption
  <1>2. PICK q \in Nat : q = ToLedger(a)
    BY ToLedgerNat
  <1>3. PICK p \in Nat : p = l * q
    OBVIOUS
  <1>4. l * (0 - q) = 0 - p
    BY <1>3
  <1>5. 2 * (a - p) <= l /\ 2 * (p - a) <= l
    BY <1>1, <1>2, <1>3, ToLedgerClose
  <1>6. 2 * ((0 - a) - (0 - p)) <= l /\ 2 * ((0 - p) - (0 - a)) <= l
    BY <1>5
  <1>7. QED
    BY <1>1, <1>2, <1>4, <1>6

LEMMA SubtractExplains ==
    ASSUME NEW w \in Nat, NEW a \in Nat, a <= w, NEW e, e.direction = "debit",
           e.amount = ToLedger(a), e.by \in Requests => e.before = ToLedger(w)
    PROVE  Explains(e, w, w - a)
  <1>1. ToLedger(a) \in Nat /\ ToLedger(w) \in Nat /\ ToLedger(a) <= ToLedger(w)
    BY ToLedgerNat, ToLedgerMonotone
  <1>2. Signed(e) = 0 - ToLedger(a) /\ Shortfall(e) = 0
    BY <1>1 DEF Signed, Shortfall
  <1>3. Signed(e) + Shortfall(e) = 0 - ToLedger(a) /\ (w - a) - w = 0 - a
    BY <1>1, <1>2
  <1>4. QED
    BY <1>1, <1>2, <1>3, NegativeClose DEF Explains

LEMMA CutShortExplains ==
    ASSUME NEW w \in Nat, NEW a \in Nat, w <= a, NEW e, e.direction = "debit",
           e.amount = ToLedger(a), e.before = ToLedger(w), e.by \in Requests
    PROVE  Explains(e, w, 0)
  <1>1. ToLedger(a) \in Nat /\ ToLedger(w) \in Nat /\ ToLedger(w) <= ToLedger(a)
    BY ToLedgerNat, ToLedgerMonotone
  <1>2. Signed(e) = 0 - ToLedger(a) /\ Shortfall(e) = ToLedger(a) - ToLedger(w)
    BY <1>1 DEF Signed, Shortfall
  <1>3. Signed(e) + Shortfall(e) = 0 - ToLedger(w) /\ 0 - w = 0 - w
    BY <1>1, <1>2
  <1>4. QED
    BY <1>1, <1>2, <1>3, NegativeClose DEF Explains

(* What a ledger adds up to, and what was written off along it. *)
NetOf(entries) == SumFunction([i \in DOMAIN entries |-> Signed(entries[i])])
LossOf(entries) == SumFunction([i \in DOMAIN entries |-> Shortfall(entries[i])])

LEMMA EntryAmounts ==
    ASSUME NEW e \in Entries
    PROVE  Signed(e) \in Int /\ Shortfall(e) \in Int
  <1>1. e.amount \in Nat /\ e.before \in Nat
    BY DEF Entries
  <1>2. QED
    BY <1>1 DEF Signed, Shortfall

LEMMA EmptyLedger == NetOf(<<>>) = 0 /\ LossOf(<<>>) = 0
  <1>1. \A f : DOMAIN f = {} => SumFunction(f) = 0
    BY SumEmpty DEF SumFunction
  <1>2. DOMAIN <<>> = {}
    OBVIOUS
  <1>3. QED
    BY <1>1, <1>2 DEF NetOf, LossOf

(* An appended entry adds its own amount and shortfall. *)
LEMMA LedgerGrows ==
    ASSUME NEW s \in Seq(Entries), NEW t \in Seq(Entries), Len(t) = Len(s) + 1,
           \A i \in 1 .. Len(s) : t[i] = s[i]
    PROVE  /\ NetOf(s) \in Int /\ LossOf(s) \in Int
           /\ NetOf(t) = NetOf(s) + Signed(t[Len(t)])
           /\ LossOf(t) = LossOf(s) + Shortfall(t[Len(t)])
  <1>1. PICK n \in Nat : n = Len(s)
    OBVIOUS
  <1>2. /\ DOMAIN s = 1 .. n /\ DOMAIN t = 1 .. (n + 1) /\ Len(t) = n + 1
        /\ \A i \in 1 .. n : t[i] = s[i] /\ s[i] \in Entries
        /\ t[n + 1] \in Entries
    BY <1>1
  <1>3. /\ SumFunction([i \in 1 .. n |-> Signed(s[i])]) \in Int
        /\ SumFunction([i \in 1 .. (n + 1) |-> Signed(t[i])])
             = SumFunction([i \in 1 .. n |-> Signed(s[i])]) + Signed(t[n + 1])
    <2> DEFINE f == [i \in 1 .. n |-> Signed(s[i])]
               g == [i \in 1 .. (n + 1) |-> Signed(t[i])]
    <2>1. /\ DOMAIN f = 1 .. n /\ DOMAIN g = 1 .. (n + 1)
          /\ \A i \in 1 .. n : f[i] \in Int /\ g[i] = f[i]
          /\ g[n + 1] = Signed(t[n + 1]) /\ g[n + 1] \in Int
      BY <1>2, EntryAmounts
    <2> HIDE DEF f, g
    <2>2. SumFunction(f) \in Int /\ SumFunction(g) = SumFunction(f) + g[n + 1]
      BY <2>1, SumAppend
    <2>3. QED
      BY <2>1, <2>2 DEF f, g
  <1>4. /\ SumFunction([i \in 1 .. n |-> Shortfall(s[i])]) \in Int
        /\ SumFunction([i \in 1 .. (n + 1) |-> Shortfall(t[i])])
             = SumFunction([i \in 1 .. n |-> Shortfall(s[i])]) + Shortfall(t[n + 1])
    <2> DEFINE f == [i \in 1 .. n |-> Shortfall(s[i])]
               g == [i \in 1 .. (n + 1) |-> Shortfall(t[i])]
    <2>1. /\ DOMAIN f = 1 .. n /\ DOMAIN g = 1 .. (n + 1)
          /\ \A i \in 1 .. n : f[i] \in Int /\ g[i] = f[i]
          /\ g[n + 1] = Shortfall(t[n + 1]) /\ g[n + 1] \in Int
      BY <1>2, EntryAmounts
    <2> HIDE DEF f, g
    <2>2. SumFunction(f) \in Int /\ SumFunction(g) = SumFunction(f) + g[n + 1]
      BY <2>1, SumAppend
    <2>3. QED
      BY <2>1, <2>2 DEF f, g
  <1>5. QED
    BY <1>2, <1>3, <1>4 DEF NetOf, LossOf

(* A ledger accounts for a balance: up to half a ledger unit per entry,    *)
(* the balance is what the entries add up to and what was written off.     *)
Accounts(entries, w) ==
    /\ NetOf(entries) \in Int /\ LossOf(entries) \in Int
    /\ Close(w, LedgerUnit * (NetOf(entries) + LossOf(entries)), Len(entries))

DiffInv == \A u \in Users : Accounts(ledger[u], wallet[u])

LEMMA DiffInvExplains == ASSUME TypeOK, DiffInv PROVE DifferenceExplained
  <1> SUFFICES ASSUME NEW u \in Users
               PROVE  2 * Distance(wallet[u], LedgerUnit * (LedgerNetAmount(u) + WrittenOff(u)))
                          <= LedgerUnit * Len(ledger[u])
    BY DEF DifferenceExplained
  <1>1. LedgerNetAmount(u) = NetOf(ledger[u]) /\ WrittenOff(u) = LossOf(ledger[u])
    BY DEF LedgerNetAmount, WrittenOff, NetOf, LossOf
  <1>2. wallet[u] \in Nat /\ Len(ledger[u]) \in Nat
    BY DEF TypeOK
  <1>3. PICK p : p = LedgerUnit * (NetOf(ledger[u]) + LossOf(ledger[u]))
    OBVIOUS
  <1>4. p \in Int /\ Close(wallet[u], p, Len(ledger[u]))
    BY <1>3, BillingAssumption DEF DiffInv, Accounts
  <1>5. QED
    BY <1>1, <1>2, <1>3, <1>4, CloseIsDistance

LEMMA AccountsGrows ==
    ASSUME NEW s \in Seq(Entries), NEW t \in Seq(Entries), Len(t) = Len(s) + 1,
           \A i \in 1 .. Len(s) : t[i] = s[i], NEW w \in Nat, NEW v \in Nat,
           Accounts(s, w), Explains(t[Len(t)], w, v)
    PROVE  Accounts(t, v)
  <1>1. PICK n \in Nat : n = Len(s)
    OBVIOUS
  <1>2. PICK a \in Int : a = NetOf(s)
    BY DEF Accounts
  <1>3. PICK b \in Int : b = LossOf(s)
    BY DEF Accounts
  <1>4. PICK c \in Int : c = Signed(t[Len(t)])
    BY DEF Explains
  <1>5. PICK d \in Int : d = Shortfall(t[Len(t)])
    BY DEF Explains
  <1>6. NetOf(t) = a + c /\ LossOf(t) = b + d
    BY <1>2, <1>3, <1>4, <1>5, LedgerGrows
  <1>7. Close(w, LedgerUnit * (a + b), n)
    BY <1>1, <1>2, <1>3 DEF Accounts
  <1>8. /\ 2 * ((v - w) - LedgerUnit * (c + d)) <= LedgerUnit
        /\ 2 * (LedgerUnit * (c + d) - (v - w)) <= LedgerUnit
    BY <1>4, <1>5 DEF Explains
  <1>9. Close(v, LedgerUnit * ((a + b) + (c + d)), n + 1)
    <2>1. a + b \in Int /\ c + d \in Int
      OBVIOUS
    <2>2. QED
      BY <1>7, <1>8, <2>1, CloseStep
  <1>10. (a + b) + (c + d) = (a + c) + (b + d) /\ Len(t) = n + 1
    BY <1>1
  <1>11. QED
    BY <1>6, <1>9, <1>10 DEF Accounts

(* A commit whose entry explains how the balance moved. *)
LEMMA CommitAccounts ==
    ASSUME TypeOK, TypeOK', DiffInv, NEW x \in Actors, tx[x] \in Transactions,
           NEW after \in Nat, Commit(x, after),
           \A e : /\ e.by = x
                  /\ e.direction = tx[x].direction
                  /\ e.amount = ToLedger(tx[x].amount)
                  /\ e.before = ToLedger(tx[x].before)
                  => Explains(e, wallet[tx[x].user], after)
    PROVE  DiffInv'
  <1> DEFINE u == tx[x].user
             n == Len(ledger[u])
  <1>1. /\ u \in Users
        /\ \A v \in Users : v # u => ledger'[v] = ledger[v]
        /\ n \in Nat
        /\ Len(ledger'[u]) = n + 1
        /\ \A i \in 1 .. n : ledger'[u][i] = ledger[u][i]
        /\ ledger'[u][n + 1].by = x
        /\ ledger'[u][n + 1].direction = tx[x].direction
        /\ ledger'[u][n + 1].amount = ToLedger(tx[x].amount)
        /\ ledger'[u][n + 1].before = ToLedger(tx[x].before)
    BY CommitAppends
  <1>2. wallet'[u] = after /\ \A v \in Users : v # u => wallet'[v] = wallet[v]
    BY <1>1 DEF Commit, TypeOK
  <1>3. Explains(ledger'[u][n + 1], wallet[u], after)
    BY <1>1
  <1>4. ledger[u] \in Seq(Entries) /\ ledger'[u] \in Seq(Entries) /\ wallet[u] \in Nat
    BY <1>1 DEF TypeOK
  <1>5. ASSUME NEW s, s = ledger[u], NEW t, t = ledger'[u]
        PROVE  Accounts(t, after)
    <2>1. Accounts(s, wallet[u])
      BY <1>1, <1>5 DEF DiffInv
    <2> HIDE DEF u
    <2>2. QED
      BY <1>1, <1>3, <1>4, <1>5, <2>1, AccountsGrows
  <1> HIDE DEF u, n
  <1>6. ASSUME NEW v \in Users PROVE Accounts(ledger'[v], wallet'[v])
    <2>1. CASE v = u
      BY <1>2, <1>5, <2>1
    <2>2. CASE v # u
      BY <1>1, <1>2, <2>2 DEF DiffInv
    <2>3. QED
      BY <2>1, <2>2
  <1>7. ASSUME NEW v \in Users PROVE Accounts(ledger[v], wallet[v])'
    <2>1. ASSUME NEW s, s = ledger'[v], NEW w, w = wallet'[v] PROVE Accounts(s, w)
      BY <1>6, <2>1
    <2>2. QED
      BY <1>6 DEF Accounts, Close, NetOf, LossOf, Signed, Shortfall
  <1>8. QED
    BY <1>7 DEF DiffInv

(* A debit's entry explains the balance it leaves. *)
LEMMA UsageExplains ==
    ASSUME NEW w \in Nat, NEW a \in Nat, NEW e, e.direction = "debit",
           e.amount = ToLedger(a), e.before = ToLedger(w), e.by \in Requests
    PROVE  Explains(e, w, AfterUsage(w, a))
  <1>1. CASE w >= a
    <2>1. AfterUsage(w, a) = w - a /\ a <= w
      BY <1>1 DEF AfterUsage
    <2>2. QED
      BY <2>1, SubtractExplains
  <1>2. CASE ~(w >= a)
    <2>1. AfterUsage(w, a) = 0 /\ w <= a
      BY <1>2 DEF AfterUsage
    <2>2. QED
      BY <2>1, CutShortExplains
  <1>3. QED
    BY <1>1, <1>2

LEMMA DiffInvInit == Init => DiffInv
  <1> SUFFICES ASSUME Init, NEW u \in Users PROVE Accounts(ledger[u], wallet[u])
    BY DEF DiffInv
  <1>1. ledger[u] = <<>> /\ wallet[u] = 0
    BY DEF Init
  <1>2. PICK l \in Nat : l = LedgerUnit
    BY BillingAssumption
  <1>3. Close(0, l * (0 + 0), 0)
    BY <1>2 DEF Close
  <1>4. QED
    BY <1>1, <1>2, <1>3, EmptyLedger DEF Accounts

LEMMA DiffInvStep == TypeInv /\ TypeInv' /\ LockInv /\ DiffInv /\ [Next]_vars => DiffInv'
  <1> SUFFICES ASSUME TypeInv, TypeInv', LockInv, DiffInv, [Next]_vars PROVE DiffInv'
    OBVIOUS
  <1> USE ActorsSplit
  <1>0. TypeOK /\ TypeOK'
    BY DEF TypeInv
  <1>1. ASSUME NEW r \in Requests, CommitDebit(r) PROVE DiffInv'
    <2> DEFINE w == wallet[tx[r].user]
               a == tx[r].amount
    <2>1. /\ tx[r] # NoTx /\ tx[r] \in Transactions
          /\ Commit(r, AfterUsage(tx[r].before, tx[r].amount))
      BY <1>1 DEF CommitDebit, TypeInv, TypeOK, TxInv
    <2>2. tx[r].before = w /\ tx[r].direction = "debit" /\ w \in Nat /\ a \in Nat
      BY <2>1 DEF LockInv, TypeInv, TxInv, TypeOK, Transactions
    <2>3. AfterUsage(tx[r].before, tx[r].amount) \in Nat
      BY <2>2 DEF AfterUsage
    <2>4. ASSUME NEW e, e.by = r, e.direction = tx[r].direction,
                 e.amount = ToLedger(tx[r].amount), e.before = ToLedger(tx[r].before)
          PROVE  Explains(e, w, AfterUsage(tx[r].before, tx[r].amount))
      <3> HIDE DEF w, a
      <3>1. Explains(e, w, AfterUsage(w, a))
        BY <2>2, <2>4, UsageExplains DEF a
      <3>2. QED
        BY <2>2, <3>1 DEF a
    <2>5. QED
      BY <1>0, <2>1, <2>3, <2>4, CommitAccounts
  <1>2. ASSUME NEW o \in AdminOps, CommitAdmin(o) PROVE DiffInv'
    <2> DEFINE w == wallet[tx[o].user]
               a == tx[o].amount
    <2>1. /\ tx[o] # NoTx /\ tx[o] \in Transactions
          /\ AfterAdmin(tx[o]) >= 0 /\ Commit(o, AfterAdmin(tx[o]))
      BY <1>2 DEF CommitAdmin, TypeInv, TypeOK, TxInv
    <2>2. tx[o].before = w /\ w \in Nat /\ a \in Nat /\ tx[o].direction \in Directions
      BY <2>1 DEF LockInv, TypeInv, TypeOK, Transactions
    <2>3. AfterAdmin(tx[o]) \in Nat
      BY <2>1, <2>2 DEF AfterAdmin
    <2>4. ASSUME NEW e, e.by = o, e.direction = tx[o].direction,
                 e.amount = ToLedger(tx[o].amount), e.before = ToLedger(tx[o].before)
          PROVE  Explains(e, w, AfterAdmin(tx[o]))
      <3>1. ASSUME tx[o].direction = "credit" PROVE Explains(e, w, AfterAdmin(tx[o]))
        <4>1. AfterAdmin(tx[o]) = w + a
          BY <2>2, <3>1 DEF AfterAdmin
        <4> HIDE DEF w
        <4>2. QED
          BY <2>2, <2>4, <3>1, <4>1, AddExplains
      <3>2. ASSUME tx[o].direction = "debit" PROVE Explains(e, w, AfterAdmin(tx[o]))
        <4>1. AfterAdmin(tx[o]) = w - a /\ a <= w
          BY <2>1, <2>2, <3>2 DEF AfterAdmin
        <4> HIDE DEF w
        <4>2. QED
          BY <2>2, <2>4, <3>2, <4>1, SubtractExplains
      <3>3. QED
        BY <2>2, <3>1, <3>2 DEF Directions
    <2>5. QED
      BY <1>0, <2>1, <2>3, <2>4, CommitAccounts
  <1>3. CASE UNCHANGED <<wallet, ledger>>
    BY <1>3 DEF DiffInv, Accounts, Close, NetOf, LossOf, Signed, Shortfall
  <1>4. QED
    BY <1>1, <1>2, <1>3
          DEF Next, Task, Debit, AdminStep, Admit, Reject, Finish, WriteLog, LogFails,
              BeginDebit, CheckRefuses, DebitFails, BeginAdmin, AdminFails,
              Rollback, Crash, vars

(* Which requests have a log row, by how far they have got, and that a     *)
(* request is settled either because it has been charged or because there  *)
(* was nothing to charge.                                                  *)
Rowless == {"new", "forwarded", "queued", "rejected", "dropped", "unlogged"}
Due == {"logged", "debiting", "refused", "unpaid"}

RowInv ==
    /\ \A r \in Requests : pc[r] \in Rowless => r \notin logs
    /\ \A r \in Requests : pc[r] \in Due => r \in logs /\ Chargeable(r)
    /\ \A r \in logs : pc[r] = "lost" => Chargeable(r)

SettledInv ==
    \A r \in Requests : pc[r] = "settled" /\ Chargeable(r) => r \in Charged

LEMMA RowInvInit == Init => RowInv /\ SettledInv
  BY DEF Init, RowInv, SettledInv, Rowless, Due

LEMMA RowInvStep == TypeInv /\ RowInv /\ [Next]_vars => RowInv'
  <1> SUFFICES ASSUME TypeInv, RowInv, [Next]_vars PROVE RowInv'
    OBVIOUS
  <1> USE DEF TypeInv, TypeOK, RowInv, Rowless, Due
  <1>1. ASSUME NEW r \in Requests, Admit(r) PROVE RowInv'
    BY <1>1 DEF Admit, Chargeable
  <1>2. ASSUME NEW r \in Requests, Reject(r) PROVE RowInv'
    BY <1>2 DEF Reject, Chargeable
  <1>3. ASSUME NEW r \in Requests, Finish(r) PROVE RowInv'
    BY <1>3 DEF Finish, Chargeable
  <1>4. ASSUME NEW r \in Requests, WriteLog(r) PROVE RowInv'
    BY <1>4 DEF WriteLog, Chargeable
  <1>5. ASSUME NEW r \in Requests,
               \/ LogFails(r) \/ BeginDebit(r) \/ CommitDebit(r)
               \/ CheckRefuses(r) \/ DebitFails(r)
        PROVE  RowInv'
    BY <1>5 DEF LogFails, BeginDebit, CommitDebit, CheckRefuses, DebitFails, Chargeable
  <1>6. ASSUME NEW a \in AdminOps, BeginAdmin(a) \/ CommitAdmin(a) \/ AdminFails(a)
        PROVE  RowInv'
    BY <1>6 DEF BeginAdmin, CommitAdmin, AdminFails, Chargeable
  <1>7. CASE Crash
    BY <1>7 DEF Crash, Volatile, Chargeable
  <1>8. CASE UNCHANGED vars
    BY <1>8 DEF vars, Chargeable
  <1>9. QED
    BY <1>1, <1>2, <1>3, <1>4, <1>5, <1>6, <1>7, <1>8 DEF Next, Task, Debit, AdminStep

LEMMA SettledInvStep == TypeInv /\ SettledInv /\ [Next]_vars => SettledInv'
  <1> SUFFICES ASSUME TypeInv, SettledInv, [Next]_vars PROVE SettledInv'
    OBVIOUS
  <1> USE ActorsSplit
  <1>1. ASSUME NEW r \in Requests, CommitDebit(r) PROVE SettledInv'
    <2>1. /\ tx[r] \in Transactions /\ tx[r].user = Owner[r]
          /\ Commit(r, AfterUsage(tx[r].before, tx[r].amount))
      BY <1>1 DEF CommitDebit, TypeInv, TypeOK, TxInv
    <2>2. Charged' = Charged \cup {r}
      BY <2>1, CommitCharges
    <2>3. QED
      BY <1>1, <2>2 DEF CommitDebit, SettledInv, Chargeable, TypeInv, TypeOK
  <1>2. ASSUME NEW a \in AdminOps, CommitAdmin(a) PROVE SettledInv'
    <2>1. tx[a] \in Transactions /\ Commit(a, AfterAdmin(tx[a]))
      BY <1>2 DEF CommitAdmin, TypeInv, TypeOK, TxInv
    <2>2. Charged' = Charged
      BY <2>1, CommitCharges
    <2>3. QED
      BY <1>2, <2>2 DEF CommitAdmin, SettledInv, Chargeable
  <1>3. CASE UNCHANGED ledger /\ ~(\E r \in Requests : CommitDebit(r))
             /\ ~(\E a \in AdminOps : CommitAdmin(a))
    <2>1. Charged' = Charged
      BY <1>3 DEF Charged
    <2>2. ASSUME NEW r \in Requests, Admit(r) \/ Reject(r) \/ Finish(r) PROVE SettledInv'
      BY <2>1, <2>2 DEF Admit, Reject, Finish, SettledInv, Chargeable, TypeInv, TypeOK
    <2>3. ASSUME NEW r \in Requests, WriteLog(r) \/ LogFails(r) \/ BeginDebit(r)
                                     \/ CheckRefuses(r) \/ DebitFails(r)
          PROVE  SettledInv'
      BY <2>1, <2>3 DEF WriteLog, LogFails, BeginDebit, CheckRefuses, DebitFails,
                        SettledInv, Chargeable, TypeInv, TypeOK
    <2>4. ASSUME NEW a \in AdminOps, BeginAdmin(a) \/ AdminFails(a) PROVE SettledInv'
      BY <2>1, <2>4 DEF BeginAdmin, AdminFails, SettledInv, Chargeable
    <2>5. CASE Crash
      BY <2>1, <2>5 DEF Crash, Volatile, SettledInv, Chargeable
    <2>6. CASE UNCHANGED vars
      BY <2>1, <2>6 DEF vars, SettledInv, Chargeable
    <2>7. QED
      BY <1>3, <2>2, <2>3, <2>4, <2>5, <2>6 DEF Next, Task, Debit, AdminStep
  <1>4. (\E r \in Requests : CommitDebit(r)) \/ (\E a \in AdminOps : CommitAdmin(a))
        \/ UNCHANGED ledger
    BY DEF Next, Task, Debit, AdminStep, Admit, Reject, Finish, WriteLog, LogFails,
           BeginDebit, CheckRefuses, DebitFails, BeginAdmin, AdminFails,
           Rollback, Crash, vars
  <1>5. QED
    BY <1>1, <1>2, <1>3, <1>4

(* The reports tell the truth: the wallet differs from its ledger by       *)
(* rounding and by what was written off, and a request is reported as      *)
(* missing its debit exactly when its charge is pending or has failed.     *)
THEOREM BillingReportsExplained == Spec => []ReportsExplained
  <1>1. TypeInv /\ DiffInv => DifferenceExplained
    BY DiffInvExplains DEF TypeInv
  <1>2. ASSUME TypeInv, ChargeInv, RowInv, SettledInv PROVE MissingDebitsExplained
    <2>1. logs \subseteq Requests
      BY <1>2 DEF TypeInv, TypeOK
    <2>2. ASSUME NEW r \in logs,
                 pc[r] \in {"logged", "debiting", "refused", "unpaid", "lost"}
          PROVE  r \in MissingDebits
      <3>1. r \in Requests /\ Chargeable(r)
        BY <1>2, <2>1, <2>2 DEF RowInv, Due
      <3>2. r \notin Charged
        BY <1>2, <2>2, <3>1, UnchargedBeforeCommit
      <3>3. QED
        BY <3>1, <3>2 DEF MissingDebits
    <2>3. ASSUME NEW r \in MissingDebits
          PROVE  pc[r] \in {"logged", "debiting", "refused", "unpaid", "lost"}
      <3>1. r \in logs /\ r \in Requests /\ Chargeable(r) /\ r \notin Charged
        BY <2>1 DEF MissingDebits
      <3>2. pc[r] \in States /\ pc[r] # "settled" /\ pc[r] \notin Rowless
        BY <1>2, <3>1 DEF TypeInv, TypeOK, RowInv, SettledInv
      <3>3. QED
        BY <3>2 DEF States, Volatile, Ended, Rowless
    <2>4. MissingDebits \subseteq logs
      BY DEF MissingDebits
    <2>5. QED
      BY <2>2, <2>3, <2>4 DEF MissingDebitsExplained
  <1>3. TypeInv /\ DiffInv /\ ChargeInv /\ RowInv /\ SettledInv => ReportsExplained
    BY <1>1, <1>2 DEF ReportsExplained
  <1>4. QED
    BY TypeInvInit, TypeInvStep, LockInit, LockStep, ChargeInvInit, ChargeInvStep,
       DiffInvInit, DiffInvStep, RowInvInit, RowInvStep, SettledInvStep, <1>3, PTL DEF Spec
=============================================================================
