---------------------------- MODULE ClientKeys_proofs ----------------------------
(***************************************************************************)
(* Proofs about ClientKeys and Reports, for any number of administrators,  *)
(* users, keys and requests: the rights of a key come from one form, and a *)
(* request is let through exactly if its key is entitled to what it asks   *)
(* for; who reads the log page by page is shown all of it, and the queries *)
(* that sum up the same amounts agree.                                     *)
(***************************************************************************)
EXTENDS Reports, DataLemmas

(* The tables have rows of their types; what a row refers to is there.     *)
TablesInv ==
    /\ users \in [Users -> UserRow \cup {NoRow}]
    /\ rows \in [ClientKeys -> KeyRow \cup {NoRow}]
    /\ allowed \in [ClientKeys -> SUBSET Models]
    /\ \A k \in known : k \in ClientKeys /\ rows[k] # NoRow
    /\ \A k \in ClientKeys :
          rows[k] # NoRow /\ rows[k].owner # NoRow => users[rows[k].owner] # NoRow
    /\ session \in [Users -> Nat]
    /\ now \in Nat
    /\ \A u \in Users : session[u] > 0 => users[u] # NoRow

(* A transaction holds the lock of its key's row, so that the models it    *)
(* has deleted are all that there are.                                     *)
TxInv ==
    /\ tx \in [Calls -> Transaction \cup {NoRow}]
    /\ \A c \in Calls : tx[c] # NoRow =>
          /\ rows[tx[c].key] # NoRow
          /\ tx[c].deleted = allowed[tx[c].key]
          /\ \A d \in Calls : tx[d] # NoRow /\ tx[d].key = tx[c].key => d = c

LEMMA ConstantFacts ==
    /\ NoRow \notin Users /\ NoRow \notin UserRow /\ NoRow \notin KeyRow
    /\ NoRow \notin Changes /\ NoRow \notin Transaction
    /\ PortalForms \subseteq KeyForm
    /\ NoRow \notin ClientKeys
    /\ Forms \subseteq KeyForm
    /\ DayTicks \in Nat \ {0} /\ MonthDays \in Nat \ {0} /\ SessionTicks \in Nat \ {0}
    /\ Start \in Nat /\ MaxTime \in Nat
  BY ClientKeysAssumption DEF PortalForms, KeyForm, KeyStatuses

(* Steps that leave the tables alone. *)
QuietStep ==
    /\ UNCHANGED <<users, rows, allowed, known>>
    /\ \/ UNCHANGED <<session, now>>
       \/ \E u \in Users : Login(u)
       \/ Tick

LEMMA TablesQuiet == ASSUME TablesInv, QuietStep PROVE TablesInv'
  <1>1. CASE UNCHANGED <<session, now>>
    BY <1>1 DEF TablesInv, QuietStep
  <1>2. ASSUME NEW u \in Users, Login(u) PROVE TablesInv'
    <2>1. /\ session' = [session EXCEPT ![u] = now + SessionTicks]
          /\ users[u] # NoRow /\ UNCHANGED now
      BY <1>2 DEF Login, IsActive
    <2>2. now + SessionTicks \in Nat
      BY ConstantFacts DEF TablesInv
    <2>3. QED
      BY <2>1, <2>2 DEF TablesInv, QuietStep
  <1>3. CASE Tick
    BY <1>3 DEF TablesInv, QuietStep, Tick, portal
  <1>4. QED
    BY <1>1, <1>2, <1>3 DEF QuietStep

LEMMA TablesUsers ==
    ASSUME TablesInv,
           \/ \E c \in Calls : CreateUser(c) \/ UpdateUserStatus(c)
           \/ \E u \in Users : WalletChanges(u)
    PROVE  /\ TablesInv'
           /\ UNCHANGED <<rows, allowed, tx, now, logs>>
  <1>1. UNCHANGED <<rows, allowed, tx, known, session, now, logs>>
    BY DEF CreateUser, UpdateUserStatus, WalletChanges, portal
  <1>2. PICK u \in Users, row \in UserRow : users' = [users EXCEPT ![u] = row]
    <2>1. ASSUME NEW c \in Calls, CreateUser(c)
          PROVE  \E u \in Users, row \in UserRow : users' = [users EXCEPT ![u] = row]
      <3>1. \A s \in {"active", "disabled"} : [status |-> s, funded |-> FALSE] \in UserRow
        BY DEF UserRow
      <3>2. QED
        BY <2>1, <3>1 DEF CreateUser
    <2>2. ASSUME NEW c \in Calls, UpdateUserStatus(c)
          PROVE  \E u \in Users, row \in UserRow : users' = [users EXCEPT ![u] = row]
      <3>1. PICK u \in Users, s \in {"active", "disabled"} :
               users[u] # NoRow /\ users' = [users EXCEPT ![u].status = s]
        BY <2>2 DEF UpdateUserStatus
      <3>2. [users[u] EXCEPT !.status = s] \in UserRow
        BY <3>1 DEF TablesInv, UserRow
      <3>3. users' = [users EXCEPT ![u] = [users[u] EXCEPT !.status = s]]
        BY <3>1 DEF TablesInv
      <3>4. QED
        BY <3>2, <3>3
    <2>3. ASSUME NEW u \in Users, WalletChanges(u)
          PROVE  \E row \in UserRow : users' = [users EXCEPT ![u] = row]
      <3>1. users[u] # NoRow /\ users' = [users EXCEPT ![u].funded = ~@]
        BY <2>3 DEF WalletChanges
      <3>2. [users[u] EXCEPT !.funded = ~@] \in UserRow
        BY <3>1 DEF TablesInv, UserRow
      <3>3. users' = [users EXCEPT ![u] = [users[u] EXCEPT !.funded = ~@]]
        BY <3>1 DEF TablesInv
      <3>4. QED
        BY <3>2, <3>3
    <2>4. QED
      BY <2>1, <2>2, <2>3
  <1>3. \A v \in Users : users[v] # NoRow => users'[v] # NoRow
    BY <1>2, ConstantFacts DEF TablesInv
  <1>4. \A k \in ClientKeys : rows[k] # NoRow => rows[k].owner \in Users \cup {NoRow}
    BY DEF TablesInv, KeyRow
  <1>5. QED
    BY <1>1, <1>2, <1>3, <1>4 DEF TablesInv

(* What is written over a key's row keeps its owner. *)
LEMMA TablesCommit ==
    ASSUME TablesInv, TxInv, NEW c \in Calls, CommitUpdate(c)
    PROVE  /\ TablesInv'
           /\ TxInv'
           /\ \A k \in ClientKeys \ {tx[c].key} : rows'[k] = rows[k] /\ allowed'[k] = allowed[k]
           /\ tx[c].key \in ClientKeys /\ tx[c].form \in Forms
           /\ rows'[tx[c].key] # NoRow
           /\ rows'[tx[c].key].owner = rows[tx[c].key].owner
           /\ FormIn(rows'[tx[c].key], allowed'[tx[c].key]) = tx[c].form
  <1> DEFINE k == tx[c].key
             f == tx[c].form
             row == [rows[k] EXCEPT !.status = f.status, !.daily = f.daily,
                                    !.monthly = f.monthly, !.expires = f.expires]
  <1>1. tx[c] # NoRow /\ tx[c] \in Transaction
    BY DEF CommitUpdate, TxInv
  <1>2. /\ k \in ClientKeys /\ f \in Forms /\ f \in KeyForm
        /\ rows[k] \in KeyRow /\ rows[k] # NoRow
    BY <1>1, ConstantFacts DEF TxInv, TablesInv, Transaction
  <1>3. row \in KeyRow /\ row.owner = rows[k].owner
    BY <1>2 DEF KeyRow, KeyForm
  <1>4. rows' = [rows EXCEPT ![k] = row]
    BY <1>2 DEF CommitUpdate, TablesInv
  <1>5. allowed' = [allowed EXCEPT ![k] = f.models]
    BY <1>1, <1>2 DEF CommitUpdate, TablesInv, TxInv
  <1>6. UNCHANGED <<users, known, session, now>> /\ tx' = [tx EXCEPT ![c] = NoRow]
    BY DEF CommitUpdate, portal
  <1>7. f.models \in SUBSET Models
    BY <1>2 DEF KeyForm
  <1>8. row # NoRow
    BY <1>3, ConstantFacts
  <1> HIDE DEF row
  <1>9. TablesInv'
    BY <1>2, <1>3, <1>4, <1>5, <1>6, <1>7, <1>8 DEF TablesInv
  <1>10. TxInv'
    <2>1. \A d \in Calls : tx'[d] # NoRow => tx[d] # NoRow /\ tx'[d] = tx[d] /\ tx[d].key # k
      BY <1>1, <1>6 DEF TxInv
    <2>2. QED
      BY <2>1, <1>4, <1>5, <1>6 DEF TxInv, TablesInv
  <1>11. FormIn(rows'[k], allowed'[k]) = f
    <2>1. FormIn(row, f.models) = f
      BY <1>2 DEF row, FormIn, KeyForm, KeyRow
    <2>2. rows'[k] = row /\ allowed'[k] = f.models
      BY <1>2, <1>4, <1>5 DEF TablesInv
    <2>3. QED
      BY <2>1, <2>2
  <1>12. QED
    BY <1>2, <1>3, <1>4, <1>5, <1>8, <1>9, <1>10, <1>11 DEF TablesInv

LEMMA TablesCreate ==
    ASSUME TablesInv, TxInv, NEW u \in Users, CreateClientKey(u)
    PROVE  /\ TablesInv' /\ TxInv'
           /\ \E k \in ClientKeys :
                /\ rows[k] = NoRow
                /\ \A j \in ClientKeys \ {k} : rows'[j] = rows[j] /\ allowed'[j] = allowed[j]
                /\ FormIn(rows'[k], allowed'[k]) \in PortalForms
  <1>1. PICK k \in ClientKeys, f \in PortalForms :
           /\ rows[k] = NoRow
           /\ rows' = [rows EXCEPT ![k] = [owner |-> u, status |-> f.status,
                        daily |-> f.daily, monthly |-> f.monthly, expires |-> f.expires]]
           /\ allowed' = [allowed EXCEPT ![k] = f.models]
           /\ known' = known \cup {k} \/ UNCHANGED known
    BY DEF CreateClientKey
  <1> DEFINE row == [owner |-> u, status |-> f.status,
                     daily |-> f.daily, monthly |-> f.monthly, expires |-> f.expires]
  <1>2. UNCHANGED <<users, session, now, tx>> /\ session[u] > now
    BY DEF CreateClientKey, HasSession
  <1>3. users[u] # NoRow
    BY <1>2 DEF TablesInv
  <1>4. f \in KeyForm /\ f.models \in SUBSET Models
    BY ConstantFacts DEF KeyForm
  <1>5. row \in KeyRow /\ row.owner = u
    BY <1>4 DEF KeyRow, KeyForm
  <1>6. row # NoRow
    BY <1>5, ConstantFacts
  <1>7. FormIn(row, f.models) = f
    BY DEF FormIn, PortalForms
  <1> HIDE DEF row
  <1>8. rows' = [rows EXCEPT ![k] = row]
    BY <1>1 DEF row
  <1>9. TablesInv'
    BY <1>1, <1>2, <1>3, <1>4, <1>5, <1>6, <1>8 DEF TablesInv
  <1>10. TxInv'
    BY <1>1, <1>2, <1>6, <1>8 DEF TxInv, TablesInv, Transaction
  <1>11. /\ \A j \in ClientKeys \ {k} : rows'[j] = rows[j] /\ allowed'[j] = allowed[j]
         /\ FormIn(rows'[k], allowed'[k]) \in PortalForms
    BY <1>1, <1>7, <1>8 DEF TablesInv
  <1>12. QED
    BY <1>1, <1>9, <1>10, <1>11

LEMMA TablesDisable ==
    ASSUME TablesInv, TxInv, NEW u \in Users, DisableClientKey(u)
    PROVE  /\ TablesInv' /\ TxInv'
           /\ \E k \in OwnedBy(u) :
                /\ Overtake({k})
                /\ \A j \in ClientKeys \ {k} : rows'[j] = rows[j]
                /\ FormIn(rows'[k], allowed[k]) = [FormOf(k) EXCEPT !.status = "disabled"]
                /\ rows'[k] # NoRow
  <1>1. PICK k \in OwnedBy(u) :
           /\ rows' = [rows EXCEPT ![k].status = "disabled"]
           /\ Overtake({k})
    BY DEF DisableClientKey
  <1>2. UNCHANGED <<users, allowed, known, session, now, tx>>
    BY DEF DisableClientKey, portal
  <1>3. k \in ClientKeys /\ rows[k] # NoRow /\ rows[k] \in KeyRow
    BY DEF OwnedBy, TablesInv
  <1> DEFINE row == [rows[k] EXCEPT !.status = "disabled"]
  <1>4. row \in KeyRow /\ row.owner = rows[k].owner
    BY <1>3 DEF KeyRow, KeyStatuses
  <1>5. FormIn(row, allowed[k]) = [FormOf(k) EXCEPT !.status = "disabled"]
    BY <1>3 DEF FormIn, FormOf, KeyRow
  <1>6. row # NoRow
    BY <1>4, ConstantFacts
  <1>7. rows' = [rows EXCEPT ![k] = row]
    BY <1>1, <1>3 DEF TablesInv
  <1> HIDE DEF row
  <1>8. TablesInv'
    BY <1>2, <1>3, <1>4, <1>6, <1>7 DEF TablesInv
  <1>9. TxInv'
    BY <1>2, <1>3, <1>6, <1>7 DEF TxInv, TablesInv, Transaction
  <1>10. QED
    BY <1>1, <1>3, <1>5, <1>6, <1>7, <1>8, <1>9 DEF TablesInv

LEMMA TxSteps ==
    ASSUME TablesInv, TxInv, UNCHANGED <<rows, allowed>>,
           \/ UNCHANGED tx
           \/ \E c \in Calls : BeginUpdate(c) \/ RollBack(c)
           \/ Crash
    PROVE  TxInv'
  <1>1. CASE UNCHANGED tx
    BY <1>1 DEF TxInv
  <1>2. ASSUME NEW c \in Calls, BeginUpdate(c) PROVE TxInv'
    <2>1. PICK k \in ClientKeys, f \in Forms :
             /\ rows[k] # NoRow /\ ~Locked(k)
             /\ tx' = [tx EXCEPT ![c] = [key |-> k, form |-> f, deleted |-> allowed[k]]]
      BY <1>2 DEF BeginUpdate
    <2>2. [key |-> k, form |-> f, deleted |-> allowed[k]] \in Transaction
      BY DEF TablesInv, Transaction
    <2>3. \A d \in Calls : tx[d] # NoRow => tx[d].key # k
      BY <2>1 DEF Locked
    <2>4. QED
      BY <2>1, <2>2, <2>3 DEF TxInv
  <1>3. ASSUME NEW c \in Calls, RollBack(c) PROVE TxInv'
    BY <1>3 DEF RollBack, TxInv
  <1>4. CASE Crash
    BY <1>4 DEF Crash, TxInv
  <1>5. QED
    BY <1>1, <1>2, <1>3, <1>4

(* Every step is one of these.                                             *)
UserStep ==
    \/ \E c \in Calls : CreateUser(c) \/ UpdateUserStatus(c)
    \/ \E u \in Users : WalletChanges(u)

OtherStep ==
    \/ \E c \in Calls : BeginUpdate(c) \/ RollBack(c) \/ ReloadKey(c) \/ recordAdminAction(c)
                           \/ Refuse(c)
    \/ \E u \in Users : Login(u)
    \/ \E r \in Requests : Authenticate(r) \/ Decide(r) \/ CreateRequestLog(r)
    \/ LogDebugRequest
    \/ Tick
    \/ Crash
    \/ UNCHANGED vars

LEMMA StepCases ==
    ASSUME [Next]_vars
    PROVE  \/ UserStep
           \/ \E c \in Calls : CommitUpdate(c)
           \/ \E u \in Users : CreateClientKey(u)
           \/ \E u \in Users : DisableClientKey(u)
           \/ OtherStep
  BY DEF Next, UserStep, OtherStep

LEMMA OtherIsQuiet ==
    ASSUME OtherStep
    PROVE  /\ QuietStep
           /\ \/ UNCHANGED tx
              \/ \E c \in Calls : BeginUpdate(c) \/ RollBack(c)
              \/ Crash
  <1>1. ASSUME NEW c \in Calls, BeginUpdate(c) \/ RollBack(c) PROVE QuietStep
    BY <1>1 DEF BeginUpdate, RollBack, QuietStep, tables, portal
  <1>2. ASSUME NEW c \in Calls, ReloadKey(c) \/ recordAdminAction(c) \/ Refuse(c)
        PROVE QuietStep /\ UNCHANGED tx
    BY <1>2 DEF ReloadKey, recordAdminAction, Refuse, QuietStep, tables, portal
  <1>3. ASSUME NEW u \in Users, Login(u) PROVE QuietStep /\ UNCHANGED tx
    BY <1>3 DEF Login, QuietStep, tables
  <1>4. ASSUME NEW r \in Requests, Authenticate(r) \/ Decide(r) \/ CreateRequestLog(r)
        PROVE QuietStep /\ UNCHANGED tx
    BY <1>4 DEF Authenticate, Decide, CreateRequestLog, QuietStep, tables, portal
  <1>5. CASE Tick \/ LogDebugRequest
    BY <1>5 DEF Tick, LogDebugRequest, QuietStep, tables, portal
  <1>6. CASE Crash
    BY <1>6 DEF Crash, QuietStep, tables, portal
  <1>7. CASE UNCHANGED vars
    BY <1>7 DEF vars, QuietStep, tables, portal
  <1>8. QED
    BY <1>1, <1>2, <1>3, <1>4, <1>5, <1>6, <1>7 DEF OtherStep

LEMMA TablesInit == Init => TablesInv /\ TxInv
<1> SUFFICES ASSUME Init PROVE TablesInv /\ TxInv
  OBVIOUS
<1>1. PICK d \in Databases :
         /\ users = d.users /\ rows = d.rows /\ allowed = d.allowed /\ known = d.known
         /\ session = [u \in Users |-> 0] /\ now = Start
         /\ tx = [c \in Calls |-> NoRow]
  BY DEF Init
<1>2. QED
  BY <1>1, ClientKeysAssumption, ConstantFacts DEF TablesInv, TxInv

LEMMA TablesStep == ASSUME TablesInv, TxInv, [Next]_vars PROVE TablesInv' /\ TxInv'
<1>1. CASE UserStep
  BY <1>1, TablesUsers, TxSteps DEF UserStep
<1>2. CASE OtherStep
  BY <1>2, OtherIsQuiet, TablesQuiet, TxSteps DEF QuietStep
<1>3. QED
  BY <1>1, <1>2, StepCases, TablesCommit, TablesCreate, TablesDisable

LEMMA TablesInvariant == Spec => [](TablesInv /\ TxInv)
<1>1. TablesInv /\ TxInv /\ [Next]_vars => (TablesInv /\ TxInv)'
  BY TablesStep
<1>2. QED
  BY <1>1, TablesInit, PTL DEF Spec
-----------------------------------------------------------------------------
(* What a call has been told of a key, and will record, are rights of one  *)
(* form; a call that reads its key again has written it.                   *)
RightsInv ==
    /\ Admin!TypeOK
    /\ RightsAreOneForm
    /\ \A c \in Calls :
          /\ told[c] # NoRow /\ told[c].id \in ClientKeys => OneForm(told[c].row)
          /\ stage[c] = "reloading" =>
                wrote[c] # NoRow /\ wrote[c].id \in ClientKeys /\ rows[wrote[c].id] # NoRow

LEMMA FormIsOneForm == ASSUME NEW form \in Forms \cup PortalForms PROVE OneForm(form)
  <1>1. [form EXCEPT !.status = form.status] = form
    BY ConstantFacts DEF KeyForm
  <1>2. QED
    BY <1>1 DEF OneForm

LEMMA DisabledIsOneForm ==
    ASSUME NEW form, OneForm(form)
    PROVE  OneForm([form EXCEPT !.status = "disabled"])
  <1>1. PICK f \in Forms \cup PortalForms : [f EXCEPT !.status = form.status] = form
    BY DEF OneForm
  <1>2. f \in KeyForm
    BY ConstantFacts
  <1>3. [f EXCEPT !.status = "disabled"] = [form EXCEPT !.status = "disabled"]
    BY <1>1, <1>2 DEF KeyForm
  <1>4. [form EXCEPT !.status = "disabled"].status = "disabled"
    BY <1>1, <1>2 DEF KeyForm
  <1>5. QED
    BY <1>3, <1>4 DEF OneForm

LEMMA FormsAreChanges ==
    /\ \A k \in ClientKeys, f \in KeyForm : [id |-> k, row |-> f] \in Changes
    /\ \A u \in Users, s \in {"active", "disabled"} : [id |-> u, row |-> s] \in Changes
    /\ TablesInv => \A k \in ClientKeys : rows[k] # NoRow => FormOf(k) \in KeyForm
  BY DEF Changes, TablesInv, KeyRow, KeyForm, FormOf, FormIn

(* Steps that leave keys and their models alone. *)
LEMMA RightsQuiet ==
    ASSUME RightsInv, UNCHANGED <<rows, allowed>>, UNCHANGED <<stage, wrote, told, trail>>
    PROVE  RightsInv'
  BY DEF RightsInv, RightsAreOneForm, FormOf, Admin!TypeOK

LEMMA RightsOfUsers ==
    ASSUME TablesInv, RightsInv, UNCHANGED <<rows, allowed>>, NEW c \in Calls,
           NEW u \in Users, NEW s \in {"active", "disabled"},
           Admin!Commit(c, [id |-> u, row |-> s])
    PROVE  RightsInv'
  <1>1. u \notin ClientKeys /\ [id |-> u, row |-> s] \in Changes
    BY ClientKeysAssumption, FormsAreChanges
  <1>2. /\ stage' = [stage EXCEPT ![c] = "recording"] /\ UNCHANGED trail
        /\ wrote' = [wrote EXCEPT ![c] = [id |-> u, row |-> s]]
        /\ told' = [told EXCEPT ![c] = [id |-> u, row |-> s]]
    BY DEF Admin!Commit, Admin!Step
  <1>3. Admin!TypeOK'
    BY <1>1, <1>2 DEF RightsInv, Admin!TypeOK, Admin!Stages
  <1>4. RightsAreOneForm'
    BY <1>2 DEF RightsInv, RightsAreOneForm, FormOf
  <1>5. QED
    BY <1>1, <1>2, <1>3, <1>4 DEF RightsInv, Admin!TypeOK

(* The other steps of calls. *)
LEMMA RightsOfCalls ==
    ASSUME TablesInv, RightsInv, UNCHANGED <<rows, allowed>>, NEW c \in Calls,
           ReloadKey(c) \/ Admin!Record(c) \/ Admin!Refuse(c)
    PROVE  RightsInv'
  <1> USE DEF RightsInv, Admin!TypeOK, Admin!Stages, Admin!Step, RightsAreOneForm, FormOf
  <1>1. CASE Admin!Record(c)
    BY <1>1 DEF Admin!Record
  <1>2. CASE Admin!Refuse(c)
    BY <1>2 DEF Admin!Refuse
  <1>3. CASE Admin!ReloadFails(c)
    BY <1>3 DEF Admin!ReloadFails
  <1>4. ASSUME wrote[c] # NoRow,
               Admin!Reload(c, [id |-> wrote[c].id, row |-> FormOf(wrote[c].id)])
        PROVE  RightsInv'
    <2> DEFINE k == wrote[c].id
               change == [id |-> k, row |-> FormOf(k)]
    <2>1. k \in ClientKeys /\ rows[k] # NoRow
      BY <1>4 DEF Admin!Reload
    <2>2. change \in Changes /\ change.row = FormOf(k) /\ OneForm(FormOf(k))
      BY <2>1, FormsAreChanges
    <2>3. /\ stage' = [stage EXCEPT ![c] = "recording"] /\ UNCHANGED <<wrote, trail>>
          /\ told' = [told EXCEPT ![c] = change]
      BY <1>4 DEF Admin!Reload
    <2> HIDE DEF change, k
    <2>4. QED
      BY <2>2, <2>3
  <1>5. QED
    BY <1>1, <1>2, <1>3, <1>4 DEF ReloadKey

LEMMA RightsInit == Init => RightsInv
<1> SUFFICES ASSUME Init PROVE RightsInv
  OBVIOUS
<1>1. PICK d \in Databases : rows = d.rows /\ allowed = d.allowed
  BY DEF Init
<1>2. \A k \in ClientKeys : rows[k] # NoRow => OneForm(FormOf(k))
  BY <1>1, ClientKeysAssumption DEF FormOf
<1>3. QED
  BY <1>2 DEF Init, Admin!Init, RightsInv, RightsAreOneForm, Admin!TypeOK, Admin!Stages

LEMMA RightsStep == ASSUME TablesInv, TxInv, RightsInv, [Next]_vars PROVE RightsInv'
<1>1. CASE UserStep
  BY <1>1, RightsOfUsers, RightsQuiet, TablesUsers
     DEF UserStep, CreateUser, UpdateUserStatus, WalletChanges, admin
<1>2. ASSUME NEW c \in Calls, CommitUpdate(c) PROVE RightsInv'
  <2> DEFINE k == tx[c].key
             change == [id |-> k, row |-> tx[c].form]
  <2>1. /\ k \in ClientKeys /\ tx[c].form \in Forms /\ rows'[k] # NoRow
        /\ FormIn(rows'[k], allowed'[k]) = tx[c].form
        /\ \A j \in ClientKeys \ {k} : rows'[j] = rows[j] /\ allowed'[j] = allowed[j]
    BY <1>2, TablesCommit
  <2>2. Admin!CommitThenReload(c, change)
    BY <1>2 DEF CommitUpdate
  <2>3. /\ stage' = [stage EXCEPT ![c] = "reloading"] /\ UNCHANGED <<told, trail>>
        /\ wrote' = [wrote EXCEPT ![c] = change]
    BY <2>2 DEF Admin!CommitThenReload, Admin!Step
  <2>4. change \in Changes /\ change # NoRow /\ change.id = k
    BY <2>1, FormsAreChanges, ConstantFacts
  <2> HIDE DEF k, change
  <2>5. \A j \in ClientKeys : rows'[j] # NoRow => OneForm(FormIn(rows'[j], allowed'[j]))
    BY <2>1, FormIsOneForm DEF RightsInv, RightsAreOneForm, FormOf
  <2>6. RightsAreOneForm'
    BY <2>3, <2>5 DEF RightsInv, RightsAreOneForm, FormOf
  <2>7. Admin!TypeOK'
    BY <2>3, <2>4 DEF RightsInv, Admin!TypeOK, Admin!Stages
  <2>8. \A e \in Calls : stage'[e] = "reloading" =>
           wrote'[e] # NoRow /\ wrote'[e].id \in ClientKeys /\ rows'[wrote'[e].id] # NoRow
    BY <2>1, <2>3, <2>4 DEF RightsInv, Admin!TypeOK
  <2>9. QED
    BY <2>3, <2>6, <2>7, <2>8 DEF RightsInv
<1>3. ASSUME NEW u \in Users, CreateClientKey(u) PROVE RightsInv'
  <2>1. PICK k \in ClientKeys :
           /\ rows[k] = NoRow
           /\ \A j \in ClientKeys \ {k} : rows'[j] = rows[j] /\ allowed'[j] = allowed[j]
           /\ FormIn(rows'[k], allowed'[k]) \in PortalForms
    BY <1>3, TablesCreate
  <2>2. UNCHANGED <<stage, wrote, told, trail>>
    BY <1>3 DEF CreateClientKey, admin
  <2>3. \A j \in ClientKeys : rows'[j] # NoRow => OneForm(FormIn(rows'[j], allowed'[j]))
    BY <2>1, FormIsOneForm DEF RightsInv, RightsAreOneForm, FormOf
  <2>4. QED
    BY <2>1, <2>2, <2>3 DEF RightsInv, RightsAreOneForm, FormOf, Admin!TypeOK
<1>4. ASSUME NEW u \in Users, DisableClientKey(u) PROVE RightsInv'
  <2>1. PICK k \in OwnedBy(u) :
           /\ \A j \in ClientKeys \ {k} : rows'[j] = rows[j]
           /\ FormIn(rows'[k], allowed[k]) = [FormOf(k) EXCEPT !.status = "disabled"]
           /\ rows'[k] # NoRow
    BY <1>4, TablesDisable
  <2>2. UNCHANGED <<allowed, stage, wrote, told, trail>>
    BY <1>4 DEF DisableClientKey, admin
  <2>3. k \in ClientKeys /\ rows[k] # NoRow
    BY DEF OwnedBy
  <2>4. \A j \in ClientKeys : rows'[j] # NoRow => OneForm(FormIn(rows'[j], allowed'[j]))
    BY <2>1, <2>2, <2>3, DisabledIsOneForm DEF RightsInv, RightsAreOneForm, FormOf
  <2>5. \A e \in Calls : stage[e] = "reloading" => rows'[wrote[e].id] # NoRow
    BY <2>1 DEF RightsInv
  <2>6. QED
    BY <2>2, <2>4, <2>5 DEF RightsInv, RightsAreOneForm, FormOf, Admin!TypeOK
<1>5. CASE OtherStep
  <2>1. UNCHANGED <<rows, allowed>>
    BY <1>5, OtherIsQuiet DEF QuietStep
  <2>2. ASSUME NEW c \in Calls,
               BeginUpdate(c) \/ RollBack(c) \/ ReloadKey(c) \/ recordAdminAction(c) \/ Refuse(c)
        PROVE  RightsInv'
    BY <2>1, <2>2, RightsOfCalls, RightsQuiet
       DEF BeginUpdate, RollBack, recordAdminAction, Refuse, admin
  <2>3. ASSUME \/ \E u \in Users : Login(u)
               \/ \E r \in Requests : Authenticate(r) \/ Decide(r) \/ CreateRequestLog(r)
               \/ LogDebugRequest
               \/ Tick
               \/ UNCHANGED vars
        PROVE  RightsInv'
    BY <2>1, <2>3, RightsQuiet
       DEF Login, Authenticate, Decide, CreateRequestLog, LogDebugRequest, Tick, vars, admin
  <2>4. CASE Crash
    BY <2>1, <2>4
       DEF Crash, Admin!Crash, RightsInv, RightsAreOneForm, FormOf, Admin!TypeOK, Admin!Stages
  <2>5. QED
    BY <1>5, <2>2, <2>3, <2>4 DEF OtherStep
<1>6. QED
  BY <1>1, <1>2, <1>3, <1>4, <1>5, StepCases

LEMMA RightsInvariant == Spec => []RightsInv
<1>1. TablesInv /\ TxInv /\ RightsInv /\ [Next]_vars => RightsInv'
  BY RightsStep
<1>2. QED
  BY <1>1, RightsInit, TablesInvariant, PTL DEF Spec

(* The limits and the models of every key, and of every entry in the audit *)
(* trail, were given together, however many calls overlap.                 *)
THEOREM KeysRightsAreOneForm == Spec => []RightsAreOneForm
<1>1. RightsInv => RightsAreOneForm
  BY DEF RightsInv
<1>2. QED
  BY <1>1, RightsInvariant, PTL
-----------------------------------------------------------------------------
(* What the statement of a waiting request has read is still so, unless    *)
(* something about its key has changed since.                              *)
AskInv ==
    /\ logs \in Seq(LogRow)
    /\ pc \in [Requests -> {"new", "waiting", "rejected", "refused", "admitted", "ended", "lost"}]
    /\ overtaken \in [Requests -> BOOLEAN]
    /\ DOMAIN ask = Requests /\ DOMAIN seen = Requests
    /\ \A r \in Requests : pc[r] \in {"waiting", "admitted", "refused"} =>
          ask[r].key \in ClientKeys /\ rows[ask[r].key] # NoRow /\ ask[r].model \in Models
    /\ \A r \in Requests : pc[r] = "waiting" /\ ~overtaken[r] => seen[r] = Snapshot(ask[r].key)

(* A log row of another key is none of this one's entries. *)
LEMMA OthersEntries ==
    ASSUME logs \in Seq(LogRow), NEW k, NEW entry \in LogRow, entry.key # k,
           logs' = Append(logs, entry), NEW since
    PROVE  Billed(Entries({k}, since))' = Billed(Entries({k}, since))
  <1>1. /\ Len(logs') = Len(logs) + 1 /\ logs'[Len(logs) + 1] = entry
        /\ \A i \in 1 .. Len(logs) : logs'[i] = logs[i]
    OBVIOUS
  <1>2. Len(logs) \in Nat
    OBVIOUS
  <1>3. Entries({k}, since)' = Entries({k}, since)
    BY <1>1, <1>2 DEF Entries
  <1>4. \A i \in Entries({k}, since) : logs'[i] = logs[i]
    BY <1>1 DEF Entries
  <1>5. [i \in Entries({k}, since) |-> logs'[i].amount]
           = [i \in Entries({k}, since) |-> logs[i].amount]
    BY <1>4
  <1>6. QED
    BY <1>3, <1>5 DEF Billed

(* What a snapshot is made of. *)
LEMMA SnapshotSame ==
    ASSUME NEW k \in ClientKeys, UNCHANGED <<now, logs>>,
           rows'[k].owner = rows[k].owner, allowed'[k] = allowed[k],
           rows[k].owner # NoRow => users'[rows[k].owner] = users[rows[k].owner]
    PROVE  Snapshot(k)' = Snapshot(k)
  <1>1. OwnerMayUse(k)' = OwnerMayUse(k)
    BY DEF OwnerMayUse, IsActive
  <1>2. \A since : Billed(Entries({k}, since))' = Billed(Entries({k}, since))
    BY DEF Billed, Entries
  <1>3. /\ Billed(Entries({k}, dayStart(now)))' = Billed(Entries({k}, dayStart(now)))
        /\ Billed(Entries({k}, monthStart(now)))' = Billed(Entries({k}, monthStart(now)))
    BY DEF Billed, Entries, dayStart, monthStart
  <1>4. (rows[k].owner = NoRow \/ users[rows[k].owner].funded)'
           = (rows[k].owner = NoRow \/ users[rows[k].owner].funded)
    OBVIOUS
  <1>5. QED
    BY <1>1, <1>3, <1>4 DEF Snapshot

LEMMA SnapshotLogged ==
    ASSUME logs \in Seq(LogRow), NEW k \in ClientKeys, NEW entry \in LogRow, entry.key # k,
           logs' = Append(logs, entry), UNCHANGED <<users, rows, allowed, now>>
    PROVE  Snapshot(k)' = Snapshot(k)
  <1>1. OwnerMayUse(k)' = OwnerMayUse(k)
    BY DEF OwnerMayUse, IsActive
  <1>2. /\ Billed(Entries({k}, dayStart(now)))' = Billed(Entries({k}, dayStart(now)))
        /\ Billed(Entries({k}, monthStart(now)))' = Billed(Entries({k}, monthStart(now)))
    BY OthersEntries DEF dayStart, monthStart
  <1>3. QED
    BY <1>1, <1>2 DEF Snapshot

(* A change of the tables that is told to the requests it concerns. *)
LEMMA AskChanged ==
    ASSUME AskInv, UNCHANGED <<logs, now, pc, ask, seen>>,
           overtaken' \in [Requests -> BOOLEAN],
           \A r \in Requests : overtaken[r] /\ pc[r] = "waiting" => overtaken'[r],
           \A k \in ClientKeys : rows[k] # NoRow => rows'[k] # NoRow,
           \A r \in Requests : pc[r] = "waiting" /\ ~overtaken'[r] =>
              LET k == ask[r].key
              IN  /\ rows'[k].owner = rows[k].owner /\ allowed'[k] = allowed[k]
                  /\ rows[k].owner # NoRow => users'[rows[k].owner] = users[rows[k].owner]
    PROVE  AskInv'
  <1>1. \A r \in Requests : pc[r] = "waiting" /\ ~overtaken'[r] =>
           seen[r] = Snapshot(ask[r].key)'
    <2> SUFFICES ASSUME NEW r \in Requests, pc[r] = "waiting", ~overtaken'[r]
                 PROVE  seen[r] = Snapshot(ask[r].key)'
      OBVIOUS
    <2>1. PICK k \in ClientKeys : k = ask[r].key
      BY DEF AskInv
    <2>2. Snapshot(k)' = Snapshot(k)
      BY <2>1, SnapshotSame
    <2>3. seen[r] = Snapshot(k)
      BY <2>1 DEF AskInv
    <2>4. k = ask'[r].key
      BY <2>1
    <2>5. QED
      BY <2>1, <2>2, <2>3, <2>4 DEF Snapshot, OwnerMayUse, IsActive, Billed, Entries
  <1>2. QED
    BY <1>1 DEF AskInv

LEMMA AskUsers == ASSUME TablesInv, AskInv, UserStep PROVE AskInv'
  <1>1. /\ UNCHANGED <<rows, allowed, logs, now, pc, ask, seen>>
        /\ \A r \in Requests : overtaken[r] => overtaken'[r]
        /\ overtaken' \in [Requests -> BOOLEAN]
    BY DEF UserStep, CreateUser, UpdateUserStatus, WalletChanges, request, Overtake, AskInv
  <1>2. PICK u \in Users :
           /\ \A v \in Users \ {u} : users'[v] = users[v]
           /\ \/ users[u] = NoRow
              \/ Overtake(OwnedBy(u))
    BY DEF UserStep, CreateUser, UpdateUserStatus, WalletChanges, TablesInv
  <1>3. \A k \in ClientKeys : rows[k] # NoRow => rows[k].owner \in Users \cup {NoRow}
    BY DEF TablesInv, KeyRow
  <1>4. ASSUME NEW r \in Requests, pc[r] = "waiting", ~overtaken'[r],
               rows[ask[r].key].owner # NoRow
        PROVE  users'[rows[ask[r].key].owner] = users[rows[ask[r].key].owner]
    <2> DEFINE k == ask[r].key
    <2>1. k \in ClientKeys /\ rows[k] # NoRow
      BY <1>4 DEF AskInv
    <2>2. k \notin OwnedBy(u) \/ users[u] = NoRow
      BY <1>2, <1>4 DEF Overtake
    <2>3. rows[k].owner # u
      BY <1>4, <2>1, <2>2 DEF OwnedBy, TablesInv
    <2>4. QED
      BY <1>2, <1>3, <1>4, <2>1, <2>3
  <1>5. QED
    BY <1>1, <1>4, AskChanged

LEMMA AskKeys ==
    ASSUME TablesInv, TxInv, AskInv,
           \/ \E c \in Calls : CommitUpdate(c)
           \/ \E u \in Users : CreateClientKey(u) \/ DisableClientKey(u)
    PROVE  AskInv'
  <1>1. UNCHANGED <<users, logs, now, pc, ask, seen>>
    BY DEF CommitUpdate, CreateClientKey, DisableClientKey, portal, request
  <1>2. ASSUME NEW k \in ClientKeys, Overtake({k}),
               \A j \in ClientKeys \ {k} : rows'[j] = rows[j] /\ allowed'[j] = allowed[j],
               rows'[k] # NoRow
        PROVE  AskInv'
    <2>1. overtaken' \in [Requests -> BOOLEAN]
          /\ \A r \in Requests : overtaken[r] => overtaken'[r]
      BY <1>2 DEF Overtake, AskInv
    <2>2. ASSUME NEW r \in Requests, pc[r] = "waiting", ~overtaken'[r]
          PROVE  ask[r].key \in ClientKeys \ {k}
      BY <1>2, <2>2 DEF Overtake, AskInv
    <2>3. QED
      BY <1>1, <1>2, <2>1, <2>2, AskChanged
  <1>3. ASSUME NEW c \in Calls, CommitUpdate(c) PROVE AskInv'
    BY <1>2, <1>3, TablesCommit DEF CommitUpdate
  <1>4. ASSUME NEW u \in Users, DisableClientKey(u) PROVE AskInv'
    <2>1. UNCHANGED allowed
      BY <1>4 DEF DisableClientKey
    <2>2. OwnedBy(u) \subseteq ClientKeys
      BY DEF OwnedBy
    <2>3. QED
      BY <1>2, <1>4, <2>1, <2>2, TablesDisable
  <1>5. ASSUME NEW u \in Users, CreateClientKey(u) PROVE AskInv'
    <2>1. PICK k \in ClientKeys :
             /\ rows[k] = NoRow
             /\ \A j \in ClientKeys \ {k} : rows'[j] = rows[j] /\ allowed'[j] = allowed[j]
      BY <1>5, TablesCreate
    <2>2. UNCHANGED overtaken
      BY <1>5 DEF CreateClientKey, request
    <2>3. \A r \in Requests : pc[r] = "waiting" => ask[r].key \in ClientKeys \ {k}
      BY <2>1 DEF AskInv
    <2>4. QED
      BY <1>1, <2>1, <2>2, <2>3, AskChanged DEF AskInv
  <1>6. QED
    BY <1>3, <1>4, <1>5

LEMMA AskRequests ==
    ASSUME TablesInv, AskInv, NEW r \in Requests,
           Authenticate(r) \/ Decide(r) \/ CreateRequestLog(r)
    PROVE  AskInv'
  <1>1. UNCHANGED <<users, rows, allowed, now>>
    BY DEF Authenticate, Decide, CreateRequestLog, tables, portal
  <1>2. CASE UNCHANGED logs
    <2>1. \A k \in ClientKeys : Snapshot(k)' = Snapshot(k)
      BY <1>1, <1>2, SnapshotSame
    <2>2. CASE Authenticate(r)
      <3>1. PICK k \in known, m \in Models :
               /\ ask' = [ask EXCEPT ![r] = [key |-> k, model |-> m]]
               /\ \/ /\ Go(r, "new", "waiting")
                     /\ seen' = [seen EXCEPT ![r] = Snapshot(k)]
                  \/ Go(r, "new", "rejected") /\ UNCHANGED seen
        BY <2>2 DEF Authenticate
      <3>2. k \in ClientKeys /\ rows[k] # NoRow /\ UNCHANGED overtaken
        BY <2>2 DEF TablesInv, Authenticate
      <3>3. /\ ask'[r].key = k /\ ask'[r].model = m
            /\ pc'[r] = "waiting" => seen'[r] = Snapshot(k)
            /\ \A q \in Requests \ {r} : ask'[q] = ask[q] /\ seen'[q] = seen[q] /\ pc'[q] = pc[q]
        BY <3>1 DEF AskInv, Go
      <3>4. \A q \in Requests : pc'[q] \in {"waiting", "admitted", "refused"} =>
               ask'[q].key \in ClientKeys /\ rows[ask'[q].key] # NoRow /\ ask'[q].model \in Models
        BY <3>1, <3>2, <3>3 DEF AskInv, Go
      <3>5. ASSUME NEW q \in Requests, pc'[q] = "waiting", ~overtaken'[q]
            PROVE  (seen[q] = Snapshot(ask[q].key))'
        <4>1. PICK j \in ClientKeys : j = ask'[q].key
          BY <3>4, <3>5
        <4>2. seen'[q] = Snapshot(j)
          BY <3>2, <3>3, <3>5, <4>1 DEF AskInv
        <4>3. Snapshot(j)' = Snapshot(j)
          BY <2>1
        <4>4. QED
          BY <4>1, <4>2, <4>3 DEF Snapshot, OwnerMayUse, IsActive, Billed, Entries
      <3>6. /\ logs' \in Seq(LogRow)
            /\ pc' \in [Requests -> {"new", "waiting", "rejected", "refused", "admitted", "ended", "lost"}]
            /\ overtaken' \in [Requests -> BOOLEAN]
            /\ DOMAIN ask' = Requests /\ DOMAIN seen' = Requests
        BY <1>2, <3>1, <3>2 DEF AskInv, Go
      <3>7. QED
        BY <1>1, <3>4, <3>5, <3>6 DEF AskInv
    <2>3. CASE Decide(r)
      <3>1. /\ pc[r] = "waiting" /\ UNCHANGED ask
            /\ pc' = [pc EXCEPT ![r] = pc'[r]] /\ pc'[r] \in {"rejected", "refused", "admitted"}
            /\ seen' = [seen EXCEPT ![r] = NoRow]
            /\ overtaken' = [overtaken EXCEPT ![r] = FALSE]
        BY <2>3 DEF Decide, Go, Verdict, AskInv
      <3>2. \A q \in Requests : pc'[q] = "waiting" =>
               q # r /\ pc[q] = "waiting" /\ ask[q].key \in ClientKeys
        BY <3>1 DEF AskInv
      <3>3. \A q \in Requests : pc'[q] = "waiting" /\ ~overtaken'[q] =>
               seen'[q] = Snapshot(ask[q].key)
        BY <3>1, <3>2 DEF AskInv
      <3>4. QED
        BY <1>1, <1>2, <2>1, <3>1, <3>2, <3>3 DEF AskInv
    <2>4. CASE CreateRequestLog(r)
      <3>1. /\ pc[r] \in {"admitted", "refused"} /\ pc' = [pc EXCEPT ![r] = "ended"]
            /\ ask' = [ask EXCEPT ![r] = NoRow] /\ UNCHANGED seen
            /\ overtaken' \in [Requests -> BOOLEAN]
            /\ \A q \in Requests : overtaken[q] => overtaken'[q]
        BY <2>4 DEF CreateRequestLog, Go, Overtake, AskInv
      <3>2. \A q \in Requests : pc'[q] = "waiting" =>
               q # r /\ pc[q] = "waiting" /\ ask'[q] = ask[q] /\ ask[q].key \in ClientKeys
        BY <3>1 DEF AskInv
      <3>3. \A q \in Requests : pc'[q] = "waiting" /\ ~overtaken'[q] =>
               seen'[q] = Snapshot(ask[q].key)
        BY <3>1, <3>2 DEF AskInv
      <3>4. QED
        BY <1>1, <1>2, <2>1, <3>1, <3>2, <3>3 DEF AskInv
    <2>5. QED
      BY <2>2, <2>3, <2>4
  <1>3. ASSUME NEW amount \in Amounts \cup {0}, logs' = Append(logs, Entry(r, amount)),
               CreateRequestLog(r)
        PROVE  AskInv'
    <2>1. /\ pc[r] \in {"admitted", "refused"} /\ pc' = [pc EXCEPT ![r] = "ended"]
          /\ ask' = [ask EXCEPT ![r] = NoRow] /\ UNCHANGED seen
          /\ Overtake({ask[r].key})
      BY <1>3 DEF CreateRequestLog, Go
    <2>2. amount \in Nat
      BY ClientKeysAssumption
    <2>3. Entry(r, amount) \in LogRow /\ Entry(r, amount).key = ask[r].key
      BY <2>1, <2>2 DEF Entry, LogRow, AskInv, TablesInv
    <2>4. logs' \in Seq(LogRow)
      BY <1>3, <2>3 DEF AskInv
    <2>5. overtaken' \in [Requests -> BOOLEAN]
          /\ \A q \in Requests : overtaken[q] => overtaken'[q]
      BY <2>1 DEF Overtake, AskInv
    <2>6. \A q \in Requests : pc'[q] = "waiting" /\ ~overtaken'[q] =>
             q # r /\ pc[q] = "waiting" /\ ask'[q] = ask[q] /\ ask[q].key \in ClientKeys \ {ask[r].key}
      BY <2>1 DEF AskInv, Overtake
    <2>7. \A k \in ClientKeys \ {ask[r].key} : Snapshot(k)' = Snapshot(k)
      BY <1>1, <1>3, <2>3, SnapshotLogged DEF AskInv
    <2>8. \A q \in Requests : pc'[q] = "waiting" /\ ~overtaken'[q] => seen'[q] = Snapshot(ask[q].key)
      BY <2>1, <2>5, <2>6 DEF AskInv
    <2>9. QED
      BY <1>1, <2>1, <2>4, <2>5, <2>6, <2>7, <2>8 DEF AskInv
  <1>4. QED
    BY <1>2, <1>3 DEF Authenticate, Decide, CreateRequestLog, tables

LEMMA AskDebug == ASSUME TablesInv, AskInv, LogDebugRequest PROVE AskInv'
  <1>1. PICK m \in Models, a \in Amounts \cup {0} :
           logs' = Append(logs, [key |-> NoRow, model |-> m, at |-> now, amount |-> a])
    BY DEF LogDebugRequest
  <1>2. PICK entry : entry = [key |-> NoRow, model |-> m, at |-> now, amount |-> a]
    OBVIOUS
  <1>3. a \in Nat /\ now \in Nat
    BY ClientKeysAssumption DEF TablesInv
  <1>4. entry \in LogRow /\ entry.key = NoRow
    BY <1>2, <1>3 DEF LogRow
  <1>5. logs' = Append(logs, entry)
    BY <1>1, <1>2
  <1>6. logs' \in Seq(LogRow)
    BY <1>4, <1>5 DEF AskInv
  <1>7. UNCHANGED <<users, rows, allowed, now, pc, ask, seen, overtaken>>
    BY DEF LogDebugRequest, request
  <1>8. \A k \in ClientKeys : Snapshot(k)' = Snapshot(k)
    BY <1>4, <1>5, <1>7, SnapshotLogged, ConstantFacts DEF AskInv
  <1>9. \A r \in Requests : pc'[r] = "waiting" /\ ~overtaken'[r] =>
           ask[r].key \in ClientKeys /\ seen'[r] = Snapshot(ask[r].key)
    BY <1>7 DEF AskInv
  <1>10. QED
    BY <1>6, <1>7, <1>8, <1>9 DEF AskInv

LEMMA AskOthers ==
    ASSUME TablesInv, AskInv, OtherStep PROVE AskInv'
  <1>1. UNCHANGED <<users, rows, allowed>>
    BY OtherIsQuiet DEF QuietStep
  <1>2. CASE UNCHANGED <<now, logs, pc, ask, seen, overtaken>>
    BY <1>1, <1>2, AskChanged DEF AskInv
  <1>3. ASSUME NEW c \in Calls, BeginUpdate(c) \/ RollBack(c) \/ ReloadKey(c) \/ recordAdminAction(c)
                                  \/ Refuse(c)
        PROVE  UNCHANGED <<now, logs, pc, ask, seen, overtaken>>
    BY <1>3 DEF BeginUpdate, RollBack, ReloadKey, recordAdminAction, Refuse, tables, request
  <1>4. ASSUME NEW u \in Users, Login(u) PROVE UNCHANGED <<now, logs, pc, ask, seen, overtaken>>
    BY <1>4 DEF Login, tables, request
  <1>5. CASE UNCHANGED vars
    BY <1>2, <1>5 DEF vars, tables, request
  <1>6. CASE Tick
    <2>1. /\ UNCHANGED <<logs, pc, ask, seen>> /\ Overtake(ClientKeys)
      BY <1>6 DEF Tick, tables
    <2>2. overtaken' \in [Requests -> BOOLEAN]
      BY <2>1 DEF Overtake, AskInv
    <2>3. \A r \in Requests : pc'[r] = "waiting" => overtaken'[r]
      BY <2>1 DEF Overtake, AskInv
    <2>4. QED
      BY <1>1, <2>1, <2>2, <2>3 DEF AskInv
  <1>7. CASE Crash
    <2>1. UNCHANGED <<logs, ask>>
      BY <1>7 DEF Crash, tables
    <2>2. /\ pc' \in [Requests -> {"new", "waiting", "rejected", "refused", "admitted", "ended", "lost"}]
          /\ \A r \in Requests : pc'[r] \notin {"waiting", "admitted", "refused"}
          /\ DOMAIN seen' = Requests /\ overtaken' \in [Requests -> BOOLEAN]
      BY <1>7 DEF Crash, AskInv
    <2>3. QED
      BY <2>1, <2>2 DEF AskInv
  <1>8. QED
    BY <1>2, <1>3, <1>4, <1>5, <1>6, <1>7, AskRequests, AskDebug DEF OtherStep

LEMMA AskInit == Init => AskInv
<1> SUFFICES ASSUME Init PROVE AskInv
  OBVIOUS
<1>1. PICK d \in Databases : logs = d.logs
  BY DEF Init
<1>2. logs \in Seq(LogRow)
  BY <1>1, ClientKeysAssumption
<1>3. QED
  BY <1>2 DEF Init, AskInv

LEMMA AskStep == ASSUME TablesInv, TxInv, AskInv, [Next]_vars PROVE AskInv'
  BY StepCases, AskUsers, AskKeys, AskOthers

LEMMA AskInvariant == Spec => []AskInv
<1>1. TablesInv /\ TxInv /\ AskInv /\ [Next]_vars => AskInv'
  BY AskStep
<1>2. QED
  BY <1>1, AskInit, TablesInvariant, PTL DEF Spec

(* The decision on what the statement has read, if that is still so, is    *)
(* what the tables entitle the key to.                                     *)
LEMMA VerdictIsEntitlement ==
    ASSUME TablesInv, NEW k \in ClientKeys, rows[k] # NoRow, NEW m
    PROVE  Verdict(rows[k], Snapshot(k), m) = "admitted" <=> Entitled(k, m)
  <1>1. rows[k] \in KeyRow /\ now \in Nat
    BY DEF TablesInv
  <1>2. Matches(rows[k], now) <=> rows[k].status = "active" /\ now < rows[k].expires
    BY <1>1 DEF Matches, KeyRow
  <1>3. /\ OwnerMayUse(k)
        /\ rows[k].owner = NoRow \/ users[rows[k].owner].funded
        <=> (rows[k].owner # NoRow =>
                users[rows[k].owner].status = "active" /\ users[rows[k].owner].funded)
    <2>1. CASE rows[k].owner = NoRow
      BY <2>1 DEF OwnerMayUse
    <2>2. CASE rows[k].owner # NoRow
      <3>1. rows[k].owner \in Users /\ users[rows[k].owner] # NoRow
        BY <1>1, <2>2 DEF TablesInv, KeyRow
      <3>2. QED
        BY <2>2, <3>1 DEF OwnerMayUse, IsActive
    <2>3. QED
      BY <2>1, <2>2
  <1>4. clientKeyBudgetExceeded(rows[k], Snapshot(k)) <=>
           \/ rows[k].daily > 0 /\ rows[k].daily <= Billed(Entries({k}, dayStart(now)))
           \/ rows[k].monthly > 0 /\ rows[k].monthly <= Billed(Entries({k}, monthStart(now)))
    BY DEF clientKeyBudgetExceeded, IsCostLimited, Snapshot
  <1>5. clientKeyAllowsModel(Snapshot(k), m) <=> (allowed[k] # {} => m \in allowed[k])
    BY DEF clientKeyAllowsModel, Snapshot
  <1>6. Verdict(rows[k], Snapshot(k), m) = "admitted" <=>
           /\ Matches(rows[k], now) /\ OwnerMayUse(k)
           /\ rows[k].owner = NoRow \/ users[rows[k].owner].funded
           /\ clientKeyAllowsModel(Snapshot(k), m) /\ ~clientKeyBudgetExceeded(rows[k], Snapshot(k))
    BY DEF Verdict, Snapshot
  <1>7. QED
    BY <1>2, <1>3, <1>4, <1>5, <1>6 DEF Entitled

(* How a request may be decided in a step. *)
Current(r) ==
    (/\ pc[r] \in {"new", "waiting"} /\ ~overtaken[r]
     /\ pc'[r] \in {"rejected", "refused", "admitted"})
    => (pc'[r] = "admitted" <=> Entitled(ask'[r].key, ask'[r].model))

LEMMA AdmissionStep ==
    ASSUME TablesInv, AskInv, [Next]_vars, NEW r \in Requests PROVE Current(r)
<1> SUFFICES ASSUME Next,
                    pc[r] \in {"new", "waiting"}, ~overtaken[r],
                    pc'[r] \in {"rejected", "refused", "admitted"}
             PROVE  pc'[r] = "admitted" <=> Entitled(ask'[r].key, ask'[r].model)
  BY DEF Current, vars, request
<1>1. Authenticate(r) \/ Decide(r)
  <2>1. pc' # pc
    OBVIOUS
  <2>2. ~Crash
    BY DEF Crash, AskInv
  <2>3. PICK q \in Requests : Authenticate(q) \/ Decide(q) \/ CreateRequestLog(q)
    <3>1. ASSUME NEW c \in Calls,
                 \/ CreateUser(c) \/ UpdateUserStatus(c) \/ BeginUpdate(c) \/ CommitUpdate(c)
                 \/ RollBack(c) \/ ReloadKey(c) \/ recordAdminAction(c) \/ Refuse(c)
          PROVE  UNCHANGED pc
      BY <3>1 DEF CreateUser, UpdateUserStatus, BeginUpdate, CommitUpdate, RollBack, ReloadKey,
                  recordAdminAction, Refuse, request
    <3>2. ASSUME NEW u \in Users,
                 WalletChanges(u) \/ Login(u) \/ CreateClientKey(u) \/ DisableClientKey(u)
          PROVE  UNCHANGED pc
      BY <3>2 DEF WalletChanges, Login, CreateClientKey, DisableClientKey, request
    <3>3. Tick \/ LogDebugRequest => UNCHANGED pc
      BY DEF Tick, LogDebugRequest, request
    <3>4. QED
      BY <2>1, <2>2, <3>1, <3>2, <3>3 DEF Next
  <2>4. q = r
    BY <2>3 DEF Authenticate, Decide, CreateRequestLog, Go, AskInv
  <2>5. ~CreateRequestLog(r)
    BY DEF CreateRequestLog, Go, AskInv
  <2>6. QED
    BY <2>3, <2>4, <2>5
<1>2. CASE Authenticate(r)
  <2>1. PICK k \in known, m \in Models :
           /\ ask' = [ask EXCEPT ![r] = [key |-> k, model |-> m]]
           /\ \/ Go(r, "new", "waiting")
              \/ ~Matches(rows[k], now) /\ Go(r, "new", "rejected")
    BY <1>2 DEF Authenticate
  <2>2. ask'[r].key = k /\ ask'[r].model = m
    BY <2>1 DEF AskInv
  <2>3. ~Matches(rows[k], now) /\ pc'[r] = "rejected"
    BY <2>1 DEF Go, AskInv
  <2>4. k \in ClientKeys /\ rows[k] \in KeyRow /\ now \in Nat
    BY DEF TablesInv
  <2>5. ~Entitled(k, m)
    BY <2>3, <2>4 DEF Entitled, Matches, KeyRow
  <2>6. QED
    BY <2>2, <2>3, <2>5
<1>3. CASE Decide(r)
  <2>1. PICK k \in ClientKeys : k = ask[r].key /\ rows[k] # NoRow
    BY <1>3 DEF Decide, AskInv
  <2>2. /\ pc[r] = "waiting" /\ UNCHANGED ask
        /\ pc'[r] = Verdict(rows[k], seen[r], ask[r].model)
    BY <1>3, <2>1 DEF Decide, Go, AskInv
  <2>3. seen[r] = Snapshot(k)
    BY <2>1, <2>2 DEF AskInv
  <2>4. QED
    BY <2>1, <2>2, <2>3, VerdictIsEntitlement
<1>4. QED
  BY <1>1, <1>2, <1>3

(* A request is let through exactly when its key is entitled to what it    *)
(* asks for at that moment, or has been overtaken by a change.             *)
THEOREM KeysAdmissionIsCurrent == Spec => AdmissionIsCurrent
<1>1. TablesInv /\ AskInv /\ [Next]_vars => [\A r \in Requests : Current(r)]_vars
  BY AdmissionStep
<1>2. QED
  BY <1>1, TablesInvariant, AskInvariant, PTL DEF Spec, AdmissionIsCurrent, Current
-----------------------------------------------------------------------------
(* What no step undoes: a key's row stays, with its owner, time does not   *)
(* go back, and the log grows by rows of keys that are there.              *)
LEMMA HistoryGrows ==
    ASSUME TablesInv, TxInv, AskInv, [Next]_vars
    PROVE  /\ \A k \in ClientKeys : rows[k] # NoRow =>
                 rows'[k] # NoRow /\ rows'[k].owner = rows[k].owner
           /\ now' \in Nat /\ now <= now'
           /\ \/ UNCHANGED logs
              \/ /\ UNCHANGED rows
                 /\ \E entry \in LogRow : /\ logs' = Append(logs, entry)
                                          /\ entry.at = now
                                          /\ entry.key # NoRow => rows[entry.key] # NoRow
<1>1. CASE UserStep
  BY <1>1, TablesUsers DEF UserStep, TablesInv
<1>2. ASSUME NEW c \in Calls, CommitUpdate(c) PROVE UNCHANGED <<now, logs>>
  BY <1>2 DEF CommitUpdate
<1>3. ASSUME NEW u \in Users, CreateClientKey(u) PROVE UNCHANGED <<now, logs>>
  BY <1>3 DEF CreateClientKey
<1>4. ASSUME NEW u \in Users, DisableClientKey(u)
      PROVE  /\ UNCHANGED <<now, logs>>
             /\ \A k \in ClientKeys : rows[k] # NoRow =>
                   rows'[k] # NoRow /\ rows'[k].owner = rows[k].owner
  <2>1. PICK k \in OwnedBy(u) : rows' = [rows EXCEPT ![k].status = "disabled"]
    BY <1>4 DEF DisableClientKey
  <2>2. k \in ClientKeys /\ rows[k] \in KeyRow
    BY DEF OwnedBy, TablesInv
  <2>3. rows'[k].owner = rows[k].owner /\ \A j \in ClientKeys \ {k} : rows'[j] = rows[j]
    BY <2>1, <2>2 DEF TablesInv, KeyRow
  <2>4. rows'[k] # NoRow
    BY <1>4, <2>1, <2>2, ConstantFacts DEF TablesInv, KeyRow, KeyStatuses
  <2>5. QED
    BY <1>4, <2>3, <2>4 DEF DisableClientKey
<1>5. CASE OtherStep
  <2>1. UNCHANGED rows
    BY <1>5, OtherIsQuiet DEF QuietStep
  <2>2. now' \in Nat /\ now <= now'
    BY <1>5, OtherIsQuiet DEF QuietStep, TablesInv, Login, Tick
  <2>3. ASSUME NEW r \in Requests, CreateRequestLog(r), ~UNCHANGED logs
        PROVE  \E entry \in LogRow : /\ logs' = Append(logs, entry) /\ entry.at = now
                                     /\ entry.key # NoRow => rows[entry.key] # NoRow
    <3>1. PICK amount \in Amounts \cup {0} :
             logs' = Append(logs, Entry(r, amount)) /\ pc[r] \in {"admitted", "refused"}
      BY <2>3 DEF CreateRequestLog, Go
    <3>2. amount \in Nat
      BY ClientKeysAssumption
    <3>3. Entry(r, amount) \in LogRow /\ Entry(r, amount).at = now
          /\ rows[Entry(r, amount).key] # NoRow
      BY <3>1, <3>2 DEF Entry, LogRow, AskInv, TablesInv
    <3>4. QED
      BY <3>1, <3>3
  <2>4. ASSUME LogDebugRequest
        PROVE  \E entry \in LogRow : /\ logs' = Append(logs, entry) /\ entry.at = now
                                     /\ entry.key # NoRow => rows[entry.key] # NoRow
    <3>1. PICK m \in Models, a \in Amounts \cup {0} :
             logs' = Append(logs, [key |-> NoRow, model |-> m, at |-> now, amount |-> a])
      BY <2>4 DEF LogDebugRequest
    <3>2. a \in Nat /\ now \in Nat
      BY ClientKeysAssumption DEF TablesInv
    <3>3. [key |-> NoRow, model |-> m, at |-> now, amount |-> a] \in LogRow
      BY <3>2 DEF LogRow
    <3>4. QED
      BY <3>1, <3>3
  <2>5. UNCHANGED logs \/ LogDebugRequest \/ \E r \in Requests : CreateRequestLog(r)
    BY <1>5 DEF OtherStep, BeginUpdate, RollBack, ReloadKey, recordAdminAction, Refuse, Login,
                Authenticate, Decide, Tick, Crash, vars, tables
  <2>6. QED
    BY <2>1, <2>2, <2>3, <2>4, <2>5
<1>6. now \in Nat
  BY DEF TablesInv
<1>7. QED
  BY <1>1, <1>2, <1>3, <1>4, <1>5, <1>6, StepCases, TablesCommit, TablesCreate

(* A log row belongs to a key that is there, if it belongs to one, and is  *)
(* not of the future.                                                      *)
LogsInv ==
    \A i \in 1 .. Len(logs) :
       logs[i].at <= now /\ (logs[i].key # NoRow => rows[logs[i].key] # NoRow)

LEMMA LogsInit == Init => LogsInv
<1> SUFFICES ASSUME Init PROVE LogsInv
  OBVIOUS
<1>1. PICK d \in Databases : logs = d.logs /\ rows = d.rows /\ now = Start
  BY DEF Init
<1>2. QED
  BY <1>1, ClientKeysAssumption DEF LogsInv

LEMMA LogsStep ==
    ASSUME TablesInv, TxInv, AskInv, LogsInv, [Next]_vars PROVE LogsInv'
<1>1. \A i \in 1 .. Len(logs) : logs[i] \in LogRow
  BY DEF AskInv
<1>2. \A i \in 1 .. Len(logs) :
         logs[i].at <= now' /\ (logs[i].key # NoRow => rows'[logs[i].key] # NoRow)
  BY <1>1, HistoryGrows DEF LogsInv, LogRow, TablesInv
<1>3. CASE UNCHANGED logs
  BY <1>2, <1>3 DEF LogsInv
<1>4. ASSUME NEW entry \in LogRow, logs' = Append(logs, entry),
             entry.at = now, entry.key # NoRow => rows[entry.key] # NoRow
      PROVE  LogsInv'
  <2>1. /\ Len(logs) \in Nat /\ Len(logs') = Len(logs) + 1 /\ logs'[Len(logs) + 1] = entry
        /\ \A i \in 1 .. Len(logs) : logs'[i] = logs[i]
    BY <1>4 DEF AskInv
  <2>2. entry.at <= now' /\ (entry.key # NoRow => rows'[entry.key] # NoRow)
    BY <1>4, HistoryGrows DEF LogRow
  <2>3. QED
    BY <1>2, <2>1, <2>2 DEF LogsInv
<1>5. QED
  BY <1>3, <1>4, HistoryGrows

(* What the steps of a reader leave alone.                                 *)
Read == UNCHANGED <<tables, portal, now, admin, tx, request>>

LEMMA ReportStep ==
    ASSUME [ReportNext]_reportVars
    PROVE  \/ [Next]_vars /\ UNCHANGED reader
           \/ Read /\ (CountLogs \/ SelectPage)
  BY DEF ReportNext, reportVars, Read, vars

LEMMA ReadInv ==
    ASSUME TablesInv, TxInv, AskInv, LogsInv, Read
    PROVE  TablesInv' /\ TxInv' /\ AskInv' /\ LogsInv'
<1>1. UNCHANGED <<users, rows, allowed, logs, known, session, now, tx, pc, ask, seen, overtaken>>
  BY DEF Read, tables, portal, request
<1>2. TablesInv' /\ TxInv' /\ LogsInv'
  BY <1>1 DEF TablesInv, TxInv, LogsInv
<1>3. AskInv'
  BY <1>1, AskChanged DEF AskInv
<1>4. QED
  BY <1>2, <1>3

(* The invariants of the keys hold while reports are read.                 *)
KeysInv == TablesInv /\ TxInv /\ AskInv /\ LogsInv

LEMMA KeysInvStep == ASSUME KeysInv, [ReportNext]_reportVars PROVE KeysInv'
  BY ReportStep, ReadInv, TablesStep, AskStep, LogsStep DEF KeysInv

LEMMA KeysInvariant == ReportSpec => []KeysInv
<1>1. ReportInit => KeysInv
  BY TablesInit, AskInit, LogsInit DEF ReportInit, KeysInv
<1>2. KeysInv /\ [ReportNext]_reportVars => KeysInv'
  BY KeysInvStep
<1>3. QED
  BY <1>1, <1>2, PTL DEF ReportSpec

(* The rights, too, are left alone by who reads.                           *)
LEMMA RightsReport ==
    ASSUME KeysInv, RightsInv, [ReportNext]_reportVars PROVE RightsInv'
<1>1. ASSUME Read PROVE RightsInv'
  BY <1>1 DEF Read, tables, admin, RightsInv, RightsAreOneForm, FormOf, Admin!TypeOK
<1>2. QED
  BY <1>1, ReportStep, RightsStep DEF KeysInv

(* The allowance and the clock keep to their bounds.                       *)
BoundsInv == work \in Nat /\ now \in Start .. MaxTime

LEMMA BoundsStep ==
    ASSUME BoundsInv, [ReportNext]_reportVars PROVE BoundsInv'
<1>1. Begin => work' = work + 1
  BY DEF Begin
<1>2. ASSUME [Next]_vars
      PROVE  /\ UNCHANGED work \/ Begin
             /\ UNCHANGED now \/ (now < MaxTime /\ now' = now + 1)
  <2>1. ASSUME NEW c \in Calls,
               \/ CreateUser(c) \/ UpdateUserStatus(c) \/ BeginUpdate(c) \/ CommitUpdate(c)
               \/ RollBack(c) \/ ReloadKey(c) \/ recordAdminAction(c) \/ Refuse(c)
        PROVE  UNCHANGED now /\ (UNCHANGED work \/ Begin)
    BY <2>1 DEF CreateUser, UpdateUserStatus, BeginUpdate, CommitUpdate, RollBack, ReloadKey,
                recordAdminAction, Refuse, Starts
  <2>2. ASSUME NEW u \in Users,
               WalletChanges(u) \/ Login(u) \/ CreateClientKey(u) \/ DisableClientKey(u)
        PROVE  UNCHANGED now /\ (UNCHANGED work \/ Begin)
    BY <2>2 DEF WalletChanges, Login, CreateClientKey, DisableClientKey
  <2>3. ASSUME NEW r \in Requests, Authenticate(r) \/ Decide(r) \/ CreateRequestLog(r)
        PROVE  UNCHANGED now /\ (UNCHANGED work \/ Begin)
    BY <2>3 DEF Authenticate, Decide, CreateRequestLog
  <2>4. Tick => now < MaxTime /\ now' = now + 1 /\ Begin
    BY DEF Tick
  <2>5. Crash \/ LogDebugRequest => UNCHANGED now /\ Begin
    BY DEF Crash, LogDebugRequest
  <2>6. QED
    BY <1>2, <2>1, <2>2, <2>3, <2>4, <2>5 DEF Next, vars
<1>3. [Next]_vars \/ UNCHANGED <<now, work>> \/ (UNCHANGED now /\ Begin)
  BY DEF ReportNext, reportVars, vars, CountLogs
<1>4. QED
  BY <1>1, <1>2, <1>3, ConstantFacts DEF BoundsInv

(* Every variable keeps its type: in particular a key that somebody has    *)
(* the text of has a row, and a transaction has one too.                   *)
THEOREM KeysTypeCorrect == ReportSpec => []TypeOK
<1>1. ReportInit => RightsInv /\ BoundsInv
  BY RightsInit, ConstantFacts, ClientKeysAssumption DEF ReportInit, Init, BoundsInv
<1>2. KeysInv /\ RightsInv /\ [ReportNext]_reportVars => RightsInv'
  BY RightsReport
<1>3. BoundsInv /\ [ReportNext]_reportVars => BoundsInv'
  BY BoundsStep
<1>4. KeysInv /\ RightsInv /\ BoundsInv => TypeOK
  BY DEF KeysInv, TablesInv, TxInv, AskInv, RightsInv, BoundsInv, TypeOK, Admin!TypeOK
<1>5. QED
  BY <1>1, <1>2, <1>3, <1>4, KeysInvariant, PTL DEF ReportSpec

(* The rights of a key come from one form and requests are decided by them *)
(* as they are, while somebody reads reports.                              *)
THEOREM ReportsKeepRights == ReportSpec => []RightsAreOneForm /\ AdmissionIsCurrent
<1>1. ReportInit => RightsInv
  BY RightsInit DEF ReportInit
<1>2. KeysInv /\ RightsInv /\ [ReportNext]_reportVars => RightsInv'
  BY RightsReport
<1>3. RightsInv => RightsAreOneForm
  BY DEF RightsInv
<1>4. KeysInv /\ [ReportNext]_reportVars => [\A r \in Requests : Current(r)]_vars
  <2> SUFFICES ASSUME KeysInv, [ReportNext]_reportVars, NEW r \in Requests PROVE Current(r)
    OBVIOUS
  <2>1. CASE [Next]_vars
    BY <2>1, AdmissionStep DEF KeysInv
  <2>2. CASE Read
    BY <2>2 DEF Read, request, Current
  <2>3. QED
    BY <2>1, <2>2, ReportStep
<1>5. QED
  BY <1>1, <1>2, <1>3, <1>4, KeysInvariant, PTL DEF ReportSpec, AdmissionIsCurrent, Current
-----------------------------------------------------------------------------
(* How many rows of a list are in front of one of them.                     *)
Ahead(i, L) == Cardinality({j \in L : j > i})

(* The pages that the reader has seen.                                     *)
Turned(reading) == IF reading.stage = "counted" THEN reading.page - 1 ELSE reading.page

(* Every row that was there at the beginning has been shown, or lies       *)
(* behind the pages that have: rows are only added in front.               *)
Covers(reading, L) ==
    /\ reading.there \subseteq L
    /\ \A i \in reading.there :
          i \in reading.shown \/ Ahead(i, L) >= Turned(reading) * PageSize

ReaderInv ==
    /\ reader \in [stage : {"idle", "counted", "done"}, who : Users \cup {NoRow}, page : Nat,
                   total : Nat, there : SUBSET Nat, shown : SUBSET Nat, overtaken : BOOLEAN]
    /\ reader.stage = "counted" => reader.page > 0
    /\ Covers(reader, Listed(reader.who))
    /\ PagesCoverAll

LEMMA ListedFacts ==
    ASSUME AskInv, NEW who
    PROVE  IsFiniteSet(Listed(who)) /\ Listed(who) \in SUBSET Nat
<1>1. Len(logs) \in Nat
  BY DEF AskInv
<1>2. IsFiniteSet(1 .. Len(logs))
  BY <1>1, FS_Interval
<1>3. Listed(who) \subseteq 1 .. Len(logs)
  BY DEF Listed, Entries
<1>4. QED
  BY <1>1, <1>2, <1>3, FS_Subset

LEMMA ListedGrows ==
    ASSUME KeysInv, [Next]_vars, NEW who \in Users \cup {NoRow}
    PROVE  Listed(who) \subseteq Listed(who)'
<1> USE DEF KeysInv
<1>1. OwnedBy(who) \subseteq OwnedBy(who)'
  BY HistoryGrows DEF OwnedBy
<1>2. KeysOf(who) \subseteq KeysOf(who)'
  BY <1>1 DEF KeysOf
<1>3. CASE UNCHANGED logs
  BY <1>2, <1>3 DEF Listed, Entries
<1>4. ASSUME NEW entry \in LogRow, logs' = Append(logs, entry)
      PROVE  Listed(who) \subseteq Listed(who)'
  <2>1. /\ Len(logs) \in Nat /\ Len(logs') = Len(logs) + 1
        /\ \A i \in 1 .. Len(logs) : logs'[i] = logs[i]
    BY <1>4 DEF AskInv
  <2>2. QED
    BY <1>2, <2>1 DEF Listed, Entries
<1>5. QED
  BY <1>3, <1>4, HistoryGrows

LEMMA AheadFacts ==
    ASSUME NEW L \in SUBSET Nat, IsFiniteSet(L), NEW i \in Nat
    PROVE  /\ Ahead(i, L) \in Nat /\ Cardinality(L) \in Nat
           /\ i \in L => Ahead(i, L) < Cardinality(L)
           /\ \A M \in SUBSET L : Ahead(i, M) <= Ahead(i, L)
<1>1. IsFiniteSet({j \in L : j > i}) /\ Ahead(i, L) \in Nat /\ Cardinality(L) \in Nat
  BY FS_Subset, FS_CardinalityType DEF Ahead
<1>2. ASSUME i \in L PROVE Ahead(i, L) < Cardinality(L)
  <2>1. PICK A : A = {j \in L : j > i}
    OBVIOUS
  <2>2. A \in SUBSET L /\ A # L
    BY <1>2, <2>1
  <2>3. Cardinality(A) <= Cardinality(L) /\ Cardinality(A) # Cardinality(L)
    BY <2>2, FS_Subset
  <2>4. QED
    BY <1>1, <2>1, <2>3 DEF Ahead
<1>3. ASSUME NEW M \in SUBSET L PROVE Ahead(i, M) <= Ahead(i, L)
  <2>1. PICK A : A = {j \in L : j > i}
    OBVIOUS
  <2>2. PICK B : B = {j \in M : j > i}
    OBVIOUS
  <2>3. B \in SUBSET A /\ IsFiniteSet(A)
    BY <1>1, <2>1, <2>2
  <2>4. Cardinality(B) <= Cardinality(A)
    BY <2>3, FS_Subset
  <2>5. QED
    BY <2>1, <2>2, <2>4 DEF Ahead
<1>4. QED
  BY <1>1, <1>2, <1>3

LEMMA PageSizeFacts == PageSize \in Nat /\ PageSize > 0
  BY ReportsAssumption

(* The log grows behind the back of the reader.                            *)
LEMMA ReaderLogs ==
    ASSUME KeysInv, ReaderInv, [Next]_vars, UNCHANGED reader PROVE ReaderInv'
<1>1. PICK who \in Users \cup {NoRow} : who = reader.who
  BY DEF ReaderInv
<1>2. PICK L : L = Listed(who)
  OBVIOUS
<1>3. PICK M : M = Listed(who)'
  OBVIOUS
<1>4. L \in SUBSET M
  BY <1>2, <1>3, ListedGrows
<1>5. IsFiniteSet(M) /\ M \in SUBSET Nat
  <2>1. Len(logs') \in Nat
    BY AskStep DEF KeysInv, AskInv
  <2>2. IsFiniteSet(1 .. Len(logs')) /\ 1 .. Len(logs') \in SUBSET Nat
    BY <2>1, FS_Interval
  <2>3. M \subseteq 1 .. Len(logs')
    BY <1>3 DEF Listed, Entries
  <2>4. QED
    BY <2>2, <2>3, FS_Subset
<1>6. Covers(reader, M)
  <2>1. Covers(reader, L)
    BY <1>1, <1>2 DEF ReaderInv
  <2>2. ASSUME NEW i \in reader.there, i \notin reader.shown
        PROVE  Ahead(i, M) >= Turned(reader) * PageSize
    <3>1. i \in L /\ i \in Nat /\ Ahead(i, L) >= Turned(reader) * PageSize
      BY <1>4, <1>5, <2>1, <2>2 DEF Covers
    <3>2. Ahead(i, L) <= Ahead(i, M) /\ Ahead(i, M) \in Nat /\ Ahead(i, L) \in Nat
      BY <1>4, <1>5, <3>1, AheadFacts, FS_Subset
    <3>3. Turned(reader) * PageSize \in Int
      BY PageSizeFacts DEF ReaderInv, Turned
    <3>4. QED
      BY <3>1, <3>2, <3>3
  <2>3. QED
    BY <1>4, <2>1, <2>2 DEF Covers
<1>7. Listed(reader.who)' = M
  BY <1>1, <1>3 DEF Listed, Entries, KeysOf, OwnedBy
<1>8. QED
  BY <1>6, <1>7 DEF ReaderInv, PagesCoverAll, Covers, Turned

LEMMA ReaderCounts ==
    ASSUME KeysInv, ReaderInv, Read, CountLogs PROVE ReaderInv'
<1>1. PICK who \in Users \cup {NoRow} :
         /\ reader.page > 0 => who = reader.who
         /\ reader' = [reader EXCEPT !.stage = "counted", !.who = who,
                !.page = @ + 1, !.total = Cardinality(Listed(who)),
                !.there = IF reader.page = 0 THEN Listed(who) ELSE @]
         /\ reader.stage = "idle"
  BY DEF CountLogs
<1>2. PICK L : L = Listed(who)
  OBVIOUS
<1>3. IsFiniteSet(L) /\ L \in SUBSET Nat /\ Cardinality(L) \in Nat
  BY <1>2, ListedFacts, FS_CardinalityType DEF KeysInv
<1>4. /\ reader'.stage = "counted" /\ reader'.who = who /\ reader'.page = reader.page + 1
      /\ reader'.there = IF reader.page = 0 THEN L ELSE reader.there
      /\ reader'.shown = reader.shown
      /\ reader.stage = "idle" /\ reader.page \in Nat
      /\ reader' \in [stage : {"idle", "counted", "done"}, who : Users \cup {NoRow}, page : Nat,
                   total : Nat, there : SUBSET Nat, shown : SUBSET Nat, overtaken : BOOLEAN]
  <2>1. PICK there \in SUBSET Nat : there = IF reader.page = 0 THEN L ELSE reader.there
    BY <1>3 DEF ReaderInv
  <2>2. PICK total \in Nat : total = Cardinality(Listed(who))
    BY <1>2, <1>3
  <2>3. reader' = [reader EXCEPT !.stage = "counted", !.who = who, !.page = reader.page + 1,
                                 !.total = total, !.there = there]
    BY <1>1, <1>2, <2>1, <2>2
  <2>4. PICK page \in Nat : page = reader.page
    BY DEF ReaderInv
  <2>5. PICK new : new = page + 1 /\ new \in Nat
    BY <2>4
  <2>6. reader' = [reader EXCEPT !.stage = "counted", !.who = who, !.page = new,
                                 !.total = total, !.there = there]
    BY <2>3, <2>4, <2>5
  <2>7. /\ reader'.stage = "counted" /\ reader'.who = who /\ reader'.page = new
        /\ reader'.there = there /\ reader'.shown = reader.shown
    BY <2>6 DEF ReaderInv
  <2>8. reader' \in [stage : {"idle", "counted", "done"}, who : Users \cup {NoRow}, page : Nat,
                     total : Nat, there : SUBSET Nat, shown : SUBSET Nat, overtaken : BOOLEAN]
    BY <2>5, <2>6 DEF ReaderInv
  <2>9. QED
    BY <1>1, <2>1, <2>4, <2>5, <2>7, <2>8
<1>5. Turned(reader') = reader.page /\ Turned(reader) = reader.page
  BY <1>4 DEF Turned
<1>6. Covers(reader', L)
  <2>1. CASE reader.page = 0
    <3>1. \A i \in L : Ahead(i, L) >= 0 * PageSize
      BY <1>3, AheadFacts, PageSizeFacts
    <3>2. QED
      BY <1>4, <1>5, <2>1, <3>1 DEF Covers
  <2>2. CASE reader.page # 0
    BY <1>1, <1>2, <1>4, <1>5, <2>2 DEF Covers, ReaderInv
  <2>3. QED
    BY <2>1, <2>2
<1>7. Listed(reader.who)' = L
  BY <1>2, <1>4 DEF Listed, Entries, KeysOf, OwnedBy, Read, tables
<1>8. QED
  BY <1>4, <1>6, <1>7 DEF ReaderInv, PagesCoverAll

LEMMA ReaderSelects ==
    ASSUME KeysInv, ReaderInv, Read, SelectPage PROVE ReaderInv'
<1>1. PICK L : L = Listed(reader.who)
  OBVIOUS
<1>2. IsFiniteSet(L) /\ L \in SUBSET Nat /\ Cardinality(L) \in Nat
  BY <1>1, ListedFacts, FS_CardinalityType DEF KeysInv
<1>3. PICK page \in Nat \ {0} : page = reader.page
  BY DEF ReaderInv, SelectPage
<1>4. PICK P : P = {i \in L : Ahead(i, L) \in (page - 1) * PageSize .. (page - 1) * PageSize + PageSize - 1}
  OBVIOUS
<1>5. P = Slice(L, Newer, (page - 1) * PageSize, PageSize)
  BY <1>4 DEF Slice, Place, Newer, Ahead
<1>6. reader' = [reader EXCEPT
              !.shown = @ \cup P,
              !.stage = IF page * PageSize < reader.total THEN "idle" ELSE "done",
              !.overtaken = Cardinality(L) # reader.total]
  BY <1>1, <1>3, <1>5 DEF SelectPage, PageOf
<1>7. /\ reader'.stage = IF page * PageSize < reader.total THEN "idle" ELSE "done"
      /\ reader'.who = reader.who /\ reader'.page = page /\ reader'.there = reader.there
      /\ reader'.shown = reader.shown \cup P
      /\ reader'.overtaken = (Cardinality(L) # reader.total)
      /\ reader' \in [stage : {"idle", "counted", "done"}, who : Users \cup {NoRow}, page : Nat,
                   total : Nat, there : SUBSET Nat, shown : SUBSET Nat, overtaken : BOOLEAN]
  BY <1>2, <1>3, <1>4, <1>6 DEF ReaderInv
<1>8. Turned(reader) = page - 1 /\ Turned(reader') = page
  BY <1>3, <1>7 DEF Turned, SelectPage
<1>9. ASSUME NEW i \in reader.there, i \notin reader'.shown
      PROVE  Ahead(i, L) >= page * PageSize
  <2>1. i \in L /\ i \in Nat /\ i \notin P /\ Ahead(i, L) >= (page - 1) * PageSize
    BY <1>1, <1>2, <1>7, <1>8, <1>9 DEF ReaderInv, Covers
  <2>2. PICK a \in Nat : a = Ahead(i, L)
    BY <1>2, <2>1, AheadFacts
  <2>3. PICK off \in Nat : off = (page - 1) * PageSize /\ page * PageSize = off + PageSize
    <3>1. page - 1 \in Nat /\ page = (page - 1) + 1
      BY <1>3
    <3>2. (page - 1) * PageSize \in Nat /\ page * PageSize = (page - 1) * PageSize + PageSize
      BY <1>3, <3>1, PageSizeFacts
    <3>3. QED
      BY <3>2
  <2>4. a >= off /\ a \notin off .. off + PageSize - 1
    BY <1>4, <2>1, <2>2, <2>3
  <2>5. a >= off + PageSize
    BY <2>2, <2>3, <2>4, PageSizeFacts
  <2>6. QED
    BY <2>2, <2>3, <2>5
<1>10. Covers(reader', L)
  BY <1>1, <1>7, <1>8, <1>9 DEF ReaderInv, Covers
<1>11. PagesCoverAll'
  <2> SUFFICES ASSUME reader'.stage = "done", ~reader'.overtaken,
                      NEW i \in reader'.there, i \notin reader'.shown
               PROVE  FALSE
    BY DEF PagesCoverAll
  <2>1. Ahead(i, L) >= page * PageSize /\ Ahead(i, L) < Cardinality(L) /\ Ahead(i, L) \in Nat
    <3>1. i \in L
      BY <1>10 DEF Covers
    <3>2. QED
      BY <1>2, <1>7, <1>9, <3>1, AheadFacts
  <2>2. Cardinality(L) = reader.total /\ ~(page * PageSize < reader.total)
    BY <1>7
  <2>3. page * PageSize \in Nat
    BY PageSizeFacts
  <2>4. QED
    BY <1>2, <2>1, <2>2, <2>3
<1>12. Listed(reader.who)' = L
  BY <1>1, <1>7 DEF Listed, Entries, KeysOf, OwnedBy, Read, tables
<1>13. reader'.stage # "counted"
  BY <1>7
<1>14. QED
  BY <1>7, <1>10, <1>11, <1>12, <1>13 DEF ReaderInv

(* Who turns the pages of the log list to its end has seen every row that  *)
(* was there at the beginning, for any size of the pages, whatever is      *)
(* logged, unless a row is added between a count and the last page.        *)
THEOREM ReportsPagesCoverAll == ReportSpec => []PagesCoverAll
<1>1. ReportInit => ReaderInv
  BY DEF ReportInit, ReaderInit, ReaderInv, Covers, PagesCoverAll
<1>2. KeysInv /\ ReaderInv /\ [ReportNext]_reportVars => ReaderInv'
  BY ReportStep, ReaderLogs, ReaderCounts, ReaderSelects
<1>3. ReaderInv => PagesCoverAll
  BY DEF ReaderInv
<1>4. QED
  BY <1>1, <1>2, <1>3, KeysInvariant, PTL DEF ReportSpec
-----------------------------------------------------------------------------
(* The queries all sum up the amounts of the same log rows, each over      *)
(* other classes of them.                                                  *)

Logged == 1 .. Len(logs)
amounts == [i \in Logged |-> logs[i].amount]

LEMMA LoggedFacts ==
    ASSUME KeysInv
    PROVE  /\ IsFiniteSet(Logged) /\ Logged \in SUBSET Nat
           /\ now \in Nat
           /\ \A i \in Logged : /\ logs[i] \in LogRow /\ amounts[i] \in Nat
                                /\ logs[i].key \in AnyKey
                                /\ logs[i].key # NoRow => Exists(logs[i].key)
                                /\ logs[i].at \in Nat /\ logs[i].at <= now
           /\ \A K, since : Entries(K, since) \in SUBSET Logged
<1>1. Len(logs) \in Nat /\ \A i \in Logged : logs[i] \in LogRow
  BY DEF KeysInv, AskInv, Logged
<1>2. IsFiniteSet(Logged) /\ Logged \in SUBSET Nat
  BY <1>1, FS_Interval DEF Logged
<1>3. \A i \in Logged : logs[i].at <= now /\ (logs[i].key # NoRow => Exists(logs[i].key))
  BY DEF KeysInv, LogsInv, Logged, Exists
<1>4. now \in Nat
  BY DEF KeysInv, TablesInv
<1>5. \A K, since : Entries(K, since) \in SUBSET Logged
  BY DEF Entries, Logged
<1>6. QED
  BY <1>1, <1>2, <1>3, <1>4, <1>5 DEF amounts, LogRow, AnyKey

LEMMA BilledIsSum ==
    ASSUME KeysInv, NEW E \in SUBSET Logged
    PROVE  /\ IsFiniteSet(E) /\ \A i \in E : amounts[i] \in Int
           /\ Billed(E) = SumFunctionOnSet(amounts, E) /\ Billed(E) \in Nat
<1>1. IsFiniteSet(E) /\ \A i \in E : amounts[i] \in Nat /\ amounts[i] = logs[i].amount
  BY LoggedFacts, FS_Subset DEF amounts
<1>2. PICK f : f = [i \in E |-> logs[i].amount]
  OBVIOUS
<1>3. Billed(E) = SumFunctionOnSet(f, E)
  BY <1>2 DEF Billed, Total, SumFunction
<1>4. \A i \in E : f[i] = amounts[i]
  BY <1>1, <1>2
<1>5. SumFunctionOnSet(f, E) = SumFunctionOnSet(amounts, E)
  BY <1>1, <1>4, SumSame
<1>6. SumFunctionOnSet(amounts, E) \in Nat
  BY <1>1, SumIsNat
<1>7. QED
  BY <1>1, <1>3, <1>5, <1>6

(* Rows divided into classes: the sum of what is billed in each.           *)
LEMMA BilledByClass ==
    ASSUME KeysInv, NEW E \in SUBSET Logged, NEW cls, NEW P, IsFiniteSet(P),
           \A i \in E : cls[i] \in P,
           NEW g, DOMAIN g = P, \A p \in P : g[p] = Billed({i \in E : cls[i] = p})
    PROVE  Billed(E) = Total(g)
<1>1. PICK h : h = [p \in P |-> SumFunctionOnSet(amounts, {i \in E : cls[i] = p})]
  OBVIOUS
<1>2. Billed(E) = SumFunctionOnSet(amounts, E) /\ IsFiniteSet(E)
      /\ \A i \in E : amounts[i] \in Int
  BY BilledIsSum
<1>3. SumFunctionOnSet(amounts, E) = SumFunctionOnSet(h, P)
  BY <1>1, <1>2, SumPartition
<1>4. ASSUME NEW p \in P PROVE g[p] = h[p]
  <2>1. PICK Q : Q = {i \in E : cls[i] = p}
    OBVIOUS
  <2>2. Q \in SUBSET Logged
    BY <2>1
  <2>3. Billed(Q) = SumFunctionOnSet(amounts, Q)
    BY <2>2, BilledIsSum
  <2>4. QED
    BY <1>1, <2>1, <2>3
<1>5. SumFunctionOnSet(g, P) = SumFunctionOnSet(h, P)
  BY <1>4, SumSame
<1>6. QED
  BY <1>2, <1>3, <1>5 DEF Total, SumFunction

(* By the key.                                                             *)
LEMMA BilledByKey ==
    ASSUME KeysInv, NEW E \in SUBSET Logged, NEW K \in SUBSET ClientKeys,
           \A i \in E : logs[i].key \in K,
           NEW g, DOMAIN g = K, \A k \in K : g[k] = Billed({i \in E : logs[i].key = k})
    PROVE  Billed(E) = Total(g)
<1>1. PICK cls : cls = [i \in E |-> logs[i].key]
  OBVIOUS
<1>2. IsFiniteSet(K)
  BY ReportsAssumption, FS_Subset
<1>3. \A k \in K : {i \in E : cls[i] = k} = {i \in E : logs[i].key = k}
  BY <1>1
<1>4. QED
  BY <1>1, <1>2, <1>3, BilledByClass

(* What users have spent, and what the keys have that nobody owns, and     *)
(* requests without a key, is all that was.                                *)
LEMMA SinceAgrees ==
    ASSUME KeysInv, NEW since
    PROVE  Billed(Entries(AnyKey, since))
             = Total([u \in Users |-> Billed(Entries(OwnedBy(u), since))])
               + Total([k \in Unowned |-> Billed(Entries({k}, since))])
               + Billed(Entries({NoRow}, since))
<1>1. PICK E : E = Entries(AnyKey, since)
  OBVIOUS
<1>2. PICK Own : Own = {i \in E : logs[i].key # NoRow /\ rows[logs[i].key].owner # NoRow}
  OBVIOUS
<1>3. PICK Un : Un = {i \in E : logs[i].key # NoRow /\ rows[logs[i].key].owner = NoRow}
  OBVIOUS
<1>4. PICK Debug : Debug = {i \in E : logs[i].key = NoRow}
  OBVIOUS
<1>5. /\ E \in SUBSET Logged /\ Own \in SUBSET Logged /\ Un \in SUBSET Logged
      /\ Debug \in SUBSET Logged /\ Own \cup Un \in SUBSET Logged
      /\ E = (Own \cup Un) \cup Debug /\ Own \cap Un = {} /\ (Own \cup Un) \cap Debug = {}
  BY <1>1, <1>2, <1>3, <1>4, LoggedFacts
<1>6. Billed(E) = Billed(Own) + Billed(Un) + Billed(Debug)
  <2>1. /\ Billed(Own) = SumFunctionOnSet(amounts, Own) /\ IsFiniteSet(Own)
        /\ Billed(Un) = SumFunctionOnSet(amounts, Un) /\ IsFiniteSet(Un)
        /\ Billed(Debug) = SumFunctionOnSet(amounts, Debug) /\ IsFiniteSet(Debug)
        /\ IsFiniteSet(Own \cup Un)
        /\ Billed(E) = SumFunctionOnSet(amounts, E) /\ \A i \in E : amounts[i] \in Int
    BY <1>5, BilledIsSum
  <2>2. SumFunctionOnSet(amounts, Own \cup Un)
          = SumFunctionOnSet(amounts, Own) + SumFunctionOnSet(amounts, Un)
    BY <1>5, <2>1, SumUnion
  <2>3. SumFunctionOnSet(amounts, (Own \cup Un) \cup Debug)
          = SumFunctionOnSet(amounts, Own \cup Un) + SumFunctionOnSet(amounts, Debug)
    BY <1>5, <2>1, SumUnion
  <2>4. QED
    BY <1>5, <2>1, <2>2, <2>3
<1>7. Billed(Own) = Total([u \in Users |-> Billed(Entries(OwnedBy(u), since))])
  <2>1. PICK cls : cls = [i \in Own |-> rows[logs[i].key].owner]
    OBVIOUS
  <2>2. PICK g : g = [u \in Users |-> Billed(Entries(OwnedBy(u), since))]
    OBVIOUS
  <2>3. \A i \in Own : cls[i] \in Users
    BY <1>2, <1>5, <2>1, LoggedFacts DEF KeysInv, TablesInv, KeyRow, Exists, AnyKey
  <2>4. ASSUME NEW u \in Users PROVE Entries(OwnedBy(u), since) = {i \in Own : cls[i] = u}
    <3>1. u # NoRow
      BY ConstantFacts
    <3>2. \A i \in Logged : logs[i].key \in OwnedBy(u) <=>
             logs[i].key # NoRow /\ rows[logs[i].key].owner = u
      BY LoggedFacts, ConstantFacts DEF OwnedBy, Exists, AnyKey
    <3>3. QED
      BY <1>1, <1>2, <2>1, <3>1, <3>2, LoggedFacts DEF Entries, Logged
  <2>5. IsFiniteSet(Users)
    BY ReportsAssumption
  <2>6. DOMAIN g = Users /\ \A u \in Users : g[u] = Billed({i \in Own : cls[i] = u})
    BY <2>2, <2>4
  <2>7. Billed(Own) = Total(g)
    BY <1>5, <2>3, <2>5, <2>6, BilledByClass
  <2>8. QED
    BY <2>2, <2>7
<1>8. Billed(Un) = Total([k \in Unowned |-> Billed(Entries({k}, since))])
  <2>1. PICK g : g = [k \in Unowned |-> Billed(Entries({k}, since))]
    OBVIOUS
  <2>2. \A i \in Un : logs[i].key \in Unowned
    BY <1>3, <1>5, LoggedFacts DEF Unowned, AnyKey
  <2>3. ASSUME NEW k \in Unowned PROVE Entries({k}, since) = {i \in Un : logs[i].key = k}
    BY <1>1, <1>3, LoggedFacts, ConstantFacts DEF Entries, Logged, Unowned
  <2>4. Unowned \in SUBSET ClientKeys
    BY DEF Unowned
  <2>5. DOMAIN g = Unowned /\ \A k \in Unowned : g[k] = Billed({i \in Un : logs[i].key = k})
    BY <2>1, <2>3
  <2>6. Billed(Un) = Total(g)
    BY <1>5, <2>2, <2>4, <2>5, BilledByKey
  <2>7. QED
    BY <2>1, <2>6
<1>9. Entries({NoRow}, since) = Debug
  BY <1>1, <1>4, LoggedFacts DEF Entries, Logged, AnyKey
<1>10. QED
  BY <1>1, <1>6, <1>7, <1>8, <1>9

(* The dashboard's figures are what the users' portals show, and what      *)
(* nobody's keys and the requests without a key have spent.                *)
LEMMA DashboardAgrees ==
    ASSUME KeysInv
    PROVE  /\ Dashboard.today = SumOver(Users, LAMBDA u : PortalStats(u).today)
                                   + SumOver(Unowned, LAMBDA k : CostUsage(k).day)
                                   + Billed(Entries({NoRow}, dayStart(now)))
           /\ Dashboard.month = SumOver(Users, LAMBDA u : PortalStats(u).month)
                                   + SumOver(Unowned, LAMBDA k : CostUsage(k).month)
                                   + Billed(Entries({NoRow}, monthStart(now)))
<1>1. /\ SumOver(Users, LAMBDA u : PortalStats(u).today)
            = Total([u \in Users |-> Billed(Entries(OwnedBy(u), dayStart(now)))])
      /\ SumOver(Users, LAMBDA u : PortalStats(u).month)
            = Total([u \in Users |-> Billed(Entries(OwnedBy(u), monthStart(now)))])
  BY DEF SumOver, PortalStats
<1>2. /\ SumOver(Unowned, LAMBDA k : CostUsage(k).day)
            = Total([k \in Unowned |-> Billed(Entries({k}, dayStart(now)))])
      /\ SumOver(Unowned, LAMBDA k : CostUsage(k).month)
            = Total([k \in Unowned |-> Billed(Entries({k}, monthStart(now)))])
  BY DEF SumOver, CostUsage
<1>3. /\ Dashboard.today = Billed(Entries(AnyKey, dayStart(now)))
      /\ Dashboard.month = Billed(Entries(AnyKey, monthStart(now)))
  BY DEF Dashboard
<1>4. QED
  BY <1>1, <1>2, <1>3, SinceAgrees

(* A portal's total is what its keys have spent.                           *)
LEMMA PortalAgrees ==
    ASSUME KeysInv, NEW u \in Users
    PROVE  PortalStats(u).total = SumOver(OwnedBy(u), LAMBDA k : UserKeys(u)[k].total)
<1>1. PICK K : K = OwnedBy(u) /\ K \in SUBSET ClientKeys
  BY DEF OwnedBy
<1>2. PICK E : E = Entries(K, 0) /\ E \in SUBSET Logged
  BY LoggedFacts
<1>3. PICK g : g = [k \in K |-> UserKeys(u)[k].total]
  OBVIOUS
<1>4. ASSUME NEW k \in K PROVE g[k] = Billed({i \in E : logs[i].key = k})
  <2>1. g[k] = Billed(Entries({k}, 0))
    BY <1>1, <1>3 DEF UserKeys, CostUsage
  <2>2. Entries({k}, 0) = {i \in E : logs[i].key = k}
    BY <1>2 DEF Entries
  <2>3. QED
    BY <2>1, <2>2
<1>5. DOMAIN g = K /\ \A i \in E : logs[i].key \in K
  BY <1>2, <1>3 DEF Entries
<1>6. Billed(E) = Total(g)
  BY <1>1, <1>2, <1>4, <1>5, BilledByKey
<1>7. SumOver(OwnedBy(u), LAMBDA k : UserKeys(u)[k].total) = Total(g)
  BY <1>1, <1>3 DEF SumOver
<1>8. QED
  BY <1>1, <1>2, <1>6, <1>7 DEF PortalStats

(* A key's total is what its models have cost.                             *)
LEMMA ModelsAgree ==
    ASSUME KeysInv, NEW u \in Users, NEW k \in OwnedBy(u)
    PROVE  SumOver(DOMAIN KeyModelStats(u, k), LAMBDA m : KeyModelStats(u, k)[m])
             = CostUsage(k).total
<1>1. PICK E : E = Entries({k}, 0) /\ E \in SUBSET Logged
  BY LoggedFacts
<1>2. PICK cls : cls = [i \in E |-> logs[i].model]
  OBVIOUS
<1>3. PICK P : P = {cls[i] : i \in E}
  OBVIOUS
<1>4. PICK g : g = [m \in P |-> Billed({i \in E : logs[i].model = m})]
  OBVIOUS
<1>5. KeyModelStats(u, k) = g
  <2>1. P = {logs[i].model : i \in E}
    BY <1>2, <1>3
  <2>2. QED
    BY <1>1, <1>4, <2>1 DEF KeyModelStats
<1>6. IsFiniteSet(P)
  BY <1>1, <1>3, BilledIsSum, ImageIsFinite
<1>7. DOMAIN g = P /\ \A m \in P : g[m] = Billed({i \in E : cls[i] = m})
  <2>1. ASSUME NEW m \in P PROVE {i \in E : cls[i] = m} = {i \in E : logs[i].model = m}
    BY <1>2
  <2>2. QED
    BY <1>4, <2>1
<1>8. \A i \in E : cls[i] \in P
  BY <1>3
<1>9. Billed(E) = Total(g)
  BY <1>1, <1>6, <1>7, <1>8, BilledByClass
<1>10. SumOver(DOMAIN g, LAMBDA m : g[m]) = Total(g)
  BY <1>4 DEF SumOver
<1>11. QED
  BY <1>1, <1>5, <1>9, <1>10 DEF CostUsage

(* Days begin at multiples of a day, and months at the beginning of one.   *)
LEMMA DayFacts ==
    ASSUME KeysInv
    PROVE  LET from == monthStart(now) \div DayTicks
           IN  /\ from \in Nat /\ today \in Nat /\ from <= today
               /\ from * DayTicks = monthStart(now) /\ dayStart(now) = today * DayTicks
               /\ now < (today + 1) * DayTicks
               /\ \A t \in Nat : t <= now => t < (today + 1) * DayTicks
<1> USE ConstantFacts
<1>1. PICK D \in Nat \ {0} : D = DayTicks
  OBVIOUS
<1>2. PICK t \in Nat : t = now
  BY DEF KeysInv, TablesInv
<1>3. PICK m \in Nat \ {0} : m = D * MonthDays
  BY <1>1
<1>4. PICK q \in Nat : q = t \div m /\ q * m <= t
  BY <1>2, <1>3, Quotient
<1>5. PICK d \in Nat : d = t \div D /\ t < d * D + D
  BY <1>1, <1>2, Quotient
<1>6. PICK f \in Nat : f = q * MonthDays
  OBVIOUS
<1>7. f * D = q * m
  BY <1>1, <1>3, <1>4, <1>6
<1>8. (f * D) \div D = f /\ f <= t \div D
  BY <1>1, <1>2, <1>4, <1>6, <1>7, QuotientIs
<1>9. monthStart(now) = f * D
  BY <1>1, <1>2, <1>3, <1>4, <1>7 DEF monthStart
<1>10. today = d /\ dayStart(now) = d * D
  BY <1>1, <1>2, <1>5 DEF today, dayStart
<1>11. (d + 1) * D = d * D + D /\ d * D \in Nat
  BY <1>1, <1>5
<1>12. QED
  BY <1>1, <1>2, <1>5, <1>8, <1>9, <1>10, <1>11

(* A portal's month is what its days add up to, and its day the last one,  *)
(* if the days are asked for with one to spare at both ends.               *)
LEMMA DaysAgree ==
    ASSUME KeysInv, NEW u \in Users
    PROVE  LET first == monthStart(now) \div DayTicks
               days == DailyStats(u, first - 1, today + 2)
           IN  /\ days[today] = PortalStats(u).today
               /\ SumOver(first .. today, LAMBDA d : days[d]) = PortalStats(u).month
<1>1. PICK from \in Nat : from = monthStart(now) \div DayTicks
  BY DayFacts
<1>2. PICK to \in Nat : to = today + 1
  BY DayFacts
<1>3. /\ today \in from .. to - 1 /\ to - 1 = today
      /\ from * DayTicks = monthStart(now) /\ dayStart(now) = today * DayTicks
      /\ \A t \in Nat : t <= now => t < to * DayTicks
  BY <1>1, <1>2, DayFacts
<1>4. PICK E : E = Entries(OwnedBy(u), monthStart(now)) /\ E \in SUBSET Logged
  BY LoggedFacts
<1>5. PICK C : C = {i \in Entries(OwnedBy(u), midnight(from - 1)) : logs[i].at < midnight(to + 1)}
  OBVIOUS
<1>6. PICK days : days = [d \in from .. to - 1 |-> Billed({i \in E : logs[i].at \div DayTicks = d})]
  OBVIOUS
<1>7. ASSUME NEW d \in from .. to - 1
      PROVE  DailyStats(u, from - 1, today + 2)[d] = days[d]
  <2>1. from - 1 \in Int /\ today + 2 = to + 1 /\ d \in (from - 1) .. (to + 1) - 1 /\ d \in Nat
    BY <1>2, <1>3, DayFacts
  <2>2. DailyStats(u, from - 1, to + 1)[d] = Billed({i \in C : logs[i].at \div DayTicks = d})
    BY <1>5, <2>1 DEF DailyStats
  <2>3. ASSUME NEW i \in Logged, logs[i].key \in OwnedBy(u), logs[i].at \div DayTicks = d
        PROVE  i \in E /\ i \in C
    <3>1. PICK t \in Nat : t = logs[i].at /\ t < to * DayTicks
      BY <1>3, LoggedFacts
    <3>2. PICK D \in Nat \ {0} : D = DayTicks
      BY ConstantFacts
    <3>3. PICK z \in Int : z = ZoneTicks /\ z < D /\ -D < z
      BY <3>2, ReportsAssumption
    <3>4. d * D <= t /\ d * D \in Nat /\ from * D \in Nat /\ to * D \in Nat
      BY <2>1, <2>3, <3>1, <3>2, Quotient
    <3>5. from * D <= d * D
      <4>1. PICK e \in Nat : d = from + e
        <5>1. d - from \in Nat /\ d = from + (d - from)
          BY <2>1
        <5>2. QED
          BY <5>1
      <4>2. d * D = from * D + e * D /\ e * D \in Nat
        BY <4>1
      <4>3. QED
        BY <3>4, <4>2
    <3>6. (from - 1) * D = from * D - D /\ (to + 1) * D = to * D + D
      OBVIOUS
    <3>7. midnight(from - 1) = from * D - D + z /\ midnight(to + 1) = to * D + D + z
      BY <3>2, <3>3, <3>6 DEF midnight
    <3>8. t >= midnight(from - 1) /\ t < midnight(to + 1) /\ t >= monthStart(now)
      BY <1>3, <3>1, <3>2, <3>3, <3>4, <3>5, <3>7
    <3>9. QED
      BY <1>4, <1>5, <2>3, <3>1, <3>8 DEF Entries, Logged
  <2>4. {i \in C : logs[i].at \div DayTicks = d} = {i \in E : logs[i].at \div DayTicks = d}
    <3>1. \A i \in C \cup E : i \in Logged /\ logs[i].key \in OwnedBy(u)
      BY <1>4, <1>5 DEF Entries, Logged
    <3>2. QED
      BY <2>3, <3>1
  <2>5. QED
    BY <1>6, <2>1, <2>2, <2>4
<1>8. days[today] = PortalStats(u).today
  <2>1. ASSUME NEW i \in Logged
        PROVE  logs[i].at \div DayTicks = today <=> logs[i].at >= dayStart(now)
    <3>1. PICK t \in Nat : t = logs[i].at /\ t <= now
      BY LoggedFacts
    <3>2. PICK D \in Nat \ {0} : D = DayTicks
      BY ConstantFacts
    <3>3. PICK d \in Nat : d = today
      BY DayFacts
    <3>4. t < d * D + D
      <4>1. t < (d + 1) * D /\ (d + 1) * D = d * D + D
        BY <3>1, <3>2, <3>3, DayFacts
      <4>2. QED
        BY <4>1
    <3>5. d * D <= t => t \div D = d
      BY <3>4, QuotientIs
    <3>6. t \div D = d => d * D <= t
      BY Quotient
    <3>7. d * D \in Nat
      OBVIOUS
    <3>8. QED
      BY <1>3, <3>1, <3>2, <3>3, <3>5, <3>6, <3>7
  <2>2. \A i \in Logged : logs[i].at >= dayStart(now) => logs[i].at >= monthStart(now)
    <3>1. from * DayTicks <= today * DayTicks
      <4>1. PICK d \in Nat : d = today /\ from <= d
        BY <1>1, DayFacts
      <4>2. PICK e \in Nat : d = from + e
        <5>1. d - from \in Nat /\ d = from + (d - from)
          BY <4>1
        <5>2. QED
          BY <5>1
      <4>3. PICK D \in Nat : D = DayTicks
        BY ConstantFacts
      <4>4. d * D = from * D + e * D /\ e * D \in Nat /\ from * D \in Nat
        BY <4>2
      <4>5. QED
        BY <4>1, <4>3, <4>4
    <3>2. from * DayTicks \in Nat /\ today * DayTicks \in Nat
      BY ConstantFacts, DayFacts
    <3>3. QED
      BY <1>3, <3>1, <3>2, LoggedFacts
  <2>3. Entries(OwnedBy(u), dayStart(now)) = {i \in E : logs[i].at \div DayTicks = today}
    BY <1>4, <2>1, <2>2 DEF Entries, Logged
  <2>4. days[today] = Billed({i \in E : logs[i].at \div DayTicks = today})
    BY <1>3, <1>6
  <2>5. QED
    BY <2>3, <2>4 DEF PortalStats
<1>9. Billed(E) = Total(days)
  <2>1. PICK cls : cls = [i \in E |-> logs[i].at \div DayTicks]
    OBVIOUS
  <2>2. PICK P : P = from .. to - 1
    OBVIOUS
  <2>3. IsFiniteSet(P)
    BY <2>2, FS_Interval
  <2>4. ASSUME NEW i \in E PROVE cls[i] \in P
    <3>1. PICK t \in Nat : t = logs[i].at /\ t <= now /\ from * DayTicks <= t
      BY <1>3, <1>4, LoggedFacts DEF Entries
    <3>2. PICK D \in Nat \ {0} : D = DayTicks
      BY ConstantFacts
    <3>3. PICK c \in Nat : c = t \div D /\ c * D <= t /\ from <= c
      BY <3>1, <3>2, Quotient, QuotientIs
    <3>4. c < to
      <4> SUFFICES ASSUME to <= c PROVE FALSE
        OBVIOUS
      <4>1. to * D <= c * D
        <5>1. PICK e \in Nat : c = to + e
          <6>1. c - to \in Nat /\ c = to + (c - to)
            OBVIOUS
          <6>2. QED
            BY <6>1
        <5>2. c * D = to * D + e * D /\ e * D \in Nat /\ to * D \in Nat
          BY <5>1
        <5>3. QED
          BY <5>2
      <4>2. t < to * D /\ to * D \in Nat /\ c * D \in Nat
        BY <1>3, <3>1, <3>2
      <4>3. QED
        BY <3>3, <4>1, <4>2
    <3>5. QED
      BY <2>1, <2>2, <3>1, <3>2, <3>3, <3>4
  <2>5. ASSUME NEW d \in P
        PROVE  {i \in E : cls[i] = d} = {i \in E : logs[i].at \div DayTicks = d}
    BY <2>1
  <2>6. DOMAIN days = P /\ \A d \in P : days[d] = Billed({i \in E : cls[i] = d})
    BY <1>6, <2>2, <2>5
  <2>7. QED
    BY <1>4, <2>3, <2>4, <2>6, BilledByClass
<1>10. SumOver(from .. today, LAMBDA d : DailyStats(u, from - 1, today + 2)[d]) = Total(days)
  <2>1. [d \in from .. today |-> DailyStats(u, from - 1, today + 2)[d]] = days
    BY <1>3, <1>6, <1>7
  <2>2. QED
    BY <2>1 DEF SumOver
<1>11. DailyStats(u, from - 1, today + 2)[today] = days[today]
  BY <1>3, <1>7
<1>12. PortalStats(u).month = Total(days)
  BY <1>4, <1>9 DEF PortalStats
<1>13. QED
  BY <1>1, <1>8, <1>10, <1>11, <1>12

(* A list of the busiest clients that is not full adds up to everything.   *)
LEMMA ClientsAgree ==
    ASSUME KeysInv, Cardinality(TopClients) < TopLimit
    PROVE  SumOver(TopClients, SpentInWindow) = Billed(Window)
<1>1. PICK E : E = Window /\ E \in SUBSET Logged
  BY DEF Window, Logged
<1>2. PICK S : S = {ClientOf(i) : i \in E}
  OBVIOUS
<1>3. S \in SUBSET Nat /\ IsFiniteSet(S)
  <2>1. S \in SUBSET Nat
    <3>1. ASSUME NEW i \in E PROVE ClientOf(i) \in Nat
      <4>1. logs[i].key \in AnyKey
        BY <1>1, LoggedFacts
      <4>2. ClientKeys \subseteq Nat
        BY ReportsAssumption
      <4>3. CASE logs[i].key = NoRow
        BY <4>3 DEF ClientOf
      <4>4. CASE logs[i].key # NoRow
        BY <4>1, <4>2, <4>4 DEF ClientOf, AnyKey
      <4>5. QED
        BY <4>3, <4>4
    <3>2. QED
      BY <1>2, <3>1
  <2>2. PICK cls : cls = [i \in E |-> ClientOf(i)]
    OBVIOUS
  <2>3. S = {cls[i] : i \in E}
    BY <1>2, <2>2
  <2>4. QED
    BY <1>1, <2>1, <2>3, BilledIsSum, ImageIsFinite
<1>4. PICK v : v = [k \in S |-> SpentInWindow(k)]
  OBVIOUS
<1>5. ASSUME NEW k \in S
      PROVE  v[k] = Billed({i \in E : ClientOf(i) = k}) /\ v[k] \in Int
  <2>1. PICK Q : Q = {i \in E : ClientOf(i) = k} /\ Q \in SUBSET Logged
    BY <1>1
  <2>2. Billed(Q) \in Nat
    BY <2>1, BilledIsSum
  <2>3. QED
    BY <1>1, <1>4, <2>1, <2>2 DEF SpentInWindow
<1>6. PICK pred : pred = [x \in S |-> {y \in S : v[y] > v[x] \/ (v[y] = v[x] /\ y < x)}]
  OBVIOUS
<1>7. Orders(pred, S)
  BY <1>3, <1>5, <1>6, OrderedByNumber
<1>8. TopLimit \in Nat
  BY ReportsAssumption
<1>9. TopClients = {x \in S : Cardinality(pred[x]) < TopLimit}
  <2>1. ASSUME NEW x \in S
        PROVE  Place(x, S, SpentMost) = Cardinality(pred[x]) /\ Cardinality(pred[x]) \in Nat
    <3>1. {y \in S : SpentMost(y, x)} = pred[x]
      BY <1>4, <1>6 DEF SpentMost
    <3>2. QED
      BY <1>3, <1>7, <3>1, PlaceIsNat DEF Place
  <2>2. Slice(S, SpentMost, 0, TopLimit) = {x \in S : Cardinality(pred[x]) < TopLimit}
    BY <1>8, <2>1 DEF Slice
  <2>3. QED
    BY <1>1, <1>2, <2>2 DEF TopClients
<1>10. PICK top : top = TopClients
  OBVIOUS
<1>11. top = S
  BY <1>3, <1>7, <1>8, <1>9, <1>10, ShortListIsAll
<1>12. Billed(E) = Total(v)
  <2>1. PICK cls : cls = [i \in E |-> ClientOf(i)]
    OBVIOUS
  <2>2. DOMAIN v = S /\ \A i \in E : cls[i] \in S
    BY <1>2, <1>4, <2>1
  <2>3. \A k \in S : {i \in E : cls[i] = k} = {i \in E : ClientOf(i) = k}
    BY <2>1
  <2>4. \A k \in S : v[k] = Billed({i \in E : cls[i] = k})
    BY <1>5, <2>3
  <2>5. E \in SUBSET Logged /\ IsFiniteSet(S)
    BY <1>1, <1>3
  <2>6. /\ DOMAIN v = S /\ \A i \in E : cls[i] \in S
        /\ \A k \in S : v[k] = Billed({i \in E : cls[i] = k})
    BY <2>2, <2>4
  <2>7. QED
    BY <2>5, <2>6, BilledByClass
<1>13. SumOver(S, SpentInWindow) = Total(v)
  BY <1>4 DEF SumOver
<1>14. QED
  BY <1>1, <1>10, <1>11, <1>12, <1>13

(* An export that is not cut off has every row that is listed.             *)
LEMMA ExportAgrees ==
    ASSUME KeysInv, NEW who \in Users \cup {NoRow},
           Cardinality(ExportRequestLogs(who)) < ExportLimit
    PROVE  ExportRequestLogs(who) = Listed(who)
<1>1. PICK S : S = Listed(who) /\ S \in SUBSET Nat /\ IsFiniteSet(S)
  BY ListedFacts DEF KeysInv
<1>2. PICK pred : pred = [x \in S |-> {y \in S : y > x}]
  OBVIOUS
<1>3. Orders(pred, S)
  <2>1. PICK v : v = [x \in S |-> 0]
    OBVIOUS
  <2>2. \A x \in S : v[x] \in Int
    BY <2>1
  <2>3. QED
    BY <1>1, <1>2, <2>2, OrderedByNumber
<1>4. ExportLimit \in Nat
  BY ReportsAssumption
<1>5. ExportRequestLogs(who) = {x \in S : Cardinality(pred[x]) < ExportLimit}
  <2>1. ASSUME NEW x \in S
        PROVE  Place(x, S, Newer) = Cardinality(pred[x]) /\ Cardinality(pred[x]) \in Nat
    <3>1. {y \in S : Newer(y, x)} = pred[x]
      BY <1>2 DEF Newer
    <3>2. QED
      BY <1>1, <1>3, <3>1, PlaceIsNat DEF Place
  <2>2. Slice(S, Newer, 0, ExportLimit) = {x \in S : Cardinality(pred[x]) < ExportLimit}
    BY <1>4, <2>1 DEF Slice
  <2>3. QED
    BY <1>1, <2>2 DEF ExportRequestLogs
<1>6. PICK top : top = ExportRequestLogs(who)
  OBVIOUS
<1>7. top = S
  BY <1>1, <1>3, <1>4, <1>5, <1>6, ShortListIsAll
<1>8. QED
  BY <1>1, <1>6, <1>7

LEMMA PercentFacts ==
    ASSUME NEW limit \in Nat, NEW used \in Nat
    PROVE  /\ percent(limit, used) \in Nat
           /\ IsCostLimited(limit, used) => percent(limit, used) >= 100
<1>1. CASE limit = 0
  BY <1>1 DEF percent, IsCostLimited
<1>2. CASE limit > 0
  <2>1. PICK u \in Nat : u = used * 100
    OBVIOUS
  <2>2. percent(limit, used) = u \div limit /\ u \div limit \in Nat
    BY <1>2, <2>1, Quotient DEF percent
  <2>3. used >= limit => 100 * limit <= u
    BY <2>1
  <2>4. 100 * limit <= u => 100 <= u \div limit
    BY <1>2, QuotientIs
  <2>5. QED
    BY <2>2, <2>3, <2>4 DEF IsCostLimited
<1>3. QED
  BY <1>1, <1>2

LEMMA UsageFacts ==
    ASSUME KeysInv, NEW k \in ClientKeys, Exists(k)
    PROVE  /\ HighestUsage(k) \in Nat
           /\ clientKeyBudgetExceeded(rows[k], Snapshot(k)) =>
                 /\ clientKeyBudgetExceeded(rows[k], CostUsage(k))
                 /\ HighestUsage(k) >= 100
<1>1. PICK daily \in Nat, monthly \in Nat : daily = rows[k].daily /\ monthly = rows[k].monthly
  BY DEF KeysInv, TablesInv, KeyRow, Exists
<1>2. PICK day \in Nat : day = Billed(Entries({k}, dayStart(now)))
  BY LoggedFacts, BilledIsSum
<1>3. PICK month \in Nat : month = Billed(Entries({k}, monthStart(now)))
  BY LoggedFacts, BilledIsSum
<1>4. CostUsage(k).day = day /\ CostUsage(k).month = month
  BY <1>2, <1>3 DEF CostUsage
<1>5. Snapshot(k).day = day /\ Snapshot(k).month = month
  BY <1>2, <1>3 DEF Snapshot
<1>6. PICK p \in Nat : p = percent(daily, day) /\ (IsCostLimited(daily, day) => p >= 100)
  BY PercentFacts
<1>7. PICK q \in Nat : q = percent(monthly, month) /\ (IsCostLimited(monthly, month) => q >= 100)
  BY PercentFacts
<1>8. HighestUsage(k) = IF q > p THEN q ELSE p
  BY <1>1, <1>4, <1>6, <1>7 DEF HighestUsage
<1>9. clientKeyBudgetExceeded(rows[k], Snapshot(k)) =>
         IsCostLimited(daily, day) \/ IsCostLimited(monthly, month)
  BY <1>1, <1>5 DEF clientKeyBudgetExceeded
<1>10. IsCostLimited(daily, day) \/ IsCostLimited(monthly, month) =>
          clientKeyBudgetExceeded(rows[k], CostUsage(k))
  BY <1>1, <1>4 DEF clientKeyBudgetExceeded
<1>11. QED
  BY <1>6, <1>7, <1>8, <1>9, <1>10

(* Whoever is turned away for its budget is on the list of budget          *)
(* pressure, or that list is full of such keys.                            *)
LEMMA PressureAgrees ==
    ASSUME KeysInv, NEW k \in ClientKeys, Exists(k),
           clientKeyBudgetExceeded(rows[k], Snapshot(k)), k \notin BudgetPressure
    PROVE  /\ Cardinality(BudgetPressure) = TopLimit
           /\ \A j \in BudgetPressure : HighestUsage(j) >= 100
<1>1. PICK S : S = {j \in ClientKeys :
                /\ Exists(j) /\ HighestUsage(j) > 0
                /\ \/ clientKeyBudgetExceeded(rows[j], CostUsage(j))
                   \/ IsWarningTriggered(j)
                   \/ HighestUsage(j) >= 60}
  OBVIOUS
<1>2. S \in SUBSET ClientKeys /\ S \in SUBSET Nat /\ IsFiniteSet(S)
  <2>1. S \in SUBSET ClientKeys
    BY <1>1
  <2>2. QED
    BY <2>1, ReportsAssumption, FS_Subset
<1>3. PICK v : v = [j \in S |-> HighestUsage(j)]
  OBVIOUS
<1>4. \A j \in S : v[j] = HighestUsage(j) /\ v[j] \in Int
  BY <1>1, <1>3, UsageFacts
<1>5. k \in S /\ v[k] >= 100
  BY <1>1, <1>3, UsageFacts
<1>6. PICK pred : pred = [x \in S |-> {y \in S : v[y] > v[x] \/ (v[y] = v[x] /\ y > x)}]
  OBVIOUS
<1>7. Orders(pred, S)
  BY <1>2, <1>4, <1>6, OrderedByNumber
<1>8. TopLimit \in Nat
  BY ReportsAssumption
<1>9. BudgetPressure = {x \in S : Cardinality(pred[x]) < TopLimit}
  <2>1. ASSUME NEW x \in S
        PROVE  Place(x, S, UsedMost) = Cardinality(pred[x]) /\ Cardinality(pred[x]) \in Nat
    <3>1. {y \in S : UsedMost(y, x)} = pred[x]
      BY <1>4, <1>6 DEF UsedMost
    <3>2. QED
      BY <1>2, <1>7, <3>1, PlaceIsNat DEF Place
  <2>2. Slice(S, UsedMost, 0, TopLimit) = {x \in S : Cardinality(pred[x]) < TopLimit}
    BY <1>8, <2>1 DEF Slice
  <2>3. QED
    BY <1>1, <2>2 DEF BudgetPressure
<1>10. PICK top : top = BudgetPressure
  OBVIOUS
<1>11. Cardinality(top) = TopLimit /\ top \subseteq pred[k]
  <2>1. top = {x \in S : Cardinality(pred[x]) < TopLimit} /\ k \in S \ top
    BY <1>5, <1>9, <1>10
  <2>2. QED
    BY <1>2, <1>7, <1>8, <2>1, MissingIsBehind
<1>12. ASSUME NEW j \in top PROVE HighestUsage(j) >= 100
  <2>1. j \in S /\ v[j] >= v[k]
    BY <1>4, <1>5, <1>6, <1>11
  <2>2. QED
    BY <1>4, <1>5, <2>1
<1>13. QED
  BY <1>10, <1>11, <1>12

(* At every moment the reports that sum up the same rows agree, and who is *)
(* turned away for its budget is reported, for any number of users, keys   *)
(* and rows, any windows and any limits of the lists.                      *)
THEOREM ReportsStatsAgree == ReportSpec => []StatsAgree
<1>1. ASSUME KeysInv PROVE StatsAgree
  <2>1. /\ Dashboard.today = SumOver(Users, LAMBDA u : PortalStats(u).today)
                               + SumOver(Unowned, LAMBDA k : CostUsage(k).day)
                               + Billed(Entries({NoRow}, dayStart(now)))
        /\ Dashboard.month = SumOver(Users, LAMBDA u : PortalStats(u).month)
                               + SumOver(Unowned, LAMBDA k : CostUsage(k).month)
                               + Billed(Entries({NoRow}, monthStart(now)))
    BY <1>1, DashboardAgrees
  <2>2. \A u \in Users :
           PortalStats(u).total = SumOver(OwnedBy(u), LAMBDA k : UserKeys(u)[k].total)
    BY <1>1, PortalAgrees
  <2>3. \A u \in Users :
           LET first == monthStart(now) \div DayTicks
               days == DailyStats(u, first - 1, today + 2)
           IN  /\ days[today] = PortalStats(u).today
               /\ SumOver(first .. today, LAMBDA d : days[d]) = PortalStats(u).month
    BY <1>1, DaysAgree
  <2>4. \A u \in Users, k \in ClientKeys :
           LET stats == KeyModelStats(u, k)
           IN  k \in OwnedBy(u) =>
                  SumOver(DOMAIN stats, LAMBDA m : stats[m]) = CostUsage(k).total
    BY <1>1, ModelsAgree
  <2>5. LET clients == TopClients
        IN  Cardinality(clients) < TopLimit =>
               SumOver(clients, SpentInWindow) = Billed(Window)
    BY <1>1, ClientsAgree
  <2>6. \A who \in Users \cup {NoRow} :
           LET export == ExportRequestLogs(who)
           IN  Cardinality(export) < ExportLimit => export = Listed(who)
    BY <1>1, ExportAgrees
  <2>7. LET pressure == BudgetPressure
        IN  \A k \in ClientKeys :
               Exists(k) /\ clientKeyBudgetExceeded(rows[k], Snapshot(k)) =>
                  \/ k \in pressure
                  \/ /\ Cardinality(pressure) = TopLimit
                     /\ \A j \in pressure : HighestUsage(j) >= 100
    BY <1>1, PressureAgrees
  <2>8. QED
    BY <2>1, <2>2, <2>3, <2>4, <2>5, <2>6, <2>7 DEF StatsAgree
<1>2. QED
  BY <1>1, KeysInvariant, PTL
=============================================================================
