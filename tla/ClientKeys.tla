------------------------------ MODULE ClientKeys ------------------------------
(***************************************************************************)
(* The API keys of the gateway's clients: the administrators' changes to   *)
(* users and keys (backend/internal/api/admin/handler.go), what users do   *)
(* with their own keys in the portal (backend/internal/api/tenant), and    *)
(* the proxy requests that authenticate with a key and may then use the    *)
(* models and the budget it is given (backend/internal/middleware,         *)
(* backend/internal/api/openai/handler.go).                                *)
(*                                                                         *)
(* The database runs every statement at READ COMMITTED: a statement sees   *)
(* what was committed when it started, but an UPDATE that meets a row that *)
(* another transaction is writing waits for it, looks at the row as it is  *)
(* then, and returns that.  Names, descriptions and passwords are left     *)
(* out; the limits kept in Redis are ClientQuota's.                        *)
(***************************************************************************)
EXTENDS Naturals, Sequences, SequencesExt

CONSTANTS Calls, Requests,     (* of administrators; of the proxy            *)
          Users, ClientKeys, Models,
          Forms,               (* what an administrator gives a key          *)
          Expiries,            (* when a user lets a key of the portal end   *)
          Amounts,             (* what a request may cost                    *)
          Databases,           (* contents of the database at the start      *)
          DayTicks, MonthDays, (* clock ticks in a day, days in a month      *)
          SessionTicks,        (* the life of a portal token                 *)
          Start, MaxTime,      (* bounds of the clock                        *)
          MaxWork,             (* bound on what a behaviour may begin        *)
          NoRow

Never == MaxTime + 1
UserRow == [status : {"active", "disabled"}, funded : BOOLEAN]
KeyStatuses == {"active", "disabled"}
KeyRow == [owner : Users \cup {NoRow}, status : KeyStatuses,
           daily : Nat, monthly : Nat, expires : Nat]

KeyForm == [status : KeyStatuses, daily : Nat, monthly : Nat, expires : Nat,
            models : SUBSET Models]
Changes == [id : Users, row : {"active", "disabled"}] \cup [id : ClientKeys, row : KeyForm]

(* What a key created in the portal has: no limit, every model, and the    *)
(* expiry that the user asks for, which may be over already.               *)
PortalForms == [status : {"active"}, daily : {0}, monthly : {0},
                expires : Expiries, models : {{}}]

(* The key of a debug request is NoRow: it has none.                       *)
LogRow == [key : ClientKeys \cup {NoRow}, model : Models, at : Nat, amount : Nat]

(* An uncommitted UpdateClientAPIKey: the form, and the models it deletes. *)
Transaction == [key : ClientKeys, form : Forms, deleted : SUBSET Models]

FormIn(row, models) ==
    [status |-> row.status, daily |-> row.daily, monthly |-> row.monthly,
     expires |-> row.expires, models |-> models]

(* Limits and models as they were given together, whatever the status is.  *)
OneForm(form) ==
    \E f \in Forms \cup PortalForms : [f EXCEPT !.status = form.status] = form

ASSUME ClientKeysAssumption ==
    /\ {DayTicks, MonthDays, SessionTicks} \subseteq Nat \ {0}
    /\ {Start, MaxTime, MaxWork} \cup Amounts \cup Expiries \subseteq Nat
    /\ Start <= MaxTime
    /\ Forms \subseteq KeyForm
    /\ Users \cap ClientKeys = {}
    /\ NoRow \notin Users \cup ClientKeys \cup UserRow \cup KeyRow \cup Changes \cup Transaction
    /\ \A d \in Databases :
          /\ d.users \in [Users -> UserRow \cup {NoRow}]
          /\ d.rows \in [ClientKeys -> KeyRow \cup {NoRow}]
          /\ d.allowed \in [ClientKeys -> SUBSET Models]
          /\ d.logs \in Seq(LogRow)
          /\ \A i \in 1 .. Len(d.logs) :
                /\ d.logs[i].at <= Start
                /\ d.logs[i].key # NoRow => d.rows[d.logs[i].key] # NoRow
          /\ \A k \in d.known : k \in ClientKeys /\ d.rows[k] # NoRow
          /\ \A k \in ClientKeys : d.rows[k] # NoRow =>
                /\ OneForm(FormIn(d.rows[k], d.allowed[k]))
                /\ d.rows[k].owner # NoRow => d.users[d.rows[k].owner] # NoRow

VARIABLES
    users, rows, allowed, logs,  \* the tables; allowed is client_api_key_models
    known,     \* the keys whose plain text somebody was given
    session,   \* when each user's newest portal token expires
    now,
    stage, wrote, told, trail,   \* the administrators' calls and the audit trail
    tx,        \* the uncommitted UpdateClientAPIKey of a call, or NoRow
    pc,        \* how far each proxy request has got
    ask,       \* the key and the model of each request
    seen,      \* what the statement that authenticates a request started from
    overtaken, \* history: something about the key has changed since then
    work       \* how many calls, requests, days and crashes have begun

tables == <<users, rows, allowed, logs>>
portal == <<known, session>>
admin == <<stage, wrote, told, trail>>
request == <<pc, ask, seen, overtaken>>
vars == <<tables, portal, now, admin, tx, request, work>>

Admin == INSTANCE AdminAction WITH Rows <- Changes

Init ==
    /\ \E d \in Databases :
          /\ users = d.users /\ rows = d.rows /\ allowed = d.allowed
          /\ logs = d.logs /\ known = d.known
    /\ session = [u \in Users |-> 0]
    /\ now = Start
    /\ Admin!Init
    /\ tx = [c \in Calls |-> NoRow]
    /\ pc = [r \in Requests |-> "new"]
    /\ ask = [r \in Requests |-> NoRow]
    /\ seen = [r \in Requests |-> NoRow]
    /\ overtaken = [r \in Requests |-> FALSE]
    /\ work = 0

(* The bound that keeps small instances small: calls, requests, days and   *)
(* crashes are all taken from one allowance.                               *)
Begin == work < MaxWork /\ work' = work + 1

Starts(c) == stage[c] = "new" /\ tx[c] = NoRow /\ Begin

Locked(k) == \E c \in Calls : tx[c] # NoRow /\ tx[c].key = k

OwnedBy(u) == {k \in ClientKeys : rows[k] # NoRow /\ rows[k].owner = u}

Overtake(changed) ==
    overtaken' = [r \in Requests |->
        overtaken[r] \/ (pc[r] = "waiting" /\ ask[r].key \in changed)]
-----------------------------------------------------------------------------
(* Users *)

CreateUser(c) ==
    /\ Starts(c)
    /\ \E u \in Users, s \in {"active", "disabled"} :
          /\ users[u] = NoRow
          /\ users' = [users EXCEPT ![u] = [status |-> s, funded |-> FALSE]]
          /\ Admin!Commit(c, [id |-> u, row |-> s])
    /\ UNCHANGED <<rows, allowed, logs, portal, now, tx, request>>

UpdateUserStatus(c) ==
    /\ Starts(c)
    /\ \E u \in Users, s \in {"active", "disabled"} :
          /\ users[u] # NoRow
          /\ users' = [users EXCEPT ![u].status = s]
          /\ Admin!Commit(c, [id |-> u, row |-> s])
          /\ Overtake(OwnedBy(u))
    /\ UNCHANGED <<rows, allowed, logs, portal, now, tx, pc, ask, seen>>

(* Billing and the administrators move a wallet over and below what        *)
(* authentication asks for.                                                *)
WalletChanges(u) ==
    /\ Begin
    /\ users[u] # NoRow
    /\ users' = [users EXCEPT ![u].funded = ~@]
    /\ Overtake(OwnedBy(u))
    /\ UNCHANGED <<rows, allowed, logs, portal, now, admin, tx, pc, ask, seen>>

IsActive(u) == users[u] # NoRow /\ users[u].status = "active"

(* AuthenticateUser and IssueToken *)
Login(u) ==
    /\ Begin
    /\ IsActive(u)
    /\ session' = [session EXCEPT ![u] = now + SessionTicks]
    /\ UNCHANGED <<tables, known, now, admin, tx, request>>

(* ParseToken: the signature and the expiry, not the user's status. *)
HasSession(u) == session[u] > now
-----------------------------------------------------------------------------
(* UpdateClientAPIKey *)

(* Seeded bug: the models are replaced before the row is updated, so that  *)
(* the lock on the row comes too late.                                     *)
SyncBeforeLock(c) ==
    /\ Starts(c)
    /\ \E k \in ClientKeys, f \in Forms :
          /\ rows[k] # NoRow
          /\ tx' = [tx EXCEPT ![c] = [key |-> k, form |-> f, deleted |-> allowed[k]]]
    /\ UNCHANGED <<tables, portal, now, admin, request>>

(* The UPDATE, which takes the lock on the row, and the DELETE of          *)
(* syncClientAPIKeyModels, which sees the models that are there then.      *)
BeginUpdate(c) ==
    /\ Starts(c)
    /\ \E k \in ClientKeys, f \in Forms :
          /\ rows[k] # NoRow /\ ~Locked(k)
          /\ tx' = [tx EXCEPT ![c] = [key |-> k, form |-> f, deleted |-> allowed[k]]]
    /\ UNCHANGED <<tables, portal, now, admin, request>>

(* The INSERTs and the COMMIT.  The form replaces the whole row but its    *)
(* owner.                                                                  *)
CommitUpdate(c) ==
    /\ tx[c] # NoRow
    /\ LET k == tx[c].key
           f == tx[c].form
       IN  /\ rows' = [rows EXCEPT ![k].status = f.status, ![k].daily = f.daily,
                                   ![k].monthly = f.monthly, ![k].expires = f.expires]
           /\ allowed' = [allowed EXCEPT ![k] = (@ \ tx[c].deleted) \cup f.models]
           /\ Overtake({k})
           /\ Admin!CommitThenReload(c, [id |-> k, row |-> f])
    /\ tx' = [tx EXCEPT ![c] = NoRow]
    /\ UNCHANGED <<users, logs, portal, now, pc, ask, seen, work>>

(* Seeded bug: the transaction is left open when a statement fails. *)
KeepTransaction(c) ==
    /\ tx[c] # NoRow
    /\ Admin!Refuse(c)
    /\ UNCHANGED <<tables, portal, now, tx, request, work>>

(* A statement fails, and the deferred Rollback undoes what the            *)
(* transaction has done.                                                   *)
RollBack(c) ==
    /\ tx[c] # NoRow
    /\ Admin!Refuse(c)
    /\ tx' = [tx EXCEPT ![c] = NoRow]
    /\ UNCHANGED <<tables, portal, now, request, work>>

(* The request is bad, or its only statement fails. *)
Refuse(c) ==
    /\ Starts(c)
    /\ Admin!Refuse(c)
    /\ UNCHANGED <<tables, portal, now, tx, request>>

FormOf(k) == FormIn(rows[k], allowed[k])

(* getClientAPIKeyByID: the key as it is now. *)
ReloadKey(c) ==
    /\ \/ wrote[c] # NoRow /\ Admin!Reload(c, [id |-> wrote[c].id, row |-> FormOf(wrote[c].id)])
       \/ Admin!ReloadFails(c)
    /\ UNCHANGED <<tables, portal, now, tx, request, work>>

recordAdminAction(c) ==
    /\ Admin!Record(c)
    /\ UNCHANGED <<tables, portal, now, tx, request, work>>
-----------------------------------------------------------------------------
(* Users' own keys *)

(* The answer holds the only copy of the plain key; the query after the    *)
(* commit may fail, and then nobody is given it.                           *)
CreateClientKey(u) ==
    /\ Begin
    /\ HasSession(u)
    /\ \E k \in ClientKeys, f \in PortalForms :
          /\ rows[k] = NoRow
          /\ rows' = [rows EXCEPT ![k] = [owner |-> u, status |-> f.status,
                        daily |-> f.daily, monthly |-> f.monthly, expires |-> f.expires]]
          /\ allowed' = [allowed EXCEPT ![k] = f.models]
          /\ known' = known \cup {k} \/ UNCHANGED known
    /\ UNCHANGED <<users, logs, session, now, admin, tx, request>>

DisableClientKey(u) ==
    /\ Begin
    /\ HasSession(u)
    /\ \E k \in OwnedBy(u) :
          /\ ~Locked(k)
          /\ rows' = [rows EXCEPT ![k].status = "disabled"]
          /\ Overtake({k})
    /\ UNCHANGED <<users, allowed, logs, portal, now, admin, tx, pc, ask, seen>>
-----------------------------------------------------------------------------
(* Proxy requests *)

Matches(row, t) == row.status = "active" /\ row.expires > t

dayStart(t) == (t \div DayTicks) * DayTicks
monthStart(t) == (t \div (DayTicks * MonthDays)) * (DayTicks * MonthDays)

(* The log rows of some keys since some time, and what was billed in all.  *)
Entries(K, since) == {i \in 1 .. Len(logs) : logs[i].key \in K /\ logs[i].at >= since}

Total(amounts) == SumFunction(amounts)

Billed(entries) == Total([i \in entries |-> logs[i].amount])

OwnerMayUse(k) == rows[k].owner = NoRow \/ IsActive(rows[k].owner)

(* What AuthenticateClientAPIKey reads of everything but the key's row.    *)
Snapshot(k) ==
    [time |-> now, owner |-> OwnerMayUse(k),
     funded |-> rows[k].owner = NoRow \/ users[rows[k].owner].funded,
     models |-> allowed[k],
     day |-> Billed(Entries({k}, dayStart(now))),
     month |-> Billed(Entries({k}, monthStart(now)))]

clientKeyAllowsModel(view, m) == view.models = {} \/ m \in view.models

(* Seeded bug: a budget that is just used up still admits requests. *)
LimitedAbove(limit, used) == limit > 0 /\ used > limit

IsCostLimited(limit, used) == limit > 0 /\ used >= limit

clientKeyBudgetExceeded(row, view) ==
    IsCostLimited(row.daily, view.day) \/ IsCostLimited(row.monthly, view.month)

Go(r, from, to) == pc[r] = from /\ pc' = [pc EXCEPT ![r] = to]

(* The statement starts; if its snapshot has no such active key it finds   *)
(* nothing, and the request is turned away.                                *)
Authenticate(r) ==
    /\ Begin
    /\ \E k \in known, m \in Models :
          /\ ask' = [ask EXCEPT ![r] = [key |-> k, model |-> m]]
          /\ \/ /\ Matches(rows[k], now)
                /\ Go(r, "new", "waiting")
                /\ seen' = [seen EXCEPT ![r] = Snapshot(k)]
             \/ /\ ~Matches(rows[k], now)
                /\ Go(r, "new", "rejected")
                /\ UNCHANGED seen
    /\ UNCHANGED <<tables, portal, now, admin, tx, overtaken>>

(* The UPDATE has the row, looks at it again and returns it; the rest of   *)
(* the answer is the snapshot's.  PublicAPIAuth and the handler decide on  *)
(* that one answer.                                                        *)
Verdict(row, view, m) ==
    IF ~Matches(row, view.time) \/ ~view.owner THEN "rejected"
    ELSE IF view.funded /\ clientKeyAllowsModel(view, m) /\ ~clientKeyBudgetExceeded(row, view)
         THEN "admitted" ELSE "refused"

Decide(r) ==
    /\ pc[r] = "waiting"
    /\ ~Locked(ask[r].key)
    /\ Go(r, "waiting", Verdict(rows[ask[r].key], seen[r], ask[r].model))
    /\ seen' = [seen EXCEPT ![r] = NoRow]
    /\ overtaken' = [overtaken EXCEPT ![r] = FALSE]
    /\ UNCHANGED <<tables, portal, now, admin, tx, ask, work>>

Entry(r, amount) ==
    [key |-> ask[r].key, model |-> ask[r].model, at |-> now, amount |-> amount]

(* The log row of a request that has ended; writing it may fail.           *)
CreateRequestLog(r) ==
    /\ \/ Go(r, "admitted", "ended") /\ \E a \in Amounts : logs' = Append(logs, Entry(r, a))
       \/ Go(r, "refused", "ended") /\ logs' = Append(logs, Entry(r, 0))
       \/ Go(r, "admitted", "ended") /\ UNCHANGED logs
       \/ Go(r, "refused", "ended") /\ UNCHANGED logs
    /\ Overtake({ask[r].key})
    /\ ask' = [ask EXCEPT ![r] = NoRow]
    /\ UNCHANGED <<users, rows, allowed, portal, now, admin, tx, seen, work>>

(* An administrator tries a model out, without any client's key: the       *)
(* request is metered and logged like any other.                           *)
LogDebugRequest ==
    /\ Begin
    /\ \E m \in Models, a \in Amounts \cup {0} :
          logs' = Append(logs, [key |-> NoRow, model |-> m, at |-> now, amount |-> a])
    /\ UNCHANGED <<users, rows, allowed, portal, now, admin, tx, request>>
-----------------------------------------------------------------------------
Tick ==
    /\ now < MaxTime /\ Begin
    /\ now' = now + 1
    /\ Overtake(ClientKeys)
    /\ UNCHANGED <<tables, portal, admin, tx, pc, ask, seen>>

(* The process dies: the database rolls back what was not committed, and   *)
(* portal tokens, which are only signed, stay good.                        *)
Crash ==
    /\ Begin
    /\ Admin!Crash
    /\ tx' = [c \in Calls |-> NoRow]
    /\ pc' = [r \in Requests |->
                IF pc[r] \in {"waiting", "admitted", "refused"} THEN "lost" ELSE pc[r]]
    /\ seen' = [r \in Requests |-> NoRow]
    /\ overtaken' = [r \in Requests |-> FALSE]
    /\ UNCHANGED <<tables, portal, now, ask>>

Next ==
    \/ \E c \in Calls :
          \/ CreateUser(c) \/ UpdateUserStatus(c) \/ BeginUpdate(c) \/ CommitUpdate(c)
          \/ RollBack(c) \/ ReloadKey(c) \/ recordAdminAction(c) \/ Refuse(c)
    \/ \E u \in Users :
          WalletChanges(u) \/ Login(u) \/ CreateClientKey(u) \/ DisableClientKey(u)
    \/ \E r \in Requests : Authenticate(r) \/ Decide(r) \/ CreateRequestLog(r)
    \/ LogDebugRequest
    \/ Tick
    \/ Crash

Spec == Init /\ [][Next]_vars

(* The database does not stand still: while there is a transaction, one is *)
(* committed or rolled back, and while there are requests that can have    *)
(* their row, one of them gets it.                                         *)
Fairness ==
    /\ WF_vars(\E c \in Calls : CommitUpdate(c) \/ RollBack(c))
    /\ WF_vars(\E r \in Requests : Decide(r))
-----------------------------------------------------------------------------
(* The rights of a key, its limits with its models, always come from one   *)
(* form as an administrator sent it (or as the portal makes it, with the   *)
(* expiry its user chose), however the calls that change the key overlap;  *)
(* and the audit trail names such a set of rights too, if perhaps a later  *)
(* one than its own call's.                                                *)
RightsAreOneForm ==
    /\ \A k \in ClientKeys : rows[k] # NoRow => OneForm(FormOf(k))
    /\ \A c \in Calls :
          trail[c] # NoRow /\ trail[c].id \in ClientKeys => OneForm(trail[c].row)

(* What a key is entitled to by the tables as they stand.                  *)
Entitled(k, m) ==
    /\ rows[k].status = "active" /\ now < rows[k].expires
    /\ rows[k].owner # NoRow =>
          users[rows[k].owner].status = "active" /\ users[rows[k].owner].funded
    /\ allowed[k] # {} => m \in allowed[k]
    /\ rows[k].daily > 0 => ~(rows[k].daily <= Billed(Entries({k}, dayStart(now))))
    /\ rows[k].monthly > 0 => ~(rows[k].monthly <= Billed(Entries({k}, monthStart(now))))

(* A request is let through exactly when its key is entitled to the model  *)
(* at the moment of the decision, unless the key, its owner, its spending  *)
(* or the day has changed while the authentication waited for the row: a   *)
(* committed restriction binds every request that starts after it.         *)
AdmissionIsCurrent ==
    [][\A r \in Requests :
          (/\ pc[r] \in {"new", "waiting"} /\ ~overtaken[r]
           /\ pc'[r] \in {"rejected", "refused", "admitted"})
          => (pc'[r] = "admitted" <=> Entitled(ask'[r].key, ask'[r].model))]_vars

(* No request waits for ever for the row of its key, whatever the          *)
(* administrators' transactions on it run into.                            *)
AuthenticationsEnd == \A r \in Requests : pc[r] = "waiting" ~> pc[r] # "waiting"

TypeOK ==
    /\ users \in [Users -> UserRow \cup {NoRow}]
    /\ rows \in [ClientKeys -> KeyRow \cup {NoRow}]
    /\ allowed \in [ClientKeys -> SUBSET Models]
    /\ logs \in Seq(LogRow)
    /\ known \subseteq {k \in ClientKeys : rows[k] # NoRow}
    /\ session \in [Users -> Nat]
    /\ now \in Start .. MaxTime
    /\ stage \in [Calls -> Admin!Stages]
    /\ tx \in [Calls -> Transaction \cup {NoRow}]
    /\ pc \in [Requests -> {"new", "waiting", "rejected", "refused", "admitted", "ended", "lost"}]
    /\ overtaken \in [Requests -> BOOLEAN]
    /\ work \in Nat
=============================================================================
