----------------------------- MODULE Catalog_proofs -----------------------------
(***************************************************************************)
(* Proofs about Catalog, for any number of administrators, requests and    *)
(* rows: the audit trail is true, a project has one client, and a route is *)
(* what one look at the catalog would have found.                          *)
(***************************************************************************)
EXTENDS Catalog, TLAPS

Commits(c) ==
    \/ \E change \in Changes : Admin!Commit(c, change)
    \/ \E change \in ReloadedChanges : Admin!CommitThenReload(c, change)

(* The tables have rows of their types, and no row names a provider that   *)
(* is not there.                                                           *)
TablesOK ==
    /\ providers \in Table(Providers, ProviderRow)
    /\ keys \in Table(ProviderKeys, KeyRow)
    /\ models \in Table(Models, ModelRow)
    /\ \A k \in ProviderKeys : Exists(keys, k) => Exists(providers, keys[k].provider)
    /\ \A m \in Models : Exists(models, m) => Exists(providers, models[m].provider)

(* An administrator's change writes rows of the right type, and begins the *)
(* call's way through AdminAction.                                         *)
ChangeStep(c) ==
    \/ CreateProvider(c) \/ UpdateProvider(c)
    \/ CreateProviderKey(c) \/ UpdateProviderKey(c)
    \/ CreateModel(c) \/ UpdateModel(c)

LEMMA ChangeEffect ==
    ASSUME TablesOK, NEW c \in Calls, ChangeStep(c)
    PROVE  /\ Commits(c)
           /\ TablesOK'
           /\ Overtake
           /\ UNCHANGED <<pc, name, route, clients, writer, created, crashes>>
  <1>1. ASSUME NEW id, NEW row \in ProviderRow, WriteProvider(id, row)
        PROVE  TablesOK'
    <2>1. row # NoRow
      BY CatalogAssumption
    <2>2. /\ providers' = [providers EXCEPT ![id] = row]
          /\ UNCHANGED <<keys, models>>
      BY <1>1 DEF WriteProvider
    <2>3. \A p \in Providers : Exists(providers, p) => Exists(providers', p)
      BY <2>1, <2>2 DEF Exists, TablesOK, Table
    <2>4. /\ \A k \in ProviderKeys : Exists(keys, k) => keys[k].provider \in Providers
          /\ \A m \in Models : Exists(models, m) => models[m].provider \in Providers
      BY DEF TablesOK, Table, Exists, KeyRow, ModelRow
    <2>5. providers' \in Table(Providers, ProviderRow)
      BY <2>2 DEF TablesOK, Table
    <2>6. QED
      BY <2>2, <2>3, <2>4, <2>5 DEF TablesOK, Exists
  <1>2. \A id, row : WriteKey(id, row) /\ row \in KeyRow => TablesOK'
    BY DEF WriteKey, TablesOK, Table, Exists
  <1>3. \A id, row : WriteModel(id, row) /\ row \in ModelRow => TablesOK'
    BY DEF WriteModel, TablesOK, Table, Exists
  <1>4. /\ \A id \in Providers, row \in ProviderRow : Did(id, row) \in Changes
        /\ \A id \in ProviderKeys, row \in KeyRow : Did(id, row) \in ReloadedChanges
        /\ \A id \in Models, row \in ModelRow : Did(id, row) \in ReloadedChanges
    BY DEF Did, Changes, ReloadedChanges, Change
  <1>5. CASE CreateProvider(c) \/ UpdateProvider(c)
    BY <1>1, <1>4, <1>5
       DEF CreateProvider, UpdateProvider, InsertProvider, UpdateProviderRow, Commits, vertex
  <1>6. CASE CreateProviderKey(c) \/ UpdateProviderKey(c)
    BY <1>2, <1>4, <1>6
       DEF CreateProviderKey, UpdateProviderKey, InsertKey, UpdateKeyRow, Commits, vertex
  <1>7. CASE CreateModel(c) \/ UpdateModel(c)
    BY <1>3, <1>4, <1>7
       DEF CreateModel, UpdateModel, InsertModel, UpdateModelRow, Commits, vertex
  <1>8. QED
    BY <1>5, <1>6, <1>7 DEF ChangeStep

(* The other steps of the administrators' calls. *)
CallStep(c) == ReadProviderName(c) \/ recordAdminAction(c) \/ Refuse(c)

RequestStep(r) == ReadModel(r) \/ NotFound(r) \/ ReadKeys(r) \/ NoKeys(r) \/ ClientSteps(r)

LEMMA StepCases ==
    ASSUME [Next]_vars
    PROVE  \/ \E c \in Calls : ChangeStep(c) \/ CallStep(c)
           \/ \E r \in Requests : RequestStep(r)
           \/ Crash
           \/ UNCHANGED vars
  BY DEF Next, ChangeStep, CallStep, RequestStep
-----------------------------------------------------------------------------
(* What a call's stage says of what it has committed and what it will tell *)
(* the audit trail.                                                        *)
AdminInv ==
    /\ Admin!TypeOK
    /\ TrailIsTrue
    /\ \A c \in Calls :
          /\ stage[c] = "new" => wrote[c] = NoRow
          /\ stage[c] = "reloading" => wrote[c] \in ReloadedChanges
          /\ stage[c] = "recording" => wrote[c] # NoRow
          /\ stage[c] = "recording" => told[c] = wrote[c]

LEMMA AdminStep ==
    ASSUME AdminInv, NEW c \in Calls,
           \/ Commits(c)
           \/ Admin!Reload(c, wrote[c])
           \/ Admin!ReloadFails(c)
           \/ Admin!Record(c)
           \/ Admin!Refuse(c)
    PROVE  AdminInv'
  <1> USE DEF AdminInv, TrailIsTrue, Admin!TypeOK, Admin!Stages, Admin!Step
  <1>1. CASE Commits(c)
    <2>1. PICK change \in Changes :
             \/ Admin!Commit(c, change)
             \/ change \in ReloadedChanges /\ Admin!CommitThenReload(c, change)
      BY <1>1 DEF Commits, Changes, ReloadedChanges
    <2>2. change # NoRow
      BY CatalogAssumption
    <2>3. QED
      BY <2>1, <2>2 DEF Admin!Commit, Admin!CommitThenReload
  <1>2. CASE Admin!Reload(c, wrote[c]) \/ Admin!ReloadFails(c)
    BY <1>2, CatalogAssumption DEF Changes, ReloadedChanges, Admin!Reload, Admin!ReloadFails
  <1>3. CASE Admin!Record(c)
    BY <1>3 DEF Admin!Record
  <1>4. CASE Admin!Refuse(c)
    BY <1>4 DEF Admin!Refuse
  <1>5. QED
    BY <1>1, <1>2, <1>3, <1>4

LEMMA AdminInvariant == Spec => [](TablesOK /\ AdminInv)
<1>1. Init => TablesOK /\ AdminInv
  <2> SUFFICES ASSUME Init PROVE TablesOK /\ AdminInv
    OBVIOUS
  <2>1. TablesOK
    BY CatalogAssumption DEF Init, TablesOK, Exists
  <2>2. AdminInv
    BY DEF Init, Admin!Init, AdminInv, Admin!TypeOK, Admin!Stages, TrailIsTrue
  <2>3. QED
    BY <2>1, <2>2
<1>2. (TablesOK /\ AdminInv) /\ [Next]_vars => (TablesOK /\ AdminInv)'
  <2> SUFFICES ASSUME TablesOK, AdminInv, [Next]_vars
               PROVE  TablesOK' /\ AdminInv'
    OBVIOUS
  <2>1. ASSUME UNCHANGED <<providers, keys, models>> PROVE TablesOK'
    BY <2>1 DEF TablesOK, Exists
  <2>2. ASSUME UNCHANGED <<stage, wrote, told, trail>> PROVE AdminInv'
    BY <2>2 DEF AdminInv, TrailIsTrue, Admin!TypeOK
  <2>3. ASSUME NEW c \in Calls, ChangeStep(c) PROVE TablesOK' /\ AdminInv'
    BY <2>3, ChangeEffect, AdminStep
  <2>4. ASSUME NEW c \in Calls, CallStep(c) PROVE TablesOK' /\ AdminInv'
    BY <2>1, <2>4, AdminStep
       DEF CallStep, ReadProviderName, recordAdminAction, Refuse, catalog
  <2>5. ASSUME NEW r \in Requests, RequestStep(r) PROVE TablesOK' /\ AdminInv'
    BY <2>1, <2>2, <2>5
       DEF RequestStep, ReadModel, NotFound, ReadKeys, NoKeys, ClientSteps, LookUp, Lock,
           Create, catalog, admin
  <2>6. CASE Crash
    <3>1. TablesOK'
      BY <2>1, <2>6 DEF Crash, catalog
    <3>2. AdminInv'
      BY <2>6 DEF Crash, Admin!Crash, AdminInv, TrailIsTrue, Admin!TypeOK, Admin!Stages
    <3>3. QED
      BY <3>1, <3>2
  <2>7. CASE UNCHANGED vars
    BY <2>1, <2>2, <2>7 DEF vars, catalog, admin
  <2>8. QED
    BY <2>3, <2>4, <2>5, <2>6, <2>7, StepCases
<1>3. QED
  BY <1>1, <1>2, PTL DEF Spec

(* The audit trail tells what was committed, and only of calls that were   *)
(* answered with success, for any number of calls, failures and crashes;   *)
(* an error hides a change only where a reload follows the commit.         *)
THEOREM CatalogTrailIsTrue == Spec => []TrailIsTrue
<1>1. AdminInv => TrailIsTrue
  BY DEF AdminInv
<1>2. QED
  BY <1>1, AdminInvariant, PTL
-----------------------------------------------------------------------------
(* Who is between the second look and the end of the creation holds the    *)
(* lock, and its project has no client then.                               *)
LockInv ==
    /\ pc \in [Requests -> {"new", "reading", "routed", "missed", "creating", "served", "ended"}]
    /\ DOMAIN route = Requests
    /\ created \in [VertexProjects -> Nat]
    /\ OneClientPerProject
    /\ \A r \in Requests :
          /\ pc[r] = "creating" <=> writer = r
          /\ pc[r] \in {"missed", "creating"} => project(r) \in VertexProjects
          /\ pc[r] = "creating" => project(r) \notin clients

LEMMA LockStep ==
    ASSUME LockInv, NEW r \in Requests, RequestStep(r)
    PROVE  LockInv'
  <1> USE DEF LockInv, project
  <1>1. NoRow \notin Requests
    BY CatalogAssumption
  <1>2. CASE ReadModel(r)
    <2>1. /\ DOMAIN route' = Requests
          /\ \A q \in Requests \ {r} : route'[q] = route[q]
          /\ pc[r] = "new" /\ pc' = [pc EXCEPT ![r] = "reading"]
      BY <1>2 DEF ReadModel, Go
    <2>2. UNCHANGED <<clients, writer, created>>
      BY <1>2 DEF ReadModel, vertex
    <2>3. QED
      BY <2>1, <2>2 DEF OneClientPerProject
  <1>3. CASE NotFound(r)
    BY <1>3 DEF NotFound, Finish, Go, vertex, OneClientPerProject
  <1>4. CASE ReadKeys(r)
    BY <1>4 DEF ReadKeys, Go, vertex, OneClientPerProject
  <1>5. CASE NoKeys(r)
    BY <1>5 DEF NoKeys, Finish, Go, vertex, OneClientPerProject
  <1>6. CASE LookUp(r)
    BY <1>6 DEF LookUp, Finish, Stay, Go, vertex, OneClientPerProject
  <1>7. CASE Lock(r)
    BY <1>1, <1>7 DEF Lock, Finish, Stay, Go, OneClientPerProject
  <1>8. CASE Create(r)
    <2>1. pc[r] = "creating" /\ writer = r /\ writer' = NoRow
      BY <1>8 DEF Create, Finish, Go
    <2>2. /\ DOMAIN route' = Requests
          /\ \A q \in Requests \ {r} : route'[q] = route[q] /\ pc'[q] = pc[q]
          /\ pc' = [pc EXCEPT ![r] = pc'[r]] /\ pc'[r] \in {"served", "ended"}
      BY <1>8 DEF Create, Finish, Go
    <2>3. created' \in [VertexProjects -> Nat] /\ OneClientPerProject'
      BY <1>8, <2>1 DEF Create, OneClientPerProject
    <2>4. \A q \in Requests : pc'[q] # "creating"
      BY <2>1, <2>2
    <2>5. QED
      BY <1>1, <2>1, <2>2, <2>3, <2>4
  <1>9. QED
    BY <1>2, <1>3, <1>4, <1>5, <1>6, <1>7, <1>8 DEF RequestStep, ClientSteps

LEMMA LockInvariant == Spec => []LockInv
<1>1. Init => LockInv
  BY CatalogAssumption DEF Init, LockInv, OneClientPerProject
<1>2. TablesOK /\ LockInv /\ [Next]_vars => LockInv'
  <2> SUFFICES ASSUME TablesOK, LockInv, [Next]_vars
               PROVE  LockInv'
    OBVIOUS
  <2>1. ASSUME UNCHANGED <<pc, route, clients, writer, created>> PROVE LockInv'
    BY <2>1 DEF LockInv, OneClientPerProject, project
  <2>2. ASSUME NEW c \in Calls, ChangeStep(c) PROVE LockInv'
    BY <2>1, <2>2, ChangeEffect
  <2>3. ASSUME NEW c \in Calls, CallStep(c) PROVE LockInv'
    BY <2>1, <2>3 DEF CallStep, ReadProviderName, recordAdminAction, Refuse, request, vertex
  <2>4. CASE Crash
    BY <2>4, CatalogAssumption DEF Crash, LockInv, OneClientPerProject
  <2>5. CASE UNCHANGED vars
    BY <2>1, <2>5 DEF vars, request, vertex
  <2>6. QED
    BY <2>2, <2>3, <2>4, <2>5, StepCases, LockStep
<1>3. QED
  BY <1>1, <1>2, AdminInvariant, PTL DEF Spec

(* However many requests race for the first use of a project, one client   *)
(* is created for it in the life of a process, and that one is cached.     *)
THEOREM CatalogOneClientPerProject == Spec => []OneClientPerProject
<1>1. LockInv => OneClientPerProject
  BY DEF LockInv
<1>2. QED
  BY <1>1, LockInvariant, PTL
-----------------------------------------------------------------------------
(* What a request has read first is still so, unless the catalog has       *)
(* changed since.                                                          *)
StillRoutable(r) ==
    \E m \in Routable(name[r]) :
        /\ models[m].provider = route[r].provider
        /\ providers[models[m].provider].address = route[r].address

Places == [address : Addresses \cup {NoRow}, provider : Providers \cup {NoRow},
           keys : SUBSET ProviderKeys]

RouteInv ==
    /\ pc \in [Requests -> {"new", "reading", "routed", "missed", "creating", "served", "ended"}]
    /\ name \in [Requests -> PublicNames \cup {NoRow}]
    /\ route \in [Requests -> Places]
    /\ overtaken \in [Requests -> BOOLEAN]
    /\ \A r \in Requests : Reading(r) /\ ~overtaken[r] => StillRoutable(r)

(* What the join finds has an address and a provider of the right type.    *)
LEMMA RoutableTypes ==
    ASSUME TablesOK, NEW n, NEW m \in Routable(n)
    PROVE  /\ models[m].provider \in Providers
           /\ providers[models[m].provider].address \in Addresses \cup {NoRow}
  <1>1. m \in Models /\ models[m] \in ModelRow
    BY DEF Routable, TablesOK, Table, Exists
  <1>2. models[m].provider \in Providers
    BY <1>1 DEF ModelRow
  <1>3. providers[models[m].provider] # NoRow
    BY <1>1 DEF Routable, TablesOK, Exists
  <1>4. QED
    BY <1>2, <1>3 DEF TablesOK, Table, ProviderRow

LEMMA Finished ==
    ASSUME RouteInv, NEW r \in Requests, NEW from, NEW to \in {"ended", "served"},
           Finish(r, from, to), UNCHANGED <<providers, keys, models>>
    PROVE  RouteInv'
  <1>1. NoRoute \in Places
    BY DEF NoRoute, Places
  <1>2. /\ pc' = [pc EXCEPT ![r] = to]
        /\ name' = [name EXCEPT ![r] = NoRow]
        /\ route' = [route EXCEPT ![r] = NoRoute]
        /\ overtaken' = [overtaken EXCEPT ![r] = FALSE]
    BY DEF Finish, Go
  <1>3. \A q \in Requests : Reading(q)' /\ ~overtaken'[q] => StillRoutable(q)'
    BY <1>2 DEF RouteInv, Reading, StillRoutable, Routable, Exists
  <1>4. QED
    BY <1>1, <1>2, <1>3 DEF RouteInv

LEMMA Stayed ==
    ASSUME RouteInv, NEW r \in Requests, NEW from, NEW to \in {"missed", "creating"},
           Stay(r, from, to), UNCHANGED <<providers, keys, models>>
    PROVE  RouteInv'
  BY DEF Stay, Go, RouteInv, Reading, StillRoutable, Routable, Exists

LEMMA RouteStep ==
    ASSUME TablesOK, RouteInv, NEW r \in Requests, RequestStep(r)
    PROVE  RouteInv'
  <1>1. CASE ReadModel(r)
    <2> PICK n \in PublicNames : \E m \in Routable(n) :
             /\ name' = [name EXCEPT ![r] = n]
             /\ route' = [route EXCEPT ![r] =
                    [address |-> providers[models[m].provider].address,
                     provider |-> models[m].provider, keys |-> {}]]
      BY <1>1 DEF ReadModel
    <2>1. PICK m \in Routable(n) :
             /\ name' = [name EXCEPT ![r] = n]
             /\ route' = [route EXCEPT ![r] =
                    [address |-> providers[models[m].provider].address,
                     provider |-> models[m].provider, keys |-> {}]]
      OBVIOUS
    <2>2. /\ UNCHANGED <<providers, keys, models, overtaken>>
          /\ pc' = [pc EXCEPT ![r] = "reading"]
      BY <1>1 DEF ReadModel, Go, catalog
    <2>3. [address |-> providers[models[m].provider].address,
           provider |-> models[m].provider, keys |-> {}] \in Places
      BY RoutableTypes DEF Places
    <2>4. /\ name' \in [Requests -> PublicNames \cup {NoRow}]
          /\ route' \in [Requests -> Places]
      BY <2>1, <2>3 DEF RouteInv
    <2>5. StillRoutable(r)'
      BY <2>1, <2>2 DEF RouteInv, StillRoutable, Routable, Exists
    <2>6. \A q \in Requests \ {r} : Reading(q)' /\ ~overtaken'[q] => StillRoutable(q)'
      BY <2>1, <2>2 DEF RouteInv, Reading, StillRoutable, Routable, Exists
    <2>7. QED
      BY <2>2, <2>4, <2>5, <2>6 DEF RouteInv
  <1>2. CASE NotFound(r) \/ NoKeys(r)
    BY <1>2, Finished DEF NotFound, NoKeys, catalog
  <1>3. CASE ReadKeys(r)
    <2>1. /\ UNCHANGED <<providers, keys, models, name, overtaken>>
          /\ pc' = [pc EXCEPT ![r] = "routed"]
          /\ route' = [route EXCEPT ![r].keys = ActiveKeysOf(route[r].provider)]
      BY <1>3 DEF ReadKeys, Go, catalog
    <2>2. ActiveKeysOf(route[r].provider) \subseteq ProviderKeys
      BY DEF ActiveKeysOf
    <2>3. route' \in [Requests -> Places]
      BY <2>1, <2>2 DEF RouteInv, Places
    <2>4. QED
      BY <2>1, <2>3 DEF RouteInv, Reading, StillRoutable, Routable, Exists
  <1>4. CASE LookUp(r) \/ Lock(r)
    BY <1>4, Finished, Stayed DEF LookUp, Lock, catalog
  <1>5. CASE Create(r)
    BY <1>5, Finished DEF Create, catalog
  <1>6. QED
    BY <1>1, <1>2, <1>3, <1>4, <1>5 DEF RequestStep, ClientSteps

LEMMA RouteInvariant == Spec => []RouteInv
<1>1. Init => RouteInv
  BY DEF Init, RouteInv, NoRoute, Places, Reading
<1>2. TablesOK /\ RouteInv /\ [Next]_vars => RouteInv'
  <2> SUFFICES ASSUME TablesOK, RouteInv, [Next]_vars
               PROVE  RouteInv'
    OBVIOUS
  <2>1. ASSUME UNCHANGED <<providers, keys, models, pc, name, route, overtaken>> PROVE RouteInv'
    BY <2>1 DEF RouteInv, Reading, StillRoutable, Routable, Exists
  <2>2. ASSUME NEW c \in Calls, ChangeStep(c) PROVE RouteInv'
    <3>1. Overtake /\ UNCHANGED <<pc, name, route>>
      BY <2>2, ChangeEffect
    <3>2. QED
      BY <3>1 DEF RouteInv, Overtake, Reading
  <2>3. ASSUME NEW c \in Calls, CallStep(c) PROVE RouteInv'
    BY <2>1, <2>3 DEF CallStep, ReadProviderName, recordAdminAction, Refuse, catalog, request
  <2>4. CASE Crash
    BY <2>4 DEF Crash, RouteInv, NoRoute, Places, Reading
  <2>5. CASE UNCHANGED vars
    BY <2>1, <2>5 DEF vars, catalog, request
  <2>6. QED
    BY <2>2, <2>3, <2>4, <2>5, StepCases, RouteStep
<1>3. QED
  BY <1>1, <1>2, AdminInvariant, PTL DEF Spec

(* Only projects have clients, and only a request holds the lock.          *)
HolderInv ==
    /\ clients \subseteq VertexProjects
    /\ writer \in Requests \cup {NoRow}
    /\ crashes \in Nat

(* Every variable keeps its type, for any catalog and any number of        *)
(* administrators, requests and crashes.                                   *)
THEOREM CatalogTypeCorrect == Spec => []TypeOK
<1>1. Init => HolderInv
  BY DEF Init, HolderInv
<1>2. LockInv /\ TablesOK /\ HolderInv /\ [Next]_vars => HolderInv'
  <2> SUFFICES ASSUME LockInv, TablesOK, HolderInv, [Next]_vars
               PROVE  HolderInv'
    OBVIOUS
  <2>1. ASSUME UNCHANGED <<clients, writer, crashes>> PROVE HolderInv'
    BY <2>1 DEF HolderInv
  <2>2. ASSUME NEW c \in Calls, ChangeStep(c) PROVE HolderInv'
    BY <2>1, <2>2, ChangeEffect
  <2>3. ASSUME NEW c \in Calls, CallStep(c) PROVE HolderInv'
    BY <2>1, <2>3 DEF CallStep, ReadProviderName, recordAdminAction, Refuse, vertex
  <2>4. ASSUME NEW r \in Requests, RequestStep(r) PROVE HolderInv'
    <3>1. CASE ReadModel(r) \/ NotFound(r) \/ ReadKeys(r) \/ NoKeys(r) \/ LookUp(r)
      BY <2>1, <3>1 DEF ReadModel, NotFound, ReadKeys, NoKeys, LookUp, vertex
    <3>2. CASE Lock(r)
      BY <3>2 DEF Lock, HolderInv
    <3>3. CASE Create(r)
      <4>1. project(r) \in VertexProjects
        BY <3>3 DEF Create, Finish, Go, LockInv
      <4>2. QED
        BY <3>3, <4>1 DEF Create, HolderInv
    <3>4. QED
      BY <2>4, <3>1, <3>2, <3>3 DEF RequestStep, ClientSteps
  <2>5. CASE Crash
    BY <2>5 DEF Crash, HolderInv
  <2>6. CASE UNCHANGED vars
    BY <2>1, <2>6 DEF vars, vertex
  <2>7. QED
    BY <2>2, <2>3, <2>4, <2>5, <2>6, StepCases
<1>3. TablesOK /\ AdminInv /\ LockInv /\ RouteInv /\ HolderInv => TypeOK
  BY DEF TablesOK, AdminInv, LockInv, RouteInv, HolderInv, Places, TypeOK
<1>4. QED
  BY <1>1, <1>2, <1>3, AdminInvariant, LockInvariant, RouteInvariant, PTL DEF Spec

(* The second query of ResolveModelRoute completes what one look at the    *)
(* catalog would have found, unless a change was committed in between.     *)
THEOREM CatalogRouteIsCurrent == Spec => RouteIsCurrent
<1> DEFINE Completes(r) == pc[r] = "reading" /\ pc'[r] = "routed" /\ ~overtaken[r]
<1>1. ASSUME TablesOK, RouteInv, [Next]_vars, NEW r \in Requests, Completes(r)
      PROVE  route'[r] \in Resolutions(name[r])
  <2>1. ReadKeys(r)
    <3>1. ASSUME NEW c \in Calls, ChangeStep(c) PROVE FALSE
      BY <1>1, <3>1, ChangeEffect
    <3>2. ASSUME NEW c \in Calls, CallStep(c) PROVE FALSE
      BY <1>1, <3>2 DEF CallStep, ReadProviderName, recordAdminAction, Refuse, request
    <3>3. ASSUME NEW q \in Requests, RequestStep(q) PROVE ReadKeys(r)
      BY <1>1, <3>3
         DEF RouteInv, RequestStep, ReadModel, NotFound, ReadKeys, NoKeys, ClientSteps, LookUp,
             Lock, Create, Finish, Stay, Go
    <3>4. ~Crash /\ ~UNCHANGED vars
      BY <1>1 DEF Crash, vars, request
    <3>5. QED
      BY <1>1, <3>1, <3>2, <3>3, <3>4, StepCases
  <2>2. PICK m \in Routable(name[r]) :
           /\ models[m].provider = route[r].provider
           /\ providers[models[m].provider].address = route[r].address
    BY <1>1 DEF RouteInv, Reading, StillRoutable
  <2>3. route'[r] = [route[r] EXCEPT !.keys = ActiveKeysOf(route[r].provider)]
    BY <1>1, <2>1 DEF ReadKeys, RouteInv, Places
  <2>4. route'[r] = [address |-> route[r].address, provider |-> route[r].provider,
                     keys |-> ActiveKeysOf(route[r].provider)]
    BY <1>1, <2>3 DEF RouteInv, Places
  <2>5. QED
    BY <2>2, <2>4 DEF Resolutions
<1>2. TablesOK /\ RouteInv /\ [Next]_vars
         => [\A r \in Requests : Completes(r) => route'[r] \in Resolutions(name[r])]_vars
  BY <1>1
<1>3. QED
  BY <1>2, AdminInvariant, RouteInvariant, PTL DEF Spec, RouteIsCurrent
=============================================================================
