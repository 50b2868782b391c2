-------------------------------- MODULE Catalog --------------------------------
(***************************************************************************)
(* The catalog of providers, provider keys and models: the administrators' *)
(* changes to it (backend/internal/api/admin/handler.go, with the store    *)
(* calls of backend/internal/repository/postgres/store.go), the proxy      *)
(* requests that resolve a model to a provider and its active keys, and    *)
(* the clients for Vertex AI that the proxy creates once for each project  *)
(* a provider names (backend/internal/api/openai/handler.go).              *)
(*                                                                         *)
(* Every database statement is atomic and sees what is committed when it   *)
(* starts; between two statements of one request others change the         *)
(* catalog.  Rows are never deleted.  The columns of a row that routing    *)
(* does not read (names, limits, prices, weights) are left out; "address"  *)
(* stands for a provider's base_url, provider_type and extra_config.       *)
(***************************************************************************)
EXTENDS Naturals, FiniteSets

CONSTANTS Calls,          (* administrator requests                          *)
          Requests,       (* proxy requests                                  *)
          Providers, ProviderKeys, Models,  (* the ids of rows               *)
          Addresses,      (* where providers are                             *)
          VertexProjects, (* the addresses that are Vertex AI projects       *)
          PublicNames,
          KeyStatuses,    (* active, disabled, rate_limited and invalid      *)
          Catalogs,       (* contents of the database at the start           *)
          MaxCrashes, NoRow

ProviderRow == [status : {"active", "disabled"}, address : Addresses]
KeyRow == [provider : Providers, status : KeyStatuses]
ModelRow == [name : PublicNames, provider : Providers, enabled : BOOLEAN]

Change(ids, rows) == [id : ids, row : rows]
Changes == Change(Providers, ProviderRow) \cup Change(ProviderKeys, KeyRow)
                \cup Change(Models, ModelRow)

Table(ids, rows) == [ids -> rows \cup {NoRow}]

ASSUME CatalogAssumption ==
    /\ VertexProjects \subseteq Addresses
    /\ NoRow \notin Changes \cup ProviderRow \cup KeyRow \cup ModelRow \cup Requests
    /\ \A c \in Catalogs : /\ c.providers \in Table(Providers, ProviderRow)
                           /\ c.keys \in Table(ProviderKeys, KeyRow)
                           /\ c.models \in Table(Models, ModelRow)
                           /\ \A k \in ProviderKeys :
                                 c.keys[k] # NoRow => c.providers[c.keys[k].provider] # NoRow
                           /\ \A m \in Models :
                                 c.models[m] # NoRow => c.providers[c.models[m].provider] # NoRow

VARIABLES
    providers, keys, models,     \* the tables
    stage, wrote, told, trail,   \* the administrators' calls and the audit trail
    pc,        \* how far each proxy request has got
    name,      \* the model a request asks for
    route,     \* what it has resolved so far
    overtaken, \* history: the catalog has changed between its two reads
    clients,   \* vertexClients: the projects that have a client
    writer,    \* the holder of vertexClientsMu's write lock, if any
    created,   \* history: the clients created for each project
    crashes

catalog == <<providers, keys, models>>
admin == <<stage, wrote, told, trail>>
request == <<pc, name, route, overtaken>>
vertex == <<clients, writer, created>>
vars == <<catalog, admin, request, vertex, crashes>>

Admin == INSTANCE AdminAction WITH Rows <- Changes

NoRoute == [address |-> NoRow, provider |-> NoRow, keys |-> {}]

Init ==
    /\ \E c \in Catalogs : providers = c.providers /\ keys = c.keys /\ models = c.models
    /\ Admin!Init
    /\ pc = [r \in Requests |-> "new"]
    /\ name = [r \in Requests |-> NoRow]
    /\ route = [r \in Requests |-> NoRoute]
    /\ overtaken = [r \in Requests |-> FALSE]
    /\ clients = {}
    /\ writer = NoRow
    /\ created = [j \in VertexProjects |-> 0]
    /\ crashes = 0
-----------------------------------------------------------------------------
(* The statements of the store, with the constraints of the schema: a      *)
(* referenced provider exists and public names are unique.                 *)

Exists(table, id) == table[id] # NoRow

Reading(r) == pc[r] = "reading"

Overtake == overtaken' = [r \in Requests |-> overtaken[r] \/ Reading(r)]

WriteProvider(id, row) ==
    /\ providers' = [providers EXCEPT ![id] = row]
    /\ UNCHANGED <<keys, models>>

WriteKey(id, row) ==
    /\ Exists(providers, row.provider)
    /\ keys' = [keys EXCEPT ![id] = row]
    /\ UNCHANGED <<providers, models>>

WriteModel(id, row) ==
    /\ Exists(providers, row.provider)
    /\ \A other \in Models \ {id} : Exists(models, other) => models[other].name # row.name
    /\ models' = [models EXCEPT ![id] = row]
    /\ UNCHANGED <<providers, keys>>

(* INSERT takes an id that is new, UPDATE ... WHERE id = $1 one that is    *)
(* there and overwrites the whole row.                                     *)
InsertProvider(id, row) == ~Exists(providers, id) /\ WriteProvider(id, row)
UpdateProviderRow(id, row) == Exists(providers, id) /\ WriteProvider(id, row)
InsertKey(id, row) == ~Exists(keys, id) /\ WriteKey(id, row)
UpdateKeyRow(id, row) == Exists(keys, id) /\ WriteKey(id, row)
InsertModel(id, row) == ~Exists(models, id) /\ WriteModel(id, row)
UpdateModelRow(id, row) == Exists(models, id) /\ WriteModel(id, row)
-----------------------------------------------------------------------------
(* The administrators' handlers *)

Did(id, row) == [id |-> id, row |-> row]

CreateProvider(c) ==
    /\ \E id \in Providers, row \in ProviderRow :
          InsertProvider(id, row) /\ Admin!Commit(c, Did(id, row))
    /\ Overtake
    /\ UNCHANGED <<pc, name, route, vertex, crashes>>

UpdateProvider(c) ==
    /\ \E id \in Providers, row \in ProviderRow :
          UpdateProviderRow(id, row) /\ Admin!Commit(c, Did(id, row))
    /\ Overtake
    /\ UNCHANGED <<pc, name, route, vertex, crashes>>

(* The calls for keys and models read the provider's name after their      *)
(* statement has been committed.                                           *)
CreateProviderKey(c) ==
    /\ \E id \in ProviderKeys, row \in KeyRow :
          InsertKey(id, row) /\ Admin!CommitThenReload(c, Did(id, row))
    /\ Overtake
    /\ UNCHANGED <<pc, name, route, vertex, crashes>>

UpdateProviderKey(c) ==
    /\ \E id \in ProviderKeys, row \in KeyRow :
          UpdateKeyRow(id, row) /\ Admin!CommitThenReload(c, Did(id, row))
    /\ Overtake
    /\ UNCHANGED <<pc, name, route, vertex, crashes>>

CreateModel(c) ==
    /\ \E id \in Models, row \in ModelRow :
          InsertModel(id, row) /\ Admin!CommitThenReload(c, Did(id, row))
    /\ Overtake
    /\ UNCHANGED <<pc, name, route, vertex, crashes>>

UpdateModel(c) ==
    /\ \E id \in Models, row \in ModelRow :
          UpdateModelRow(id, row) /\ Admin!CommitThenReload(c, Did(id, row))
    /\ Overtake
    /\ UNCHANGED <<pc, name, route, vertex, crashes>>

(* Only the name is read again: the row is the one the statement returned. *)
ReadProviderName(c) ==
    /\ Admin!Reload(c, wrote[c]) \/ Admin!ReloadFails(c)
    /\ UNCHANGED <<catalog, request, vertex, crashes>>

recordAdminAction(c) ==
    /\ Admin!Record(c)
    /\ UNCHANGED <<catalog, request, vertex, crashes>>

Refuse(c) == Admin!Refuse(c) /\ UNCHANGED <<catalog, request, vertex, crashes>>
-----------------------------------------------------------------------------
(* Resolving a model *)

Go(r, from, to) == pc[r] = from /\ pc' = [pc EXCEPT ![r] = to]

(* A handler that returns takes its route with it. *)
Finish(r, from, to) ==
    /\ Go(r, from, to)
    /\ name' = [name EXCEPT ![r] = NoRow]
    /\ route' = [route EXCEPT ![r] = NoRoute]
    /\ overtaken' = [overtaken EXCEPT ![r] = FALSE]

Stay(r, from, to) == Go(r, from, to) /\ UNCHANGED <<name, route, overtaken>>

(* The rows of enabled models with an active provider. *)
Routable(n) ==
    {m \in Models : /\ Exists(models, m) /\ models[m].name = n /\ models[m].enabled
                    /\ providers[models[m].provider].status = "active"}

ActiveKeysOf(p) ==
    {k \in ProviderKeys : Exists(keys, k) /\ keys[k].provider = p /\ keys[k].status = "active"}

(* The first query of ResolveModelRoute: the model's row joined with its   *)
(* provider's.                                                             *)
ReadModel(r) ==
    /\ \E n \in PublicNames :
          \E m \in Routable(n) :
             LET p == models[m].provider
             IN  /\ name' = [name EXCEPT ![r] = n]
                 /\ route' = [route EXCEPT ![r] =
                        [address |-> providers[p].address, provider |-> p, keys |-> {}]]
    /\ Go(r, "new", "reading")
    /\ UNCHANGED <<catalog, admin, overtaken, vertex, crashes>>

(* No row: 404, or a database error. *)
NotFound(r) ==
    /\ Finish(r, "new", "ended")
    /\ UNCHANGED <<catalog, admin, vertex, crashes>>

project(r) == route[r].address

(* Seeded bug: the keys of every provider are candidates. *)
ReadKeysOfAll(r) ==
    /\ Go(r, "reading", "routed")
    /\ LET found == UNION {ActiveKeysOf(p) : p \in Providers}
       IN  /\ found # {} \/ project(r) \in VertexProjects
           /\ route' = [route EXCEPT ![r].keys = found]
    /\ UNCHANGED <<catalog, admin, name, overtaken, vertex, crashes>>

(* The second query: listActiveProviderKeys.  Vertex AI needs no key.      *)
ReadKeys(r) ==
    /\ Go(r, "reading", "routed")
    /\ LET found == ActiveKeysOf(route[r].provider)
       IN  /\ found # {} \/ project(r) \in VertexProjects
           /\ route' = [route EXCEPT ![r].keys = found]
    /\ UNCHANGED <<catalog, admin, name, overtaken, vertex, crashes>>

(* The query fails, or there is no key where one is needed. *)
NoKeys(r) ==
    /\ Finish(r, "reading", "ended")
    /\ UNCHANGED <<catalog, admin, vertex, crashes>>
-----------------------------------------------------------------------------
(* getVertexAIClient.  The look-up under the read lock is over at once, so *)
(* that only a writer keeps others out.                                    *)

(* A request whose provider is a Vertex AI project looks its client up.    *)
LookUp(r) ==
    /\ project(r) \in VertexProjects
    /\ writer = NoRow
    /\ IF project(r) \in clients THEN Finish(r, "routed", "served")
       ELSE Stay(r, "routed", "missed")
    /\ UNCHANGED <<catalog, admin, vertex, crashes>>

(* Seeded bug: the map is not looked at again under the write lock. *)
LockAndCreate(r) ==
    /\ writer = NoRow
    /\ Stay(r, "missed", "creating") /\ writer' = r
    /\ UNCHANGED <<catalog, admin, clients, created, crashes>>

(* The write lock, and the second look. *)
Lock(r) ==
    /\ writer = NoRow
    /\ IF project(r) \in clients
       THEN Finish(r, "missed", "served") /\ UNCHANGED writer
       ELSE Stay(r, "missed", "creating") /\ writer' = r
    /\ UNCHANGED <<catalog, admin, clients, created, crashes>>

(* Seeded bug: the error path returns without unlocking. *)
CreateKeepsLock(r) ==
    /\ \/ /\ Finish(r, "creating", "served")
          /\ clients' = clients \cup {project(r)}
          /\ created' = [created EXCEPT ![project(r)] = @ + 1]
          /\ writer' = NoRow
       \/ /\ Finish(r, "creating", "ended")
          /\ UNCHANGED vertex
    /\ UNCHANGED <<catalog, admin, crashes>>

(* genai.NewClient ends, if not before then with the request's context; an *)
(* error is returned and nothing cached.  The deferred unlock runs in both *)
(* cases.                                                                  *)
Create(r) ==
    /\ \/ /\ Finish(r, "creating", "served")
          /\ clients' = clients \cup {project(r)}
          /\ created' = [created EXCEPT ![project(r)] = @ + 1]
       \/ /\ Finish(r, "creating", "ended")
          /\ UNCHANGED <<clients, created>>
    /\ writer' = NoRow
    /\ UNCHANGED <<catalog, admin, crashes>>
-----------------------------------------------------------------------------
(* The process dies and starts again: the database stays. *)
Crash ==
    /\ crashes < MaxCrashes
    /\ crashes' = crashes + 1
    /\ Admin!Crash
    /\ pc' = [r \in Requests |-> IF pc[r] = "new" THEN "new" ELSE "ended"]
    /\ name' = [r \in Requests |-> NoRow]
    /\ route' = [r \in Requests |-> NoRoute]
    /\ overtaken' = [r \in Requests |-> FALSE]
    /\ clients' = {}
    /\ writer' = NoRow
    /\ created' = [j \in VertexProjects |-> 0]
    /\ UNCHANGED catalog

ClientSteps(r) == LookUp(r) \/ Lock(r) \/ Create(r)

Next ==
    \/ \E c \in Calls :
          \/ CreateProvider(c) \/ UpdateProvider(c)
          \/ CreateProviderKey(c) \/ UpdateProviderKey(c)
          \/ CreateModel(c) \/ UpdateModel(c)
          \/ ReadProviderName(c) \/ recordAdminAction(c) \/ Refuse(c)
    \/ \E r \in Requests :
          ReadModel(r) \/ NotFound(r) \/ ReadKeys(r) \/ NoKeys(r) \/ ClientSteps(r)
    \/ Crash

Spec == Init /\ [][Next]_vars

(* While there are requests that can go on, one of them does: NewClient    *)
(* ends at the latest with the request.                                    *)
FairSpec == Spec /\ WF_vars(\E r \in Requests : ClientSteps(r))
-----------------------------------------------------------------------------
(* What one look at the catalog would resolve the model n to. *)
Resolutions(n) ==
    {[address |-> providers[models[m].provider].address,
      provider |-> models[m].provider,
      keys |-> ActiveKeysOf(models[m].provider)] : m \in Routable(n)}

(* The two queries of ResolveModelRoute together see what one would have   *)
(* seen, unless an administrator's change is committed between them: an    *)
(* address, its provider and the keys to send there belong together.       *)
RouteIsCurrent ==
    [][\A r \in Requests :
          pc[r] = "reading" /\ pc'[r] = "routed" /\ ~overtaken[r]
             => route'[r] \in Resolutions(name[r])]_vars

(* However requests race for the first use of a project, one client is     *)
(* created for it in the life of the process, and it is the cached one; a  *)
(* failure to create it is not cached.                                     *)
OneClientPerProject ==
    \A j \in VertexProjects : created[j] = IF j \in clients THEN 1 ELSE 0

(* The changes whose store calls read the provider's name afterwards.      *)
ReloadedChanges == Change(ProviderKeys, KeyRow) \cup Change(Models, ModelRow)

(* An entry of the audit trail tells exactly the row that its call has     *)
(* committed, and was written for a call that was answered with success,   *)
(* which only calls are that have changed something.  A call that was      *)
(* answered with an error has changed nothing and left no entry, but for   *)
(* the one case that the comment at admin/handler.go:1490 wants to avoid,  *)
(* an error after the commit: the change of a key or a model whose reload  *)
(* has failed, which is committed and missing in the trail.                *)
TrailIsTrue ==
    \A c \in Calls :
        /\ trail[c] # NoRow => stage[c] = "done" /\ trail[c] = wrote[c]
        /\ stage[c] = "done" => wrote[c] # NoRow
        /\ stage[c] = "error" => wrote[c] \in ReloadedChanges \cup {NoRow}

(* Every request that needs a Vertex AI client gets one or an error,       *)
(* whatever the other requests that hold the lock do and how they fail.    *)
ClientRequestsEnd ==
    \A r \in Requests :
        pc[r] = "routed" /\ project(r) \in VertexProjects ~> pc[r] \in {"served", "ended"}

TypeOK ==
    /\ providers \in Table(Providers, ProviderRow)
    /\ keys \in Table(ProviderKeys, KeyRow)
    /\ models \in Table(Models, ModelRow)
    /\ Admin!TypeOK
    /\ pc \in [Requests -> {"new", "reading", "routed", "missed", "creating", "served", "ended"}]
    /\ name \in [Requests -> PublicNames \cup {NoRow}]
    /\ route \in [Requests -> [address : Addresses \cup {NoRow},
                               provider : Providers \cup {NoRow},
                               keys : SUBSET ProviderKeys]]
    /\ overtaken \in [Requests -> BOOLEAN]
    /\ clients \subseteq VertexProjects
    /\ writer \in Requests \cup {NoRow}
    /\ created \in [VertexProjects -> Nat]
    /\ crashes \in Nat
=============================================================================
