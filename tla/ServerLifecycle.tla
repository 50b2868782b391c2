---------------------------- MODULE ServerLifecycle ----------------------------
(***************************************************************************)
(* One run of the gateway process: Server.Run, the HTTP handlers whose     *)
(* deferred functions submit a request's log task and token task to the    *)
(* worker pool, the shutdown of the HTTP server under its timeout, and     *)
(* Dependencies.Close, which stops the pool before it closes Redis and     *)
(* Postgres (backend/internal/app/server.go,                               *)
(* backend/internal/platform/dependencies.go).                             *)
(***************************************************************************)
EXTENDS BackgroundWorker

CONSTANT Requests   (* the proxy requests of one run of the process        *)

(* A request submits at most two tasks: writeRequestLog, AddTokenUsage.    *)
TaskKinds == {"log", "usage"}

ASSUME LifecycleAssumption == Tasks = Requests \X TaskKinds

Stores == {"redis", "postgres"}

VARIABLES
    phase,    \* where Server.Run is
    drained,  \* srv.Shutdown returned nil: no handler is left
    handler,  \* the state of each request's handler
    stores    \* the stores that are still open

vars == <<poolVars, phase, drained, handler, stores>>

HandlerStates == {"absent", "serving", "logged", "returned"}
inFlight == {r \in Requests : handler[r] \in {"serving", "logged"}}

Init ==
    /\ PoolInit
    /\ phase = "serving"
    /\ drained = FALSE
    /\ handler = [r \in Requests |-> "absent"]
    /\ stores = Stores
-----------------------------------------------------------------------------
(* Handlers.  Connections that are open when Shutdown gives up still carry *)
(* requests, until the process exits.                                      *)

Arrive(r) ==
    /\ phase # "exited"
    /\ ~drained
    /\ handler[r] = "absent"
    /\ handler' = [handler EXCEPT ![r] = "serving"]
    /\ UNCHANGED <<poolVars, phase, drained, stores>>

(* Deferred functions run last in, first out: the log task goes first.     *)
DeferLog(r) ==
    /\ phase # "exited"
    /\ handler[r] = "serving"
    /\ Submit(<<r, "log">>)
    /\ handler' = [handler EXCEPT ![r] = "logged"]
    /\ UNCHANGED <<phase, drained, stores>>

(* The token task is submitted when the request used tokens.  It runs also *)
(* while the panic of a refused log task unwinds.                          *)
DeferUsage(r) ==
    /\ phase # "exited"
    /\ handler[r] = "logged"
    /\ Submit(<<r, "usage">>) \/ UNCHANGED poolVars
    /\ handler' = [handler EXCEPT ![r] = "returned"]
    /\ UNCHANGED <<phase, drained, stores>>
-----------------------------------------------------------------------------
(* Server.Run *)

Signal ==
    /\ phase = "serving"
    /\ phase' = "draining"
    /\ UNCHANGED <<poolVars, drained, handler, stores>>

ServeFails ==
    /\ phase = "serving"
    /\ phase' = "closing"
    /\ UNCHANGED <<poolVars, drained, handler, stores>>

(* Seeded bug: Shutdown is reported complete with a handler in flight. *)
ShutdownDoneEarly ==
    /\ phase = "draining"
    /\ phase' = "closing"
    /\ drained' = TRUE
    /\ UNCHANGED <<poolVars, handler, stores>>

ShutdownDone ==
    /\ phase = "draining"
    /\ inFlight = {}
    /\ phase' = "closing"
    /\ drained' = TRUE
    /\ UNCHANGED <<poolVars, handler, stores>>

(* Seeded bug: Shutdown waits for the handlers without a deadline. *)
ShutdownTimeoutNever ==
    /\ phase = "draining"
    /\ inFlight = {}
    /\ phase' = "closing"
    /\ UNCHANGED <<poolVars, drained, handler, stores>>

ShutdownTimeout ==
    /\ phase = "draining"
    /\ inFlight # {}
    /\ phase' = "closing"
    /\ UNCHANGED <<poolVars, drained, handler, stores>>
-----------------------------------------------------------------------------
(* Dependencies.Close, deferred by Run, then the end of main *)

StopPool ==
    /\ phase = "closing"
    /\ StopClose \/ StopStep
    /\ UNCHANGED <<phase, drained, handler, stores>>

(* Seeded bug: Postgres is closed without waiting for the pool to stop. *)
CloseStoreEarly(s) ==
    /\ phase = "closing"
    /\ s \in stores
    /\ s = "postgres" => "redis" \notin stores
    /\ stores' = stores \ {s}
    /\ UNCHANGED <<poolVars, phase, drained, handler>>

CloseStore(s) ==
    /\ phase = "closing"
    /\ stopCall = "returned"
    /\ s \in stores
    /\ s = "postgres" => "redis" \notin stores
    /\ stores' = stores \ {s}
    /\ UNCHANGED <<poolVars, phase, drained, handler>>

Exit ==
    /\ phase = "closing"
    /\ stores = {}
    /\ phase' = "exited"
    /\ UNCHANGED <<poolVars, drained, handler, stores>>
-----------------------------------------------------------------------------
RunWorker(w) ==
    /\ phase # "exited"
    /\ WorkerStep(w)
    /\ UNCHANGED <<phase, drained, handler, stores>>

Shutdown == ShutdownDone \/ ShutdownTimeout
Close == StopPool \/ (\E s \in Stores : CloseStore(s)) \/ Exit

Next ==
    \/ \E r \in Requests : Arrive(r) \/ DeferLog(r) \/ DeferUsage(r)
    \/ \E w \in Workers : RunWorker(w)
    \/ Signal
    \/ ServeFails
    \/ Shutdown
    \/ Close

Spec == Init /\ [][Next]_vars

(* The handlers themselves get no fairness: an upstream call may outlast   *)
(* the shutdown timeout.                                                   *)
FairSpec == Spec /\ WF_vars(Shutdown) /\ WF_vars(Close)
                 /\ (\A w \in Workers : WF_vars(RunWorker(w)))
-----------------------------------------------------------------------------
(* No background task runs once a store it writes to has been closed: the  *)
(* order of Dependencies.Close and the wait inside Stop together see to it.*)
TasksRunOnOpenStores ==
    \A w \in Workers : current[w] # NoTask => stores = Stores

(* Submit meets a closed channel, and panics in a deferred function, only  *)
(* when Close runs with handlers left: the shutdown timeout has expired or *)
(* Serve has failed.  Every later Submit then does so too, so a request    *)
(* whose log row is refused is not counted against its tokens either.      *)
PanicsExplained ==
    \A r \in Requests, kind \in TaskKinds :
        fate[<<r, kind>>] = "refused" =>
            /\ ~drained
            /\ phase \in {"closing", "exited"}
            /\ kind = "log" => fate[<<r, "usage">>] \in {"new", "refused"}

(* A signalled process ends, whatever its handlers and upstreams do.       *)
ShutdownCompletes == phase = "draining" ~> phase = "exited"
=============================================================================
