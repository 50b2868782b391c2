--------------------------- MODULE BackgroundWorker ---------------------------
(***************************************************************************)
(* The pool of goroutines that runs the gateway's deferred work: request   *)
(* log writes, wallet debits and token counters                            *)
(* (backend/internal/platform/worker.go).                                  *)
(*                                                                         *)
(* A buffered channel feeds a fixed set of workers.  Submit never blocks:  *)
(* it enqueues, or drops the task when the buffer is full, and it panics   *)
(* in its caller when the channel has been closed.  Stop closes the        *)
(* channel, cancels the workers' context and waits for them.  The          *)
(* synchronous mode (isSync), which tests use, is not modelled.            *)
(***************************************************************************)
EXTENDS Naturals, Sequences

CONSTANTS Tasks,      (* the tasks that callers may submit, each one once  *)
          Workers,    (* the worker goroutines                             *)
          QueueSize,  (* the capacity of taskChan                          *)
          NoTask      (* what an idle worker is running                    *)

ASSUME PoolAssumption == /\ QueueSize \in Nat \ {0}
                         /\ NoTask \notin Tasks

VARIABLES
    taskChan,  \* the buffered channel
    alive,     \* the workers whose goroutine has not returned
    current,   \* the task each worker is running, or NoTask
    stopCall,  \* how far the one call of Stop has got
    fate,      \* what has become of each task
    accepted,  \* history: the tasks that entered taskChan, in order
    started    \* history: the tasks that a worker took, in order

poolVars == <<taskChan, alive, current, stopCall, fate, accepted, started>>

StopPhases == {"none", "closed", "cancelled", "returned"}
Fates == {"new", "queued", "dropped", "refused", "running", "done", "crashed"}

closed    == stopCall # "none"
ctxDone   == stopCall \in {"cancelled", "returned"}
idle(w)   == w \in alive /\ current[w] = NoTask

PoolInit ==
    /\ taskChan = <<>>
    /\ alive = Workers
    /\ current = [w \in Workers |-> NoTask]
    /\ stopCall = "none"
    /\ fate = [t \in Tasks |-> "new"]
    /\ accepted = <<>>
    /\ started = <<>>
-----------------------------------------------------------------------------
(* Submit *)

SubmitQueued(t) ==
    /\ fate[t] = "new"
    /\ ~closed
    /\ Len(taskChan) < QueueSize
    /\ taskChan' = Append(taskChan, t)
    /\ accepted' = Append(accepted, t)
    /\ fate' = [fate EXCEPT ![t] = "queued"]
    /\ UNCHANGED <<alive, current, stopCall, started>>

(* Seeded bug: the last place of the buffer is never used. *)
SubmitDroppedEarly(t) ==
    /\ fate[t] = "new"
    /\ ~closed
    /\ Len(taskChan) + 1 >= QueueSize
    /\ fate' = [fate EXCEPT ![t] = "dropped"]
    /\ UNCHANGED <<taskChan, alive, current, stopCall, accepted, started>>

SubmitDropped(t) ==
    /\ fate[t] = "new"
    /\ ~closed
    /\ Len(taskChan) >= QueueSize
    /\ fate' = [fate EXCEPT ![t] = "dropped"]
    /\ UNCHANGED <<taskChan, alive, current, stopCall, accepted, started>>

(* A send on a closed channel panics, also inside a select with a default. *)
SubmitPanics(t) ==
    /\ fate[t] = "new"
    /\ closed
    /\ fate' = [fate EXCEPT ![t] = "refused"]
    /\ UNCHANGED <<taskChan, alive, current, stopCall, accepted, started>>

Submit(t) == SubmitQueued(t) \/ SubmitDropped(t) \/ SubmitPanics(t)
-----------------------------------------------------------------------------
(* worker, runTask.  The select picks any ready case: once the context is  *)
(* done, a worker may still take a buffered task or leave it behind.       *)

(* Seeded bug: the head is read but not removed, so two workers get it. *)
TakePeeks(w) ==
    /\ idle(w)
    /\ taskChan # <<>>
    /\ current' = [current EXCEPT ![w] = Head(taskChan)]
    /\ fate' = [fate EXCEPT ![Head(taskChan)] = "running"]
    /\ started' = Append(started, Head(taskChan))
    /\ UNCHANGED <<taskChan, alive, stopCall, accepted>>

Take(w) ==
    /\ idle(w)
    /\ taskChan # <<>>
    /\ current' = [current EXCEPT ![w] = Head(taskChan)]
    /\ fate' = [fate EXCEPT ![Head(taskChan)] = "running"]
    /\ started' = Append(started, Head(taskChan))
    /\ taskChan' = Tail(taskChan)
    /\ UNCHANGED <<alive, stopCall, accepted>>

(* Seeded bug: the recover() sits in worker(), whose goroutine then returns. *)
RunTaskKillsWorker(w) ==
    /\ current[w] # NoTask
    /\ \E outcome \in {"done", "crashed"} :
          /\ fate' = [fate EXCEPT ![current[w]] = outcome]
          /\ alive' = IF outcome = "done" THEN alive ELSE alive \ {w}
    /\ current' = [current EXCEPT ![w] = NoTask]
    /\ UNCHANGED <<taskChan, stopCall, accepted, started>>

(* Seeded bug: without the 30 second context a task may hang for ever. *)
RunTaskHangs(w) ==
    /\ current[w] # NoTask
    /\ fate[current[w]] = "running"
    /\ \E outcome \in {"done", "crashed"} :
          /\ fate' = [fate EXCEPT ![current[w]] = outcome]
          /\ current' = IF outcome = "done" THEN [current EXCEPT ![w] = NoTask]
                                           ELSE current
    /\ UNCHANGED <<taskChan, alive, stopCall, accepted, started>>

(* runTask recovers a panic, so a crashed task leaves its worker running.  *)
RunTask(w) ==
    /\ current[w] # NoTask
    /\ \E outcome \in {"done", "crashed"} :
          fate' = [fate EXCEPT ![current[w]] = outcome]
    /\ current' = [current EXCEPT ![w] = NoTask]
    /\ UNCHANGED <<taskChan, alive, stopCall, accepted, started>>

Return(w) ==
    /\ idle(w)
    /\ ctxDone \/ (closed /\ taskChan = <<>>)
    /\ alive' = alive \ {w}
    /\ UNCHANGED <<taskChan, current, stopCall, fate, accepted, started>>
-----------------------------------------------------------------------------
(* Stop: close(taskChan), cancel(), wg.Wait() *)

StopClose ==
    /\ stopCall = "none"
    /\ stopCall' = "closed"
    /\ UNCHANGED <<taskChan, alive, current, fate, accepted, started>>

StopCancel ==
    /\ stopCall = "closed"
    /\ stopCall' = "cancelled"
    /\ UNCHANGED <<taskChan, alive, current, fate, accepted, started>>

(* Seeded bug: Stop does not wait for the workers. *)
StopReturnNoWait ==
    /\ stopCall = "cancelled"
    /\ stopCall' = "returned"
    /\ UNCHANGED <<taskChan, alive, current, fate, accepted, started>>

StopReturn ==
    /\ stopCall = "cancelled"
    /\ alive = {}
    /\ stopCall' = "returned"
    /\ UNCHANGED <<taskChan, alive, current, fate, accepted, started>>
-----------------------------------------------------------------------------
WorkerStep(w) == Take(w) \/ RunTask(w) \/ Return(w)
StopStep == StopCancel \/ StopReturn

PoolNext ==
    \/ \E t \in Tasks : Submit(t)
    \/ \E w \in Workers : WorkerStep(w)
    \/ StopClose
    \/ StopStep

(* What a user of the pool may rely on, and what it may do with the pool.  *)
PoolSpec == PoolInit /\ [][PoolNext]_poolVars

(* Goroutines are scheduled, and a task ends because it runs under the     *)
(* 30 second context of runTask.  Nobody is obliged to submit or to stop.  *)
FairPoolSpec == PoolSpec /\ (\A w \in Workers : WF_poolVars(WorkerStep(w)))
                 /\ WF_poolVars(StopStep)
-----------------------------------------------------------------------------
PoolTypeOK ==
    /\ taskChan \in Seq(Tasks)
    /\ Len(taskChan) <= QueueSize
    /\ alive \in SUBSET Workers
    /\ current \in [Workers -> Tasks \cup {NoTask}]
    /\ stopCall \in StopPhases
    /\ fate \in [Tasks -> Fates]
    /\ accepted \in Seq(Tasks)
    /\ started \in Seq(Tasks)

(* Tasks start in the order in which they were accepted, and between the   *)
(* channel and the workers none is lost or run twice: what was accepted is *)
(* exactly what was started followed by what is still buffered.            *)
FifoDelivery == accepted = started \o taskChan

(* A task's fate says where it is: it entered the channel at most once, a  *)
(* running one is held by exactly one worker, and one that was dropped or  *)
(* refused never reached a worker.                                         *)
OnePlace ==
    /\ \A i, j \in 1..Len(accepted) : accepted[i] = accepted[j] => i = j
    /\ \A t \in Tasks :
          (fate[t] \in {"new", "dropped", "refused"})
             <=> (\A i \in 1..Len(accepted) : accepted[i] # t)
    /\ \A w \in Workers : current[w] # NoTask => fate[current[w]] = "running"
    /\ \A v, w \in Workers :
          current[v] = current[w] /\ current[v] # NoTask => v = w

(* Both together: every accepted task is started exactly once or is still  *)
(* waiting in its place, whatever panics or stops.                         *)
DeliveredInOrder == FifoDelivery /\ OnePlace

(* A burst that fits the buffer loses nothing, however slow or busy the    *)
(* workers are: no task is dropped before QueueSize others were accepted.  *)
BurstsFit == (\E t \in Tasks : fate[t] = "dropped") => Len(accepted) >= QueueSize

(* A panicking task costs the pool nothing: no worker goroutine returns    *)
(* before Stop has been called.                                            *)
PoolAtFullStrength == ~closed => alive = Workers

(* When Stop returns every goroutine is gone and no task is running, which *)
(* is what lets the caller close the stores that tasks write to.           *)
StoppedIsQuiet ==
    stopCall = "returned" => /\ alive = {}
                             /\ \A w \in Workers : current[w] = NoTask

(* Stop comes back: it waits for running tasks only, and those end.        *)
StopReturns == closed ~> stopCall = "returned"

(* While the pool is not being stopped, an accepted task gets its worker.  *)
AcceptedTaskStarts ==
    \A t \in Tasks : fate[t] = "queued" ~> (fate[t] # "queued" \/ closed)

(* What "graceful" asks of Stop: the tasks that Submit accepted have run   *)
(* by the time it returns.                                                 *)
StopDrainsQueue == stopCall = "returned" => taskChan = <<>>
=============================================================================
