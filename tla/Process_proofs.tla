---------------------------- MODULE Process_proofs ----------------------------
(***************************************************************************)
(* Proofs about what the process runs beside its requests.  The worker     *)
(* pool keeps its promises for every set of tasks, every number of workers *)
(* and every queue size; the shutdown order protects the tasks that are    *)
(* still running, and a Submit that panics has its cause; an alert service *)
(* alerts once about a subject.                                            *)
(***************************************************************************)
EXTENDS ServerLifecycle, Alerting, SequenceTheorems, TLAPS

(* Every variable of the pool keeps its type, and the channel never holds  *)
(* more than QueueSize tasks.                                              *)
THEOREM PoolTypeCorrect == PoolSpec => []PoolTypeOK
<1>1. PoolInit => PoolTypeOK
  BY PoolAssumption DEF PoolInit, PoolTypeOK, StopPhases, Fates
<1>2. PoolTypeOK /\ [PoolNext]_poolVars => PoolTypeOK'
  <2> SUFFICES ASSUME PoolTypeOK, [PoolNext]_poolVars
               PROVE  PoolTypeOK'
    OBVIOUS
  <2> USE PoolAssumption DEF PoolTypeOK, StopPhases, Fates
  <2>1. ASSUME NEW t \in Tasks, SubmitQueued(t)
        PROVE  PoolTypeOK'
    <3>1. taskChan' \in Seq(Tasks) /\ Len(taskChan') = Len(taskChan) + 1
      BY <2>1 DEF SubmitQueued
    <3>2. accepted' \in Seq(Tasks)
      BY <2>1 DEF SubmitQueued
    <3>3. QED
      BY <2>1, <3>1, <3>2 DEF SubmitQueued
  <2>2. ASSUME NEW t \in Tasks, SubmitDropped(t) \/ SubmitPanics(t)
        PROVE  PoolTypeOK'
    BY <2>2 DEF SubmitDropped, SubmitPanics
  <2>3. ASSUME NEW w \in Workers, Take(w)
        PROVE  PoolTypeOK'
    <3>1. Head(taskChan) \in Tasks
      BY <2>3 DEF Take
    <3>2. taskChan' \in Seq(Tasks) /\ Len(taskChan') = Len(taskChan) - 1
      BY <2>3 DEF Take
    <3>3. started' \in Seq(Tasks)
      BY <2>3, <3>1 DEF Take
    <3>4. QED
      BY <2>3, <3>1, <3>2, <3>3 DEF Take
  <2>4. ASSUME NEW w \in Workers, RunTask(w)
        PROVE  PoolTypeOK'
    BY <2>4 DEF RunTask
  <2>5. ASSUME NEW w \in Workers, Return(w)
        PROVE  PoolTypeOK'
    BY <2>5 DEF Return
  <2>6. CASE StopClose \/ StopStep
    BY <2>6 DEF StopClose, StopStep, StopCancel, StopReturn
  <2>7. CASE UNCHANGED poolVars
    BY <2>7 DEF poolVars
  <2>8. QED
    BY <2>1, <2>2, <2>3, <2>4, <2>5, <2>6, <2>7 DEF PoolNext, Submit, WorkerStep
<1>3. QED
  BY <1>1, <1>2, PTL DEF PoolSpec
-----------------------------------------------------------------------------
(* Tasks start in the order in which they were accepted, and none is lost  *)
(* or duplicated between the channel and the workers.                      *)
THEOREM PoolFifoDelivery == PoolSpec => []FifoDelivery
<1>1. PoolInit => FifoDelivery
  BY DEF PoolInit, FifoDelivery
<1>2. PoolTypeOK /\ FifoDelivery /\ [PoolNext]_poolVars => FifoDelivery'
  <2> SUFFICES ASSUME PoolTypeOK, FifoDelivery, [PoolNext]_poolVars
               PROVE  FifoDelivery'
    OBVIOUS
  <2> USE DEF PoolTypeOK, FifoDelivery
  <2>1. ASSUME NEW t \in Tasks, SubmitQueued(t)
        PROVE  FifoDelivery'
    <3>1. Append(started \o taskChan, t) = started \o Append(taskChan, t)
      <4>1. <<t>> \in Seq(Tasks)
        OBVIOUS
      <4>2. (started \o taskChan) \o <<t>> = started \o (taskChan \o <<t>>)
        BY <4>1, ConcatAssociative
      <4>3. started \o taskChan \in Seq(Tasks)
        BY ConcatProperties
      <4>4. QED
        BY <4>2, <4>3, AppendIsConcat
    <3>2. QED
      BY <2>1, <3>1 DEF SubmitQueued
  <2>2. ASSUME NEW w \in Workers, Take(w)
        PROVE  FifoDelivery'
    <3>1. started \o taskChan = Append(started, Head(taskChan)) \o Tail(taskChan)
      BY <2>2 DEF Take
    <3>2. QED
      BY <2>2, <3>1 DEF Take
  <2>3. CASE UNCHANGED <<taskChan, accepted, started>>
    BY <2>3
  <2>4. QED
    BY <2>1, <2>2, <2>3
       DEF PoolNext, Submit, SubmitDropped, SubmitPanics, WorkerStep, RunTask,
           Return, StopClose, StopStep, StopCancel, StopReturn, poolVars
<1>3. QED
  BY <1>1, <1>2, PoolTypeCorrect, PTL DEF PoolSpec

(* A burst that fits the buffer loses nothing: the tasks that were waiting *)
(* when one was dropped had all been accepted, and that is never undone.   *)
THEOREM PoolBurstsFit == PoolSpec => []BurstsFit
<1>1. PoolInit => BurstsFit
  BY DEF PoolInit, BurstsFit
<1>2. PoolTypeOK /\ FifoDelivery /\ BurstsFit /\ [PoolNext]_poolVars => BurstsFit'
  <2> SUFFICES ASSUME PoolTypeOK, FifoDelivery, BurstsFit, [PoolNext]_poolVars
               PROVE  BurstsFit'
    OBVIOUS
  <2> USE PoolAssumption DEF PoolTypeOK, BurstsFit
  <2>1. ASSUME NEW t \in Tasks, SubmitQueued(t)
        PROVE  BurstsFit'
    <3>1. Len(accepted') = Len(accepted) + 1
      BY <2>1 DEF SubmitQueued
    <3>2. QED
      BY <2>1, <3>1 DEF SubmitQueued
  <2>2. ASSUME NEW t \in Tasks, SubmitDropped(t)
        PROVE  BurstsFit'
    <3>1. Len(accepted) = Len(started) + Len(taskChan)
      BY DEF FifoDelivery
    <3>2. Len(accepted) >= QueueSize
      BY <2>2, <3>1 DEF SubmitDropped
    <3>3. QED
      BY <2>2, <3>2 DEF SubmitDropped
  <2>3. ASSUME NEW t \in Tasks, SubmitPanics(t)
        PROVE  BurstsFit'
    BY <2>3 DEF SubmitPanics
  <2>4. ASSUME NEW w \in Workers, Take(w)
        PROVE  BurstsFit'
    BY <2>4 DEF Take
  <2>5. ASSUME NEW w \in Workers, RunTask(w)
        PROVE  BurstsFit'
    BY <2>5 DEF RunTask
  <2>6. CASE UNCHANGED <<fate, accepted>>
    BY <2>6
  <2>7. QED
    BY <2>1, <2>2, <2>3, <2>4, <2>5, <2>6
       DEF PoolNext, Submit, WorkerStep, Return, StopClose, StopStep,
           StopCancel, StopReturn, poolVars
<1>3. QED
  BY <1>1, <1>2, PoolTypeCorrect, PoolFifoDelivery, PTL DEF PoolSpec
-----------------------------------------------------------------------------
(* The strengthening behind PoolAtFullStrength and StoppedIsQuiet: only a  *)
(* live worker runs a task, workers leave only once Stop has begun, and    *)
(* Stop returns only when all have left.                                   *)
WorkerInv == /\ \A w \in Workers : current[w] # NoTask => w \in alive
             /\ ~closed => alive = Workers
             /\ stopCall = "returned" => alive = {}

LEMMA PoolWorkerInv == PoolSpec => []WorkerInv
<1>1. PoolInit => WorkerInv
  BY DEF PoolInit, WorkerInv, closed
<1>2. PoolTypeOK /\ WorkerInv /\ [PoolNext]_poolVars => WorkerInv'
  <2> SUFFICES ASSUME PoolTypeOK, WorkerInv, [PoolNext]_poolVars
               PROVE  WorkerInv'
    OBVIOUS
  <2> USE DEF PoolTypeOK, WorkerInv, closed
  <2>1. ASSUME NEW t \in Tasks, Submit(t)
        PROVE  WorkerInv'
    BY <2>1 DEF Submit, SubmitQueued, SubmitDropped, SubmitPanics
  <2>2. ASSUME NEW w \in Workers, Take(w)
        PROVE  WorkerInv'
    BY <2>2 DEF Take, idle
  <2>3. ASSUME NEW w \in Workers, RunTask(w)
        PROVE  WorkerInv'
    BY <2>3 DEF RunTask
  <2>4. ASSUME NEW w \in Workers, Return(w)
        PROVE  WorkerInv'
    BY <2>4 DEF Return, idle, ctxDone
  <2>5. CASE StopClose
    BY <2>5 DEF StopClose
  <2>6. CASE StopStep
    BY <2>6 DEF StopStep, StopCancel, StopReturn
  <2>7. CASE UNCHANGED poolVars
    BY <2>7 DEF poolVars
  <2>8. QED
    BY <2>1, <2>2, <2>3, <2>4, <2>5, <2>6, <2>7 DEF PoolNext, WorkerStep
<1>3. QED
  BY <1>1, <1>2, PoolTypeCorrect, PTL DEF PoolSpec

(* A panicking task never costs the pool a worker before Stop is called.   *)
THEOREM PoolKeepsStrength == PoolSpec => []PoolAtFullStrength
<1>1. WorkerInv => PoolAtFullStrength
  BY DEF WorkerInv, PoolAtFullStrength
<1>2. QED
  BY <1>1, PoolWorkerInv, PTL

(* When Stop has returned no goroutine is left and no task is running.     *)
THEOREM PoolStoppedIsQuiet == PoolSpec => []StoppedIsQuiet
<1>1. WorkerInv => StoppedIsQuiet
  BY DEF WorkerInv, StoppedIsQuiet
<1>2. QED
  BY <1>1, PoolWorkerInv, PTL
-----------------------------------------------------------------------------
(* The strengthening behind OnePlace: what a worker is running it took     *)
(* from the channel.                                                       *)
PlaceInv == /\ OnePlace
            /\ \A w \in Workers : current[w] # NoTask =>
                  \E i \in 1..Len(started) : started[i] = current[w]

(* What entered the channel and where it is now: the head of the channel   *)
(* was not started before, so no worker is running it.                     *)
LEMMA HeadIsFresh ==
  ASSUME PoolTypeOK, FifoDelivery, PlaceInv, taskChan # <<>>
  PROVE  /\ Head(taskChan) \in Tasks
         /\ \E i \in 1..Len(accepted) : accepted[i] = Head(taskChan)
         /\ \A w \in Workers : current[w] # Head(taskChan)
<1> USE DEF PoolTypeOK, FifoDelivery
<1> DEFINE k == Len(started) + 1
<1>1. Len(accepted) = Len(started) + Len(taskChan) /\ Len(taskChan) > 0
  OBVIOUS
<1>2. k \in 1..Len(accepted) /\ accepted[k] = Head(taskChan)
  BY <1>1
<1>3. \A i \in 1..Len(started) : i \in 1..Len(accepted) /\ accepted[i] = started[i]
  BY <1>1
<1>4. ASSUME NEW w \in Workers, current[w] = Head(taskChan)
      PROVE  FALSE
  <2>1. Head(taskChan) \in Tasks
    OBVIOUS
  <2>2. PICK i \in 1..Len(started) : started[i] = current[w]
    BY <1>4, <2>1, PoolAssumption DEF PlaceInv
  <2>3. accepted[i] = accepted[k]
    BY <1>2, <1>3, <1>4, <2>2
  <2>4. i # k /\ i \in 1..Len(accepted)
    BY <1>3, <2>2
  <2>5. QED
    BY <1>2, <2>3, <2>4 DEF PlaceInv, OnePlace
<1>5. QED
  BY <1>2, <1>4

(* A task's fate says where it is, no task enters the channel twice and no *)
(* task is run by two workers.                                             *)
LEMMA PoolPlaceInv == PoolSpec => []PlaceInv
<1>1. PoolInit => PlaceInv
  BY DEF PoolInit, PlaceInv, OnePlace
<1>2. PoolTypeOK /\ FifoDelivery /\ PlaceInv /\ [PoolNext]_poolVars => PlaceInv'
  <2> SUFFICES ASSUME PoolTypeOK, FifoDelivery, PlaceInv, [PoolNext]_poolVars
               PROVE  PlaceInv'
    OBVIOUS
  <2> USE PoolAssumption DEF PoolTypeOK
  <2>1. ASSUME NEW t \in Tasks, SubmitQueued(t)
        PROVE  PlaceInv'
    <3>1. \A i \in 1..Len(accepted) : accepted[i] # t
      BY <2>1 DEF SubmitQueued, PlaceInv, OnePlace
    <3>2. /\ Len(accepted') = Len(accepted) + 1
          /\ accepted'[Len(accepted) + 1] = t
          /\ \A i \in 1..Len(accepted) : accepted'[i] = accepted[i]
      BY <2>1 DEF SubmitQueued
    <3>3. fate' = [fate EXCEPT ![t] = "queued"] /\ fate[t] = "new"
      BY <2>1 DEF SubmitQueued
    <3>4. UNCHANGED <<current, started>>
      BY <2>1 DEF SubmitQueued
    <3>5. \A i, j \in 1..Len(accepted') : accepted'[i] = accepted'[j] => i = j
      BY <3>1, <3>2 DEF PlaceInv, OnePlace
    <3>6. \A u \in Tasks : (fate'[u] \in {"new", "dropped", "refused"})
             <=> (\A i \in 1..Len(accepted') : accepted'[i] # u)
      <4> SUFFICES ASSUME NEW u \in Tasks
                   PROVE  (fate'[u] \in {"new", "dropped", "refused"})
                             <=> (\A i \in 1..Len(accepted') : accepted'[i] # u)
        OBVIOUS
      <4>1. CASE u = t
        BY <3>2, <3>3, <4>1
      <4>2. CASE u # t
        <5>1. (fate[u] \in {"new", "dropped", "refused"})
                 <=> (\A i \in 1..Len(accepted) : accepted[i] # u)
          BY DEF PlaceInv, OnePlace
        <5>2. (\A i \in 1..Len(accepted') : accepted'[i] # u)
                 <=> (\A i \in 1..Len(accepted) : accepted[i] # u)
          <6>1. Len(accepted) \in Nat
            OBVIOUS
          <6>2. \A i \in 1..Len(accepted') :
                   i \in 1..Len(accepted) \/ i = Len(accepted) + 1
            BY <3>2, <6>1
          <6>3. \A i \in 1..Len(accepted) : i \in 1..Len(accepted')
            BY <3>2, <6>1
          <6>4. QED
            BY <3>2, <4>2, <6>2, <6>3
        <5>3. fate'[u] = fate[u]
          BY <3>3, <4>2
        <5>4. QED
          BY <5>1, <5>2, <5>3
      <4>3. QED
        BY <4>1, <4>2
    <3>7. \A w \in Workers : current'[w] # NoTask => fate'[current'[w]] = "running"
      <4> SUFFICES ASSUME NEW w \in Workers, current[w] # NoTask
                   PROVE  fate'[current[w]] = "running"
        BY <3>4
      <4>1. current[w] \in Tasks /\ fate[current[w]] = "running"
        BY DEF PlaceInv, OnePlace
      <4>2. QED
        BY <3>3, <4>1
    <3>8. QED
      BY <3>4, <3>5, <3>6, <3>7 DEF PlaceInv, OnePlace
  <2>2. ASSUME NEW t \in Tasks, SubmitDropped(t) \/ SubmitPanics(t)
        PROVE  PlaceInv'
    <3>1. PICK f \in {"dropped", "refused"} :
             fate[t] = "new" /\ fate' = [fate EXCEPT ![t] = f]
      BY <2>2 DEF SubmitDropped, SubmitPanics
    <3>2. UNCHANGED <<current, accepted, started>>
      BY <2>2 DEF SubmitDropped, SubmitPanics
    <3>3. \A u \in Tasks : (fate'[u] \in {"new", "dropped", "refused"})
             <=> (fate[u] \in {"new", "dropped", "refused"})
      BY <3>1
    <3>4. \A w \in Workers : current[w] # NoTask => fate'[current[w]] = "running"
      <4> SUFFICES ASSUME NEW w \in Workers, current[w] # NoTask
                   PROVE  fate'[current[w]] = "running"
        OBVIOUS
      <4>1. current[w] \in Tasks /\ fate[current[w]] = "running"
        BY DEF PlaceInv, OnePlace
      <4>2. QED
        BY <3>1, <4>1
    <3>5. QED
      BY <3>2, <3>3, <3>4 DEF PlaceInv, OnePlace
  <2>3. ASSUME NEW w \in Workers, Take(w)
        PROVE  PlaceInv'
    <3> DEFINE h == Head(taskChan)
    <3>1. /\ h \in Tasks
          /\ \E i \in 1..Len(accepted) : accepted[i] = h
          /\ \A v \in Workers : current[v] # h
      BY <2>3, HeadIsFresh DEF Take
    <3>2. /\ current' = [current EXCEPT ![w] = h]
          /\ fate' = [fate EXCEPT ![h] = "running"]
          /\ started' = Append(started, h)
          /\ accepted' = accepted
      BY <2>3 DEF Take
    <3>3. /\ Len(started') = Len(started) + 1
          /\ started'[Len(started) + 1] = h
          /\ \A i \in 1..Len(started) : started'[i] = started[i]
      BY <3>1, <3>2
    <3>4. \A v \in Workers : current'[v] # NoTask =>
             \E i \in 1..Len(started') : started'[i] = current'[v]
      <4> SUFFICES ASSUME NEW v \in Workers, current'[v] # NoTask
                   PROVE  \E i \in 1..Len(started') : started'[i] = current'[v]
        OBVIOUS
      <4> HIDE DEF h
      <4>1. CASE v = w
        <5>1. current'[v] = h
          BY <3>2, <4>1
        <5>2. Len(started) + 1 \in 1..Len(started')
          BY <3>3
        <5>3. QED
          BY <3>3, <5>1, <5>2
      <4>2. CASE v # w
        <5>1. current'[v] = current[v]
          BY <3>2, <4>2
        <5>2. PICK i \in 1..Len(started) : started[i] = current[v]
          BY <5>1 DEF PlaceInv
        <5>3. i \in 1..Len(started')
          BY <3>3
        <5>4. QED
          BY <3>3, <5>1, <5>2, <5>3
      <4>3. QED
        BY <4>1, <4>2
    <3>5. \A u \in Tasks : (fate'[u] \in {"new", "dropped", "refused"})
             <=> (\A i \in 1..Len(accepted') : accepted'[i] # u)
      BY <3>1, <3>2 DEF PlaceInv, OnePlace
    <3>6. \A v \in Workers : current'[v] # NoTask => fate'[current'[v]] = "running"
      BY <3>1, <3>2 DEF PlaceInv, OnePlace
    <3>7. \A u, v \in Workers :
             current'[u] = current'[v] /\ current'[u] # NoTask => u = v
      BY <3>1, <3>2 DEF PlaceInv, OnePlace
    <3>8. QED
      BY <3>2, <3>4, <3>5, <3>6, <3>7 DEF PlaceInv, OnePlace
  <2>4. ASSUME NEW w \in Workers, RunTask(w)
        PROVE  PlaceInv'
    <3>1. current[w] \in Tasks /\ fate[current[w]] = "running"
      BY <2>4 DEF RunTask, PlaceInv, OnePlace
    <3>2. PICK outcome \in {"done", "crashed"} :
             fate' = [fate EXCEPT ![current[w]] = outcome]
      BY <2>4 DEF RunTask
    <3>3. /\ current' = [current EXCEPT ![w] = NoTask]
          /\ UNCHANGED <<accepted, started>>
      BY <2>4 DEF RunTask
    <3>4. \A u \in Tasks : (fate'[u] \in {"new", "dropped", "refused"})
             <=> (fate[u] \in {"new", "dropped", "refused"})
      BY <3>1, <3>2
    <3>5. \A v \in Workers : current'[v] # NoTask => fate'[current'[v]] = "running"
      BY <3>1, <3>2, <3>3 DEF PlaceInv, OnePlace
    <3>6. QED
      BY <3>3, <3>4, <3>5 DEF PlaceInv, OnePlace
  <2>5. CASE UNCHANGED <<current, fate, accepted, started>>
    BY <2>5 DEF PlaceInv, OnePlace
  <2>6. QED
    BY <2>1, <2>2, <2>3, <2>4, <2>5
       DEF PoolNext, Submit, WorkerStep, Return, StopClose, StopStep,
           StopCancel, StopReturn, poolVars
<1>3. QED
  BY <1>1, <1>2, PoolTypeCorrect, PoolFifoDelivery, PTL DEF PoolSpec

(* No task enters the channel twice, no task is run by two workers, and    *)
(* one that was dropped or refused is never run.                           *)
THEOREM PoolOnePlace == PoolSpec => []OnePlace
<1>1. PlaceInv => OnePlace
  BY DEF PlaceInv
<1>2. QED
  BY <1>1, PoolPlaceInv, PTL

(* Every accepted task is started once, in its turn, or still waits.       *)
THEOREM PoolDeliversInOrder == PoolSpec => []DeliveredInOrder
<1>1. FifoDelivery /\ OnePlace => DeliveredInOrder
  BY DEF DeliveredInOrder
<1>2. QED
  BY <1>1, PoolFifoDelivery, PoolOnePlace, PTL
-----------------------------------------------------------------------------
(* The process uses the pool as it is specified, so that what was proved   *)
(* of the pool is known of the process too.                                *)
LEMMA LifecycleUsesPool == Spec => PoolSpec
<1>1. Init => PoolInit
  BY DEF Init
<1>2. [Next]_vars => [PoolNext]_poolVars
  <2> SUFFICES ASSUME [Next]_vars
               PROVE  PoolNext \/ UNCHANGED poolVars
    BY DEF poolVars
  <2>1. ASSUME NEW r \in Requests, DeferLog(r) \/ DeferUsage(r)
        PROVE  PoolNext \/ UNCHANGED poolVars
    <3>1. <<r, "log">> \in Tasks /\ <<r, "usage">> \in Tasks
      BY LifecycleAssumption DEF TaskKinds
    <3>2. QED
      BY <2>1, <3>1 DEF DeferLog, DeferUsage, PoolNext
  <2>2. ASSUME NEW w \in Workers, RunWorker(w)
        PROVE  PoolNext
    BY <2>2 DEF RunWorker, PoolNext
  <2>3. CASE StopPool
    BY <2>3 DEF StopPool, PoolNext
  <2>4. CASE UNCHANGED poolVars
    BY <2>4
  <2>5. QED
    BY <2>1, <2>2, <2>3, <2>4
       DEF Next, Close, Arrive, Signal, ServeFails, Shutdown, ShutdownDone,
           ShutdownTimeout, CloseStore, Exit, vars
<1>3. QED
  BY <1>1, <1>2, PTL DEF Spec, PoolSpec, poolVars
(* The types that the proofs below need.                                   *)
SimpleTypes ==
    /\ taskChan \in Seq(Tasks)
    /\ alive \in SUBSET Workers
    /\ current \in [Workers -> Tasks \cup {NoTask}]
    /\ fate \in [Tasks -> Fates]
    /\ handler \in [Requests -> HandlerStates]
    /\ stores \in SUBSET Stores

(* The strengthening behind the two safety properties.  A task is run by a *)
(* live worker; Stop begins only in Close and returns only when no worker  *)
(* is left; a store is closed only after that; after a complete shutdown   *)
(* no handler is left to submit; a refused task means a closed channel.    *)
LifecycleInv ==
    /\ SimpleTypes
    /\ \A w \in Workers : current[w] # NoTask => w \in alive
    /\ stopCall = "returned" => alive = {}
    /\ stores # Stores => stopCall = "returned"
    /\ phase \in {"serving", "draining", "closing", "exited"}
    /\ phase \in {"serving", "draining"} => stopCall = "none" /\ ~drained
    /\ drained => inFlight = {}
    /\ \A t \in Tasks : fate[t] = "refused" => stopCall # "none" /\ ~drained

LEMMA LifecycleInvariant == Spec => []LifecycleInv
<1> USE LifecycleAssumption DEF LifecycleInv, SimpleTypes, inFlight, TaskKinds
<1>1. Init => LifecycleInv
  BY DEF Init, PoolInit, Fates, HandlerStates
<1>2. LifecycleInv /\ [Next]_vars => LifecycleInv'
  <2> SUFFICES ASSUME LifecycleInv, [Next]_vars
               PROVE  LifecycleInv'
    OBVIOUS
  <2>1. ASSUME NEW r \in Requests, Arrive(r)
        PROVE  LifecycleInv'
    BY <2>1 DEF Arrive, poolVars, HandlerStates
  <2>2. ASSUME NEW t \in Tasks, Submit(t), ~drained,
               UNCHANGED <<phase, drained, stores>>,
               handler' \in [Requests -> HandlerStates]
        PROVE  LifecycleInv'
    <3>1. Append(taskChan, t) \in Seq(Tasks)
      BY <2>2
    <3>2. CASE SubmitQueued(t)
      BY <2>2, <3>1, <3>2 DEF SubmitQueued, closed, Fates
    <3>3. CASE SubmitDropped(t)
      BY <2>2, <3>3 DEF SubmitDropped, Fates
    <3>4. CASE SubmitPanics(t)
      BY <2>2, <3>4 DEF SubmitPanics, closed, Fates
    <3>5. QED
      BY <2>2, <3>2, <3>3, <3>4 DEF Submit
  <2>3. ASSUME NEW r \in Requests, DeferLog(r)
        PROVE  LifecycleInv'
    <3>1. <<r, "log">> \in Tasks /\ ~drained
      BY <2>3 DEF DeferLog
    <3>2. QED
      BY <2>2, <2>3, <3>1 DEF DeferLog, HandlerStates
  <2>4. ASSUME NEW r \in Requests, DeferUsage(r)
        PROVE  LifecycleInv'
    <3>1. <<r, "usage">> \in Tasks /\ ~drained
      BY <2>4 DEF DeferUsage
    <3>2. CASE Submit(<<r, "usage">>)
      BY <2>2, <2>4, <3>1, <3>2 DEF DeferUsage, HandlerStates
    <3>3. CASE UNCHANGED poolVars
      BY <2>4, <3>3 DEF DeferUsage, HandlerStates, poolVars
    <3>4. QED
      BY <2>4, <3>2, <3>3 DEF DeferUsage
  <2>5. ASSUME NEW w \in Workers, RunWorker(w)
        PROVE  LifecycleInv'
    <3>1. CASE Take(w)
      <4>1. Head(taskChan) \in Tasks /\ Tail(taskChan) \in Seq(Tasks)
        BY <3>1 DEF Take
      <4>2. QED
        BY <2>5, <3>1, <4>1 DEF RunWorker, Take, idle, Fates
    <3>2. CASE RunTask(w)
      BY <2>5, <3>2 DEF RunWorker, RunTask, Fates
    <3>3. CASE Return(w)
      BY <2>5, <3>3 DEF RunWorker, Return, idle, ctxDone
    <3>4. QED
      BY <2>5, <3>1, <3>2, <3>3 DEF RunWorker, WorkerStep
  <2>6. CASE Signal \/ ServeFails \/ Shutdown
    BY <2>6 DEF Signal, ServeFails, Shutdown, ShutdownDone, ShutdownTimeout,
                poolVars
  <2>7. CASE StopPool
    BY <2>7 DEF StopPool, StopClose, StopStep, StopCancel,
                StopReturn
  <2>8. CASE \E s \in Stores : CloseStore(s)
    BY <2>8 DEF CloseStore, poolVars, Stores
  <2>9. CASE Exit
    BY <2>9 DEF Exit, poolVars
  <2>10. CASE UNCHANGED vars
    BY <2>10 DEF vars, poolVars
  <2>11. QED
    BY <2>1, <2>3, <2>4, <2>5, <2>6, <2>7, <2>8, <2>9, <2>10
       DEF Next, Close
<1>3. QED
  BY <1>1, <1>2, PTL DEF Spec

(* No background task runs once a store it writes to has been closed.      *)
THEOREM LifecycleTasksRunOnOpenStores == Spec => []TasksRunOnOpenStores
<1>1. LifecycleInv => TasksRunOnOpenStores
  BY DEF LifecycleInv, TasksRunOnOpenStores
<1>2. QED
  BY <1>1, LifecycleInvariant, PTL

(* The strengthening behind the third part of PanicsExplained: what a      *)
(* handler has not yet submitted is new, and a refused log task has found  *)
(* the channel closed before its request's token task was submitted.       *)
SubmitsInv ==
    \A r \in Requests :
        /\ handler[r] \in {"absent", "serving"} => fate[<<r, "log">>] = "new"
        /\ handler[r] # "returned" => fate[<<r, "usage">>] = "new"
        /\ fate[<<r, "log">>] = "refused"
              => stopCall # "none" /\ fate[<<r, "usage">>] \in {"new", "refused"}

LEMMA SubmitsInvariant == Spec => []SubmitsInv
<1> USE LifecycleAssumption DEF TaskKinds
<1>1. Init => SubmitsInv
  BY DEF Init, PoolInit, SubmitsInv
<1>2. /\ PoolTypeOK /\ FifoDelivery /\ PlaceInv /\ LifecycleInv
      /\ SubmitsInv /\ [Next]_vars
      => SubmitsInv'
  <2> SUFFICES ASSUME PoolTypeOK, FifoDelivery, PlaceInv, LifecycleInv,
                      SubmitsInv, [Next]_vars
               PROVE  SubmitsInv'
    OBVIOUS
  <2> USE DEF SubmitsInv, SimpleTypes
  <2>1. ASSUME NEW r \in Requests, Arrive(r)
        PROVE  SubmitsInv'
    BY <2>1 DEF Arrive, poolVars, LifecycleInv
  <2>2. ASSUME NEW r \in Requests, DeferLog(r)
        PROVE  SubmitsInv'
    <3>1. <<r, "log">> \in Tasks /\ handler[r] = "serving"
      BY <2>2 DEF DeferLog
    <3>2. handler' = [handler EXCEPT ![r] = "logged"] /\ stopCall' = stopCall
      BY <2>2 DEF DeferLog, Submit, SubmitQueued, SubmitDropped, SubmitPanics
    <3>3. PICK f \in {"queued", "dropped", "refused"} :
             /\ fate' = [fate EXCEPT ![<<r, "log">>] = f]
             /\ f = "refused" => stopCall # "none"
      BY <2>2 DEF DeferLog, Submit, SubmitQueued, SubmitDropped, SubmitPanics,
                  closed
    <3>4. \A q \in Requests : fate'[<<q, "usage">>] = fate[<<q, "usage">>]
      BY <3>3 DEF LifecycleInv
    <3>5. \A q \in Requests : q # r => fate'[<<q, "log">>] = fate[<<q, "log">>]
      BY <3>3 DEF LifecycleInv
    <3>6. fate'[<<r, "log">>] = f
      BY <3>1, <3>3 DEF LifecycleInv
    <3>7. handler'[r] = "logged" /\ \A q \in Requests \ {r} : handler'[q] = handler[q]
      BY <3>2 DEF LifecycleInv
    <3>8. QED
      BY <3>1, <3>2, <3>3, <3>4, <3>5, <3>6, <3>7
  <2>3. ASSUME NEW r \in Requests, DeferUsage(r)
        PROVE  SubmitsInv'
    <3>1. <<r, "usage">> \in Tasks
      OBVIOUS
    <3>2. handler' = [handler EXCEPT ![r] = "returned"] /\ stopCall' = stopCall
      BY <2>3 DEF DeferUsage, Submit, SubmitQueued, SubmitDropped, SubmitPanics,
                  poolVars
    <3>3. handler[r] = "logged"
      BY <2>3 DEF DeferUsage
    <3>4. handler'[r] = "returned" /\ \A q \in Requests \ {r} : handler'[q] = handler[q]
      BY <3>2 DEF LifecycleInv
    <3>5. CASE Submit(<<r, "usage">>)
      <4>1. PICK f \in {"queued", "dropped", "refused"} :
               /\ fate' = [fate EXCEPT ![<<r, "usage">>] = f]
               /\ stopCall # "none" => f = "refused"
        BY <3>5 DEF Submit, SubmitQueued, SubmitDropped, SubmitPanics, closed
      <4>2. \A q \in Requests : fate'[<<q, "log">>] = fate[<<q, "log">>]
        BY <4>1 DEF LifecycleInv
      <4>3. \A q \in Requests : q # r => fate'[<<q, "usage">>] = fate[<<q, "usage">>]
        BY <4>1 DEF LifecycleInv
      <4>4. fate'[<<r, "usage">>] = f
        BY <3>1, <4>1 DEF LifecycleInv
      <4>5. QED
        BY <3>2, <3>3, <3>4, <4>1, <4>2, <4>3, <4>4
    <3>6. CASE UNCHANGED poolVars
      BY <3>2, <3>3, <3>4, <3>6 DEF poolVars
    <3>7. QED
      BY <2>3, <3>5, <3>6 DEF DeferUsage
  <2>4. ASSUME NEW w \in Workers, RunWorker(w)
        PROVE  SubmitsInv'
    <3>1. UNCHANGED <<handler, stopCall>>
      BY <2>4 DEF RunWorker, WorkerStep, Take, RunTask, Return
    <3>2. \A t \in Tasks : \/ fate'[t] = fate[t]
                          \/ /\ fate[t] \notin {"new", "dropped", "refused"}
                             /\ fate'[t] \in {"running", "done", "crashed"}
      <4>1. CASE Take(w)
        <5>1. /\ Head(taskChan) \in Tasks
              /\ \E i \in 1..Len(accepted) : accepted[i] = Head(taskChan)
          BY <4>1, HeadIsFresh DEF Take
        <5>2. fate[Head(taskChan)] \notin {"new", "dropped", "refused"}
          <6> DEFINE h == Head(taskChan)
          <6>1. (fate[h] \in {"new", "dropped", "refused"})
                   <=> (\A i \in 1..Len(accepted) : accepted[i] # h)
            BY <5>1 DEF PlaceInv, OnePlace
          <6> HIDE DEF h
          <6>2. QED
            BY <5>1, <6>1 DEF h
        <5>3. QED
          BY <4>1, <5>1, <5>2 DEF Take, LifecycleInv
      <4>2. CASE RunTask(w)
        <5>1. fate[current[w]] = "running"
          BY <4>2 DEF RunTask, PlaceInv, OnePlace
        <5>2. QED
          BY <4>2, <5>1 DEF RunTask, LifecycleInv
      <4>3. CASE Return(w)
        BY <4>3 DEF Return
      <4>4. QED
        BY <2>4, <4>1, <4>2, <4>3 DEF RunWorker, WorkerStep
    <3>3. ASSUME NEW r \in Requests
          PROVE  /\ fate[<<r, "log">>] = "new" => fate'[<<r, "log">>] = "new"
                 /\ fate[<<r, "usage">>] \in {"new", "refused"}
                       => fate'[<<r, "usage">>] = fate[<<r, "usage">>]
                 /\ fate'[<<r, "log">>] = "refused" => fate[<<r, "log">>] = "refused"
      <4>1. <<r, "log">> \in Tasks /\ <<r, "usage">> \in Tasks
        OBVIOUS
      <4>2. QED
        BY <3>2, <4>1
    <3>4. ASSUME NEW r \in Requests
          PROVE  /\ handler'[r] \in {"absent", "serving"} => fate'[<<r, "log">>] = "new"
                 /\ handler'[r] # "returned" => fate'[<<r, "usage">>] = "new"
                 /\ fate'[<<r, "log">>] = "refused"
                       => stopCall' # "none" /\ fate'[<<r, "usage">>] \in {"new", "refused"}
      <4>1. handler'[r] = handler[r] /\ stopCall' = stopCall
        BY <3>1
      <4>2. QED
        BY <3>3, <4>1
    <3>5. QED
      BY <3>4
  <2>5. CASE StopPool
    BY <2>5 DEF StopPool, StopClose, StopStep, StopCancel, StopReturn
  <2>6. CASE UNCHANGED <<handler, stopCall, fate>>
    BY <2>6
  <2>7. QED
    BY <2>1, <2>2, <2>3, <2>4, <2>5, <2>6
       DEF Next, Close, Signal, ServeFails, Shutdown, ShutdownDone,
           ShutdownTimeout, CloseStore, Exit, vars, poolVars
<1>3. QED
  BY <1>1, <1>2, LifecycleUsesPool, LifecycleInvariant, PoolTypeCorrect,
     PoolFifoDelivery, PoolPlaceInv, PTL DEF Spec

(* Submit meets a closed channel only when Close runs with handlers left,  *)
(* and then does so for both tasks of a request.                           *)
THEOREM LifecyclePanicsExplained == Spec => []PanicsExplained
<1>1. LifecycleInv /\ SubmitsInv => PanicsExplained
  BY LifecycleAssumption
     DEF LifecycleInv, SubmitsInv, PanicsExplained, TaskKinds
<1>2. QED
  BY <1>1, LifecycleInvariant, SubmitsInvariant, PTL
-----------------------------------------------------------------------------
(* Every variable of an alert service keeps its type: what is pending in a *)
(* round is what its query has listed.                                     *)
THEOREM AlertTypeCorrect == AlertSpec => []AlertTypeOK
<1>1. AlertInit => AlertTypeOK
  BY AlertingAssumption DEF AlertInit, AlertTypeOK
<1>2. AlertTypeOK /\ [AlertNext]_alertVars => AlertTypeOK'
  <2> SUFFICES ASSUME AlertTypeOK, [AlertNext]_alertVars
               PROVE  AlertTypeOK'
    OBVIOUS
  <2> USE AlertingAssumption DEF AlertTypeOK, thisProcess
  <2>1. ASSUME NEW x \in Subjects, Change(x)
        PROVE  AlertTypeOK'
    BY <2>1 DEF Change
  <2>2. CASE Query \/ QueryFails
    BY <2>2 DEF Query, QueryFails, alertVars
  <2>3. ASSUME NEW x \in Subjects, Item(x)
        PROVE  AlertTypeOK'
    BY <2>3 DEF Item, ClearAlerted, Skip, Alert
  <2>4. CASE EndRound
    BY <2>4 DEF EndRound
  <2>5. CASE Restart
    BY <2>5, AlertingAssumption DEF Restart
  <2>6. CASE UNCHANGED alertVars
    BY <2>6 DEF alertVars
  <2>7. QED
    BY <2>1, <2>2, <2>3, <2>4, <2>5, <2>6 DEF AlertNext, Round
<1>3. QED
  BY <1>1, <1>2, PTL DEF AlertSpec

(* Between rounds nothing is pending, what this process has told is in the *)
(* map, and in a round what it has told is among the subjects the query    *)
(* found anomalous: a subject leaves the map only where the query has not  *)
(* found it, and the query forgets first that such a subject was told.     *)
AlertsInv ==
    /\ ticker \in {"idle", "round"}
    /\ ticker = "idle" => pending = {}
    /\ \A x \in Subjects :
          /\ told[x] <= thisProcess
          /\ told[x] = thisProcess => x \in alerted
          /\ told[x] = thisProcess /\ ticker = "round" => x \in seen

LEMMA AlertsInvariant == AlertSpec => []AlertsInv
<1>1. AlertInit => AlertsInv
  BY AlertingAssumption DEF AlertInit, AlertsInv, thisProcess
<1>2. AlertTypeOK /\ AlertsInv /\ [AlertNext]_alertVars => AlertsInv'
  <2> SUFFICES ASSUME AlertTypeOK, AlertsInv, [AlertNext]_alertVars
               PROVE  AlertsInv'
    OBVIOUS
  <2> USE AlertingAssumption DEF AlertsInv, AlertTypeOK, thisProcess
  <2>1. ASSUME NEW x \in Subjects, Change(x)
        PROVE  AlertsInv'
    BY <2>1 DEF Change
  <2>2. CASE Query
    BY <2>2 DEF Query
  <2>3. CASE QueryFails
    BY <2>3 DEF QueryFails, alertVars
  <2>4. ASSUME NEW x \in Subjects, ClearAlerted(x)
        PROVE  AlertsInv'
    BY <2>4 DEF ClearAlerted
  <2>5. ASSUME NEW x \in Subjects, Skip(x)
        PROVE  AlertsInv'
    BY <2>5 DEF Skip
  <2>6. ASSUME NEW x \in Subjects, Alert(x)
        PROVE  AlertsInv'
    BY <2>6 DEF Alert
  <2>7. CASE EndRound
    BY <2>7 DEF EndRound
  <2>8. CASE Restart
    BY <2>8 DEF Restart
  <2>9. CASE UNCHANGED alertVars
    BY <2>9 DEF alertVars
  <2>10. QED
    BY <2>1, <2>2, <2>3, <2>4, <2>5, <2>6, <2>7, <2>8, <2>9
       DEF AlertNext, Round, Item
<1>3. QED
  BY <1>1, <1>2, AlertTypeCorrect, PTL DEF AlertSpec

(* One process alerts about a subject once until it recovers, the first    *)
(* call of the webhook failed or not: whatever enters the map this process *)
(* has not told since a query last found the subject well.                 *)
THEOREM AlertsOnceUntilRecovered == AlertSpec => OnceUntilRecovered
<1>1. AlertTypeOK /\ AlertsInv /\ [AlertNext]_alertVars
      => [\A x \in Subjects :
             x \notin alerted /\ x \in alerted' => told[x] < thisProcess]_alertVars
  BY AlertingAssumption DEF AlertTypeOK, AlertsInv, thisProcess
<1>2. QED
  BY <1>1, AlertTypeCorrect, AlertsInvariant, PTL DEF AlertSpec, OnceUntilRecovered
=============================================================================
