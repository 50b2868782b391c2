---------------------------- MODULE ProviderRouting ----------------------------
(***************************************************************************)
(* How a proxy request picks provider keys and tries them: orderedKeys,    *)
(* buildProxyAttempts and the attempt loop of the chat, embeddings,        *)
(* messages and Gemini handlers (backend/internal/api/openai), together    *)
(* with the tracker of cooling keys they all share.                        *)
(*                                                                         *)
(* The loops are the same but for one condition: the embeddings loop does  *)
(* not ask whether the retry of the last key can help.  The strategies     *)
(* "fixed" and "failover" are the same code.  An upstream answer is what   *)
(* the loop distinguishes: a transport error, 401 or 403, 429, 5xx,        *)
(* another refusal, or a 2xx.                                              *)
(***************************************************************************)
EXTENDS Naturals, Sequences, FiniteSets

CONSTANTS Keys,
          Rank,        (* Rank[k]: the place of k by priority, weight and id *)
          Requests,
          Readers,     (* admin requests that list keys with their health    *)
          Strategies,  (* the route strategies the model is given            *)
          Endpoints,   (* "chat", which stands for messages and Gemini too,  *)
                       (* and "embeddings"                                   *)
          PinnedKeys,  (* the keys that debug requests name                  *)
          Answers,     (* the answers that upstreams give                    *)
          MaxTime

Refusals == {"unauthorized", "limited", "server"}
Failures == Refusals \cup {"error"}
Outcomes == Failures \cup {"rejected", "ok"}

ASSUME RoutingAssumption ==
    /\ IsFiniteSet(Keys)
    /\ Rank \in [Keys -> Nat]
    /\ \A j, k \in Keys : Rank[j] = Rank[k] => j = k
    /\ Endpoints \subseteq {"chat", "embeddings"}
    /\ PinnedKeys \subseteq Keys
    /\ Answers \subseteq Refusals \cup {"rejected", "ok"}
    /\ MaxTime \in Nat \ {0}

(* 10 seconds, 30 seconds and 10 minutes, in their order. *)
Cooldown == [error |-> 1, server |-> 1, limited |-> 2, unauthorized |-> 3]

VARIABLES
    now, entries, deleting,
    counter,   \* the round robin counter of the model
    plan,      \* strategy and endpoint of each request
    pc,        \* how far each request has got
    order,     \* orderedKeys before filtering
    asOf,      \* the time the filter compares with
    attempts,  \* the keys to try, as far as they are known
    pos,       \* the loop index: into order, then into attempts
    ctx,       \* the request's context, shared by all its attempts
    results    \* history: what came of each attempt, and when

tracker == <<now, entries, deleting>>
request == <<plan, order, asOf, attempts, pos, ctx, results>>
vars == <<tracker, counter, pc, request>>

Tracker == INSTANCE KeyHealth WITH Callers <- Requests \cup Readers, Durations <- 1 .. 3

Init ==
    /\ Tracker!Init
    /\ counter = 0
    /\ plan = [r \in Requests |-> [strategy |-> "none", endpoint |-> "none"]]
    /\ pc = [r \in Requests |-> "new"]
    /\ order = [r \in Requests |-> <<>>]
    /\ asOf = [r \in Requests |-> 0]
    /\ attempts = [r \in Requests |-> <<>>]
    /\ pos = [r \in Requests |-> 1]
    /\ ctx = [r \in Requests |-> "live"]
    /\ results = [r \in Requests |-> <<>>]
-----------------------------------------------------------------------------
(* ResolveModelRoute, orderedKeys up to the filter *)

(* Seeded bug: the counter is compared with a copy that is never advanced. *)
RotatedByNothing(keys) == keys

Rotated(keys) ==
    LET n == counter % Len(keys)
    IN  SubSeq(keys, n + 1, Len(keys)) \o SubSeq(keys, 1, n)

(* The one list of the active keys that is ordered by rank. *)
ActiveKeys(active) ==
    {s \in [1 .. Cardinality(active) -> active] :
        \A i, j \in 1 .. Cardinality(active) : i < j => Rank[s[i]] < Rank[s[j]]}

Start(r) ==
    /\ pc[r] = "new"
    /\ \E active \in (SUBSET Keys) \ {{}}, strategy \in Strategies, endpoint \in Endpoints :
       \E keys \in ActiveKeys(active) :
          LET turning == strategy = "round_robin"
          IN  /\ plan' = [plan EXCEPT ![r] = [strategy |-> strategy, endpoint |-> endpoint]]
              /\ order' = [order EXCEPT ![r] = IF turning THEN Rotated(keys) ELSE keys]
              /\ counter' = IF turning THEN counter + 1 ELSE counter
    /\ asOf' = [asOf EXCEPT ![r] = now]
    /\ pc' = [pc EXCEPT ![r] = "checking"]
    /\ UNCHANGED <<tracker, attempts, pos, ctx, results>>

(* The provider has no active key. *)
Unroutable(r) ==
    /\ pc[r] = "new"
    /\ pc' = [pc EXCEPT ![r] = "ended"]
    /\ UNCHANGED <<tracker, counter, request>>

(* buildProxyAttempts: the last key is tried a second time. *)
WithRetry(keys) == Append(keys, keys[Len(keys)])

(* A debug request names its key, and ignores the key's health. *)
StartPinned(r) ==
    /\ pc[r] = "new"
    /\ \E k \in PinnedKeys, endpoint \in Endpoints :
          /\ plan' = [plan EXCEPT ![r] = [strategy |-> "pinned", endpoint |-> endpoint]]
          /\ order' = [order EXCEPT ![r] = <<k>>]
          /\ attempts' = [attempts EXCEPT ![r] = WithRetry(<<k>>)]
    /\ pc' = [pc EXCEPT ![r] = "trying"]
    /\ UNCHANGED <<tracker, counter, asOf, pos, ctx, results>>
-----------------------------------------------------------------------------
(* The filter of orderedKeys *)

(* Seeded bug: the filter keeps every key. *)
CheckKeepsAll(r) ==
    /\ pc[r] = "checking"
    /\ pos[r] <= Len(order[r])
    /\ LET k == order[r][pos[r]]
       IN  /\ Tracker!Load(r, k, asOf[r])
           /\ attempts' = [attempts EXCEPT ![r] = Append(@, k)]
    /\ pos' = [pos EXCEPT ![r] = @ + 1]
    /\ UNCHANGED <<counter, pc, plan, order, asOf, ctx, results>>

Check(r) ==
    /\ pc[r] = "checking"
    /\ pos[r] <= Len(order[r])
    /\ LET k == order[r][pos[r]]
       IN  /\ Tracker!Load(r, k, asOf[r])
           /\ attempts' = [attempts EXCEPT ![r] =
                              IF Tracker!InForce(k, asOf[r]) THEN @ ELSE Append(@, k)]
    /\ pos' = [pos EXCEPT ![r] = @ + 1]
    /\ UNCHANGED <<counter, pc, plan, order, asOf, ctx, results>>

DropExpired(c) == Tracker!Delete(c) /\ UNCHANGED <<counter, pc, request>>

(* If every key is cooling, all are tried. *)
Build(r) ==
    /\ pc[r] = "checking"
    /\ pos[r] > Len(order[r])
    /\ deleting[r] = {}
    /\ attempts' = [attempts EXCEPT ![r] = WithRetry(IF @ = <<>> THEN order[r] ELSE @)]
    /\ pos' = [pos EXCEPT ![r] = 1]
    /\ pc' = [pc EXCEPT ![r] = "trying"]
    /\ UNCHANGED <<tracker, counter, plan, order, asOf, ctx, results>>
-----------------------------------------------------------------------------
(* The attempt loop *)

key(r) == attempts[r][pos[r]]

(* An expired context fails every further attempt before it is sent. *)
Possible(r) == {"error"} \cup (IF ctx[r] = "live" THEN Answers ELSE {})

(* Seeded bug: only what is worth a retry moves on to the next key. *)
GoesOnIfRetryable(r, outcome) ==
    pos[r] < Len(attempts[r]) /\ outcome \in {"error", "limited", "server"}

(* Seeded bug: a 401 is tried again on the last key, as for embeddings. *)
GoesOnAlways(r, outcome) ==
    pos[r] < Len(attempts[r]) /\ outcome \in Failures

(* The embeddings loop does not ask whether a retry may help. *)
RetriesAnything(r) == plan[r].endpoint = "embeddings"

GoesOn(r, outcome) ==
    /\ pos[r] < Len(attempts[r])
    /\ outcome \in Failures
    /\ \/ outcome # "unauthorized"
       \/ attempts[r][pos[r] + 1] # key(r)
       \/ RetriesAnything(r)

Record(r, outcome) ==
    results' = [results EXCEPT ![r] =
                   Append(@, [key |-> key(r), outcome |-> outcome, at |-> now])]

(* Seeded bug: the penalty goes to the key that is tried next. *)
TryNextPenalizesNext(r) ==
    /\ pc[r] = "trying"
    /\ \E outcome \in Possible(r) :
          /\ GoesOn(r, outcome)
          /\ Tracker!Penalize(attempts[r][pos[r] + 1], Cooldown[outcome])
          /\ Record(r, outcome)
    /\ pos' = [pos EXCEPT ![r] = @ + 1]
    /\ UNCHANGED <<counter, pc, plan, order, asOf, attempts, ctx>>

(* Seeded bug: a transport error is tried again in place, unpenalized. *)
TryNextInPlace(r) ==
    /\ pc[r] = "trying"
    /\ \E outcome \in Possible(r) :
          /\ GoesOn(r, outcome)
          /\ IF outcome = "error" THEN UNCHANGED <<tracker, pos, results>>
             ELSE /\ Tracker!Penalize(key(r), Cooldown[outcome])
                  /\ Record(r, outcome)
                  /\ pos' = [pos EXCEPT ![r] = @ + 1]
    /\ UNCHANGED <<counter, pc, plan, order, asOf, attempts, ctx>>

TryNext(r) ==
    /\ pc[r] = "trying"
    /\ \E outcome \in Possible(r) :
          /\ GoesOn(r, outcome)
          /\ Tracker!Penalize(key(r), Cooldown[outcome])
          /\ Record(r, outcome)
    /\ pos' = [pos EXCEPT ![r] = @ + 1]
    /\ UNCHANGED <<counter, pc, plan, order, asOf, attempts, ctx>>

(* The answer goes to the client: a 2xx clears the key's penalty, a        *)
(* transport error imposes one, and any other status imposes none.         *)
Answer(r) ==
    /\ pc[r] = "trying"
    /\ \E outcome \in Possible(r) :
          /\ ~GoesOn(r, outcome)
          /\ CASE outcome = "ok"    -> Tracker!Clear(key(r))
               [] outcome = "error" -> Tracker!Penalize(key(r), Cooldown[outcome])
               [] OTHER             -> UNCHANGED tracker
          /\ Record(r, outcome)
    /\ pc' = [pc EXCEPT ![r] = "ended"]
    /\ UNCHANGED <<counter, plan, order, asOf, attempts, pos, ctx>>

(* The client hangs up, or the model's timeout_seconds are over: the       *)
(* timeout is set once, before the loop.                                   *)
CtxDone(r) ==
    /\ pc[r] = "trying"
    /\ ctx[r] = "live"
    /\ ctx' = [ctx EXCEPT ![r] = "done"]
    /\ UNCHANGED <<tracker, counter, pc, plan, order, asOf, attempts, pos, results>>
-----------------------------------------------------------------------------
(* The admin pages: EnrichKeys calls Current for every key. *)
Enrich(a) ==
    /\ \E k \in Keys : Tracker!Load(a, k, now)
    /\ UNCHANGED <<counter, pc, request>>

Tick == Tracker!Tick /\ UNCHANGED <<counter, pc, request>>

Step(r) == Check(r) \/ DropExpired(r) \/ Build(r) \/ TryNext(r) \/ Answer(r)

Next ==
    \/ \E r \in Requests : Start(r) \/ Unroutable(r) \/ StartPinned(r) \/ CtxDone(r) \/ Step(r)
    \/ \E a \in Readers : Enrich(a) \/ DropExpired(a)
    \/ Tick

Spec == Init /\ [][Next]_vars

(* A handler keeps running, and an upstream call ends at the latest when   *)
(* its context does.                                                       *)
FairSpec == Spec /\ \A r \in Requests : WF_vars(Step(r))
-----------------------------------------------------------------------------
InSeq(s) == {s[i] : i \in 1 .. Len(s)}

Results == [key : Keys, outcome : Outcomes, at : Nat \ {0}]

TypeOK ==
    /\ now \in Nat \ {0}
    /\ entries \in [Keys -> Nat]
    /\ deleting \in [Requests \cup Readers -> SUBSET Keys]
    /\ counter \in Nat
    /\ plan \in [Requests -> [strategy : Strategies \cup {"none", "pinned"},
                              endpoint : Endpoints \cup {"none"}]]
    /\ pc \in [Requests -> {"new", "checking", "trying", "ended"}]
    /\ order \in [Requests -> Seq(Keys)]
    /\ asOf \in [Requests -> Nat]
    /\ attempts \in [Requests -> Seq(Keys)]
    /\ pos \in [Requests -> Nat \ {0}]
    /\ \A r \in Requests : pc[r] = "trying" => pos[r] <= Len(attempts[r])
    /\ ctx \in [Requests -> {"live", "done"}]
    /\ results \in [Requests -> Seq(Results)]

(* The client sees a failure only after every candidate key has failed for *)
(* this request: the loop never returns 401, 403, 429, 5xx or an upstream  *)
(* error while a key that might have worked is left untried.               *)
ExhaustsBeforeFailing ==
    \A r \in Requests :
        LET n == Len(results[r])
        IN  pc[r] = "ended" /\ n > 0 /\ results[r][n].outcome \in Failures
            => \A i \in 1 .. Len(attempts[r]) :
                  \E j \in 1 .. n : results[r][j].key = attempts[r][i]

(* No key is hammered: a request sends to each key once, except that the   *)
(* last one is sent to again, and, embeddings apart, only when what the    *)
(* first try met may pass by itself, never after a 401 or 403.             *)
RetriesOnlyWhatMayPass ==
    \A r \in Requests : \A j \in 1 .. Len(results[r]) : \A i \in 1 .. j - 1 :
        results[r][i].key = results[r][j].key =>
            /\ i = j - 1
            /\ j = Len(attempts[r])
            /\ plan[r].endpoint = "chat" => results[r][i].outcome # "unauthorized"

FailedUntil(k, t) ==
    \E s \in Requests : \E i \in 1 .. Len(results[s]) :
        LET failure == results[s][i]
        IN  failure.key = k /\ failure.outcome \in Failures
            /\ failure.at + Cooldown[failure.outcome] = t

(* A key is in the tracker because an attempt with that very key failed,   *)
(* and no longer than the cooldown of that failure, whoever interleaves.   *)
PenaltyIsEarned ==
    \A k \in Keys : entries[k] # 0 => FailedUntil(k, entries[k])

FailedSince(k, t) ==
    \E s \in Requests : \E i \in 1 .. Len(results[s]) :
        /\ results[s][i].key = k
        /\ results[s][i].outcome \in Failures
        /\ results[s][i].at >= t

(* Every key that r found had a failure that was cooling when r looked.    *)
AllCooling(r) ==
    \A k \in InSeq(order[r]) : \E t \in asOf[r] + 1 .. MaxTime + 3 : FailedUntil(k, t)

(* A request passes a key over only because another request's failure with *)
(* it was still cooling when this request looked.                          *)
PassedOverForCause ==
    \A r \in Requests : pc[r] \in {"trying", "ended"} =>
        \A k \in InSeq(order[r]) \ InSeq(attempts[r]) :
            \E t \in asOf[r] + 1 .. MaxTime + 3 : FailedUntil(k, t)

(* The other way round: what a request has chosen was not cooling when it  *)
(* began to look, although the keys are looked up one by one while others  *)
(* penalize and pardon them.  A chosen key that cools has failed since, or *)
(* all keys were cooling, or an operator pinned the key.                   *)
ChosenWereFree ==
    \A r \in Requests : pc[r] = "trying" =>
        \/ plan[r].strategy = "pinned"
        \/ AllCooling(r)
        \/ \A k \in InSeq(attempts[r]) : entries[k] <= asOf[r] \/ FailedSince(k, asOf[r])

(* What excuses a request's pardon, when it makes one. *)
Justified ==
    \A r \in Requests :
        LET k == key(r)
            pardons == /\ pc[r] = "trying" /\ pc'[r] = "ended"
                       /\ Tracker!InForce(k, now) /\ ~Tracker!InForce(k, now)'
        IN  pardons =>
              \/ plan[r].strategy = "pinned"
              \/ FailedSince(k, asOf[r])
              \/ AllCooling(r)

(* A success clears its key's penalty although other requests rely on it.  *)
(* That happens only to a penalty imposed after this request had chosen    *)
(* its keys, or when every key was cooling and all were tried, or to a key *)
(* an operator pinned: a request that could avoid a cooling key never ends *)
(* that key's cooldown.                                                    *)
PardonExplained == [][Justified]_vars

(* Round robin spreads concurrent requests: as long as the counter has not *)
(* come round, two requests with the same active keys prefer different     *)
(* keys.                                                                   *)
RotationSpreads ==
    \A r, s \in Requests :
        /\ r # s
        /\ plan[r].strategy = "round_robin" /\ plan[s].strategy = "round_robin"
        /\ InSeq(order[r]) = InSeq(order[s])
        /\ counter <= Len(order[r])
        => order[r][1] # order[s][1]

(* Every routed request is answered, however the keys fail.                *)
RequestsEnd == \A r \in Requests : pc[r] = "checking" ~> pc[r] = "ended"
-----------------------------------------------------------------------------
(* What the documentation says. *)

(* "Upstream 429: 30 seconds cooldown": reading a key's health removes     *)
(* entries that have run out, never one in force.                          *)
ReadingKeepsCooldowns ==
    [][\A c \in Requests \cup Readers : deleting[c] # {} /\ deleting'[c] = {}
          => \A k \in deleting[c] : ~Tracker!InForce(k, now)]_vars
=============================================================================
