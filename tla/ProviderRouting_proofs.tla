------------------------- MODULE ProviderRouting_proofs -------------------------
(***************************************************************************)
(* Proofs about ProviderRouting, for any number of keys, requests and      *)
(* admin pages.                                                            *)
(***************************************************************************)
EXTENDS ProviderRouting, DataLemmas

(* Beside the types: what each phase knows of a request's keys.            *)
PhaseOf(r) ==
    /\ asOf[r] <= now
    /\ pc[r] = "new" => /\ attempts[r] = <<>> /\ order[r] = <<>>
                        /\ results[r] = <<>> /\ pos[r] = 1
    /\ pc[r] = "checking" => /\ asOf[r] > 0
                             /\ order[r] # <<>>
                             /\ pos[r] <= Len(order[r]) + 1
    /\ pc[r] = "trying" => pos[r] <= Len(attempts[r])
    /\ \A i \in 1 .. Len(results[r]) : results[r][i].at <= now

TrackerTypes ==
    /\ now \in Nat \ {0} /\ now <= MaxTime
    /\ entries \in [Keys -> 0 .. MaxTime + 3]
    /\ deleting \in [Requests \cup Readers -> SUBSET Keys]

RequestTypes ==
    /\ counter \in Nat
    /\ plan \in [Requests -> [strategy : Strategies \cup {"none", "pinned"},
                              endpoint : Endpoints \cup {"none"}]]
    /\ pc \in [Requests -> {"new", "checking", "trying", "ended"}]
    /\ order \in [Requests -> Seq(Keys)]
    /\ asOf \in [Requests -> Nat]
    /\ attempts \in [Requests -> Seq(Keys)]
    /\ pos \in [Requests -> Nat \ {0}]
    /\ ctx \in [Requests -> {"live", "done"}]
    /\ results \in [Requests -> Seq(Results)]

TypeInv == TrackerTypes /\ RequestTypes /\ \A r \in Requests : PhaseOf(r)

LEMMA ConstantFacts ==
    /\ MaxTime \in Nat \ {0} /\ IsFiniteSet(Keys) /\ PinnedKeys \subseteq Keys
    /\ Answers \subseteq Outcomes
  BY RoutingAssumption DEF Outcomes, Failures

LEMMA Types == TypeInv => TypeOK
  <1>1. MaxTime \in Nat
    BY ConstantFacts
  <1>2. TypeInv => entries \in [Keys -> Nat]
    BY <1>1 DEF TypeInv, TrackerTypes
  <1>3. QED
    BY <1>2 DEF TypeInv, TypeOK, TrackerTypes, RequestTypes, PhaseOf

LEMMA CooldownFacts == ASSUME NEW o \in Failures PROVE Cooldown[o] \in 1 .. 3
  BY DEF Failures, Refusals, Cooldown

(* A list of active keys is not empty and names each key once; so does its *)
(* rotation.                                                               *)
Distinct(s) == \A i, j \in 1 .. Len(s) : s[i] = s[j] => i = j

Ranked(keys) == \A i, j \in 1 .. Len(keys) : i < j => Rank[keys[i]] < Rank[keys[j]]

LEMMA ActiveKeysFacts ==
    ASSUME NEW active \in (SUBSET Keys) \ {{}}, NEW keys \in ActiveKeys(active)
    PROVE  /\ keys \in Seq(Keys) /\ Len(keys) \in Nat \ {0}
           /\ Distinct(keys) /\ Ranked(keys)
  <1>1. active \subseteq Keys /\ active # {}
    OBVIOUS
  <1>2. Cardinality(active) \in Nat /\ Cardinality(active) # 0
    <2>1. IsFiniteSet(active)
      BY <1>1, ConstantFacts, FS_Subset
    <2>2. QED
      BY <1>1, <2>1, FS_CardinalityType, FS_EmptySet
  <1>3. PICK n \in Nat : n = Cardinality(active)
    BY <1>2
  <1>4. /\ keys \in [1 .. n -> active]
        /\ \A i, j \in 1 .. n : i < j => Rank[keys[i]] < Rank[keys[j]]
    BY <1>3 DEF ActiveKeys
  <1>5. keys \in [1 .. n -> Keys]
    BY <1>1, <1>4
  <1>6. keys \in Seq(Keys) /\ Len(keys) = n /\ n # 0
    BY <1>2, <1>3, <1>5
  <1>7. ASSUME NEW i \in 1 .. n, NEW j \in 1 .. n, keys[i] = keys[j]
        PROVE  i = j
    <2>1. Rank[keys[i]] \in Nat
      BY <1>5, RoutingAssumption
    <2>2. ~(i < j) /\ ~(j < i)
      BY <1>4, <1>7, <2>1
    <2>3. QED
      BY <2>2
  <1>8. QED
    BY <1>4, <1>6, <1>7 DEF Distinct, Ranked

LEMMA ModFacts ==
    ASSUME NEW n \in Nat, NEW d \in Nat \ {0}
    PROVE  n % d \in 0 .. d - 1
  BY SMTT(30)

LEMMA ConcatFacts ==
    ASSUME NEW f \in Seq(Keys), NEW b \in Seq(Keys)
    PROVE  /\ f \o b \in Seq(Keys) /\ Len(f \o b) = Len(f) + Len(b)
           /\ \A i \in 1 .. Len(f) : (f \o b)[i] = f[i]
           /\ \A i \in Len(f) + 1 .. Len(f) + Len(b) : (f \o b)[i] = b[i - Len(f)]
  OBVIOUS

LEMMA RotatedFacts ==
    ASSUME counter \in Nat, NEW keys \in Seq(Keys), Len(keys) # 0, Distinct(keys)
    PROVE  /\ Rotated(keys) \in Seq(Keys) /\ Len(Rotated(keys)) = Len(keys)
           /\ Distinct(Rotated(keys))
           /\ LET n == counter % Len(keys)
                  m == Len(keys) - n
              IN  /\ n \in 0 .. Len(keys) - 1
                  /\ \A i \in 1 .. m : Rotated(keys)[i] = keys[i + n]
                  /\ \A i \in m + 1 .. Len(keys) : Rotated(keys)[i] = keys[i - m]
  <1>1. PICK len \in Nat \ {0} : len = Len(keys)
    OBVIOUS
  <1>2. PICK n \in 0 .. len - 1 : n = counter % len
    BY ModFacts
  <1>3. /\ SubSeq(keys, n + 1, len) \in Seq(Keys)
        /\ Len(SubSeq(keys, n + 1, len)) = len - n
        /\ \A i \in 1 .. len - n : SubSeq(keys, n + 1, len)[i] = keys[i + n]
    BY <1>1
  <1>4. /\ SubSeq(keys, 1, n) \in Seq(Keys) /\ Len(SubSeq(keys, 1, n)) = n
        /\ \A i \in 1 .. n : SubSeq(keys, 1, n)[i] = keys[i]
    BY <1>1
  <1>5. PICK front : front = SubSeq(keys, n + 1, len)
    OBVIOUS
  <1>6. PICK back : back = SubSeq(keys, 1, n)
    OBVIOUS
  <1>7. PICK rotated : rotated = Rotated(keys)
    OBVIOUS
  <1>8. rotated = front \o back
    BY <1>1, <1>2, <1>5, <1>6, <1>7 DEF Rotated
  <1>9. /\ front \in Seq(Keys) /\ Len(front) = len - n
        /\ \A i \in 1 .. len - n : front[i] = keys[i + n]
    BY <1>3, <1>5
  <1>10. /\ back \in Seq(Keys) /\ Len(back) = n
         /\ \A i \in 1 .. n : back[i] = keys[i]
    BY <1>4, <1>6
  <1>11. rotated \in Seq(Keys) /\ Len(rotated) = len
    <2>1. rotated \in Seq(Keys) /\ Len(rotated) = Len(front) + Len(back)
      BY <1>8, <1>9, <1>10, ConcatFacts
    <2>2. QED
      BY <1>9, <1>10, <2>1
  <1>12. \A i \in 1 .. len - n : rotated[i] = keys[i + n]
    BY <1>8, <1>9, <1>10, ConcatFacts
  <1>13. \A i \in len - n + 1 .. len : rotated[i] = keys[i - (len - n)]
    <2>1. \A i \in Len(front) + 1 .. Len(front) + Len(back) : rotated[i] = back[i - Len(front)]
      BY <1>8, <1>9, <1>10, ConcatFacts
    <2>2. \A i \in len - n + 1 .. len : rotated[i] = back[i - (len - n)]
      BY <1>9, <1>10, <2>1
    <2>3. \A i \in len - n + 1 .. len : i - (len - n) \in 1 .. n
      OBVIOUS
    <2>4. QED
      BY <1>10, <2>2, <2>3
  <1>14. \A i, j \in 1 .. len : keys[i] = keys[j] => i = j
    BY <1>1 DEF Distinct
  <1>15. ASSUME NEW i \in 1 .. len, NEW j \in 1 .. len, rotated[i] = rotated[j]
         PROVE  i = j
    <2>1. CASE i <= len - n /\ j <= len - n
      BY <1>12, <1>14, <1>15, <2>1
    <2>2. CASE i <= len - n /\ j > len - n
      BY <1>12, <1>13, <1>14, <1>15, <2>2
    <2>3. CASE i > len - n /\ j <= len - n
      BY <1>12, <1>13, <1>14, <1>15, <2>3
    <2>4. CASE i > len - n /\ j > len - n
      <3>1. keys[i - (len - n)] = keys[j - (len - n)]
        BY <1>13, <1>15, <2>4
      <3>2. i - (len - n) \in 1 .. len /\ j - (len - n) \in 1 .. len
        BY <2>4
      <3>3. i - (len - n) = j - (len - n)
        BY <1>14, <3>1, <3>2
      <3>4. QED
        BY <3>3
    <2>5. QED
      BY <2>1, <2>2, <2>3, <2>4
  <1>16. QED
    BY <1>1, <1>2, <1>7, <1>11, <1>12, <1>13, <1>15 DEF Distinct
-----------------------------------------------------------------------------
(* What a step does to the tracker, and to the clock and the penalties.    *)

LEMMA KeyType ==
    ASSUME TypeOK, NEW r \in Requests, pc[r] = "trying"
    PROVE  pos[r] \in 1 .. Len(attempts[r]) /\ key(r) \in Keys
  <1>1. attempts[r] \in Seq(Keys) /\ pos[r] \in Nat \ {0} /\ pos[r] <= Len(attempts[r])
    BY DEF TypeOK
  <1>2. QED
    BY <1>1 DEF key

LEMMA PossibleFacts ==
    ASSUME NEW r \in Requests, NEW outcome \in Possible(r)
    PROVE  outcome \in Outcomes
  BY ConstantFacts DEF Possible, Outcomes, Failures

LEMMA TrackerStep == TypeInv /\ [Next]_vars => [Tracker!Next]_tracker
  <1> SUFFICES ASSUME TypeInv, [Next]_vars PROVE [Tracker!Next]_tracker
    OBVIOUS
  <1>1. ASSUME NEW r \in Requests, Check(r) PROVE Tracker!Next
    <2>1. PICK k : k = order[r][pos[r]]
      OBVIOUS
    <2>2. pos[r] \in 1 .. Len(order[r]) /\ order[r] \in Seq(Keys) /\ asOf[r] \in 1 .. now
      BY <1>1 DEF Check, TypeInv, TrackerTypes, RequestTypes, PhaseOf
    <2>3. k \in Keys
      BY <2>1, <2>2
    <2>4. Tracker!Load(r, k, asOf[r])
      BY <1>1, <2>1 DEF Check
    <2>5. QED
      BY <2>2, <2>3, <2>4 DEF Tracker!Next
  <1>2. ASSUME NEW r \in Requests, TryNext(r) PROVE Tracker!Next
    <2>1. PICK outcome \in Failures : Tracker!Penalize(key(r), Cooldown[outcome])
      BY <1>2 DEF TryNext, GoesOn
    <2>2. QED
      BY <1>2, <2>1, KeyType, CooldownFacts, Types DEF TryNext, Tracker!Next
  <1>3. ASSUME NEW r \in Requests, Answer(r) PROVE [Tracker!Next]_tracker
    <2>1. key(r) \in Keys
      BY <1>3, KeyType, Types DEF Answer
    <2>2. Cooldown["error"] \in 1 .. 3
      BY CooldownFacts DEF Failures
    <2>3. \/ Tracker!Clear(key(r)) \/ Tracker!Penalize(key(r), Cooldown["error"])
          \/ UNCHANGED tracker
      BY <1>3 DEF Answer
    <2>4. QED
      BY <2>1, <2>2, <2>3 DEF Tracker!Next
  <1>4. ASSUME NEW c \in Requests \cup Readers, DropExpired(c) PROVE Tracker!Next
    BY <1>4 DEF DropExpired, Tracker!Next
  <1>5. ASSUME NEW a \in Readers, Enrich(a) PROVE Tracker!Next
    <2>1. now \in 1 .. now
      BY DEF TypeInv, TrackerTypes
    <2>2. QED
      BY <1>5, <2>1 DEF Enrich, Tracker!Next
  <1>6. CASE Tick
    BY <1>6 DEF Tick, Tracker!Next
  <1>7. ASSUME NEW r \in Requests,
               Start(r) \/ Unroutable(r) \/ StartPinned(r) \/ CtxDone(r) \/ Build(r)
        PROVE  UNCHANGED tracker
    BY <1>7 DEF Start, Unroutable, StartPinned, CtxDone, Build
  <1>8. CASE UNCHANGED vars
    BY <1>8 DEF vars, tracker
  <1>9. QED
    BY <1>1, <1>2, <1>3, <1>4, <1>5, <1>6, <1>7, <1>8 DEF Next, Step

LEMMA TrackerKeepsTypes ==
    ASSUME TrackerTypes, [Tracker!Next]_tracker
    PROVE  TrackerTypes' /\ now <= now'
  <1>1. MaxTime \in Nat /\ now \in Nat \ {0}
    BY ConstantFacts DEF TrackerTypes
  <1>2. ASSUME NEW c \in Requests \cup Readers, NEW k \in Keys, NEW t \in 1 .. now,
               Tracker!Load(c, k, t)
        PROVE  TrackerTypes' /\ now <= now'
    BY <1>1, <1>2 DEF Tracker!Load, TrackerTypes
  <1>3. ASSUME NEW c \in Requests \cup Readers, Tracker!Delete(c)
        PROVE  TrackerTypes' /\ now <= now'
    BY <1>1, <1>3 DEF Tracker!Delete, Tracker!NoEntry, TrackerTypes
  <1>4. ASSUME NEW k \in Keys, Tracker!Clear(k) PROVE TrackerTypes' /\ now <= now'
    BY <1>1, <1>4 DEF Tracker!Clear, Tracker!NoEntry, TrackerTypes
  <1>5. ASSUME NEW k \in Keys, NEW d \in 1 .. 3, Tracker!Penalize(k, d)
        PROVE  TrackerTypes' /\ now <= now'
    BY <1>1, <1>5 DEF Tracker!Penalize, TrackerTypes
  <1>6. CASE Tracker!Tick
    BY <1>1, <1>6 DEF Tracker!Tick, TrackerTypes
  <1>7. CASE UNCHANGED tracker
    BY <1>1, <1>7 DEF tracker, TrackerTypes
  <1>8. QED
    BY <1>2, <1>3, <1>4, <1>5, <1>6, <1>7 DEF Tracker!Next

(* The lists that Start and StartPinned begin with. *)
LEMMA StartFacts ==
    ASSUME TypeOK, NEW r \in Requests, Start(r)
    PROVE  /\ \E keys \in Seq(Keys) : /\ order' = [order EXCEPT ![r] = keys]
                                      /\ Len(keys) # 0 /\ Distinct(keys)
           /\ \E p \in [strategy : Strategies \cup {"none", "pinned"},
                        endpoint : Endpoints \cup {"none"}] : plan' = [plan EXCEPT ![r] = p]
           /\ counter' \in Nat
  <1>1. PICK active \in (SUBSET Keys) \ {{}}, strategy \in Strategies, endpoint \in Endpoints :
           \E keys \in ActiveKeys(active) :
             /\ plan' = [plan EXCEPT ![r] = [strategy |-> strategy, endpoint |-> endpoint]]
             /\ order' = [order EXCEPT ![r] =
                             IF strategy = "round_robin" THEN Rotated(keys) ELSE keys]
             /\ counter' = IF strategy = "round_robin" THEN counter + 1 ELSE counter
    BY DEF Start
  <1>2. PICK keys \in ActiveKeys(active) :
             /\ plan' = [plan EXCEPT ![r] = [strategy |-> strategy, endpoint |-> endpoint]]
             /\ order' = [order EXCEPT ![r] =
                             IF strategy = "round_robin" THEN Rotated(keys) ELSE keys]
             /\ counter' = IF strategy = "round_robin" THEN counter + 1 ELSE counter
    BY <1>1
  <1>3. counter \in Nat
    BY DEF TypeOK
  <1>4. keys \in Seq(Keys) /\ Len(keys) # 0 /\ Distinct(keys)
    BY ActiveKeysFacts
  <1>5. Rotated(keys) \in Seq(Keys) /\ Len(Rotated(keys)) # 0 /\ Distinct(Rotated(keys))
    BY <1>3, <1>4, RotatedFacts
  <1>6. [strategy |-> strategy, endpoint |-> endpoint]
           \in [strategy : Strategies \cup {"none", "pinned"}, endpoint : Endpoints \cup {"none"}]
    OBVIOUS
  <1>7. \E list \in Seq(Keys) : /\ order' = [order EXCEPT ![r] = list]
                                /\ Len(list) # 0 /\ Distinct(list)
    <2>1. CASE strategy = "round_robin"
      BY <1>2, <1>5, <2>1
    <2>2. CASE strategy # "round_robin"
      BY <1>2, <1>4, <2>2
    <2>3. QED
      BY <2>1, <2>2
  <1>8. \E p \in [strategy : Strategies \cup {"none", "pinned"}, endpoint : Endpoints \cup {"none"}] :
           plan' = [plan EXCEPT ![r] = p]
    BY <1>2, <1>6
  <1>9. counter' \in Nat
    BY <1>2, <1>3
  <1>10. QED
    BY <1>7, <1>8, <1>9

(* WithRetry: the last key twice. *)
LEMMA WithRetryFacts ==
    ASSUME NEW keys \in Seq(Keys), Len(keys) # 0
    PROVE  /\ WithRetry(keys) \in Seq(Keys) /\ Len(WithRetry(keys)) = Len(keys) + 1
           /\ \A i \in 1 .. Len(keys) : WithRetry(keys)[i] = keys[i]
           /\ WithRetry(keys)[Len(keys) + 1] = keys[Len(keys)]
  <1>1. keys[Len(keys)] \in Keys
    OBVIOUS
  <1>2. QED
    BY <1>1 DEF WithRetry

LEMMA AttemptFacts ==
    ASSUME TypeOK, NEW r \in Requests, TryNext(r) \/ Answer(r)
    PROVE  \E outcome \in Outcomes :
              /\ results' = [results EXCEPT ![r] =
                    Append(@, [key |-> key(r), outcome |-> outcome, at |-> now])]
              /\ [key |-> key(r), outcome |-> outcome, at |-> now] \in Results
              /\ IF TryNext(r) THEN GoesOn(r, outcome) ELSE ~GoesOn(r, outcome)
  <1>1. key(r) \in Keys /\ now \in Nat \ {0}
    BY KeyType DEF TryNext, Answer, TypeOK
  <1>2. ASSUME NEW outcome \in Outcomes
        PROVE  [key |-> key(r), outcome |-> outcome, at |-> now] \in Results
    BY <1>1 DEF Results
  <1>3. CASE TryNext(r)
    <2>1. PICK outcome \in Possible(r) : GoesOn(r, outcome) /\ Record(r, outcome)
      BY <1>3 DEF TryNext
    <2>2. QED
      BY <1>2, <1>3, <2>1, PossibleFacts DEF Record
  <1>4. CASE ~TryNext(r)
    <2>1. PICK outcome \in Possible(r) : ~GoesOn(r, outcome) /\ Record(r, outcome)
      BY <1>4 DEF Answer
    <2>2. QED
      BY <1>2, <1>4, <2>1, PossibleFacts DEF Record
  <1>5. QED
    BY <1>3, <1>4

(* A step is of one request, or of none. *)
Kept(s) ==
    /\ pc'[s] = pc[s] /\ plan'[s] = plan[s] /\ order'[s] = order[s] /\ asOf'[s] = asOf[s]
    /\ attempts'[s] = attempts[s] /\ pos'[s] = pos[s] /\ results'[s] = results[s]

LEMMA OthersKept ==
    ASSUME TypeOK, NEW r \in Requests, NEW s \in Requests \ {r},
           Start(r) \/ Unroutable(r) \/ StartPinned(r) \/ CtxDone(r) \/ Step(r)
    PROVE  Kept(s)
  <1>1. CASE Start(r)
    BY <1>1 DEF Start, Kept, TypeOK
  <1>2. CASE Unroutable(r)
    BY <1>2 DEF Unroutable, request, Kept, TypeOK
  <1>3. CASE StartPinned(r)
    BY <1>3 DEF StartPinned, Kept, TypeOK
  <1>4. CASE CtxDone(r)
    BY <1>4 DEF CtxDone, Kept, TypeOK
  <1>5. CASE Check(r)
    BY <1>5 DEF Check, Kept, TypeOK
  <1>6. CASE DropExpired(r)
    BY <1>6 DEF DropExpired, request, Kept
  <1>7. CASE Build(r)
    BY <1>7 DEF Build, Kept, TypeOK
  <1>8. CASE TryNext(r)
    BY <1>8 DEF TryNext, Record, Kept, TypeOK
  <1>9. CASE Answer(r)
    BY <1>9 DEF Answer, Record, Kept, TypeOK
  <1>10. QED
    BY <1>1, <1>2, <1>3, <1>4, <1>5, <1>6, <1>7, <1>8, <1>9 DEF Step

Idle == UNCHANGED <<pc, counter, request>>

LEMMA IdleSteps ==
    ASSUME [Next]_vars
    PROVE  \/ \E r \in Requests : \/ Start(r) \/ Unroutable(r) \/ StartPinned(r) \/ CtxDone(r)
                                  \/ Check(r) \/ Build(r) \/ TryNext(r) \/ Answer(r)
           \/ Idle
  <1>1. ASSUME NEW c \in Requests \cup Readers, DropExpired(c) PROVE Idle
    BY <1>1 DEF DropExpired, Idle
  <1>2. ASSUME NEW a \in Readers, Enrich(a) PROVE Idle
    BY <1>2 DEF Enrich, Idle
  <1>3. ASSUME Tick \/ UNCHANGED vars PROVE Idle
    BY <1>3 DEF Tick, vars, Idle
  <1>4. QED
    BY <1>1, <1>2, <1>3 DEF Next, Step

LEMMA IdleKeeps == ASSUME Idle, NEW s \in Requests PROVE Kept(s)
  BY DEF Idle, request, Kept

LEMMA PhaseKept ==
    ASSUME TypeInv, NEW s \in Requests, Kept(s), now' \in Nat, now <= now'
    PROVE  PhaseOf(s)'
  <1>1. /\ PhaseOf(s) /\ now \in Nat /\ asOf[s] \in Nat
        /\ \A i \in 1 .. Len(results[s]) : results[s][i].at \in Nat
    <2>1. results[s] \in Seq(Results)
      BY DEF TypeInv, RequestTypes
    <2>2. \A i \in 1 .. Len(results[s]) : results[s][i] \in Results
      BY <2>1
    <2>3. QED
      BY <2>2 DEF TypeInv, TrackerTypes, RequestTypes, Results
  <1>2. \A i \in 1 .. Len(results[s]) : results[s][i].at <= now'
    BY <1>1 DEF PhaseOf
  <1>3. asOf[s] <= now'
    BY <1>1 DEF PhaseOf
  <1>4. QED
    BY <1>1, <1>2, <1>3 DEF PhaseOf, Kept

LEMMA TypesKept ==
    ASSUME TypeInv, NEW r \in Requests, now' \in Nat, now <= now',
           \/ Start(r) \/ Unroutable(r) \/ StartPinned(r) \/ CtxDone(r)
           \/ Check(r) \/ Build(r) \/ TryNext(r) \/ Answer(r)
    PROVE  RequestTypes' /\ PhaseOf(r)'
  <1>1. RequestTypes /\ PhaseOf(r) /\ now \in Nat \ {0} /\ TypeOK
    BY Types DEF TypeInv, TrackerTypes
  <1>2. CASE Start(r)
    <2>1. PICK keys \in Seq(Keys) : order' = [order EXCEPT ![r] = keys] /\ Len(keys) # 0
      BY <1>1, <1>2, StartFacts
    <2>2. /\ plan' \in [Requests -> [strategy : Strategies \cup {"none", "pinned"},
                                     endpoint : Endpoints \cup {"none"}]]
          /\ counter' \in Nat
      BY <1>1, <1>2, StartFacts DEF RequestTypes
    <2>3. RequestTypes'
      BY <1>1, <1>2, <2>1, <2>2 DEF Start, RequestTypes
    <2>4. /\ order'[r] = keys /\ keys # <<>> /\ asOf'[r] = now /\ now' = now
          /\ pos'[r] = 1 /\ pc'[r] = "checking" /\ results'[r] = <<>>
      BY <1>1, <1>2, <2>1 DEF Start, RequestTypes, PhaseOf, tracker
    <2>5. QED
      BY <1>1, <2>3, <2>4 DEF PhaseOf
  <1>3. CASE Unroutable(r)
    BY <1>1, <1>3 DEF Unroutable, tracker, request, RequestTypes, PhaseOf
  <1>4. CASE StartPinned(r)
    <2>1. PICK k \in PinnedKeys, endpoint \in Endpoints :
             /\ plan' = [plan EXCEPT ![r] = [strategy |-> "pinned", endpoint |-> endpoint]]
             /\ order' = [order EXCEPT ![r] = <<k>>]
             /\ attempts' = [attempts EXCEPT ![r] = WithRetry(<<k>>)]
      BY <1>4 DEF StartPinned
    <2>2. k \in Keys /\ <<k>> \in Seq(Keys) /\ Len(<<k>>) = 1
      BY ConstantFacts
    <2>3. WithRetry(<<k>>) \in Seq(Keys) /\ Len(WithRetry(<<k>>)) = 2
      <3>1. PICK list \in Seq(Keys) : list = <<k>> /\ Len(list) = 1
        BY <2>2
      <3>2. WithRetry(list) \in Seq(Keys) /\ Len(WithRetry(list)) = Len(list) + 1
        <4>1. Len(list) # 0
          BY <3>1
        <4>2. QED
          BY <4>1, WithRetryFacts
      <3>3. QED
        BY <3>1, <3>2
    <2>4. RequestTypes'
      BY <1>1, <1>4, <2>1, <2>2, <2>3 DEF StartPinned, RequestTypes
    <2>5. /\ attempts'[r] = WithRetry(<<k>>) /\ asOf'[r] = asOf[r] /\ now' = now
          /\ pos'[r] = 1 /\ pc'[r] = "trying" /\ results'[r] = <<>>
      BY <1>1, <1>4, <2>1 DEF StartPinned, RequestTypes, PhaseOf, tracker
    <2>6. QED
      BY <1>1, <2>3, <2>4, <2>5 DEF PhaseOf
  <1>5. CASE CtxDone(r)
    BY <1>1, <1>5 DEF CtxDone, tracker, RequestTypes, PhaseOf
  <1>6. CASE Check(r)
    <2>1. order[r] \in Seq(Keys) /\ pos[r] \in 1 .. Len(order[r]) /\ attempts[r] \in Seq(Keys)
      BY <1>1, <1>6 DEF Check, RequestTypes
    <2>2. order[r][pos[r]] \in Keys
      BY <2>1
    <2>3. Append(attempts[r], order[r][pos[r]]) \in Seq(Keys)
      BY <2>1, <2>2
    <2>4. /\ attempts' = [attempts EXCEPT ![r] =
                IF Tracker!InForce(order[r][pos[r]], asOf[r]) THEN @
                ELSE Append(@, order[r][pos[r]])]
          /\ pos' = [pos EXCEPT ![r] = @ + 1]
          /\ UNCHANGED <<now, counter, pc, plan, order, asOf, ctx, results>>
      BY <1>6 DEF Check, Tracker!Load
    <2>5. attempts' \in [Requests -> Seq(Keys)]
      BY <1>1, <2>1, <2>3, <2>4 DEF RequestTypes
    <2>6. RequestTypes'
      BY <1>1, <2>4, <2>5 DEF RequestTypes
    <2>7. pos'[r] = pos[r] + 1 /\ pc[r] = "checking"
      BY <1>1, <1>6, <2>4 DEF Check, RequestTypes
    <2>8. QED
      BY <1>1, <2>1, <2>4, <2>6, <2>7 DEF PhaseOf
  <1>7. CASE Build(r)
    <2>1. PICK keys : keys = IF attempts[r] = <<>> THEN order[r] ELSE attempts[r]
      OBVIOUS
    <2>2. keys \in Seq(Keys) /\ Len(keys) # 0
      BY <1>1, <1>7, <2>1 DEF Build, RequestTypes, PhaseOf
    <2>3. WithRetry(keys) \in Seq(Keys) /\ Len(WithRetry(keys)) = Len(keys) + 1
      BY <2>2, WithRetryFacts
    <2>4. attempts' = [attempts EXCEPT ![r] = WithRetry(keys)]
      BY <1>7, <2>1 DEF Build
    <2>5. RequestTypes'
      BY <1>1, <1>7, <2>3, <2>4 DEF Build, RequestTypes
    <2>6. attempts'[r] = WithRetry(keys) /\ pos'[r] = 1 /\ pc'[r] = "trying"
      BY <1>1, <1>7, <2>4 DEF Build, RequestTypes
    <2>7. UNCHANGED <<now, asOf, results>>
      BY <1>7 DEF Build, tracker
    <2>8. QED
      BY <1>1, <2>2, <2>3, <2>5, <2>6, <2>7 DEF PhaseOf
  <1>8. CASE TryNext(r) \/ Answer(r)
    <2>1. PICK outcome \in Outcomes :
             /\ results' = [results EXCEPT ![r] =
                   Append(@, [key |-> key(r), outcome |-> outcome, at |-> now])]
             /\ [key |-> key(r), outcome |-> outcome, at |-> now] \in Results
             /\ IF TryNext(r) THEN GoesOn(r, outcome) ELSE ~GoesOn(r, outcome)
      BY <1>1, <1>8, AttemptFacts
    <2>2. PICK entry \in Results : entry = [key |-> key(r), outcome |-> outcome, at |-> now]
      BY <2>1
    <2>3. results'[r] = Append(results[r], entry) /\ results[r] \in Seq(Results)
      BY <1>1, <2>1, <2>2 DEF RequestTypes
    <2>4. results' \in [Requests -> Seq(Results)]
      BY <1>1, <2>1, <2>2 DEF RequestTypes
    <2>5. UNCHANGED <<counter, plan, order, asOf, attempts, ctx>> /\ pc[r] = "trying"
      BY <1>8 DEF TryNext, Answer
    <2>6. /\ pos' \in [Requests -> Nat \ {0}]
          /\ pc' \in [Requests -> {"new", "checking", "trying", "ended"}]
          /\ pc'[r] = "trying" => pos'[r] <= Len(attempts[r])
          /\ pc'[r] \in {"trying", "ended"}
      <3>1. CASE TryNext(r)
        <4>1. pos[r] < Len(attempts[r]) /\ pos' = [pos EXCEPT ![r] = @ + 1] /\ UNCHANGED pc
          BY <2>1, <3>1 DEF TryNext, GoesOn
        <4>2. pos[r] \in Nat \ {0} /\ Len(attempts[r]) \in Nat
          BY <1>1 DEF RequestTypes
        <4>3. QED
          BY <1>1, <2>5, <4>1, <4>2 DEF RequestTypes
      <3>2. CASE Answer(r)
        BY <1>1, <3>2 DEF Answer, RequestTypes
      <3>3. QED
        BY <1>8, <3>1, <3>2
    <2>7. RequestTypes'
      BY <1>1, <2>4, <2>5, <2>6 DEF RequestTypes
    <2>8. \A i \in 1 .. Len(results'[r]) : results'[r][i].at <= now'
      <3>1. entry.at = now
        BY <2>2
      <3>2. \A i \in 1 .. Len(results[r]) : results[r][i] \in Results /\ results[r][i].at <= now
        BY <1>1, <2>3 DEF PhaseOf
      <3>3. \A i \in 1 .. Len(results[r]) : results[r][i].at <= now'
        BY <1>1, <3>2 DEF Results
      <3>4. QED
        BY <1>1, <2>3, <3>1, <3>3
    <2>9. asOf'[r] <= now'
      BY <1>1, <2>5 DEF PhaseOf, RequestTypes
    <2>10. QED
      BY <2>5, <2>6, <2>7, <2>8, <2>9 DEF PhaseOf
  <1>9. QED
    BY <1>2, <1>3, <1>4, <1>5, <1>6, <1>7, <1>8

LEMMA TypeInvariant == Spec => []TypeInv
<1>1. Init => TypeInv
  <2> SUFFICES ASSUME Init PROVE TypeInv
    OBVIOUS
  <2>1. TrackerTypes
    BY ConstantFacts DEF Init, Tracker!Init, Tracker!NoEntry, TrackerTypes
  <2>2. RequestTypes
    BY DEF Init, RequestTypes
  <2>3. \A r \in Requests : PhaseOf(r)
    BY DEF Init, Tracker!Init, PhaseOf
  <2>4. QED
    BY <2>1, <2>2, <2>3 DEF TypeInv
<1>2. TypeInv /\ [Next]_vars => TypeInv'
  <2> SUFFICES ASSUME TypeInv, [Next]_vars PROVE TypeInv'
    OBVIOUS
  <2>1. TypeOK /\ RequestTypes /\ TrackerTypes
    BY Types DEF TypeInv
  <2>2. TrackerTypes' /\ now <= now'
    BY <2>1, TrackerStep, TrackerKeepsTypes
  <2>3. now' \in Nat
    BY <2>2 DEF TrackerTypes
  <2>4. ASSUME NEW r \in Requests,
               \/ Start(r) \/ Unroutable(r) \/ StartPinned(r) \/ CtxDone(r)
               \/ Check(r) \/ Build(r) \/ TryNext(r) \/ Answer(r)
        PROVE  RequestTypes' /\ \A s \in Requests : PhaseOf(s)'
    <3>1. RequestTypes' /\ PhaseOf(r)'
      BY <2>2, <2>3, <2>4, TypesKept
    <3>2. ASSUME NEW s \in Requests \ {r} PROVE PhaseOf(s)'
      BY <2>1, <2>2, <2>3, <2>4, OthersKept, PhaseKept DEF Step
    <3>3. QED
      BY <3>1, <3>2
  <2>5. ASSUME Idle PROVE RequestTypes' /\ \A s \in Requests : PhaseOf(s)'
    <3>1. RequestTypes'
      BY <2>1, <2>5 DEF Idle, request, RequestTypes
    <3>2. QED
      BY <2>2, <2>3, <2>5, <3>1, IdleKeeps, PhaseKept
  <2>6. RequestTypes' /\ \A s \in Requests : PhaseOf(s)'
    BY <2>4, <2>5, IdleSteps
  <2>7. QED
    BY <2>2, <2>6 DEF TypeInv
<1>3. QED
  BY <1>1, <1>2, PTL DEF Spec

(* All variables keep their types, for any number of keys and requests.    *)
THEOREM RoutingTypeCorrect == Spec => []TypeOK
  BY TypeInvariant, Types, PTL
-----------------------------------------------------------------------------
(* The history of results only grows, so what has failed has failed.       *)
LEMMA ResultsGrow ==
    ASSUME TypeInv, [Next]_vars, NEW s \in Requests
    PROVE  /\ Len(results[s]) \in Nat /\ Len(results'[s]) \in Nat
           /\ Len(results[s]) <= Len(results'[s])
           /\ \A i \in 1 .. Len(results[s]) : results'[s][i] = results[s][i]
  <1>1. TypeOK /\ results[s] \in Seq(Results) /\ results \in [Requests -> Seq(Results)]
    BY Types DEF TypeInv, RequestTypes
  <1>2. CASE results'[s] = results[s]
    BY <1>1, <1>2
  <1>3. ASSUME NEW r \in Requests, TryNext(r) \/ Answer(r), s = r
        PROVE  \E entry \in Results : results'[s] = Append(results[s], entry)
    BY <1>1, <1>3, AttemptFacts
  <1>4. ASSUME NEW entry \in Results, results'[s] = Append(results[s], entry)
        PROVE  /\ Len(results[s]) <= Len(results'[s]) /\ Len(results'[s]) \in Nat
               /\ \A i \in 1 .. Len(results[s]) : results'[s][i] = results[s][i]
    BY <1>1, <1>4
  <1>5. ASSUME NEW r \in Requests,
               Start(r) \/ Unroutable(r) \/ StartPinned(r) \/ CtxDone(r) \/ Check(r) \/ Build(r)
        PROVE  results'[s] = results[s]
    BY <1>5 DEF Start, Unroutable, StartPinned, CtxDone, Check, Build, request
  <1>6. ASSUME NEW r \in Requests, TryNext(r) \/ Answer(r), s # r
        PROVE  results'[s] = results[s]
    BY <1>1, <1>6, OthersKept DEF Step, Kept
  <1>7. ASSUME Idle PROVE results'[s] = results[s]
    BY <1>7 DEF Idle, request
  <1>8. results'[s] = results[s] \/ \E entry \in Results : results'[s] = Append(results[s], entry)
    BY <1>3, <1>5, <1>6, <1>7, IdleSteps
  <1>9. QED
    BY <1>1, <1>2, <1>4, <1>8

LEMMA FailuresStay ==
    ASSUME TypeInv, [Next]_vars, NEW k, NEW t, FailedUntil(k, t)
    PROVE  FailedUntil(k, t)'
  <1>1. PICK s \in Requests : \E i \in 1 .. Len(results[s]) :
           /\ results[s][i].key = k /\ results[s][i].outcome \in Failures
           /\ results[s][i].at + Cooldown[results[s][i].outcome] = t
    BY DEF FailedUntil
  <1>2. PICK i \in 1 .. Len(results[s]) :
           /\ results[s][i].key = k /\ results[s][i].outcome \in Failures
           /\ results[s][i].at + Cooldown[results[s][i].outcome] = t
    BY <1>1
  <1>3. i \in 1 .. Len(results'[s]) /\ results'[s][i] = results[s][i]
    BY ResultsGrow
  <1>4. QED
    BY <1>2, <1>3 DEF FailedUntil

JustFailed(k, t) ==
    \E s \in Requests : \E i \in 1 .. Len(results[s]) :
        /\ results[s][i].key = k /\ results[s][i].outcome \in Failures
        /\ results[s][i].at = now
        /\ results[s][i].at + Cooldown[results[s][i].outcome] = t

(* A penalty is imposed together with the record of the failure.           *)
LEMMA PenaltyIsRecorded ==
    ASSUME TypeInv, NEW r \in Requests, NEW outcome \in Failures, pc[r] = "trying",
           Record(r, outcome), Tracker!Penalize(key(r), Cooldown[outcome]),
           NEW k \in Keys, NEW t, t = entries'[k]
    PROVE  t = entries[k] \/ JustFailed(k, t)'
  <1>1. /\ TypeOK /\ results \in [Requests -> Seq(Results)] /\ now \in Nat \ {0}
        /\ entries \in [Keys -> 0 .. MaxTime + 3]
    BY Types DEF TypeInv, RequestTypes, TrackerTypes
  <1>2. key(r) \in Keys /\ outcome \in Outcomes
    BY <1>1, KeyType DEF Outcomes
  <1>3. entries' = [entries EXCEPT ![key(r)] = now + Cooldown[outcome]] /\ UNCHANGED now
    BY DEF Tracker!Penalize
  <1>4. CASE k # key(r)
    BY <1>1, <1>2, <1>3, <1>4
  <1>5. CASE k = key(r)
    <2>1. PICK entry : entry = [key |-> key(r), outcome |-> outcome, at |-> now]
      OBVIOUS
    <2>2. entry \in Results
      BY <1>1, <1>2, <2>1 DEF Results
    <2>3. results' = [results EXCEPT ![r] = Append(@, entry)]
      BY <2>1 DEF Record
    <2>4. PICK n : n = Len(results[r]) + 1
      OBVIOUS
    <2>5. n \in 1 .. Len(results'[r]) /\ results'[r][n] = entry
      BY <1>1, <2>2, <2>3, <2>4
    <2>6. t = now + Cooldown[outcome]
      BY <1>1, <1>2, <1>3, <1>5
    <2>7. entry.key = k /\ entry.outcome = outcome /\ entry.at = now
      BY <1>5, <2>1
    <2>8. /\ results'[r][n].key = k /\ results'[r][n].outcome \in Failures
          /\ results'[r][n].at = now'
          /\ results'[r][n].at + Cooldown[results'[r][n].outcome] = t
      BY <1>3, <2>5, <2>6, <2>7
    <2>9. QED
      BY <2>5, <2>8 DEF JustFailed
  <1>6. QED
    BY <1>4, <1>5

LEMMA EarnedStep ==
    ASSUME TypeInv, [Next]_vars, NEW k \in Keys, NEW t, t = entries'[k]
    PROVE  t = entries[k] \/ t = 0 \/ JustFailed(k, t)'
  <1>1. /\ TypeOK /\ entries \in [Keys -> 0 .. MaxTime + 3]
    BY Types DEF TypeInv, TrackerTypes
  <1>2. ASSUME NEW r \in Requests, TryNext(r)
        PROVE  t = entries[k] \/ JustFailed(k, t)'
    <2>1. PICK outcome \in Failures :
             Record(r, outcome) /\ Tracker!Penalize(key(r), Cooldown[outcome])
      BY <1>2 DEF TryNext, GoesOn
    <2>2. pc[r] = "trying"
      BY <1>2 DEF TryNext
    <2>3. QED
      BY <2>1, <2>2, PenaltyIsRecorded
  <1>3. ASSUME NEW r \in Requests, Answer(r)
        PROVE  t = entries[k] \/ t = 0 \/ JustFailed(k, t)'
    <2>1. PICK outcome \in Possible(r) :
             /\ CASE outcome = "ok"    -> Tracker!Clear(key(r))
                  [] outcome = "error" -> Tracker!Penalize(key(r), Cooldown[outcome])
                  [] OTHER             -> UNCHANGED tracker
             /\ Record(r, outcome)
      BY <1>3 DEF Answer
    <2>2. pc[r] = "trying"
      BY <1>3 DEF Answer
    <2>3. CASE outcome = "error"
      <3>1. Tracker!Penalize(key(r), Cooldown[outcome]) /\ outcome \in Failures
        BY <2>1, <2>3 DEF Failures
      <3>2. QED
        BY <2>1, <2>2, <3>1, PenaltyIsRecorded
    <2>4. CASE outcome = "ok"
      BY <1>1, <2>1, <2>4 DEF Tracker!Clear, Tracker!NoEntry
    <2>5. CASE outcome \notin {"ok", "error"}
      BY <2>1, <2>5 DEF tracker
    <2>6. QED
      BY <2>3, <2>4, <2>5
  <1>4. ASSUME NEW c \in Requests \cup Readers, DropExpired(c)
        PROVE  t = entries[k] \/ t = 0
    BY <1>4 DEF DropExpired, Tracker!Delete, Tracker!NoEntry
  <1>5. ASSUME NEW r \in Requests, Check(r) PROVE UNCHANGED entries
    BY <1>5 DEF Check, Tracker!Load
  <1>6. ASSUME NEW a \in Readers, Enrich(a) PROVE UNCHANGED entries
    BY <1>6 DEF Enrich, Tracker!Load
  <1>7. ASSUME NEW r \in Requests,
               Start(r) \/ Unroutable(r) \/ StartPinned(r) \/ CtxDone(r) \/ Build(r)
        PROVE  UNCHANGED entries
    BY <1>7 DEF Start, Unroutable, StartPinned, CtxDone, Build, tracker
  <1>8. ASSUME Tick \/ UNCHANGED vars PROVE UNCHANGED entries
    BY <1>8 DEF Tick, Tracker!Tick, vars, tracker
  <1>9. QED
    BY <1>2, <1>3, <1>4, <1>5, <1>6, <1>7, <1>8 DEF Next, Step

(* A key cools because an attempt with that very key failed, and no longer *)
(* than that failure's cooldown, however many handlers interleave.         *)
THEOREM RoutingPenaltyIsEarned == Spec => []PenaltyIsEarned
<1>1. Init => PenaltyIsEarned
  BY DEF Init, Tracker!Init, Tracker!NoEntry, PenaltyIsEarned
<1>2. TypeInv /\ PenaltyIsEarned /\ [Next]_vars => PenaltyIsEarned'
  <2> SUFFICES ASSUME TypeInv, PenaltyIsEarned, [Next]_vars, NEW k \in Keys,
                      (entries[k] # 0)'
               PROVE  FailedUntil(k, entries[k])'
    BY DEF PenaltyIsEarned
  <2>1. PICK t : t = entries'[k]
    OBVIOUS
  <2>2. ASSUME t = entries[k] PROVE FailedUntil(k, t)'
    <3>1. FailedUntil(k, t)
      BY <2>1, <2>2 DEF PenaltyIsEarned
    <3>2. QED
      BY <3>1, FailuresStay
  <2>3. FailedUntil(k, t)'
    BY <2>1, <2>2, EarnedStep DEF JustFailed, FailedUntil
  <2>4. QED
    BY <2>1, <2>3 DEF FailedUntil
<1>3. QED
  BY <1>1, <1>2, TypeInvariant, PTL DEF Spec
-----------------------------------------------------------------------------
(* While a request looks at its keys, each one it has looked at is kept or *)
(* was cooling.                                                            *)
Excused(r, k) == \E t \in asOf[r] + 1 .. MaxTime + 3 : FailedUntil(k, t)

SkipOf(r) ==
    /\ pc[r] = "checking" =>
          \A j \in 1 .. pos[r] - 1 :
             order[r][j] \in InSeq(attempts[r]) \/ Excused(r, order[r][j])
    /\ pc[r] \in {"trying", "ended"} =>
          \A k \in InSeq(order[r]) \ InSeq(attempts[r]) : Excused(r, k)

SkipInv == \A r \in Requests : SkipOf(r)

LEMMA ExcusedStay ==
    ASSUME TypeInv, [Next]_vars, NEW r \in Requests, asOf'[r] = asOf[r], NEW k, Excused(r, k)
    PROVE  Excused(r, k)'
  <1>1. PICK t \in asOf[r] + 1 .. MaxTime + 3 : FailedUntil(k, t)
    BY DEF Excused
  <1>2. FailedUntil(k, t)'
    BY <1>1, FailuresStay
  <1>3. t \in asOf'[r] + 1 .. MaxTime + 3
    OBVIOUS
  <1>4. QED
    BY <1>2, <1>3 DEF Excused

LEMMA SkipKept ==
    ASSUME TypeInv, [Next]_vars, NEW s \in Requests, SkipOf(s), Kept(s)
    PROVE  SkipOf(s)'
  <1>1. ASSUME NEW k, Excused(s, k) PROVE Excused(s, k)'
    BY <1>1, ExcusedStay DEF Kept
  <1>2. PICK keys : keys = order[s] /\ keys = order'[s]
    BY DEF Kept
  <1>3. PICK tries : tries = attempts[s] /\ tries = attempts'[s]
    BY DEF Kept
  <1>4. PICK i : i = pos[s] /\ i = pos'[s]
    BY DEF Kept
  <1>5. ASSUME pc'[s] = "checking", NEW j \in 1 .. i - 1
        PROVE  keys[j] \in InSeq(tries) \/ Excused(s, keys[j])'
    <2>1. keys[j] \in InSeq(tries) \/ Excused(s, keys[j])
      BY <1>2, <1>3, <1>4, <1>5 DEF SkipOf, Kept
    <2>2. QED
      BY <1>1, <2>1
  <1>6. ASSUME pc'[s] \in {"trying", "ended"}, NEW k \in InSeq(keys) \ InSeq(tries)
        PROVE  Excused(s, k)'
    <2>1. Excused(s, k)
      BY <1>2, <1>3, <1>6 DEF SkipOf, Kept
    <2>2. QED
      BY <1>1, <2>1
  <1>7. QED
    BY <1>2, <1>3, <1>4, <1>5, <1>6 DEF SkipOf, Excused

(* What Check does to the list of attempts. *)
LEMMA CheckFacts ==
    ASSUME TypeInv, NEW r \in Requests, Check(r)
    PROVE  /\ pc'[r] = "checking" /\ pc[r] = "checking" /\ UNCHANGED <<order, asOf, results, plan>>
           /\ pos[r] \in 1 .. Len(order[r]) /\ pos'[r] = pos[r] + 1
           /\ order[r] \in Seq(Keys) /\ attempts[r] \in Seq(Keys)
           /\ order[r][pos[r]] \in Keys
           /\ \/ /\ attempts'[r] = attempts[r]
                 /\ entries[order[r][pos[r]]] > asOf[r]
              \/ /\ attempts'[r] = Append(attempts[r], order[r][pos[r]])
                 /\ entries[order[r][pos[r]]] <= asOf[r]
  <1>1. RequestTypes
    BY DEF TypeInv
  <1>2. PICK k : k = order[r][pos[r]]
    OBVIOUS
  <1>3. /\ pc[r] = "checking" /\ pos[r] <= Len(order[r])
        /\ attempts' = [attempts EXCEPT ![r] =
              IF Tracker!InForce(k, asOf[r]) THEN @ ELSE Append(@, k)]
        /\ pos' = [pos EXCEPT ![r] = @ + 1]
        /\ UNCHANGED <<pc, order, asOf, results, plan>>
    BY <1>2 DEF Check
  <1>4. /\ pos[r] \in 1 .. Len(order[r]) /\ order[r] \in Seq(Keys) /\ attempts[r] \in Seq(Keys)
        /\ pos'[r] = pos[r] + 1
        /\ attempts'[r] = IF Tracker!InForce(k, asOf[r]) THEN attempts[r]
                          ELSE Append(attempts[r], k)
    BY <1>1, <1>3 DEF RequestTypes
  <1>5. k \in Keys
    BY <1>2, <1>4
  <1>6. entries[k] > asOf[r] \/ entries[k] <= asOf[r]
    BY <1>1, <1>5, ConstantFacts DEF TypeInv, TrackerTypes, RequestTypes
  <1>7. QED
    BY <1>2, <1>3, <1>4, <1>5, <1>6 DEF Tracker!InForce

(* What Build does to it. *)
LEMMA BuildFacts ==
    ASSUME TypeInv, NEW r \in Requests, Build(r)
    PROVE  \E keys \in Seq(Keys) :
              /\ keys = (IF attempts[r] = <<>> THEN order[r] ELSE attempts[r]) /\ Len(keys) # 0
              /\ attempts'[r] = WithRetry(keys)
              /\ pc[r] = "checking" /\ pc'[r] = "trying" /\ pos'[r] = 1
              /\ pos[r] = Len(order[r]) + 1 /\ order[r] \in Seq(Keys)
              /\ UNCHANGED <<order, asOf, results, plan>>
  <1>1. RequestTypes /\ PhaseOf(r)
    BY DEF TypeInv
  <1>2. PICK keys : keys = IF attempts[r] = <<>> THEN order[r] ELSE attempts[r]
    OBVIOUS
  <1>3. /\ pc[r] = "checking" /\ pos[r] > Len(order[r])
        /\ attempts' = [attempts EXCEPT ![r] = WithRetry(keys)]
        /\ pos' = [pos EXCEPT ![r] = 1]
        /\ pc' = [pc EXCEPT ![r] = "trying"]
        /\ UNCHANGED <<order, asOf, results, plan>>
    BY <1>2 DEF Build
  <1>4. order[r] \in Seq(Keys) /\ attempts[r] \in Seq(Keys) /\ pos[r] \in Nat
    BY <1>1 DEF RequestTypes
  <1>5. order[r] # <<>> /\ pos[r] <= Len(order[r]) + 1
    BY <1>1, <1>3 DEF PhaseOf
  <1>6. keys \in Seq(Keys) /\ Len(keys) # 0 /\ pos[r] = Len(order[r]) + 1
    BY <1>2, <1>3, <1>4, <1>5
  <1>7. attempts'[r] = WithRetry(keys) /\ pos'[r] = 1 /\ pc'[r] = "trying"
    BY <1>1, <1>3 DEF RequestTypes
  <1>8. QED
    BY <1>2, <1>3, <1>4, <1>6, <1>7

LEMMA RetryCovers ==
    ASSUME NEW keys \in Seq(Keys), Len(keys) # 0
    PROVE  InSeq(keys) \subseteq InSeq(WithRetry(keys))
  <1>1. ASSUME NEW i \in 1 .. Len(keys)
        PROVE  i \in 1 .. Len(WithRetry(keys)) /\ WithRetry(keys)[i] = keys[i]
    BY WithRetryFacts
  <1>2. QED
    BY <1>1 DEF InSeq

LEMMA SkipStep ==
    ASSUME TypeInv, PenaltyIsEarned, [Next]_vars, NEW r \in Requests, SkipOf(r),
           \/ Start(r) \/ Unroutable(r) \/ StartPinned(r) \/ CtxDone(r)
           \/ Check(r) \/ Build(r) \/ TryNext(r) \/ Answer(r)
    PROVE  SkipOf(r)'
  <1>1. RequestTypes /\ PhaseOf(r) /\ TypeOK
    BY Types DEF TypeInv
  <1>2. CASE Start(r)
    <2>1. pc'[r] = "checking" /\ pos'[r] = 1
      BY <1>1, <1>2 DEF Start, RequestTypes, PhaseOf
    <2>2. QED
      BY <2>1 DEF SkipOf
  <1>3. CASE Unroutable(r)
    <2>1. pc'[r] = "ended" /\ order'[r] = <<>>
      BY <1>1, <1>3 DEF Unroutable, request, RequestTypes, PhaseOf
    <2>2. QED
      BY <2>1 DEF SkipOf, InSeq
  <1>4. CASE StartPinned(r)
    <2>1. PICK k \in PinnedKeys : order'[r] = <<k>> /\ attempts'[r] = WithRetry(<<k>>)
      BY <1>1, <1>4 DEF StartPinned, RequestTypes
    <2>2. PICK list \in Seq(Keys) : list = <<k>> /\ Len(list) = 1
      <3>1. k \in Keys
        BY ConstantFacts
      <3>2. <<k>> \in Seq(Keys) /\ Len(<<k>>) = 1
        BY <3>1
      <3>3. QED
        BY <3>2
    <2>3. InSeq(list) \subseteq InSeq(WithRetry(list))
      <3>1. Len(list) # 0
        BY <2>2
      <3>2. QED
        BY <3>1, RetryCovers
    <2>4. pc'[r] = "trying"
      BY <1>1, <1>4 DEF StartPinned, RequestTypes
    <2>5. order'[r] = list /\ attempts'[r] = WithRetry(list)
      BY <2>1, <2>2
    <2>6. QED
      BY <2>3, <2>4, <2>5 DEF SkipOf, InSeq
  <1>5. CASE CtxDone(r)
    <2>1. Kept(r)
      BY <1>5 DEF CtxDone, Kept
    <2>2. QED
      BY <2>1, SkipKept
  <1>6. CASE Check(r)
    <2>1. PICK keys \in Seq(Keys) : keys = order[r] /\ keys = order'[r]
      BY <1>6, CheckFacts
    <2>2. PICK p \in 1 .. Len(keys) : p = pos[r] /\ pos'[r] = p + 1
      BY <1>6, <2>1, CheckFacts
    <2>3. PICK tries \in Seq(Keys) : tries = attempts[r]
      BY <1>6, CheckFacts
    <2>4. PICK tries2 : tries2 = attempts'[r]
      OBVIOUS
    <2>5. tries2 = tries \/ tries2 = Append(tries, keys[p])
      BY <1>6, <2>1, <2>2, <2>3, <2>4, CheckFacts
    <2>6. pc[r] = "checking" /\ pc'[r] = "checking" /\ asOf'[r] = asOf[r]
      BY <1>6, CheckFacts
    <2>7. InSeq(tries) \subseteq InSeq(tries2)
      <3>1. CASE tries2 = tries
        BY <3>1
      <3>2. CASE tries2 = Append(tries, keys[p])
        <4>1. \A i \in 1 .. Len(tries) : i \in 1 .. Len(tries2) /\ tries2[i] = tries[i]
          BY <3>2
        <4>2. QED
          BY <4>1 DEF InSeq
      <3>3. QED
        BY <2>5, <3>1, <3>2
    <2>8. ASSUME NEW j \in 1 .. p - 1 PROVE keys[j] \in InSeq(tries2) \/ Excused(r, keys[j])'
      <3>1. keys[j] \in InSeq(tries) \/ Excused(r, keys[j])
        BY <2>1, <2>2, <2>3, <2>6, <2>8 DEF SkipOf
      <3>2. QED
        BY <2>6, <2>7, <3>1, ExcusedStay
    <2>9. keys[p] \in InSeq(tries2) \/ Excused(r, keys[p])'
      <3>1. CASE tries2 = Append(tries, keys[p])
        <4>1. Len(tries2) \in 1 .. Len(tries2) /\ tries2[Len(tries2)] = keys[p]
          BY <3>1
        <4>2. QED
          BY <4>1 DEF InSeq
      <3>2. CASE tries2 # Append(tries, keys[p])
        <4>1. keys[p] \in Keys /\ entries[keys[p]] > asOf[r]
          BY <1>6, <2>1, <2>2, <2>3, <2>4, <3>2, CheckFacts
        <4>2. entries[keys[p]] \in 0 .. MaxTime + 3 /\ asOf[r] \in Nat /\ MaxTime \in Nat
          BY <1>1, <4>1, ConstantFacts DEF TypeInv, TrackerTypes, RequestTypes
        <4>3. PICK t \in asOf[r] + 1 .. MaxTime + 3 : t = entries[keys[p]] /\ t # 0
          BY <4>1, <4>2
        <4>4. FailedUntil(keys[p], t)
          BY <4>1, <4>3 DEF PenaltyIsEarned
        <4>5. Excused(r, keys[p])
          BY <4>4 DEF Excused
        <4>6. QED
          BY <2>6, <4>5, ExcusedStay
      <3>3. QED
        BY <3>1, <3>2
    <2>10. \A j \in 1 .. p + 1 - 1 : keys[j] \in InSeq(tries2) \/ Excused(r, keys[j])'
      <3>1. \A j \in 1 .. p + 1 - 1 : j \in 1 .. p - 1 \/ j = p
        OBVIOUS
      <3>2. QED
        BY <2>8, <2>9, <3>1
    <2>11. QED
      BY <2>1, <2>2, <2>4, <2>6, <2>10 DEF SkipOf, Excused
  <1>7. CASE Build(r)
    <2>1. PICK keys \in Seq(Keys) :
             /\ keys = (IF attempts[r] = <<>> THEN order[r] ELSE attempts[r]) /\ Len(keys) # 0
             /\ attempts'[r] = WithRetry(keys)
             /\ pc[r] = "checking" /\ pc'[r] = "trying" /\ pos'[r] = 1
             /\ pos[r] = Len(order[r]) + 1 /\ order[r] \in Seq(Keys)
             /\ UNCHANGED <<order, asOf, results, plan>>
      BY <1>7, BuildFacts
    <2>2. PICK list \in Seq(Keys) : list = order[r] /\ list = order'[r]
      BY <2>1
    <2>3. PICK tries2 : tries2 = WithRetry(keys) /\ tries2 = attempts'[r]
      BY <2>1
    <2>4. InSeq(keys) \subseteq InSeq(tries2)
      BY <2>1, <2>3, RetryCovers
    <2>5. ASSUME NEW k \in InSeq(list) \ InSeq(tries2) PROVE Excused(r, k)'
      <3>1. PICK j \in 1 .. Len(list) : k = list[j]
        BY DEF InSeq
      <3>2. k \notin InSeq(keys)
        BY <2>4
      <3>3. keys = attempts[r]
        BY <2>1, <2>2, <3>2
      <3>4. j \in 1 .. pos[r] - 1
        BY <2>1, <2>2
      <3>5. Excused(r, k)
        BY <2>1, <2>2, <3>1, <3>2, <3>3, <3>4 DEF SkipOf
      <3>6. QED
        BY <2>1, <3>5, ExcusedStay
    <2>6. QED
      BY <2>1, <2>2, <2>3, <2>5 DEF SkipOf, Excused
  <1>8. CASE TryNext(r) \/ Answer(r)
    <2>1. PICK keys : keys = order[r] /\ keys = order'[r]
      BY <1>8 DEF TryNext, Answer
    <2>2. PICK tries : tries = attempts[r] /\ tries = attempts'[r]
      BY <1>8 DEF TryNext, Answer
    <2>3. pc[r] = "trying" /\ pc'[r] \in {"trying", "ended"} /\ asOf'[r] = asOf[r]
      BY <1>1, <1>8 DEF TryNext, Answer, RequestTypes
    <2>4. ASSUME NEW k \in InSeq(keys) \ InSeq(tries) PROVE Excused(r, k)'
      <3>1. Excused(r, k)
        BY <2>1, <2>2, <2>3 DEF SkipOf
      <3>2. QED
        BY <2>3, <3>1, ExcusedStay
    <2>5. QED
      BY <2>1, <2>2, <2>3, <2>4 DEF SkipOf, Excused
  <1>9. QED
    BY <1>2, <1>3, <1>4, <1>5, <1>6, <1>7, <1>8

LEMMA SkipInvariant == Spec => []SkipInv
<1>1. Init => SkipInv
  BY DEF Init, SkipInv, SkipOf
<1>2. TypeInv /\ PenaltyIsEarned /\ SkipInv /\ [Next]_vars => SkipInv'
  <2> SUFFICES ASSUME TypeInv, PenaltyIsEarned, SkipInv, [Next]_vars, NEW s \in Requests
               PROVE  SkipOf(s)'
    BY DEF SkipInv
  <2>1. SkipOf(s)
    BY DEF SkipInv
  <2>2. ASSUME NEW r \in Requests, s # r,
               \/ Start(r) \/ Unroutable(r) \/ StartPinned(r) \/ CtxDone(r)
               \/ Check(r) \/ Build(r) \/ TryNext(r) \/ Answer(r)
        PROVE  SkipOf(s)'
    BY <2>1, <2>2, Types, OthersKept, SkipKept DEF Step
  <2>3. ASSUME Idle PROVE SkipOf(s)'
    BY <2>1, <2>3, IdleKeeps, SkipKept
  <2>4. QED
    BY <2>1, <2>2, <2>3, IdleSteps, SkipStep
<1>3. QED
  BY <1>1, <1>2, TypeInvariant, RoutingPenaltyIsEarned, PTL DEF Spec

(* A key is passed over only for a failure that was still cooling.         *)
THEOREM RoutingPassedOverForCause == Spec => []PassedOverForCause
<1>1. SkipInv => PassedOverForCause
  BY DEF SkipInv, SkipOf, Excused, PassedOverForCause
<1>2. QED
  BY <1>1, SkipInvariant, PTL
-----------------------------------------------------------------------------
(* A list of attempts names each key once, but the last one twice; the     *)
(* loop walks along it from one failure to the next.                       *)
RetryShaped(tries) ==
    /\ Len(tries) > 1
    /\ tries[Len(tries)] = tries[Len(tries) - 1]
    /\ \A i, j \in 1 .. Len(tries) - 1 : tries[i] = tries[j] => i = j

Walk(tries, done, n, endpoint) ==
    \A i \in 1 .. n : /\ done[i].key = tries[i]
                      /\ done[i].outcome \in Failures
                      /\ \/ done[i].outcome # "unauthorized"
                         \/ tries[i + 1] # tries[i]
                         \/ endpoint = "embeddings"

Found(tries, keys, n) == \A i \in 1 .. Len(tries) : \E j \in 1 .. n : tries[i] = keys[j]

Stopped(tries, done, p) ==
    /\ p <= Len(tries)
    /\ done[p].key = tries[p]
    /\ done[p].outcome \in Failures => p = Len(tries) \/ tries[p + 1] = tries[p]

WalkOf(r) ==
    /\ pc[r] = "checking" =>
          /\ Distinct(order[r]) /\ Distinct(attempts[r]) /\ results[r] = <<>>
          /\ Found(attempts[r], order[r], pos[r] - 1)
    /\ pc[r] = "trying" =>
          /\ RetryShaped(attempts[r]) /\ Len(results[r]) = pos[r] - 1
          /\ Walk(attempts[r], results[r], pos[r] - 1, plan[r].endpoint)
    /\ pc[r] = "ended" =>
          \/ results[r] = <<>>
          \/ /\ RetryShaped(attempts[r]) /\ Len(results[r]) = pos[r]
             /\ Walk(attempts[r], results[r], pos[r] - 1, plan[r].endpoint)
             /\ Stopped(attempts[r], results[r], pos[r])

WalkInv == \A r \in Requests : WalkOf(r)

LEMMA WalkKept == ASSUME NEW s \in Requests, WalkOf(s), Kept(s) PROVE WalkOf(s)'
  <1> USE DEF Kept
  <1>1. PICK keys, tries, done, p, e :
           /\ keys = order[s] /\ tries = attempts[s] /\ done = results[s]
           /\ p = pos[s] /\ e = plan[s]
    OBVIOUS
  <1>2. /\ keys = order'[s] /\ tries = attempts'[s] /\ done = results'[s]
        /\ p = pos'[s] /\ e = plan'[s] /\ pc'[s] = pc[s]
    BY <1>1
  <1>3. QED
    BY <1>1, <1>2 DEF WalkOf

LEMMA RetryShape ==
    ASSUME NEW keys \in Seq(Keys), Len(keys) # 0, Distinct(keys)
    PROVE  RetryShaped(WithRetry(keys))
  <1>1. PICK tries \in Seq(Keys) : /\ tries = WithRetry(keys) /\ Len(tries) = Len(keys) + 1
                                   /\ \A i \in 1 .. Len(keys) : tries[i] = keys[i]
                                   /\ tries[Len(keys) + 1] = keys[Len(keys)]
    BY WithRetryFacts
  <1>2. PICK n \in Nat \ {0} : n = Len(keys)
    OBVIOUS
  <1>3. \A i, j \in 1 .. n : tries[i] = tries[j] => i = j
    BY <1>1, <1>2 DEF Distinct
  <1>4. Len(tries) = n + 1 /\ tries[n + 1] = tries[n]
    BY <1>1, <1>2
  <1>5. n + 1 > 1 /\ n + 1 - 1 = n
    OBVIOUS
  <1>6. RetryShaped(tries)
    BY <1>3, <1>4, <1>5 DEF RetryShaped
  <1>7. QED
    BY <1>1, <1>6

(* Looking at one more key keeps the attempts distinct.                    *)
LEMMA OneMoreFound ==
    ASSUME NEW keys \in Seq(Keys), Distinct(keys), NEW p \in 1 .. Len(keys),
           NEW tries \in Seq(Keys), Distinct(tries), Found(tries, keys, p - 1),
           NEW tries2, tries2 = tries \/ tries2 = Append(tries, keys[p])
    PROVE  Distinct(tries2) /\ Found(tries2, keys, p)
  <1>1. Found(tries, keys, p)
    BY DEF Found
  <1>2. CASE tries2 = tries
    BY <1>1, <1>2
  <1>3. CASE tries2 = Append(tries, keys[p])
    <2>1. PICK n \in Nat : n = Len(tries)
      OBVIOUS
    <2>2. keys[p] \in Keys
      OBVIOUS
    <2>3. /\ Len(tries2) = n + 1 /\ tries2[n + 1] = keys[p]
          /\ \A i \in 1 .. n : tries2[i] = tries[i]
      BY <1>3, <2>1, <2>2
    <2>4. \A i \in 1 .. n : \E j \in 1 .. p - 1 : tries[i] = keys[j]
      BY <2>1 DEF Found
    <2>5. \A i \in 1 .. n : tries[i] # keys[p]
      <3>1. ASSUME NEW i \in 1 .. n, tries[i] = keys[p] PROVE FALSE
        <4>1. PICK j \in 1 .. p - 1 : tries[i] = keys[j]
          BY <2>4
        <4>2. j \in 1 .. Len(keys) /\ keys[j] = keys[p] /\ j # p
          BY <3>1, <4>1
        <4>3. QED
          BY <4>2 DEF Distinct
      <3>2. QED
        BY <3>1
    <2>6. \A i, j \in 1 .. n : tries2[i] = tries2[j] => i = j
      BY <2>1, <2>3 DEF Distinct
    <2>7. ASSUME NEW i \in 1 .. n + 1, NEW j \in 1 .. n + 1, tries2[i] = tries2[j]
          PROVE  i = j
      <3>1. CASE i \in 1 .. n /\ j \in 1 .. n
        BY <2>6, <2>7, <3>1
      <3>2. CASE i = n + 1 /\ j \in 1 .. n
        BY <2>3, <2>5, <2>7, <3>2
      <3>3. CASE j = n + 1 /\ i \in 1 .. n
        BY <2>3, <2>5, <2>7, <3>3
      <3>4. CASE i = n + 1 /\ j = n + 1
        BY <3>4
      <3>5. QED
        BY <3>1, <3>2, <3>3, <3>4
    <2>8. \A i \in 1 .. n + 1 : \E j \in 1 .. p : tries2[i] = keys[j]
      <3>1. ASSUME NEW i \in 1 .. n PROVE \E j \in 1 .. p : tries2[i] = keys[j]
        <4>1. PICK j \in 1 .. p - 1 : tries[i] = keys[j]
          BY <2>4
        <4>2. j \in 1 .. p /\ tries2[i] = keys[j]
          BY <2>3, <4>1
        <4>3. QED
          BY <4>2
      <3>2. p \in 1 .. p
        OBVIOUS
      <3>3. \A i \in 1 .. n + 1 : i \in 1 .. n \/ i = n + 1
        OBVIOUS
      <3>4. QED
        BY <2>3, <3>1, <3>2, <3>3
    <2>9. QED
      BY <2>3, <2>7, <2>8 DEF Distinct, Found
  <1>4. QED
    BY <1>2, <1>3

(* An attempt lengthens the walk by one.                                   *)
LEMMA WalkGrows ==
    ASSUME TypeInv, NEW r \in Requests, TryNext(r) \/ Answer(r), WalkOf(r)
    PROVE  WalkOf(r)'
  <1>1. TypeOK /\ RequestTypes /\ pc[r] = "trying"
    BY Types DEF TypeInv, TryNext, Answer
  <1>2. PICK outcome \in Outcomes :
           /\ results' = [results EXCEPT ![r] =
                 Append(@, [key |-> key(r), outcome |-> outcome, at |-> now])]
           /\ [key |-> key(r), outcome |-> outcome, at |-> now] \in Results
           /\ IF TryNext(r) THEN GoesOn(r, outcome) ELSE ~GoesOn(r, outcome)
    BY <1>1, AttemptFacts
  <1>3. PICK entry \in Results : entry = [key |-> key(r), outcome |-> outcome, at |-> now]
    BY <1>2
  <1>4. PICK tries \in Seq(Keys) : tries = attempts[r] /\ tries = attempts'[r]
    <2>1. UNCHANGED attempts
      BY DEF TryNext, Answer
    <2>2. QED
      BY <1>1, <2>1 DEF RequestTypes
  <1>5. PICK e : e = plan[r].endpoint /\ e = plan'[r].endpoint
    BY DEF TryNext, Answer
  <1>6. PICK p \in 1 .. Len(tries) : p = pos[r]
    BY <1>1, <1>4, KeyType
  <1>7. PICK done \in Seq(Results) : done = results[r]
    BY <1>1 DEF RequestTypes
  <1>8. PICK done2 : done2 = results'[r]
    OBVIOUS
  <1>9. done2 = Append(done, entry)
    BY <1>1, <1>2, <1>3, <1>7, <1>8 DEF RequestTypes
  <1>10. /\ RetryShaped(tries) /\ Len(done) = p - 1 /\ Walk(tries, done, p - 1, e)
    BY <1>1, <1>4, <1>5, <1>6, <1>7 DEF WalkOf
  <1>11. /\ Len(done2) = p /\ done2[p] = entry
         /\ \A i \in 1 .. p - 1 : done2[i] = done[i]
    BY <1>9, <1>10
  <1>12. entry.key = tries[p] /\ entry.outcome = outcome
    BY <1>3, <1>4, <1>6 DEF key
  <1>13. Walk(tries, done2, p - 1, e)
    BY <1>10, <1>11 DEF Walk
  <1>14. ASSUME TryNext(r) PROVE WalkOf(r)'
    <2>1. pc'[r] = "trying" /\ pos'[r] = p + 1
      BY <1>1, <1>6, <1>14 DEF TryNext, RequestTypes
    <2>2. /\ outcome \in Failures
          /\ outcome # "unauthorized" \/ tries[p + 1] # tries[p] \/ e = "embeddings"
      BY <1>2, <1>4, <1>5, <1>6, <1>14 DEF GoesOn, RetriesAnything, key
    <2>3. Walk(tries, done2, p, e)
      <3>1. \A i \in 1 .. p : i \in 1 .. p - 1 \/ i = p
        OBVIOUS
      <3>2. /\ done2[p].key = tries[p] /\ done2[p].outcome \in Failures
            /\ done2[p].outcome # "unauthorized" \/ tries[p + 1] # tries[p] \/ e = "embeddings"
        BY <1>11, <1>12, <2>2
      <3>3. QED
        BY <1>13, <3>1, <3>2 DEF Walk
    <2>4. p + 1 - 1 = p
      OBVIOUS
    <2>5. QED
      BY <1>4, <1>5, <1>8, <1>10, <1>11, <2>1, <2>3, <2>4 DEF WalkOf
  <1>15. ASSUME ~TryNext(r) PROVE WalkOf(r)'
    <2>1. pc'[r] = "ended" /\ pos'[r] = p
      BY <1>1, <1>6, <1>15 DEF Answer, RequestTypes
    <2>2. ~GoesOn(r, outcome)
      BY <1>2, <1>15
    <2>3. outcome \in Failures => p = Len(tries) \/ tries[p + 1] = tries[p]
      BY <1>4, <1>6, <2>2 DEF GoesOn, RetriesAnything, key
    <2>4. Stopped(tries, done2, p)
      BY <1>11, <1>12, <2>3 DEF Stopped
    <2>5. QED
      BY <1>4, <1>5, <1>8, <1>10, <1>11, <1>13, <2>1, <2>4 DEF WalkOf
  <1>16. QED
    BY <1>14, <1>15

LEMMA WalkStep ==
    ASSUME TypeInv, NEW r \in Requests, WalkOf(r),
           \/ Start(r) \/ Unroutable(r) \/ StartPinned(r) \/ CtxDone(r)
           \/ Check(r) \/ Build(r) \/ TryNext(r) \/ Answer(r)
    PROVE  WalkOf(r)'
  <1>1. RequestTypes /\ PhaseOf(r) /\ TypeOK
    BY Types DEF TypeInv
  <1>2. CASE Start(r)
    <2>1. PICK keys \in Seq(Keys) : order' = [order EXCEPT ![r] = keys] /\ Distinct(keys)
      BY <1>1, <1>2, StartFacts
    <2>2. order'[r] = keys
      BY <1>1, <2>1 DEF RequestTypes
    <2>3. /\ pc'[r] = "checking" /\ attempts'[r] = <<>> /\ results'[r] = <<>>
      BY <1>1, <1>2 DEF Start, RequestTypes, PhaseOf
    <2>4. Distinct(<<>>)
      BY DEF Distinct
    <2>5. QED
      BY <2>1, <2>2, <2>3, <2>4 DEF WalkOf, Found
  <1>3. CASE Unroutable(r)
    <2>1. pc'[r] = "ended" /\ results'[r] = <<>>
      BY <1>1, <1>3 DEF Unroutable, request, RequestTypes, PhaseOf
    <2>2. QED
      BY <2>1 DEF WalkOf
  <1>4. CASE StartPinned(r)
    <2>1. PICK k \in PinnedKeys : attempts'[r] = WithRetry(<<k>>)
      BY <1>1, <1>4 DEF StartPinned, RequestTypes
    <2>2. PICK list \in Seq(Keys) : list = <<k>> /\ Len(list) = 1
      <3>1. k \in Keys
        BY ConstantFacts
      <3>2. <<k>> \in Seq(Keys) /\ Len(<<k>>) = 1
        BY <3>1
      <3>3. QED
        BY <3>2
    <2>3. Len(list) # 0 /\ Distinct(list)
      BY <2>2 DEF Distinct
    <2>4. PICK tries : tries = attempts'[r] /\ RetryShaped(tries)
      BY <2>1, <2>2, <2>3, RetryShape
    <2>5. pc'[r] = "trying" /\ results'[r] = <<>> /\ pos'[r] = 1
      BY <1>1, <1>4 DEF StartPinned, RequestTypes, PhaseOf
    <2>6. Len(results'[r]) = pos'[r] - 1 /\ pos'[r] - 1 = 0
      BY <2>5
    <2>7. QED
      BY <2>4, <2>5, <2>6 DEF WalkOf, Walk
  <1>5. CASE CtxDone(r)
    <2>1. Kept(r)
      BY <1>5 DEF CtxDone, Kept
    <2>2. QED
      BY <2>1, WalkKept
  <1>6. CASE Check(r)
    <2>1. PICK keys \in Seq(Keys) : keys = order[r] /\ keys = order'[r]
      BY <1>6, CheckFacts
    <2>2. PICK p \in 1 .. Len(keys) : p = pos[r] /\ pos'[r] = p + 1
      BY <1>6, <2>1, CheckFacts
    <2>3. PICK tries \in Seq(Keys) : tries = attempts[r]
      BY <1>6, CheckFacts
    <2>4. PICK tries2 : tries2 = attempts'[r]
      OBVIOUS
    <2>5. tries2 = tries \/ tries2 = Append(tries, keys[p])
      BY <1>6, <2>1, <2>2, <2>3, <2>4, CheckFacts
    <2>6. pc[r] = "checking" /\ pc'[r] = "checking" /\ results'[r] = results[r]
      BY <1>6, CheckFacts
    <2>7. Distinct(keys) /\ Distinct(tries) /\ Found(tries, keys, p - 1) /\ results[r] = <<>>
      BY <2>1, <2>2, <2>3, <2>6 DEF WalkOf
    <2>8. Distinct(tries2) /\ Found(tries2, keys, p)
      BY <2>5, <2>7, OneMoreFound
    <2>9. p + 1 - 1 = p
      OBVIOUS
    <2>10. QED
      BY <2>1, <2>2, <2>4, <2>6, <2>7, <2>8, <2>9 DEF WalkOf
  <1>7. CASE Build(r)
    <2>1. PICK keys \in Seq(Keys) :
             /\ keys = (IF attempts[r] = <<>> THEN order[r] ELSE attempts[r]) /\ Len(keys) # 0
             /\ attempts'[r] = WithRetry(keys)
             /\ pc[r] = "checking" /\ pc'[r] = "trying" /\ pos'[r] = 1
             /\ pos[r] = Len(order[r]) + 1 /\ order[r] \in Seq(Keys)
             /\ UNCHANGED <<order, asOf, results, plan>>
      BY <1>7, BuildFacts
    <2>2. Distinct(keys) /\ results'[r] = <<>>
      BY <2>1 DEF WalkOf
    <2>3. PICK tries : tries = attempts'[r] /\ RetryShaped(tries)
      BY <2>1, <2>2, RetryShape
    <2>4. Len(results'[r]) = pos'[r] - 1 /\ pos'[r] - 1 = 0
      BY <2>1, <2>2
    <2>5. QED
      BY <2>1, <2>3, <2>4 DEF WalkOf, Walk
  <1>8. CASE TryNext(r) \/ Answer(r)
    BY <1>8, WalkGrows
  <1>9. QED
    BY <1>2, <1>3, <1>4, <1>5, <1>6, <1>7, <1>8

LEMMA WalkInvariant == Spec => []WalkInv
<1>1. Init => WalkInv
  BY DEF Init, WalkInv, WalkOf
<1>2. TypeInv /\ WalkInv /\ [Next]_vars => WalkInv'
  <2> SUFFICES ASSUME TypeInv, WalkInv, [Next]_vars, NEW s \in Requests
               PROVE  WalkOf(s)'
    BY DEF WalkInv
  <2>1. WalkOf(s)
    BY DEF WalkInv
  <2>2. ASSUME NEW r \in Requests, s # r,
               \/ Start(r) \/ Unroutable(r) \/ StartPinned(r) \/ CtxDone(r)
               \/ Check(r) \/ Build(r) \/ TryNext(r) \/ Answer(r)
        PROVE  WalkOf(s)'
    BY <2>1, <2>2, Types, OthersKept, WalkKept DEF Step
  <2>3. ASSUME Idle PROVE WalkOf(s)'
    BY <2>1, <2>3, IdleKeeps, WalkKept
  <2>4. QED
    BY <2>1, <2>2, <2>3, IdleSteps, WalkStep
<1>3. QED
  BY <1>1, <1>2, TypeInvariant, PTL DEF Spec

(* A request never returns a failure with a key left untried.              *)
THEOREM RoutingExhaustsBeforeFailing == Spec => []ExhaustsBeforeFailing
<1>1. TypeInv /\ WalkInv => ExhaustsBeforeFailing
  <2> SUFFICES ASSUME TypeInv, WalkInv, NEW r \in Requests, pc[r] = "ended",
                      Len(results[r]) > 0,
                      results[r][Len(results[r])].outcome \in Failures,
                      NEW i \in 1 .. Len(attempts[r])
               PROVE  \E j \in 1 .. Len(results[r]) : results[r][j].key = attempts[r][i]
    BY DEF ExhaustsBeforeFailing
  <2>1. PICK tries \in Seq(Keys), done \in Seq(Results), p \in Nat \ {0} :
           tries = attempts[r] /\ done = results[r] /\ p = pos[r]
    BY DEF TypeInv, RequestTypes
  <2>2. RetryShaped(tries) /\ Len(done) = p /\ Stopped(tries, done, p)
        /\ Walk(tries, done, p - 1, plan[r].endpoint)
    BY <2>1 DEF WalkInv, WalkOf
  <2>3. PICK n \in Nat : n = Len(tries)
    OBVIOUS
  <2>4. \A j \in 1 .. p : done[j].key = tries[j]
    <3>1. \A j \in 1 .. p : j \in 1 .. p - 1 \/ j = p
      OBVIOUS
    <3>2. QED
      BY <2>2, <3>1 DEF Walk, Stopped
  <2>5. i \in 1 .. n
    BY <2>1, <2>3
  <2>6. CASE i \in 1 .. p
    BY <2>1, <2>2, <2>4, <2>6
  <2>7. CASE i \notin 1 .. p
    <3>1. p < i /\ p < n /\ tries[p + 1] = tries[p]
      BY <2>1, <2>2, <2>3, <2>5, <2>7 DEF Stopped
    <3>2. p + 1 = n
      <4>1. ASSUME p + 1 # n PROVE FALSE
        <5>1. p \in 1 .. n - 1 /\ p + 1 \in 1 .. n - 1
          BY <3>1, <4>1
        <5>2. QED
          BY <2>2, <2>3, <3>1, <5>1 DEF RetryShaped
      <4>2. QED
        BY <4>1
    <3>3. i = p + 1 /\ p \in 1 .. p
      BY <2>5, <3>1, <3>2
    <3>4. done[p].key = tries[i]
      BY <2>4, <3>1, <3>3
    <3>5. QED
      BY <2>1, <2>2, <3>3, <3>4
  <2>8. QED
    BY <2>6, <2>7
<1>2. QED
  BY <1>1, TypeInvariant, WalkInvariant, PTL

(* No key is tried twice but the last one, and that not after a 401 or     *)
(* 403, embeddings apart.                                                  *)
THEOREM RoutingRetriesOnlyWhatMayPass == Spec => []RetriesOnlyWhatMayPass
<1>1. TypeInv /\ WalkInv => RetriesOnlyWhatMayPass
  <2> SUFFICES ASSUME TypeInv, WalkInv, NEW r \in Requests,
                      NEW j \in 1 .. Len(results[r]), NEW i \in 1 .. j - 1,
                      results[r][i].key = results[r][j].key
               PROVE  /\ i = j - 1 /\ j = Len(attempts[r])
                      /\ plan[r].endpoint = "chat" => results[r][i].outcome # "unauthorized"
    BY DEF RetriesOnlyWhatMayPass
  <2>1. PICK tries \in Seq(Keys), done \in Seq(Results), p \in Nat \ {0} :
           tries = attempts[r] /\ done = results[r] /\ p = pos[r]
    BY DEF TypeInv, RequestTypes
  <2>2. done # <<>> /\ pc[r] \in {"new", "checking", "trying", "ended"}
    BY <2>1 DEF TypeInv, RequestTypes
  <2>3. pc[r] \in {"trying", "ended"}
    BY <2>1, <2>2 DEF WalkInv, WalkOf, TypeInv, PhaseOf
  <2>4. PICK m \in Nat : m = Len(done)
    OBVIOUS
  <2>5. PICK n \in Nat : n = Len(tries)
    OBVIOUS
  <2>6. /\ RetryShaped(tries) /\ m <= n /\ j - 1 <= p - 1
        /\ Walk(tries, done, p - 1, plan[r].endpoint)
        /\ done[j].key = tries[j]
    <3>1. CASE pc[r] = "trying"
      <4>1. /\ RetryShaped(tries) /\ m = p - 1 /\ p <= n
            /\ Walk(tries, done, p - 1, plan[r].endpoint)
        BY <2>1, <2>4, <2>5, <3>1 DEF WalkInv, WalkOf, TypeInv, PhaseOf
      <4>2. j \in 1 .. p - 1
        BY <2>1, <2>4, <4>1
      <4>3. QED
        BY <4>1, <4>2 DEF Walk
    <3>2. CASE pc[r] = "ended"
      <4>1. /\ RetryShaped(tries) /\ m = p /\ Stopped(tries, done, p)
            /\ Walk(tries, done, p - 1, plan[r].endpoint)
        BY <2>1, <2>2, <2>4, <2>5, <3>2 DEF WalkInv, WalkOf
      <4>2. m <= n
        BY <2>5, <4>1 DEF Stopped
      <4>3. j \in 1 .. p - 1 \/ j = p
        BY <2>1, <2>4, <4>1
      <4>4. done[j].key = tries[j]
        BY <4>1, <4>3 DEF Walk, Stopped
      <4>5. j - 1 <= p - 1
        BY <4>3
      <4>6. QED
        BY <4>1, <4>2, <4>4, <4>5
    <3>3. QED
      BY <2>3, <3>1, <3>2
  <2>7. i \in 1 .. p - 1 /\ j \in 1 .. n /\ i < j /\ i \in Nat
    BY <2>1, <2>4, <2>6
  <2>8. tries[i] = tries[j]
    BY <2>1, <2>6, <2>7 DEF Walk
  <2>9. j = n
    <3>1. ASSUME j # n PROVE FALSE
      <4>1. i \in 1 .. n - 1 /\ j \in 1 .. n - 1
        BY <2>7, <3>1
      <4>2. QED
        BY <2>5, <2>6, <2>7, <2>8, <4>1 DEF RetryShaped
    <3>2. QED
      BY <3>1
  <2>10. i = n - 1
    <3>1. tries[n] = tries[n - 1] /\ n > 1
      BY <2>5, <2>6 DEF RetryShaped
    <3>2. i \in 1 .. n - 1 /\ n - 1 \in 1 .. n - 1
      BY <2>7, <2>9, <3>1
    <3>3. QED
      BY <2>5, <2>6, <2>8, <2>9, <3>1, <3>2 DEF RetryShaped
  <2>11. tries[i + 1] = tries[i]
    BY <2>7, <2>8, <2>9, <2>10
  <2>12. \/ done[i].outcome # "unauthorized" \/ plan[r].endpoint = "embeddings"
    BY <2>6, <2>7, <2>11 DEF Walk
  <2>13. QED
    BY <2>1, <2>5, <2>9, <2>10, <2>12
<1>2. QED
  BY <1>1, TypeInvariant, WalkInvariant, PTL
-----------------------------------------------------------------------------
(* A key that a request has chosen was not cooling when it looked, or has  *)
(* failed since.                                                           *)
Chosen(k, u) == entries[k] <= u \/ FailedSince(k, u)

ChoiceOf(r) ==
    /\ pc[r] = "checking" => \A k \in InSeq(attempts[r]) : Chosen(k, asOf[r])
    /\ pc[r] = "trying" =>
          \/ plan[r].strategy = "pinned"
          \/ \A k \in InSeq(order[r]) : Excused(r, k)
          \/ \A k \in InSeq(attempts[r]) : Chosen(k, asOf[r])

ChoiceInv == \A r \in Requests : ChoiceOf(r)

LEMMA ChosenStay ==
    ASSUME TypeInv, [Next]_vars, NEW k \in Keys, NEW u \in Nat, u <= now, now <= now',
           now' \in Nat, Chosen(k, u)
    PROVE  Chosen(k, u)'
  <1>1. PICK t : t = entries'[k]
    OBVIOUS
  <1>2. ASSUME FailedSince(k, u) PROVE FailedSince(k, u)'
    <2>1. PICK s \in Requests : \E i \in 1 .. Len(results[s]) :
             /\ results[s][i].key = k /\ results[s][i].outcome \in Failures
             /\ results[s][i].at >= u
      BY <1>2 DEF FailedSince
    <2>2. PICK i \in 1 .. Len(results[s]) :
             /\ results[s][i].key = k /\ results[s][i].outcome \in Failures
             /\ results[s][i].at >= u
      BY <2>1
    <2>3. i \in 1 .. Len(results'[s]) /\ results'[s][i] = results[s][i]
      BY ResultsGrow
    <2>4. QED
      BY <2>2, <2>3 DEF FailedSince
  <1>3. ASSUME JustFailed(k, t)' PROVE FailedSince(k, u)'
    <2>1. now' >= u
      BY DEF TypeInv, TrackerTypes
    <2>2. QED
      BY <1>3, <2>1 DEF JustFailed, FailedSince
  <1>4. ASSUME t = entries[k] PROVE Chosen(k, u)'
    BY <1>1, <1>2, <1>4 DEF Chosen
  <1>5. ASSUME t = 0 PROVE Chosen(k, u)'
    BY <1>1, <1>5 DEF Chosen
  <1>6. QED
    BY <1>1, <1>3, <1>4, <1>5, EarnedStep DEF Chosen

LEMMA KeysOfAttempts ==
    ASSUME TypeInv, NEW r \in Requests
    PROVE  InSeq(attempts[r]) \subseteq Keys /\ asOf[r] \in Nat /\ asOf[r] <= now
  <1>1. attempts[r] \in Seq(Keys)
    BY DEF TypeInv, RequestTypes
  <1>2. QED
    BY <1>1 DEF TypeInv, RequestTypes, PhaseOf, InSeq

LEMMA ChoiceKept ==
    ASSUME TypeInv, [Next]_vars, NEW s \in Requests, ChoiceOf(s),
           Kept(s) \/ TryNext(s), now <= now', now' \in Nat
    PROVE  ChoiceOf(s)'
  <1>1. /\ pc'[s] = pc[s] /\ plan'[s] = plan[s] /\ order'[s] = order[s]
        /\ asOf'[s] = asOf[s] /\ attempts'[s] = attempts[s]
    BY DEF Kept, TryNext
  <1>2. PICK u \in Nat : u = asOf[s] /\ u = asOf'[s] /\ u <= now
    BY <1>1, KeysOfAttempts
  <1>3. PICK keys, tries : /\ keys = order[s] /\ keys = order'[s]
                           /\ tries = attempts[s] /\ tries = attempts'[s]
    BY <1>1
  <1>4. \A k \in InSeq(tries) : k \in Keys
    BY <1>3, KeysOfAttempts
  <1>5. ASSUME NEW k \in InSeq(tries), Chosen(k, u) PROVE Chosen(k, u)'
    BY <1>2, <1>4, <1>5, ChosenStay
  <1>6. ASSUME NEW k, Excused(s, k) PROVE Excused(s, k)'
    BY <1>1, <1>6, ExcusedStay
  <1>7. ASSUME pc[s] = "checking" PROVE \A k \in InSeq(tries) : Chosen(k, u)'
    <2>1. \A k \in InSeq(tries) : Chosen(k, u)
      BY <1>2, <1>3, <1>7 DEF ChoiceOf
    <2>2. QED
      BY <1>5, <2>1
  <1>8. ASSUME pc[s] = "trying"
        PROVE  \/ plan'[s].strategy = "pinned"
               \/ \A k \in InSeq(keys) : Excused(s, k)'
               \/ \A k \in InSeq(tries) : Chosen(k, u)'
    <2>1. \/ plan[s].strategy = "pinned"
          \/ \A k \in InSeq(keys) : Excused(s, k)
          \/ \A k \in InSeq(tries) : Chosen(k, u)
      BY <1>2, <1>3, <1>8 DEF ChoiceOf
    <2>2. QED
      BY <1>1, <1>5, <1>6, <2>1
  <1>9. QED
    BY <1>1, <1>2, <1>3, <1>7, <1>8 DEF ChoiceOf, Chosen, FailedSince, Excused

LEMMA RetryAddsNone ==
    ASSUME NEW keys \in Seq(Keys), Len(keys) # 0
    PROVE  InSeq(WithRetry(keys)) \subseteq InSeq(keys)
  <1>1. PICK tries \in Seq(Keys) : /\ tries = WithRetry(keys) /\ Len(tries) = Len(keys) + 1
                                   /\ \A i \in 1 .. Len(keys) : tries[i] = keys[i]
                                   /\ tries[Len(keys) + 1] = keys[Len(keys)]
    BY WithRetryFacts
  <1>2. ASSUME NEW i \in 1 .. Len(tries) PROVE \E j \in 1 .. Len(keys) : tries[i] = keys[j]
    <2>1. i \in 1 .. Len(keys) \/ i = Len(keys) + 1
      BY <1>1
    <2>2. Len(keys) \in 1 .. Len(keys)
      OBVIOUS
    <2>3. QED
      BY <1>1, <2>1, <2>2
  <1>3. QED
    BY <1>1, <1>2 DEF InSeq

LEMMA ChoiceStep ==
    ASSUME TypeInv, SkipInv, [Next]_vars, NEW r \in Requests, ChoiceOf(r),
           now <= now', now' \in Nat,
           \/ Start(r) \/ Unroutable(r) \/ StartPinned(r) \/ CtxDone(r)
           \/ Check(r) \/ Build(r) \/ TryNext(r) \/ Answer(r)
    PROVE  ChoiceOf(r)'
  <1>1. RequestTypes /\ PhaseOf(r)
    BY DEF TypeInv
  <1>2. CASE Start(r)
    <2>1. pc'[r] = "checking" /\ attempts'[r] = <<>>
      BY <1>1, <1>2 DEF Start, RequestTypes, PhaseOf
    <2>2. QED
      BY <2>1 DEF ChoiceOf, InSeq
  <1>3. CASE Unroutable(r) \/ Answer(r)
    <2>1. pc'[r] = "ended"
      BY <1>1, <1>3 DEF Unroutable, Answer, RequestTypes
    <2>2. QED
      BY <2>1 DEF ChoiceOf
  <1>4. CASE StartPinned(r)
    <2>1. pc'[r] = "trying" /\ plan'[r].strategy = "pinned"
      BY <1>1, <1>4 DEF StartPinned, RequestTypes
    <2>2. QED
      BY <2>1 DEF ChoiceOf
  <1>5. CASE CtxDone(r)
    <2>1. Kept(r)
      BY <1>5 DEF CtxDone, Kept
    <2>2. QED
      BY <2>1, ChoiceKept
  <1>6. CASE Check(r)
    <2>1. PICK keys \in Seq(Keys) : keys = order[r]
      BY <1>6, CheckFacts
    <2>2. PICK p \in 1 .. Len(keys) : p = pos[r]
      BY <1>6, <2>1, CheckFacts
    <2>3. PICK tries \in Seq(Keys) : tries = attempts[r]
      BY <1>6, CheckFacts
    <2>4. PICK tries2 : tries2 = attempts'[r]
      OBVIOUS
    <2>5. PICK u \in Nat : u = asOf[r] /\ u = asOf'[r] /\ u <= now
      BY <1>6, CheckFacts, KeysOfAttempts
    <2>6. /\ pc[r] = "checking" /\ pc'[r] = "checking" /\ keys[p] \in Keys
          /\ \/ tries2 = tries
             \/ tries2 = Append(tries, keys[p]) /\ entries[keys[p]] <= u
      BY <1>6, <2>1, <2>2, <2>3, <2>4, <2>5, CheckFacts
    <2>7. ASSUME NEW k \in InSeq(tries2) PROVE k \in Keys /\ Chosen(k, u)
      <3>1. ASSUME NEW i \in 1 .. Len(tries) PROVE tries[i] \in Keys /\ Chosen(tries[i], u)
        BY <2>3, <2>5, <2>6 DEF ChoiceOf, InSeq
      <3>2. CASE tries2 = tries
        BY <3>1, <3>2 DEF InSeq
      <3>3. CASE tries2 = Append(tries, keys[p]) /\ entries[keys[p]] <= u
        <4>1. PICK i \in 1 .. Len(tries) + 1 : k = tries2[i]
          BY <3>3 DEF InSeq
        <4>2. CASE i \in 1 .. Len(tries)
          <5>1. k = tries[i]
            BY <3>3, <4>1, <4>2
          <5>2. QED
            BY <3>1, <4>2, <5>1
        <4>3. CASE i = Len(tries) + 1
          <5>1. k = keys[p]
            BY <3>3, <4>1, <4>3
          <5>2. QED
            BY <2>6, <3>3, <5>1 DEF Chosen
        <4>4. QED
          BY <4>2, <4>3
      <3>4. QED
        BY <2>6, <3>2, <3>3
    <2>8. \A k \in InSeq(tries2) : Chosen(k, u)'
      BY <2>5, <2>7, ChosenStay
    <2>9. QED
      BY <2>4, <2>5, <2>6, <2>8 DEF ChoiceOf, Chosen, FailedSince
  <1>7. CASE Build(r)
    <2>1. PICK keys \in Seq(Keys) :
             /\ keys = (IF attempts[r] = <<>> THEN order[r] ELSE attempts[r]) /\ Len(keys) # 0
             /\ attempts'[r] = WithRetry(keys)
             /\ pc[r] = "checking" /\ pc'[r] = "trying" /\ pos'[r] = 1
             /\ pos[r] = Len(order[r]) + 1 /\ order[r] \in Seq(Keys)
             /\ UNCHANGED <<order, asOf, results, plan>>
      BY <1>7, BuildFacts
    <2>2. PICK list \in Seq(Keys) : list = order[r] /\ list = order'[r]
      BY <2>1
    <2>3. PICK tries2 : tries2 = WithRetry(keys) /\ tries2 = attempts'[r]
      BY <2>1
    <2>4. PICK u \in Nat : u = asOf[r] /\ u = asOf'[r] /\ u <= now
      BY <2>1, KeysOfAttempts
    <2>5. CASE attempts[r] = <<>>
      <3>1. ASSUME NEW k \in InSeq(list) PROVE Excused(r, k)'
        <4>1. PICK j \in 1 .. Len(list) : k = list[j]
          BY DEF InSeq
        <4>2. j \in 1 .. pos[r] - 1
          BY <2>1, <2>2
        <4>3. k \notin InSeq(attempts[r])
          BY <2>5 DEF InSeq
        <4>4. Excused(r, k)
          BY <2>1, <2>2, <4>1, <4>2, <4>3 DEF SkipInv, SkipOf
        <4>5. QED
          BY <2>1, <4>4, ExcusedStay
      <3>2. QED
        BY <2>1, <2>2, <3>1 DEF ChoiceOf, Excused
    <2>6. CASE attempts[r] # <<>>
      <3>1. ASSUME NEW k \in InSeq(tries2) PROVE Chosen(k, u)'
        <4>1. k \in InSeq(attempts[r])
          BY <2>1, <2>3, <2>6, RetryAddsNone
        <4>2. k \in Keys /\ Chosen(k, u)
          BY <2>1, <2>4, <4>1, KeysOfAttempts DEF ChoiceOf
        <4>3. QED
          BY <2>4, <4>2, ChosenStay
      <3>2. QED
        BY <2>1, <2>3, <2>4, <3>1 DEF ChoiceOf, Chosen, FailedSince
    <2>7. QED
      BY <2>5, <2>6
  <1>8. CASE TryNext(r)
    BY <1>8, ChoiceKept
  <1>9. QED
    BY <1>2, <1>3, <1>4, <1>5, <1>6, <1>7, <1>8

LEMMA ChoiceInvariant == Spec => []ChoiceInv
<1>1. Init => ChoiceInv
  BY DEF Init, ChoiceInv, ChoiceOf
<1>2. TypeInv /\ SkipInv /\ ChoiceInv /\ [Next]_vars => ChoiceInv'
  <2> SUFFICES ASSUME TypeInv, SkipInv, ChoiceInv, [Next]_vars, NEW s \in Requests
               PROVE  ChoiceOf(s)'
    BY DEF ChoiceInv
  <2>1. ChoiceOf(s)
    BY DEF ChoiceInv
  <2>2. now <= now' /\ now' \in Nat
    BY TrackerStep, TrackerKeepsTypes DEF TypeInv, TrackerTypes
  <2>3. ASSUME NEW r \in Requests, s # r,
               \/ Start(r) \/ Unroutable(r) \/ StartPinned(r) \/ CtxDone(r)
               \/ Check(r) \/ Build(r) \/ TryNext(r) \/ Answer(r)
        PROVE  ChoiceOf(s)'
    BY <2>1, <2>2, <2>3, Types, OthersKept, ChoiceKept DEF Step
  <2>4. ASSUME Idle PROVE ChoiceOf(s)'
    BY <2>1, <2>2, <2>4, IdleKeeps, ChoiceKept
  <2>5. QED
    BY <2>1, <2>2, <2>3, <2>4, IdleSteps, ChoiceStep
<1>3. QED
  BY <1>1, <1>2, SkipInvariant, TypeInvariant, PTL DEF Spec

(* What a request has chosen was not cooling when it began to look, or has *)
(* failed since, unless all keys were cooling or an operator pinned one.   *)
THEOREM RoutingChosenWereFree == Spec => []ChosenWereFree
<1>1. ChoiceInv => ChosenWereFree
  BY DEF ChoiceInv, ChoiceOf, Chosen, Excused, AllCooling, ChosenWereFree
<1>2. QED
  BY <1>1, ChoiceInvariant, PTL

(* A request that could avoid a cooling key never ends its cooldown.       *)
THEOREM RoutingPardonExplained == Spec => PardonExplained
<1>1. TypeInv /\ ChoiceInv =>
         \A r \in Requests :
            pc[r] = "trying" /\ Tracker!InForce(key(r), now) =>
               \/ plan[r].strategy = "pinned"
               \/ FailedSince(key(r), asOf[r])
               \/ AllCooling(r)
  <2> SUFFICES ASSUME TypeInv, ChoiceInv, NEW r \in Requests, pc[r] = "trying",
                      Tracker!InForce(key(r), now), plan[r].strategy # "pinned",
                      ~ \A other \in InSeq(order[r]) : Excused(r, other)
               PROVE  FailedSince(key(r), asOf[r])
    BY DEF AllCooling, Excused
  <2>1. key(r) \in Keys /\ key(r) \in InSeq(attempts[r])
    BY KeyType, Types DEF key, InSeq
  <2>2. Chosen(key(r), asOf[r])
    BY <2>1 DEF ChoiceInv, ChoiceOf
  <2>3. entries[key(r)] > now /\ entries[key(r)] \in Nat /\ now \in Nat
    BY <2>1, ConstantFacts DEF Tracker!InForce, TypeInv, TrackerTypes
  <2>4. asOf[r] \in Nat /\ asOf[r] <= now
    BY KeysOfAttempts
  <2>5. QED
    BY <2>2, <2>3, <2>4 DEF Chosen
<1>2. TypeInv /\ ChoiceInv => Justified
  BY <1>1 DEF Justified
<1>3. QED
  BY <1>2, ChoiceInvariant, TypeInvariant, PTL DEF Spec, PardonExplained
-----------------------------------------------------------------------------
(* The rotation of the keys *)

LEMMA RankedFacts ==
    ASSUME NEW s \in Seq(Keys), Ranked(s)
    PROVE  /\ \A i, j \in 1 .. Len(s) : s[i] = s[j] => i = j
           /\ \A i \in 1 .. Len(s) : Rank[s[i]] \in Nat
  <1>1. \A i \in 1 .. Len(s) : s[i] \in Keys
    OBVIOUS
  <1>2. \A i \in 1 .. Len(s) : Rank[s[i]] \in Nat
    BY <1>1, RoutingAssumption
  <1>3. ASSUME NEW i \in 1 .. Len(s), NEW j \in 1 .. Len(s), s[i] = s[j] PROVE i = j
    <2>1. ~(i < j) /\ ~(j < i)
      BY <1>2, <1>3 DEF Ranked
    <2>2. QED
      BY <2>1
  <1>4. QED
    BY <1>2, <1>3

(* Two lists of the same keys in the order of their ranks agree up to the  *)
(* first place where they differ, and there each would have to rank before *)
(* the other.                                                              *)
LEMMA RankedAgree ==
    ASSUME NEW s \in Seq(Keys), NEW t \in Seq(Keys), Ranked(s), Ranked(t),
           InSeq(s) = InSeq(t), NEW i \in 1 .. Len(s), i \in 1 .. Len(t),
           \A j \in 1 .. i - 1 : s[j] = t[j], s[i] # t[i]
    PROVE  Rank[t[i]] < Rank[s[i]]
  <1>1. PICK j \in 1 .. Len(t) : t[j] = s[i]
    <2>1. s[i] \in InSeq(s)
      BY DEF InSeq
    <2>2. s[i] \in InSeq(t)
      BY <2>1
    <2>3. QED
      BY <2>2 DEF InSeq
  <1>2. ~(j < i)
    <2> SUFFICES ASSUME j < i PROVE FALSE
      OBVIOUS
    <2>1. j \in 1 .. Len(s) /\ s[j] = s[i]
      BY <1>1
    <2>2. QED
      BY <2>1, RankedFacts
  <1>3. i < j
    BY <1>1, <1>2
  <1>4. QED
    BY <1>1, <1>3 DEF Ranked

LEMMA RankedPrefix ==
    ASSUME NEW s \in Seq(Keys), NEW t \in Seq(Keys), Ranked(s), Ranked(t),
           InSeq(s) = InSeq(t)
    PROVE  \A i \in 1 .. Len(s) : i \in 1 .. Len(t) => s[i] = t[i]
  <1> DEFINE N == {i \in 1 .. Len(s) : i \in 1 .. Len(t) /\ s[i] # t[i]}
  <1>1. ASSUME N # {} PROVE FALSE
    <2>1. N \in SUBSET Nat
      OBVIOUS
    <2>2. PICK i \in N : \A m \in N : i <= m
      <3> HIDE DEF N
      <3>1. QED
        BY <1>1, <2>1, LeastNumber
    <2>3. \A j \in 1 .. i - 1 : s[j] = t[j]
      BY <2>2
    <2>4. Rank[t[i]] < Rank[s[i]]
      BY <2>2, <2>3, RankedAgree
    <2>5. Rank[s[i]] < Rank[t[i]]
      BY <2>2, <2>3, RankedAgree
    <2>6. Rank[s[i]] \in Nat /\ Rank[t[i]] \in Nat
      BY <2>2, RankedFacts
    <2>7. QED
      BY <2>4, <2>5, <2>6
  <1>2. QED
    BY <1>1

LEMMA RankedNotLonger ==
    ASSUME NEW s \in Seq(Keys), NEW t \in Seq(Keys), Ranked(s), Ranked(t),
           InSeq(s) = InSeq(t)
    PROVE  Len(t) <= Len(s)
  <1> SUFFICES ASSUME Len(s) < Len(t) PROVE FALSE
    OBVIOUS
  <1>1. PICK l \in 1 .. Len(t) : l = Len(s) + 1
    OBVIOUS
  <1>2. t[l] \in InSeq(t)
    BY DEF InSeq
  <1>3. t[l] \in InSeq(s)
    BY <1>2
  <1>4. PICK i \in 1 .. Len(s) : s[i] = t[l]
    BY <1>3 DEF InSeq
  <1>5. i \in 1 .. Len(t) /\ t[i] = s[i]
    BY RankedPrefix
  <1>6. i = l
    BY <1>4, <1>5, RankedFacts
  <1>7. QED
    BY <1>1, <1>6

(* The order of a request in round robin is the list by rank, turned.      *)
Turned(list, n) ==
    \E keys \in Seq(Keys) :
        /\ Ranked(keys) /\ Len(keys) # 0
        /\ InSeq(keys) = InSeq(list) /\ Len(keys) = Len(list)
        /\ list[1] = keys[(n % Len(keys)) + 1]

LEMMA SpreadFacts ==
    ASSUME NEW a, NEW b, InSeq(a) = InSeq(b), NEW m \in Nat, NEW n \in Nat, m # n,
           Turned(a, m), Turned(b, n), m < Len(a), n < Len(a)
    PROVE  a[1] # b[1]
  <1>1. PICK s \in Seq(Keys) : /\ Ranked(s) /\ Len(s) # 0
                               /\ InSeq(s) = InSeq(a) /\ Len(s) = Len(a)
                               /\ a[1] = s[(m % Len(s)) + 1]
    BY DEF Turned
  <1>2. PICK t \in Seq(Keys) : /\ Ranked(t) /\ Len(t) # 0
                               /\ InSeq(t) = InSeq(b) /\ Len(t) = Len(b)
                               /\ b[1] = t[(n % Len(t)) + 1]
    BY DEF Turned
  <1>3. Len(t) <= Len(s) /\ Len(s) <= Len(t)
    BY <1>1, <1>2, RankedNotLonger
  <1>4. PICK l \in Nat \ {0} : l = Len(s) /\ l = Len(t)
    BY <1>1, <1>3
  <1>5. \A i \in Nat, d \in Nat \ {0} : i < d => i % d = i
    BY SMT
  <1>6. m < l /\ n < l /\ m % l = m /\ n % l = n
    BY <1>1, <1>4, <1>5
  <1>7. a[1] = s[m + 1] /\ b[1] = t[n + 1]
    BY <1>1, <1>2, <1>4, <1>6
  <1>8. m + 1 \in 1 .. Len(s) /\ n + 1 \in 1 .. Len(s) /\ n + 1 \in 1 .. Len(t)
    BY <1>4, <1>6
  <1>9. t[n + 1] = s[n + 1]
    BY <1>1, <1>2, <1>8, RankedPrefix
  <1>10. s[m + 1] # s[n + 1]
    BY <1>1, <1>8, RankedFacts
  <1>11. QED
    BY <1>7, <1>9, <1>10

LEMMA RotationTurns ==
    ASSUME counter \in Nat, NEW active \in (SUBSET Keys) \ {{}},
           NEW keys \in ActiveKeys(active)
    PROVE  Turned(Rotated(keys), counter)
  <1>1. keys \in Seq(Keys) /\ Len(keys) \in Nat \ {0} /\ Distinct(keys)
    BY ActiveKeysFacts
  <1>2. PICK len \in Nat \ {0} : len = Len(keys)
    BY <1>1
  <1>3. PICK rotated : rotated = Rotated(keys)
    OBVIOUS
  <1>4. PICK n \in 0 .. len - 1 : n = counter % len
    BY ModFacts
  <1>5. /\ Len(rotated) = len
        /\ \A i \in 1 .. len - n : rotated[i] = keys[i + n]
        /\ \A i \in len - n + 1 .. len : rotated[i] = keys[i - (len - n)]
    BY <1>1, <1>2, <1>3, <1>4, RotatedFacts
  <1>6. Ranked(keys)
    BY ActiveKeysFacts
  <1>7. rotated[1] = keys[n + 1]
    <2>1. 1 \in 1 .. len - n
      OBVIOUS
    <2>2. rotated[1] = keys[1 + n]
      BY <1>5, <2>1
    <2>3. QED
      BY <2>2
  <1>8. InSeq(rotated) \subseteq InSeq(keys)
    <2>1. ASSUME NEW i \in 1 .. len PROVE \E j \in 1 .. len : rotated[i] = keys[j]
      <3>1. CASE i \in 1 .. len - n
        BY <1>5, <3>1
      <3>2. CASE i \in len - n + 1 .. len
        <4>1. i - (len - n) \in 1 .. len
          BY <3>2
        <4>2. QED
          BY <1>5, <3>2, <4>1
      <3>3. QED
        BY <3>1, <3>2
    <2>2. QED
      BY <1>2, <1>5, <2>1 DEF InSeq
  <1>9. InSeq(keys) \subseteq InSeq(rotated)
    <2>1. ASSUME NEW j \in 1 .. len PROVE \E i \in 1 .. len : rotated[i] = keys[j]
      <3>1. CASE j > n
        <4>1. j - n \in 1 .. len - n /\ (j - n) + n = j /\ j - n \in 1 .. len
          BY <3>1
        <4>2. rotated[j - n] = keys[(j - n) + n]
          BY <1>5, <4>1
        <4>3. QED
          BY <4>1, <4>2
      <3>2. CASE j <= n
        <4>1. /\ j + (len - n) \in len - n + 1 .. len
              /\ (j + (len - n)) - (len - n) = j
              /\ j + (len - n) \in 1 .. len
          BY <3>2
        <4>2. rotated[j + (len - n)] = keys[(j + (len - n)) - (len - n)]
          BY <1>5, <4>1
        <4>3. QED
          BY <4>1, <4>2
      <3>3. QED
        BY <3>1, <3>2
    <2>2. ASSUME NEW k \in InSeq(keys) PROVE k \in InSeq(rotated)
      <3>1. PICK j \in 1 .. len : k = keys[j]
        BY <1>2 DEF InSeq
      <3>2. PICK i \in 1 .. len : rotated[i] = k
        BY <2>1, <3>1
      <3>3. QED
        BY <1>5, <3>2 DEF InSeq
    <2>3. QED
      BY <2>2
  <1>10. InSeq(rotated) = InSeq(keys)
    BY <1>8, <1>9
  <1>11. rotated[1] = keys[(counter % Len(keys)) + 1] /\ Len(rotated) = Len(keys)
    BY <1>2, <1>4, <1>5, <1>7
  <1>12. Turned(rotated, counter)
    BY <1>1, <1>6, <1>10, <1>11 DEF Turned
  <1>13. QED
    BY <1>3, <1>12

InTurn(r) == plan[r].strategy = "round_robin"

(* Every request in round robin has a turn of the counter of its own.      *)
TurnsAre(turn) ==
    \A r \in Requests : InTurn(r) =>
        /\ turn[r] < counter
        /\ Turned(order[r], turn[r])
        /\ \A s \in Requests : InTurn(s) /\ s # r => turn[s] # turn[r]

TurnInv == \E turn \in [Requests -> Nat] : TurnsAre(turn)

LEMMA TurnsKept ==
    ASSUME NEW turn, TurnsAre(turn), counter' = counter,
           \A s \in Requests : InTurn(s)' => InTurn(s) /\ order'[s] = order[s]
    PROVE  TurnsAre(turn)'
  <1>1. ASSUME NEW s \in Requests, InTurn(s)'
        PROVE  turn[s] < counter' /\ Turned(order'[s], turn[s])
    BY <1>1 DEF TurnsAre
  <1>2. ASSUME NEW s \in Requests, NEW q \in Requests, InTurn(s)', InTurn(q)', q # s
        PROVE  turn[q] # turn[s]
    BY <1>2 DEF TurnsAre
  <1>3. QED
    BY <1>1, <1>2 DEF TurnsAre, Turned, InSeq, Ranked

LEMMA TurnStep == TypeInv /\ TurnInv /\ [Next]_vars => TurnInv'
  <1> SUFFICES ASSUME TypeInv, TurnInv, [Next]_vars PROVE TurnInv'
    OBVIOUS
  <1>1. PICK turn \in [Requests -> Nat] : TurnsAre(turn)
    BY DEF TurnInv
  <1>2. TypeOK /\ counter \in Nat
    BY Types DEF TypeInv, RequestTypes
  <1>3. ASSUME NEW r \in Requests, Start(r) PROVE TurnInv'
    <2>1. PICK active \in (SUBSET Keys) \ {{}}, strategy \in Strategies, endpoint \in Endpoints :
             \E keys \in ActiveKeys(active) :
               /\ plan' = [plan EXCEPT ![r] = [strategy |-> strategy, endpoint |-> endpoint]]
               /\ order' = [order EXCEPT ![r] =
                               IF strategy = "round_robin" THEN Rotated(keys) ELSE keys]
               /\ counter' = IF strategy = "round_robin" THEN counter + 1 ELSE counter
      BY <1>3 DEF Start
    <2>2. PICK keys \in ActiveKeys(active) :
             /\ plan' = [plan EXCEPT ![r] = [strategy |-> strategy, endpoint |-> endpoint]]
             /\ order' = [order EXCEPT ![r] =
                             IF strategy = "round_robin" THEN Rotated(keys) ELSE keys]
             /\ counter' = IF strategy = "round_robin" THEN counter + 1 ELSE counter
      BY <2>1
    <2>3. /\ plan'[r].strategy = strategy
          /\ \A s \in Requests \ {r} : plan'[s] = plan[s] /\ order'[s] = order[s]
      BY <1>2, <2>2 DEF TypeOK
    <2>4. CASE strategy = "round_robin"
      <3>1. order'[r] = Rotated(keys) /\ counter' = counter + 1
        BY <1>2, <2>2, <2>4 DEF TypeOK
      <3>2. Turned(order'[r], counter)
        BY <1>2, <3>1, RotationTurns
      <3>3. PICK next \in [Requests -> Nat] : next = [turn EXCEPT ![r] = counter]
        BY <1>2
      <3>4. next[r] = counter /\ \A s \in Requests \ {r} : next[s] = turn[s]
        BY <3>3
      <3>5. \A s \in Requests \ {r} : InTurn(s)' <=> InTurn(s)
        BY <2>3 DEF InTurn
      <3>6. ASSUME NEW s \in Requests, InTurn(s)'
            PROVE  next[s] < counter' /\ Turned(order'[s], next[s])
        BY <1>1, <1>2, <2>3, <3>1, <3>2, <3>4, <3>5, <3>6 DEF TurnsAre
      <3>7. ASSUME NEW s \in Requests, NEW q \in Requests, InTurn(s)', InTurn(q)', q # s
            PROVE  next[q] # next[s]
        BY <1>1, <1>2, <3>4, <3>5, <3>7 DEF TurnsAre
      <3>8. TurnsAre(next)'
        BY <3>6, <3>7 DEF TurnsAre, Turned, InSeq, Ranked
      <3>9. QED
        BY <3>8 DEF TurnInv
    <2>5. CASE strategy # "round_robin"
      <3>1. counter' = counter /\ ~InTurn(r)'
        BY <2>2, <2>3, <2>5 DEF InTurn
      <3>2. TurnsAre(turn)'
        BY <1>1, <2>3, <3>1, TurnsKept DEF InTurn
      <3>3. QED
        BY <3>2 DEF TurnInv
    <2>6. QED
      BY <2>4, <2>5
  <1>4. ASSUME NEW r \in Requests, StartPinned(r) PROVE TurnInv'
    <2>1. /\ counter' = counter /\ ~InTurn(r)'
          /\ \A s \in Requests \ {r} : plan'[s] = plan[s] /\ order'[s] = order[s]
      BY <1>2, <1>4 DEF StartPinned, TypeOK, InTurn
    <2>2. TurnsAre(turn)'
      BY <1>1, <2>1, TurnsKept DEF InTurn
    <2>3. QED
      BY <2>2 DEF TurnInv
  <1>5. CASE UNCHANGED <<plan, order, counter>>
    <2>1. TurnsAre(turn)'
      BY <1>1, <1>5, TurnsKept DEF InTurn
    <2>2. QED
      BY <2>1 DEF TurnInv
  <1>6. ASSUME NEW r \in Requests,
               \/ Unroutable(r) \/ CtxDone(r) \/ Check(r) \/ Build(r) \/ TryNext(r) \/ Answer(r)
        PROVE  UNCHANGED <<plan, order, counter>>
    BY <1>6 DEF Unroutable, CtxDone, Check, Build, TryNext, Answer, request
  <1>7. QED
    BY <1>3, <1>4, <1>5, <1>6, IdleSteps DEF Idle, request

(* As long as the counter has not come round, requests with the same       *)
(* active keys prefer different keys, however their steps interleave: no   *)
(* two of them read the same value of the counter.                         *)
THEOREM RoutingRotationSpreads == Spec => []RotationSpreads
<1>1. Init => TurnInv
  <2> SUFFICES ASSUME Init PROVE TurnsAre([r \in Requests |-> 0])
    BY DEF TurnInv
  <2>1. QED
    BY DEF Init, TurnsAre, InTurn
<1>2. TypeInv /\ TurnInv => RotationSpreads
  <2> SUFFICES ASSUME TypeInv, TurnInv, NEW r \in Requests, NEW s \in Requests, r # s,
                      InTurn(r), InTurn(s), InSeq(order[r]) = InSeq(order[s]),
                      counter <= Len(order[r])
               PROVE  order[r][1] # order[s][1]
    BY DEF RotationSpreads, InTurn
  <2>1. PICK turn \in [Requests -> Nat] : TurnsAre(turn)
    BY DEF TurnInv
  <2>2. counter \in Nat /\ Len(order[r]) \in Nat
    BY DEF TypeInv, RequestTypes
  <2>3. /\ turn[r] < Len(order[r]) /\ turn[s] < Len(order[r]) /\ turn[r] # turn[s]
        /\ Turned(order[r], turn[r]) /\ Turned(order[s], turn[s])
    BY <2>1, <2>2 DEF TurnsAre
  <2>4. QED
    BY <2>1, <2>3, SpreadFacts
<1>3. QED
  BY <1>1, <1>2, TurnStep, TypeInvariant, PTL DEF Spec
=============================================================================
