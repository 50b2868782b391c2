--------------------------- MODULE ClientQuota_proofs ---------------------------
(***************************************************************************)
(* Proofs about ClientQuota, for any number of requests and any limits and *)
(* lengths of second, minute and day: the limits on requests hold in every *)
(* window, a day's tokens are summed up, and they exceed their limit by a  *)
(* request only where requests overlap, as far as the counters live.       *)
(***************************************************************************)
EXTENDS ClientQuota, DataLemmas

(* What division by a positive number does. *)
LEMMA DivFacts ==
    ASSUME NEW t \in Nat, NEW n \in Nat \ {0}
    PROVE  /\ t \div n \in 0 .. t
           /\ (t \div n) * n <= t
           /\ t < (t \div n + 1) * n
  OBVIOUS

LEMMA MultFacts ==
    ASSUME NEW m \in Nat, NEW n \in Nat \ {0}
    PROVE  /\ m * n \in Nat /\ (m + 1) * n \in Nat \ {0}
           /\ (m + 1) * n = m * n + n
  OBVIOUS
-----------------------------------------------------------------------------
TimeInv == \A r \in Requests : at[r] <= now

LEMMA ConstantFacts ==
    /\ RPMLimit \in Nat /\ DailyRequestLimit \in Nat /\ DailyTokenLimit \in Nat
    /\ Usages \subseteq Nat /\ Minute \in Nat \ {0} /\ Day \in Nat \ {0} /\ MaxTime \in Nat
    /\ Second \in Nat \ {0} /\ Minute = (Minute \div Second) * Second
  BY QuotaAssumption

(* What is left of a time to live that is sent in seconds. *)
LEMMA FormatFacts ==
    ASSUME NEW ttl \in Nat
    PROVE  /\ formatSec(ttl) \in Nat
           /\ ttl < formatSec(ttl) + Second
           /\ 0 < ttl /\ ttl < Second => ttl <= formatSec(ttl)
  <1>1. Second \in Nat \ {0}
    BY ConstantFacts
  <1>2. CASE 0 < ttl /\ ttl < Second
    BY <1>1, <1>2 DEF formatSec
  <1>3. CASE ~(0 < ttl /\ ttl < Second)
    <2>1. PICK q \in Nat : q = ttl \div Second
      BY <1>1, DivFacts
    <2>2. q * Second \in Nat /\ (q + 1) * Second = q * Second + Second
      BY <1>1, MultFacts
    <2>3. ttl < (q + 1) * Second
      BY <1>1, <2>1, DivFacts
    <2>4. QED
      BY <1>3, <2>1, <2>2, <2>3 DEF formatSec
  <1>4. QED
    BY <1>2, <1>3

LEMMA MinuteInSeconds == formatSec(Minute) = Minute
  BY ConstantFacts DEF formatSec

(* The time at which Redis drops a day's counter that is incremented now.  *)
LEMMA DayTtlFacts ==
    ASSUME TypeOK, NEW t \in 0 .. MaxTime, NEW end, end = tomorrow(t), NEW x,
           x = now + formatSec(ttlUntilTomorrowUTC(t))
    PROVE  /\ ttlUntilTomorrowUTC(t) \in Nat /\ x \in Nat /\ end \in Nat /\ end < x + Second
           /\ now < end /\ end < now + Second => end <= x
  <1>1. now \in Nat /\ end \in Nat /\ Second \in Nat \ {0}
    <2>1. t \in Nat /\ t \div Day \in Nat
      BY ConstantFacts, DivFacts
    <2>2. QED
      BY <2>1, ConstantFacts, MultFacts DEF tomorrow, dayOf, TypeOK
  <1>2. PICK ttl \in Nat : /\ ttl = ttlUntilTomorrowUTC(t)
                           /\ IF now < end THEN ttl = end - now ELSE ttl = 0
    BY <1>1 DEF ttlUntilTomorrowUTC
  <1>3. QED
    BY <1>1, <1>2, FormatFacts

(* A counter keeps its type when it is incremented. *)
LEMMA IncrementTypes ==
    ASSUME TypeOK, NEW c \in Counters, NEW w \in Windows, NEW amount \in Nat,
           NEW ttl \in Nat, IncrementBy(c, w, amount, ttl)
    PROVE  /\ value' \in [Counters -> [Windows -> Nat]]
           /\ expires' \in [Counters -> [Windows -> Nat]]
  <1>1. Live(c, w) \in Nat
    BY DEF TypeOK, Live
  <1>2. Live(c, w) + amount \in Nat
    BY <1>1
  <1>3. formatSec(ttl) \in Nat
    BY FormatFacts
  <1>4. now + formatSec(ttl) \in Nat
    BY <1>3, ConstantFacts DEF TypeOK
  <1>5. QED
    BY <1>2, <1>4 DEF TypeOK, IncrementBy

(* The windows that requests fall in exist. *)
LEMMA WindowFacts ==
    ASSUME NEW t \in 0 .. MaxTime
    PROVE  /\ minuteOf(t) \in Windows /\ dayOf(t) \in Windows
           /\ t < (minuteOf(t) + 1) * Minute /\ t < (dayOf(t) + 1) * Day
           /\ (minuteOf(t) + 1) * Minute <= t + Minute
           /\ (dayOf(t) + 1) * Day \in Nat /\ tomorrow(t) = (dayOf(t) + 1) * Day
  <1>1. t \in Nat /\ MaxTime \in Nat /\ t <= MaxTime
    BY ConstantFacts
  <1>2. /\ t \div Minute \in 0 .. t /\ (t \div Minute) * Minute <= t
        /\ t < (t \div Minute + 1) * Minute
    BY <1>1, ConstantFacts, DivFacts
  <1>3. t \div Day \in 0 .. t /\ t < (t \div Day + 1) * Day
    BY <1>1, ConstantFacts, DivFacts
  <1>4. /\ (t \div Minute) * Minute \in Nat
        /\ (t \div Minute + 1) * Minute = (t \div Minute) * Minute + Minute
    BY <1>2, ConstantFacts, MultFacts
  <1>5. (t \div Day + 1) * Day \in Nat
    BY <1>3, ConstantFacts, MultFacts
  <1>6. (t \div Minute + 1) * Minute <= t + Minute
    BY <1>1, <1>2, <1>4, ConstantFacts
  <1>7. QED
    BY <1>1, <1>2, <1>3, <1>5, <1>6 DEF minuteOf, dayOf, tomorrow, Windows

LEMMA TypeInvariant == Spec => [](TypeOK /\ TimeInv)
<1>1. Init => TypeOK /\ TimeInv
  BY ConstantFacts DEF Init, TypeOK, TimeInv, Windows, Counters, States
<1>2. (TypeOK /\ TimeInv) /\ [Next]_vars => (TypeOK /\ TimeInv)'
  <2> SUFFICES ASSUME TypeOK, TimeInv, [Next]_vars PROVE TypeOK' /\ TimeInv'
    OBVIOUS
  <2> USE DEF States, Passed
  <2>1. ASSUME NEW r \in Requests, Begin(r) PROVE TypeOK' /\ TimeInv'
    BY <2>1 DEF Begin, CountersKept, TypeOK, TimeInv
  <2>2. ASSUME NEW r \in Requests, ConsumeRpm(r) PROVE TypeOK' /\ TimeInv'
    <3>1. minuteOf(at[r]) \in Windows /\ Minute \in Nat
      BY WindowFacts, ConstantFacts DEF TypeOK
    <3>2. /\ value' \in [Counters -> [Windows -> Nat]]
          /\ expires' \in [Counters -> [Windows -> Nat]]
      BY <2>2, <3>1, IncrementTypes DEF ConsumeRpm, CountersKept, Counters, TypeOK
    <3>3. pc' \in [Requests -> States] /\ UNCHANGED <<now, at, tokens, events>>
      BY <2>2 DEF ConsumeRpm, TypeOK
    <3>4. QED
      BY <3>2, <3>3 DEF TypeOK, TimeInv
  <2>3. ASSUME NEW r \in Requests, ConsumeDaily(r) PROVE TypeOK' /\ TimeInv'
    <3>1. dayOf(at[r]) \in Windows /\ ttlUntilTomorrowUTC(at[r]) \in Nat
      BY WindowFacts, DayTtlFacts DEF TypeOK
    <3>2. /\ value' \in [Counters -> [Windows -> Nat]]
          /\ expires' \in [Counters -> [Windows -> Nat]]
      BY <2>3, <3>1, IncrementTypes DEF ConsumeDaily, CountersKept, Counters, TypeOK
    <3>3. pc' \in [Requests -> States] /\ UNCHANGED <<now, at, tokens, events>>
      BY <2>3 DEF ConsumeDaily, TypeOK
    <3>4. QED
      BY <3>2, <3>3 DEF TypeOK, TimeInv
  <2>4. ASSUME NEW r \in Requests, CheckTokens(r) PROVE TypeOK' /\ TimeInv'
    <3>1. dayOf(at[r]) \in Nat
      BY WindowFacts DEF TypeOK, Windows
    <3>2. Event("check", r, dayOf(at[r]))
             \in [kind : {"check", "add"}, by : Requests, day : Nat, late : BOOLEAN]
      BY <3>1 DEF Event, LastSecond
    <3>3. events' \in Seq([kind : {"check", "add"}, by : Requests, day : Nat, late : BOOLEAN])
      <4>1. CASE UNCHANGED events
        BY <4>1 DEF TypeOK
      <4>2. CASE events' = Append(events, Event("check", r, dayOf(at[r])))
        BY <3>2, <4>2 DEF TypeOK
      <4>3. QED
        BY <2>4, <4>1, <4>2 DEF CheckTokens
    <3>4. pc' \in [Requests -> States] /\ UNCHANGED <<now, value, expires, at, tokens>>
      BY <2>4 DEF CheckTokens, CountersKept, TypeOK
    <3>5. QED
      BY <3>3, <3>4 DEF TypeOK, TimeInv
  <2>5. ASSUME NEW r \in Requests, RedisFails(r) \/ AddFails(r) PROVE TypeOK' /\ TimeInv'
    BY <2>5 DEF RedisFails, AddFails, CountersKept, TypeOK, TimeInv
  <2>6. ASSUME NEW r \in Requests, Use(r) PROVE TypeOK' /\ TimeInv'
    BY <2>6, ConstantFacts DEF Use, CountersKept, TypeOK, TimeInv
  <2>7. ASSUME NEW r \in Requests, AddTokenUsage(r) PROVE TypeOK' /\ TimeInv'
    <3>1. dayOf(now) \in Windows /\ ttlUntilTomorrowUTC(now) \in Nat /\ dayOf(now) \in Nat
      <4>1. now \in 0 .. MaxTime
        BY DEF TypeOK
      <4>2. ttlUntilTomorrowUTC(now) \in Nat
        BY <4>1, DayTtlFacts
      <4>3. QED
        BY <4>1, <4>2, WindowFacts DEF Windows
    <3>2. /\ value' \in [Counters -> [Windows -> Nat]]
          /\ expires' \in [Counters -> [Windows -> Nat]]
      BY <2>7, <3>1, IncrementTypes DEF AddTokenUsage, Counters, TypeOK
    <3>3. Event("add", r, dayOf(now))
             \in [kind : {"check", "add"}, by : Requests, day : Nat, late : BOOLEAN]
      BY <3>1 DEF Event, LastSecond
    <3>4. events' \in Seq([kind : {"check", "add"}, by : Requests, day : Nat, late : BOOLEAN])
      BY <2>7, <3>3 DEF AddTokenUsage, TypeOK
    <3>5. pc' \in [Requests -> States] /\ UNCHANGED <<now, at, tokens>>
      BY <2>7 DEF AddTokenUsage, TypeOK
    <3>6. QED
      BY <3>2, <3>4, <3>5 DEF TypeOK, TimeInv
  <2>8. CASE Tick
    BY <2>8, ConstantFacts DEF Tick, TypeOK, TimeInv
  <2>9. CASE UNCHANGED vars
    BY <2>9 DEF vars, TypeOK, TimeInv
  <2>10. QED
    BY <2>1, <2>2, <2>3, <2>4, <2>5, <2>6, <2>7, <2>8, <2>9 DEF Next, ConsumeRequest
<1>3. QED
  BY <1>1, <1>2, PTL DEF Spec

(* The counters, the clock and the requests keep their types. *)
THEOREM QuotaTypeCorrect == Spec => []TypeOK
  BY TypeInvariant, PTL
-----------------------------------------------------------------------------
(* A counter that outlives its window has counted all that has passed, and *)
(* not more than the limit has passed.                                     *)
Bounded(c, w, end, limit, passed) ==
    /\ expires[c][w] = 0 \/ end <= expires[c][w]
    /\ now < end => /\ IsFiniteSet(passed)
                    /\ Cardinality(passed) <= Live(c, w)
                    /\ Cardinality(passed) <= limit

(* Nothing is counted, but time may pass and requests fail later. *)
LEMMA BoundedKept ==
    ASSUME TypeOK, NEW c \in Counters, NEW w \in Windows, NEW end \in Nat, NEW limit \in Nat,
           NEW P, NEW Q \in SUBSET P, Bounded(c, w, end, limit, P),
           value'[c][w] = value[c][w], expires'[c][w] = expires[c][w],
           now' \in Nat, now <= now'
    PROVE  Bounded(c, w, end, limit, Q)'
  <1>1. now \in Nat /\ expires[c][w] \in Nat /\ Live(c, w) \in Nat
    BY ConstantFacts DEF TypeOK, Live
  <1>2. ASSUME now' < end PROVE Live(c, w)' = Live(c, w)
    <2>1. CASE expires[c][w] = 0
      BY <1>1, <2>1 DEF Live
    <2>2. CASE end <= expires[c][w]
      BY <1>1, <1>2, <2>2 DEF Live
    <2>3. QED
      BY <2>1, <2>2 DEF Bounded
  <1>3. ASSUME now' < end
        PROVE  /\ IsFiniteSet(Q) /\ Cardinality(Q) <= Live(c, w) /\ Cardinality(Q) <= limit
    <2>1. IsFiniteSet(P) /\ Cardinality(P) <= Live(c, w) /\ Cardinality(P) <= limit
      BY <1>1, <1>3 DEF Bounded
    <2>2. IsFiniteSet(Q) /\ Cardinality(Q) <= Cardinality(P)
      BY <2>1, FS_Subset
    <2>3. Cardinality(P) \in Nat /\ Cardinality(Q) \in Nat
      BY <2>1, <2>2, FS_CardinalityType
    <2>4. QED
      BY <1>1, <2>1, <2>2, <2>3
  <1>4. QED
    BY <1>2, <1>3 DEF Bounded

(* One more is counted, and passes if the limit allows it. *)
LEMMA BoundedCounts ==
    ASSUME TypeOK, NEW c \in Counters, NEW w \in Windows, NEW end \in Nat, NEW limit \in Nat,
           NEW P, NEW Q, NEW x, Bounded(c, w, end, limit, P),
           UNCHANGED now, expires'[c][w] \in Nat, end <= expires'[c][w],
           value'[c][w] = Live(c, w) + 1,
           IF Live(c, w) + 1 > limit THEN Q = P ELSE Q = P \cup {x} /\ x \notin P
    PROVE  Bounded(c, w, end, limit, Q)'
  <1>1. now \in Nat /\ expires'[c][w] >= end /\ Live(c, w) \in Nat
    BY ConstantFacts DEF TypeOK, Live
  <1> SUFFICES ASSUME now < end
               PROVE  /\ IsFiniteSet(Q) /\ Cardinality(Q) <= Live(c, w)'
                      /\ Cardinality(Q) <= limit
    BY DEF Bounded
  <1>2. /\ IsFiniteSet(P) /\ Cardinality(P) <= Live(c, w) /\ Cardinality(P) <= limit
        /\ Cardinality(P) \in Nat
    BY FS_CardinalityType DEF Bounded
  <1>3. Live(c, w)' = Live(c, w) + 1
    BY <1>1 DEF Live
  <1>4. CASE Live(c, w) + 1 > limit
    BY <1>1, <1>2, <1>3, <1>4
  <1>5. CASE ~(Live(c, w) + 1 > limit)
    <2>1. IsFiniteSet(Q) /\ Cardinality(Q) = Cardinality(P) + 1
      BY <1>2, <1>5, FS_AddElement
    <2>2. QED
      BY <1>1, <1>2, <1>3, <1>5, <2>1
  <1>6. QED
    BY <1>4, <1>5
-----------------------------------------------------------------------------
(* The requests of a minute that have passed the limit per minute. *)
RpmPassed(m) == {r \in PassedRpm : minuteOf(at[r]) = m}

RpmInv ==
    RPMLimit > 0 => \A m \in Windows :
        Bounded("rpm", m, (m + 1) * Minute, RPMLimit, RpmPassed(m))

LEMMA RpmCounted ==
    ASSUME TypeOK, TimeInv, RPMLimit > 0, NEW m \in Windows,
           Bounded("rpm", m, (m + 1) * Minute, RPMLimit, RpmPassed(m)),
           NEW r \in Requests, ConsumeRpm(r), minuteOf(at[r]) = m
    PROVE  Bounded("rpm", m, (m + 1) * Minute, RPMLimit, RpmPassed(m))'
  <1>1. PICK P : P = RpmPassed(m)
    OBVIOUS
  <1>2. PICK Q : Q = RpmPassed(m)'
    OBVIOUS
  <1>3. (m + 1) * Minute \in Nat /\ RPMLimit \in Nat /\ "rpm" \in Counters
    BY ConstantFacts, MultFacts DEF Windows, Counters
  <1>4. /\ value'["rpm"][m] = Live("rpm", m) + 1 /\ UNCHANGED <<now, at>>
        /\ expires'["rpm"][m] = now + Minute
        /\ pc[r] = "rpm" /\ \A s \in Requests \ {r} : pc'[s] = pc[s]
        /\ pc'[r] = IF Live("rpm", m) + 1 > RPMLimit THEN "rejected" ELSE "daily"
    BY RPMLimit > 0, ConstantFacts, MinuteInSeconds, r \in Requests, ConsumeRpm(r),
       minuteOf(at[r]) = m
       DEF ConsumeRpm, IncrementBy, TypeOK, Counters
  <1>5. at[r] \in 0 .. MaxTime /\ at[r] <= now /\ now \in Nat
    BY ConstantFacts DEF TypeOK, TimeInv
  <1>6. expires'["rpm"][m] \in Nat /\ (m + 1) * Minute <= expires'["rpm"][m]
    BY <1>3, <1>4, <1>5, WindowFacts, ConstantFacts
  <1>7. IF Live("rpm", m) + 1 > RPMLimit THEN Q = P ELSE Q = P \cup {r} /\ r \notin P
    BY <1>1, <1>2, <1>4, minuteOf(at[r]) = m DEF RpmPassed, PassedRpm, Passed, minuteOf
  <1>8. Bounded("rpm", m, (m + 1) * Minute, RPMLimit, Q)'
    BY <1>1, <1>3, <1>4, <1>6, <1>7, BoundedCounts
  <1>9. QED
    BY <1>2, <1>8 DEF Bounded

LEMMA RpmKept ==
    ASSUME TypeOK, RPMLimit > 0, NEW m \in Windows,
           Bounded("rpm", m, (m + 1) * Minute, RPMLimit, RpmPassed(m)),
           value'["rpm"][m] = value["rpm"][m],
           expires'["rpm"][m] = expires["rpm"][m],
           RpmPassed(m)' \subseteq RpmPassed(m), now' \in Nat, now <= now'
    PROVE  Bounded("rpm", m, (m + 1) * Minute, RPMLimit, RpmPassed(m))'
  <1>1. PICK P : P = RpmPassed(m)
    OBVIOUS
  <1>2. PICK Q : Q = RpmPassed(m)'
    OBVIOUS
  <1>3. (m + 1) * Minute \in Nat /\ RPMLimit \in Nat /\ "rpm" \in Counters
    BY ConstantFacts, MultFacts DEF Windows, Counters
  <1>4. Q \in SUBSET P
    BY <1>1, <1>2
  <1>5. Bounded("rpm", m, (m + 1) * Minute, RPMLimit, Q)'
    BY <1>1, <1>3, <1>4, BoundedKept
  <1>6. QED
    BY <1>2, <1>5 DEF Bounded

LEMMA RpmInvariant == Spec => []RpmInv
<1>1. Init => RpmInv
  <2> SUFFICES ASSUME Init, RPMLimit > 0, NEW m \in Windows
               PROVE  Bounded("rpm", m, (m + 1) * Minute, RPMLimit, RpmPassed(m))
    BY DEF RpmInv
  <2>1. RpmPassed(m) = {}
    BY DEF Init, RpmPassed, PassedRpm, Passed
  <2>2. expires["rpm"][m] = 0 /\ Live("rpm", m) = 0
    BY DEF Init, Live, Counters
  <2>3. QED
    BY <2>1, <2>2, FS_EmptySet, ConstantFacts DEF Bounded
<1>2. (TypeOK /\ TimeInv) /\ RpmInv /\ [Next]_vars => RpmInv'
  <2> SUFFICES ASSUME TypeOK, TimeInv, RPMLimit > 0, NEW m \in Windows, [Next]_vars,
                      Bounded("rpm", m, (m + 1) * Minute, RPMLimit, RpmPassed(m))
               PROVE  Bounded("rpm", m, (m + 1) * Minute, RPMLimit, RpmPassed(m))'
    BY DEF RpmInv, Windows
  <2> DEFINE Same == /\ value'["rpm"][m] = value["rpm"][m]
                     /\ expires'["rpm"][m] = expires["rpm"][m]
                     /\ RpmPassed(m)' \subseteq RpmPassed(m)
                     /\ now' \in Nat /\ now <= now'
  <2>0. now \in Nat /\ now <= now
    BY ConstantFacts DEF TypeOK
  <2>1. ASSUME NEW r \in Requests, Begin(r) PROVE Same
    BY <2>0, <2>1 DEF Begin, CountersKept, RpmPassed, PassedRpm, Passed, TypeOK, minuteOf
  <2>2. ASSUME NEW r \in Requests, ConsumeRpm(r), minuteOf(at[r]) # m PROVE Same
    <3>1. value'["rpm"][m] = value["rpm"][m] /\ expires'["rpm"][m] = expires["rpm"][m]
      BY <2>2 DEF ConsumeRpm, IncrementBy, CountersKept, TypeOK, Counters
    <3>2. UNCHANGED <<now, at>> /\ \A s \in Requests \ {r} : pc'[s] = pc[s]
      BY <2>2 DEF ConsumeRpm, TypeOK
    <3>3. QED
      BY <2>0, <2>2, <3>1, <3>2 DEF RpmPassed, PassedRpm, minuteOf
  <2>3. ASSUME NEW r \in Requests, ConsumeDaily(r) PROVE Same
    <3>1. value'["rpm"][m] = value["rpm"][m] /\ expires'["rpm"][m] = expires["rpm"][m]
      BY <2>3 DEF ConsumeDaily, IncrementBy, CountersKept, TypeOK, Counters
    <3>2. /\ UNCHANGED <<now, at>> /\ pc[r] = "daily"
          /\ \A s \in Requests \ {r} : pc'[s] = pc[s]
      BY <2>3 DEF ConsumeDaily, TypeOK
    <3>3. QED
      BY <2>0, <3>1, <3>2 DEF RpmPassed, PassedRpm, Passed, minuteOf
  <2>4. ASSUME NEW r \in Requests, CheckTokens(r) \/ RedisFails(r) \/ Use(r) \/ AddFails(r)
        PROVE  Same
    <3>1. UNCHANGED <<now, at, value, expires>> /\ \A s \in Requests \ {r} : pc'[s] = pc[s]
      BY <2>4 DEF CheckTokens, RedisFails, Use, AddFails, CountersKept, TypeOK
    <3>2. r \in PassedRpm' => r \in PassedRpm
      BY <2>4 DEF CheckTokens, RedisFails, Use, AddFails, TypeOK, PassedRpm, Passed
    <3>3. QED
      BY <2>0, <3>1, <3>2 DEF RpmPassed, PassedRpm, minuteOf
  <2>5. ASSUME NEW r \in Requests, AddTokenUsage(r) PROVE Same
    <3>1. value'["rpm"][m] = value["rpm"][m] /\ expires'["rpm"][m] = expires["rpm"][m]
      BY <2>5 DEF AddTokenUsage, IncrementBy, TypeOK, Counters
    <3>2. /\ UNCHANGED <<now, at>> /\ pc[r] = "using"
          /\ \A s \in Requests \ {r} : pc'[s] = pc[s]
      BY <2>5 DEF AddTokenUsage, TypeOK
    <3>3. QED
      BY <2>0, <3>1, <3>2 DEF RpmPassed, PassedRpm, Passed, minuteOf
  <2>6. ASSUME Tick \/ UNCHANGED vars PROVE Same
    BY <2>0, <2>6 DEF Tick, vars, RpmPassed, PassedRpm, minuteOf
  <2>7. CASE \E r \in Requests : ConsumeRpm(r) /\ minuteOf(at[r]) = m
    BY <2>7, RpmCounted
  <2>8. Same \/ \E r \in Requests : ConsumeRpm(r) /\ minuteOf(at[r]) = m
    <3> HIDE DEF Same
    <3>1. QED
      BY <2>1, <2>2, <2>3, <2>4, <2>5, <2>6 DEF Next, ConsumeRequest
  <2>9. QED
    BY <2>7, <2>8, RpmKept
<1>3. QED
  BY <1>1, <1>2, TypeInvariant, PTL DEF Spec

LEMMA RpmHolds == Spec => []RpmLimitHolds
<1>1. RpmInv => RpmLimitHolds
  <2> SUFFICES ASSUME RpmInv, RPMLimit > 0, NEW m \in Windows
               PROVE  Cardinality({r \in PassedRpm : minuteOf(at[r]) = m /\ now < (m + 1) * Minute})
                         <= RPMLimit
    BY DEF RpmLimitHolds
  <2>1. CASE now < (m + 1) * Minute
    <3>1. {r \in PassedRpm : minuteOf(at[r]) = m /\ now < (m + 1) * Minute} = RpmPassed(m)
      BY <2>1 DEF RpmPassed
    <3>2. QED
      BY <2>1, <3>1 DEF RpmInv, Bounded
  <2>2. CASE ~(now < (m + 1) * Minute)
    <3>1. {r \in PassedRpm : minuteOf(at[r]) = m /\ now < (m + 1) * Minute} = {}
      BY <2>2
    <3>2. QED
      BY <3>1, FS_EmptySet, ConstantFacts
  <2>3. QED
    BY <2>1, <2>2
<1>2. QED
  BY <1>1, RpmInvariant, PTL
-----------------------------------------------------------------------------
(* The requests of a day that have passed the daily limit on requests. *)
DailyPassed(d) == {r \in PassedDaily : dayOf(at[r]) = d}

(* What a day's counter tells of the requests that have passed it, while   *)
(* the day lasts: it has counted them all, or is gone in the last second,  *)
(* or has been started again in that second and outlives the day.          *)
Counted(d, end, passed) ==
    LET live == Live("daily_requests", d)
        n == Cardinality(passed)
        late == end < now + Second
    IN  \/ n <= live /\ n <= DailyRequestLimit
        \/ late /\ expires["daily_requests"][d] <= now /\ n <= DailyRequestLimit
        \/ /\ late /\ end <= expires["daily_requests"][d]
           /\ n <= live + DailyRequestLimit /\ n <= 2 * DailyRequestLimit

DayBounded(d, end, passed) ==
    /\ expires["daily_requests"][d] = 0 \/ end < expires["daily_requests"][d] + Second
    /\ now < end => IsFiniteSet(passed) /\ Counted(d, end, passed)

DailyInv ==
    DailyRequestLimit > 0 => \A d \in Windows : DayBounded(d, (d + 1) * Day, DailyPassed(d))

LEMMA DailyCounted ==
    ASSUME TypeOK, TimeInv, DailyRequestLimit > 0, NEW m \in Windows,
           DayBounded(m, (m + 1) * Day, DailyPassed(m)),
           NEW r \in Requests, ConsumeDaily(r), dayOf(at[r]) = m
    PROVE  DayBounded(m, (m + 1) * Day, DailyPassed(m))'
  <1>1. PICK P : P = DailyPassed(m)
    OBVIOUS
  <1>2. PICK Q : Q = DailyPassed(m)'
    OBVIOUS
  <1>3. PICK end \in Nat : end = (m + 1) * Day
    BY ConstantFacts, MultFacts DEF Windows
  <1>4. /\ value'["daily_requests"][m] = Live("daily_requests", m) + 1 /\ UNCHANGED <<now, at>>
        /\ expires'["daily_requests"][m] = now + formatSec(ttlUntilTomorrowUTC(at[r]))
        /\ pc[r] = "daily" /\ \A s \in Requests \ {r} : pc'[s] = pc[s]
        /\ pc'[r] = IF Live("daily_requests", m) + 1 > DailyRequestLimit THEN "rejected" ELSE "tokens"
    BY DailyRequestLimit > 0, ConstantFacts, r \in Requests, ConsumeDaily(r), dayOf(at[r]) = m
       DEF ConsumeDaily, IncrementBy, TypeOK, Counters
  <1>5. /\ now \in Nat /\ Second \in Nat \ {0} /\ DailyRequestLimit \in Nat
        /\ value["daily_requests"][m] \in Nat /\ expires["daily_requests"][m] \in Nat
        /\ Live("daily_requests", m) \in Nat
    BY ConstantFacts DEF TypeOK, Live, Counters
  <1>6. PICK x \in Nat : /\ x = expires'["daily_requests"][m] /\ end < x + Second
                         /\ now < end /\ end < now + Second => end <= x
    <2>1. at[r] \in 0 .. MaxTime /\ end = tomorrow(at[r])
      BY <1>3, WindowFacts, dayOf(at[r]) = m DEF TypeOK
    <2>2. QED
      BY <1>4, <2>1, DayTtlFacts
  <1>7. IF Live("daily_requests", m) + 1 > DailyRequestLimit THEN Q = P ELSE Q = P \cup {r} /\ r \notin P
    BY <1>1, <1>2, <1>4, dayOf(at[r]) = m DEF DailyPassed, PassedDaily, Passed, dayOf
  <1>8. ASSUME now < end
        PROVE  IsFiniteSet(Q) /\ Counted(m, end, Q)'
    <2>1. IsFiniteSet(P) /\ Counted(m, end, P) /\ Cardinality(P) \in Nat
      BY <1>1, <1>3, <1>8, FS_CardinalityType DEF DayBounded
    <2>2. Live("daily_requests", m)' = Live("daily_requests", m) + 1
      BY <1>4, <1>5, <1>6, <1>8 DEF Live
    <2>3. Cardinality(P) <= 2 * DailyRequestLimit /\ Cardinality(P) <= Live("daily_requests", m) + DailyRequestLimit
      BY <1>5, <2>1 DEF Counted
    <2>4. CASE Live("daily_requests", m) + 1 > DailyRequestLimit
      BY <1>4, <1>5, <1>6, <1>7, <1>8, <2>1, <2>2, <2>3, <2>4 DEF Counted
    <2>5. CASE ~(Live("daily_requests", m) + 1 > DailyRequestLimit)
      <3>1. IsFiniteSet(Q) /\ Cardinality(Q) = Cardinality(P) + 1
        BY <1>7, <2>1, <2>5, FS_AddElement
      <3>2. Cardinality(Q) <= 2 * DailyRequestLimit
        BY <1>5, <2>1, <2>3, <2>5, <3>1
      <3>3. QED
        BY <1>4, <1>5, <1>6, <1>8, <2>1, <2>2, <2>3, <2>5, <3>1, <3>2 DEF Counted
    <2>6. QED
      BY <2>4, <2>5
  <1>9. DayBounded(m, end, Q)'
    BY <1>4, <1>6, <1>8 DEF DayBounded
  <1>10. QED
    BY <1>2, <1>3, <1>9 DEF DayBounded, Counted

LEMMA DailyKept ==
    ASSUME TypeOK, DailyRequestLimit > 0, NEW m \in Windows,
           DayBounded(m, (m + 1) * Day, DailyPassed(m)),
           value'["daily_requests"][m] = value["daily_requests"][m],
           expires'["daily_requests"][m] = expires["daily_requests"][m],
           DailyPassed(m)' \subseteq DailyPassed(m), now' \in Nat, now <= now'
    PROVE  DayBounded(m, (m + 1) * Day, DailyPassed(m))'
  <1>1. PICK P : P = DailyPassed(m)
    OBVIOUS
  <1>2. PICK Q : Q = DailyPassed(m)'
    OBVIOUS
  <1>3. PICK end \in Nat : end = (m + 1) * Day
    BY ConstantFacts, MultFacts DEF Windows
  <1>4. /\ now \in Nat /\ Second \in Nat \ {0} /\ DailyRequestLimit \in Nat
        /\ value["daily_requests"][m] \in Nat /\ expires["daily_requests"][m] \in Nat
    BY ConstantFacts DEF TypeOK, Counters
  <1>5. ASSUME now' < end
        PROVE  IsFiniteSet(Q) /\ Counted(m, end, Q)'
    <2>1. IsFiniteSet(P) /\ Counted(m, end, P) /\ now < end
      BY <1>1, <1>3, <1>4, <1>5 DEF DayBounded
    <2>2. /\ IsFiniteSet(Q) /\ Cardinality(Q) <= Cardinality(P)
          /\ Cardinality(P) \in Nat /\ Cardinality(Q) \in Nat
      BY <1>1, <1>2, <2>1, FS_Subset, FS_CardinalityType
    <2>3. expires["daily_requests"][m] = 0 \/ end < expires["daily_requests"][m] + Second
      BY <1>3 DEF DayBounded
    <2>4. CASE now' < expires["daily_requests"][m] \/ expires["daily_requests"][m] = 0
      <3>1. Live("daily_requests", m)' = Live("daily_requests", m)
        BY <1>4, <2>4 DEF Live
      <3>2. Live("daily_requests", m) \in Nat
        BY <1>4 DEF Live
      <3>3. CASE expires["daily_requests"][m] <= now /\ Cardinality(P) <= DailyRequestLimit
                 /\ end < now + Second
        BY <1>4, <1>5, <2>2, <2>4, <3>1, <3>3 DEF Counted
      <3>4. CASE /\ Cardinality(P) <= Live("daily_requests", m)
                 /\ Cardinality(P) <= DailyRequestLimit
        <4>1. /\ Cardinality(Q) <= Live("daily_requests", m)'
              /\ Cardinality(Q) <= DailyRequestLimit
          BY <1>4, <2>2, <3>1, <3>2, <3>4
        <4>2. QED
          BY <2>2, <4>1 DEF Counted
      <3>5. CASE /\ end < now + Second /\ end <= expires["daily_requests"][m]
                 /\ Cardinality(P) <= Live("daily_requests", m) + DailyRequestLimit
                 /\ Cardinality(P) <= 2 * DailyRequestLimit
        <4>1. /\ Cardinality(Q) <= Live("daily_requests", m)' + DailyRequestLimit
              /\ Cardinality(Q) <= 2 * DailyRequestLimit
          BY <1>4, <2>2, <3>1, <3>2, <3>5
        <4>2. end < now' + Second /\ end <= expires'["daily_requests"][m]
          BY <1>4, <3>5
        <4>3. QED
          BY <2>2, <4>1, <4>2 DEF Counted
      <3>6. QED
        BY <2>1, <3>3, <3>4, <3>5 DEF Counted
    <2>5. CASE expires["daily_requests"][m] <= now' /\ expires["daily_requests"][m] # 0
      <3>1. end < now' + Second
        <4>1. PICK e \in Nat : e = expires["daily_requests"][m]
          BY <1>4
        <4>2. PICK n \in Nat, sec \in Nat : n = now' /\ sec = Second
          BY <1>4
        <4>3. e <= n /\ end < e + sec
          BY <2>3, <2>5, <4>1, <4>2
        <4>4. end < n + sec
          BY <4>3
        <4>5. QED
          BY <4>2, <4>4
      <3>2. Cardinality(P) <= DailyRequestLimit
        BY <1>4, <1>5, <2>1, <2>5 DEF Counted
      <3>3. Cardinality(Q) <= DailyRequestLimit /\ expires'["daily_requests"][m] <= now'
        BY <1>4, <2>2, <2>5, <3>2
      <3>4. QED
        BY <2>2, <3>1, <3>3 DEF Counted
    <2>6. QED
      BY <1>4, <2>4, <2>5
  <1>6. DayBounded(m, end, Q)'
    BY <1>3, <1>5 DEF DayBounded
  <1>7. QED
    BY <1>2, <1>3, <1>6 DEF DayBounded, Counted

LEMMA DailyInvariant == Spec => []DailyInv
<1>1. Init => DailyInv
  <2> SUFFICES ASSUME Init, DailyRequestLimit > 0, NEW m \in Windows
               PROVE  DayBounded(m, (m + 1) * Day, DailyPassed(m))
    BY DEF DailyInv
  <2>1. DailyPassed(m) = {}
    BY DEF Init, DailyPassed, PassedDaily, Passed
  <2>2. expires["daily_requests"][m] = 0 /\ Live("daily_requests", m) = 0
    BY DEF Init, Live, Counters
  <2>3. QED
    BY <2>1, <2>2, FS_EmptySet, ConstantFacts DEF DayBounded, Counted
<1>2. (TypeOK /\ TimeInv) /\ DailyInv /\ [Next]_vars => DailyInv'
  <2> SUFFICES ASSUME TypeOK, TimeInv, DailyRequestLimit > 0, NEW m \in Windows, [Next]_vars,
                      DayBounded(m, (m + 1) * Day, DailyPassed(m))
               PROVE  DayBounded(m, (m + 1) * Day, DailyPassed(m))'
    BY DEF DailyInv, Windows
  <2> DEFINE Same == /\ value'["daily_requests"][m] = value["daily_requests"][m]
                     /\ expires'["daily_requests"][m] = expires["daily_requests"][m]
                     /\ DailyPassed(m)' \subseteq DailyPassed(m)
                     /\ now' \in Nat /\ now <= now'
  <2>0. now \in Nat /\ now <= now
    BY ConstantFacts DEF TypeOK
  <2>1. ASSUME NEW r \in Requests, Begin(r) PROVE Same
    BY <2>0, <2>1 DEF Begin, CountersKept, DailyPassed, PassedDaily, Passed, TypeOK, dayOf
  <2>2. ASSUME NEW r \in Requests, ConsumeDaily(r), dayOf(at[r]) # m PROVE Same
    <3>1. value'["daily_requests"][m] = value["daily_requests"][m] /\ expires'["daily_requests"][m] = expires["daily_requests"][m]
      BY <2>2 DEF ConsumeDaily, IncrementBy, CountersKept, TypeOK, Counters
    <3>2. UNCHANGED <<now, at>> /\ \A s \in Requests \ {r} : pc'[s] = pc[s]
      BY <2>2 DEF ConsumeDaily, TypeOK
    <3>3. QED
      BY <2>0, <2>2, <3>1, <3>2 DEF DailyPassed, PassedDaily, dayOf
  <2>3. ASSUME NEW r \in Requests, ConsumeRpm(r) PROVE Same
    <3>1. value'["daily_requests"][m] = value["daily_requests"][m] /\ expires'["daily_requests"][m] = expires["daily_requests"][m]
      BY <2>3 DEF ConsumeRpm, IncrementBy, CountersKept, TypeOK, Counters
    <3>2. /\ UNCHANGED <<now, at>> /\ pc[r] = "rpm" /\ pc'[r] \in {"daily", "rejected"}
          /\ \A s \in Requests \ {r} : pc'[s] = pc[s]
      BY <2>3 DEF ConsumeRpm, TypeOK
    <3>3. QED
      BY <2>0, <3>1, <3>2 DEF DailyPassed, PassedDaily, Passed, dayOf
  <2>4. ASSUME NEW r \in Requests, CheckTokens(r) \/ RedisFails(r) \/ Use(r) \/ AddFails(r)
        PROVE  Same
    <3>1. UNCHANGED <<now, at, value, expires>> /\ \A s \in Requests \ {r} : pc'[s] = pc[s]
      BY <2>4 DEF CheckTokens, RedisFails, Use, AddFails, CountersKept, TypeOK
    <3>2. r \in PassedDaily' => r \in PassedDaily
      BY <2>4 DEF CheckTokens, RedisFails, Use, AddFails, TypeOK, PassedDaily, Passed
    <3>3. QED
      BY <2>0, <3>1, <3>2 DEF DailyPassed, PassedDaily, dayOf
  <2>5. ASSUME NEW r \in Requests, AddTokenUsage(r) PROVE Same
    <3>1. value'["daily_requests"][m] = value["daily_requests"][m] /\ expires'["daily_requests"][m] = expires["daily_requests"][m]
      BY <2>5 DEF AddTokenUsage, IncrementBy, TypeOK, Counters
    <3>2. /\ UNCHANGED <<now, at>> /\ pc[r] = "using"
          /\ \A s \in Requests \ {r} : pc'[s] = pc[s]
      BY <2>5 DEF AddTokenUsage, TypeOK
    <3>3. QED
      BY <2>0, <3>1, <3>2 DEF DailyPassed, PassedDaily, Passed, dayOf
  <2>6. ASSUME Tick \/ UNCHANGED vars PROVE Same
    BY <2>0, <2>6 DEF Tick, vars, DailyPassed, PassedDaily, dayOf
  <2>7. CASE \E r \in Requests : ConsumeDaily(r) /\ dayOf(at[r]) = m
    BY <2>7, DailyCounted
  <2>8. Same \/ \E r \in Requests : ConsumeDaily(r) /\ dayOf(at[r]) = m
    <3> HIDE DEF Same
    <3>1. QED
      BY <2>1, <2>2, <2>3, <2>4, <2>5, <2>6 DEF Next, ConsumeRequest
  <2>9. QED
    BY <2>7, <2>8, DailyKept
<1>3. QED
  BY <1>1, <1>2, TypeInvariant, PTL DEF Spec

LEMMA DailyHolds == Spec => []DailyLimitHolds
<1>1. TypeOK /\ DailyInv => DailyLimitHolds
  <2> SUFFICES ASSUME TypeOK, DailyInv, DailyRequestLimit > 0, NEW m \in Windows,
                      now < (m + 1) * Day
               PROVE  Cardinality(DailyPassed(m))
                         <= IF LastSecond(m) THEN 2 * DailyRequestLimit ELSE DailyRequestLimit
    BY DEF DailyLimitHolds, DailyPassed
  <2>1. /\ now \in Nat /\ (m + 1) * Day \in Nat /\ Second \in Nat /\ DailyRequestLimit \in Nat
    BY ConstantFacts, MultFacts DEF TypeOK, Windows
  <2>2. IsFiniteSet(DailyPassed(m)) /\ Counted(m, (m + 1) * Day, DailyPassed(m))
    BY DEF DailyInv, DayBounded
  <2>3. Cardinality(DailyPassed(m)) \in Nat
    BY <2>2, FS_CardinalityType
  <2>4. QED
    BY <2>1, <2>2, <2>3 DEF Counted, LastSecond
<1>2. QED
  BY <1>1, DailyInvariant, QuotaTypeCorrect, PTL
-----------------------------------------------------------------------------
(* However the calls of any number of requests interleave, no calendar     *)
(* minute admits more requests than its limit while it lasts, and no day   *)
(* before its last second; in that second a day may admit its limit again  *)
(* (ConsumeRequest, ttlUntilTomorrowUTC).                                  *)
THEOREM QuotaRequestLimitsHold == Spec => []RequestLimitsHold
  BY RpmHolds, DailyHolds, PTL DEF RequestLimitsHold
-----------------------------------------------------------------------------
Events == [kind : {"check", "add"}, by : Requests, day : Nat, late : BOOLEAN]
Places == 1 .. Len(events)

(* What the history of checks and additions tells of the requests: each is *)
(* checked at most once and added at most once, in this order.             *)
CheckedInv ==
    \A i \in Places : events[i].kind = "check" =>
        pc[events[i].by] \in Passed /\ events[i].day = dayOf(at[events[i].by])

AddedInv ==
    \A i \in Places : events[i].kind = "add" =>
        /\ pc[events[i].by] = "done"
        /\ \E j \in 1 .. (i - 1) : events[j].kind = "check" /\ events[j].by = events[i].by

OnceInv ==
    \A i, j \in Places : events[i].kind = events[j].kind /\ events[i].by = events[j].by => i = j

PassedInv ==
    \A r \in Requests :
        /\ pc[r] \in Passed =>
              \E i \in Places : events[i].kind = "check" /\ events[i].by = r
        /\ pc[r] \in {"using", "done"} => tokens[r] \in Usages

HistoryInv == CheckedInv /\ AddedInv /\ OnceInv /\ PassedInv

LEMMA EventFacts ==
    ASSUME TypeOK
    PROVE  Len(events) \in Nat /\ \A i \in Places : events[i] \in Events
<1>1. events \in Seq(Events)
  BY DEF TypeOK, Events
<1>2. QED
  BY <1>1 DEF Places

LEMMA EventIs ==
    ASSUME NEW kind \in {"check", "add"}, NEW r \in Requests, NEW d \in Nat
    PROVE  /\ Event(kind, r, d) \in Events
           /\ Event(kind, r, d).kind = kind /\ Event(kind, r, d).by = r
           /\ Event(kind, r, d).day = d /\ Event(kind, r, d).late = LastSecond(d)
<1>1. LastSecond(d) \in BOOLEAN
  BY DEF LastSecond
<1>2. QED
  BY <1>1 DEF Events, Event

(* A step that leaves the history alone, seen from one request.            *)
LEMMA HistoryKept ==
    ASSUME TypeOK, HistoryInv, UNCHANGED events, NEW r \in Requests,
           \A s \in Requests \ {r} : pc'[s] = pc[s] /\ at'[s] = at[s] /\ tokens'[s] = tokens[s],
           pc'[r] \in Passed <=> pc[r] \in Passed,
           pc[r] \in Passed => at'[r] = at[r],
           pc[r] = "done" => pc'[r] = "done",
           pc'[r] \in {"using", "done"} => tokens'[r] \in Usages
    PROVE  HistoryInv'
<1>1. UNCHANGED Places /\ \A i \in Places : events[i].by \in Requests
  BY EventFacts DEF Places, Events
<1>2. CheckedInv'
  BY <1>1 DEF HistoryInv, CheckedInv, dayOf
<1>3. AddedInv'
  BY <1>1 DEF HistoryInv, AddedInv
<1>4. OnceInv'
  BY <1>1 DEF HistoryInv, OnceInv
<1>5. PassedInv'
  BY <1>1 DEF HistoryInv, PassedInv
<1>6. QED
  BY <1>2, <1>3, <1>4, <1>5 DEF HistoryInv

(* An event enters the history.                                            *)
LEMMA AppendFacts ==
    ASSUME TypeOK, NEW e \in Events, events' = Append(events, e)
    PROVE  /\ Len(events') = Len(events) + 1 /\ Len(events) \in Nat
           /\ events'[Len(events) + 1] = e
           /\ Places' = Places \cup {Len(events) + 1}
           /\ \A i \in Places : events'[i] = events[i] /\ events[i] \in Events /\ i \in 1 .. Len(events)
<1>1. events \in Seq(Events)
  BY DEF TypeOK, Events
<1>2. QED
  BY <1>1 DEF Places

LEMMA HistoryInvariant == Spec => []HistoryInv
<1>1. Init => HistoryInv
  BY DEF Init, HistoryInv, CheckedInv, AddedInv, OnceInv, PassedInv, Places, Passed
<1>2. (TypeOK /\ TimeInv) /\ HistoryInv /\ [Next]_vars => HistoryInv'
  <2> SUFFICES ASSUME TypeOK, HistoryInv, [Next]_vars PROVE HistoryInv'
    OBVIOUS
  <2>1. ASSUME NEW r \in Requests, Begin(r) PROVE HistoryInv'
    BY <2>1, HistoryKept DEF Begin, TypeOK, Passed
  <2>2. ASSUME NEW r \in Requests, ConsumeRpm(r) \/ ConsumeDaily(r) \/ RedisFails(r)
        PROVE  HistoryInv'
    BY <2>2, HistoryKept DEF ConsumeRpm, ConsumeDaily, RedisFails, TypeOK, Passed
  <2>3. ASSUME NEW r \in Requests, CheckTokens(r) PROVE HistoryInv'
    <3>1. CASE TokensExhausted(r)
      BY <2>3, <3>1, HistoryKept DEF CheckTokens, TypeOK, Passed
    <3>2. CASE ~TokensExhausted(r)
      <4> DEFINE e == Event("check", r, dayOf(at[r]))
                 n == Len(events) + 1
      <4>1. dayOf(at[r]) \in Nat
        BY WindowFacts DEF TypeOK, Windows
      <4>2. e \in Events /\ e.kind = "check" /\ e.by = r /\ e.day = dayOf(at[r])
        BY <4>1, EventIs
      <4>3. /\ pc[r] = "tokens" /\ pc' = [pc EXCEPT ![r] = "admitted"]
            /\ events' = Append(events, e) /\ UNCHANGED <<at, tokens>>
        BY <2>3, <3>2 DEF CheckTokens
      <4> HIDE DEF e
      <4>4. /\ n \in Nat /\ events'[n] = e /\ n \notin Places
            /\ Places' = Places \cup {n}
            /\ \A i \in Places : events'[i] = events[i] /\ events[i].by \in Requests /\ i \in 1 .. Len(events)
        BY <4>2, <4>3, AppendFacts DEF Events, Places
      <4> HIDE DEF n
      <4>5. pc'[r] = "admitted" /\ \A s \in Requests \ {r} : pc'[s] = pc[s]
        BY <4>3 DEF TypeOK
      <4>6. CheckedInv'
        <5> SUFFICES ASSUME NEW i \in Places', events'[i].kind = "check"
                     PROVE  /\ pc'[events'[i].by] \in Passed
                            /\ events'[i].day = dayOf(at[events'[i].by])
          BY <4>3 DEF CheckedInv, dayOf
        <5>1. CASE i = n
          BY <4>2, <4>4, <4>5, <5>1 DEF Passed
        <5>2. CASE i \in Places
          BY <4>4, <4>5, <5>2 DEF HistoryInv, CheckedInv, Passed
        <5>3. QED
          BY <4>4, <5>1, <5>2
      <4>7. AddedInv'
        <5> SUFFICES ASSUME NEW i \in Places', events'[i].kind = "add"
                     PROVE  /\ pc'[events'[i].by] = "done"
                            /\ \E j \in 1 .. (i - 1) : /\ events'[j].kind = "check"
                                                      /\ events'[j].by = events'[i].by
          BY DEF AddedInv
        <5>1. i \in Places /\ events'[i] = events[i] /\ events[i].by \in Requests
          BY <4>2, <4>4
        <5>2. PICK j \in 1 .. (i - 1) : events[j].kind = "check" /\ events[j].by = events[i].by
          BY <5>1 DEF HistoryInv, AddedInv
        <5>3. j \in Places
          BY <5>1, <5>2 DEF Places
        <5>4. QED
          BY <4>3, <4>4, <4>5, <5>1, <5>2, <5>3 DEF HistoryInv, AddedInv
      <4>8. OnceInv'
        <5>1. \A i \in Places : events[i].kind = "check" => events[i].by # r
          BY <4>3 DEF HistoryInv, CheckedInv, Passed
        <5>2. QED
          BY <4>2, <4>4, <5>1 DEF HistoryInv, OnceInv
      <4>9. PassedInv'
        <5> SUFFICES ASSUME NEW s \in Requests
                     PROVE  /\ pc'[s] \in Passed =>
                                  \E i \in Places' : events'[i].kind = "check" /\ events'[i].by = s
                            /\ pc'[s] \in {"using", "done"} => tokens'[s] \in Usages
          BY DEF PassedInv
        <5>1. CASE s = r
          BY <4>2, <4>4, <4>5, <5>1
        <5>2. CASE s # r
          <6>1. pc'[s] = pc[s] /\ tokens'[s] = tokens[s]
            BY <4>3, <4>5, <5>2
          <6>2. pc[s] \in Passed => \E i \in Places : events[i].kind = "check" /\ events[i].by = s
            BY DEF HistoryInv, PassedInv
          <6>3. QED
            BY <4>4, <6>1, <6>2 DEF HistoryInv, PassedInv
        <5>3. QED
          BY <5>1, <5>2
      <4>10. QED
        BY <4>6, <4>7, <4>8, <4>9 DEF HistoryInv
    <3>3. QED
      BY <3>1, <3>2
  <2>4. ASSUME NEW r \in Requests, Use(r) PROVE HistoryInv'
    BY <2>4, HistoryKept DEF Use, TypeOK, Passed
  <2>5. ASSUME NEW r \in Requests, AddFails(r) PROVE HistoryInv'
    BY <2>5, HistoryKept DEF AddFails, TypeOK, Passed
  <2>6. ASSUME NEW r \in Requests, AddTokenUsage(r) PROVE HistoryInv'
    <3> DEFINE e == Event("add", r, dayOf(now))
               n == Len(events) + 1
    <3>1. dayOf(now) \in Nat
      BY WindowFacts DEF TypeOK, Windows
    <3>2. e \in Events /\ e.kind = "add" /\ e.by = r
      BY <3>1, EventIs
    <3>3. /\ pc[r] = "using" /\ pc' = [pc EXCEPT ![r] = "done"]
          /\ events' = Append(events, e) /\ UNCHANGED <<at, tokens>>
      BY <2>6 DEF AddTokenUsage
    <3> HIDE DEF e
    <3>4. /\ n \in Nat /\ events'[n] = e /\ n \notin Places
          /\ Places' = Places \cup {n}
          /\ \A i \in Places : /\ events'[i] = events[i] /\ events[i].by \in Requests
                               /\ i \in 1 .. (n - 1)
      BY <3>2, <3>3, AppendFacts DEF Events, Places
    <3> HIDE DEF n
    <3>5. pc'[r] = "done" /\ \A s \in Requests \ {r} : pc'[s] = pc[s]
      BY <3>3 DEF TypeOK
    <3>6. CheckedInv'
      <4> SUFFICES ASSUME NEW i \in Places', events'[i].kind = "check"
                   PROVE  /\ pc'[events'[i].by] \in Passed
                          /\ events'[i].day = dayOf(at[events'[i].by])
        BY <3>3 DEF CheckedInv, dayOf
      <4>1. i \in Places /\ events'[i] = events[i] /\ events[i].by \in Requests
        BY <3>2, <3>4
      <4>2. QED
        BY <3>5, <4>1 DEF HistoryInv, CheckedInv, Passed
    <3>7. AddedInv'
      <4> SUFFICES ASSUME NEW i \in Places', events'[i].kind = "add"
                   PROVE  /\ pc'[events'[i].by] = "done"
                          /\ \E j \in 1 .. (i - 1) : /\ events'[j].kind = "check"
                                                    /\ events'[j].by = events'[i].by
        BY DEF AddedInv
      <4>1. CASE i = n
        <5>1. PICK j \in Places : events[j].kind = "check" /\ events[j].by = r
          BY <3>3 DEF HistoryInv, PassedInv, Passed
        <5>2. QED
          BY <3>2, <3>4, <3>5, <4>1, <5>1
      <4>2. CASE i \in Places
        <5>1. PICK j \in 1 .. (i - 1) : events[j].kind = "check" /\ events[j].by = events[i].by
          BY <3>4, <4>2 DEF HistoryInv, AddedInv
        <5>2. j \in Places
          BY <4>2, <5>1 DEF Places
        <5>3. QED
          BY <3>3, <3>4, <3>5, <4>2, <5>1, <5>2 DEF HistoryInv, AddedInv
      <4>3. QED
        BY <3>4, <4>1, <4>2
    <3>8. OnceInv'
      <4>1. \A i \in Places : events[i].kind = "add" => events[i].by # r
        BY <3>3 DEF HistoryInv, AddedInv
      <4>2. QED
        BY <3>2, <3>4, <4>1 DEF HistoryInv, OnceInv
    <3>9. PassedInv'
      <4> SUFFICES ASSUME NEW s \in Requests
                   PROVE  /\ pc'[s] \in Passed =>
                                \E i \in Places' : events'[i].kind = "check" /\ events'[i].by = s
                          /\ pc'[s] \in {"using", "done"} => tokens'[s] \in Usages
        BY DEF PassedInv
      <4>1. pc'[s] \in Passed => pc[s] \in Passed
        BY <3>3, <3>5 DEF Passed
      <4>2. pc[s] \in Passed => \E i \in Places : events[i].kind = "check" /\ events[i].by = s
        BY DEF HistoryInv, PassedInv
      <4>3. pc'[s] \in {"using", "done"} => pc[s] \in {"using", "done"} /\ tokens'[s] = tokens[s]
        BY <3>3, <3>5
      <4>4. QED
        BY <3>4, <4>1, <4>2, <4>3 DEF HistoryInv, PassedInv
    <3>10. QED
      BY <3>6, <3>7, <3>8, <3>9 DEF HistoryInv
  <2>7. CASE Tick \/ UNCHANGED vars
    BY <2>7 DEF Tick, vars, HistoryInv, CheckedInv, AddedInv, OnceInv, PassedInv, Places, dayOf
  <2>8. QED
    BY <2>1, <2>2, <2>3, <2>4, <2>5, <2>6, <2>7 DEF Next, ConsumeRequest
<1>3. QED
  BY <1>1, <1>2, TypeInvariant, PTL DEF Spec
-----------------------------------------------------------------------------
(* The requests whose tokens were added to day d before event i.           *)
AddedBefore(d, i) ==
    {r \in Requests : \E j \in 1 .. (i - 1) :
        events[j].kind = "add" /\ events[j].by = r /\ events[j].day = d}

Spent(d) == SumFunctionOnSet(tokens, Added(d))
SpentBefore(d, i) == SumFunctionOnSet(tokens, AddedBefore(d, i))

LEMMA AddedIs ==
    ASSUME TypeOK, NEW d
    PROVE  Added(d) = AddedBefore(d, Len(events) + 1)
<1>1. Len(events) \in Nat /\ 1 .. Len(events) = 1 .. (Len(events) + 1 - 1)
  BY EventFacts
<1>2. QED
  BY <1>1 DEF Added, AddedBefore

LEMMA AddedBeforeFacts ==
    ASSUME TypeOK, HistoryInv, NEW d, NEW i \in 1 .. (Len(events) + 1)
    PROVE  /\ IsFiniteSet(AddedBefore(d, i))
           /\ \A r \in AddedBefore(d, i) : r \in Requests /\ pc[r] = "done" /\ tokens[r] \in Nat
<1>1. Len(events) \in Nat /\ 1 .. (i - 1) \subseteq Places
  BY EventFacts DEF Places
<1>2. IsFiniteSet(1 .. (i - 1))
  BY <1>1, FS_Interval
<1>3. PICK f : f = [j \in 1 .. (i - 1) |-> events[j].by]
  OBVIOUS
<1>4. PICK B : B = {f[j] : j \in 1 .. (i - 1)} /\ IsFiniteSet(B)
  BY <1>2, ImageIsFinite
<1>5. AddedBefore(d, i) \subseteq B
  BY <1>3, <1>4 DEF AddedBefore
<1>6. ASSUME NEW r \in AddedBefore(d, i)
      PROVE  r \in Requests /\ pc[r] = "done" /\ tokens[r] \in Nat
  BY <1>1 DEF AddedBefore, HistoryInv, AddedInv, TypeOK
<1>7. QED
  BY <1>4, <1>5, <1>6, FS_Subset

(* A day's counter holds what has been added to it until the last second   *)
(* of the day, for which alone Redis may have dropped it, and never more.  *)
CounterInv(d) ==
    /\ expires["daily_tokens"][d] = 0 \/ (d + 1) * Day < expires["daily_tokens"][d] + Second
    /\ Live("daily_tokens", d) <= Spent(d)
    /\ ~LastSecond(d) => Live("daily_tokens", d) = Spent(d)

TokensInv == \A d \in Windows : CounterInv(d)

(* A request was let through before the last second of the day it came in  *)
(* only while that day had tokens left.                                    *)
BudgetInv ==
    DailyTokenLimit > 0 =>
        \A i \in Places :
            events[i].kind = "check" /\ ~events[i].late =>
                SpentBefore(events[i].day, i) < DailyTokenLimit

LEMMA SpentSame ==
    ASSUME TypeOK, HistoryInv, NEW d, NEW i \in 1 .. (Len(events) + 1),
           AddedBefore(d, i)' = AddedBefore(d, i),
           \A r \in Requests : pc[r] = "done" => tokens'[r] = tokens[r]
    PROVE  SpentBefore(d, i)' = SpentBefore(d, i)
<1>1. PICK S : S = AddedBefore(d, i) /\ IsFiniteSet(S) /\ \A r \in S : tokens[r] = tokens'[r]
  BY AddedBeforeFacts
<1>2. SumFunctionOnSet(tokens, S) = SumFunctionOnSet(tokens', S)
  BY <1>1, SumSame
<1>3. QED
  BY <1>1, <1>2 DEF SpentBefore

(* A step that does not touch the counter of day d or what was added to it. *)
LEMMA CounterKept ==
    ASSUME TypeOK, HistoryInv, NEW d \in Windows, CounterInv(d), now' \in Nat, now <= now',
           value'["daily_tokens"][d] = value["daily_tokens"][d],
           expires'["daily_tokens"][d] = expires["daily_tokens"][d],
           Added(d)' = Added(d),
           \A r \in Requests : pc[r] = "done" => tokens'[r] = tokens[r]
    PROVE  CounterInv(d)'
<1>1. /\ now \in Nat /\ (d + 1) * Day \in Nat /\ Second \in Nat
      /\ expires["daily_tokens"][d] \in Nat /\ value["daily_tokens"][d] \in Nat
      /\ Len(events) + 1 \in 1 .. (Len(events) + 1)
  BY ConstantFacts, MultFacts, EventFacts DEF TypeOK, Windows, Counters
<1>2. PICK S : /\ S = Added(d) /\ IsFiniteSet(S)
               /\ \A r \in S : tokens[r] = tokens'[r] /\ tokens[r] \in Nat
  BY <1>1, AddedIs, AddedBeforeFacts
<1>3. SumFunctionOnSet(tokens, S) = SumFunctionOnSet(tokens', S)
  BY <1>2, SumSame
<1>4. Spent(d)' = Spent(d) /\ Spent(d) \in Nat
  BY <1>2, <1>3, SumIsNat DEF Spent
<1>5. Live("daily_tokens", d)' <= Live("daily_tokens", d) /\ Live("daily_tokens", d)' \in Nat
      /\ Live("daily_tokens", d) \in Nat
  BY <1>1 DEF Live
<1>6. ASSUME ~LastSecond(d)'
      PROVE  ~LastSecond(d) /\ Live("daily_tokens", d)' = Live("daily_tokens", d)
  <2>1. ~((d + 1) * Day < now' + Second)
    BY <1>6 DEF LastSecond
  <2>2. expires["daily_tokens"][d] = 0 \/ now' < expires["daily_tokens"][d]
    BY <1>1, <2>1 DEF CounterInv
  <2>3. QED
    BY <1>1, <2>1, <2>2 DEF Live, LastSecond
<1>7. QED
  BY <1>4, <1>5, <1>6 DEF CounterInv

(* The background task adds a request's tokens to the day it runs in.      *)
LEMMA CounterAdds ==
    ASSUME TypeOK, HistoryInv, NEW d \in Windows, CounterInv(d),
           NEW r \in Requests, AddTokenUsage(r), d = dayOf(now)
    PROVE  CounterInv(d)'
<1>1. /\ now \in 0 .. MaxTime /\ now \in Nat /\ (d + 1) * Day \in Nat
      /\ now < (d + 1) * Day /\ tomorrow(now) = (d + 1) * Day /\ Second \in Nat \ {0}
  BY WindowFacts, ConstantFacts DEF TypeOK
<1>2. /\ pc[r] = "using" /\ UNCHANGED <<now, tokens>>
      /\ value'["daily_tokens"][d] = Live("daily_tokens", d) + tokens[r]
      /\ expires'["daily_tokens"][d] = now + formatSec(ttlUntilTomorrowUTC(now))
  BY <1>1, d = dayOf(now), AddTokenUsage(r) DEF AddTokenUsage, IncrementBy, TypeOK, Counters
<1>3. /\ expires'["daily_tokens"][d] \in Nat
      /\ (d + 1) * Day < expires'["daily_tokens"][d] + Second
  BY <1>1, <1>2, DayTtlFacts
<1>4. PICK S : /\ S = Added(d) /\ IsFiniteSet(S)
               /\ \A s \in S : s \in Requests /\ pc[s] = "done" /\ tokens[s] \in Nat
  <2>1. Len(events) + 1 \in 1 .. (Len(events) + 1)
    BY EventFacts
  <2>2. QED
    BY <2>1, AddedIs, AddedBeforeFacts
<1>5. Added(d)' = S \cup {r}
  <2>1. PICK e : e = Event("add", r, d) /\ events' = Append(events, e)
    BY AddTokenUsage(r), d = dayOf(now) DEF AddTokenUsage
  <2>2. e \in Events /\ e.kind = "add" /\ e.by = r /\ e.day = d
    BY <2>1, EventIs DEF Windows
  <2>3. /\ Len(events') = Len(events) + 1 /\ Len(events) \in Nat
        /\ events'[Len(events) + 1] = e
        /\ \A i \in 1 .. Len(events) : events'[i] = events[i]
    BY <2>1, <2>2, AppendFacts DEF Places
  <2>4. 1 .. Len(events') = 1 .. Len(events) \cup {Len(events) + 1}
    BY <2>3
  <2>5. QED
    BY <1>4, <2>2, <2>3, <2>4 DEF Added
<1>6. r \notin S /\ \A s \in S \cup {r} : tokens[s] \in Int
  BY <1>2, <1>4 DEF TypeOK
<1>7. SumFunctionOnSet(tokens, S \cup {r}) = tokens[r] + SumFunctionOnSet(tokens, S)
  BY <1>4, <1>6, SumAdd
<1>8. Spent(d)' = tokens[r] + Spent(d) /\ Spent(d) \in Nat
  BY <1>2, <1>4, <1>5, <1>7, SumIsNat DEF Spent
<1>9. tokens[r] \in Nat /\ Live("daily_tokens", d) \in Nat
  BY DEF TypeOK, Live, Counters
<1>10. Live("daily_tokens", d)' \in {0, Live("daily_tokens", d) + tokens[r]}
  BY <1>2 DEF Live
<1>11. Live("daily_tokens", d)' <= Spent(d)'
  BY <1>8, <1>9, <1>10 DEF CounterInv
<1>12. ASSUME ~LastSecond(d)'
       PROVE  Live("daily_tokens", d)' = Spent(d)'
  <2>1. now + Second <= (d + 1) * Day /\ ~LastSecond(d)
    BY <1>1, <1>2, <1>12 DEF LastSecond
  <2>2. now < expires'["daily_tokens"][d]
    BY <1>1, <1>3, <2>1
  <2>3. Live("daily_tokens", d)' = Live("daily_tokens", d) + tokens[r]
    BY <1>2, <2>2 DEF Live
  <2>4. QED
    BY <1>8, <1>9, <2>1, <2>3 DEF CounterInv
<1>13. QED
  BY <1>3, <1>11, <1>12 DEF CounterInv

(* What a step does to the tokens, the clock and the additions.            *)
LEMMA StepKeeps ==
    ASSUME TypeOK, HistoryInv, [Next]_vars
    PROVE  /\ now' \in Nat /\ now <= now'
           /\ \A r \in Requests : pc[r] = "done" => tokens'[r] = tokens[r]
           /\ \/ UNCHANGED events
              \/ \E r \in Requests : CheckTokens(r) /\ ~TokensExhausted(r)
              \/ \E r \in Requests : AddTokenUsage(r)
<1>0. now \in Nat
  BY ConstantFacts DEF TypeOK
<1>1. ASSUME NEW r \in Requests,
             Begin(r) \/ ConsumeRpm(r) \/ ConsumeDaily(r) \/ RedisFails(r) \/ AddFails(r)
      PROVE  UNCHANGED <<now, tokens, events>>
  BY <1>1 DEF Begin, ConsumeRpm, ConsumeDaily, RedisFails, AddFails
<1>2. ASSUME NEW r \in Requests, CheckTokens(r)
      PROVE  UNCHANGED <<now, tokens>> /\ (TokensExhausted(r) => UNCHANGED events)
  BY <1>2 DEF CheckTokens
<1>3. ASSUME NEW r \in Requests, AddTokenUsage(r)
      PROVE  UNCHANGED <<now, tokens>>
  BY <1>3 DEF AddTokenUsage
<1>4. ASSUME NEW r \in Requests, Use(r)
      PROVE  /\ UNCHANGED <<now, events>> /\ pc[r] = "admitted"
             /\ \A s \in Requests \ {r} : tokens'[s] = tokens[s]
  BY <1>4 DEF Use, TypeOK
<1>5. CASE Tick \/ UNCHANGED vars
  BY <1>0, <1>5 DEF Tick, vars
<1>6. CASE \E r \in Requests : Use(r)
  BY <1>0, <1>4, <1>6
<1>7. QED
  BY <1>0, <1>1, <1>2, <1>3, <1>5, <1>6 DEF Next, ConsumeRequest

(* Only AddTokenUsage touches the counter of a day, and the one it runs in. *)
LEMMA OtherDaysKept ==
    ASSUME TypeOK, HistoryInv, [Next]_vars, NEW d \in Windows,
           ~ \E r \in Requests : AddTokenUsage(r) /\ d = dayOf(now)
    PROVE  /\ value'["daily_tokens"][d] = value["daily_tokens"][d]
           /\ expires'["daily_tokens"][d] = expires["daily_tokens"][d]
           /\ Added(d)' = Added(d)
<1> DEFINE Same == /\ value'["daily_tokens"][d] = value["daily_tokens"][d]
                   /\ expires'["daily_tokens"][d] = expires["daily_tokens"][d]
<1>1. ASSUME NEW r \in Requests, ConsumeRpm(r) PROVE Same
  BY <1>1 DEF ConsumeRpm, IncrementBy, CountersKept, TypeOK, Counters
<1>2. ASSUME NEW r \in Requests, ConsumeDaily(r) PROVE Same
  BY <1>2 DEF ConsumeDaily, IncrementBy, CountersKept, TypeOK, Counters
<1>3. ASSUME NEW r \in Requests, AddTokenUsage(r) PROVE Same
  <2>1. d # dayOf(now)
    BY <1>3
  <2>2. QED
    BY <1>3, <2>1 DEF AddTokenUsage, IncrementBy, TypeOK, Counters
<1>4. ASSUME NEW r \in Requests, Begin(r) \/ CheckTokens(r) \/ RedisFails(r) \/ Use(r) \/ AddFails(r)
      PROVE  Same
  BY <1>4 DEF Begin, CheckTokens, RedisFails, Use, AddFails, CountersKept
<1>5. ASSUME Tick \/ UNCHANGED vars PROVE Same
  BY <1>5 DEF Tick, vars
<1>6. Same
  <2> HIDE DEF Same
  <2>1. QED
    BY <1>1, <1>2, <1>3, <1>4, <1>5 DEF Next, ConsumeRequest
<1>7. ASSUME NEW e \in Events, events' = Append(events, e), e.kind = "check" \/ e.day # d
      PROVE  Added(d)' = Added(d)
  <2>1. /\ Len(events') = Len(events) + 1 /\ Len(events) \in Nat
        /\ events'[Len(events) + 1] = e
        /\ \A i \in 1 .. Len(events) : events'[i] = events[i]
    BY <1>7, AppendFacts DEF Places
  <2>2. 1 .. Len(events') = 1 .. Len(events) \cup {Len(events) + 1}
    BY <2>1
  <2>3. QED
    BY <1>7, <2>1, <2>2 DEF Added
<1>8. Added(d)' = Added(d)
  <2>1. CASE UNCHANGED events
    BY <2>1 DEF Added
  <2>2. ASSUME NEW r \in Requests, CheckTokens(r), ~TokensExhausted(r)
        PROVE  Added(d)' = Added(d)
    <3>1. dayOf(at[r]) \in Nat
      BY WindowFacts DEF TypeOK, Windows
    <3>2. PICK e \in Events : e.kind = "check" /\ events' = Append(events, e)
      BY <2>2, <3>1, EventIs DEF CheckTokens
    <3>3. QED
      BY <1>7, <3>2
  <2>3. ASSUME NEW r \in Requests, AddTokenUsage(r)
        PROVE  Added(d)' = Added(d)
    <3>1. dayOf(now) \in Nat /\ d # dayOf(now)
      BY <2>3, WindowFacts DEF TypeOK, Windows
    <3>2. PICK e \in Events : e.day = dayOf(now) /\ events' = Append(events, e)
      BY <2>3, <3>1, EventIs DEF AddTokenUsage
    <3>3. QED
      BY <1>7, <3>1, <3>2
  <2>4. QED
    BY <2>1, <2>2, <2>3, StepKeeps
<1>9. QED
  BY <1>6, <1>8

LEMMA TokensInvariant == Spec => []TokensInv
<1>1. Init => TokensInv
  <2> SUFFICES ASSUME Init, NEW d \in Windows PROVE CounterInv(d)
    BY DEF TokensInv
  <2>1. expires["daily_tokens"][d] = 0 /\ Live("daily_tokens", d) = 0
    BY DEF Init, Live, Counters
  <2>2. Added(d) = {}
    BY DEF Init, Added
  <2>3. Spent(d) = 0
    BY <2>2, SumEmpty DEF Spent
  <2>4. QED
    BY <2>1, <2>3 DEF CounterInv
<1>2. TypeOK /\ HistoryInv /\ TokensInv /\ [Next]_vars => TokensInv'
  <2> SUFFICES ASSUME TypeOK, HistoryInv, [Next]_vars, NEW d \in Windows, CounterInv(d)
               PROVE  CounterInv(d)'
    BY DEF TokensInv, Windows
  <2>1. CASE \E r \in Requests : AddTokenUsage(r) /\ d = dayOf(now)
    BY <2>1, CounterAdds
  <2>2. CASE ~ \E r \in Requests : AddTokenUsage(r) /\ d = dayOf(now)
    BY <2>2, StepKeeps, OtherDaysKept, CounterKept
  <2>3. QED
    BY <2>1, <2>2
<1>3. QED
  BY <1>1, <1>2, TypeInvariant, HistoryInvariant, PTL DEF Spec

(* The daily token counter is the sum of the tokens added that day until   *)
(* the day's last second: no expiry cuts the day shorter and no concurrent *)
(* addition gets lost.  It never exceeds that sum (AddTokenUsage,          *)
(* incrementByWithTTL).                                                    *)
THEOREM QuotaTokensAreSummed == Spec => []TokensAreSummed
<1>1. TypeOK /\ TokensInv => TokensAreSummed
  <2> SUFFICES ASSUME TypeOK, TokensInv PROVE TokensAreSummed
    OBVIOUS
  <2>1. dayOf(now) \in Windows
    BY WindowFacts DEF TypeOK
  <2>2. CounterInv(dayOf(now))
    BY <2>1 DEF TokensInv
  <2>3. Spent(dayOf(now)) = TokensAdded(dayOf(now))
    BY SumOfMap DEF TokensAdded, Spent
  <2>4. QED
    BY <2>2, <2>3 DEF TokensAreSummed, CounterInv
<1>2. QED
  BY <1>1, QuotaTypeCorrect, TokensInvariant, PTL
-----------------------------------------------------------------------------
LEMMA BudgetKept ==
    ASSUME TypeOK, HistoryInv, BudgetInv, [Next]_vars, DailyTokenLimit > 0,
           NEW i \in Places, \A j \in Places : events'[j] = events[j],
           NEW d, d = events[i].day, events[i].kind = "check", ~events[i].late
    PROVE  SpentBefore(d, i)' < DailyTokenLimit
<1>1. i \in 1 .. (Len(events) + 1) /\ 1 .. (i - 1) \subseteq Places
  BY EventFacts DEF Places
<1>2. AddedBefore(d, i)' = AddedBefore(d, i)
  BY <1>1 DEF AddedBefore
<1>3. SpentBefore(d, i)' = SpentBefore(d, i)
  BY <1>1, <1>2, StepKeeps, SpentSame
<1>4. SpentBefore(d, i) < DailyTokenLimit
  BY DEF BudgetInv
<1>5. QED
  BY <1>3, <1>4

LEMMA BudgetInvariant == Spec => []BudgetInv
<1>1. Init => BudgetInv
  BY DEF Init, BudgetInv, Places
<1>2. TypeOK /\ HistoryInv /\ TokensInv /\ BudgetInv /\ [Next]_vars => BudgetInv'
  <2> SUFFICES ASSUME TypeOK, HistoryInv, TokensInv, BudgetInv, [Next]_vars, DailyTokenLimit > 0,
                      NEW i \in Places', NEW d, d = events'[i].day,
                      events'[i].kind = "check", ~events'[i].late
               PROVE  SpentBefore(d, i)' < DailyTokenLimit
    BY DEF BudgetInv, SpentBefore, AddedBefore
  <2>1. CASE UNCHANGED events
    <3>1. i \in Places /\ UNCHANGED Places
      BY <2>1 DEF Places
    <3>2. QED
      BY <2>1, <3>1, BudgetKept
  <2>2. ASSUME NEW r \in Requests, CheckTokens(r), ~TokensExhausted(r)
        PROVE  SpentBefore(d, i)' < DailyTokenLimit
    <3>1. PICK w \in Windows : w = dayOf(at[r])
      BY WindowFacts DEF TypeOK
    <3>2. PICK e \in Events : /\ e.kind = "check" /\ e.day = w /\ events' = Append(events, e)
                              /\ e.late = LastSecond(w)
      BY <2>2, <3>1, EventIs DEF CheckTokens, Windows
    <3>3. /\ events'[Len(events) + 1] = e /\ Len(events) \in Nat
          /\ Places' = Places \cup {Len(events) + 1}
          /\ \A j \in Places : events'[j] = events[j]
      BY <3>2, AppendFacts
    <3>4. CASE i \in Places
      BY <3>3, <3>4, BudgetKept
    <3>5. CASE i = Len(events) + 1
      <4>1. d = w
        BY <3>2, <3>3, <3>5
      <4>2. UNCHANGED <<now, tokens>> /\ Live("daily_tokens", d) < DailyTokenLimit
        <5>1. Live("daily_tokens", d) \in Nat /\ DailyTokenLimit \in Nat
          BY <4>1, ConstantFacts DEF TypeOK, Live, Counters
        <5>2. QED
          BY <2>2, <3>1, <4>1, <5>1 DEF CheckTokens, TokensExhausted
      <4>3. Live("daily_tokens", d) = Spent(d)
        BY <3>2, <3>3, <3>5, <4>1 DEF TokensInv, CounterInv
      <4>4. AddedBefore(d, i)' = Added(d)
        <5>1. AddedBefore(d, i)' = AddedBefore(d, i)
          BY <3>3, <3>5 DEF AddedBefore, Places
        <5>2. QED
          BY <3>5, <5>1, AddedIs
      <4>5. QED
        BY <4>2, <4>3, <4>4 DEF Spent, SpentBefore
    <3>6. QED
      BY <3>3, <3>4, <3>5
  <2>3. ASSUME NEW r \in Requests, AddTokenUsage(r)
        PROVE  SpentBefore(d, i)' < DailyTokenLimit
    <3>1. dayOf(now) \in Nat
      BY WindowFacts DEF TypeOK, Windows
    <3>2. PICK e \in Events : e.kind = "add" /\ events' = Append(events, e)
      BY <2>3, <3>1, EventIs DEF AddTokenUsage
    <3>3. /\ events'[Len(events) + 1] = e
          /\ Places' = Places \cup {Len(events) + 1}
          /\ \A j \in Places : events'[j] = events[j]
      BY <3>2, AppendFacts
    <3>4. i \in Places
      BY <3>2, <3>3
    <3>5. QED
      BY <3>3, <3>4, BudgetKept
  <2>4. QED
    BY <2>1, <2>2, <2>3, StepKeeps
<1>3. QED
  BY <1>1, <1>2, TypeInvariant, HistoryInvariant, TokensInvariant, PTL DEF Spec

LEMMA PositionIs ==
    ASSUME HistoryInv, NEW i \in Places
    PROVE  Position(events[i].kind, events[i].by) = i
<1>1. \A j \in Places : events[j].kind = events[i].kind /\ events[j].by = events[i].by => j = i
  BY DEF HistoryInv, OnceInv
<1>2. QED
  BY <1>1 DEF Position, Places

LEMMA LargestFacts == LargestUsage \in Nat /\ \A v \in Usages : v <= LargestUsage
<1>1. \E u \in Usages : \A v \in Usages : v <= u
  BY QuotaAssumption
<1>2. LargestUsage \in Usages /\ \A v \in Usages : v <= LargestUsage
  BY <1>1 DEF LargestUsage
<1>3. QED
  BY <1>2, ConstantFacts

(* Of the requests whose tokens were added to a day, one was added last.   *)
LEMMA LastAddition ==
    ASSUME TypeOK, NEW d, Added(d) # {}
    PROVE  \E n \in Places :
               /\ events[n].kind = "add" /\ events[n].day = d /\ events[n].by \in Added(d)
               /\ \A m \in Places : events[m].kind = "add" /\ events[m].day = d => m <= n
<1>1. PICK N : N = {m \in Places : events[m].kind = "add" /\ events[m].day = d}
  OBVIOUS
<1>2. Len(events) \in Nat /\ N \in SUBSET Nat /\ \A m \in N : m <= Len(events)
  BY <1>1, EventFacts DEF Places
<1>3. N # {}
  <2>1. PICK r \in Added(d) : TRUE
    OBVIOUS
  <2>2. PICK i \in Places : events[i].kind = "add" /\ events[i].day = d
    BY <2>1 DEF Added, Places
  <2>3. QED
    BY <1>1, <2>2
<1>4. PICK n \in N : \A m \in N : m <= n
  BY <1>2, <1>3, GreatestNumber
<1>5. events[n].by \in Added(d)
  BY <1>1, <1>4, EventFacts DEF Added, Events, Places
<1>6. QED
  BY <1>1, <1>4, <1>5

(* A day's tokens exceed their limit by a whole request only where two     *)
(* requests overlap, or one came in on another day or was checked in the   *)
(* day's last second: otherwise the last one to be added was checked after *)
(* all the others had been, while the counter had them.                    *)
THEOREM QuotaOvershootNeedsOverlap == Spec => []OvershootNeedsOverlap
<1>1. TypeOK /\ HistoryInv /\ TokensInv /\ BudgetInv => OvershootNeedsOverlap
  <2> SUFFICES ASSUME TypeOK, HistoryInv, TokensInv, BudgetInv, DailyTokenLimit > 0,
                      NEW d \in Windows,
                      TokensAdded(d) >= DailyTokenLimit + LargestUsage,
                      \A r, s \in Added(d) : r # s => ~Overlap(r, s),
                      \A r \in Added(d) : /\ dayOf(at[r]) = d
                                          /\ ~events[Position("check", r)].late
               PROVE  FALSE
    BY DEF OvershootNeedsOverlap
  <2>1. DailyTokenLimit \in Nat /\ LargestUsage \in Nat
    BY ConstantFacts, LargestFacts
  <2>2. Spent(d) >= DailyTokenLimit + LargestUsage
    BY SumOfMap DEF TokensAdded, Spent
  <2>3. /\ IsFiniteSet(Added(d))
        /\ \A r \in Added(d) : r \in Requests /\ pc[r] = "done" /\ tokens[r] \in Nat
    <3>1. Len(events) + 1 \in 1 .. (Len(events) + 1)
      BY EventFacts
    <3>2. QED
      BY <3>1, AddedIs, AddedBeforeFacts
  <2>4. Added(d) # {}
    <3>1. ASSUME Added(d) = {} PROVE FALSE
      <4>1. Spent(d) = 0
        BY <3>1, SumEmpty DEF Spent
      <4>2. QED
        BY <2>1, <2>2, <4>1
    <3>2. QED
      BY <3>1
  <2>5. PICK n \in Places :
            /\ events[n].kind = "add" /\ events[n].day = d /\ events[n].by \in Added(d)
            /\ \A m \in Places : events[m].kind = "add" /\ events[m].day = d => m <= n
    BY <2>4, LastAddition
  <2>6. PICK r \in Added(d) : r = events[n].by
    BY <2>5
  <2>7. PICK c \in 1 .. (n - 1) : events[c].kind = "check" /\ events[c].by = r
    BY <2>5, <2>6 DEF HistoryInv, AddedInv
  <2>8. Len(events) \in Nat /\ c \in Places /\ c \in 1 .. (Len(events) + 1) /\ n \in Nat
    BY <2>5, <2>7, EventFacts DEF Places
  <2>9. Position("add", r) = n /\ Position("check", r) = c
    BY <2>5, <2>6, <2>7, <2>8, PositionIs
  <2>10. events[c].day = d
    BY <2>6, <2>7, <2>8 DEF HistoryInv, CheckedInv
  <2>11. SpentBefore(d, c) < DailyTokenLimit
    BY <2>7, <2>8, <2>9, <2>10 DEF BudgetInv
  <2>12. ASSUME NEW s \in Added(d) \ {r} PROVE s \in AddedBefore(d, c)
    <3>1. PICK m \in Places : events[m].kind = "add" /\ events[m].by = s /\ events[m].day = d
      BY DEF Added, Places
    <3>2. PICK k \in 1 .. (m - 1) : events[k].kind = "check" /\ events[k].by = s
      BY <3>1 DEF HistoryInv, AddedInv
    <3>3. k \in Places /\ k \in Nat /\ m \in Nat /\ c \in Nat
      BY <2>8, <3>1, <3>2 DEF Places
    <3>4. Position("add", s) = m /\ Position("check", s) = k
      BY <3>1, <3>2, <3>3, PositionIs
    <3>5. m <= n /\ k < m
      BY <2>5, <3>1, <3>2, <3>3
    <3>6. ~(k < n /\ c < m)
      BY <2>9, <3>4 DEF Overlap
    <3>7. m # c
      BY <2>7, <3>1
    <3>8. m \in 1 .. (c - 1)
      BY <2>8, <3>1, <3>3, <3>5, <3>6, <3>7 DEF Places
    <3>9. QED
      BY <2>3, <3>1, <3>8 DEF AddedBefore
  <2>13. PICK S : S = Added(d) \ {r} /\ S \in SUBSET AddedBefore(d, c)
    BY <2>12
  <2>14. SumFunctionOnSet(tokens, S) <= SpentBefore(d, c)
    BY <2>8, <2>13, AddedBeforeFacts, SumMonotone DEF SpentBefore
  <2>15. Spent(d) = tokens[r] + SumFunctionOnSet(tokens, S)
    BY <2>3, <2>6, <2>13, SumRemove DEF Spent
  <2>16. tokens[r] \in Nat /\ tokens[r] <= LargestUsage
    BY <2>3, <2>6, LargestFacts DEF HistoryInv, PassedInv
  <2>17. SumFunctionOnSet(tokens, S) \in Nat /\ SpentBefore(d, c) \in Nat
    <3>1. IsFiniteSet(S) /\ \A s \in S : tokens[s] \in Nat
      BY <2>3, <2>13, FS_Subset
    <3>2. QED
      BY <2>8, <3>1, SumIsNat, AddedBeforeFacts DEF SpentBefore
  <2>18. QED
    BY <2>1, <2>2, <2>11, <2>14, <2>15, <2>16, <2>17
<1>2. QED
  BY <1>1, QuotaTypeCorrect, HistoryInvariant, TokensInvariant, BudgetInvariant, PTL
=============================================================================
