------------------------------ MODULE ClientQuota ------------------------------
(***************************************************************************)
(* The limits of one client API key, kept in Redis counters                *)
(* (backend/internal/service/clientquota/service.go, called by             *)
(* backend/internal/middleware/public_api_quota.go and by the handlers'    *)
(* deferred token task).                                                   *)
(*                                                                         *)
(* Each counter belongs to a calendar minute or day and is given a time to *)
(* live whenever it is incremented, in whole seconds: a day's counter may  *)
(* be gone up to a second before the day is.  A request takes its time     *)
(* once and then makes up to three calls to Redis; its tokens are added    *)
(* when it has ended, by a background task that reads the clock again.  A  *)
(* limit of zero is no limit.                                              *)
(***************************************************************************)
EXTENDS Naturals, Sequences, FiniteSetsExt

CONSTANTS Requests,
          RPMLimit, DailyRequestLimit, DailyTokenLimit,
          Usages,    (* the total tokens that a request may come to          *)
          Second,    (* clock ticks in a second, the unit of EXPIRE          *)
          Minute,    (* clock ticks in a minute                              *)
          Day,       (* clock ticks in a day                                 *)
          MaxTime    (* bound: the clock stops there                         *)

ASSUME QuotaAssumption ==
    /\ {RPMLimit, DailyRequestLimit, DailyTokenLimit} \subseteq Nat
    /\ Usages \subseteq Nat /\ \E u \in Usages : \A v \in Usages : v <= u
    /\ Second \in Nat \ {0}
    /\ Minute \in Nat \ {0} /\ Minute = (Minute \div Second) * Second
    /\ Day \in Nat \ {0}
    /\ MaxTime \in Nat

VARIABLES
    now,
    value,    \* value[c][w]: counter c of window w, while it lives
    expires,  \* expires[c][w]: the time at which Redis drops it
    pc,       \* how far each request has got
    at,       \* the time each request took when it came in
    tokens,   \* the tokens each request used
    events    \* history: the token checks passed and the additions, in order

vars == <<now, value, expires, pc, at, tokens, events>>

Counters == {"rpm", "daily_requests", "daily_tokens"}
Windows == 0 .. MaxTime
Passed == {"admitted", "using", "done", "dropped"}
States == {"new", "rpm", "daily", "tokens", "rejected", "failed"} \cup Passed

minuteOf(t) == t \div Minute
dayOf(t) == t \div Day
tomorrow(t) == (dayOf(t) + 1) * Day

(* The last second of day d has begun.                                     *)
LastSecond(d) == (d + 1) * Day < now + Second

ttlUntilTomorrowUTC(t) == IF now < tomorrow(t) THEN tomorrow(t) - now ELSE 0

(* A duration as go-redis sends it: cut to whole seconds, and a second     *)
(* where that would leave nothing of it.                                   *)
formatSec(ttl) ==
    IF 0 < ttl /\ ttl < Second THEN Second ELSE (ttl \div Second) * Second

Live(c, w) == IF now < expires[c][w] THEN value[c][w] ELSE 0

Init ==
    /\ now = 0
    /\ value = [c \in Counters |-> [w \in Windows |-> 0]]
    /\ expires = [c \in Counters |-> [w \in Windows |-> 0]]
    /\ pc = [r \in Requests |-> "new"]
    /\ at = [r \in Requests |-> 0]
    /\ tokens = [r \in Requests |-> 0]
    /\ events = <<>>

(* incrementByWithTTL: INCRBY and EXPIRE in one MULTI.  A time to live of  *)
(* zero deletes the counter.                                               *)
IncrementBy(c, w, amount, ttl) ==
    /\ value' = [value EXCEPT ![c][w] = Live(c, w) + amount]
    /\ expires' = [expires EXCEPT ![c][w] = now + formatSec(ttl)]

CountersKept == UNCHANGED <<value, expires>>

Event(kind, r, d) == [kind |-> kind, by |-> r, day |-> d, late |-> LastSecond(d)]
-----------------------------------------------------------------------------
(* ConsumeRequest *)

Begin(r) ==
    /\ pc[r] = "new"
    /\ at' = [at EXCEPT ![r] = now]
    /\ pc' = [pc EXCEPT ![r] = "rpm"]
    /\ CountersKept
    /\ UNCHANGED <<now, tokens, events>>

ConsumeRpm(r) ==
    LET w == minuteOf(at[r])
    IN  /\ pc[r] = "rpm"
        /\ IF RPMLimit = 0
           THEN CountersKept /\ pc' = [pc EXCEPT ![r] = "daily"]
           ELSE /\ IncrementBy("rpm", w, 1, Minute)
                /\ pc' = [pc EXCEPT ![r] =
                             IF Live("rpm", w) + 1 > RPMLimit THEN "rejected" ELSE "daily"]
        /\ UNCHANGED <<now, at, tokens, events>>

(* Seeded bug: the day's counter gets the time to live of a minute's. *)
ConsumeDailyShortLived(r) ==
    LET w == dayOf(at[r])
    IN  /\ pc[r] = "daily"
        /\ IncrementBy("daily_requests", w, 1, Minute)
        /\ pc' = [pc EXCEPT ![r] = IF Live("daily_requests", w) + 1 > DailyRequestLimit
                                   THEN "rejected" ELSE "tokens"]
        /\ UNCHANGED <<now, at, tokens, events>>

ConsumeDaily(r) ==
    LET w == dayOf(at[r])
    IN  /\ pc[r] = "daily"
        /\ IF DailyRequestLimit = 0
           THEN CountersKept /\ pc' = [pc EXCEPT ![r] = "tokens"]
           ELSE /\ IncrementBy("daily_requests", w, 1, ttlUntilTomorrowUTC(at[r]))
                /\ pc' = [pc EXCEPT ![r] =
                             IF Live("daily_requests", w) + 1 > DailyRequestLimit
                             THEN "rejected" ELSE "tokens"]
        /\ UNCHANGED <<now, at, tokens, events>>

(* Seeded bug: a day that has just reached its limit still admits. *)
TokensExhaustedLate(r) == Live("daily_tokens", dayOf(at[r])) > DailyTokenLimit

TokensExhausted(r) ==
    /\ DailyTokenLimit > 0
    /\ Live("daily_tokens", dayOf(at[r])) >= DailyTokenLimit

CheckTokens(r) ==
    /\ pc[r] = "tokens"
    /\ IF TokensExhausted(r)
       THEN pc' = [pc EXCEPT ![r] = "rejected"] /\ UNCHANGED events
       ELSE /\ pc' = [pc EXCEPT ![r] = "admitted"]
            /\ events' = Append(events, Event("check", r, dayOf(at[r])))
    /\ CountersKept
    /\ UNCHANGED <<now, at, tokens>>

(* Redis does not answer: the request is refused with status 500. *)
RedisFails(r) ==
    /\ pc[r] \in {"rpm", "daily", "tokens"}
    /\ pc' = [pc EXCEPT ![r] = "failed"]
    /\ CountersKept
    /\ UNCHANGED <<now, at, tokens, events>>
-----------------------------------------------------------------------------
(* The request ends with some usage; the task that adds it is accepted or  *)
(* dropped by the pool.                                                    *)
Use(r) ==
    /\ pc[r] = "admitted"
    /\ \E total \in Usages :
          /\ tokens' = [tokens EXCEPT ![r] = total]
          /\ \E fate \in IF total = 0 THEN {"done"} ELSE {"using", "dropped"} :
                pc' = [pc EXCEPT ![r] = fate]
    /\ CountersKept
    /\ UNCHANGED <<now, at, events>>

(* Seeded bug: the day's counter gets the time to live of a minute's. *)
AddTokenUsageShortLived(r) ==
    /\ pc[r] = "using"
    /\ IncrementBy("daily_tokens", dayOf(now), tokens[r], Minute)
    /\ events' = Append(events, Event("add", r, dayOf(now)))
    /\ pc' = [pc EXCEPT ![r] = "done"]
    /\ UNCHANGED <<now, at, tokens>>

AddTokenUsage(r) ==
    /\ pc[r] = "using"
    /\ IncrementBy("daily_tokens", dayOf(now), tokens[r], ttlUntilTomorrowUTC(now))
    /\ events' = Append(events, Event("add", r, dayOf(now)))
    /\ pc' = [pc EXCEPT ![r] = "done"]
    /\ UNCHANGED <<now, at, tokens>>

AddFails(r) ==
    /\ pc[r] = "using"
    /\ pc' = [pc EXCEPT ![r] = "dropped"]
    /\ CountersKept
    /\ UNCHANGED <<now, at, tokens, events>>

Tick ==
    /\ now < MaxTime
    /\ now' = now + 1
    /\ UNCHANGED <<value, expires, pc, at, tokens, events>>

ConsumeRequest(r) == ConsumeRpm(r) \/ ConsumeDaily(r) \/ CheckTokens(r) \/ RedisFails(r)

Next ==
    \/ \E r \in Requests : \/ Begin(r) \/ ConsumeRequest(r)
                           \/ Use(r) \/ AddTokenUsage(r) \/ AddFails(r)
    \/ Tick

Spec == Init /\ [][Next]_vars
-----------------------------------------------------------------------------
TypeOK ==
    /\ now \in 0 .. MaxTime
    /\ value \in [Counters -> [Windows -> Nat]]
    /\ expires \in [Counters -> [Windows -> Nat]]
    /\ pc \in [Requests -> States]
    /\ at \in [Requests -> 0 .. MaxTime]
    /\ tokens \in [Requests -> Nat]
    /\ events \in Seq([kind : {"check", "add"}, by : Requests, day : Nat, late : BOOLEAN])

PassedRpm == {r \in Requests : pc[r] \in {"daily", "tokens"} \cup Passed}
PassedDaily == {r \in Requests : pc[r] \in {"tokens"} \cup Passed}

(* As long as a calendar minute lasts, no more requests of that minute     *)
(* pass than RPMLimit, however their calls to Redis interleave.  (After    *)
(* it, a request that was held up may find the counter gone.)              *)
RpmLimitHolds ==
    RPMLimit > 0 =>
        \A m \in Windows :
            Cardinality({r \in PassedRpm : minuteOf(at[r]) = m /\ now < (m + 1) * Minute})
                <= RPMLimit

(* The same for a calendar day and DailyRequestLimit until the day's last  *)
(* second begins.  In that second the counter may be gone already, since   *)
(* its time to live was cut to seconds, and the limit starts over, once.   *)
DailyLimitHolds ==
    DailyRequestLimit > 0 =>
        \A d \in Windows :
            now < (d + 1) * Day =>
                Cardinality({r \in PassedDaily : dayOf(at[r]) = d})
                    <= IF LastSecond(d) THEN 2 * DailyRequestLimit ELSE DailyRequestLimit

(* Both limits on requests, in every calendar window.  A minute or a day   *)
(* is the clock's: FEATURES.md:70 speaks of sliding windows, of which this *)
(* says nothing, and around the turn of a minute the code lets through     *)
(* twice the limit.                                                        *)
RequestLimitsHold == RpmLimitHolds /\ DailyLimitHolds

Position(kind, r) ==
    CHOOSE i \in 1 .. Len(events) : events[i].kind = kind /\ events[i].by = r

Added(d) ==
    {r \in Requests : \E i \in 1 .. Len(events) :
        events[i].kind = "add" /\ events[i].by = r /\ events[i].day = d}

TokensAdded(d) == MapThenSumSet(LAMBDA r : tokens[r], Added(d))

Overlap(r, s) == /\ Position("check", s) < Position("add", r)
                 /\ Position("check", r) < Position("add", s)

LargestUsage == CHOOSE u \in Usages : \A v \in Usages : v <= u

(* The tokens added on a day exceed the limit by a whole request or more   *)
(* only if two requests were under way at once, or one came in the day     *)
(* before, or one was checked in the day's last second, when the counter   *)
(* may be gone: any other time, a client that waits for its answers, and   *)
(* for their counting, overshoots by less than one request.                *)
OvershootNeedsOverlap ==
    DailyTokenLimit > 0 =>
        \A d \in Windows :
            TokensAdded(d) >= DailyTokenLimit + LargestUsage =>
                \/ \E r, s \in Added(d) : r # s /\ Overlap(r, s)
                \/ \E r \in Added(d) : \/ dayOf(at[r]) # d
                                       \/ events[Position("check", r)].late

(* A day's token counter holds the tokens of every request that was added  *)
(* that day until the day's last second begins: no time to live ends       *)
(* sooner, and no concurrent addition is lost.  In that second it may have *)
(* forgotten some or all of them, but never holds more.                    *)
TokensAreSummed ==
    LET d == dayOf(now)
    IN  /\ Live("daily_tokens", d) <= TokensAdded(d)
        /\ ~LastSecond(d) => Live("daily_tokens", d) = TokensAdded(d)
=============================================================================
