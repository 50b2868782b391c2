-------------------------------- MODULE Alerting --------------------------------
(***************************************************************************)
(* The tickers that watch the gateway and call a webhook: the alert        *)
(* services for missing debits, blocked wallets, provider errors, down     *)
(* dependencies and the reconciliation of wallets                          *)
(* (backend/internal/service/*alert, reconciliation, alerting).            *)
(*                                                                         *)
(* They are one algorithm.  A service runs its query at every tick, alerts *)
(* once about a subject it finds anomalous and forgets the subject when a  *)
(* later query finds it well again.  They differ in what the query lists:  *)
(* the anomalous subjects only, so that recovery shows at the end of the   *)
(* round, or all subjects, each with its state.                            *)
(***************************************************************************)
EXTENDS Naturals

CONSTANTS Subjects,   (* users, providers or dependencies                  *)
          Listings,   (* "anomalies" and "all", see above                  *)
          MaxRestarts (* bound: the process is restarted so often          *)

ASSUME AlertingAssumption == /\ Listings \subseteq {"anomalies", "all"}
                             /\ MaxRestarts \in Nat

VARIABLES
    listing,    \* what the service's query lists
    anomalous,  \* the subjects in trouble, whether the service knows or not
    ticker,     \* what the service's goroutine is doing
    seen,       \* the anomalous subjects of the last query
    pending,    \* the listed subjects that the round has not come to
    alerted,    \* the service's map of subjects that need no further alert
    told,       \* history: the process, counted from 1, that last called the
                \* webhook about the subject since a query saw it well; 0: none
    restarts    \* the restarts so far

alertVars == <<listing, anomalous, ticker, seen, pending, alerted, told, restarts>>

(* The number of the running process. *)
thisProcess == restarts + 1

AlertInit ==
    /\ listing \in Listings
    /\ anomalous = {}
    /\ ticker = "idle"
    /\ seen = {}
    /\ pending = {}
    /\ alerted = {}
    /\ told = [x \in Subjects |-> 0]
    /\ restarts = 0
-----------------------------------------------------------------------------
(* The world: a subject gets into trouble or out of it. *)
Change(x) ==
    /\ anomalous' = IF x \in anomalous THEN anomalous \ {x} ELSE anomalous \cup {x}
    /\ UNCHANGED <<listing, ticker, seen, pending, alerted, told, restarts>>

(* A tick; the query succeeds. *)
Query ==
    /\ ticker = "idle"
    /\ ticker' = "round"
    /\ seen' = anomalous
    /\ pending' = IF listing = "all" THEN Subjects ELSE anomalous
    /\ told' = [x \in Subjects |-> IF x \in anomalous THEN told[x] ELSE 0]
    /\ UNCHANGED <<listing, anomalous, alerted, restarts>>

(* A tick; the query fails, and the round ends with it. *)
QueryFails ==
    /\ ticker = "idle"
    /\ UNCHANGED alertVars

(* An item of a full listing that is well. *)
ClearAlerted(x) ==
    /\ x \in pending \ seen
    /\ pending' = pending \ {x}
    /\ alerted' = alerted \ {x}
    /\ UNCHANGED <<listing, anomalous, ticker, seen, told, restarts>>

(* markAlerted finds the subject in the map. *)
Skip(x) ==
    /\ x \in pending \cap seen \cap alerted
    /\ pending' = pending \ {x}
    /\ UNCHANGED <<listing, anomalous, ticker, seen, alerted, told, restarts>>

(* Seeded bug: only a delivered alert is put into the map. *)
AlertMarksDelivered(x) ==
    /\ x \in (pending \cap seen) \ alerted
    /\ pending' = pending \ {x}
    /\ told' = [told EXCEPT ![x] = thisProcess]
    /\ alerted' \in {alerted, alerted \cup {x}}
    /\ UNCHANGED <<listing, anomalous, ticker, seen, restarts>>

(* Seeded bug: a failed call of the webhook ends the round. *)
AlertEndsRound(x) ==
    /\ x \in (pending \cap seen) \ alerted
    /\ \/ pending' = pending \ {x} /\ told' = [told EXCEPT ![x] = thisProcess]
          /\ alerted' = alerted \cup {x} /\ UNCHANGED ticker
       \/ ticker' = "idle" /\ pending' = {} /\ UNCHANGED <<told, alerted>>
    /\ UNCHANGED <<listing, anomalous, seen, restarts>>

(* markAlerted puts the subject into the map, then the webhook is called,  *)
(* which succeeds or fails: the service goes on in the same way.           *)
Alert(x) ==
    /\ x \in (pending \cap seen) \ alerted
    /\ pending' = pending \ {x}
    /\ alerted' = alerted \cup {x}
    /\ told' = [told EXCEPT ![x] = thisProcess]
    /\ UNCHANGED <<listing, anomalous, ticker, seen, restarts>>

(* clearRecovered: what was not seen anomalous leaves the map.  For a full *)
(* listing that changes nothing more.                                      *)
EndRound ==
    /\ ticker = "round"
    /\ pending = {}
    /\ ticker' = "idle"
    /\ alerted' = IF listing = "anomalies" THEN alerted \cap seen ELSE alerted
    /\ UNCHANGED <<listing, anomalous, seen, pending, told, restarts>>

(* The process ends, in or between rounds, and is started again: the map   *)
(* is not kept anywhere, while the calls of the webhook have been made.    *)
Restart ==
    /\ restarts < MaxRestarts
    /\ restarts' = restarts + 1
    /\ ticker' = "idle"
    /\ seen' = {}
    /\ pending' = {}
    /\ alerted' = {}
    /\ UNCHANGED <<listing, anomalous, told>>

Item(x) == ClearAlerted(x) \/ Skip(x) \/ Alert(x)
Round == (\E x \in Subjects : Item(x)) \/ EndRound

AlertNext ==
    \/ \E x \in Subjects : Change(x)
    \/ Query
    \/ QueryFails
    \/ Round
    \/ Restart

AlertSpec == AlertInit /\ [][AlertNext]_alertVars

(* A ticker ticks, a webhook call ends by its client's timeout, and        *)
(* queries do not fail for ever.                                           *)
FairAlertSpec == AlertSpec /\ WF_alertVars(Round) /\ WF_alertVars(Query)
-----------------------------------------------------------------------------
AlertTypeOK ==
    /\ listing \in {"anomalies", "all"}
    /\ anomalous \subseteq Subjects
    /\ ticker \in {"idle", "round"}
    /\ seen \subseteq Subjects
    /\ pending \subseteq (IF listing = "all" THEN Subjects ELSE seen)
    /\ ticker = "idle" => pending = {}
    /\ alerted \subseteq Subjects
    /\ told \in [Subjects -> 0 .. MaxRestarts + 1]
    /\ restarts \in 0 .. MaxRestarts

(* One process alerts about a subject once until it recovers: it makes no  *)
(* second call of the webhook while every query has found the subject      *)
(* anomalous, also when the first call failed.  The next process makes a   *)
(* second call, since the map was lost with the first one: the promise of  *)
(* one alert until recovery (FEATURES.md:219) holds between restarts only. *)
OnceUntilRecovered ==
    [][\A x \in Subjects :
          x \notin alerted /\ x \in alerted' => told[x] < thisProcess]_alertVars

(* A subject that stays anomalous is alerted about by every process that   *)
(* lives long enough, also when an earlier one has alerted about it.       *)
LastingAnomalyIsTold ==
    \A x \in Subjects, n \in 0 .. MaxRestarts :
        (x \in anomalous /\ restarts = n)
           ~> (told[x] = n + 1 \/ x \notin anomalous \/ restarts # n)
=============================================================================
