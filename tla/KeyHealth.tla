------------------------------- MODULE KeyHealth -------------------------------
(***************************************************************************)
(* The tracker of provider keys in cooldown, a sync.Map shared by every    *)
(* handler and by the admin pages                                          *)
(* (backend/internal/service/keyhealth/tracker.go).                        *)
(*                                                                         *)
(* Penalize and Clear are one map operation each.  Current is two: it      *)
(* loads the key's entry and, finding it expired, deletes whatever entry   *)
(* the key has by then.                                                    *)
(***************************************************************************)
EXTENDS Naturals

CONSTANTS Keys,
          Callers,    (* the goroutines that call Current                    *)
          Durations,  (* the lengths of penalties                            *)
          MaxTime     (* bound: the clock stops there                        *)

VARIABLES
    now,      \* the clock
    entries,  \* entries[k]: when the penalty of k ends, or NoEntry
    deleting  \* deleting[c]: the key that c, inside Current, found expired

trackerVars == <<now, entries, deleting>>

NoEntry == 0

Init ==
    /\ now = 1
    /\ entries = [k \in Keys |-> NoEntry]
    /\ deleting = [c \in Callers |-> {}]

(* Seeded bug: an entry counts as long as it is in the map. *)
InForceAnyEntry(k, t) == entries[k] # NoEntry

InForce(k, t) == entries[k] > t

Expired(k, t) == entries[k] # NoEntry /\ entries[k] <= t
-----------------------------------------------------------------------------
(* Current(k, t): its result is InForce(k, t) at the time of the load.     *)

Load(c, k, t) ==
    /\ deleting[c] = {}
    /\ deleting' = [deleting EXCEPT ![c] = IF Expired(k, t) THEN {k} ELSE {}]
    /\ UNCHANGED <<now, entries>>

Delete(c) ==
    /\ deleting[c] # {}
    /\ entries' = [k \in Keys |-> IF k \in deleting[c] THEN NoEntry ELSE entries[k]]
    /\ deleting' = [deleting EXCEPT ![c] = {}]
    /\ UNCHANGED now

Penalize(k, d) ==
    /\ entries' = [entries EXCEPT ![k] = now + d]
    /\ UNCHANGED <<now, deleting>>

Clear(k) ==
    /\ entries' = [entries EXCEPT ![k] = NoEntry]
    /\ UNCHANGED <<now, deleting>>

Tick ==
    /\ now < MaxTime
    /\ now' = now + 1
    /\ UNCHANGED <<entries, deleting>>

Next ==
    \/ \E c \in Callers : \/ \E k \in Keys, t \in 1 .. now : Load(c, k, t)
                          \/ Delete(c)
    \/ \E k \in Keys : Clear(k) \/ \E d \in Durations : Penalize(k, d)
    \/ Tick

Spec == Init /\ [][Next]_trackerVars
=============================================================================
