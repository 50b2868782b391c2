------------------------------ MODULE AdminAction ------------------------------
(***************************************************************************)
(* What every changing handler of the admin API does around its store call *)
(* (backend/internal/api/admin/handler.go): refuse the request or commit   *)
(* one change, in some handlers read more from the database after the      *)
(* commit, write an entry to the audit trail with the row the store call   *)
(* has returned, and answer.                                               *)
(*                                                                         *)
(* The change and the audit entry are two statements, and nothing repeats  *)
(* the second.  The module is instantiated by the modules that own the     *)
(* rows: Catalog and ClientKeys.                                           *)
(***************************************************************************)
CONSTANTS Calls,  (* administrator requests                                  *)
          Rows,   (* what a call writes, and what its audit entry tells      *)
          NoRow

VARIABLES
    stage,  \* how far each call has got
    wrote,  \* history: the row that the call has committed
    told,   \* the row the store call returns, while the handler runs
    trail   \* admin_action_logs: for each call the row it names, or NoRow

adminVars == <<stage, wrote, told, trail>>

(* "error": an error was answered, "done": success.                        *)
Stages == {"new", "reloading", "recording", "done", "error", "lost"}

Init ==
    /\ stage = [c \in Calls |-> "new"]
    /\ wrote = [c \in Calls |-> NoRow]
    /\ told = [c \in Calls |-> NoRow]
    /\ trail = [c \in Calls |-> NoRow]

Step(c, from, to) == stage[c] = from /\ stage' = [stage EXCEPT ![c] = to]
-----------------------------------------------------------------------------
(* The body does not parse, a required field is missing, a constraint      *)
(* refuses the row, or the database is away: an error is answered.         *)
Refuse(c) ==
    /\ Step(c, "new", "error")
    /\ UNCHANGED <<wrote, told, trail>>

(* The statement returns the row as it has written it.                     *)
Commit(c, row) ==
    /\ Step(c, "new", "recording")
    /\ wrote' = [wrote EXCEPT ![c] = row]
    /\ told' = [told EXCEPT ![c] = row]
    /\ UNCHANGED trail

(* The store call goes on after its commit with another query.             *)
CommitThenReload(c, row) ==
    /\ Step(c, "new", "reloading")
    /\ wrote' = [wrote EXCEPT ![c] = row]
    /\ UNCHANGED <<told, trail>>

Reload(c, row) ==
    /\ Step(c, "reloading", "recording")
    /\ told' = [told EXCEPT ![c] = row]
    /\ UNCHANGED <<wrote, trail>>

(* Seeded bug: the change is recorded although the reload has failed.      *)
ReloadFailsRecorded(c) ==
    /\ Step(c, "reloading", "error")
    /\ trail' = [trail EXCEPT ![c] = wrote[c]]
    /\ UNCHANGED <<wrote, told>>

(* The error of the second query is answered like one of the first,        *)
(* although the change has been committed.                                 *)
ReloadFails(c) ==
    /\ Step(c, "reloading", "error")
    /\ UNCHANGED <<wrote, told, trail>>

(* recordAdminAction drops the error of its insert. *)
Record(c) ==
    /\ Step(c, "recording", "done")
    /\ \/ trail' = [trail EXCEPT ![c] = told[c]]
       \/ UNCHANGED trail
    /\ told' = [told EXCEPT ![c] = NoRow]
    /\ UNCHANGED wrote

(* The process dies.  A call whose statement has not been committed has    *)
(* left nothing behind.                                                    *)
Crash ==
    /\ stage' = [c \in Calls |-> IF stage[c] \in {"new", "reloading", "recording"}
                                 THEN "lost" ELSE stage[c]]
    /\ told' = [c \in Calls |-> NoRow]
    /\ UNCHANGED <<wrote, trail>>

TypeOK ==
    /\ stage \in [Calls -> Stages]
    /\ {wrote, told, trail} \subseteq [Calls -> Rows \cup {NoRow}]
=============================================================================
