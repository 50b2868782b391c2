----------------------------- MODULE MCClientKeys -----------------------------
EXTENDS Reports

CONSTANTS u1, m1, m2

Row(owner, f) ==
    [owner |-> owner, status |-> f.status, daily |-> f.daily, monthly |-> f.monthly,
     expires |-> f.expires]

(* A budget for the day and the month, and a key for one day. *)
Restricted == [status |-> "active", daily |-> 2, monthly |-> 3, expires |-> Never,
               models |-> {m1}]
Trial == [status |-> "active", daily |-> 0, monthly |-> 0, expires |-> MaxTime,
          models |-> {m2}]

MCForms == {Restricted, Trial}
MCExpiries == {Start, MaxTime, Never}

Spent(k, m, t, amount) == [key |-> k, model |-> m, at |-> t, amount |-> amount]

(* A user with a restricted key that has spent something before; no user,  *)
(* with a trial key that nobody owns; and a disabled user with both keys.  *)
MCDatabases ==
    {[users |-> [u \in Users |-> [status |-> "active", funded |-> TRUE]],
      rows |-> (1 :> Row(u1, Restricted) @@ 2 :> NoRow),
      allowed |-> (1 :> Restricted.models @@ 2 :> {}),
      logs |-> <<Spent(1, m1, Start - 2, 2), Spent(1, m1, Start - 1, 1)>>,
      known |-> {1}]}
    \cup
    {[users |-> [u \in Users |-> NoRow],
      rows |-> (1 :> NoRow @@ 2 :> Row(NoRow, Trial)),
      allowed |-> (1 :> {} @@ 2 :> Trial.models),
      logs |-> <<Spent(NoRow, m1, Start, 1)>>,
      known |-> {2}],
     [users |-> [u \in Users |-> [status |-> "disabled", funded |-> TRUE]],
      rows |-> (1 :> Row(u1, Restricted) @@ 2 :> Row(u1, Trial)),
      allowed |-> (1 :> Restricted.models @@ 2 :> Trial.models),
      logs |-> <<Spent(2, m2, Start - 1, 2), Spent(1, m1, Start, 1)>>,
      known |-> {1, 2}]}
=============================================================================
