-------------------------------- MODULE Reports --------------------------------
(***************************************************************************)
(* What administrators and users are shown of the keys and the request     *)
(* logs, at any moment of ClientKeys' history: the dashboard, the portal's *)
(* figures, the usage of each key, the export and the pages of the log     *)
(* list (backend/internal/repository/postgres/store.go, and the handlers   *)
(* in backend/internal/api/admin and tenant).                              *)
(*                                                                         *)
(* Key ids are numbers, as the lists are ordered by them.  Of the figures  *)
(* only the billable amounts are kept; counts, tokens and costs are summed *)
(* by the same queries.                                                    *)
(***************************************************************************)
EXTENDS ClientKeys, Integers

CONSTANTS WindowTicks,  (* the 24 hours of the dashboard                     *)
          TopLimit,     (* how many clients the dashboard lists              *)
          ExportLimit,  (* how many rows an export has                       *)
          PageSize,
          ZoneTicks,    (* see DailyStats                                    *)
          WarningThreshold  (* of every key, in percent of a budget          *)

ASSUME ReportsAssumption ==
    /\ ClientKeys \subseteq Nat \ {0}
    /\ IsFiniteSet(ClientKeys) /\ IsFiniteSet(Users)
    /\ {WindowTicks, TopLimit, ExportLimit, PageSize} \subseteq Nat \ {0}
    /\ ZoneTicks \in 1 - DayTicks .. DayTicks - 1
    /\ WarningThreshold \in 0 .. 100

VARIABLE reader  \* somebody who turns the pages of the log list

reportVars == <<vars, reader>>

Exists(k) == rows[k] # NoRow
AnyKey == ClientKeys \cup {NoRow}
Unowned == {k \in ClientKeys : Exists(k) /\ rows[k].owner = NoRow}
today == now \div DayTicks
SumOver(S, amount(_)) == Total([x \in S |-> amount(x)])

(* What a list in some order shows of S when it leaves out the first       *)
(* "offset" and has no more than "limit": a sorted slice, or ORDER BY,     *)
(* OFFSET and LIMIT.  The list is kept as the set of what is on it.        *)
Place(x, S, before(_, _)) == Cardinality({y \in S : before(y, x)})

Slice(S, before(_, _), offset, limit) ==
    {x \in S : Place(x, S, before) \in offset .. offset + limit - 1}
-----------------------------------------------------------------------------
(* ListClientAPIKeys: each key with what it has spent *)
CostUsage(k) ==
    [total |-> Billed(Entries({k}, 0)),
     day |-> Billed(Entries({k}, dayStart(now))),
     month |-> Billed(Entries({k}, monthStart(now)))]

(* ListUserClientAPIKeys *)
UserKeys(u) == [k \in OwnedBy(u) |-> CostUsage(k)]

percent(limit, used) == IF limit > 0 THEN (used * 100) \div limit ELSE 0

HighestUsage(k) ==
    LET usage == CostUsage(k)
        daily == percent(rows[k].daily, usage.day)
        monthly == percent(rows[k].monthly, usage.month)
    IN  IF monthly > daily THEN monthly ELSE daily

IsWarningTriggered(k) == WarningThreshold > 0 /\ HighestUsage(k) >= WarningThreshold

UsedMost(j, k) ==
    LET a == HighestUsage(j)
        b == HighestUsage(k)
    IN  a > b \/ (a = b /\ j > k)

(* Seeded bug: only the daily budget puts a key on the list. *)
DailyPressure ==
    Slice({k \in ClientKeys : Exists(k) /\ percent(rows[k].daily, CostUsage(k).day) >= 60},
          UsedMost, 0, TopLimit)

(* buildBudgetPressure: the keys that have used up or much of a budget,    *)
(* those that have used most first.                                        *)
BudgetPressure ==
    LET pressed ==
            {k \in ClientKeys :
                /\ Exists(k)
                /\ LET highest == HighestUsage(k)
                   IN  /\ highest > 0
                       /\ \/ clientKeyBudgetExceeded(rows[k], CostUsage(k))
                          \/ IsWarningTriggered(k)
                          \/ highest >= 60}
    IN  Slice(pressed, UsedMost, 0, TopLimit)

(* GetDashboardStats: every row, also those of debug requests. *)
Dashboard == [today |-> Billed(Entries(AnyKey, dayStart(now))),
              month |-> Billed(Entries(AnyKey, monthStart(now)))]

Window == {i \in 1 .. Len(logs) : logs[i].at + WindowTicks >= now}

(* Debug requests are shown as one anonymous client. *)
ClientOf(i) == IF logs[i].key = NoRow THEN 0 ELSE logs[i].key

SpentInWindow(k) == Billed({i \in Window : ClientOf(i) = k})

(* Those with equal amounts come in the order of their ids here: counts    *)
(* and names, which the query goes by then, are not modelled.              *)
SpentMost(j, k) ==
    LET a == SpentInWindow(j)
        b == SpentInWindow(k)
    IN  a > b \/ (a = b /\ j < k)

TopClients == Slice({ClientOf(i) : i \in Window}, SpentMost, 0, TopLimit)

(* GetUserPortalStats *)
PortalStats(u) ==
    [total |-> Billed(Entries(OwnedBy(u), 0)),
     today |-> Billed(Entries(OwnedBy(u), dayStart(now))),
     month |-> Billed(Entries(OwnedBy(u), monthStart(now)))]

(* The figures of GetUserPortalDailyStats are those of the days of the     *)
(* database session, like all others, but the limits come from a handler   *)
(* that takes its dates as UTC: ZoneTicks is how much later than the       *)
(* session's a limit's midnight is (0 where the zones agree, or where      *)
(* PostgreSQL takes the limits for the dates they are cast to).            *)
midnight(date) == date * DayTicks + ZoneTicks

(* One figure for each date from "from" up to, but without, "to". *)
DailyStats(u, from, to) ==
    LET chosen == {i \in Entries(OwnedBy(u), midnight(from)) : logs[i].at < midnight(to)}
    IN  [d \in from .. to - 1 |-> Billed({i \in chosen : logs[i].at \div DayTicks = d})]

(* GetUserClientKeyModelStats *)
KeyModelStats(u, k) ==
    LET own == IF k \in OwnedBy(u) THEN Entries({k}, 0) ELSE {}
    IN  [m \in {logs[i].model : i \in own} |-> Billed({i \in own : logs[i].model = m})]
-----------------------------------------------------------------------------
(* ListRequestLogs counts, and then selects a page, newest first: by the   *)
(* time of the row and its id, which is the order of logs.  A user sees    *)
(* the rows of the keys that are theirs, an administrator all.             *)

KeysOf(who) == IF who = NoRow THEN AnyKey ELSE OwnedBy(who)

Listed(who) == Entries(KeysOf(who), 0)
Newer(i, j) == i > j

ExportRequestLogs(who) == Slice(Listed(who), Newer, 0, ExportLimit)

PageOf(listed, page) == Slice(listed, Newer, (page - 1) * PageSize, PageSize)

ReaderInit ==
    reader = [stage |-> "idle", who |-> NoRow, page |-> 0, total |-> 0,
              there |-> {}, shown |-> {}, overtaken |-> FALSE]

(* The first page is asked for, or the next one. *)
CountLogs ==
    /\ reader.stage = "idle"
    /\ IF reader.page = 0 THEN Begin ELSE UNCHANGED work
    /\ \E who \in Users \cup {NoRow} :
          /\ reader.page > 0 => who = reader.who
          /\ reader' = [reader EXCEPT !.stage = "counted", !.who = who,
                !.page = @ + 1, !.total = Cardinality(Listed(who)),
                !.there = IF reader.page = 0 THEN Listed(who) ELSE @]

(* Seeded bug: the offset is that of the page after. *)
SelectNextPage ==
    /\ reader.stage = "counted"
    /\ LET listed == Listed(reader.who)
       IN  reader' = [reader EXCEPT
              !.shown = @ \cup PageOf(listed, reader.page + 1),
              !.stage = IF reader.page * PageSize < reader.total THEN "idle" ELSE "done",
              !.overtaken = Cardinality(listed) # reader.total]

(* The reader turns on while the total says that there is more. *)
SelectPage ==
    /\ reader.stage = "counted"
    /\ LET listed == Listed(reader.who)
       IN  reader' = [reader EXCEPT
              !.shown = @ \cup PageOf(listed, reader.page),
              !.stage = IF reader.page * PageSize < reader.total THEN "idle" ELSE "done",
              !.overtaken = Cardinality(listed) # reader.total]

ReportInit == Init /\ ReaderInit

ReportNext ==
    \/ Next /\ UNCHANGED reader
    \/ CountLogs /\ UNCHANGED <<tables, portal, now, admin, tx, request>>
    \/ SelectPage /\ UNCHANGED vars

ReportSpec == ReportInit /\ [][ReportNext]_reportVars /\ Fairness
-----------------------------------------------------------------------------
(* The queries that sum up the same amounts agree: the dashboard with the  *)
(* portals of all users, the keys that nobody owns and the requests        *)
(* without a key; a portal's figures with its keys, and with its days if   *)
(* they are asked for with a day to spare at both ends; a key's total with *)
(* its models; an export that is not cut off with the rows they sum.  And  *)
(* whoever is turned away for its budget is on the list of budget          *)
(* pressure, or that list is full of such keys.                            *)
StatsAgree ==
    /\ Dashboard.today = SumOver(Users, LAMBDA u : PortalStats(u).today)
                            + SumOver(Unowned, LAMBDA k : CostUsage(k).day)
                            + Billed(Entries({NoRow}, dayStart(now)))
    /\ Dashboard.month = SumOver(Users, LAMBDA u : PortalStats(u).month)
                            + SumOver(Unowned, LAMBDA k : CostUsage(k).month)
                            + Billed(Entries({NoRow}, monthStart(now)))
    /\ \A u \in Users :
          PortalStats(u).total = SumOver(OwnedBy(u), LAMBDA k : UserKeys(u)[k].total)
    /\ \A u \in Users :
          LET first == monthStart(now) \div DayTicks
              days == DailyStats(u, first - 1, today + 2)
          IN  /\ days[today] = PortalStats(u).today
              /\ SumOver(first .. today, LAMBDA d : days[d]) = PortalStats(u).month
    /\ \A u \in Users, k \in ClientKeys :
          LET stats == KeyModelStats(u, k)
          IN  k \in OwnedBy(u) =>
                 SumOver(DOMAIN stats, LAMBDA m : stats[m]) = CostUsage(k).total
    /\ LET clients == TopClients
       IN  Cardinality(clients) < TopLimit =>
              SumOver(clients, SpentInWindow) = Billed(Window)
    /\ \A who \in Users \cup {NoRow} :
          LET export == ExportRequestLogs(who)
          IN  Cardinality(export) < ExportLimit => export = Listed(who)
    /\ LET pressure == BudgetPressure
       IN  \A k \in ClientKeys :
              Exists(k) /\ clientKeyBudgetExceeded(rows[k], Snapshot(k)) =>
                 \/ k \in pressure
                 \/ /\ Cardinality(pressure) = TopLimit
                    /\ \A j \in pressure : HighestUsage(j) >= 100

(* Who turns the pages of the log list until the total says that there is  *)
(* no more has seen every row that was there at the beginning, whatever is *)
(* logged meanwhile; rows may be shown twice, never be passed over, unless *)
(* one is added between the count and the rows of the last page.           *)
PagesCoverAll ==
    reader.stage = "done" /\ ~reader.overtaken => reader.there \subseteq reader.shown
=============================================================================
