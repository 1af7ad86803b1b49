------------------------------- MODULE Finance -------------------------------
(***************************************************************************)
(* The money of the business: the ledger and the figures of the finance    *)
(* agent (agents/finance/agent.py), the budget of the day (pilot/budget.py,*)
(* security/__init__.py) and its alert to the owner (owner/alerts.py).     *)
(*                                                                         *)
(* The sessions of one UTC day, one currency, amounts in units of the      *)
(* ledger; the row of a day keeps cents.  An entry is dated today or on an *)
(* earlier day of the month.  Every operation is a transaction of a        *)
(* session: it reads committed rows, what it flushes makes an insert under *)
(* the same unique key wait, and its commit writes the columns it changed, *)
(* computed from the row as it read it.                                    *)
(***************************************************************************)
EXTENDS Integers, FiniteSets

CONSTANTS
    Bookers,        \* database sessions
    Costs,          \* idempotency keys of expenses
    Revenues,       \* idempotency keys of revenue
    Metrics,        \* idempotency keys of the figures of the month to date
    Amount,         \* of each expense and each revenue, negative when it is a credit
    DayOf,          \* the day each is dated
    Earlier,        \* costs and revenue of the month that are booked already
    Cent,           \* units of the ledger to a unit of daily_metrics
    DailyBudget,    \* settings.daily_budget_limit
    MaxSingle,      \* settings.max_single_expense
    WarnAt          \* spend from which the owner is alerted (budget_warning_ratio)

ASSUME FinanceAssumption ==
    /\ IsFiniteSet(Bookers) /\ Bookers # {}
    /\ IsFiniteSet(Costs) /\ IsFiniteSet(Revenues)
    /\ Costs \cap Revenues = {} /\ (Costs \cup Revenues) \cap Metrics = {}
    /\ Amount \in [Costs \cup Revenues -> Int]
    /\ DayOf \in [Costs \cup Revenues -> {"today", "before"}]
    /\ Earlier \in [costs : Int, revenue : Int]
    /\ Cent \in Nat \ {0}
    /\ {DailyBudget, MaxSingle, WarnAt} \subseteq Nat

VARIABLES
    booked,  \* keys of the committed cost_entries and revenue_entries
    daily,   \* the committed daily_metrics row of each day, if there is one
    metric,  \* the committed financial_metrics row of each key, if there is one
    alert,   \* the owner_alerts row under the day's budget key
    booker   \* what each session is doing

moneyRows   == <<booked, daily, metric, alert>>
financeVars == <<booked, daily, metric, alert, booker>>

Days == {"today", "before"}

AtLeisure == [pc |-> "idle"]
NoFigures == [absent |-> TRUE]
NoMoney   == [costs |-> 0, revenue |-> 0, profit |-> 0]

\* Every unit of money of the entries of positive amount.
Units(amount, keys) == UNION {{k} \X (1..amount[k]) : k \in keys}

Credited == [k \in Costs \cup Revenues |-> -Amount[k]]

\* sum_amounts
Total(keys) == Cardinality(Units(Amount, keys)) - Cardinality(Units(Credited, keys))

\* daily_cost_total: committed entries only.
CostsToday == {k \in booked \cap Costs : DayOf[k] = "today"}
SpentToday == Total(CostsToday)

ExpenseAllowedUncounted(k) ==
    /\ Amount[k] <= MaxSingle
    /\ SpentToday <= DailyBudget

\* assert_max_single_expense and assert_daily_budget, whatever day the expense is dated.
ExpenseAllowed(k) ==
    /\ Amount[k] <= MaxSingle
    /\ SpentToday + Amount[k] <= DailyBudget

\* gross_profit
Figures(costs, revenue) ==
    [costs |-> costs, revenue |-> revenue, profit |-> revenue - costs]

\* The database rounds half away from zero, quantize half to even.
HalfUp(x) == ((2 * x + Cent) \div (2 * Cent)) * Cent

Stored(x) == IF x >= 0 THEN HalfUp(x) ELSE -HalfUp(-x)

Quantized(x) ==
    IF 2 * x = 2 * HalfUp(x) - Cent /\ (HalfUp(x) \div Cent) % 2 = 1
    THEN HalfUp(x) - Cent
    ELSE HalfUp(x)

StoredRow(row)    == [c \in DOMAIN row |-> Stored(row[c])]
QuantizedRow(row) == [c \in DOMAIN row |-> Quantized(row[c])]

\* What a commit makes of a row that was read as "seen" and changed to "new", which is
\* kept as "kept": SQL sets the columns that changed.
Update(stored, seen, new, kept) ==
    [c \in DOMAIN stored |-> IF new[c] = seen[c] THEN stored[c] ELSE kept[c]]

\* What a session has flushed: its entry, its metric, a new row of a day, a new alert.
Flushes(b, what) == booker[b].pc # "idle" /\ what \in booker[b].flushed
Free(b, what) == \A other \in Bookers \ {b} : ~Flushes(other, what)

----------------------------------------------------------------------------
FinanceInit ==
    /\ booked = {}
    /\ daily = [d \in Days |-> NoFigures]
    /\ metric = [m \in Metrics |-> NoFigures]
    /\ alert = "absent"
    /\ booker = [b \in Bookers |-> AtLeisure]

Books(b, step) == booker' = [booker EXCEPT ![b] = step]

Proceeds(b, pc) == Books(b, [booker[b] EXCEPT !.pc = pc])

\* A request to record.  (Gate and spending control may refuse it before: no change.)
RequestEntry(b, k) ==
    /\ booker[b] = AtLeisure
    /\ Books(b, [pc |-> IF k \in Costs THEN "budget" ELSE "lookup", key |-> k,
                 seen |-> NoFigures, flushed |-> {}])
    /\ UNCHANGED moneyRows

----------------------------------------------------------------------------
(* BudgetGuard.assert_expense_allowed.                                     *)

CheckBudget(b) ==
    /\ booker[b].pc = "budget"
    /\ IF ExpenseAllowed(booker[b].key) THEN Proceeds(b, "status") ELSE Books(b, AtLeisure)
    /\ UNCHANGED moneyRows

\* status is read before the expense counts.  The two levels of the alert have a row
\* each; one stands for both.
ReadStatus(b) ==
    /\ booker[b].pc = "status"
    /\ Proceeds(b, IF SpentToday < WarnAt THEN "lookup"
                   ELSE IF alert = "absent" THEN "insert_alert" ELSE "update_alert")
    /\ UNCHANGED moneyRows

\* A second insert under the key fails once the first is committed, and with it the
\* expense.
FlushAlert(b) ==
    /\ booker[b].pc \in {"insert_alert", "update_alert"}
    /\ Free(b, "alert")
    /\ Books(b, IF booker[b].pc = "insert_alert" /\ alert # "absent" THEN AtLeisure
                ELSE [booker[b] EXCEPT !.pc = "lookup", !.flushed = @ \cup {"alert"}])
    /\ UNCHANGED moneyRows

----------------------------------------------------------------------------
(* record_cost and record_revenue.                                         *)

LookUpEntry(b) ==
    /\ booker[b].pc = "lookup"
    /\ Proceeds(b, IF booker[b].key \in booked THEN "replay" ELSE "insert")
    /\ UNCHANGED moneyRows

InsertEntryThenBump(b) ==
    /\ booker[b].pc = "insert"
    /\ Free(b, booker[b].key)
    /\ Books(b, [booker[b] EXCEPT !.pc = "daily", !.flushed = @ \cup {booker[b].key}])
    /\ UNCHANGED moneyRows

InsertEntry(b) ==
    /\ booker[b].pc = "insert"
    /\ Free(b, booker[b].key)
    /\ Books(b, IF booker[b].key \in booked THEN [booker[b] EXCEPT !.pc = "replay"]
                ELSE [booker[b] EXCEPT !.pc = "daily", !.flushed = @ \cup {booker[b].key}])
    /\ UNCHANGED moneyRows

\* An alert that was flushed is committed by whoever commits.
Raised(b) == IF "alert" \in booker[b].flushed THEN "open" ELSE alert

\* The entry is there: it is returned, and the caller commits.
Replay(b) ==
    /\ booker[b].pc = "replay"
    /\ alert' = Raised(b)
    /\ Books(b, AtLeisure)
    /\ UNCHANGED <<booked, daily, metric>>

\* The day whose row the session changes: that of its entry, the last of its figures.
RowOf(b) == IF booker[b].key \in Metrics THEN "today" ELSE DayOf[booker[b].key]

\* _daily: the row of the day, inserted if it is not found.  A second insert fails once
\* the first is committed, and all of the transaction with it.
ReadDaily(b) ==
    /\ booker[b].pc = "daily"
    /\ Books(b, [booker[b] EXCEPT !.pc = IF daily[RowOf(b)] = NoFigures THEN "new_day" ELSE "commit",
                                  !.seen = daily[RowOf(b)]])
    /\ UNCHANGED moneyRows

InsertDaily(b) ==
    /\ booker[b].pc = "new_day"
    /\ Free(b, RowOf(b))
    /\ Books(b, IF daily[RowOf(b)] # NoFigures THEN AtLeisure
                ELSE [booker[b] EXCEPT !.pc = "commit", !.seen = NoMoney,
                                       !.flushed = @ \cup {RowOf(b)}])
    /\ UNCHANGED moneyRows

\* The row as the update finds it: the one just inserted has no committed version yet.
StoredDaily(d) == IF daily[d] = NoFigures THEN NoMoney ELSE daily[d]

\* _bump_daily_costs and _bump_daily_revenue.
Bumped(seen, k) ==
    IF k \in Costs THEN Figures(seen.costs + Amount[k], seen.revenue)
                   ELSE Figures(seen.costs, seen.revenue + Amount[k])

CommitEntry(b) ==
    /\ booker[b].pc = "commit" /\ booker[b].key \notin Metrics
    /\ booked' = booked \cup {booker[b].key}
    /\ LET new == Bumped(booker[b].seen, booker[b].key)
       IN  daily' = [daily EXCEPT ![RowOf(b)] =
                        Update(StoredDaily(RowOf(b)), booker[b].seen, new, StoredRow(new))]
    /\ alert' = Raised(b)
    /\ Books(b, AtLeisure)
    /\ UNCHANGED metric

----------------------------------------------------------------------------
(* run and calculate_metrics, for the month to date.                       *)

\* Figures that are there already are the answer, stale or not.
RequestFigures(b, m) ==
    /\ booker[b] = AtLeisure
    /\ metric[m] = NoFigures
    /\ Books(b, [pc |-> "sum_costs", key |-> m, seen |-> NoFigures, flushed |-> {}])
    /\ UNCHANGED moneyRows

\* Costs and revenue are read one after the other.
SumCosts(b) ==
    /\ booker[b].pc = "sum_costs"
    /\ Books(b, [pc |-> "sum_revenue", key |-> booker[b].key, seen |-> NoFigures,
                 flushed |-> {}, costs |-> Earlier.costs + Total(booked \cap Costs)])
    /\ UNCHANGED moneyRows

SumRevenue(b) ==
    /\ booker[b].pc = "sum_revenue"
    /\ Books(b, [pc |-> "insert_metric", key |-> booker[b].key, seen |-> NoFigures,
                 flushed |-> {}, figures |->
                    Figures(booker[b].costs, Earlier.revenue + Total(booked \cap Revenues))])
    /\ UNCHANGED moneyRows

InsertMetric(b) ==
    /\ booker[b].pc = "insert_metric"
    /\ Free(b, booker[b].key)
    /\ Books(b, IF metric[booker[b].key] # NoFigures THEN AtLeisure
                ELSE [booker[b] EXCEPT !.pc = "daily", !.flushed = {booker[b].key}])
    /\ UNCHANGED moneyRows

\* _sync_daily_metric_money: today's row takes the figures of the whole period.
CommitFigures(b) ==
    /\ booker[b].pc = "commit" /\ booker[b].key \in Metrics
    /\ metric' = [metric EXCEPT ![booker[b].key] = booker[b].figures]
    /\ LET new == QuantizedRow(booker[b].figures)
       IN  daily' = [daily EXCEPT !["today"] =
                        Update(StoredDaily("today"), booker[b].seen, new, new)]
    /\ Books(b, AtLeisure)
    /\ UNCHANGED <<booked, alert>>

----------------------------------------------------------------------------
\* The caller fails, the database does, or the process dies.
BookingLost(b) ==
    /\ booker[b] # AtLeisure
    /\ Books(b, AtLeisure)
    /\ UNCHANGED moneyRows

FinanceNext ==
    \E b \in Bookers :
        \/ \E k \in Costs \cup Revenues : RequestEntry(b, k)
        \/ CheckBudget(b)
        \/ ReadStatus(b)
        \/ FlushAlert(b)
        \/ LookUpEntry(b)
        \/ InsertEntry(b)
        \/ Replay(b)
        \/ ReadDaily(b)
        \/ InsertDaily(b)
        \/ CommitEntry(b)
        \/ \E m \in Metrics : RequestFigures(b, m)
        \/ SumCosts(b)
        \/ SumRevenue(b)
        \/ InsertMetric(b)
        \/ CommitFigures(b)
        \/ BookingLost(b)

FinanceSpec == FinanceInit /\ [][FinanceNext]_financeVars

----------------------------------------------------------------------------
(* Properties.                                                             *)

\* The rows: an entry per key, the columns of a day, the figures of a period, an alert.
LedgerRows == SUBSET (Costs \cup Revenues)
MoneyRow   == [costs : Int, revenue : Int, profit : Int]
DailyRow   == MoneyRow \cup {NoFigures}
MetricRows == [Metrics -> DailyRow]
AlertRow   == {"absent", "open"}

\* Every variable of the finances holds a value of its type.
FinanceTypeOK ==
    LET Booking == {"budget", "status", "insert_alert", "update_alert", "lookup", "insert",
                    "replay", "daily", "new_day", "commit", "sum_costs", "sum_revenue",
                    "insert_metric"}
    IN  /\ booked \in LedgerRows
        /\ daily \in [Days -> DailyRow]
        /\ metric \in MetricRows
        /\ alert \in AlertRow
        /\ \A b \in Bookers : booker[b] # AtLeisure =>
            /\ booker[b].pc \in Booking
            /\ booker[b].key \in Costs \cup Revenues \cup Metrics
            /\ booker[b].seen \in DailyRow
            /\ booker[b].flushed \subseteq
                Costs \cup Revenues \cup Metrics \cup {"alert"} \cup Days

\* The budget is checked on committed expenses before the expense is inserted: expenses
\* booked at once may pass it, by no more than the largest single one each.
SpendOvershootBounded ==
    SpentToday <= DailyBudget + (Cardinality(Bookers) - 1) * MaxSingle

\* What a column of a day can be made of, each entry counted once: booked entries of the
\* day; or, today, since the figures of the month were taken, of any day of the month and
\* what was booked before.  An update rounds by half a cent at most.
Sums(d, keys, earlier) ==
    LET sum(base, S) == [exact |-> base + Total(S), cents |-> Cardinality(S) + 1]
    IN  {sum(0, S) : S \in SUBSET {k \in keys : DayOf[k] = d}}
        \cup {sum(earlier, S) : S \in IF d = "today" THEN SUBSET keys ELSE {}}

Shows(x, exact, cents) == -(Cent * cents) <= 2 * (x - exact) /\ 2 * (x - exact) <= Cent * cents

CostSums(d)    == Sums(d, booked \cap Costs, Earlier.costs)
RevenueSums(d) == Sums(d, booked \cap Revenues, Earlier.revenue)

OfTheDay(d, row) ==
    /\ \E c \in CostSums(d) : Shows(row.costs, c.exact, c.cents)
    /\ \E r \in RevenueSums(d) : Shows(row.revenue, r.exact, r.cents)
    /\ \E c \in CostSums(d), r \in RevenueSums(d) :
          Shows(row.profit, r.exact - c.exact, r.cents + c.cents)

OfThePeriod(figures) ==
    \E C \in SUBSET (booked \cap Costs), R \in SUBSET (booked \cap Revenues) :
        figures = Figures(Earlier.costs + Total(C), Earlier.revenue + Total(R))

\* Whatever updates overwrite each other, and whatever requests are repeated or lost, the
\* figures show entries of the ledger, each once: those of a day to within the rounding
\* of its updates, those of a period exactly, with the profit they make.
FiguresAreOfTheLedger ==
    /\ \A d \in Days : daily[d] # NoFigures => OfTheDay(d, daily[d])
    /\ \A m \in Metrics : metric[m] # NoFigures => OfThePeriod(metric[m])
=============================================================================
