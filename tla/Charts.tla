------------------------------- MODULE Charts -------------------------------
(***************************************************************************)
(* The queries of internal/db/visualization.sql.go over the rows of one    *)
(* analysis, and the summary internal/http/visualization.go makes of one   *)
(* of them.  A window is a record of its first and its last month.  A      *)
(* GROUP BY is a function from the group to its aggregates; money is in    *)
(* cents, and quotients, rounding and the order of the groups are left out. *)
(***************************************************************************)
EXTENDS Calendar, FiniteSetsExt

\* MUTANT of PeriodEnd: the first day of the window's last month.
PeriodEndFirstDay(w) == FirstDay(w.to)

PeriodEnd(w) == LastDay(w.to)

\* The WHERE clause every query shares.
InWindow(rows, w) ==
    {i \in DOMAIN rows :
        FirstDay(w.from) <= rows[i].date /\ rows[i].date <= PeriodEnd(w)}

Credits(rows, w) == {i \in InWindow(rows, w) : rows[i].direction = "credit"}

Debits(rows, w) == {i \in InWindow(rows, w) : rows[i].direction = "debit"}

Amount(rows, S) ==
    SumFunctionOnSet([i \in DOMAIN rows |-> rows[i].amount], S)

Essential(rows, S) == {i \in S : rows[i].essential}

Recurring(rows, S) == {i \in S : rows[i].recurring}

MonthsOf(rows, S) == {MonthOf(rows[i].date) : i \in S}

OfMonth(rows, S, m) == {i \in S : MonthOf(rows[i].date) = m}

CategoryOf(row) ==
    IF row.category = "" THEN "Uncategorised" ELSE row.category

CategoriesOf(rows, S) == {CategoryOf(rows[i]) : i \in S}

OfCategory(rows, S, c) == {i \in S : CategoryOf(rows[i]) = c}

\* The last month with a transaction, {} when there is none.
GetTransactionMonthBounds(rows) ==
    LET months == MonthsOf(rows, DOMAIN rows) IN
    {m \in months : \A n \in months : n <= m}

WindowSummary(rows, w) ==
    LET spent == Debits(rows, w) IN
    [income    |-> Amount(rows, Credits(rows, w)),
     spending  |-> Amount(rows, spent),
     essential |-> Amount(rows, Essential(rows, spent)),
     recurring |-> Amount(rows, Recurring(rows, spent)),
     count     |-> Cardinality(InWindow(rows, w)),
     months    |-> Cardinality(MonthsOf(rows, InWindow(rows, w)))]

\* What buildSummary adds to the row.
NetSavings(summary) == summary.income - summary.spending

Discretionary(summary) == summary.spending - summary.essential

MonthlyIncomeVsSpending(rows, w) ==
    [m \in MonthsOf(rows, InWindow(rows, w)) |->
        [income   |-> Amount(rows, OfMonth(rows, Credits(rows, w), m)),
         spending |-> Amount(rows, OfMonth(rows, Debits(rows, w), m))]]

CategoryBreakdown(rows, w) ==
    LET spent == Debits(rows, w) IN
    [c \in CategoriesOf(rows, spent) |->
        [amount |-> Amount(rows, OfCategory(rows, spent, c)),
         count  |-> Cardinality(OfCategory(rows, spent, c))]]

MonthlyByCategory(rows, w) ==
    LET spent == Debits(rows, w)
        groups == {<<MonthOf(rows[i].date), CategoryOf(rows[i])>> : i \in spent}
    IN [g \in groups |->
           Amount(rows, OfMonth(rows, OfCategory(rows, spent, g[2]), g[1]))]

\* MUTANT of EssentialVsDiscretionary: credits are not filtered out.
EssentialVsRest(rows, w) ==
    LET all == InWindow(rows, w) IN
    [m \in MonthsOf(rows, all) |->
        LET month == OfMonth(rows, all, m) IN
        [essential     |-> Amount(rows, Essential(rows, month)),
         discretionary |-> Amount(rows, month \ Essential(rows, month))]]

EssentialVsDiscretionary(rows, w) ==
    LET spent == Debits(rows, w) IN
    [m \in MonthsOf(rows, spent) |->
        LET month == OfMonth(rows, spent, m) IN
        [essential     |-> Amount(rows, Essential(rows, month)),
         discretionary |-> Amount(rows, month \ Essential(rows, month))]]

\* DISTINCT ON (txn_date) ... ORDER BY txn_date, id DESC: the day's last row.
BalanceOverTime(rows, w) ==
    LET known == {i \in InWindow(rows, w) : rows[i].balance # {}} IN
    [d \in {rows[i].date : i \in known} |->
        rows[Max({i \in known : rows[i].date = d})].balance]
=============================================================================
