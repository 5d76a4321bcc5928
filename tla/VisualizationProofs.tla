------------------------- MODULE VisualizationProofs ------------------------
(***************************************************************************)
(* Theorems about Visualization, for any uploads, replies and requests,    *)
(* and any number of analyses stored while a request is answered.          *)
(***************************************************************************)
EXTENDS Visualization, Folding

----------------------------------------------------------------------------
(* Facts about the constants and the operators.                            *)

LEMMA SeriesFacts ==
    /\ DOMAIN Series = 1 .. 6
    /\ Len(Series) = 6
    /\ \A i \in 1 .. 6 :
          Series[i] \notin {"idle", "upload", "analysis", "bounds"}
    /\ \A i, j \in 1 .. 6 : Series[i] = Series[j] => i = j
  BY DEF Series

LEMMA MonthIsInt == ASSUME NEW d \in Int PROVE MonthOf(d) \in Int
  BY DEF MonthOf

----------------------------------------------------------------------------
(* The charts of one analysis' rows.                                       *)

\* What the conversion makes sure of in the rows it stores.
Solid(rows) ==
    /\ IsFiniteSet(DOMAIN rows)
    /\ \A i \in DOMAIN rows :
          /\ rows[i].amount \in Nat
          /\ rows[i].direction \in {"credit", "debit"}
          /\ rows[i].date \in Int
          /\ IsDay(rows[i].date)

Amounts(rows) == [i \in DOMAIN rows |-> rows[i].amount]

LEMMA EmptyIsSolid == Solid(<<>>)
  BY FS_EmptySet DEF Solid

LEMMA AmountIsSum ==
    ASSUME NEW rows, Solid(rows), NEW S \in SUBSET DOMAIN rows
    PROVE  /\ IsFiniteSet(S)
           /\ Natural(Amounts(rows), S)
           /\ Amount(rows, S) = SumFunctionOnSet(Amounts(rows), S)
           /\ Amount(rows, S) \in Nat
<1>1. IsFiniteSet(S)
  BY FS_Subset DEF Solid
<1>2. Natural(Amounts(rows), S)
  BY DEF Natural, Amounts, Solid
<1>3. Amount(rows, S) = SumFunctionOnSet(Amounts(rows), S)
  BY DEF Amount, Amounts
<1> QED
  BY <1>1, <1>2, <1>3, SumIsNat

\* The sum over some rows is that over a part of them and the rest.
LEMMA AmountSplit ==
    ASSUME NEW rows, Solid(rows), NEW S \in SUBSET DOMAIN rows, NEW T \in SUBSET S
    PROVE  Amount(rows, S) = Amount(rows, T) + Amount(rows, S \ T)
<1>1. S \cap T = T /\ S \ T \in SUBSET DOMAIN rows /\ T \in SUBSET DOMAIN rows
  OBVIOUS
<1>0. IsFiniteSet(S) /\ Natural(Amounts(rows), S)
  BY AmountIsSum
<1>2. SumFunctionOnSet(Amounts(rows), S)
        = SumFunctionOnSet(Amounts(rows), S \cap T)
             + SumFunctionOnSet(Amounts(rows), S \ T)
  BY <1>0, SumSplit
<1>3. SumFunctionOnSet(Amounts(rows), S \cap T) = SumFunctionOnSet(Amounts(rows), T)
  BY <1>1, Zenon
<1> QED
  BY <1>1, <1>2, <1>3, AmountIsSum

\* A GROUP BY loses nothing and counts nothing twice.
LEMMA AmountGroups ==
    ASSUME NEW rows, Solid(rows), NEW S \in SUBSET DOMAIN rows,
           NEW G, IsFiniteSet(G), NEW h, \A i \in S : h[i] \in G,
           NEW F, \A g \in G : F[g] = Amount(rows, Group(S, h, g))
    PROVE  SumFunctionOnSet(F, G) = Amount(rows, S)
<1>1. IsFiniteSet(S) /\ Natural(Amounts(rows), S)
      /\ Amount(rows, S) = SumFunctionOnSet(Amounts(rows), S)
  BY AmountIsSum
<1>2. ASSUME NEW g \in G
      PROVE  F[g] = SumFunctionOnSet(Amounts(rows), Group(S, h, g))
  <2>1. Group(S, h, g) \in SUBSET DOMAIN rows
    BY DEF Group
  <2> QED
    BY <2>1, AmountIsSum
<1>3. SumFunctionOnSet(F, G) = SumFunctionOnSet(Amounts(rows), S)
  BY <1>1, <1>2, SumGroups
<1> QED
  BY <1>1, <1>3

\* The queries' filters select finitely many rows, each with an amount.
LEMMA WindowParts ==
    ASSUME NEW rows, Solid(rows), NEW w
    PROVE  /\ InWindow(rows, w) \in SUBSET DOMAIN rows
           /\ Credits(rows, w) \in SUBSET InWindow(rows, w)
           /\ Debits(rows, w) \in SUBSET InWindow(rows, w)
           /\ InWindow(rows, w) \ Credits(rows, w) = Debits(rows, w)
           /\ IsFiniteSet(InWindow(rows, w))
           /\ IsFiniteSet(Debits(rows, w))
<1>1. InWindow(rows, w) \in SUBSET DOMAIN rows
  BY DEF InWindow
<1>2. /\ Credits(rows, w) \in SUBSET InWindow(rows, w)
      /\ Debits(rows, w) \in SUBSET InWindow(rows, w)
  BY DEF Credits, Debits
<1>3. InWindow(rows, w) \ Credits(rows, w) = Debits(rows, w)
  BY <1>1 DEF Solid, Credits, Debits
<1> QED
  BY <1>1, <1>2, <1>3, FS_Subset DEF Solid

LEMMA MonthsAreFinite ==
    ASSUME NEW rows, Solid(rows), NEW S \in SUBSET DOMAIN rows
    PROVE  /\ IsFiniteSet(MonthsOf(rows, S))
           /\ \A i \in S : MonthOf(rows[i].date) \in MonthsOf(rows, S)
<1> DEFINE h == [i \in DOMAIN rows |-> MonthOf(rows[i].date)]
<1>1. MonthsOf(rows, S) = {h[i] : i \in S}
  BY DEF MonthsOf
<1>2. IsFiniteSet({h[i] : i \in S})
  <2> HIDE DEF h
  <2> QED
    BY AmountIsSum, FiniteImage
<1> QED
  BY <1>1, <1>2 DEF MonthsOf

\* Summing a column over the months of some rows.
LEMMA MonthSums ==
    ASSUME NEW rows, Solid(rows), NEW S \in SUBSET DOMAIN rows,
           NEW G, IsFiniteSet(G), \A i \in S : MonthOf(rows[i].date) \in G,
           NEW F, \A m \in G : F[m] = Amount(rows, OfMonth(rows, S, m))
    PROVE  SumFunctionOnSet(F, G) = Amount(rows, S)
<1> DEFINE h == [i \in DOMAIN rows |-> MonthOf(rows[i].date)]
<1>1. \A i \in S : h[i] \in G
  OBVIOUS
<1>2. ASSUME NEW m \in G PROVE F[m] = Amount(rows, Group(S, h, m))
  <2>1. OfMonth(rows, S, m) = Group(S, h, m)
    BY DEF OfMonth, Group
  <2>2. F[m] = Amount(rows, OfMonth(rows, S, m))
    OBVIOUS
  <2> QED
    BY <2>1, <2>2, Zenon
<1> HIDE DEF h
<1> QED
  BY <1>1, <1>2, AmountGroups

\* The parts of ChartsAgree.
IncomeFits(income, sum) ==
    /\ SumFunction([m \in DOMAIN income |-> income[m].spending]) = sum.spending
    /\ SumFunction([m \in DOMAIN income |-> income[m].income]) = sum.income
    /\ Cardinality(DOMAIN income) = sum.months

CategoriesFit(categories, sum) ==
    SumFunction([c \in DOMAIN categories |-> categories[c].amount])
       = sum.spending

NoneExceeds(categories, sum) ==
    \A c \in DOMAIN categories : categories[c].amount <= sum.spending

MonthFits(monthly, income, m) ==
    SumFunctionOnSet(monthly, {g \in DOMAIN monthly : g[1] = m})
       = income[m].spending

SplitFits(split, income) ==
    \A m \in DOMAIN split :
       split[m].essential + split[m].discretionary = income[m].spending

RestFits(split, sum) ==
    SumFunction([m \in DOMAIN split |-> split[m].discretionary])
       = Discretionary(sum)

\* The income chart adds up to the summary.
LEMMA IncomeAgrees ==
    ASSUME NEW rows, Solid(rows), NEW w
    PROVE  IncomeFits(MonthlyIncomeVsSpending(rows, w), WindowSummary(rows, w))
<1> DEFINE sum == WindowSummary(rows, w)
           income == MonthlyIncomeVsSpending(rows, w)
           G == MonthsOf(rows, InWindow(rows, w))
           F == [m \in DOMAIN income |-> income[m].spending]
           H == [m \in DOMAIN income |-> income[m].income]
<1>1. /\ InWindow(rows, w) \in SUBSET DOMAIN rows
      /\ Credits(rows, w) \in SUBSET InWindow(rows, w)
      /\ Debits(rows, w) \in SUBSET InWindow(rows, w)
  BY WindowParts
<1>2. IsFiniteSet(G) /\ \A i \in InWindow(rows, w) : MonthOf(rows[i].date) \in G
  BY <1>1, MonthsAreFinite
<1>3. /\ DOMAIN income = G
      /\ \A m \in G : income[m].spending = Amount(rows, OfMonth(rows, Debits(rows, w), m))
      /\ \A m \in G : income[m].income = Amount(rows, OfMonth(rows, Credits(rows, w), m))
  BY DEF MonthlyIncomeVsSpending
<1>4. /\ sum.spending = Amount(rows, Debits(rows, w))
      /\ sum.income = Amount(rows, Credits(rows, w))
      /\ sum.months = Cardinality(G)
  BY DEF WindowSummary
<1> HIDE DEF sum, income, G
<1>5. /\ DOMAIN F = G /\ DOMAIN H = G
      /\ \A m \in G : F[m] = Amount(rows, OfMonth(rows, Debits(rows, w), m))
      /\ \A m \in G : H[m] = Amount(rows, OfMonth(rows, Credits(rows, w), m))
  BY <1>3
<1> HIDE DEF F, H
<1>6. SumFunctionOnSet(F, G) = Amount(rows, Debits(rows, w))
  BY <1>1, <1>2, <1>5, MonthSums
<1>7. SumFunctionOnSet(H, G) = Amount(rows, Credits(rows, w))
  BY <1>1, <1>2, <1>5, MonthSums
<1>8. /\ SumFunction(F) = sum.spending
      /\ SumFunction(H) = sum.income
      /\ Cardinality(DOMAIN income) = sum.months
  BY <1>3, <1>4, <1>5, <1>6, <1>7, Zenon DEF SumFunction
<1> QED
  BY <1>8, Zenon DEF sum, income, F, H, IncomeFits

\* So do the categories.
LEMMA CategoriesAgree ==
    ASSUME NEW rows, Solid(rows), NEW w
    PROVE  /\ CategoriesFit(CategoryBreakdown(rows, w), WindowSummary(rows, w))
           /\ NoneExceeds(CategoryBreakdown(rows, w), WindowSummary(rows, w))
<1> DEFINE sum == WindowSummary(rows, w)
           categories == CategoryBreakdown(rows, w)
           spent == Debits(rows, w)
           G == CategoriesOf(rows, spent)
           h == [i \in DOMAIN rows |-> CategoryOf(rows[i])]
           F == [c \in DOMAIN categories |-> categories[c].amount]
<1>1. spent \in SUBSET DOMAIN rows /\ IsFiniteSet(spent)
  BY WindowParts
<1>2. G = {h[i] : i \in spent}
  BY <1>1 DEF CategoriesOf
<1>3. \A c \in G : Group(spent, h, c) = OfCategory(rows, spent, c)
  BY <1>1 DEF Group, OfCategory
<1>4. sum.spending = Amount(rows, spent)
  BY DEF WindowSummary
<1>5. /\ DOMAIN categories = G
      /\ \A c \in G :
            categories[c].amount = Amount(rows, OfCategory(rows, spent, c))
  BY DEF CategoryBreakdown
<1> HIDE DEF sum, categories, spent, G, h
<1>6. \A i \in spent : h[i] \in G
  BY <1>2
<1>7. IsFiniteSet(G)
  BY <1>1, <1>2, FiniteImage
<1>8. DOMAIN F = G /\ \A c \in G : F[c] = Amount(rows, Group(spent, h, c))
  <2>1. DOMAIN F = G /\ \A c \in G : F[c] = categories[c].amount
    BY <1>5
  <2> HIDE DEF F
  <2>2. ASSUME NEW c \in G PROVE F[c] = Amount(rows, Group(spent, h, c))
    BY <1>3, <1>5, <2>1, Zenon
  <2> QED
    BY <2>1, <2>2
<1> HIDE DEF F
<1>9. SumFunctionOnSet(F, G) = Amount(rows, spent)
  BY <1>1, <1>6, <1>7, <1>8, AmountGroups
<1>10. SumFunction(F) = sum.spending
  BY <1>4, <1>8, <1>9, Zenon DEF SumFunction
<1>11. ASSUME NEW c \in G PROVE categories[c].amount <= sum.spending
  <2> DEFINE T == OfCategory(rows, spent, c)
  <2>1. T \in SUBSET spent
    BY DEF OfCategory
  <2> HIDE DEF T
  <2>2. /\ Amount(rows, spent) = Amount(rows, T) + Amount(rows, spent \ T)
        /\ Amount(rows, T) \in Nat /\ Amount(rows, spent \ T) \in Nat
    <3>1. T \in SUBSET DOMAIN rows /\ spent \ T \in SUBSET DOMAIN rows
      BY <1>1, <2>1
    <3> QED
      BY <1>1, <2>1, <3>1, AmountSplit, AmountIsSum
  <2>3. categories[c].amount = Amount(rows, T)
    BY <1>5, Zenon DEF T
  <2> QED
    BY <1>4, <2>2, <2>3
<1>12. \A c \in DOMAIN categories : categories[c].amount <= sum.spending
  BY <1>5, <1>11
<1> QED
  BY <1>10, <1>12, Zenon DEF sum, categories, F, CategoriesFit, NoneExceeds

\* The categories by month add up to the categories and to the months.
LEMMA MonthCategoriesAgree ==
    ASSUME NEW rows, Solid(rows), NEW w,
           NEW m \in DOMAIN MonthlyIncomeVsSpending(rows, w)
    PROVE  MonthFits(MonthlyByCategory(rows, w), MonthlyIncomeVsSpending(rows, w), m)
<1> DEFINE income == MonthlyIncomeVsSpending(rows, w)
           monthly == MonthlyByCategory(rows, w)
           spent == Debits(rows, w)
           h == [i \in DOMAIN rows |-> <<MonthOf(rows[i].date), CategoryOf(rows[i])>>]
           Pairs == {h[i] : i \in spent}
<1>1. spent \in SUBSET DOMAIN rows /\ IsFiniteSet(spent)
  BY WindowParts
<1>2. {<<MonthOf(rows[i].date), CategoryOf(rows[i])>> : i \in spent} = Pairs
  BY <1>1
<1>3. /\ DOMAIN monthly = Pairs
      /\ \A g \in Pairs : monthly[g]
            = Amount(rows, OfMonth(rows, OfCategory(rows, spent, g[2]), g[1]))
  <2>1. monthly = [g \in {<<MonthOf(rows[i].date), CategoryOf(rows[i])>> : i \in spent} |->
           Amount(rows, OfMonth(rows, OfCategory(rows, spent, g[2]), g[1]))]
    BY DEF MonthlyByCategory
  <2> HIDE DEF monthly, spent, h
  <2>2. monthly = [g \in Pairs |->
           Amount(rows, OfMonth(rows, OfCategory(rows, spent, g[2]), g[1]))]
    BY <1>2, <2>1, Zenon
  <2> HIDE DEF Pairs
  <2> QED
    BY <2>2
<1> DEFINE S == OfMonth(rows, spent, m)
           G == {g \in Pairs : g[1] = m}
<1>5. income[m].spending = Amount(rows, S)
  BY DEF MonthlyIncomeVsSpending
<1>6. S \in SUBSET spent /\ S \in SUBSET DOMAIN rows
  BY <1>1 DEF OfMonth
<1>7. \A i \in spent : h[i][1] = MonthOf(rows[i].date) /\ h[i][2] = CategoryOf(rows[i])
  BY <1>1
<1>8. \A i \in S : h[i] \in G
  BY <1>6, <1>7 DEF OfMonth
<1>9. IsFiniteSet(G)
  <2>1. IsFiniteSet(Pairs)
    <3> HIDE DEF h, spent
    <3> QED
      BY <1>1, FiniteImage
  <2> QED
    BY <2>1, FS_Subset
<1>10. ASSUME NEW g \in G
       PROVE  OfMonth(rows, OfCategory(rows, spent, g[2]), g[1]) = Group(S, h, g)
  <2>1. PICK j \in spent : g = h[j]
    OBVIOUS
  <2>2. g = <<g[1], g[2]>> /\ g[1] = m
    BY <1>1, <2>1
  <2>3. ASSUME NEW i \in spent
        PROVE  h[i] = g <=> MonthOf(rows[i].date) = g[1] /\ CategoryOf(rows[i]) = g[2]
    BY <1>1, <2>2
  <2>4. OfMonth(rows, OfCategory(rows, spent, g[2]), g[1])
          = {i \in spent : CategoryOf(rows[i]) = g[2] /\ MonthOf(rows[i].date) = g[1]}
    BY DEF OfMonth, OfCategory
  <2>5. Group(S, h, g) = {i \in spent : MonthOf(rows[i].date) = m /\ h[i] = g}
    BY DEF Group, OfMonth
  <2> HIDE DEF h, spent
  <2> QED
    BY <2>2, <2>3, <2>4, <2>5
<1>11. ASSUME NEW g \in G PROVE monthly[g] = Amount(rows, Group(S, h, g))
  <2>1. monthly[g] = Amount(rows, OfMonth(rows, OfCategory(rows, spent, g[2]), g[1]))
    BY <1>3
  <2> QED
    BY <1>10, <2>1, Zenon
<1>12. SumFunctionOnSet(monthly, G) = Amount(rows, S)
  <2> HIDE DEF monthly, G, h, S
  <2> QED
    BY <1>6, <1>8, <1>9, <1>11, AmountGroups
<1> QED
  BY <1>3, <1>5, <1>12, Zenon DEF MonthFits

\* Essential and discretionary spending add up to the spending of a month.
LEMMA SplitAgrees ==
    ASSUME NEW rows, Solid(rows), NEW w
    PROVE  /\ SplitFits(EssentialVsDiscretionary(rows, w),
                        MonthlyIncomeVsSpending(rows, w))
           /\ RestFits(EssentialVsDiscretionary(rows, w), WindowSummary(rows, w))
<1> DEFINE sum == WindowSummary(rows, w)
           income == MonthlyIncomeVsSpending(rows, w)
           split == EssentialVsDiscretionary(rows, w)
           spent == Debits(rows, w)
           rest == spent \ Essential(rows, spent)
           G == MonthsOf(rows, spent)
           F == [m \in DOMAIN split |-> split[m].discretionary]
           Spent(m) == OfMonth(rows, spent, m)
           Must(m) == Essential(rows, Spent(m))
<1>1. /\ spent \in SUBSET InWindow(rows, w)
      /\ spent \in SUBSET DOMAIN rows
      /\ rest \in SUBSET spent
      /\ rest \in SUBSET DOMAIN rows
      /\ Essential(rows, spent) \in SUBSET spent
  BY WindowParts DEF Essential
<1>2. IsFiniteSet(G) /\ \A i \in spent : MonthOf(rows[i].date) \in G
  <2> HIDE DEF spent
  <2> QED
    BY <1>1, MonthsAreFinite
<1>3. /\ DOMAIN split = G
      /\ \A m \in G : /\ split[m].essential = Amount(rows, Must(m))
                      /\ split[m].discretionary = Amount(rows, Spent(m) \ Must(m))
  BY DEF EssentialVsDiscretionary
<1>4. ASSUME NEW m \in G
      PROVE  /\ Spent(m) \in SUBSET DOMAIN rows
             /\ Must(m) \in SUBSET Spent(m)
             /\ Spent(m) \ Must(m) = OfMonth(rows, rest, m)
  BY <1>1 DEF OfMonth, Essential
<1>5. ASSUME NEW m \in G PROVE income[m].spending = Amount(rows, Spent(m))
  <2>1. m \in MonthsOf(rows, InWindow(rows, w))
    BY <1>1 DEF MonthsOf
  <2> QED
    BY <2>1 DEF MonthlyIncomeVsSpending
<1>6. /\ sum.spending = Amount(rows, spent)
      /\ sum.essential = Amount(rows, Essential(rows, spent))
  BY DEF WindowSummary
<1> HIDE DEF sum, income, split, spent, G, Spent, Must
<1>7. ASSUME NEW m \in G
      PROVE  split[m].essential + split[m].discretionary = income[m].spending
  <2>1. Amount(rows, Spent(m)) = Amount(rows, Must(m)) + Amount(rows, Spent(m) \ Must(m))
    BY <1>4, AmountSplit
  <2> QED
    BY <1>3, <1>5, <2>1
<1>8. \A m \in DOMAIN split :
         split[m].essential + split[m].discretionary = income[m].spending
  BY <1>3, <1>7
<1>9. DOMAIN F = G /\ \A m \in G : F[m] = Amount(rows, OfMonth(rows, rest, m))
  <2>1. DOMAIN F = G /\ \A m \in G : F[m] = split[m].discretionary
    BY <1>3
  <2> HIDE DEF F, rest
  <2>2. ASSUME NEW m \in G PROVE F[m] = Amount(rows, OfMonth(rows, rest, m))
    BY <1>3, <1>4, <2>1, Zenon
  <2> QED
    BY <2>1, <2>2
<1>10. \A i \in rest : MonthOf(rows[i].date) \in G
  BY <1>1, <1>2
<1> HIDE DEF F
<1>11. SumFunctionOnSet(F, G) = Amount(rows, rest)
  <2> HIDE DEF rest
  <2> QED
    BY <1>1, <1>2, <1>9, <1>10, MonthSums
<1>12. /\ Amount(rows, spent) = Amount(rows, Essential(rows, spent)) + Amount(rows, rest)
       /\ Amount(rows, Essential(rows, spent)) \in Nat
       /\ Amount(rows, rest) \in Nat
  <2>1. Essential(rows, spent) \in SUBSET DOMAIN rows
    BY <1>1
  <2> QED
    BY <1>1, <2>1, AmountSplit, AmountIsSum
<1>13. SumFunctionOnSet(F, G) = Discretionary(sum)
  <2> HIDE DEF rest
  <2> QED
    BY <1>6, <1>11, <1>12 DEF Discretionary
<1>14. SumFunction(F) = Discretionary(sum)
  BY <1>9, <1>13, Zenon DEF SumFunction
<1> QED
  BY <1>8, <1>14, Zenon DEF sum, income, split, F, SplitFits, RestFits

----------------------------------------------------------------------------
(* From a reply to the rows.                                               *)

\* The rows are the model's transactions, days and magnitudes unchanged.
Faithful(a) ==
    LET txns == a.raw.transactions IN
    /\ Solid(a.rows)
    /\ a.rows = [i \in DOMAIN txns |-> a.rows[i]]
    /\ \A i \in DOMAIN txns : /\ txns[i].date = {a.rows[i].date}
                              /\ txns[i].amount = {a.rows[i].amount}

\* What the rest of the service may rely on in an analysis row.
WellFormed(a) ==
    /\ a.id \in Nat
    /\ a.periodEnd \subseteq Int
    /\ Conventional(a)
    /\ \A i \in DOMAIN a.rows : a.rows[i].date \in Int
    /\ Faithful(a)

LEMMA BuiltWellFormed ==
    ASSUME NEW id \in Nat, NEW reply \in Replies, Usable(reply)
    PROVE  /\ WellFormed(BuildAnalysis(id, reply))
           /\ BuildAnalysis(id, reply).id = id
<1> DEFINE a == BuildAnalysis(id, reply)
           txns == reply.transactions
<1>1. /\ a.id = id
      /\ a.periodEnd = reply.periodEnd
      /\ a.raw = reply
      /\ a.rows = [i \in DOMAIN txns |-> BuildTransaction(txns[i])]
  BY DEF BuildAnalysis
<1>2. ASSUME NEW i \in DOMAIN txns
      PROVE  LET row == BuildTransaction(txns[i]) IN
             /\ row.amount \in Nat
             /\ row.direction \in {"credit", "debit"}
             /\ row.date \in Int /\ IsDay(row.date)
             /\ txns[i].date = {row.date}
             /\ txns[i].amount = {row.amount}
  <2> DEFINE t == txns[i]
  <2>1. t.date # {} /\ t.amount # {}
    BY DEF Usable, Convertible
  <2>2. PICK d \in t.date : d \in Int /\ IsDay(d) /\ t.date = {d}
    BY <2>1, ReplyAssumption
  <2>3. PICK m \in t.amount : m \in Nat /\ t.amount = {m}
    BY <2>1, ReplyAssumption
  <2>4. (CHOOSE x \in t.date : TRUE) = d /\ (CHOOSE x \in t.amount : TRUE) = m
    BY <2>2, <2>3
  <2>5. /\ BuildTransaction(t).date = d
        /\ BuildTransaction(t).amount = m
        /\ BuildTransaction(t).direction \in {"credit", "debit"}
    BY <2>4 DEF BuildTransaction, Magnitude, ResolveDirection
  <2> QED
    BY <2>2, <2>3, <2>5
<1>3. DOMAIN a.rows = DOMAIN txns /\ \A i \in DOMAIN txns : a.rows[i] = BuildTransaction(txns[i])
  BY <1>1
<1>4. Conventional(a) /\ \A i \in DOMAIN a.rows : a.rows[i].date \in Int
  BY <1>2, <1>3 DEF Conventional
<1>5. Solid(a.rows)
  BY <1>2, <1>3, ReplyAssumption DEF Solid
<1>6. a.rows = [i \in DOMAIN txns |-> a.rows[i]]
  BY <1>1, <1>3
<1>7. Faithful(a)
  <2> HIDE DEF a
  <2> QED
    BY <1>1, <1>2, <1>3, <1>5, <1>6 DEF Faithful
<1> QED
  BY <1>1, <1>4, <1>7, ReplyAssumption DEF WellFormed

----------------------------------------------------------------------------
(* The stored analyses.                                                    *)

StoreInv ==
    /\ stored = [u \in Uploads |-> stored[u]]
    /\ lastId \in Nat
    /\ \A u \in Uploads :
          /\ \A a, b \in stored[u] : a = b
          /\ \A a \in stored[u] : WellFormed(a) /\ a.id <= lastId

\* What any step does to them: rows that appear have an id nobody has seen.
FreshRows ==
    /\ StoreInv'
    /\ lastId \in Nat /\ lastId <= lastId'
    /\ \A u \in Uploads : \A b \in stored'[u] :
          b \in stored[u] \/ b.id > lastId

LEMMA ReplaceFresh ==
    ASSUME StoreInv, NEW u \in Uploads, NEW reply \in Replies,
           Usable(reply), Replace(u, reply)
    PROVE  FreshRows
<1> DEFINE new == BuildAnalysis(lastId + 1, reply)
<1>1. lastId \in Nat /\ lastId' = lastId + 1
  BY DEF StoreInv, Replace
<1>2. WellFormed(new) /\ new.id = lastId + 1
  BY <1>1, BuiltWellFormed
<1> HIDE DEF new
<1>3. stored' = [stored EXCEPT ![u] = {new}]
  BY DEF Replace, new
<1>4. /\ stored' = [v \in Uploads |-> stored'[v]]
      /\ stored'[u] = {new}
      /\ \A v \in Uploads : v # u => stored'[v] = stored[v]
  BY <1>3 DEF StoreInv
<1>5. ASSUME NEW v \in Uploads
      PROVE  /\ \A a, b \in stored'[v] : a = b
             /\ \A a \in stored'[v] : WellFormed(a) /\ a.id <= lastId'
             /\ \A b \in stored'[v] : b \in stored[v] \/ b.id > lastId
  <2>1. CASE v = u
    BY <1>1, <1>2, <1>4, <2>1
  <2>2. CASE v # u
    <3>1. stored'[v] = stored[v]
      BY <1>4, <2>2
    <3>2. \A a \in stored[v] : a.id \in Nat
      BY DEF StoreInv, WellFormed
    <3> QED
      BY <1>1, <3>1, <3>2 DEF StoreInv
  <2> QED
    BY <2>1, <2>2
<1> QED
  BY <1>1, <1>4, <1>5 DEF FreshRows, StoreInv

LEMMA RemoveFresh ==
    ASSUME StoreInv, NEW u \in Uploads, Remove(u)
    PROVE  FreshRows
<1>1. stored' = [stored EXCEPT ![u] = {}] /\ lastId' = lastId
  BY DEF Remove
<1>2. \A v \in Uploads : stored'[v] \subseteq stored[v]
  BY <1>1 DEF StoreInv
<1>3. stored' = [v \in Uploads |-> stored'[v]]
  BY <1>1 DEF StoreInv
<1> QED
  BY <1>1, <1>2, <1>3 DEF FreshRows, StoreInv

LEMMA UnchangedFresh ==
    ASSUME StoreInv, stored' = stored, lastId' = lastId
    PROVE  FreshRows
  BY DEF FreshRows, StoreInv

LEMMA StepFresh ==
    ASSUME StoreInv, [VisNext]_visVars
    PROVE  FreshRows
<1>1. ASSUME NEW u \in Uploads, KeepAnalysis(u) PROVE FreshRows
  <2>1. CASE \E reply \in Replies : Usable(reply) /\ Replace(u, reply)
    BY <2>1, ReplaceFresh
  <2>2. CASE Remove(u)
    BY <2>2, RemoveFresh
  <2> QED
    BY <1>1, <2>1, <2>2 DEF KeepAnalysis
<1>2. ASSUME NEW u \in Uploads, MoveOn(u) PROVE FreshRows
  BY <1>2, UnchangedFresh DEF MoveOn
<1>3. ASSUME NEW u \in Uploads, Redeliver(u) PROVE FreshRows
  <2>1. CASE \E reply \in Replies : Usable(reply) /\ Replace(u, reply)
    BY <2>1, ReplaceFresh
  <2>2. CASE Remove(u)
    BY <2>2, RemoveFresh
  <2>3. CASE UNCHANGED <<stored, lastId>>
    BY <2>3, UnchangedFresh
  <2> QED
    BY <1>3, <2>1, <2>2, <2>3 DEF Redeliver
<1>4. CASE Get
  BY <1>4, UnchangedFresh DEF Get, pipelineSide
<1>5. CASE UNCHANGED visVars
  BY <1>5, UnchangedFresh DEF visVars, pipelineSide
<1> QED
  BY <1>1, <1>2, <1>3, <1>4, <1>5 DEF VisNext

LEMMA InitStore == VisInit => StoreInv
  BY DEF VisInit, StoreInv

----------------------------------------------------------------------------
(* The request that is being answered.                                     *)

AtSeries(n) == at = Series[n]

\* The row the handler holds: if a row with its id is stored, it is that row.
Held(a) ==
    /\ WellFormed(a)
    /\ a.id <= lastId
    /\ \A b \in stored[target] : b.id = a.id => b = a

Gone(a) == \A b \in stored[target] : b.id # a.id

\* The first n queries were answered from a, up to the last one before it went.
ReadUpTo(n, a, w) ==
    \E last \in 0 .. n :
        /\ \A i \in 1 .. n :
              /\ Series[i] \in DOMAIN charts
              /\ charts[Series[i]] =
                    Aggregate(Series[i], IF i <= last THEN a.rows ELSE <<>>, w)
        /\ last < n => Gone(a)

Reading(n) ==
    \E a \in loaded, w \in window :
        /\ loaded = {a}
        /\ window = {w}
        /\ Held(a)
        /\ ReadUpTo(n, a, w)

RequestInv ==
    /\ target \in Uploads
    /\ at # "idle" => ~ Served
    /\ at = "bounds" => \E a \in loaded : loaded = {a} /\ Held(a)
    /\ \A n \in 1 .. 6 : AtSeries(n) => Reading(n - 1)
    /\ Served => Reading(6)

ReadInv == StoreInv /\ RequestInv

LEMMA InitRead == VisInit => ReadInv
  BY InitStore, SeriesFacts DEF VisInit, ReadInv, RequestInv, Served, AtSeries

\* What the pipeline does meanwhile cannot bring a deleted row back.
LEMMA HeldStays ==
    ASSUME FreshRows, target' = target, target \in Uploads, NEW a, Held(a)
    PROVE  Held(a)' /\ (Gone(a) => Gone(a)')
<1>1. a.id \in Nat /\ lastId \in Nat /\ lastId' \in Nat
      /\ lastId <= lastId' /\ a.id <= lastId
  BY DEF Held, WellFormed, FreshRows, StoreInv
<1>2. \A b \in stored'[target] : b \in stored[target] \/ b.id > lastId
  BY DEF FreshRows
<1>3. \A b \in stored'[target] : b.id \in Nat
  BY DEF FreshRows, StoreInv, WellFormed
<1>4. \A b \in stored'[target] : b.id = a.id => b \in stored[target]
  BY <1>1, <1>2, <1>3
<1>5. Held(a)'
  BY <1>1, <1>4 DEF Held, WellFormed, Conventional
<1>6. Gone(a) => Gone(a)'
  BY <1>4 DEF Gone
<1> QED
  BY <1>5, <1>6

LEMMA ReadingStays ==
    ASSUME FreshRows, target' = target, target \in Uploads,
           loaded' = loaded, window' = window, charts' = charts,
           NEW n \in Nat, Reading(n)
    PROVE  Reading(n)'
<1>1. PICK a \in loaded, w \in window :
          loaded = {a} /\ window = {w} /\ Held(a) /\ ReadUpTo(n, a, w)
  BY DEF Reading
<1>2. Held(a)' /\ (Gone(a) => Gone(a)')
  BY <1>1, HeldStays
<1>3. ReadUpTo(n, a, w)'
  BY <1>1, <1>2 DEF ReadUpTo
<1> QED
  BY <1>1, <1>2, <1>3 DEF Reading

LEMMA RequestStays ==
    ASSUME RequestInv, FreshRows, UNCHANGED requestVars
    PROVE  RequestInv'
<1>1. /\ target' = target /\ at' = at /\ loaded' = loaded
      /\ window' = window /\ charts' = charts /\ answer' = answer
      /\ target \in Uploads
  BY DEF RequestInv, requestVars
<1>2. at = "bounds" => \E a \in loaded' : loaded' = {a} /\ Held(a)'
  BY <1>1, HeldStays DEF RequestInv
<1>3. \A n \in 1 .. 6 : AtSeries(n) => Reading(n - 1)'
  BY <1>1, ReadingStays DEF RequestInv
<1>4. Served => Reading(6)'
  BY <1>1, ReadingStays DEF RequestInv
<1> QED
  BY <1>1, <1>2, <1>3, <1>4 DEF RequestInv, Served, AtSeries

\* A query finds the rows of the held analysis, or none once it is gone.
LEMMA RowsFound ==
    ASSUME NEW a, Held(a)
    PROVE  RowsOf(a.id) = IF Gone(a) THEN <<>> ELSE a.rows
<1>1. CASE Gone(a)
  BY <1>1 DEF Gone, RowsOf
<1>2. CASE ~ Gone(a)
  <2>1. \E b \in stored[target] : b.id = a.id
    BY <1>2 DEF Gone
  <2>2. \A b \in stored[target] : b.id = a.id => b = a
    BY DEF Held
  <2>3. (CHOOSE b \in stored[target] : b.id = a.id) = a
    BY <2>1, <2>2
  <2> QED
    BY <1>2, <2>1, <2>3 DEF RowsOf
<1> QED
  BY <1>1, <1>2

LEMMA ReadOneMore ==
    ASSUME NEW n \in 1 .. 6, NEW a, NEW w, Held(a), ReadUpTo(n - 1, a, w),
           loaded = {a}, window = {w}, at = Series[n], RunQuery,
           UNCHANGED stored
    PROVE  ReadUpTo(n, a, w)'
<1>1. target' = target /\ stored' = stored
  BY DEF RunQuery
<1>2. Gone(a)' <=> Gone(a)
  BY <1>1 DEF Gone
<1>3. Loaded = a /\ Window = w
  BY Zenon DEF Loaded, Window
<1>4. /\ DOMAIN charts' = DOMAIN charts \cup {Series[n]}
      /\ charts'[Series[n]] =
            Aggregate(Series[n], IF Gone(a) THEN <<>> ELSE a.rows, w)
      /\ \A s \in DOMAIN charts : s # Series[n] => charts'[s] = charts[s]
  BY <1>3, RowsFound DEF RunQuery
<1>5. PICK last \in 0 .. n - 1 :
          /\ \A i \in 1 .. n - 1 :
                /\ Series[i] \in DOMAIN charts
                /\ charts[Series[i]] =
                      Aggregate(Series[i], IF i <= last THEN a.rows ELSE <<>>, w)
          /\ last < n - 1 => Gone(a)
  BY DEF ReadUpTo
<1>6. \A i \in 1 .. n - 1 :
          /\ Series[i] \in DOMAIN charts'
          /\ charts'[Series[i]] = charts[Series[i]]
  BY <1>4, <1>5, SeriesFacts
<1>7. CASE Gone(a)
  <2>1. \A i \in 1 .. n :
            /\ Series[i] \in DOMAIN charts'
            /\ charts'[Series[i]] =
                  Aggregate(Series[i], IF i <= last THEN a.rows ELSE <<>>, w)
    BY <1>4, <1>5, <1>6, <1>7
  <2>2. last \in 0 .. n /\ Gone(a)'
    BY <1>2, <1>7
  <2> QED
    BY <2>1, <2>2, Zenon DEF ReadUpTo
<1>8. CASE ~ Gone(a)
  <2>1. last = n - 1
    BY <1>5, <1>8
  <2>2. \A i \in 1 .. n :
            /\ Series[i] \in DOMAIN charts'
            /\ charts'[Series[i]] =
                  Aggregate(Series[i], IF i <= n THEN a.rows ELSE <<>>, w)
    BY <1>4, <1>5, <1>6, <1>8, <2>1
  <2>3. n \in 0 .. n /\ ~ n < n
    OBVIOUS
  <2> QED
    BY <2>2, <2>3, Zenon DEF ReadUpTo
<1> QED
  BY <1>7, <1>8

LEMMA HeldSame ==
    ASSUME NEW a, Held(a), UNCHANGED <<stored, lastId, target>>
    PROVE  Held(a)'
  BY DEF Held, WellFormed, Conventional

LEMMA QueryStep ==
    ASSUME ReadInv, RunQuery, UNCHANGED pipelineSide
    PROVE  RequestInv'
<1>1. PICK n \in 1 .. 6 : AtSeries(n)
  BY SeriesFacts DEF RunQuery, AtSeries
<1>2. at = Series[n] /\ Reading(n - 1)
  BY <1>1 DEF AtSeries, ReadInv, RequestInv
<1>3. PICK a \in loaded, w \in window :
          /\ loaded = {a} /\ window = {w}
          /\ Held(a) /\ ReadUpTo(n - 1, a, w)
  BY <1>2 DEF Reading
<1>4. /\ stored' = stored /\ lastId' = lastId /\ target' = target
      /\ loaded' = loaded /\ window' = window
  BY DEF pipelineSide, RunQuery
<1>5. Held(a)' /\ ReadUpTo(n, a, w)'
  BY <1>2, <1>3, <1>4, HeldSame, ReadOneMore
<1>6. Reading(n)'
  BY <1>3, <1>4, <1>5 DEF Reading
<1>7. ~ Served /\ target \in Uploads
  BY <1>2, SeriesFacts DEF ReadInv, RequestInv
<1>8. IF n = 6 THEN at' = "idle" /\ answer' = "ok"
      ELSE at' = Series[n + 1] /\ answer' = answer
  BY <1>2, SeriesFacts DEF RunQuery
<1>9. CASE n = 6
  <2>1. \A k \in 1 .. 6 : ~ AtSeries(k)'
    BY <1>8, <1>9, SeriesFacts DEF AtSeries
  <2> QED
    BY <1>4, <1>6, <1>7, <1>8, <1>9, <2>1 DEF RequestInv, Served
<1>10. CASE n # 6
  <2>1. n + 1 \in 1 .. 6 /\ at' = Series[n + 1] /\ ~ Served'
    BY <1>7, <1>8, <1>10 DEF Served
  <2>2. ASSUME NEW k \in 1 .. 6, AtSeries(k)' PROVE Reading(k - 1)'
    <3>1. k = n + 1
      BY <2>1, <2>2, SeriesFacts DEF AtSeries
    <3>2. k - 1 = n
      BY <3>1
    <3> QED
      BY <1>6, <3>2
  <2>3. at' # "bounds"
    BY <2>1, SeriesFacts
  <2> QED
    BY <1>4, <1>7, <2>1, <2>2, <2>3 DEF RequestInv
<1> QED
  BY <1>9, <1>10

\* The steps after which nothing is held.
LEMMA NothingHeld ==
    ASSUME target' \in Uploads, ~ Served',
           at' \in {"idle", "upload", "analysis"}
    PROVE  RequestInv'
  BY SeriesFacts DEF RequestInv, AtSeries

LEMMA AnswerStep ==
    ASSUME ReadInv, NEW outcome, outcome # "ok", Answer(outcome)
    PROVE  RequestInv'
<1>1. target' = target /\ at' = "idle" /\ answer' = outcome
  BY DEF Answer
<1>2. target' \in Uploads /\ ~ Served'
  BY <1>1 DEF ReadInv, RequestInv, Served
<1> QED
  BY <1>1, <1>2, NothingHeld

LEMMA LoadStep ==
    ASSUME ReadInv, LoadAnalysis, UNCHANGED pipelineSide
    PROVE  RequestInv'
<1>1. CASE Answer("conflict")
  BY <1>1, AnswerStep
<1>2. CASE stored[target] # {} /\ Continue("bounds") /\ loaded' = stored[target]
  <2>1. /\ target' = target /\ at' = "bounds" /\ ~ Served'
        /\ target \in Uploads /\ stored' = stored /\ lastId' = lastId
    BY <1>2 DEF LoadAnalysis, Continue, Served, ReadInv, RequestInv, pipelineSide
  <2>2. PICK a \in stored[target] : loaded' = {a}
    BY <1>2, <2>1 DEF ReadInv, StoreInv
  <2>3. Held(a)
    BY <2>1, <2>2 DEF Held, ReadInv, StoreInv
  <2>4. Held(a)'
    BY <2>1, <2>3, HeldSame
  <2> QED
    BY <2>1, <2>2, <2>4, SeriesFacts DEF RequestInv, AtSeries
<1> QED
  BY <1>1, <1>2 DEF LoadAnalysis

LEMMA ChooseStep ==
    ASSUME ReadInv, ChooseWindow, UNCHANGED pipelineSide
    PROVE  RequestInv'
<1>1. CASE Answer("bad request")
  BY <1>1, AnswerStep
<1>2. CASE ~ Answer("bad request")
  <2>1. /\ target' = target /\ at' = Series[1] /\ ~ Served' /\ loaded' = loaded
        /\ target \in Uploads /\ stored' = stored /\ lastId' = lastId
    BY <1>2 DEF ChooseWindow, Continue, Served, ReadInv, RequestInv, pipelineSide
  <2>2. PICK w : window' = {w}
    BY <1>2 DEF ChooseWindow
  <2>3. PICK a \in loaded : loaded = {a} /\ Held(a)
    BY DEF ChooseWindow, ReadInv, RequestInv
  <2>4. Held(a)' /\ 0 \in 0 .. 0
    BY <2>1, <2>3, HeldSame
  <2>5. ReadUpTo(0, a, w)'
    BY <2>4 DEF ReadUpTo
  <2>6. Reading(0)'
    BY <2>1, <2>2, <2>3, <2>4, <2>5 DEF Reading
  <2>7. ASSUME NEW k \in 1 .. 6, at' = Series[k] PROVE k - 1 = 0
    <3>1. 1 \in 1 .. 6 /\ Series[k] = Series[1]
      BY <2>1, <2>7
    <3>2. k = 1
      BY <3>1, SeriesFacts
    <3> QED
      BY <3>2
  <2>8. at' # "bounds"
    BY <2>1, SeriesFacts
  <2> QED
    BY <2>1, <2>6, <2>7, <2>8 DEF RequestInv, AtSeries
<1> QED
  BY <1>1, <1>2

LEMMA GetStep ==
    ASSUME ReadInv, Get
    PROVE  RequestInv'
<1>1. CASE Ask
  BY <1>1, NothingHeld DEF Ask, Served
<1>2. CASE LoadUpload
  <2>1. CASE Answer("not found") \/ Answer("conflict")
    BY <2>1, AnswerStep
  <2>2. CASE at = "upload" /\ Continue("analysis")
    BY <2>2, NothingHeld DEF Continue, Served, ReadInv, RequestInv
  <2> QED
    BY <1>2, <2>1, <2>2 DEF LoadUpload
<1>3. CASE LoadAnalysis
  BY <1>3, LoadStep DEF Get
<1>4. CASE ChooseWindow
  BY <1>4, ChooseStep DEF Get
<1>5. CASE RunQuery
  BY <1>5, QueryStep DEF Get
<1>6. CASE QueryFails
  BY <1>6, AnswerStep DEF QueryFails
<1> QED
  BY <1>1, <1>2, <1>3, <1>4, <1>5, <1>6 DEF Get

LEMMA ReadInductive ==
    ASSUME ReadInv, [VisNext]_visVars
    PROVE  ReadInv'
<1>1. FreshRows
  BY StepFresh DEF ReadInv
<1>2. CASE UNCHANGED requestVars
  BY <1>1, <1>2, RequestStays DEF ReadInv, FreshRows
<1>3. CASE Get
  BY <1>1, <1>3, GetStep DEF ReadInv, FreshRows
<1> QED
  BY <1>2, <1>3
  DEF VisNext, KeepAnalysis, MoveOn, Redeliver, visVars

\* What the client is sent comes from one analysis, whichever queries it
\* outlived: for any uploads, any replies and any number of replacements.
THEOREM OneAnalysisCorrect == VisSpec => []OneAnalysisPerResponse
<1>1. ReadInv => OneAnalysisPerResponse
  <2> SUFFICES ASSUME ReadInv, Served PROVE OneAnalysisPerResponse
    BY DEF OneAnalysisPerResponse
  <2>1. PICK a \in loaded, w \in window :
            loaded = {a} /\ window = {w} /\ ReadUpTo(6, a, w)
    BY DEF ReadInv, RequestInv, Reading
  <2>2. Loaded = a /\ Window = w
    BY <2>1, Zenon DEF Loaded, Window
  <2> QED
    BY <2>1, <2>2, SeriesFacts DEF OneAnalysisPerResponse, ReadUpTo
<1> QED
  BY InitRead, ReadInductive, <1>1, PTL DEF VisSpec

----------------------------------------------------------------------------
(* The window.                                                            *)

LEMMA BoundsAreInt ==
    ASSUME NEW rows, \A i \in DOMAIN rows : rows[i].date \in Int
    PROVE  GetTransactionMonthBounds(rows) \subseteq Int
<1>1. MonthsOf(rows, DOMAIN rows) \subseteq Int
  BY MonthIsInt DEF MonthsOf
<1> QED
  BY <1>1 DEF GetTransactionMonthBounds

LEMMA AnchorIsInt ==
    ASSUME NEW bounds \in SUBSET Int, NEW a, a.periodEnd \subseteq Int
    PROVE  AnchorMonth(bounds, a) \in Int
<1>1. CASE bounds # {}
  BY <1>1 DEF AnchorMonth
<1>2. CASE bounds = {} /\ a.periodEnd # {}
  BY <1>2, MonthIsInt DEF AnchorMonth
<1>3. CASE bounds = {} /\ a.periodEnd = {}
  BY <1>3, MonthIsInt, VisualizationAssumption DEF AnchorMonth
<1> QED
  BY <1>1, <1>2, <1>3

\* What resolveWindow promises of a request it does not refuse.
LEMMA ResolvedSpans ==
    ASSUME NEW q \in Queries, ~ BadWindow(q), NEW anchor \in Int
    PROVE  LET w == ResolveWindow(q, anchor) IN
           /\ w.from <= w.to
           /\ q.from # {} => w.from = From(q)
           /\ q.to # {} => w.to = To(q)
           /\ q.from = {} => w.to - w.from + 1 = MonthsAsked(q)
<1>1. MonthsAsked(q) \in 1 .. 12
  BY DEF BadWindow, MaxWindowMonths
<1>2. q.from # {} => From(q) \in Int
  BY QueryAssumption DEF From
<1>3. q.to # {} => To(q) \in Int
  BY QueryAssumption DEF To
<1>4. q.from # {} /\ q.to # {} => From(q) <= To(q)
  BY <1>2, <1>3 DEF BadWindow
<1> QED
  BY <1>1, <1>2, <1>3, <1>4 DEF ResolveWindow

GoodWindow(w) ==
    /\ ~ BadWindow(query)
    /\ \E anchor \in Int : w = ResolveWindow(query, anchor)

WindowInv ==
    /\ query \in Queries
    /\ \A w \in window : GoodWindow(w)

LEMMA ChooseGood ==
    ASSUME ReadInv, ChooseWindow, ~ BadWindow(query), NEW w \in window'
    PROVE  GoodWindow(w)
<1>1. PICK a \in loaded : loaded = {a} /\ Held(a)
  BY DEF ChooseWindow, ReadInv, RequestInv
<1>2. Loaded = a
  BY <1>1, Zenon DEF Loaded
<1>3. \A i \in DOMAIN RowsOf(a.id) : RowsOf(a.id)[i].date \in Int
  BY <1>1, RowsFound DEF Held, WellFormed
<1>4. GetTransactionMonthBounds(RowsOf(a.id)) \in SUBSET Int
  BY <1>3, BoundsAreInt
<1>5. AnchorMonth(GetTransactionMonthBounds(RowsOf(a.id)), a) \in Int
  BY <1>1, <1>4, AnchorIsInt DEF Held, WellFormed
<1>6. w = ResolveWindow(query,
                AnchorMonth(GetTransactionMonthBounds(RowsOf(a.id)), a))
  BY <1>2 DEF ChooseWindow
<1> QED
  BY <1>5, <1>6 DEF GoodWindow

LEMMA WindowInductive ==
    ASSUME ReadInv, WindowInv, [VisNext]_visVars
    PROVE  WindowInv'
<1>1. CASE UNCHANGED <<query, window>>
  BY <1>1 DEF WindowInv, GoodWindow, BadWindow
<1>2. CASE Ask
  BY <1>2 DEF Ask, WindowInv
<1>3. CASE ChooseWindow
  <2>1. CASE Answer("bad request")
    BY <1>1, <2>1 DEF Answer
  <2>2. CASE ~ BadWindow(query)
    <3>1. query' = query
      BY <1>3, <2>2 DEF ChooseWindow, Continue
    <3>2. \A w \in window' : GoodWindow(w)
      BY <1>3, <2>2, ChooseGood
    <3> QED
      BY <3>1, <3>2 DEF WindowInv, GoodWindow, BadWindow
  <2> QED
    BY <1>3, <2>1, <2>2 DEF ChooseWindow
<1>4. CASE LoadUpload \/ LoadAnalysis \/ RunQuery \/ QueryFails
  BY <1>1, <1>4
  DEF LoadUpload, LoadAnalysis, RunQuery, QueryFails, Answer, Continue
<1>5. CASE UNCHANGED requestVars
  BY <1>1, <1>5 DEF requestVars
<1> QED
  BY <1>1, <1>2, <1>3, <1>4, <1>5
  DEF VisNext, Get, KeepAnalysis, MoveOn, Redeliver, visVars

----------------------------------------------------------------------------
(* The two reads of the handler.                                           *)

\* Unless a hop was redelivered, completed means that an analysis is stored.
ReadyInv ==
    /\ phase \in [Uploads -> Phase]
    /\ result \in [Uploads -> BOOLEAN]
    /\ stored = [u \in Uploads |-> stored[u]]
    /\ disturbed \subseteq Uploads
    /\ target \in Uploads
    /\ \A u \in Uploads :
          /\ result[u] <=> stored[u] # {}
          /\ phase[u] = "completed" => result[u] \/ u \in disturbed
    /\ at = "analysis" => phase[target] = "completed" \/ target \in disturbed

\* What a step of the pipeline's side may do to one upload.
Affects(u) ==
    /\ phase' \in [Uploads -> Phase]
    /\ result' \in [Uploads -> BOOLEAN]
    /\ stored' = [v \in Uploads |-> stored'[v]]
    /\ \A v \in Uploads : v # u =>
          phase'[v] = phase[v] /\ result'[v] = result[v] /\ stored'[v] = stored[v]
    /\ result'[u] <=> stored'[u] # {}

LEMMA ReadyStays ==
    ASSUME ReadyInv, NEW u \in Uploads, Affects(u),
           disturbed \subseteq disturbed', disturbed' \subseteq Uploads,
           phase'[u] = "completed" => result'[u] \/ u \in disturbed',
           phase[u] = "completed" => phase'[u] = "completed" \/ u \in disturbed',
           UNCHANGED requestVars
    PROVE  ReadyInv'
<1>1. at' = at /\ target' = target
  BY DEF requestVars
<1>2. ASSUME NEW v \in Uploads
      PROVE  /\ result'[v] <=> stored'[v] # {}
             /\ phase'[v] = "completed" => result'[v] \/ v \in disturbed'
             /\ phase[v] = "completed" =>
                   phase'[v] = "completed" \/ v \in disturbed'
  <2>1. CASE v = u
    BY <2>1 DEF Affects
  <2>2. CASE v # u
    BY <2>2 DEF Affects, ReadyInv
  <2> QED
    BY <2>1, <2>2
<1> QED
  BY <1>1, <1>2 DEF Affects, ReadyInv

LEMMA StoredKept ==
    ASSUME ReadyInv, NEW u \in Uploads, NEW s, stored' = [stored EXCEPT ![u] = s]
    PROVE  /\ stored' = [v \in Uploads |-> stored'[v]]
           /\ stored'[u] = s
           /\ \A v \in Uploads : v # u => stored'[v] = stored[v]
  BY DEF ReadyInv

LEMMA KeepReady ==
    ASSUME ReadyInv, NEW u \in Uploads, KeepAnalysis(u)
    PROVE  ReadyInv'
<1>1. /\ phase' = phase /\ phase[u] = "processing"
      /\ disturbed' = disturbed /\ UNCHANGED requestVars
  BY DEF KeepAnalysis, Keep
<1>2. PICK s : /\ stored' = [stored EXCEPT ![u] = s]
               /\ result' = [result EXCEPT ![u] = (s # {})]
  <2>1. CASE Keep(u, TRUE) /\ \E reply \in Replies : Replace(u, reply)
    <3>1. PICK reply \in Replies : Replace(u, reply)
      BY <2>1
    <3>2. {BuildAnalysis(lastId + 1, reply)} # {}
      OBVIOUS
    <3> QED
      BY <2>1, <3>1, <3>2 DEF Keep, Replace
  <2>2. CASE Keep(u, FALSE) /\ Remove(u)
    BY <2>2 DEF Keep, Remove
  <2> QED
    BY <2>1, <2>2 DEF KeepAnalysis
<1>3. Affects(u)
  BY <1>1, <1>2, StoredKept DEF Affects, ReadyInv
<1> QED
  BY <1>1, <1>3, ReadyStays DEF ReadyInv

LEMMA MoveReady ==
    ASSUME ReadyInv, NEW u \in Uploads, MoveOn(u)
    PROVE  ReadyInv'
<1>1. /\ result' = result /\ stored' = stored
      /\ disturbed' = disturbed /\ UNCHANGED requestVars
  BY DEF MoveOn, Submit, Begin, Finish, Complete, Fail, Abandon, Become
<1>2. PICK p \in Phase :
          /\ phase' = [phase EXCEPT ![u] = p]
          /\ p = "completed" => result[u]
  BY DEF MoveOn, Submit, Begin, Finish, Complete, Fail, Abandon, Become, Phase,
         Terminal
<1>3. phase[u] # "completed"
  BY DEF MoveOn, Submit, Begin, Finish, Complete, Fail, Abandon, Become
<1>4. Affects(u) /\ phase'[u] = p
  BY <1>1, <1>2 DEF Affects, ReadyInv
<1> QED
  BY <1>1, <1>2, <1>3, <1>4, ReadyStays DEF ReadyInv

LEMMA RedeliverReady ==
    ASSUME ReadyInv, NEW u \in Uploads, Redeliver(u)
    PROVE  ReadyInv'
<1>1. disturbed' = disturbed \cup {u} /\ UNCHANGED requestVars
  BY DEF Redeliver
<1>2. CASE UNCHANGED <<result, stored>> /\ \E p \in Phase : phase' = [phase EXCEPT ![u] = p]
  <2>1. Affects(u)
    BY <1>2 DEF Affects, ReadyInv
  <2> QED
    BY <1>1, <2>1, ReadyStays DEF ReadyInv
<1>3. CASE \E s : /\ stored' = [stored EXCEPT ![u] = s]
                  /\ result' = [result EXCEPT ![u] = (s # {})]
                  /\ phase' = phase
  <2>1. Affects(u)
    BY <1>3, StoredKept DEF Affects, ReadyInv
  <2> QED
    BY <1>1, <2>1, ReadyStays DEF ReadyInv
<1>4. CASE /\ \E reply \in Replies : Replace(u, reply)
           /\ result' = [result EXCEPT ![u] = TRUE]
           /\ phase' = phase
  <2>1. PICK reply \in Replies : Replace(u, reply)
    BY <1>4
  <2>2. {BuildAnalysis(lastId + 1, reply)} # {}
    OBVIOUS
  <2> QED
    BY <1>3, <1>4, <2>1, <2>2 DEF Replace
<1>5. CASE Remove(u) /\ result' = [result EXCEPT ![u] = FALSE] /\ phase' = phase
  BY <1>3, <1>5 DEF Remove
<1> QED
  BY <1>2, <1>4, <1>5 DEF Redeliver, Phase, Terminal

LEMMA GetReady ==
    ASSUME ReadyInv, Get
    PROVE  ReadyInv'
<1>1. UNCHANGED <<phase, result, stored, disturbed>>
  BY DEF Get, pipelineSide
<1>2. target' \in Uploads
  BY DEF Get, Ask, LoadUpload, LoadAnalysis, ChooseWindow, RunQuery, QueryFails,
         Answer, Continue, ReadyInv
<1>3. at' = "analysis" => phase[target'] = "completed"
  BY SeriesFacts
  DEF Get, Ask, LoadUpload, LoadAnalysis, ChooseWindow, RunQuery, QueryFails,
      Answer, Continue
<1> QED
  BY <1>1, <1>2, <1>3 DEF ReadyInv

LEMMA ReadyInductive ==
    ASSUME ReadyInv, [VisNext]_visVars
    PROVE  ReadyInv'
<1>1. CASE UNCHANGED visVars
  BY <1>1 DEF ReadyInv, visVars, pipelineSide, requestVars
<1> QED
  BY <1>1, KeepReady, MoveReady, RedeliverReady, GetReady DEF VisNext

LEMMA InitReady == VisInit => ReadyInv
  BY DEF VisInit, LifecycleInit, ReadyInv, Phase, Terminal

\* The row a completed upload "should always have" is there between the
\* handler's two reads, for any number of uploads and replacements.
THEOREM ReadyCorrect == VisSpec => []CompletedIsReady
<1>1. ReadyInv => CompletedIsReady
  BY DEF ReadyInv, CompletedIsReady
<1> QED
  BY InitReady, ReadyInductive, <1>1, PTL DEF VisSpec

----------------------------------------------------------------------------
(* Type correctness.                                                       *)

RequestTypes ==
    /\ lastId \in 0 .. MaxAnalyses
    /\ at \in Places
    /\ DOMAIN charts \subseteq {Series[i] : i \in DOMAIN Series}
    /\ answer \in Outcomes

LEMMA TypesInductive ==
    ASSUME RequestTypes, [VisNext]_visVars
    PROVE  RequestTypes'
<1>1. lastId' \in 0 .. MaxAnalyses
  <2>1. lastId' = lastId \/ (lastId < MaxAnalyses /\ lastId' = lastId + 1)
    BY DEF VisNext, KeepAnalysis, MoveOn, Redeliver, Get, Replace, Remove,
           visVars, pipelineSide
  <2> QED
    BY <2>1, VisualizationAssumption DEF RequestTypes
<1>2. CASE UNCHANGED requestVars
  BY <1>1, <1>2 DEF RequestTypes, requestVars
<1>3. CASE Ask
  <2>1. charts' = <<>> /\ at' = "upload" /\ answer' = "none"
    BY <1>3 DEF Ask
  <2>2. DOMAIN charts' = {}
    BY <2>1
  <2> QED
    BY <1>1, <2>1, <2>2 DEF RequestTypes, Places, Outcomes
<1>4. CASE RunQuery
  <2>1. PICK k \in DOMAIN Series : at = Series[k]
    BY <1>4 DEF RunQuery
  <2>2. DOMAIN charts' = DOMAIN charts \cup {at}
    BY <1>4 DEF RunQuery
  <2>3. PICK n \in 1 .. 6 :
            IF n = 6 THEN at' = "idle" /\ answer' = "ok"
            ELSE at' = Series[n + 1] /\ answer' = answer
    BY <1>4, SeriesFacts DEF RunQuery
  <2>4. answer' \in Outcomes
    BY <2>3 DEF RequestTypes, Outcomes
  <2>5. at' \in Places
    <3>1. n # 6 => n + 1 \in 1 .. 6
      OBVIOUS
    <3> QED
      BY <2>3, <3>1, SeriesFacts DEF Places
  <2>6. DOMAIN charts' \subseteq {Series[i] : i \in DOMAIN Series}
    BY <2>1, <2>2 DEF RequestTypes
  <2> QED
    BY <1>1, <2>4, <2>5, <2>6 DEF RequestTypes
<1>5. CASE LoadUpload \/ LoadAnalysis \/ ChooseWindow \/ QueryFails
  <2>1. charts' = charts
    BY <1>5
    DEF LoadUpload, LoadAnalysis, ChooseWindow, QueryFails, Answer, Continue
  <2>2. answer' \in Outcomes
    BY <1>5
    DEF LoadUpload, LoadAnalysis, ChooseWindow, QueryFails, Answer, Continue,
        Outcomes, RequestTypes
  <2>3. at' \in {"idle", "analysis", "bounds", Series[1]}
    BY <1>5
    DEF LoadUpload, LoadAnalysis, ChooseWindow, QueryFails, Answer, Continue
  <2>4. at' \in Places
    BY <2>3, SeriesFacts DEF Places
  <2> QED
    BY <1>1, <2>1, <2>2, <2>4 DEF RequestTypes
<1> QED
  BY <1>2, <1>3, <1>4, <1>5
  DEF VisNext, Get, KeepAnalysis, MoveOn, Redeliver, visVars

\* Every variable has its type; amounts stay without sign and directions
\* within the two the queries know, whatever the model replies.
THEOREM VisTypeCorrect == VisSpec => []VisTypeOK
<1>1. VisInit => RequestTypes
  BY VisualizationAssumption DEF VisInit, RequestTypes, Places, Outcomes
<1>2. ASSUME ReadInv, ReadyInv, WindowInv, RequestTypes PROVE VisTypeOK
  <2>1. ASSUME NEW w \in window PROVE w \in Windows
    <3>1. PICK anchor \in Int : w = ResolveWindow(query, anchor)
      BY <1>2, <2>1 DEF WindowInv, GoodWindow
    <3>2. /\ query \in Queries /\ MonthsAsked(query) \in 1 .. 12
      BY <1>2, <2>1 DEF WindowInv, GoodWindow, BadWindow, MaxWindowMonths
    <3>3. /\ query.from # {} => From(query) \in Int
          /\ query.to # {} => To(query) \in Int
      BY <3>2, QueryAssumption DEF From, To
    <3> QED
      BY <3>1, <3>2, <3>3 DEF ResolveWindow, Windows
  <2>2. \A u \in Uploads :
            /\ result[u] <=> stored[u] # {}
            /\ \A a, b \in stored[u] : a = b
            /\ \A a \in stored[u] : Conventional(a)
    BY <1>2 DEF ReadInv, ReadyInv, StoreInv, WellFormed
  <2> QED
    BY <1>2, <2>1, <2>2 DEF VisTypeOK, ReadyInv, RequestTypes, WindowInv
<1>3. VisInit => WindowInv
  BY DEF VisInit, WindowInv
<1> QED
  BY InitRead, ReadInductive, InitReady, ReadyInductive, TypesInductive,
     WindowInductive, <1>1, <1>2, <1>3, PTL DEF VisSpec
----------------------------------------------------------------------------
(* What a response shows.                                                  *)

AnchorOf(a) == AnchorMonth(GetTransactionMonthBounds(a.rows), a)

Querying == Served \/ \E n \in 1 .. 6 : AtSeries(n)

\* Unless a hop was redelivered, the row the handler holds stays the stored
\* one, and the window was counted back from its last month.
KeptInv ==
    target \notin disturbed =>
        /\ at = "bounds" \/ Querying
              => phase[target] = "completed" /\ loaded = stored[target]
        /\ Querying
              => \A a \in loaded, w \in window :
                    w = ResolveWindow(query, AnchorOf(a))

\* Only a redelivered hop touches a completed upload.
LEMMA CompletedKept ==
    ASSUME ReadyInv, phase[target] = "completed", NEW u \in Uploads,
           KeepAnalysis(u) \/ MoveOn(u) \/ Redeliver(u),
           target \notin disturbed'
    PROVE  phase'[target] = "completed" /\ stored'[target] = stored[target]
<1>1. target \in Uploads /\ phase \in [Uploads -> Phase]
      /\ stored = [v \in Uploads |-> stored[v]]
  BY DEF ReadyInv
<1>2. CASE KeepAnalysis(u)
  <2>1. u # target /\ phase' = phase
    BY <1>2 DEF KeepAnalysis, Keep
  <2> QED
    BY <1>1, <1>2, <2>1 DEF KeepAnalysis, Replace, Remove
<1>3. CASE MoveOn(u)
  <2>1. u # target /\ stored' = stored /\ \E p : phase' = [phase EXCEPT ![u] = p]
    BY <1>3
    DEF MoveOn, Submit, Begin, Finish, Complete, Fail, Abandon, Become
  <2> QED
    BY <1>1, <2>1
<1>4. CASE Redeliver(u)
  <2>1. u # target
    BY <1>4 DEF Redeliver
  <2>2. phase' = phase \/ \E p : phase' = [phase EXCEPT ![u] = p]
    BY <1>4 DEF Redeliver
  <2>3. stored' = stored \/ \E s : stored' = [stored EXCEPT ![u] = s]
    BY <1>4 DEF Redeliver, Replace, Remove
  <2> QED
    BY <1>1, <2>1, <2>2, <2>3
<1> QED
  BY <1>2, <1>3, <1>4

LEMMA KeptStays ==
    ASSUME ReadyInv, KeptInv, NEW u \in Uploads,
           KeepAnalysis(u) \/ MoveOn(u) \/ Redeliver(u)
    PROVE  KeptInv'
<1>1. UNCHANGED requestVars /\ disturbed \subseteq disturbed'
  BY DEF KeepAnalysis, MoveOn, Redeliver
<1>2. /\ at' = at /\ target' = target /\ loaded' = loaded /\ window' = window
      /\ query' = query /\ (Querying' <=> Querying)
  BY <1>1 DEF requestVars, Querying, AtSeries, Served
<1>3. ASSUME target \notin disturbed', at = "bounds" \/ Querying
      PROVE  phase'[target] = "completed" /\ loaded = stored'[target]
  <2>1. phase[target] = "completed" /\ loaded = stored[target]
    BY <1>1, <1>3 DEF KeptInv
  <2> QED
    BY <1>3, <2>1, CompletedKept
<1>4. ASSUME target \notin disturbed', Querying
      PROVE  \A a \in loaded, w \in window : w = ResolveWindow(query, AnchorOf(a))
  BY <1>1, <1>4 DEF KeptInv
<1> QED
  BY <1>2, <1>3, <1>4 DEF KeptInv

\* The window is chosen from the rows the handler still finds.
LEMMA KeptWindow ==
    ASSUME ReadInv, KeptInv, ChooseWindow, ~ BadWindow(query),
           target \notin disturbed, NEW a \in loaded, NEW w \in window'
    PROVE  w = ResolveWindow(query, AnchorOf(a))
<1>1. loaded = {a} /\ Held(a)
  BY DEF ChooseWindow, ReadInv, RequestInv
<1>2. Loaded = a
  BY <1>1, Zenon DEF Loaded
<1>3. ~ Gone(a)
  BY <1>1 DEF KeptInv, ChooseWindow, Gone
<1>4. RowsOf(a.id) = a.rows
  BY <1>1, <1>3, RowsFound
<1> QED
  BY <1>2, <1>4 DEF ChooseWindow, AnchorOf

LEMMA GetKept ==
    ASSUME ReadInv, ReadyInv, KeptInv, Get
    PROVE  KeptInv'
<1>1. phase' = phase /\ stored' = stored /\ disturbed' = disturbed
  BY DEF Get, pipelineSide
<1>2. CASE Ask \/ LoadUpload \/ QueryFails
  <2>1. at' \in {"idle", "upload", "analysis"} /\ ~ Served'
    BY <1>2 DEF Ask, LoadUpload, QueryFails, Answer, Continue, Served, ReadInv,
                RequestInv
  <2> QED
    BY <2>1, SeriesFacts DEF KeptInv, Querying, AtSeries
<1>3. CASE LoadAnalysis
  <2>1. CASE Answer("conflict")
    BY <2>1, SeriesFacts DEF Answer, KeptInv, Querying, AtSeries, Served
  <2>2. CASE Continue("bounds") /\ loaded' = stored[target]
    <3>1. at' = "bounds" /\ target' = target /\ ~ Served'
      BY <1>3, <2>2 DEF Continue, LoadAnalysis, Served, ReadInv, RequestInv
    <3>2. ~ Querying'
      BY <3>1, SeriesFacts DEF Querying, AtSeries
    <3>3. target \in disturbed \/ phase[target] = "completed"
      BY <1>3 DEF LoadAnalysis, ReadyInv
    <3> QED
      BY <1>1, <2>2, <3>1, <3>2, <3>3 DEF KeptInv
  <2> QED
    BY <1>3, <2>1, <2>2 DEF LoadAnalysis
<1>4. CASE ChooseWindow
  <2>1. CASE Answer("bad request")
    BY <2>1, SeriesFacts DEF Answer, KeptInv, Querying, AtSeries, Served
  <2>2. CASE ~ BadWindow(query)
    <3>1. /\ target' = target /\ loaded' = loaded /\ query' = query
          /\ at = "bounds"
      BY <1>4, <2>2 DEF ChooseWindow, Continue
    <3>2. ASSUME target \notin disturbed
          PROVE  \A a \in loaded, w \in window' :
                     w = ResolveWindow(query, AnchorOf(a))
      BY <1>4, <2>2, <3>2, KeptWindow
    <3> QED
      BY <1>1, <3>1, <3>2 DEF KeptInv
  <2> QED
    BY <1>4, <2>1, <2>2 DEF ChooseWindow
<1>5. CASE RunQuery
  <2>1. /\ target' = target /\ loaded' = loaded /\ query' = query
        /\ window' = window /\ Querying
    BY <1>5, SeriesFacts DEF RunQuery, Querying, AtSeries
  <2> QED
    BY <1>1, <2>1 DEF KeptInv
<1> QED
  BY <1>2, <1>3, <1>4, <1>5 DEF Get

LEMMA KeptInductive ==
    ASSUME ReadInv, ReadyInv, KeptInv, [VisNext]_visVars
    PROVE  KeptInv'
<1>1. CASE UNCHANGED visVars
  BY <1>1
  DEF KeptInv, visVars, pipelineSide, requestVars, Querying, AtSeries, Served
<1> QED
  BY <1>1, KeptStays, GetKept DEF VisNext

LEMMA InitKept == VisInit => KeptInv
  BY SeriesFacts DEF VisInit, KeptInv, Querying, AtSeries, Served

ShownInv == ReadInv /\ ReadyInv /\ WindowInv /\ KeptInv

LEMMA ShownCorrect == VisSpec => []ShownInv
<1>1. VisInit => ShownInv
  BY InitRead, InitReady, InitKept DEF VisInit, WindowInv, ShownInv
<1>2. ShownInv /\ [VisNext]_visVars => ShownInv'
  BY ReadInductive, ReadyInductive, WindowInductive, KeptInductive DEF ShownInv
<1> QED
  BY <1>1, <1>2, PTL DEF VisSpec

\* A response: the analysis and the window of its first `last` series.
DrawnFrom(a, w, last) ==
    /\ Loaded = a /\ Window = w
    /\ WellFormed(a) /\ GoodWindow(w)
    /\ \A i \in 1 .. 6 : charts[Series[i]] =
          Aggregate(Series[i], IF i <= last THEN a.rows ELSE <<>>, w)
    /\ target \notin disturbed
         => last = 6 /\ w = ResolveWindow(query, AnchorOf(a))

\* A response is drawn from the rows that were held.
LEMMA Response ==
    ASSUME ShownInv, Served
    PROVE  \E a, w : \E last \in 0 .. 6 : DrawnFrom(a, w, last)
<1>1. PICK a \in loaded, w \in window :
          loaded = {a} /\ window = {w} /\ Held(a) /\ ReadUpTo(6, a, w)
  BY DEF ShownInv, ReadInv, RequestInv, Reading
<1>2. Loaded = a /\ Window = w
  BY <1>1, Zenon DEF Loaded, Window
<1>3. PICK last \in 0 .. 6 :
          /\ \A i \in 1 .. 6 : charts[Series[i]] =
                Aggregate(Series[i], IF i <= last THEN a.rows ELSE <<>>, w)
          /\ last < 6 => Gone(a)
  BY <1>1 DEF ReadUpTo
<1>4. ASSUME target \notin disturbed
      PROVE  last = 6 /\ w = ResolveWindow(query, AnchorOf(a))
  <2>1. loaded = stored[target] /\ w = ResolveWindow(query, AnchorOf(a))
    BY <1>1, <1>4 DEF ShownInv, KeptInv, Querying
  <2>2. ~ Gone(a)
    BY <1>1, <2>1 DEF Gone
  <2> QED
    BY <1>3, <2>1, <2>2
<1>5. WellFormed(a) /\ GoodWindow(w)
  BY <1>1 DEF Held, ShownInv, WindowInv
<1>6. DrawnFrom(a, w, last)
  BY <1>2, <1>3, <1>4, <1>5 DEF DrawnFrom
<1> QED
  BY <1>6

\* The queries over no rows answer nothing.
LEMMA ChartsOfNothing ==
    ASSUME NEW w
    PROVE  /\ MonthlyIncomeVsSpending(<<>>, w) = <<>>
           /\ CategoryBreakdown(<<>>, w) = <<>>
           /\ MonthlyByCategory(<<>>, w) = <<>>
           /\ EssentialVsDiscretionary(<<>>, w) = <<>>
           /\ DOMAIN BalanceOverTime(<<>>, w) = {}
<1>1. InWindow(<<>>, w) = {} /\ Debits(<<>>, w) = {}
  BY DEF InWindow, Debits
<1>2. /\ MonthsOf(<<>>, InWindow(<<>>, w)) = {}
      /\ MonthsOf(<<>>, Debits(<<>>, w)) = {}
      /\ CategoriesOf(<<>>, Debits(<<>>, w)) = {}
      /\ {<<MonthOf(<<>>[i].date), CategoryOf(<<>>[i])>> : i \in Debits(<<>>, w)} = {}
  BY <1>1 DEF MonthsOf, CategoriesOf
<1>3. MonthlyIncomeVsSpending(<<>>, w) = <<>>
  BY <1>2 DEF MonthlyIncomeVsSpending
<1>4. CategoryBreakdown(<<>>, w) = <<>>
  BY <1>2 DEF CategoryBreakdown
<1>5. MonthlyByCategory(<<>>, w) = <<>>
  BY <1>2 DEF MonthlyByCategory
<1>6. EssentialVsDiscretionary(<<>>, w) = <<>>
  BY <1>2 DEF EssentialVsDiscretionary
<1>7. DOMAIN BalanceOverTime(<<>>, w) = {}
  BY <1>1 DEF BalanceOverTime
<1> QED
  BY <1>3, <1>4, <1>5, <1>6, <1>7

LEMMA SeriesRead ==
    ASSUME NEW rows, NEW w
    PROVE  /\ Aggregate(Series[1], rows, w) = WindowSummary(rows, w)
           /\ Aggregate(Series[2], rows, w) = MonthlyIncomeVsSpending(rows, w)
           /\ Aggregate(Series[3], rows, w) = CategoryBreakdown(rows, w)
           /\ Aggregate(Series[4], rows, w) = MonthlyByCategory(rows, w)
           /\ Aggregate(Series[5], rows, w) = EssentialVsDiscretionary(rows, w)
           /\ Aggregate(Series[6], rows, w) = BalanceOverTime(rows, w)
  BY DEF Aggregate, Series

\* Only days with a transaction of the window have a balance.
LEMMA BalanceAgrees ==
    ASSUME NEW rows, NEW w, NEW d \in DOMAIN BalanceOverTime(rows, w)
    PROVE  MonthOf(d) \in DOMAIN MonthlyIncomeVsSpending(rows, w)
<1> DEFINE known == {i \in InWindow(rows, w) : rows[i].balance # {}}
<1>1. DOMAIN BalanceOverTime(rows, w) = {rows[i].date : i \in known}
  BY DEF BalanceOverTime
<1>2. PICK i \in known : d = rows[i].date
  BY <1>1
<1>3. MonthOf(d) \in MonthsOf(rows, InWindow(rows, w))
  BY <1>2 DEF MonthsOf
<1> QED
  BY <1>3 DEF MonthlyIncomeVsSpending

\* Whatever a client asks for and however many analyses come and go meanwhile,
\* the charts of a response add up to its summary and to each other; only those
\* read after a redelivered hop took the analysis away may be empty instead.
THEOREM ChartsAgreeCorrect == VisSpec => []ChartsAgree
<1>1. ASSUME ShownInv, Served PROVE ChartsAgree
  <2>0. PICK a, w : \E last \in 0 .. 6 : DrawnFrom(a, w, last)
    BY <1>1, Response
  <2>1. PICK last \in 0 .. 6 :
            /\ WellFormed(a)
            /\ \A i \in 1 .. 6 : charts[Series[i]] =
                  Aggregate(Series[i], IF i <= last THEN a.rows ELSE <<>>, w)
            /\ target \notin disturbed => last = 6
    BY <2>0 DEF DrawnFrom
  <2> DEFINE Read(i) == IF i <= last THEN a.rows ELSE <<>>
  <2>2. \A i \in 1 .. 6 : Solid(Read(i))
    BY <2>1, EmptyIsSolid DEF WellFormed, Faithful
  <2>3. /\ charts.summary = WindowSummary(Read(1), w)
        /\ charts.income = MonthlyIncomeVsSpending(Read(2), w)
        /\ charts.categories = CategoryBreakdown(Read(3), w)
        /\ charts.monthCategories = MonthlyByCategory(Read(4), w)
        /\ charts.split = EssentialVsDiscretionary(Read(5), w)
        /\ charts.balance = BalanceOverTime(Read(6), w)
    <3>1. \A i \in 1 .. 6 : charts[Series[i]] = Aggregate(Series[i], Read(i), w)
      BY <2>1
    <3>2. /\ Series[1] = "summary" /\ Series[2] = "income"
          /\ Series[3] = "categories" /\ Series[4] = "monthCategories"
          /\ Series[5] = "split" /\ Series[6] = "balance"
      BY DEF Series
    <3> HIDE DEF Read
    <3>3. /\ charts[Series[1]] = WindowSummary(Read(1), w)
          /\ charts[Series[2]] = MonthlyIncomeVsSpending(Read(2), w)
          /\ charts[Series[3]] = CategoryBreakdown(Read(3), w)
          /\ charts[Series[4]] = MonthlyByCategory(Read(4), w)
          /\ charts[Series[5]] = EssentialVsDiscretionary(Read(5), w)
          /\ charts[Series[6]] = BalanceOverTime(Read(6), w)
      BY <3>1, SeriesRead
    <3> QED
      BY <3>2, <3>3
  <2>4. \A i \in 1 .. 6 : Read(i) = Read(1) \/ (Read(i) = <<>> /\ target \in disturbed)
    BY <2>1
  <2>5. \A i, j \in 1 .. 6 : i <= j =>
            Read(j) = Read(i) \/ (Read(j) = <<>> /\ target \in disturbed)
    BY <2>1
  <2> DEFINE sum == charts.summary
             income == charts.income
             categories == charts.categories
             monthly == charts.monthCategories
             split == charts.split
  <2> HIDE DEF Read
  <2>6. Missing(income) \/ IncomeFits(income, sum)
    <3>1. CASE Read(2) = Read(1)
      <4>1. IncomeFits(MonthlyIncomeVsSpending(Read(1), w), WindowSummary(Read(1), w))
        BY <2>2, IncomeAgrees
      <4> QED
        BY <2>3, <3>1, <4>1, Zenon
    <3>2. CASE Read(2) = <<>> /\ target \in disturbed
      BY <2>3, <3>2, ChartsOfNothing, Zenon DEF Missing
    <3> QED
      BY <2>4, <3>1, <3>2
  <2>7. /\ Missing(categories) \/ CategoriesFit(categories, sum)
        /\ NoneExceeds(categories, sum)
    <3>1. CASE Read(3) = Read(1)
      <4>1. /\ CategoriesFit(CategoryBreakdown(Read(1), w), WindowSummary(Read(1), w))
            /\ NoneExceeds(CategoryBreakdown(Read(1), w), WindowSummary(Read(1), w))
        BY <2>2, CategoriesAgree
      <4> QED
        BY <2>3, <3>1, <4>1, Zenon
    <3>2. CASE Read(3) = <<>> /\ target \in disturbed
      <4>1. categories = <<>>
        BY <2>3, <3>2, ChartsOfNothing, Zenon
      <4>2. DOMAIN categories = {}
        BY <4>1
      <4> QED
        BY <3>2, <4>1, <4>2, Zenon DEF Missing, NoneExceeds
    <3> QED
      BY <2>4, <3>1, <3>2
  <2>8. ASSUME NEW m \in DOMAIN income
        PROVE  Missing(monthly) \/ MonthFits(monthly, income, m)
    <3>1. CASE Read(4) = Read(2)
      <4>1. m \in DOMAIN MonthlyIncomeVsSpending(Read(2), w)
        BY <2>3, <2>8, Zenon
      <4>2. MonthFits(MonthlyByCategory(Read(2), w),
                      MonthlyIncomeVsSpending(Read(2), w), m)
        BY <2>2, <4>1, MonthCategoriesAgree
      <4> QED
        BY <2>3, <3>1, <4>2, Zenon
    <3>2. CASE Read(4) = <<>> /\ target \in disturbed
      BY <2>3, <3>2, ChartsOfNothing, Zenon DEF Missing
    <3> QED
      BY <2>5, <3>1, <3>2
  <2>9. SplitFits(split, income)
    <3>1. CASE Read(5) = Read(2)
      <4>1. SplitFits(EssentialVsDiscretionary(Read(2), w),
                      MonthlyIncomeVsSpending(Read(2), w))
        BY <2>2, SplitAgrees
      <4> QED
        BY <2>3, <3>1, <4>1, Zenon
    <3>2. CASE Read(5) = <<>>
      <4>1. split = <<>>
        BY <2>3, <3>2, ChartsOfNothing, Zenon
      <4>2. DOMAIN split = {}
        BY <4>1
      <4> QED
        BY <4>2, Zenon DEF SplitFits
    <3> QED
      BY <2>5, <3>1, <3>2
  <2>10. Missing(split) \/ RestFits(split, sum)
    <3>1. CASE Read(5) = Read(1)
      <4>1. RestFits(EssentialVsDiscretionary(Read(1), w), WindowSummary(Read(1), w))
        BY <2>2, SplitAgrees
      <4> QED
        BY <2>3, <3>1, <4>1, Zenon
    <3>2. CASE Read(5) = <<>> /\ target \in disturbed
      BY <2>3, <3>2, ChartsOfNothing, Zenon DEF Missing
    <3> QED
      BY <2>4, <3>1, <3>2
  <2>11. ASSUME NEW d \in DOMAIN charts.balance PROVE MonthOf(d) \in DOMAIN income
    <3>1. d \in DOMAIN BalanceOverTime(Read(6), w)
      BY <2>3, <2>11, Zenon
    <3>2. CASE Read(6) = Read(2)
      <4>1. MonthOf(d) \in DOMAIN MonthlyIncomeVsSpending(Read(6), w)
        BY <3>1, BalanceAgrees
      <4> QED
        BY <2>3, <3>2, <4>1, Zenon
    <3>3. CASE Read(6) = <<>>
      BY <3>1, <3>3, ChartsOfNothing, Zenon
    <3> QED
      BY <2>5, <3>2, <3>3
  <2> QED
    BY <2>6, <2>7, <2>8, <2>9, <2>10, <2>11, Zenon
    DEF ChartsAgree, IncomeFits, CategoriesFit, NoneExceeds, MonthFits, SplitFits,
        RestFits
<1>2. ShownInv => ChartsAgree
  BY <1>1 DEF ChartsAgree
<1> QED
  BY ShownCorrect, <1>2, PTL

\* What resolveWindow computes is a window.
LEMMA WindowIsInt ==
    ASSUME NEW w, query \in Queries, GoodWindow(w)
    PROVE  w.from \in Int /\ w.to \in Int
<1>1. PICK anchor \in Int : w = ResolveWindow(query, anchor)
  BY DEF GoodWindow
<1>2. MonthsAsked(query) \in 1 .. 12
  BY DEF GoodWindow, BadWindow, MaxWindowMonths
<1>3. /\ query.from # {} => From(query) \in Int
      /\ query.to # {} => To(query) \in Int
  BY QueryAssumption DEF From, To
<1> QED
  BY <1>1, <1>2, <1>3 DEF ResolveWindow

\* The queries' bounds on days are bounds on months, both ends included.
LEMMA DaysAreMonths ==
    ASSUME NEW d \in Int, IsDay(d), NEW from \in Int, NEW to \in Int
    PROVE  FirstDay(from) <= d /\ d <= LastDay(to) <=> MonthOf(d) \in from .. to
<1> DEFINE m == d \div 100
           r == d % 100
<1>1. \A n \in Int : MonthLength(n) \in 28 .. 31
  BY DEF MonthLength
<1>2. m \in Int /\ r \in Int /\ d = 100 * m + r /\ r \in 1 .. MonthLength(m)
  BY DEF IsDay, MonthOf
<1>3. /\ FirstDay(from) = 100 * from + 1
      /\ LastDay(to) = 100 * to + MonthLength(to)
      /\ MonthOf(d) = m
  BY DEF FirstDay, LastDay, Day, MonthOf
<1>4. MonthLength(m) \in 28 .. 31 /\ MonthLength(to) \in 28 .. 31
      /\ (m = to => MonthLength(m) = MonthLength(to))
  BY <1>1, <1>2
<1> HIDE DEF m, r
<1>5. FirstDay(from) <= d <=> from <= m
  BY <1>2, <1>3, <1>4
<1>6. d <= LastDay(to) <=> m <= to
  BY <1>2, <1>3, <1>4
<1> QED
  BY <1>2, <1>3, <1>5, <1>6

LEMMA InMonths ==
    ASSUME NEW rows, Solid(rows), NEW w, w.from \in Int, w.to \in Int
    PROVE  InWindow(rows, w)
             = {i \in DOMAIN rows : MonthOf(rows[i].date) \in w.from .. w.to}
  BY DaysAreMonths DEF InWindow, PeriodEnd, Solid

\* Every chart draws on rows of the window.
LEMMA ShownInWindow ==
    ASSUME NEW rows, Solid(rows), NEW w, w.from \in Int, w.to \in Int
    PROVE  /\ DOMAIN MonthlyIncomeVsSpending(rows, w) \subseteq w.from .. w.to
           /\ {g[1] : g \in DOMAIN MonthlyByCategory(rows, w)}
                \subseteq w.from .. w.to
           /\ DOMAIN EssentialVsDiscretionary(rows, w) \subseteq w.from .. w.to
           /\ {MonthOf(d) : d \in DOMAIN BalanceOverTime(rows, w)}
                \subseteq w.from .. w.to
<1> DEFINE months == MonthsOf(rows, InWindow(rows, w))
<1>1. Debits(rows, w) \subseteq InWindow(rows, w)
  BY WindowParts
<1>2. months \subseteq w.from .. w.to
  BY InMonths DEF MonthsOf
<1>3. DOMAIN MonthlyIncomeVsSpending(rows, w) = months
  BY DEF MonthlyIncomeVsSpending
<1>4. {g[1] : g \in DOMAIN MonthlyByCategory(rows, w)} \subseteq months
  BY <1>1 DEF MonthlyByCategory, MonthsOf
<1>5. DOMAIN EssentialVsDiscretionary(rows, w) \subseteq months
  BY <1>1 DEF EssentialVsDiscretionary, MonthsOf
<1>6. {MonthOf(d) : d \in DOMAIN BalanceOverTime(rows, w)} \subseteq months
  BY <1>3, BalanceAgrees
<1> QED
  BY <1>2, <1>3, <1>4, <1>5, <1>6

\* Whatever was stored and however many analyses come and go meanwhile, no chart
\* leaves the window of the response, the window keeps to the ends the client
\* gave, and without a start no more months show than were asked for.
THEOREM ChartsKeepCorrect == VisSpec => []ChartsKeepToRequest
<1>1. ASSUME ShownInv, Served PROVE ChartsKeepToRequest
  <2>0. PICK a, w : \E last \in 0 .. 6 : DrawnFrom(a, w, last)
    BY <1>1, Response
  <2>1. PICK last \in 0 .. 6 :
            /\ WellFormed(a) /\ GoodWindow(w) /\ Window = w
            /\ \A i \in 1 .. 6 : charts[Series[i]] =
                  Aggregate(Series[i], IF i <= last THEN a.rows ELSE <<>>, w)
    BY <2>0 DEF DrawnFrom
  <2> DEFINE Read(i) == IF i <= last THEN a.rows ELSE <<>>
  <2>2. \A i \in 1 .. 6 : Solid(Read(i))
    BY <2>1, EmptyIsSolid DEF WellFormed, Faithful
  <2>3. query \in Queries
    BY <1>1 DEF ShownInv, WindowInv
  <2>4. w.from \in Int /\ w.to \in Int
    BY <2>1, <2>3, WindowIsInt
  <2>5. /\ query.from # {} => w.from = From(query)
        /\ query.to # {} => w.to = To(query)
        /\ query.from = {} => w.to - w.from + 1 = MonthsAsked(query)
    BY <2>1, <2>3, ResolvedSpans DEF GoodWindow
  <2>6. \A i \in 1 .. 6 : charts[Series[i]] = Aggregate(Series[i], Read(i), w)
    BY <2>1
  <2> HIDE DEF Read
  <2>7. /\ charts.income = MonthlyIncomeVsSpending(Read(2), w)
        /\ charts.monthCategories = MonthlyByCategory(Read(4), w)
        /\ charts.split = EssentialVsDiscretionary(Read(5), w)
        /\ charts.balance = BalanceOverTime(Read(6), w)
    <3>1. /\ charts[Series[2]] = MonthlyIncomeVsSpending(Read(2), w)
          /\ charts[Series[4]] = MonthlyByCategory(Read(4), w)
          /\ charts[Series[5]] = EssentialVsDiscretionary(Read(5), w)
          /\ charts[Series[6]] = BalanceOverTime(Read(6), w)
      BY <2>6, SeriesRead
    <3> QED
      BY <3>1 DEF Series
  <2>8. MonthsShown \subseteq w.from .. w.to
    <3>1. /\ DOMAIN MonthlyIncomeVsSpending(Read(2), w) \subseteq w.from .. w.to
          /\ {g[1] : g \in DOMAIN MonthlyByCategory(Read(4), w)}
               \subseteq w.from .. w.to
          /\ DOMAIN EssentialVsDiscretionary(Read(5), w) \subseteq w.from .. w.to
          /\ {MonthOf(d) : d \in DOMAIN BalanceOverTime(Read(6), w)}
               \subseteq w.from .. w.to
      BY <2>2, <2>4, ShownInWindow
    <3> QED
      BY <2>7, <3>1 DEF MonthsShown
  <2>9. query.from = {} => Cardinality(MonthsShown) <= MonthsAsked(query)
    <3>1. MonthsAsked(query) \in 1 .. 12
      BY <2>1 DEF GoodWindow, BadWindow, MaxWindowMonths
    <3>2. /\ IsFiniteSet(w.from .. w.to)
          /\ Cardinality(w.from .. w.to)
                = IF w.from > w.to THEN 0 ELSE w.to - w.from + 1
      BY <2>4, FS_Interval
    <3>3. Cardinality(MonthsShown) <= Cardinality(w.from .. w.to)
      BY <2>8, <3>2, FS_Subset
    <3> QED
      BY <2>4, <2>5, <3>1, <3>2, <3>3
  <2> QED
    BY <2>1, <2>5, <2>8, <2>9 DEF ChartsKeepToRequest
<1>2. ShownInv => ChartsKeepToRequest
  BY <1>1 DEF ChartsKeepToRequest
<1> QED
  BY ShownCorrect, <1>2, PTL

\* Unless a hop was redelivered, every transaction the model reported for the
\* window's months is counted once, and its magnitude is income or spending.
THEOREM NothingVanishesCorrect == VisSpec => []NothingVanishes
<1>1. ASSUME ShownInv, Served, target \notin disturbed PROVE NothingVanishes
  <2>1. PICK a, w :
            /\ Loaded = a /\ Window = w
            /\ WellFormed(a) /\ GoodWindow(w)
            /\ \A i \in 1 .. 6 : charts[Series[i]] = Aggregate(Series[i], a.rows, w)
    <3>1. PICK a, w : \E last \in 0 .. 6 : DrawnFrom(a, w, last)
      BY <1>1, Response
    <3>2. DrawnFrom(a, w, 6)
      BY <1>1, <3>1 DEF DrawnFrom
    <3>3. \A i \in 1 .. 6 : charts[Series[i]] = Aggregate(Series[i], a.rows, w)
      BY <3>2 DEF DrawnFrom
    <3> QED
      BY <3>2, <3>3 DEF DrawnFrom
  <2> DEFINE rows == a.rows
             txns == a.raw.transactions
             shown == InWindow(rows, w)
             sum == WindowSummary(rows, w)
  <2>2. /\ Solid(rows)
        /\ DOMAIN rows = DOMAIN txns
        /\ \A i \in DOMAIN txns : /\ txns[i].date = {rows[i].date}
                                  /\ txns[i].amount = {rows[i].amount}
    <3>1. rows = [i \in DOMAIN txns |-> rows[i]]
      BY <2>1 DEF WellFormed, Faithful
    <3> QED
      BY <2>1, <3>1 DEF WellFormed, Faithful
  <2>3. w.from \in Int /\ w.to \in Int
    BY <1>1, <2>1, WindowIsInt DEF ShownInv, WindowInv
  <2>4. charts.summary = sum
    <3>1. charts[Series[1]] = sum
      BY <2>1, SeriesRead
    <3> QED
      BY <3>1 DEF Series
  <2> HIDE DEF rows, txns
  <2>5. Expected = shown
    <3>1. shown = {i \in DOMAIN rows : MonthOf(rows[i].date) \in w.from .. w.to}
      BY <2>2, <2>3, InMonths
    <3>2. Expected = {i \in DOMAIN txns :
                         \E d \in txns[i].date : MonthOf(d) \in w.from .. w.to}
      BY <2>1, Zenon DEF Expected, txns
    <3>3. \A i \in DOMAIN rows :
             MonthOf(rows[i].date) \in w.from .. w.to
               <=> \E d \in txns[i].date : MonthOf(d) \in w.from .. w.to
      BY <2>2
    <3> QED
      BY <2>2, <3>1, <3>2, <3>3
  <2>6. /\ shown \in SUBSET DOMAIN rows
        /\ Credits(rows, w) \in SUBSET shown
        /\ shown \ Credits(rows, w) = Debits(rows, w)
    BY <2>2, WindowParts
  <2>7. sum.income + sum.spending = Amount(rows, shown)
    <3>1. Amount(rows, shown)
            = Amount(rows, Credits(rows, w)) + Amount(rows, shown \ Credits(rows, w))
      BY <2>2, <2>6, AmountSplit
    <3> QED
      BY <2>6, <3>1, Zenon DEF WindowSummary
  <2>8. Amount(rows, shown) = SumFunctionOnSet(Reported, shown)
    <3>0. Loaded.raw.transactions = txns
      BY <2>1, Zenon DEF txns
    <3>1. \A i \in DOMAIN Loaded.raw.transactions :
             Loaded.raw.transactions[i].amount # {}
               => Reported[i] \in Loaded.raw.transactions[i].amount
      BY DEF Reported
    <3>2. \A i \in shown : Amounts(rows)[i] = Reported[i]
      BY <2>2, <2>6, <3>0, <3>1 DEF Amounts
    <3>3. /\ IsFiniteSet(shown)
          /\ Amount(rows, shown) = SumFunctionOnSet(Amounts(rows), shown)
      BY <2>2, <2>6, AmountIsSum
    <3> QED
      BY <3>2, <3>3, SumSame
  <2>9. sum.count = Cardinality(shown)
    BY DEF WindowSummary
  <2> HIDE DEF shown, sum
  <2> QED
    BY <2>4, <2>5, <2>7, <2>8, <2>9, Zenon DEF NothingVanishes
<1>2. ShownInv => NothingVanishes
  BY <1>1 DEF NothingVanishes
<1> QED
  BY ShownCorrect, <1>2, PTL

\* The last month with a transaction.
LEMMA LastMonth ==
    ASSUME NEW rows, Solid(rows), DOMAIN rows # {}
    PROVE  \E m \in Int :
              /\ GetTransactionMonthBounds(rows) = {m}
              /\ \E i \in DOMAIN rows : MonthOf(rows[i].date) = m
              /\ \A i \in DOMAIN rows : MonthOf(rows[i].date) <= m
<1> DEFINE months == MonthsOf(rows, DOMAIN rows)
<1>1. /\ IsFiniteSet(months)
      /\ \A i \in DOMAIN rows : MonthOf(rows[i].date) \in months
  BY MonthsAreFinite
<1>2. months \in SUBSET Int /\ months # {}
  BY MonthIsInt DEF MonthsOf, Solid
<1>3. \A m \in months : \E i \in DOMAIN rows : MonthOf(rows[i].date) = m
  BY DEF MonthsOf
<1>4. GetTransactionMonthBounds(rows) = {m \in months : \A n \in months : n <= m}
  BY DEF GetTransactionMonthBounds
<1> HIDE DEF months
<1>5. PICK m \in months : \A n \in months : n <= m
  BY <1>1, <1>2, FiniteHasLast
<1>6. {k \in months : \A n \in months : n <= k} = {m}
  <2>1. ASSUME NEW k \in months, \A n \in months : n <= k PROVE k = m
    <3>1. k <= m /\ m <= k /\ k \in Int /\ m \in Int
      BY <1>2, <1>5, <2>1
    <3> QED
      BY <3>1
  <2> QED
    BY <1>5, <2>1
<1>7. GetTransactionMonthBounds(rows) = {m} /\ m \in Int
  BY <1>2, <1>4, <1>6
<1> QED
  BY <1>1, <1>3, <1>5, <1>7

\* Unless a hop was redelivered, a request that names no month is answered with
\* the last month that has a transaction, whenever that was.
THEOREM DefaultWindowCorrect == VisSpec => []DefaultWindowShowsData
<1>1. ASSUME ShownInv, Served, target \notin disturbed,
             query.from = {}, query.to = {}
      PROVE  DefaultWindowShowsData
  <2>1. PICK a, w :
            /\ Loaded = a /\ Window = w
            /\ WellFormed(a) /\ GoodWindow(w)
            /\ charts[Series[1]] = Aggregate(Series[1], a.rows, w)
            /\ w = ResolveWindow(query, AnchorOf(a))
    <3>1. PICK a, w : \E last \in 0 .. 6 : DrawnFrom(a, w, last)
      BY <1>1, Response
    <3>2. DrawnFrom(a, w, 6)
      BY <1>1, <3>1 DEF DrawnFrom
    <3>3. charts[Series[1]] = Aggregate(Series[1], a.rows, w)
      BY <3>2 DEF DrawnFrom
    <3> QED
      BY <1>1, <3>2, <3>3 DEF DrawnFrom
  <2> DEFINE rows == a.rows
  <2>2. Solid(rows) /\ (DOMAIN rows = {} => rows = <<>>)
    BY <2>1 DEF WellFormed, Faithful
  <2>3. charts.summary = WindowSummary(rows, w)
    <3>1. charts[Series[1]] = WindowSummary(rows, w)
      BY <2>1, SeriesRead
    <3> QED
      BY <3>1 DEF Series
  <2>4. w.from \in Int /\ w.to \in Int
    BY <1>1, <2>1, WindowIsInt DEF ShownInv, WindowInv
  <2>5. CASE DOMAIN rows = {}
    BY <2>1, <2>2, <2>5 DEF DefaultWindowShowsData
  <2>6. CASE DOMAIN rows # {}
    <3>1. PICK m \in Int :
              /\ GetTransactionMonthBounds(rows) = {m}
              /\ \E i \in DOMAIN rows : MonthOf(rows[i].date) = m
              /\ \A i \in DOMAIN rows : MonthOf(rows[i].date) <= m
      BY <2>2, <2>6, LastMonth
    <3>2. AnchorOf(a) = m
      BY <3>1 DEF AnchorOf, AnchorMonth
    <3>3. MonthsAsked(query) \in 1 .. 12
      BY <2>1 DEF GoodWindow, BadWindow, MaxWindowMonths
    <3>4. w.to = m /\ w.from <= m
      BY <1>1, <2>1, <3>2, <3>3 DEF ResolveWindow
    <3>5. PICK i \in DOMAIN rows : MonthOf(rows[i].date) = m
      BY <3>1
    <3>6. i \in InWindow(rows, w)
      BY <2>2, <2>4, <3>1, <3>4, <3>5, InMonths
    <3>7. Cardinality(InWindow(rows, w)) > 0
      <4>1. IsFiniteSet(InWindow(rows, w))
        BY <2>2, WindowParts
      <4> QED
        BY <3>6, <4>1, FS_CardinalityType, FS_EmptySet
    <3>8. charts.summary.count > 0
      BY <2>3, <3>7 DEF WindowSummary
    <3> QED
      BY <2>1, <3>1, <3>4, <3>8 DEF DefaultWindowShowsData
  <2> QED
    BY <2>5, <2>6
<1>2. ShownInv => DefaultWindowShowsData
  BY <1>1 DEF DefaultWindowShowsData
<1> QED
  BY ShownCorrect, <1>2, PTL
=============================================================================
