---------------------------- MODULE Visualization ---------------------------
(***************************************************************************)
(* The visualization endpoint of internal/http (visualization.go,          *)
(* window.go) beside a pipeline that may still work on the upload.         *)
(*                                                                         *)
(* get reads the upload, its analysis, the last month with a transaction,  *)
(* and then runs six aggregation queries over the analysis' transactions,  *)
(* each on its own: no transaction spans them.  The queries name the       *)
(* analysis by the id the handler has read; replacing an analysis deletes  *)
(* its transactions and inserts others under a new id.                     *)
(*                                                                         *)
(* The pipeline is UploadLifecycle, which LifecycleProofs shows it to      *)
(* refine, with what the rows of an analysis hold; the hops that a         *)
(* redelivery can run after the end of a run are added (Redeliver).        *)
(***************************************************************************)
EXTENDS UploadLifecycle, ModelReply, Charts

CONSTANTS
    Replies,      \* the replies the model may give
    Queries,      \* the query parameters a client may send, see QueryAssumption
    Today,        \* the current day
    MaxAnalyses   \* bound on the analyses stored in one behaviour

ASSUME VisualizationAssumption == Today \in Int /\ MaxAnalyses \in Nat

\* A parameter that was not sent is {}, one that is no number is `malformed`.
ASSUME QueryAssumption ==
    \A q \in Queries :
        /\ q.months \subseteq Int
        /\ q.from \subseteq Int
        /\ q.to \subseteq Int

\* A reply is finite; its dates are days of the calendar, its amounts cents.
ASSUME ReplyAssumption ==
    \A reply \in Replies :
        /\ reply.periodEnd \subseteq Int
        /\ IsFiniteSet(DOMAIN reply.transactions)
        /\ \A i \in DOMAIN reply.transactions :
              LET txn == reply.transactions[i] IN
              /\ \A d \in txn.date : d \in Int /\ IsDay(d) /\ txn.date = {d}
              /\ \A a \in txn.amount : a \in Nat /\ txn.amount = {a}

VARIABLES
    stored,     \* upload -> its analysis row, none or one
    lastId,     \* analyses stored so far, the id of the latest
    disturbed,  \* uploads a hop was redelivered for after their run ended
    at,         \* the handler's next call
    target,     \* the upload the request is about
    query,      \* the request's parameters
    loaded,     \* the analysis row the handler has read, {} before
    window,     \* the resolved window, {} before
    charts,     \* the results of the queries run so far
    answer      \* how the last request was answered

pipelineSide == <<phase, result, stored, lastId, disturbed>>
requestVars == <<at, target, query, loaded, window, charts, answer>>
visVars == <<pipelineSide, requestVars>>

\* The aggregation queries in the order the handler runs them.
Series == <<"summary", "income", "categories", "monthCategories", "split",
            "balance">>

Places == {"idle", "upload", "analysis", "bounds"}
             \cup {Series[i] : i \in DOMAIN Series}

Windows == [from : Int, to : Int]

Outcomes == {"none", "ok", "bad request", "not found", "conflict", "error"}

\* The conventions of db/conventions.go: stored amounts carry no sign, and a
\* direction is one of the two the queries filter on.
Conventional(analysis) ==
    \A i \in DOMAIN analysis.rows :
        /\ analysis.rows[i].amount \in Nat
        /\ analysis.rows[i].direction \in {"credit", "debit"}

VisTypeOK ==
    /\ phase \in [Uploads -> Phase]
    /\ result \in [Uploads -> BOOLEAN]
    /\ \A u \in Uploads :
          /\ result[u] <=> stored[u] # {}
          /\ \A a, b \in stored[u] : a = b
          /\ \A a \in stored[u] : Conventional(a)
    /\ lastId \in 0 .. MaxAnalyses
    /\ disturbed \subseteq Uploads
    /\ at \in Places
    /\ query \in Queries
    /\ window \in SUBSET Windows
    /\ DOMAIN charts \subseteq {Series[i] : i \in DOMAIN Series}
    /\ answer \in Outcomes

VisInit ==
    /\ LifecycleInit
    /\ stored = [u \in Uploads |-> {}]
    /\ lastId = 0
    /\ disturbed = {}
    /\ at = "idle"
    /\ target \in Uploads
    /\ query \in Queries
    /\ loaded = {}
    /\ window = {}
    /\ charts = <<>>
    /\ answer = "none"

----------------------------------------------------------------------------
(* The pipeline's side.                                                    *)

\* ReplaceAnalysis: a new id, and the old row and its transactions are gone.
Replace(u, reply) ==
    /\ lastId < MaxAnalyses
    /\ lastId' = lastId + 1
    /\ stored' = [stored EXCEPT ![u] = {BuildAnalysis(lastId + 1, reply)}]

\* DeleteAnalysisByUpload; the transactions cascade.
Remove(u) ==
    /\ stored' = [stored EXCEPT ![u] = {}]
    /\ UNCHANGED lastId

\* The analyze step stores an analysis or the compensation takes it back.
KeepAnalysis(u) ==
    /\ \/ /\ Keep(u, TRUE)
          /\ \E reply \in Replies : Usable(reply) /\ Replace(u, reply)
       \/ Keep(u, FALSE) /\ Remove(u)
    /\ UNCHANGED <<disturbed, requestVars>>

MoveOn(u) ==
    /\ Submit(u) \/ Begin(u) \/ Finish(u)
    /\ UNCHANGED <<stored, lastId, disturbed, requestVars>>

\* Hops that outlive their lease, or run again after a crash, on an upload in a
\* terminal status: analyze, its compensation, or a write of the status.
Redeliver(u) ==
    /\ phase[u] \in Terminal
    /\ disturbed' = disturbed \cup {u}
    /\ \/ /\ \E reply \in Replies : Usable(reply) /\ Replace(u, reply)
          /\ result' = [result EXCEPT ![u] = TRUE]
          /\ UNCHANGED phase
       \/ /\ Remove(u)
          /\ result' = [result EXCEPT ![u] = FALSE]
          /\ UNCHANGED phase
       \/ /\ \E p \in {"processing", "completed", "failed"} :
                phase' = [phase EXCEPT ![u] = p]
          /\ UNCHANGED <<result, stored, lastId>>
    /\ UNCHANGED requestVars

----------------------------------------------------------------------------
(* The window.                                                             *)

DefaultWindowMonths == 3

MaxWindowMonths == 12

MonthsAsked(q) ==
    IF q.months = {} THEN DefaultWindowMonths ELSE CHOOSE n \in q.months : TRUE

From(q) == CHOOSE m \in q.from : TRUE

To(q) == CHOOSE m \in q.to : TRUE

\* resolveWindow refuses the parameters.
BadWindow(q) ==
    \/ q.malformed
    \/ MonthsAsked(q) \notin 1 .. MaxWindowMonths
    \/ q.from # {} /\ q.to # {} /\ From(q) > To(q)

\* MUTANT of AnchorMonth: the period the model reported comes first.
AnchorPeriod(bounds, analysis) ==
    IF analysis.periodEnd # {}
    THEN MonthOf(CHOOSE d \in analysis.periodEnd : TRUE)
    ELSE IF bounds # {} THEN CHOOSE m \in bounds : TRUE
    ELSE MonthOf(Today)

\* anchorMonth and truncateToMonth.
AnchorMonth(bounds, analysis) ==
    IF bounds # {} THEN CHOOSE m \in bounds : TRUE
    ELSE IF analysis.periodEnd # {}
    THEN MonthOf(CHOOSE d \in analysis.periodEnd : TRUE)
    ELSE MonthOf(Today)

\* MUTANT of ResolveWindow: `months` months before the last one.
ResolveWindowLonger(q, anchor) ==
    LET to == IF q.to # {} THEN To(q) ELSE anchor IN
    [from |-> IF q.from # {} THEN From(q) ELSE to - MonthsAsked(q),
     to   |-> IF q.from # {} /\ q.to = {} /\ From(q) > anchor
              THEN From(q) ELSE to]

\* A missing end is the anchor, which `from` may lie behind; a missing start is
\* counted back from the end.
ResolveWindow(q, anchor) ==
    LET to == IF q.to # {} THEN To(q) ELSE anchor IN
    [from |-> IF q.from # {} THEN From(q) ELSE to - (MonthsAsked(q) - 1),
     to   |-> IF q.from # {} /\ q.to = {} /\ From(q) > anchor
              THEN From(q) ELSE to]

----------------------------------------------------------------------------
(* The handler.                                                            *)

Ask ==
    /\ at = "idle"
    /\ at' = "upload"
    /\ target' \in Uploads
    /\ query' \in Queries
    /\ loaded' = {}
    /\ window' = {}
    /\ charts' = <<>>
    /\ answer' = "none"

Answer(outcome) ==
    /\ answer' = outcome
    /\ at' = "idle"
    /\ UNCHANGED <<target, query, loaded, window, charts>>

Continue(place) ==
    /\ at' = place
    /\ UNCHANGED <<target, query, answer>>

\* MUTANT of LoadUpload: any upload that is there will do.
LoadAnyUpload ==
    /\ at = "upload"
    /\ IF phase[target] = "new" THEN Answer("not found")
       ELSE Continue("analysis") /\ UNCHANGED <<loaded, window, charts>>

LoadUpload ==
    /\ at = "upload"
    /\ IF phase[target] = "new" THEN Answer("not found")
       ELSE IF phase[target] # "completed" THEN Answer("conflict")
       ELSE Continue("analysis") /\ UNCHANGED <<loaded, window, charts>>

LoadAnalysis ==
    /\ at = "analysis"
    /\ IF stored[target] = {} THEN Answer("conflict")
       ELSE /\ Continue("bounds")
            /\ loaded' = stored[target]
            /\ UNCHANGED <<window, charts>>

Loaded == CHOOSE a \in loaded : TRUE

Window == CHOOSE w \in window : TRUE

\* MUTANT of RowsOf: the upload's rows, whatever analysis they belong to.
RowsOfUpload(id) ==
    IF stored[target] = {} THEN <<>>
    ELSE (CHOOSE a \in stored[target] : TRUE).rows

\* The transactions with this analysis_id.
RowsOf(id) ==
    IF \E a \in stored[target] : a.id = id
    THEN (CHOOSE a \in stored[target] : a.id = id).rows ELSE <<>>

ChooseWindow ==
    /\ at = "bounds"
    /\ IF BadWindow(query) THEN Answer("bad request")
       ELSE LET bounds == GetTransactionMonthBounds(RowsOf(Loaded.id)) IN
            /\ window' = {ResolveWindow(query, AnchorMonth(bounds, Loaded))}
            /\ Continue(Series[1])
            /\ UNCHANGED <<loaded, charts>>

Aggregate(series, rows, w) ==
    CASE series = "summary"         -> WindowSummary(rows, w)
      [] series = "income"          -> MonthlyIncomeVsSpending(rows, w)
      [] series = "categories"      -> CategoryBreakdown(rows, w)
      [] series = "monthCategories" -> MonthlyByCategory(rows, w)
      [] series = "split"           -> EssentialVsDiscretionary(rows, w)
      [] series = "balance"         -> BalanceOverTime(rows, w)

\* One of the queries; after the last one the response is written.
RunQuery ==
    \E i \in DOMAIN Series :
        /\ at = Series[i]
        /\ charts' = [s \in DOMAIN charts \cup {at} |->
                         IF s = at THEN Aggregate(at, RowsOf(Loaded.id), Window)
                         ELSE charts[s]]
        /\ IF i = Len(Series) THEN at' = "idle" /\ answer' = "ok"
           ELSE at' = Series[i + 1] /\ UNCHANGED answer
        /\ UNCHANGED <<target, query, loaded, window>>

QueryFails == at # "idle" /\ Answer("error")

Get ==
    /\ Ask \/ LoadUpload \/ LoadAnalysis \/ ChooseWindow \/ RunQuery \/ QueryFails
    /\ UNCHANGED pipelineSide

VisNext ==
    \/ \E u \in Uploads : KeepAnalysis(u) \/ MoveOn(u) \/ Redeliver(u)
    \/ Get

VisSpec == VisInit /\ [][VisNext]_visVars

----------------------------------------------------------------------------
(* Properties.                                                             *)

Served == answer = "ok"

\* The queries run one by one, so an analysis that is replaced or removed
\* between two of them shows.  It shows only as series that end early: what
\* was read came from the analysis the handler loaded, the rest is empty, and
\* no response mixes the transactions of two analyses.
OneAnalysisPerResponse ==
    Served =>
        \E last \in 0 .. Len(Series) : \A i \in DOMAIN Series :
            charts[Series[i]] =
                Aggregate(Series[i], IF i <= last THEN Loaded.rows ELSE <<>>,
                          Window)

\* A chart may be missing its rows only when the analysis went away meanwhile.
Missing(chart) == chart = <<>> /\ target \in disturbed

\* "present must be rebuilt from transactions" (visualization_test.go): the
\* charts of one response are views of the same rows, so they add up to the
\* summary and to each other, and a balance is shown for months of the income
\* chart only.
ChartsAgree ==
    Served =>
        LET sum == charts.summary
            income == charts.income
            categories == charts.categories
            monthly == charts.monthCategories
            split == charts.split
        IN  /\ \/ Missing(income)
               \/ /\ SumFunction([m \in DOMAIN income |-> income[m].spending])
                        = sum.spending
                  /\ SumFunction([m \in DOMAIN income |-> income[m].income])
                        = sum.income
                  /\ Cardinality(DOMAIN income) = sum.months
            /\ \/ Missing(categories)
               \/ SumFunction([c \in DOMAIN categories |->
                                  categories[c].amount]) = sum.spending
            /\ \A c \in DOMAIN categories : categories[c].amount <= sum.spending
            /\ \A m \in DOMAIN income :
                  \/ Missing(monthly)
                  \/ SumFunctionOnSet(monthly, {g \in DOMAIN monthly : g[1] = m})
                        = income[m].spending
            /\ \A m \in DOMAIN split :
                  split[m].essential + split[m].discretionary
                        = income[m].spending
            /\ \/ Missing(split)
               \/ SumFunction([m \in DOMAIN split |-> split[m].discretionary])
                     = Discretionary(sum)
            /\ \A d \in DOMAIN charts.balance : MonthOf(d) \in DOMAIN income

\* The transactions of the stored reply that fall into the window's months.
Expected ==
    LET txns == Loaded.raw.transactions IN
    {i \in DOMAIN txns :
        \E d \in txns[i].date : MonthOf(d) \in Window.from .. Window.to}

\* The amounts as the model reported them, without their sign.
Reported ==
    LET txns == Loaded.raw.transactions IN
    [i \in DOMAIN txns |-> CHOOSE a \in txns[i].amount : TRUE]

\* "a third one would quietly vanish from every chart" (convert.go), "a
\* mis-signed row cannot silently cancel out a correct one" (conventions.go):
\* every transaction the model reported for the window's months, last days
\* included, is counted, and adds its magnitude to income or to spending.
NothingVanishes ==
    Served /\ target \notin disturbed =>
        /\ charts.summary.count = Cardinality(Expected)
        /\ charts.summary.income + charts.summary.spending
              = SumFunctionOnSet(Reported, Expected)

\* The months a response shows something for.
MonthsShown ==
    DOMAIN charts.income
       \cup {group[1] : group \in DOMAIN charts.monthCategories}
       \cup DOMAIN charts.split
       \cup {MonthOf(d) : d \in DOMAIN charts.balance}

\* "`from` and `to` override it outright" (window.go): no chart shows a month
\* outside of the window the response reports, which keeps to the ends the
\* client gave; without a start it shows as many months as were asked for at
\* most, whether those are counted on the calendar or in months with data.
ChartsKeepToRequest ==
    Served =>
        /\ MonthsShown \subseteq Window.from .. Window.to
        /\ query.from # {} => Window.from = From(query)
        /\ query.to # {} => Window.to = To(query)
        /\ query.from = {} => Cardinality(MonthsShown) <= MonthsAsked(query)

\* "counting back from the last month with data": unless the client names a
\* month, an analysis with transactions is never answered with empty charts,
\* and nothing lies behind the window.
DefaultWindowShowsData ==
    Served /\ target \notin disturbed /\ query.from = {} /\ query.to = {} =>
        \/ Loaded.rows = <<>>
        \/ /\ charts.summary.count > 0
           /\ \A i \in DOMAIN Loaded.rows :
                 MonthOf(Loaded.rows[i].date) <= Window.to

\* "A completed upload should always have an analysis" (visualization.go):
\* between its two reads the handler relies on it, and unless a hop was
\* redelivered it may.
CompletedIsReady ==
    at = "analysis" /\ target \notin disturbed => stored[target] # {}

\* "The default window is the last defaultWindowMonths months that carry data
\* ...  Supplying only one of the two anchors the window at that end and derives
\* the other from `months`" (window.go, resolveWindow): a client that names no
\* month is shown as many months with data as it asked for, or all there are;
\* one that names one end gets that many months from there.
WindowAsDocumented ==
    /\ Served /\ target \notin disturbed /\ query.from = {} /\ query.to = {} =>
          \/ DOMAIN charts.income = MonthsOf(Loaded.rows, DOMAIN Loaded.rows)
          \/ Cardinality(DOMAIN charts.income) = MonthsAsked(query)
    /\ \A w \in window :
          (query.from = {}) # (query.to = {})
              => w.to - w.from + 1 = MonthsAsked(query)
=============================================================================
