--------------------------------- MODULE Pages ---------------------------------
(* What a user gets to read: the pages and exports of the analytics router,   *)
(* the issue lists, the audit log, and the answers of the assistant's tools,  *)
(* each the figures of HealthStats over the part of the world the rules of    *)
(* Visibility leave.  A world has [projects, products, jobs, execs, issues,   *)
(* logs, now].                                                                *)
EXTENDS Visibility

CONSTANTS
  MaxRows,      \* most rows of an answer of the assistant
  MaxJobs,      \* most jobs and issues of a drill-down
  MaxIssues,
  MonthHours,   \* length of a month and of a week, in hours
  WeekHours,
  RecentHours,  \* the time a product's assets are summed up over
  DefaultRules  \* the configured anomaly rules: [runs, rate, streak, open, recent]

ASSUME PagesAssumption ==
  /\ {MaxRows, MaxJobs, MaxIssues, MonthHours, WeekHours, RecentHours} \subseteq Nat \ {0}
  /\ DefaultRules \in [{"runs", "rate", "streak", "open", "recent"} -> Int]

-----------------------------------------------------------------------------
(* Periods: resolve_period, the week a time is in or the n-th month.          *)
WeekOf(time) == LET start == time - (time % WeekHours) IN [from |-> start, to |-> start + WeekHours]
Month(n) == [from |-> n * MonthHours, to |-> (n + 1) * MonthHours]
Recent(w) == [from |-> w.now - RecentHours, to |-> w.now + 1]

-----------------------------------------------------------------------------
(* Sets of issues.  A filter is [project, product, type, status], Unset for    *)
(* what is not asked.                                                          *)
Asked(value, wanted) == wanted = Unset \/ value = wanted

Filtered(w, issues, filter) ==
  {i \in issues : /\ Asked(i.product, filter.product) /\ Asked(i.type, filter.type)
                  /\ Asked(i.status, filter.status) /\ Asked(ProjectOf(w, i), filter.project)}

Everything == [project |-> Unset, product |-> Unset, type |-> Unset, status |-> Unset]

\* _query_scoped_issues.
ScopedIssues(w, u, period, filter) ==
  Filtered(w, {i \in w.issues : Within(i.created, period) /\ AnalyticsIssue(w, u, i)}, filter)

\* _issues_in_period, of the assistant.
ToolIssues(w, u, period, filter) ==
  Filtered(w, {i \in w.issues : Within(i.created, period) /\ ToolIssue(w, u, i)}, filter)

\* What SQL leaves open, ties, is taken by id here and below.
LatestFirst(issues) ==
  Ordered(issues, LAMBDA a, b : a.updated > b.updated \/ (a.updated = b.updated /\ a.id > b.id))
Top(rows, limit) == SubSeq(rows, 1, AtMost(limit, Len(rows)))

OpenOf(w, products) == {i \in w.issues : i.product \in products /\ Open(i)}

-----------------------------------------------------------------------------
(* The dashboards.                                                             *)
ScopedProducts(w, u, project) ==
  {x \in DOMAIN w.products : AnalyticsProduct(w, u, x) /\ Asked(w.products[x], project)}

Row(w, product, open, period, rules) ==
  OverviewRow(product, w.jobs, w.execs, w.issues, open, period, w.now, AnomalyRules(rules))

\* get_products_health_analytics: the rows, and what the head of the page sums up.
HealthPage(w, u, period, project, rules) ==
  LET products == ScopedProducts(w, u, project)
      open == {i \in OpenOf(w, products) : AnalyticsIssue(w, u, i)}
      rows == [x \in products |-> Row(w, x, open, period, rules)]
  IN [rows |-> rows,
      anomalies |-> Cardinality({x \in products : rows[x].reasons # {}}),
      rate |-> IF products = {} THEN 0
               ELSE Rounded(SumFunction([x \in products |-> rows[x].rate]), Cardinality(products)),
      risky |-> SumFunction([x \in {y \in products : rows[y].severity \in {"risk", "anomaly"}} |->
                               rows[x].open])]

Forbidden == [rows |-> "forbidden"]

\* The drill-down as it is shown: all days, and the jobs that fail most.
WorstJobs(rows) == Cut(rows, LAMBDA j, k : Ahead(rows[j], rows[k], <<"rate", "open", "fails">>), MaxJobs)

Drilled(w, product, open, period, rules) ==
  LET whole == DrillDown(product, w.jobs, w.execs, w.issues, open, period, w.now, AnomalyRules(rules))
      jobs == WorstJobs(whole.jobs)
  IN [summary |-> whole.summary, trend |-> whole.trend, jobs |-> jobs.rows, of |-> jobs.of]

\* get_product_health_drilldown, and its export.
DrillPage(w, u, product, period, rules) ==
  LET open == {i \in OpenOf(w, {product}) : AnalyticsIssue(w, u, i)}
  IN IF ~ProductDrills(w, u, product) THEN Forbidden
     ELSE Joined(
            Drilled(w, product, open, period, rules),
            [issues |-> Top(LatestFirst(ScopedIssues(w, u, period, [Everything EXCEPT !.product = product])),
                            MaxIssues)])

\* list_analytics_issues: the words asked for are looked for before the rows are cut.
IssueRows(w, u, period, filter, found, limit) ==
  Top(LatestFirst({i \in ScopedIssues(w, u, period, filter) : i.id \in found}), limit)

\* The statistics of a month or a week: of all, of a product, of a project.
MonthlyPage(w, u, period) == IssueStats(ScopedIssues(w, u, period, Everything))

ProductPage(w, u, product, period) ==
  IF ~ProductDrills(w, u, product) THEN Forbidden
  ELSE IssueStats(ScopedIssues(w, u, period, [Everything EXCEPT !.product = product]))

ProjectPage(w, u, project, period) ==
  IF ~ProjectDrills(u, w.projects[project]) THEN Forbidden
  ELSE IssueStats(ScopedIssues(w, u, period, [Everything EXCEPT !.project = project]))

\* Exports leave the scope of issues out: who may export a project gets all of it.
ProjectExport(w, u, project) ==
  IF ~ProjectDrills(u, w.projects[project]) THEN {}
  ELSE {i \in w.issues : i.product # Unset /\ ProjectOf(w, i) = project}

ProductExport(w, u, product) ==
  IF ~ProductDrills(w, u, product) THEN {} ELSE {i \in w.issues : i.product = product}

WholeExport(w, u) == IF ExportsAll(u) THEN w.issues ELSE {}

-----------------------------------------------------------------------------
(* The assistant's answers.                                                    *)
ToolProducts(w, u, project) ==
  {x \in DOMAIN w.products : ToolProduct(w, u, x) /\ Asked(w.products[x], project)}

ToolOpen(w, u, products) == {i \in OpenOf(w, products) : ToolIssue(w, u, i)}

\* The rows of the overview, all of them and as an answer holds them.
HealthRows(w, u, period, project) ==
  LET products == ToolProducts(w, u, project)
      open == ToolOpen(w, u, products)
  IN [x \in products |-> Row(w, x, open, period, DefaultRules)]

ToolHealth(w, u, period, project) ==
  LET rows == HealthRows(w, u, period, project)
  IN Cut(rows, LAMBDA x, y : Ahead(rows[x], rows[y], <<"score", "rate", "open">>), MaxRows)

ToolDrill(w, u, product, period) ==
  IF ~ToolProduct(w, u, product) THEN Forbidden
  ELSE Drilled(w, product, ToolOpen(w, u, {product}), period, DefaultRules)

ToolStats(w, u, period, filter) ==
  LET issues == ToolIssues(w, u, period, filter)
  IN Joined(IssueStats(issues), [false_alarms |-> FalseAlarms(issues)])

\* The days come in order, other groups by their size.
ToolBreakdown(w, u, by, period, filter) ==
  LET rows == Breakdown(Filtered(w, {i \in w.issues : ToolIssue(w, u, i)}, filter), by, period, w.now)
  IN Cut(rows, LAMBDA g, h : IF by = "day" THEN g < h ELSE Ahead(rows[g], rows[h], <<"count">>), MaxRows)

ToolCompare(w, u, period, project) ==
  Joined(IssueStats(ToolIssues(w, u, period, [Everything EXCEPT !.project = project])),
         Compared(HealthRows(w, u, period, project)))

\* job_execution_history.
ToolHistory(w, u, job, days) ==
  LET dismissed == Dismissed({i \in w.issues : i.job = job})
      runs == {e \in w.execs : e.job = job /\ e.at >= w.now - days * HoursADay}
      fails == {e \in runs : Failed(e, dismissed)}
  IN IF ~ToolJob(w, u, job) THEN Forbidden
     ELSE [runs |-> Cardinality(runs), fails |-> Cardinality(fails),
           rate |-> Percent(Cardinality(fails), Cardinality(runs)),
           streak |-> Streak(NewestFirst(runs), dismissed), failed |-> Latest({e.at : e \in fails}),
           succeeded |-> Latest({e.at : e \in runs \ fails})]

\* product_assets: a row per job of a product, of as many as the database returns first.
ToolAssets(w, u, product) ==
  LET mine == AnyOf({j \in DOMAIN w.jobs : w.jobs[j] = product}, MaxRows)
      dismissed == Dismissed({i \in w.issues : i.job \in mine})
      issues(j) == {i \in w.issues : i.product = product /\ i.job = j /\ ToolIssue(w, u, i)}
      runs(j) == {e \in w.execs : e.job = j /\ Within(e.at, Recent(w))}
  IN IF ~ToolProduct(w, u, product) THEN Forbidden
     ELSE [j \in mine |->
             [open |-> Cardinality({i \in issues(j) : Open(i)}),
              recent |-> Cardinality({i \in issues(j) : i.created >= Recent(w).from}),
              runs |-> Cardinality(runs(j)),
              fails |-> Cardinality({e \in runs(j) : Failed(e, dismissed)})]]

\* list_issues: the newest, or of the open ones with a deadline the most urgent.
ToolList(w, u, filter, days, urgent, limit) ==
  LET seen == {i \in w.issues : ToolIssue(w, u, i) /\ (days = 0 \/ i.created >= w.now - days * HoursADay)}
      kept == {i \in Filtered(w, seen, filter) : urgent => Open(i) /\ i.deadline # Unset}
      rank(i) == IF urgent THEN i.deadline ELSE -i.created
      order == Ordered(kept, LAMBDA a, b : rank(a) < rank(b) \/ (rank(a) = rank(b) /\ a.id < b.id))
  IN Top(order, AtMost(limit, MaxRows))

\* mmp_overview: the open model issues of a product; they are counted after the cut.
ToolModels(w, u, products) ==
  LET open == {i \in OpenOf(w, products \cap ToolProducts(w, u, Unset)) :
                 i.type = "mmp_drift" /\ ToolIssue(w, u, i)}
  IN AtMost(Cardinality(open), MaxRows)

\* search_knowledge: of three times the hits asked for, the first the user may see.
ToolSearch(w, u, hits, limit) ==
  LET top == Top(hits, 3 * limit)
      seen == {n \in DOMAIN top : ToolIssue(w, u, top[n])}
  IN {top[n] : n \in {k \in seen : Cardinality({j \in seen : j <= k}) <= limit}}

\* build_mmp_model_raw_view: the run an alert was raised for, among all runs of
\* the model, or else the latest in production.  A run is [id, production, at].
ModelView(runs, wanted) ==
  LET production == Ordered({r \in runs : r.production},
                            LAMBDA a, b : a.at > b.at \/ (a.at = b.at /\ a.id < b.id))
      latest == IF production = <<>> THEN Unset ELSE production[1]
      found == {r \in runs : r.id = wanted}
  IN [latest |-> latest, found |-> found # {},
      focus |-> IF found = {} THEN latest ELSE CHOOSE r \in found : TRUE]

-----------------------------------------------------------------------------
(* How far the handling of an issue is: classify_handling_state.  The work on  *)
(* an issue is [started, returned, last]: last is the kind of the latest entry.*)
Handling(issue, assigned, work) ==
  CASE issue.status \in {"false_positive", "resolved"} -> issue.status
    [] issue.status = "closed" -> IF issue.text = AutoClosed THEN "closed_auto" ELSE "closed_manual"
    [] issue.status = "open" /\ work.returned -> "returned_to_owner"
    [] issue.status = "open" /\ ~work.returned /\ ~assigned -> "unclaimed"
    [] issue.status = "open" /\ ~work.returned /\ assigned ->
         IF work.started THEN "in_progress" ELSE "claimed_not_started"
    [] OTHER -> IF work.last = "escalation" THEN "escalated_waiting" ELSE "in_progress"

Urgency(issue, now, margin) ==
  CASE ~Open(issue) \/ issue.deadline = Unset -> "none"
    [] Open(issue) /\ issue.deadline # Unset /\ issue.deadline <= now -> "overdue"
    [] OTHER -> IF issue.deadline <= now + margin THEN "at_risk" ELSE "none"
=============================================================================
