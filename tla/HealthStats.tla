------------------------------ MODULE HealthStats ------------------------------
(* The figures of the dashboards (core/services/analytics_service.py) and of  *)
(* the assistant's analytic tools (core/agent/tools.py): failure rates and    *)
(* streaks of the jobs of a product, its anomaly score, the statistics and    *)
(* the break-down of a set of issues.                                         *)
(*                                                                            *)
(* An execution is [job, run, status, at]; an issue is [id, job, product,     *)
(* type, status, run, created, updated, resolved, deadline, text], run being  *)
(* the CML run its alert is about.  Times are whole hours, a period is        *)
(* [from, to).                                                                *)
EXTENDS Integers, Sequences, FiniteSets, FiniteSetsExt, SequencesExt, Functions, Rounding

CONSTANTS
  HoursADay,    \* hours of a day
  ZoneHours,    \* hours the zone of the server is ahead of UTC
  NoText,       \* a name, a group or a text that is not given
  Unset         \* a time, a job or a product that is not set

ASSUME HealthAssumption == HoursADay \in Nat \ {0} /\ ZoneHours \in Int /\ Unset \notin Nat

-----------------------------------------------------------------------------
(* Arithmetic.                                                                *)

AtMost(n, cap) == Min({n, cap})
Latest(times) == IF times = {} THEN Unset ELSE Max(times)

\* The elements of a set in order; before is a strict total order on them.
Ordered(set, before(_, _)) ==
  LET below == [x \in set |-> {y \in set : before(y, x)}]
  IN [n \in 1..Cardinality(set) |-> CHOOSE x \in set : Cardinality(below[x]) = n - 1]

\* A row comes before another in a list sorted by fields, the greater first.
Ahead(row, other, fields) ==
  \E n \in DOMAIN fields : /\ row[fields[n]] > other[fields[n]]
                           /\ \A m \in 1..(n - 1) : row[fields[m]] = other[fields[m]]

\* The first of a set in an order, as many as there is room for.
Leading(set, before(_, _), limit) ==
  IF Cardinality(set) <= limit THEN set
  ELSE CHOOSE first \in kSubset(limit, set) : \A x \in first, y \in set \ first : ~before(y, x)

\* A limit on a query without an order.
AnyOf(set, limit) == Leading(set, LAMBDA x, y : FALSE, limit)

\* A list that is cut, with the number of its rows before the cut.
Cut(rows, before(_, _), limit) ==
  [rows |-> Restrict(rows, Leading(DOMAIN rows, before, limit)), of |-> Cardinality(DOMAIN rows)]

\* The fields of two records in one.
Joined(record, more) ==
  [f \in DOMAIN record \cup DOMAIN more |-> IF f \in DOMAIN record THEN record[f] ELSE more[f]]

Within(time, period) == period.from <= time /\ time < period.to
DayOfHour(time) == time \div HoursADay

-----------------------------------------------------------------------------
(* Failures.                                                                  *)
Open(issue)   == issue.status \in {"open", "in_progress"}
Closed(issue) == issue.status \in {"resolved", "closed", "false_positive"}

\* The runs whose alert somebody dismissed: false_positive_execution_keys.
Dismissed(issues) ==
  {<<i.job, i.run>> : i \in {j \in issues : j.status = "false_positive" /\ j.run # Unset}}

\* execution_is_failure.
Failed(e, dismissed) == <<e.job, e.run>> \notin dismissed /\ e.status \in {"failed", "error", "timeout"}

NewestFirst(execs) == Ordered(execs, LAMBDA a, b : a.at > b.at \/ (a.at = b.at /\ a.run > b.run))

\* The longest run of failures in a sequence of executions.
Longest(fails) ==
  FoldSeq(LAMBDA fail, acc :
            IF fail THEN [now |-> acc.now + 1, best |-> Max({acc.best, acc.now + 1})]
                    ELSE [acc EXCEPT !.now = 0],
          [now |-> 0, best |-> 0], fails).best

Streak(execs, dismissed) == Longest([n \in DOMAIN execs |-> Failed(execs[n], dismissed)])

-----------------------------------------------------------------------------
(* The classification of a product.                                           *)

\* get_anomaly_rules: no rule is below one, no rate is above a hundred.
AnomalyRules(asked) == [r \in DOMAIN asked |-> IF r = "rate" THEN Max({1, AtMost(asked[r], 100)})
                                                   ELSE Max({1, asked[r]})]

Score(rate, streak, open) ==
  Rounded(2 * AtMost(rate, 100) + AtMost(20 * streak, 100) + AtMost(20 * open, 100), 4)

\* The end of the recent failures is a time of UTC that is read as one of the server's zone.
Triggered(figures, period, now, rules) ==
  {r \in {"rate", "streak", "backlog"} :
     CASE r = "rate" -> figures.runs >= rules.runs /\ figures.rate >= rules.rate
       [] r = "streak" -> figures.streak >= rules.streak
       [] r = "backlog" -> /\ figures.open >= rules.open /\ figures.failed # Unset
                           /\ figures.failed >= Min({period.to, now}) - ZoneHours - rules.recent}

Severity(reasons, score) ==
  CASE Cardinality(reasons) >= 2 \/ score >= 70 -> "anomaly"
    [] Cardinality(reasons) < 2 /\ score < 70 /\ (reasons # {} \/ score >= 50) -> "risk"
    [] reasons = {} /\ score < 50 /\ score >= 25 -> "watch"
    [] OTHER -> "healthy"

\* classify_product_health, on the figures it is given.
Classified(figures, period, now, rules) ==
  LET reasons == Triggered(figures, period, now, rules)
      score == Score(figures.rate, figures.streak, figures.open)
  IN Joined(figures, [reasons |-> reasons, score |-> score, severity |-> Severity(reasons, score)])

-----------------------------------------------------------------------------
(* The overview: one row per product, from all executions at once.            *)

\* Mutant: the runs of all jobs are looked through as one sequence.
MixedStreak(jobs, execs, dismissed) == Streak(NewestFirst({e \in execs : e.job \in jobs}), dismissed)

\* The longest streak of any of the jobs.
ProductStreak(jobs, execs, dismissed) ==
  Max({0} \cup {Streak(NewestFirst({e \in execs : e.job = j}), dismissed) : j \in jobs})

OverviewRow(product, jobs, execs, issues, open, period, now, rules) ==
  LET mine == {j \in DOMAIN jobs : jobs[j] = product}
      dismissed == Dismissed({i \in issues : i.job \in DOMAIN jobs})
      counted == {e \in execs : Within(e.at, period)}
      runs(j) == {e \in counted : e.job = j}
      fails(j) == {e \in runs(j) : Failed(e, dismissed)}
      total == SumFunction([j \in mine |-> Cardinality(runs(j))])
      failed == SumFunction([j \in mine |-> Cardinality(fails(j))])
  IN Classified(
       [runs |-> total, fails |-> failed, rate |-> Percent(failed, total),
        streak |-> ProductStreak(mine, counted, dismissed),
        failed |-> Latest({e.at : e \in UNION {fails(j) : j \in mine}}),
        open |-> Cardinality({i \in open : i.product = product})],
       period, now, rules)

\* The drill-down of a product: a row per job, the days of the period, a summary.
JobRow(job, execs, dismissed, open) ==
  LET runs == {e \in execs : e.job = job}
      fails == {e \in runs : Failed(e, dismissed)}
  IN [runs |-> Cardinality(runs), fails |-> Cardinality(fails),
      rate |-> Percent(Cardinality(fails), Cardinality(runs)),
      streak |-> Streak(NewestFirst(runs), dismissed), failed |-> Latest({e.at : e \in fails}),
      open |-> Cardinality({i \in open : i.job = job})]

\* A day of the trend.
DayRow(execs, dismissed, d) ==
  LET day == {e \in execs : DayOfHour(e.at) = d}
      fails == {e \in day : Failed(e, dismissed)}
  IN [runs |-> Cardinality(day), fails |-> Cardinality(fails),
      rate |-> Percent(Cardinality(fails), Cardinality(day))]

Trend(execs, dismissed, period) ==
  [d \in DayOfHour(period.from)..DayOfHour(period.to - 1) |-> DayRow(execs, dismissed, d)]

DrillDown(product, jobs, execs, issues, open, period, now, rules) ==
  LET mine == {j \in DOMAIN jobs : jobs[j] = product}
      dismissed == Dismissed({i \in issues : i.job \in mine})
      counted == {e \in execs : e.job \in mine /\ Within(e.at, period)}
      rows == [j \in mine |-> JobRow(j, counted, dismissed, open)]
      runs == SumFunction([j \in mine |-> rows[j].runs])
      fails == SumFunction([j \in mine |-> rows[j].fails])
  IN [jobs |-> rows, trend |-> Trend(counted, dismissed, period),
      summary |-> Classified(
        [runs |-> runs, fails |-> fails, rate |-> Percent(fails, runs),
         streak |-> Max({0} \cup {rows[j].streak : j \in mine}),
         failed |-> Latest({e.at : e \in {c \in counted : Failed(c, dismissed)}}),
         open |-> Cardinality(open)],
        period, now, rules)]

-----------------------------------------------------------------------------
(* Statistics of a set of issues: compute_issue_stats, the tools' break-down.  *)
AutoClosed == "auto"      \* the text the monitor closes an issue with

CountBy(issues, field) ==
  [v \in {i[field] : i \in issues} |-> Cardinality({i \in issues : i[field] = v})]

IssueStats(issues) ==
  LET timed == {i \in issues : i.resolved # Unset /\ i.deadline # Unset}
      done == {i \in issues : i.resolved # Unset}
      kept == {i \in timed : i.resolved <= i.deadline}
      spent == SumFunction([i \in done |-> i.resolved - i.created])
  IN [total |-> Cardinality(issues), types |-> CountBy(issues, "type"),
      products |-> CountBy({i \in issues : i.product # Unset}, "product"),
      manual |-> Cardinality({i \in issues : Closed(i) /\ i.text \notin {AutoClosed, NoText}}),
      average |-> IF done = {} THEN 0 ELSE Rounded(spent, Cardinality(done)),
      compliance |-> Percent(Cardinality(kept), Cardinality(timed)),
      open |-> Cardinality({i \in issues : i.status = "open"}),
      working |-> Cardinality({i \in issues : i.status = "in_progress"}),
      closed |-> Cardinality({i \in issues : Closed(i)})]

\* issue_stats: the share of false alarms is of all the issues.
FalseAlarms(issues) ==
  Percent(Cardinality({i \in issues : i.status = "false_positive"}), Cardinality(issues))

GroupOf(issue, by) == IF by = "day" THEN DayOfHour(issue.created) ELSE issue[by]

\* issue_breakdown: the days without an issue are filled in, up to now.
Breakdown(issues, by, period, now) ==
  LET counted == {i \in issues : Within(i.created, period)}
      groups == {GroupOf(i, by) : i \in counted}
                \cup IF by = "day" THEN DayOfHour(period.from)..DayOfHour(Min({period.to, now})) ELSE {}
  IN [g \in groups |->
        [count |-> Cardinality({i \in counted : GroupOf(i, by) = g}),
         open |-> Cardinality({i \in counted : GroupOf(i, by) = g /\ Open(i)})]]

\* compare_periods adds the overview's rows up.
Compared(rows) ==
  LET runs == SumFunction([p \in DOMAIN rows |-> rows[p].runs])
      fails == SumFunction([p \in DOMAIN rows |-> rows[p].fails])
  IN [runs |-> runs, fails |-> fails, rate |-> Percent(fails, runs)]
=============================================================================
