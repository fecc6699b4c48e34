------------------------------ MODULE JobHealth ------------------------------
(* When a scheduled job is healthy: the cron reader and the search for the   *)
(* next fire (core/integrations/staleness.py), the deadline of a run, the    *)
(* verdict of the periodic checker and of the "Check now" button on the      *)
(* latest run, and the advice on a job's service level.                      *)
(*                                                                           *)
(* An instant counts ticks from the zero instant, the year 1 that CML sends  *)
(* for a time it has not filled in; a tick is a fraction of a minute.  The   *)
(* calendar is a parameter: so many minutes to the hour, hours to the day,   *)
(* days to the week, and a year of months.                                   *)
EXTENDS Integers, Sequences, FiniteSets, FiniteSetsExt, SequencesExt, Rounding

CONSTANTS
  Ticks,           \* ticks of a minute: what a timestamp resolves
  HourMinutes, DayHours, WeekDays,
  MonthDays,       \* the lengths of the months of a year
  Epoch,           \* 1970: the first instant a real timestamp can have
  Shift,           \* minutes local time is ahead of UTC
  Horizon,         \* days the search for a fire looks ahead
  Floor,           \* no deadline is shorter than this many minutes
  EarlyWindow,     \* minutes before a fire in which a run still counts for it
  Tolerance,       \* minutes around a fire in which a run counts as scheduled
  Fallback,        \* threshold, in minutes, of a job without a readable cron
  Monday,          \* the instant the natural interval is measured from
  Samples,         \* fires it is measured on
  NoInterval,      \* minutes taken for the interval of a job without one
  AlignCap,        \* most minutes a run may be off the fire it belongs to
  MaxFires         \* most fires that are looked at for one nothing ran for

ASSUME CalendarAssumption ==
  /\ {Ticks, HourMinutes, DayHours, WeekDays} \subseteq Nat \ {0}
  /\ MonthDays \in Seq(Nat \ {0}) /\ MonthDays # <<>>
  /\ {Epoch, Shift, Horizon, Floor, EarlyWindow, Tolerance, Fallback,
      Monday, Samples, NoInterval, AlignCap, MaxFires} \subseteq Nat

Absent == -1       \* a field CML leaves out, or a search without result
Zero   == 0        \* "0001-01-01T00:00:00Z"

-----------------------------------------------------------------------------
(* The calendar, of a minute of local time.                                  *)
DayMinutes == HourMinutes * DayHours
DaysBefore[i \in 0..Len(MonthDays)] == IF i = 0 THEN 0 ELSE DaysBefore[i - 1] + MonthDays[i]
YearDays == DaysBefore[Len(MonthDays)]

Day(m)       == m \div DayMinutes
MinuteOf(m)  == m % HourMinutes
HourOf(m)    == (m \div HourMinutes) % DayHours
WeekdayOf(m) == Day(m) % WeekDays
YearDay(m)   == Day(m) % YearDays
MonthOf(m)   == CHOOSE i \in DOMAIN MonthDays :
                  DaysBefore[i - 1] <= YearDay(m) /\ YearDay(m) < DaysBefore[i]
DayOf(m)     == YearDay(m) - DaysBefore[MonthOf(m) - 1] + 1

HourStart(m)  == m - MinuteOf(m)
DayStart(m)   == Day(m) * DayMinutes
NextMonth(m)  == (Day(m) - YearDay(m) + DaysBefore[MonthOf(m)]) * DayMinutes

-----------------------------------------------------------------------------
(* Cron fields.  A field is a set of parts "A", "A-B", "*", each with a step; *)
(* a part is <<from, to, step>>, Absent standing for "*" and for no upper end.*)
Every == <<Absent, Absent, 1>>
At(a) == <<a, Absent, 1>>

Lower(part, lo) == IF part[1] = Absent THEN lo ELSE part[1]

\* "A/N" runs from A to the end of the field, "A" is A alone.
Upper(part, hi) ==
  CASE part[1] = Absent -> hi
    [] part[1] # Absent /\ part[2] # Absent -> part[2]
    [] OTHER -> IF part[3] > 1 THEN hi ELSE part[1]

Expanded(part, lo, hi) ==
  {v \in Lower(part, lo)..Upper(part, hi) : (v - Lower(part, lo)) % part[3] = 0}

\* The values of a field; the empty set is an error: a bad part, or nothing in range.
Values(field, lo, hi) ==
  IF \E part \in field : part[3] <= 0 \/ Lower(part, lo) > Upper(part, hi)
    THEN {}
    ELSE (UNION {Expanded(part, lo, hi) : part \in field}) \cap (lo..hi)

\* Both ends of the week's numbers are the same day.
Weekdays(field) == {v % WeekDays : v \in Values(field, 0, WeekDays)}

\* A cron is a record of five fields; NoCron is a job without one.
NoCron == [none |-> TRUE]

Schedule(cron) ==
  [mins  |-> Values(cron.min, 0, HourMinutes - 1), hours |-> Values(cron.hour, 0, DayHours - 1),
   doms  |-> Values(cron.dom, 1, Max({MonthDays[i] : i \in DOMAIN MonthDays})),
   mons  |-> Values(cron.mon, 1, Len(MonthDays)), dows |-> Weekdays(cron.dow)]

Readable(cron) == cron # NoCron /\ {} \notin Range(Schedule(cron))

\* A day restricted both ways fires when either matches.
DayMatches(cron, s, m) ==
  LET dom == DayOf(m) \in s.doms
      dow == WeekdayOf(m) \in s.dows
  IN IF cron.dom # {Every} /\ cron.dow # {Every} THEN dom \/ dow ELSE dom /\ dow

Matches(cron, s, m) ==
  /\ MonthOf(m) \in s.mons /\ DayMatches(cron, s, m)
  /\ HourOf(m) \in s.hours /\ MinuteOf(m) \in s.mins

\* Mutant: the minute is kept when the hour changes.
HourKeepsMinute(s, m) ==
  LET later == {h \in s.hours : h > HourOf(m)}
  IN IF later = {} THEN DayStart(m) + DayMinutes + MinuteOf(m)
     ELSE DayStart(m) + Min(later) * HourMinutes + MinuteOf(m)

\* The hour of the day, or the minute of the hour, to skip to.
HourSkip(s, m) ==
  LET later == {h \in s.hours : h > HourOf(m)}
  IN IF later = {} THEN DayStart(m) + DayMinutes ELSE DayStart(m) + Min(later) * HourMinutes

MinuteSkip(s, m) ==
  LET later == {i \in s.mins : i > MinuteOf(m)}
  IN IF later = {} THEN HourStart(m) + HourMinutes ELSE HourStart(m) + Min(later)

\* next_fire_after, in local minutes: skip months, days, hours, minutes.
Found(cron, s, start) ==
  LET search[m \in Nat] ==
        IF m > start + Horizon * DayMinutes THEN Absent
        ELSE IF MonthOf(m) \notin s.mons THEN search[NextMonth(m)]
        ELSE IF ~DayMatches(cron, s, m) THEN search[DayStart(m) + DayMinutes]
        ELSE IF HourOf(m) \notin s.hours THEN search[HourSkip(s, m)]
        ELSE IF MinuteOf(m) \notin s.mins THEN search[MinuteSkip(s, m)]
        ELSE m
  IN search[start]

\* The first whole minute of local time strictly after an instant.
MinuteAfter(t) == (t \div Ticks) + Shift + 1
InstantOf(m)   == IF m = Absent THEN Absent ELSE (m - Shift) * Ticks

NextFire(cron, after) ==
  IF ~Readable(cron) THEN Absent
  ELSE InstantOf(Found(cron, Schedule(cron), MinuteAfter(after)))

\* Half the gap of the two fires after an instant: the cap of both windows.
HalfOf(next, second, window) ==
  IF second = Absent THEN window * Ticks ELSE Min({window * Ticks, (second - next) \div 2})

HalfGap(cron, t, window) ==
  LET next == NextFire(cron, t) IN HalfOf(next, NextFire(cron, next), window)

-----------------------------------------------------------------------------
(* Did a schedule start this run?                                            *)

\* Mutant: the search starts at the edge of the window, which it excludes.
WindowAtEdge(cron, run) == run - HalfGap(cron, run, Tolerance)

\* The window opens a minute early: the search is strictly after.
WindowStart(cron, run) == run - HalfGap(cron, run, Tolerance) - Ticks

\* The year 1 has no earlier day: the subtraction raises, outside the try block.
Overflows(cron, run) ==
  run # Absent /\ NextFire(cron, run) # Absent /\ WindowStart(cron, run) < 0

\* Without a cron or a time the failure counts: the check fails open.
InSchedule(cron, run) ==
  \/ run = Absent
  \/ NextFire(cron, run) = Absent
  \/ NextFire(cron, WindowStart(cron, run)) \in 0..(run + HalfGap(cron, run, Tolerance))

-----------------------------------------------------------------------------
(* The deadline of a run.  Factors count halves: strict 2, normal 3, loose 6. *)
Factor == [strict |-> 2, normal |-> 3, loose |-> 6, unset |-> 3]

\* A run shortly before a fire stands for that fire.
Anchor(cron, last) ==
  LET next == NextFire(cron, last)
  IN IF next \in last..(last + HalfGap(cron, last, EarlyWindow)) THEN next ELSE last

\* In whole minutes: a custom threshold wins, then the cron, then the default.
ThresholdTo(job, anchor, next) ==
  CASE job.custom # Absent -> job.custom
    [] job.custom = Absent /\ next = Absent -> Fallback
    [] OTHER -> Max({Floor, ((next - anchor) * Factor[job.preset]) \div (2 * Ticks)})

Threshold(job, anchor) == ThresholdTo(job, anchor, NextFire(job.cron, anchor))

Deadline(job, last) ==
  LET anchor == Anchor(job.cron, last) IN anchor + Threshold(job, anchor) * Ticks

\* A time that is missing or that nobody can read is stale.
IsStale(job, last, now) == last = Absent \/ now > Deadline(job, last)

-----------------------------------------------------------------------------
(* The verdicts.  A run is [status, created, running, finished].             *)
Normalized == [engine_succeeded |-> "completed", engine_failed |-> "failed",
               engine_timeout |-> "failed", engine_running |-> "running",
               engine_starting |-> "running", engine_stopping |-> "running",
               engine_scheduling |-> "waiting", engine_stopped |-> "stopped",
               engine_skipped |-> "skipped", engine_unknown |-> "unknown"]

\* "a or b or c" of strings: a zero time is a string like any other.
Either(a, b) == IF a # Absent THEN a ELSE b
FinishedAt(run)  == Either(run.finished, Either(run.running, run.created))
StartedAt(run)   == Either(run.running, run.created)
TriggeredAt(run) == Either(run.created, Either(run.running, run.finished))

\* The checker's own reader rejects what is before 1970.
ParseIso(t) == IF t < Epoch THEN Absent ELSE t

Late(job, run, now) ==
  \/ run.status = "completed" /\ IsStale(job, FinishedAt(run), now)
  \/ run.status = "running" /\ StartedAt(run) # Absent /\ IsStale(job, StartedAt(run), now)
  \/ run.status = "stopped"

\* CmlChecker._evaluate_run.
CheckerVerdict(job, raw, now) ==
  LET run == [raw EXCEPT !.status = Normalized[@]]
  IN CASE run.status = "failed" ->
            IF InSchedule(job.cron, ParseIso(TriggeredAt(run))) THEN "job_failed" ELSE "healthy"
       [] run.status # "failed" -> IF Late(job, run, now) THEN "job_stale" ELSE "healthy"

\* product_service.check_now: the trigger time goes to the schedule test as it came.
CheckNowVerdict(job, raw, now) ==
  LET run == [raw EXCEPT !.status = Normalized[@]]
  IN CASE run.status = "failed" ->
            IF Overflows(job.cron, TriggeredAt(run)) THEN "request_fails"
            ELSE IF InSchedule(job.cron, TriggeredAt(run)) THEN "job_failed" ELSE "healthy"
       [] run.status # "failed" -> IF Late(job, run, now) THEN "job_stale" ELSE "healthy"

\* A run is recorded in the history once its best time is a real one.
Recorded(run) == ParseIso(FinishedAt(run)) # Absent

-----------------------------------------------------------------------------
(* The advice on the service level of a job whose alert is a false one.      *)

\* What the advisor takes for the job's present threshold: it counts from now.
PresentThreshold(job, now) ==
  LET next == NextFire(job.cron, now)
      expected == Max({1, (next - now) \div Ticks})
  IN IF next = Absent THEN 0 ELSE CeilDiv(expected * Factor[job.preset], 2)

\* Mutant: the advice is cut to whole minutes like the threshold of a cron.
AdviceCutShort(job, gaps, samples, age, now) ==
  LET observed == (TwiceMedian(gaps) * Factor[job.preset]) \div (4 * Ticks)
      proposed == IF age = Absent THEN observed ELSE Max({observed, CeilDiv(age, Ticks)})
  IN IF Len(gaps) < samples \/ proposed = PresentThreshold(job, now) THEN Absent ELSE proposed

\* The recommended threshold in minutes, at least the age of the alert when one is
\* given; Absent when nothing is recommended.
Advice(job, gaps, samples, age, now) ==
  LET observed == CeilDiv(TwiceMedian(gaps) * Factor[job.preset], 4 * Ticks)
      proposed == IF age = Absent THEN observed ELSE Max({observed, CeilDiv(age, Ticks)})
  IN IF Len(gaps) < samples \/ proposed = PresentThreshold(job, now) THEN Absent ELSE proposed

\* draft_job_sla_tool hands no age over.
DraftedAdvice(job, gaps, samples, now) == Advice(job, gaps, samples, Absent, now)

-----------------------------------------------------------------------------
(* The assistant's account of a schedule (core/agent/tools.py).               *)

\* The next n fires after an instant; the sequence ends with the last there is.
Fires(cron, from, n) ==
  LET next[t \in Nat] == NextFire(cron, t)
      met[i \in 0..n] ==
        IF i = 0 THEN <<>>
        ELSE LET got == met[i - 1]
                 fire == next[IF got = <<>> THEN from ELSE got[Len(got)]]
             IN IF fire = Absent THEN got ELSE Append(got, fire)
  IN met[n]

\* Its numbers in order, of equal ones that on the left first.
Sorted(s) ==
  LET lower == [k \in DOMAIN s |-> {i \in DOMAIN s : s[i] < s[k] \/ (s[i] = s[k] /\ i < k)}]
  IN [n \in DOMAIN s |-> s[CHOOSE k \in DOMAIN s : Cardinality(lower[k]) = n - 1]]

\* The median gap of the fires after a fixed Monday, in whole minutes.
MedianGap[fires \in Seq(Nat)] ==
  LET gaps == [i \in 1..(Len(fires) - 1) |-> fires[i + 1] - fires[i]]
      median[g \in Seq(Nat)] == TwiceMedian(Sorted(g))
  IN IF Len(fires) < 2 THEN Absent ELSE Rounded(median[gaps], 2 * Ticks)

NaturalInterval(cron) == MedianGap[Fires(cron, Monday, Samples)]

\* job_sla_config: the threshold shown for a job, in minutes.
ShownThreshold(job) ==
  LET interval == NaturalInterval(job.cron)
  IN IF interval = Absent \/ interval = 0 THEN Absent ELSE CeilDiv(interval * Factor[job.preset], 2)

\* Without one, or with one of less than a minute, that of a day.
IntervalOr[interval \in Nat \cup {Absent}] == IF interval \in {Absent, 0} THEN NoInterval ELSE interval
Interval(cron) == IntervalOr[NaturalInterval(cron)]

\* The fires met on the way from an instant to another.
Walked(cron, from, end) ==
  LET walk[t \in Nat] ==
        LET next == NextFire(cron, t)
        IN IF next = Absent \/ next > end THEN {} ELSE {next} \cup walk[next]
  IN walk[from]

\* The last fire at or before a run, looked for over two intervals and an hour.
LastOf[fires \in SUBSET Nat] == IF fires = {} THEN Absent ELSE Max(fires)

FireBefore(cron, run) ==
  LastOf[Walked(cron, run - (2 * Interval(cron) + HourMinutes) * Ticks, run)]

Off(run, fire) == IF run >= fire THEN run - fire ELSE fire - run

\* The fire a run is compared with; of two as near, the earlier one.
Nearer(run, before, next) ==
  IF before # Absent /\ (next = Absent \/ Off(run, before) <= Off(run, next))
    THEN before ELSE next

NearestFire(cron, run) == Nearer(run, FireBefore(cron, run), NextFire(cron, run))

\* Four times the tolerance of a schedule: its interval, capped.
AlignTolerance(cron) == Min({Interval(cron), 4 * AlignCap}) * Ticks
Aligned(tolerance, run, fire) == fire # Absent /\ 4 * Off(run, fire) <= tolerance

\* job_schedule_adherence: what a run is called, and the fires nothing ran for.
CalledFor(fire, tolerance, run, band) ==
  CASE ~Aligned(tolerance, run, fire) -> "extra"
    [] Aligned(tolerance, run, fire) /\ Off(run, fire) <= band * Ticks -> "on_time"
    [] OTHER -> IF run > fire THEN "late" ELSE "early"

Called(cron, run, band) == CalledFor(NearestFire(cron, run), AlignTolerance(cron), run, band)

MissedWithin(tolerance, cron, runs) ==
  LET met == Walked(cron, Min(runs) - Ticks, Max(runs))
      guarded == {f \in met : Cardinality({g \in met : g < f}) < MaxFires}
  IN IF Cardinality(runs) < 2 THEN {}
     ELSE {f \in guarded : \A r \in runs : ~Aligned(tolerance, r, f)}

Missed(cron, runs) == MissedWithin(AlignTolerance(cron), cron, runs)
=============================================================================
