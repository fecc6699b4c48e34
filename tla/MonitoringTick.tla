--------------------------- MODULE MonitoringTick ---------------------------
(***************************************************************************)
(* The monitoring controller (core/controller.py) watching one job, its *)
(* model and one application, while people work on the issues it raises. *)
(* *)
(* One tick runs the CML, APP and MMP checkers in that order on one *)
(* database session, commits once, and then hands the issues it created to *)
(* the e-mail dispatcher.  The checkers wait for remote systems, so *)
(* everything else interleaves between them.  What the session has flushed *)
(* is invisible to others, and its row locks hold back their updates. *)
(* *)
(* Assumed of the environment: one process runs a controller *)
(* (server.workers = 1, the default), and nobody presses "Check now" while *)
(* a tick runs. *)
(* The health columns and drift snapshots the checkers also store are left *)
(* out: no check reads them back.  So are the SLA and duty notices and the *)
(* duty report that end a tick: they change no issue. *)
(***************************************************************************)
EXTENDS IssueEngine, Sequences

CONSTANTS Threshold,    \* cml_platform.health_failure_threshold
          Signals,      \* the signals of the model's monitor, as sets of raised flags
          MaxRuns,      \* bound: runs of the job
          MaxModelRuns, \* bound: production runs of the model
          MaxMoves      \* bound: changes outside, requests, and failures

ASSUME MonitoringAssumption ==
  /\ Threshold \in Nat \ {0}
  /\ Signals \subseteq SUBSET {"drift", "approval", "review", "folded", "unreported"}
  /\ MaxRuns \in Nat /\ MaxModelRuns \in Nat \ {0} /\ MaxMoves \in Nat

VARIABLES
  runs,       \* CML: the runs of the job, oldest first, as [status, scheduled, late]
  app,        \* CML: the state of the application
  model,      \* MMP: flags, latest production run, and when it was approved
  clock,      \* approvals so far, as the time created_at is compared with
  issues,     \* the committed issue rows
  executions, \* the committed job_executions rows: run -> status
  counter,    \* AppChecker._counters of the application, capped at Threshold
  downs,      \* history: probes that found it down since one found it up, capped
  due,        \* MmpChecker's interval has elapsed since _last_run_at
  tick,       \* the controller's session and how far it got
  request,    \* a request on an issue, between its read and its commit
  dispatched, \* history: the issues handed to the e-mail dispatcher
  moves       \* moves made so far

world == <<runs, app, model, clock>>
vars  == <<world, issues, executions, counter, downs, due, tick, request, dispatched, moves>>

RunStatus == {"running", "completed", "failed", "stopped"}

Idle   == [phase |-> "idle", session |-> Session, stored |-> [r \in {} |-> ""],
           read |-> [action |-> "none"]]
NoRequest == [issue |-> 0]

Init ==
  /\ runs = <<>> /\ app = "up" /\ clock = 0
  /\ model = [flags |-> {}, run |-> 1, approvedAt |-> 0]
  /\ issues = [i \in {} |-> 0] /\ executions = [r \in {} |-> ""]
  /\ counter = 0 /\ downs = 0 /\ due = TRUE
  /\ tick = Idle /\ request = NoRequest
  /\ dispatched = {} /\ moves = 0

Move == moves < MaxMoves /\ moves' = moves + 1

-----------------------------------------------------------------------------
(***************************************************************************)
(* The monitored systems (outside the repository) *)
(***************************************************************************)

NewRun == /\ Len(runs) < MaxRuns
          /\ \E s \in BOOLEAN :
               runs' = Append(runs, [status |-> "running", scheduled |-> s, late |-> FALSE])
          /\ UNCHANGED <<app, model, clock>>

RunEnds == /\ \E r \in DOMAIN runs, st \in RunStatus \ {"running"} :
                /\ runs[r].status = "running"
                /\ runs' = [runs EXCEPT ![r].status = st, ![r].late = FALSE]
           /\ UNCHANGED <<app, model, clock>>

\* The latest run passes its SLA threshold, running or finished.
RunLate == /\ runs # <<>>
           /\ ~ runs[Len(runs)].late
           /\ runs' = [runs EXCEPT ![Len(runs)].late = TRUE]
           /\ UNCHANGED <<app, model, clock>>

AppFlips == /\ app' = IF app = "up" THEN "down" ELSE "up"
            /\ UNCHANGED <<runs, model, clock>>

FlagsChange == /\ \E f \in Signals \ {model.flags} : model' = [model EXCEPT !.flags = f]
               /\ UNCHANGED <<runs, app, clock>>

NewModelRun == /\ model.run < MaxModelRuns
               /\ model' = [model EXCEPT !.run = @ + 1, !.approvedAt = 0]
               /\ UNCHANGED <<runs, app, clock>>

RunApproved == /\ model.approvedAt = 0
               /\ clock' = clock + 1
               /\ model' = [model EXCEPT !.approvedAt = clock + 1]
               /\ UNCHANGED <<runs, app>>

Outside == /\ Move
           /\ \/ NewRun \/ RunEnds \/ RunLate \/ AppFlips
              \/ FlagsChange \/ NewModelRun \/ RunApproved
           /\ UNCHANGED <<issues, executions, counter, downs, due, tick, request, dispatched>>

-----------------------------------------------------------------------------
(***************************************************************************)
(* The checkers *)
(***************************************************************************)

CreatedIf(cond, rows, s, e) == IF cond THEN Created(rows, s, e, clock) ELSE s

\* CmlChecker._evaluate_run, on the latest run: a failure the schedule asked
\* for is JOB_FAILED; stopped, or late whether finished or not, is JOB_STALE.
Failed(run) == run.status = "failed" /\ run.scheduled
Stale(run)  == run.status = "stopped" \/ (run.status \in {"completed", "running"} /\ run.late)

RunChecked(rows, s, r) ==
  LET failed == CreatedIf(Failed(runs[r]), rows, s, Event("job_failed", r))
  IN CreatedIf(Stale(runs[r]), rows, failed, Event("job_stale", r))

\* Mutant: a run that is recorded already is not looked at again.
UnrecordedChecked(rows, s) ==
  IF Len(runs) \in {0} \cup DOMAIN executions THEN s ELSE RunChecked(rows, s, Len(runs))

JobChecked(rows, s) == IF runs = <<>> THEN s ELSE RunChecked(rows, s, Len(runs))

\* _persist_snapshot: every fetched run that has no row yet is recorded.
NewExecutions == [r \in DOMAIN runs \ DOMAIN executions |-> runs[r].status]

\* What a health probe can say: the application's state, or that it is unknown.
Readings == {app, "unknown"}

\* Mutant: a probe that finds the application up leaves the counter.
CountedForever(h, c) == IF h = "down" /\ c < Threshold THEN c + 1 ELSE c

\* AppChecker.check_app: up resets the counter, unknown leaves it.
Counted(h, c) ==
  CASE h = "up"      -> 0
    [] h = "unknown" -> c
    [] h = "down"    -> IF c < Threshold THEN c + 1 ELSE c

\* downs after a probe
Observed(h) ==
  CASE h = "up" -> 0 [] h = "unknown" -> downs
    [] h = "down" -> IF downs < Threshold THEN downs + 1 ELSE downs

AppChecked(rows, s, h) ==
  CreatedIf(h = "down" /\ Counted(h, counter) >= Threshold, rows, s, Event("app_offline", Unkeyed))

\* MmpInterface.check_drift: a DriftResult with its defaults when the monitor
\* cannot be read: drifted is False, every other signal None.
Flag(f) == IF f \in model.flags THEN "yes"
           ELSE IF "unreported" \in model.flags THEN "none" ELSE "no"

DriftResult == [action     |-> IF "drift" \in model.flags THEN "create_issue" ELSE "close_issue",
                drifted    |-> "drift" \in model.flags,
                approval   |-> Flag("approval"),
                review     |-> Flag("review"),
                folded     |-> {"drift", "folded"} \subseteq model.flags,
                run        |-> model.run,
                approvedAt |-> model.approvedAt]

Inconclusive == [action |-> "inconclusive", drifted |-> FALSE, approval |-> "none",
                 review |-> "none", folded |-> FALSE, run |-> 0, approvedAt |-> 0]

\* A session after one more write; the set has TLC compute the session once.
After(s, write(_)) == CHOOSE t \in {write(u) : u \in {s}} : TRUE

\* _map_drift_result and build_extra_concern_events
ConcernsRaised(rows, s, d) ==
  LET drift    == CreatedIf(d.drifted /\ ~ d.folded, rows, s, Event("mmp_drift", Unkeyed))
      approval == After(drift, LAMBDA t :
                    CreatedIf(d.approval = "yes", rows, t, Event("mmp_run_pending_approval", d.run)))
  IN After(approval, LAMBDA t : CreatedIf(d.review = "yes", rows, t, Event("mmp_pending_review", d.run)))

ConcernType == {"mmp_drift", "mmp_run_pending_approval", "mmp_pending_review"}

\* Signal d reads cleared: a drift also when a pending issue covers it.
Cleared(type, d) ==
  CASE type = "mmp_drift" -> ~ d.drifted \/ d.folded
    [] type = "mmp_run_pending_approval" -> d.approval = "no"
    [] type = "mmp_pending_review" -> d.review = "no"
    [] OTHER -> FALSE

Now == clock + 1

\* build_recovery_events: the issues of a signal that reads cleared, and those
\* of any signal created before the approval, taken to be at time approval.
RecoveredBy(view, d, approval) ==
  UNION {Recovered(view, t, IF Cleared(t, d) THEN Now
                            ELSE IF d.approvedAt > 0 THEN approval ELSE 0) : t \in ConcernType}

RecoveriesClosed(rows, s, d, approval) ==
  LET view == Over(s.writes, rows) IN AutoClosed(view, s, RecoveredBy(view, d, approval))

\* Mutant: the approval closes the issues raised after it too.
ModelCheckedUnscoped(rows, s, d) ==
  RecoveriesClosed(rows, ConcernsRaised(rows, s, d), d, Now)

ModelChecked(rows, s, d) ==
  After(ConcernsRaised(rows, s, d), LAMBDA t : RecoveriesClosed(rows, t, d, d.approvedAt))

-----------------------------------------------------------------------------
(***************************************************************************)
(* The tick *)
(***************************************************************************)

\* CmlChecker.run_cycle; an API error skips the job.
TickJob ==
  /\ tick.phase = "idle"
  /\ \/ /\ tick' = [tick EXCEPT !.phase = "app", !.session = JobChecked(issues, @),
                                !.stored = NewExecutions]
        /\ UNCHANGED moves
     \/ /\ Move
        /\ tick' = [tick EXCEPT !.phase = "app"]
  /\ UNCHANGED <<world, issues, executions, counter, downs, due, request, dispatched>>

\* AppChecker.run_cycle
TickApp ==
  /\ tick.phase = "app"
  /\ \E h \in Readings :
       /\ IF h = "unknown" THEN Move ELSE UNCHANGED moves
       /\ counter' = Counted(h, counter)
       /\ downs' = Observed(h)
       /\ tick' = [tick EXCEPT !.phase = "mmp", !.session = AppChecked(issues, @, h)]
  /\ UNCHANGED <<world, issues, executions, due, request, dispatched>>

\* MmpChecker.run_cycle: skipped when not due; an unreadable monitor still
\* counts as a run of the cycle.
TickModel ==
  /\ tick.phase = "mmp"
  /\ due' = FALSE
  /\ \/ ~ due /\ tick' = [tick EXCEPT !.phase = "commit"] /\ UNCHANGED moves
     \/ \E d \in {DriftResult, Inconclusive} :
          /\ due
          /\ IF d = Inconclusive THEN Move ELSE UNCHANGED moves
          /\ tick' = [tick EXCEPT !.phase = "commit", !.read = d,
                                  !.session = ModelChecked(issues, @, d)]
  /\ UNCHANGED <<world, issues, executions, counter, downs, request, dispatched>>

\* Mutant: created_issues survives the rollback.
KeptFresh(t) == [t EXCEPT !.phase = "dispatch", !.session.writes = Session.writes]

\* The commit failed: nothing the tick flushed stays.
RolledBackTick(t) == [t EXCEPT !.phase = "dispatch", !.session = Session]

TickCommit ==
  /\ tick.phase = "commit"
  /\ \/ /\ issues' = Over(tick.session.writes, issues)
        /\ executions' = Over(tick.stored, executions)
        /\ tick' = [tick EXCEPT !.phase = "dispatch", !.session.writes = Session.writes]
        /\ UNCHANGED moves
     \/ /\ Move
        /\ tick' = RolledBackTick(tick)
        /\ UNCHANGED <<issues, executions>>
  /\ UNCHANGED <<world, counter, downs, due, request, dispatched>>

TickDispatch ==
  /\ tick.phase = "dispatch"
  /\ dispatched' = dispatched \union tick.session.fresh
  /\ tick' = Idle
  /\ UNCHANGED <<world, issues, executions, counter, downs, due, request, moves>>

Tick == TickJob \/ TickApp \/ TickModel \/ TickCommit \/ TickDispatch

\* mmp_check_interval_seconds elapse.
Elapse ==
  /\ ~ due
  /\ due' = TRUE
  /\ UNCHANGED <<world, issues, executions, counter, downs, tick, request, dispatched, moves>>

\* The process is restarted: its session and its memory are gone.
Restart ==
  /\ Move
  /\ tick' = Idle
  /\ counter' = 0
  /\ due' = TRUE
  /\ UNCHANGED <<world, issues, executions, downs, request, dispatched>>

-----------------------------------------------------------------------------
(***************************************************************************)
(* People *)
(***************************************************************************)

\* The status a request leaves behind.  run_action: start, record a step,
\* verify and escalate leave in_progress, return_to_owner open, resolve and
\* false_positive are terminal.  update_issue takes any status.
RunAction   == {"in_progress", "open", "resolved", "false_positive"}
UpdateIssue == Active \union Terminal

\* run_action and update_issue read the issue; run_action refuses a terminal one.
RequestReads(i, status) ==
  /\ Move
  /\ request = NoRequest
  /\ \/ issues[i].status \notin Terminal /\ status \in RunAction
     \/ status \in UpdateIssue
  /\ request' = [issue |-> i, was |-> issues[i].status, status |-> status]
  /\ UNCHANGED <<world, issues, executions, counter, downs, due, tick, dispatched>>

\* They write it back once the tick holds no lock on it: the status if it is
\* not the one that was read, and resolved_at with every terminal status.
RequestWrites ==
  /\ request # NoRequest
  /\ request.issue \notin DOMAIN tick.session.writes
  /\ issues' = [issues EXCEPT
       ![request.issue].status   = IF request.status = request.was THEN @ ELSE request.status,
       ![request.issue].resolved = @ \/ request.status \in Terminal]
  /\ request' = NoRequest
  /\ UNCHANGED <<world, executions, counter, downs, due, tick, dispatched, moves>>

\* The statement timeout ends a request that waits for the tick's lock.
RequestFails ==
  /\ request # NoRequest
  /\ request.issue \in DOMAIN tick.session.writes
  /\ request' = NoRequest
  /\ UNCHANGED <<world, issues, executions, counter, downs, due, tick, dispatched, moves>>

\* check_now, from the jobs' results on: the same checks on fresh probes, but
\* each issue is committed as it is created, signals are used only if they
\* were read, and an approval closes issues of any age.
CheckedNow(jobs, h, d) ==
  LET apps   == AppChecked(Over(jobs.writes, issues), jobs, h)
      raised == ConcernsRaised(Over(apps.writes, issues), apps, d)
  IN IF d.action = "inconclusive" THEN apps ELSE RecoveriesClosed(issues, raised, d, Now)

\* A CML error skips the job.
CheckNow ==
  /\ Move
  /\ tick.phase = "idle"
  /\ \E jobs \in {JobChecked(issues, Session), Session}, h \in Readings,
        d \in {DriftResult, Inconclusive} :
       LET s == CheckedNow(jobs, h, d)
       IN /\ issues' = Over(s.writes, issues)
          /\ dispatched' = dispatched \union (s.fresh \ DOMAIN issues)
          /\ counter' = Counted(h, counter)
          /\ downs' = Observed(h)
  /\ UNCHANGED <<world, executions, due, tick, request>>

People == CheckNow \/ RequestWrites \/ RequestFails
          \/ \E i \in DOMAIN issues : \E st \in UpdateIssue : RequestReads(i, st)

Next == Outside \/ Tick \/ Elapse \/ Restart \/ People

\* The controller's thread loops for ever, waiting cml_platform.check_interval
\* between ticks, and time passes.  Nothing else has to happen.
Spec == Init /\ [][Next]_vars /\ WF_vars(Tick) /\ WF_vars(Elapse)

-----------------------------------------------------------------------------
(***************************************************************************)
(* Properties *)
(***************************************************************************)

ActiveIssues(type) == {i \in DOMAIN issues : issues[i].type = type /\ issues[i].status \in Active}

\* Nothing is reported twice.  A run has one issue of each type, however often
\* a tick or a manual check sees it and whatever people did to its issue.  A
\* signal that has no run to key on has one open issue: a second one can only
\* be there because somebody reopened an issue (it keeps its resolved_at).
NoDuplicates ==
  \A i, j \in DOMAIN issues : i # j /\ issues[i].type = issues[j].type =>
    /\ issues[i].key # Unkeyed => issues[i].key # issues[j].key
    /\ issues[i].type \in {"mmp_drift", "app_offline"}
         => \E k \in {i, j} : issues[k].status \notin Active \/ issues[k].resolved

\* A step that closes issue i on the monitor's word about signal d
Closes(i) == /\ issues[i].status \in Active
             /\ i \in DOMAIN issues'
             /\ issues'[i].status = "closed"

\* The tick closes an issue only if its signal reads cleared, or the latest run
\* was approved after the issue was created: newer concerns stay open.
TickClosesForCause ==
  [][tick.phase = "commit" /\ tick'.phase = "dispatch" =>
       \A i \in DOMAIN issues : Closes(i) =>
         \/ Cleared(issues[i].type, tick.read)
         \/ Cleared(issues'[i].type, tick.read)
         \/ issues[i].created < tick.read.approvedAt]_vars

\* An application is reported offline only after Threshold probes found it down
\* with none finding it up in between - failed commits, manual checks,
\* unreadable probes and restarts included.
PagesOnlyPersistentOutage ==
  [][\A i \in DOMAIN tick'.session.writes \ DOMAIN tick.session.writes :
       i \notin DOMAIN issues /\ tick'.session.writes[i].type = "app_offline" =>
         downs' = Threshold]_vars

\* Nobody is e-mailed about an issue that was rolled back.
DispatchedIssuesExist == dispatched \subseteq DOMAIN issues

LatestFailed(r) == r = Len(runs) /\ Failed(runs[r])

\* A scheduled run that failed is reported, as long as no newer run replaces it
\* as the latest - although an issue of an earlier failure may still be open.
FailureReported ==
  \A r \in 1..MaxRuns :
    LatestFailed(r) ~> (Len(runs) > r \/ HasIssueForKey(issues, "job_failed", r))

Drifts == "drift" \in model.flags /\ "folded" \notin model.flags

\* A model that stays drifted, and is not covered by a pending run's issue, has
\* an open drift issue again and again, whoever closes it; an application that
\* stays down has one too; and a drift that is over, or that a pending issue
\* covers, leaves none open.
LastingConcernsTracked ==
  /\ <>[]Drifts => []<>(ActiveIssues("mmp_drift") # {})
  /\ <>[]~Drifts => []<>(ActiveIssues("mmp_drift") = {})
  /\ <>[](app = "down") => []<>(ActiveIssues("app_offline") # {})

-----------------------------------------------------------------------------
(***************************************************************************)
(* What the sources say and the code does not keep *)
(***************************************************************************)

\* "A None flag means MMP didn't report it, so no recovery is emitted (we can't
\* assert recovery on a signal we never read)" (build_recovery_events).
ClosesOnlyOnReading ==
  [][tick.phase = "commit" /\ tick'.phase = "dispatch" =>
       \A i \in DOMAIN issues : Closes(i) => tick.read.action # "inconclusive"]_vars

\* "leaving any Issue raised AFTER the approval (a genuinely newer concern)
\* untouched" (build_recovery_events), for a manual check that read the model.
CheckNowKeepsNewerConcerns ==
  [][CheckNow => \A i \in DOMAIN issues : Closes(i) =>
       \/ Cleared(issues[i].type, DriftResult)
       \/ issues[i].created < model.approvedAt]_vars

\* "each time CmlChecker polls CML Platform and observes a new (`last_run`,
\* `status`) pair" a row is persisted (JobExecution): the failure of a run that
\* was first seen running gets recorded.
FailedRunsRecorded ==
  \A r \in 1..MaxRuns :
    (r \in DOMAIN runs /\ runs[r].status = "failed") ~>
      (r \in DOMAIN executions /\ executions[r] = "failed")
=============================================================================
