# RelayOps in TLA+

RelayOps lets product teams hand their scheduled jobs, applications and models
over to an operations group, watches them once they run, and raises issues for
the people on duty.  This directory holds TLA+ specifications of its core, TLC
configurations that check them on small instances, and proofs checked by TLAPS.
Paths below are relative to the repository's `src/`; the lines each definition
translates are in `PROJECT.json` under `map`, the hazards of the code, each with
the properties that watch it, under `hazards`.

## The system

FastAPI handlers (`api/routers`) run synchronously in a pool of threads, each
request with a SQLAlchemy session of its own on PostgreSQL at READ COMMITTED
(`core/models/database.py`, `api/deps/db.py`: commit on return, rollback on an
exception).  No row is locked when it is read and none carries a version.  A
daemon thread, the monitoring controller (`core/controller.py`), ticks every
`cml_platform.check_interval_seconds`.  Gunicorn may start several processes;
each would run a controller of its own (the default is one worker).

| Component | State it keeps | Operations | Talks to | What is hard |
|---|---|---|---|---|
| Handover workflow, project versions (`project_version_service`, `handover_service`) | `projects` pointers and statuses, `project_versions`, handover-review issues | open draft, list, read, submit, approve, reject, roll back | scope editing, issue service | overlapping requests on unlocked rows; reads that write |
| Scope editing and bindings (`product_service`, `job_service`, `app_service`, `project_service`) | products, jobs, applications, their CML bindings and cached ids | create, update, copy, delete, resolve | workflow (lock, lazy draft), CML | caches that must follow a binding, look-ups that fail, stale checks |
| Issue engine (`issue_engine`) | `issues` | duplicate checks, create, transition, auto-close, assign | controller, Check now | its duplicate check reads in another session than it writes |
| Monitoring controller and checkers (`controller`, `checker/`) | failure counters and cadence in memory; `job_executions`; one session per tick | CML, application, model checks; commit; dispatch | CML, model monitor, issue engine, e-mail | remote calls inside a transaction, failed commits, restarts, unreadable systems |
| Staleness and cron (`integrations/staleness.py`, `agent/sla_advisor.py`) | none (pure) | next fire, schedule window, deadline, verdict, advice | checkers, assistant | calendar boundaries, zero timestamps, windows |
| Issue service (`issue_service`, `routers/issues`) | `issues`, `notifications` | claim, reassign, start, escalate, return, resolve | workflow, e-mail | writes after a read that others have overtaken |
| Duty roster (`routers/schedules`) | `schedules` | create, update, delete | issue engine (hand-over) | conflict checks against what is really written |
| Notices (`assign`) | `notifications`, a set of notified issues in memory | overdue, duty started | controller | memory updated before the commit |
| E-mail (`email_dispatch`, `email_connector`) | a pool of threads, a circuit breaker with a pool of workers | send, time out, trip, probe, annotate | issue engine, controller | sends that cannot be interrupted, recipient read late |
| Agent writes and drafts (`agent/`, `routers/agent_actions`) | proposals with tokens; onboarding drafts | propose, confirm, expire; extract, refine, review, split, submit | job, application, project services | claim before write, background tasks, compensation, restarts |
| Draft enrichment (`onboarding_enrich`) | the draft in hand | settle names, backfill, re-home, ask | CML, model monitor | several passes over a draft, platforms that do not answer |
| Directory (`routers/members`, `users`, `auth`, `auth/jwt`) | `users`, `project_members`, `owner_id`, tokens | sign in and out, passwords, roles, members, ownership, repair at start | everything (access) | three places that say who the owner is |
| Access rules and figures (`routers/analytics`, `projects`, `issues`, `analytics_service`, `agent/tools`) | none (read-only) | may see, list, count, chart | database | the same rule and figure in several copies |
| Audit log (`audit_service`, `routers/audit_logs`) | `audit_logs` | append; summaries, timelines | everything | folding what belongs together |
| The rest: version numbers as text, verification reports, retrieval and language models, metrics, frontend, mock services | - | text, reports, presentation | - | little protocol of its own |

What makes the parts correct:

- *Workflow*: a version moves only along the declared transitions; one version is
  in force and one is open; what was reviewed is what goes live; submitted
  versions never change; a version under review can always be decided.
- *Monitoring*: each event is reported once, persistent conditions have an open
  issue again and again, recovered ones have none; nothing is closed that was not
  seen to recover; failed commits and restarts leave no trace.
- *Verdicts*: fires are found, runs are matched to them, no job is late before its
  next run is due.
- *People*: whoever has an issue was told so, once; whoever is on duty knows; a mail
  said to be sent was sent, nobody gets it again without cause, and mailing heals by
  itself.
- *Agent writes*: a proposal is carried out at most once; a draft becomes one project
  or none; a reviewer's word outlives the model's.
- *Directory and access*: one owner, who has the owner's row; no session outlives its
  password; all copies of a rule give one answer, and all pages one figure.

## Modules

    VersionLifecycle            what the workflow promises (abstract)
      ^ implemented by (status <- db.status), proved and checked
    HandoverReview              the ten requests, one at a time      HandoverProofs
      ^ extended by
    HandoverRace                the same handlers as overlapping     (of both)
                                transactions

    IssueEngine                 the issue table and its operations
      ^ extended by
    MonitoringTick              the controller's loop, people, what  MonitoringTickProofs
                                they watch
    IssueDesk                   who has an issue, who is told,       IssueMailProofs
                                warned and mailed
    DutyRoster                  shifts and duty notices              DutyRosterProofs
    MailCircuit                 the mail threads and their breaker   (of both)
    AgentDrafts                 onboarding drafts, write proposals  AgentDraftsProofs
    Directory                   accounts, sessions, members, owner   DirectoryProofs
    Bindings                    projects, jobs, applications and     BindingsProofs
                                what CML calls them

    Rounding <- JobHealth       cron, fires, deadlines, verdicts, advice
    Rounding <- HealthStats <- Visibility <- Pages <- AuditTrail
                                figures; who sees what; pages; timelines
    CmlLookup, Enrichment       names looked up; drafts checked against platforms
    Rules                       asks the pure modules above every    RulesProofs
                                question of an instance
    MC...                       instances for TLC

### HandoverReview

`db` is a record with one field per column: of `project_versions` the functions
`status`, `number`, `snapshot`; of `projects` the pointers `draft` and `approved`
and the two statuses; `scope`, the editable products and everything under them; of
the review issues `reviewOf` and `reviewStatus`.  Ids come from a sequence, so the
next row is the lowest absent id.  One project is enough: no handler reads another
project's rows.  Permission checks are left out (somebody always passes them).

A scope is one of four contents, told apart by what the code can tell: one with a
blocking gap, two complete ones, and one that is complete only because a scenario
is marked "Don't apply".  A version number is its position in the order.

The actions are the requests: `OpenDraft`, `EditScope` (every create, update, copy
and delete of the scope), `ListVersions` and `GetVersion` (reads that bootstrap
and refresh), `Submit`, `ApproveVersion`, `RejectVersion`, `ApproveHandover`,
`RejectHandover`, `Rollback`.  Each is built from operators named after the
service functions (`EnsuredDrafts`, `Submitted`, `Approved`, `Rejected`,
`RolledBack`), from state to state, which `HandoverRace` and the proofs reuse.

### HandoverRace

Each handler is a `Begin` (its checks on the rows as they are) and a `Commit`
(its result computed from what it *read*, its changed columns written over what
is there *now*, as SQLAlchemy's flush does), or an `Abort`.  The unique constraint
on version numbers rolls back a commit that breaks it.  A handler's reads are taken
at one instant; only the lookup of the review that `approve_version` and
`reject_version` make after their first UPDATE is taken at the commit.  `crossed`
remembers that a submission or a decision overlapped another request.

### IssueEngine and MonitoringTick

One job with its model and one application are watched, so an issue's type names
its entity.  A tick is five actions on one session, whose flushed rows others
cannot see and cannot write: `TickJob`, `TickApp`, `TickModel`, `TickCommit` (or a
rollback), `TickDispatch`.  Between them anything may happen: runs start, end and
grow late; the application flips; the monitor's signals change; a production run
appears or is approved; people start, resolve, close and reopen issues
(`RequestReads`, `RequestWrites`: a read, then a write that waits for the tick's
locks, or times out); the process restarts.  `CheckNow` is one step between ticks.

`Duplicate` looks at committed rows only, because the code asks in a session of its
own; the transition and the auto-close look at the tick's own view.  The failure
counter, the cadence of the model check (`due`) and what is collected for e-mail
are memory: they do not roll back with the session.

Left out: assignee, deadline and notices of an issue (`IssueDesk`); health columns,
health history and drift snapshots (no check reads them); a model run without an id.
Assumed: one controller process, and no Check now during a tick.

### IssueDesk

One row per issue with what is known about it: who has it, who has a notice that it
is his (`told`), who took it without one (`took`), who was warned of the deadline,
who was mailed and whose notice says so.  A request of `issue_service` loads the
issue (`Begin`, `Asking`) and writes the columns it changed later; the tick creates and
assigns issues by load; a shift put into the past hands issues over; the overdue
check loads, writes its notices, and commits or fails; a mail is taken by a thread,
which reloads the issue, sends and notes the result in steps of their own.

### DutyRoster

`shifts` is the `schedules` table.  A request checks for conflicts in one step and
writes in a later one, an update only the fields it found different; whatever else
commits in between is in its `during`, and `raced` holds the pairs of rows whose last
edits overlapped so.  A check of the controller computes the notices due in one step
and commits or loses them in another, while shifts change and time passes.

### MailCircuit

Each mail walks the candidate addresses of its recipient.  An attempt asks the
breaker (`Grant`), queues for a worker, runs, and is answered, hangs, or is given
up after the timeout while its worker stays occupied (`late`, `gone` once its pool
was abandoned).  The backend may also raise, before the relay took the mail or after
(`broken`); either way the next address is tried.  `circuit` is the breaker's memory; a
trip abandons the pool and cancels what queues in it.  The relay goes up and down at
will.

### AgentDrafts

A draft has a status, the assets and the project field it proposes, and whether its
reviewer saved it.  Tasks fill it (`PickUp`, then `Finish` or `FailTask`) unless a
restart ends them; a draft saved under its task and refined again has two.  A submit is
several transactions, into a project of its own (with a compensation that may fail too)
or into the project that exists: it reads a draft that is ready in one step
(`BeginSubmit`) and marks it in another (`Mark`), whatever became of it, as nothing in
the code locks or claims the row.  People may save, split, refine and submit while
tasks and other submits are at work.  A proposal waits under a token until it is
confirmed or expires.

Three histories tell what such a crossing may excuse: `rushed`, drafts that a submit
marked when they were no longer ready, or while a task was yet to write them (its
`Writers`); `raced`, assets added to the project while an update that had found them
missing was under way; `overtaken`, tasks whose draft was written since they read it.
Left out: that SQLAlchemy does not write a payload that is equal to the one it loaded,
and that a draft split between the read and the mark of its submit has all its assets
in the project, and the other half's in that half's as well.

### Directory

`account` (role, password as a counter, token version), `token` (sessions issued),
`owner` and `member` (the rows by id).  Every request reads in `Begin` and writes in
`Commit`; `Restart` runs the repair of the owner's row and of the administrator.  The
repair may not happen: seeding logs what goes wrong and goes on (`system_seed.py:782`),
and the server starts without it (`main.py:57`).

### Bindings

Projects, jobs and applications with the name a binding was given, the ids cached
from it, and the error it left; CML answers any look-up with an id or an error.  The
writes are those of create, edit (with the cascade to the assets that inherit), copy,
delete, resolve, rollback, and the start's backfill, and of both service-level columns of
a job.  A project may have a version, the rows of its assets as they were at some time
(`Capture`).  A rollback deletes the project's assets and makes new ones of those rows,
with the CML names and ids of then and under the project's binding of now; nothing is
looked up, the binding error is not in a version, and the service level is in it but is
not read back (`Restored`).  `restored` holds the assets that come from a rollback and
were not resolved since.

### The pure modules and Rules

`JobHealth` reads a cron, searches the next fire the way the code does (month, day,
hour and minute at a time), and decides whether a run is within its schedule, which
fire it is anchored on, when the next is due, and what service level to advise (the
assistant, `DraftedAdvice`, hands over no age of the alert); the lengths of hours, days,
weeks and months are constants.  `HealthStats` computes the figures, `Visibility` every
copy of the access rules, `Pages` what a user gets of them, cut where the code cuts
them, `AuditTrail` the timelines, `CmlLookup` names, check buttons and live status,
`Enrichment` the passes over an onboarding draft.  How alike two names are is not
modelled: where a score decides, or the model picks among the likest, any repository of
the monitor may come out (`MmpPicks`).  `Rules` has one variable, the
question asked; its invariants compare each answer with a definition that does not
follow the code: a search with the set of all minutes that match, one copy of a rule
with the others, a page with the figures, a button with the save.

## Runs

| Run | Question | Instance |
|---|---|---|
| HandoverReview | is the workflow consistent, and does it implement VersionLifecycle? | 4 versions, 3 reviews, numbers to 5 |
| HandoverOverlap | what do overlapping handlers leave intact? | 2 sessions, every pair of handlers, 3 versions, 2 reviews |
| HandoverDoubleSubmit (violated) | is there ever only one open review? | 2 sessions, edit and submit |
| Monitoring | are issues neither duplicated, nor closed or sent without cause, and lasting conditions tracked? | 2 runs, 2 model runs, threshold 2, 3 sets of signals, 4 moves |
| MonitoringUnreadable (violated) | is an issue closed only on a reading? | no job runs, 2 moves |
| MailCircuit | is the probe never lost, nobody mailed again but after a broken conversation, and does mailing heal? | 3 mails, 3 threads, 2 workers, 2 addresses, threshold 2 |
| DutyRoster | do shifts conflict only if their edits overlapped, and is everyone on duty told, once? | 2 members, 2 shifts, 3 instants, 2 editors, 3 requests, 1 controller |
| IssueDesk | do those who have an issue, or should know of one, learn it, truthfully and once? | 2 members, an administrator, an owner, 2 issues, 2 requests at a time, 3 in all |
| AgentDrafts | does a draft become one project or none, a proposal one write, and does nothing in flight hang? | 2 drafts, 2 assets (one refused), 2 tasks, 1 proposal, 2 requests at a time, 4 in all |
| Directory | is there one owner, and no session with an old password? | 3 users, 2 requests at a time, 4 in all, restarts whose repair may fail |
| Bindings | is every asset polled where it means to be? | 2 projects, 2 jobs, 1 application, 2 CML projects, 1 version, 2 requests at a time, 4 in all |
| Rules | do the copies of rules, figures, look-ups and the cron search agree with their definitions? | a world of 3 products, 9 crons at 97 instants, 3 clusters, 24 platforms, 4 lists of links, all questions |

What the passing runs show.  Taken one at a time, no sequence of requests harms the
workflow; overlapping edits, drafts, reads and rollbacks do not either, thanks to the
unique constraint; whatever overlaps, a version under review keeps a review that can
decide it.  Ticks, people,
restarts and failed commits never make a second issue for an event, nor an
application report without the threshold's number of failed probes, nor an e-mail
about an issue that was rolled back; as long as the loop runs, failures, drifts and
outages that last are reported.  The breaker never waits for a probe that is gone and
a mail that hangs is not sent again to the next address; only one whose conversation
broke off after the relay had taken it is, once for each break.  Once the relay is up
again, mails flow.  Two duties conflict only if they were edited at once, and with one
controller each is announced once.  However claims, reassignments, hand-overs and restarts
overlap, whoever has an issue was told so, and a note that says "mailed" is true.
Failures half way through a submit leave no half project that was not reported; what two
submits, or a submit beside a task, may do to a draft they do only if one of them marked
it when it was no longer ready or a task had still to write it; and a draft that is shown
as being worked on is.  Owner, owner's row and memberships agree as long as requests do
not overlap, and a start repairs as a whole what overlapping ones left, or leaves it.
Cached ids come from one answer, a rollback's too, and follow the binding they inherit
unless requests overlapped or a rollback made the asset.

What the violated runs show (quoted under `findings`).  Two overlapping submissions
open two reviews, and the one left over blocks later submissions.  A model monitor
that cannot be read closes the open drift issue, because `drifted` defaults to False.

### Where the sources say one thing and the code does another

Besides the two runs above, TLC refutes these; each is stated in its module under
"What the sources say and the code does not keep" or next to the properties, and can
be checked by naming it in the configuration of its module.

| Property | The source says | What the counterexample shows |
|---|---|---|
| HandoverReview.RollbackRestoresScope | versions are "rolled back as a unit" (`project_version_service.py:6`) | the restored scenarios lose their "Don't apply" mark (`:417`) |
| HandoverRace.TransitionsLegal | the transitions of a version (`constants.py:129`) | an approval and a rejection that overlap both succeed (`project_version_service.py:580`) |
| MonitoringTick.CheckNowKeepsNewerConcerns | an approval leaves newer concerns untouched (`mmp_checker.py:530`) | Check now closes them (`product_service.py:722`) |
| MonitoringTick.FailedRunsRecorded | each new pair of run and status is stored (`job_entities.py:127`) | a run first seen running stays running (`cml_checker.py:294`) |
| MailCircuit.OpenUntilAnswer | open "for cooldown_seconds" (`email_connector.py:47`) | an attempt begun before the trip fails promptly and closes the breaker (`:319`) |
| MailCircuit.DeliveredOnce | each address is tried in turn, up to "the first one the transport accepts" (`email_dispatch.py:154`) | the backend raises after the relay took the mail, which counts as a refusal (`email_connector.py:319`), and the next address gets it as well (`email_dispatch.py:222`) |
| DutyRoster.RosterConsistent | "This user already has an overlapping duty" (`schedules.py:295`), "A Primary duty already exists in this time range" (`:280`) | two requests that overlap each pass their check |
| IssueDesk.RememberedAreWarned | overdue issues are notified "once per issue" (`assign.py:116`) | a failed commit leaves the issue remembered and nobody warned (`:192`) |
| AgentDrafts.DocumentNeverRepoints | a document fills blanks only (`project_update.py:531`) | what a person sets after the draft was made is overwritten when it is submitted (`:970`) |
| Directory.AdminCanSignIn | demoting the last administrator would lock the platform out (`users.py:111`) | an account without a password counts as one (`:139`) |
| Bindings.RebindingReachesInheritors | a changed binding refreshes every inheriting asset (`project_service.py:123`) | one bound by a start does not (`cml_project_binding_backfill.py:86`) |
| Bindings.LevelsExclusive | preset and custom level exclude each other (`job_service.py:303`) | two edits of one job set one each (`:311`); with all of `Levels` |
| Rules.ShownIsApplied | thresholds shown are derived as the check does (`agent/tools.py:919`) | a custom threshold, which the check obeys, is not looked at |
| Rules.AdviceSilences | the advice is "floored at alert age" (`sla_advisor.py:136`) | the one caller hands over no age (`write_tools.py:490`), so an alert older than the advice stays one |
| Rules.ConsecutiveFiresKept | consecutive fires are not confused (`staleness.py:477`) | a run that starts at a fire may be anchored on the next |
| Rules.VerdictsAgree | Check now mirrors the checker (`product_service.py:449`) | they differ on runs without usable times |
| Rules.MissingIsAsked | the not-found question stands (`onboarding_enrich.py:1091`) | after a re-homing it may be dropped |
| Rules.TornStaysAsked | several candidates: a clarification (`onboarding_enrich.py:1036`) | a second pass, which knows no documented projects, settles it (`draft_service.py:72`) |
| Rules.MovedForCause | moved if the bound project does not contain it (`onboarding_enrich.py:1031`) | moved as well when the bound one did not answer |
| Rules.SpellingIsForgiven | a documented name binds "instead of being rejected over a single hyphen" (`onboarding_enrich.py:509`) | a link that spells the bound project otherwise is fetched in its place, finds nothing, and assets the project has are moved away (`:1052`) |
| Rules.NumbersAreNotGuessed | a number is resolved by id only (`onboarding_enrich.py:277`) | names that stand beside it are used |
| Rules.UnansweredIsNotOk | a check that was not answered is no success | the button reports ok without CML (`jobs.py:177`) |

### Bounds

Every bound is a constant: `MaxVersions`, `MaxReviews`, `MaxNumber`; `MaxRuns`,
`MaxModelRuns`, `MaxMoves` (changes outside, requests, and failures together);
`MaxSteps`, `MaxEdits`, `MaxCalls` (requests in a behaviour); of `Bindings` `MaxVersions`
(projects with a version at a time); `Horizon` (instants).  Of `JobHealth`
`Horizon`, `Samples` and `MaxFires` are the code's own limits.  The actions
outside the bounds are disabled, never truncated.

- Workflow: four versions allow an approved version, its predecessor, a rejected one
  and an open one together; three reviews every order of two decisions and one more.
  The proofs show that the bounds do not matter.  In the race two sessions are enough
  for every pair of handlers; what three do together is not checked.
- Monitoring: a move is spent on everything except the fault-free steps of the tick,
  requests' commits and time, so four of them are, for example, two runs, a failed
  commit and a restart; the threshold is 2 so that a count can be lost half way.
  `MixedSignals` holds no signal, drift with a pending review, and a drift that a
  pending approval covers; a pending review alone, and a signal that is not reported
  (which the unreadable monitor yields anyway), are left to other values of `Signals`.
- Mail: two workers and three mails make one hang while one queues and one probes; two
  addresses make a second attempt; `SelfHeals` is about the assumption `Outlasts`.
- Requests: two at a time are every pair of operations; four in all (three on the desk,
  where shifts and two issues count too) let a third and a fourth meet what a pair left
  behind.  Most counterexamples above need two or three.
- Bindings: one project at a time has a version, its first, and never one without
  assets, since a rollback to that only deletes.  `Levels` is the custom level alone: the
  columns of the service level do not touch the binding, and one that changes is enough
  to have an edit write part of a row.
- Rules: the calendar is shortened (two ticks to the minute, four minutes to the hour,
  three hours to the day, three days to the week, months of three and four days) so
  that every boundary, and every pair of boundaries, occurs within the instants asked
  about; the figures are asked in a world where each filter keeps some rows and drops
  some, and `MaxRows`, `MaxJobs` and `MaxIssues` are so small that lists are cut.  The
  server is two hours ahead of UTC (`ZoneHours`), which is what `Triggered` is off by.

Symmetry is used only in runs without liveness (HandoverOverlap, AgentDrafts,
Directory, Bindings).
Deadlock is checked where the system cannot stop (HandoverReview, HandoverOverlap,
Monitoring, MailCircuit); elsewhere the bound on requests ends a behaviour.

### Fairness

- `MonitoringTick`: `WF(Tick)`, the daemon thread loops until the process stops,
  catches every exception and waits a fixed interval; `WF(Elapse)`, time passes.
  Restarts, failed commits and unreadable systems are bounded by `MaxMoves`: nothing
  is reported by a loop that never succeeds.
- `MailCircuit`: `WF` of the cooldown (a clock) and of each thread, which waits with a
  timeout wherever it waits.  The relay and the arrival of mails have none; `SelfHeals`
  assumes in its premise what it needs of them.  `Outlasts` is the configured order of
  two durations (cooldown 60 s, send timeout 10 s).
- `DutyRoster`: `WF(Check)`, the tick; `SF(CommitCheck)`, a commit that is tried again
  and again does not always fail.
- `IssueDesk`: `WF(CheckOverdue)`, the tick.
- `HandoverRace`, `AgentDrafts`, `Directory`, `Bindings`, `Rules` state none and have no liveness
  property: no request is ever bound to come.  Of people nothing is assumed anywhere.

What else is assumed, and where: one controller process (MonitoringTick, DutyRoster);
no Check now during a tick (MonitoringTick); signing in makes a platform owner an administrator (Visibility); names on a platform differ in
more than case and separators (Enrichment); CML answers all of a form's questions or
none (CmlLookup).

## Proofs

TLC checks an instance; these theorems hold for all values of the constants.  None
needs an assumption beyond those the modules name, except where one is written in the
theorem itself.

| Module | Theorems | Invariant |
|---|---|---|
| HandoverProofs | every property of the run HandoverReview, the refinement of VersionLifecycle included, the type invariant and the single parts; every property of the run HandoverOverlap: `PendingStaysDecidable`, `UncrossedHold` (any number of sessions) | `IInv == Consistent(db)`; `RaceInv`, `UncrossedInv` |
| MonitoringTickProofs | every safety property of the run Monitoring: `NothingReportedTwice`, `DispatchedExist`, `PagesPersistentOutage`, `TickClosesOnlyForCause` | `IInv` (`Sound`, `TickInv`, `CountInv`) |
| IssueMailProofs | `AssigneesTold`, `SaidMailed` (any number of people, issues, requests); `MailRepeatsAreBroken` (any durations), `ProbesAccounted` (if the cooldown outlasts the timeout) | `DeskInv`; `DeliveryInv`, `ProbeInv` |
| DirectoryProofs | every property of the run Directory: `SessionsAreCurrent`, `OneOwnerRow`, `StartsRepair` | `MembersInv` (`SessionInv`, `TypeInv`, `RoomInv`, `AloneInv`) |
| BindingsProofs | every property of the run Bindings: `PolledAsMeant`, `PairsAreWhole` | `BindingsInv` (`RowsInv`, `VersionsInv`, `RequestsInv`, `FollowInv`, `SettledInv`) |
| AgentDraftsProofs | every property of the run AgentDrafts: `EveryProjectAccounted`, `NothingIsTwice`, `ReviewedIsKept`, `InFlightHasWork`; `ProposalsWrittenOnce` and the types by themselves (any number of drafts, tasks and requests, whatever overlaps) | `TypeInv`, `TokenInv`, `TargetInv`, `AccountInv`, `FillInv`, `WorkInv` |
| DutyRosterProofs | `ClashesRaced` (any number of editors); `NobodyToldTwice`, the safety half of `AnnouncedExactlyOnce` (one controller) | `RosterInv`; `NoticeInv` |
| RulesProofs | `SearchesAreExact`, `StalenessIsFair`, `ScheduledCount`, `RunsAreMatched`, `OneRule`, `FiguresAreOne`, `TimelinesKeep`, `RulesAgree`, `FormsAreRight`, `DraftsAreGrounded` (any calendar, cron, world, period, log, form, draft) | `Asking` |

*HandoverReview.*  The properties are not inductive alone:

- `Inserted`: ids and numbers are handed out in order, and the open version is the
  last row.  Without it a renumbered draft might overtake a later version, and
  `NumbersIncrease` would not survive `AssignableNumbers`.
- `Pointers` (`OneVersionInForce`, `OneOpenVersion`): needed by every other part,
  since the handlers go by the pointers where the properties speak of statuses.
- `Reviews`: with `Pointers`, the review that is decided is the only open one.
- `Scopes`: the frozen scope while under review, the approved snapshot when no draft
  is open, and completeness.  Approval needs the first to establish the second.
- `Numbers`, `Summary`, and the types.

`Consistent` is a predicate of a state, not of the variable: a handler such as
`Submit` passes through states (the draft ensured, then submitted, then the review
opened) and one lemma carries it across each (`NewDraftConsistent`, `EnsuredDraft`,
`SubmitConsistent`, `ApproveConsistent`, ...).  `StepConsistent` assembles them, one
step per action; `StepEffects` says which rows a step can touch, from which
`SubmittedImmutable` and `ImplementsLifecycle` follow.  `NumbersIncrease`, `TypeOK` and
the single parts are proved although no run names them.

*HandoverRace.*  `PendingHasOpenReview` holds whatever overlaps, because a review never
changes hands: what a transaction has read of the reviews is `Older` than the table, so
a late decision closes reviews of the version it decides only (`DecideKeeps`), and a
late submission finds its row unused (`SubmitKeeps`).  The rest needs `crossed` false.
Then a submission or decision runs alone on the rows it read, hence as its action of
HandoverReview (`UndisturbedOutcome`), and its invariant `Consistent` carries over.  The
other handlers can only find that the rows have `MovedOn`: work on the open draft, or a
first draft opened.  Two that open one on the same rows pick the same number, and the
unique constraint stops the second (`SecondDraftRefused`): without it `Pointers` would
break.

*MailCircuit.*  (Its specification is `MailSpec`, so that one module can hold the proofs
of both.)  `RepeatsAreBroken` needs to know why a second attempt delivers nothing that a
first one did: a mail that may still be delivered by a rest of an attempt (`late`), or
that is not done and has no acceptance to report, was delivered by broken conversations
only (`Owed`).
`ProbeAccounted` needs in addition where a probe can be: never among abandoned
attempts, and only while the breaker is open and has cooled down; that a timeout comes
before the next cooldown ends is what `Outlasts` gives.

*MonitoringTick.*  What a tick has flushed is checked against rows that others go on
changing, so the invariant is about the table it would leave if it committed now:
`Sound(Over(tick.session.writes, issues))`.  Four facts carry it.

- A duplicate is looked for among the committed rows only, so a checker may not raise
  what an earlier one of the same tick flushed: the session's types are those of the
  checkers it has passed (`Held` with `JobTypes`, `AppTypes`, all), and each create
  is of a type it has not written (`CreatedGrown`).
- An issue that is not active has its `resolved_at`, so reopening one cannot make two
  that were never resolved (`Row`, `Apart`).
- A request writes only rows the tick has not, so it changes rows under the session,
  never its writes (`HeldLater`).
- What the session closes has its cause in the reading the tick keeps (`ForCause`),
  and the counter of failures never exceeds the failures seen (`CountInv`).

check_now is the same checkers, each over what the last one committed: a session over
what another already shows is one over the table below (`Rebased`, `Returned`).

*Directory.*  `SessionsCurrent` follows once every token is no newer than its account,
and one of the account's version was obtained with the account's password; versions and
passwords only grow (`Grows`), and what a request in flight has read can only be older,
which keeps the commit of an overtaken one from bringing an old password back.
`RolesKept` needs to know what a request in flight will write:
a row with the id it took when it began (`Typed`), so `RoomInv` counts the ids left,
and, as long as nothing overlapped, that it is the only one and that what it checked
still holds when it commits (`AloneInv`, `Holds`): another administrator, a row that is
not the owner's, the owner and the successor each with their first row.  The repair of
a start is a function of the rows alone (`RepairRestores`), so that `StartRepairsOrKeeps`
needs no more than a free id (`RoomInv`); a start without it keeps the rows and drops the
requests.  The
proof showed a fault of the model: the next id was taken from `Max` of a table that the
removals may have emptied.

*Bindings.*  What an asset means is written in its own row, what it is polled by in its
cached pair, and what it inherits in another row, its project's.  `RequestsInv` says of
every request which rows it read and that they are still there; while it is alone, that
they are unchanged (`Current`); when it is not, that its project is `disturbed`.  So
`Follows` needs to hold only of assets whose home is not disturbed, and what a request
writes to them is computed from the row it shares with them (`ReboundFits`,
`ResolvedFits`); `Settled` is about one row and holds until two requests overlap.  What a
rollback writes comes from no row that is there: `VersionsInv` says that the rows of a
version were its project's, with their pairs whole, and `RollbackKeeps` that making new
assets of them keeps the pairs, while both `Follows` and the error that is lost are what
`restored` excuses.

*IssueDesk.*  `AssigneeTold` is about live issues, but an ended one can be reopened: the
invariant says it of every row (`Known`).  A request writes its assignee only if it
changes it, so what it read does not matter as long as it tells whom it brings in
(`Telling`), and a row it read does not vanish.  `SaidIsMailed` follows from what a step
can do to the mails of a row (`StepNotes`).

*AgentDrafts.*  No theorem assumes that people wait.  `AccountInv` speaks of drafts that
were not rushed: it ties the stage of a submit to the status of its draft and to the
project it made (`Phase`), allows one marked submit to a draft, and no task that will
still write a submitted one.  A submit that has only read is tied to nothing; when it
marks, either the draft is still ready and without `Writers`, so that it has no project
yet, or it is rushed from then on.  `TargetInv`: what `Compare` found missing still is,
or was added under it and so is `raced`.  `FillInv`: a task that was not `overtaken` has
what the row says, and an extraction that was not works on a row nobody reviewed.
`WorkInv` is why nothing in flight hangs: only an extraction ends `extracting` whatever
the row says, any task of a draft ends `refining`, and a draft is `submitted` only under
its submit.  `TokenInv`: a consumed token has one request, whoever else holds it.

*DutyRoster.*  What a request checked need not be what is there when it commits, but what
was written since is in its `during` (`Valid`): its row's conflicts are among those.  So a
row that is written clashes with a raced one or none, and one written by an update that
merged its fields over a newer row (`Merged`) is raced itself.  With one controller, what
a check is about to announce has still not been announced: editors write no notices, so
the roster may change meanwhile.

*Rules.*  The module only asks, so the invariant is `Asking`: the question is one that
may be asked.  The rest are lemmas about the pure operators.

- *The search* is a recursive function over the minutes.  Two functions that obey its
  equation agree, since at the last minute where they differ each has gone on to a later
  one; the function that gives the least matching minute within the horizon does obey
  it, since a skip passes no match (`SkipLosesNothing`): within a month, a day or an hour
  that does not match no minute matches.  That rests on the calendar's divisions
  (`Division`, `SameBlock`, `MonthsFollow`), whatever its lengths.
- *Staleness.*  The anchor, the threshold and the deadline are arithmetic on two fires;
  factors are at least one and a threshold is cut to whole minutes (`ThresholdSpans`).
  An advice is at least the median of the gaps it was taken from (`AdviceSpans`), and being
  a custom level it is the threshold whatever the cron becomes (`AdviceKeeps`).
- *Scheduled runs.*  The theorem has two hypotheses: the tolerance fits twice in the
  horizon, and no instant is within the first minutes of time.  Earlier, the
  window begins before the calendar does, and the code raises (`Overflows`).
- *The account of a schedule.*  What a walk over fires collects is the least set that
  does not stop where the walk goes on (`Met`, `WalkedIsMet`; the two agree by the same
  argument as the search).  Hence it holds fires only, and every fire no further from its
  start than the horizon, or every one if the cron always has a next fire
  (`WalkReaches`): of those before a run the last is the nearest.  The theorem assumes
  of every cron that it has a next fire always or that its look-back of two intervals
  and an hour fits in the horizon, and that no run is so early that the look-back starts
  before time (`Reachable`).  In the code the horizon is four years, so that every cron
  that fires once in two years or more often is covered.  The interval is only known to
  be a number (`IntervalIsNat`): whatever it is, the tolerance does not exceed it.
- *Lists and pages.*  `Ordered` takes by rank; in a finite set under a strict total
  order every rank has one element (`RanksAreFull`), so a list holds just the elements
  of its set, each once and in order, and one that is cut holds some of them.  With it
  `OneReading` comes down to the rules nesting (`RulesNest`, `ExportsNest`).
- *Figures.*  A sum over a set is an iteration that takes its elements one by one in an
  order nobody says: two that differed would differ on a smallest set, so whatever adds
  up so is the sum (`SumTakes`), and the parts of a finite set add up to it
  (`SumOfParts`), once every run is shown to fall on a day of the period and every issue
  into a group; an answer that is cut says how many rows there were (`Cut`), and one that
  says no more than its limit has them all (`CutAnswers`).  Two pages agree although they look dismissals up among different
  issues, because both know those of the runs they count (`SameDismissals`), and two
  worlds agree because runs that correspond come in the same order (`SameOrder`): hence
  the same streaks, counts and times (`MeantStreak`, `MeantCounts`).
- *Timelines.*  Folding is a map from the places of the full timeline to those of the
  shown one, on which every life-cycle entry keeps its place and a note may share that
  of the first of its batch (`MergeKeeps`).
- *Forms.*  What a form finds, what a save binds and what a card shows are computed from
  the same answers of CML along different paths; the cases are few and each is written
  out.
- *Drafts.*  An asset goes through settling, filling and moving, and each keeps its
  kind and sub-domain, and its name but for a spelling; the five parts of
  `DraftGrounded` follow an asset through them.  What holds a saved draft still is that
  a name that was settled is settled as itself (one match stays one match), and that a
  second pass knows the projects the first one left in the draft, hence the one the
  asset is in.  The first attempt failed on `MovesGrounded`: of two spellings of a
  project the first in the document is fetched, so that a misspelt link hides the
  project it means.  The property says so now, TLC has a list of links with such a
  name, and `SpellingIsForgiven` above states what it had said.

What they assume of the constants are `RulesAssumption` (who is asked about is an
account, times are numbers), `FormsAssumption` (what CML lists has an id),
`WorldsAssumption` (issues and log entries are rows with ids of their own) and
`FiguresAssumption` (a run of a job is recorded once, the checker's look-up before it
records one; an issue is in one of its five states; times are numbers), and
`DraftsAssumption` (a draft, a link and a project of CML have their fields; nothing CML
lists is without a name; one project of the monitor to a number, and one of those it
lists to a name).

Only model-checked: liveness, which is out of the prover's reach (`FailureReported`,
`LastingConcernsTracked`, `SelfHeals`, the liveness halves of
`WarnedExactlyOnce` and `AnnouncedExactlyOnce`); the safety half of `WarnedExactlyOnce`,
that nobody is warned twice, comes down to a look-up and has no theorem.  No theorem
covers a property listed as refuted.

## Not modelled

- *Version numbers as text* (`version_number_utils`): the workflow uses only their
  order.  *Legacy product versions*: superseded.
- *Verification reports* (`routers/verification.py`, `apps.py`): one sequential request
  that writes what its probes say.
- *Assistant, retrieval, extraction, language models*: text in, text out.  Where their
  results change state (drafts, proposals) they may answer anything.
- *API keys, metrics, configuration parsing, exports' layout, the duty report's text*:
  single-row operations, counters and wording.
- *Frontend, SDK, mock services, deployment*: presentation, test doubles, packaging.
- Of modelled components: names, descriptions, templates and other plain columns;
  health columns and history; notification texts; audit writing; HTTP, paging and
  caching of the interfaces; password hashing.

Known to be hard, and left to review: two controller processes, or Check now during a
tick; database errors inside a checker; a restart between commit and dispatch, which
loses mails that are best effort; runs replaced before they are polled.  They are
listed among the hazards without a property, with the reason.

## Plan

1. `TwoCommitters`: a tick and Check now, or two controllers, on `IssueEngine`, once it
   is decided what should hold of them.

## Running

    tlc -workers 2 -config Monitoring.cfg MCMonitoringTick.tla
    tlapm RulesProofs.tla

A run's module is the one `PROJECT.json` names for it.  Monitoring,
HandoverOverlap, IssueDesk, DutyRoster, Directory, AgentDrafts and Bindings take one to
three minutes, the others less; the proofs take a minute or two each, RulesProofs five.  Definitions marked "Mutant" are never used by a
specification: each stands for a plausible mistake in the definition after it, and the
property named for it in `PROJECT.json` fails if it takes that definition's place.
