--------------------------------- MODULE Rules ---------------------------------
(* Questions to the rules: each step asks one, of an access rule, of the      *)
(* figures a user is shown, of a timeline, of the forms of an asset, of a     *)
(* draft, of a cron and an instant, of a job with its last run, of its advice,*)
(* or of its history; the properties compare the answers with each other and  *)
(* with what the rules are said to mean.                                      *)
EXTENDS JobHealth, AuditTrail

CONSTANTS
  Users,      \* the users who ask
  Facts,      \* projects, as their users meet them
  Worlds,     \* worlds asked about
  Periods,    \* periods asked about
  Trails,     \* sets of log entries of one issue
  Clusters,   \* states of CML that forms are checked against
  Assets,     \* what a form says: [owning, override, name, sub]
  Monitors,   \* states of the model monitor
  Platforms,  \* states of CML that drafts are checked against
  Links,      \* the CML projects a document links to
  Drafts,     \* drafts as they were extracted
  References, \* references to the model monitor: [raw, fallbacks]
  Directory,  \* its directory, and what only a number finds
  Hidden,
  Crons,      \* the crons asked about
  Instants,   \* the times fires are looked for after
  Moments,    \* the times of runs and of the clock
  Customs,    \* thresholds set by hand, in minutes
  Gaps,       \* sorted gaps between earlier runs of a job, in ticks
  Band        \* minutes off a fire that still count as on time

ASSUME RulesAssumption ==
  /\ \A u \in Users : Account(u)
  /\ Unset \notin Editors
  /\ Instants \subseteq Nat /\ Moments \subseteq Nat /\ Gaps \subseteq Seq(Nat)

\* Whatever CML has an id; a monitor has details of models it lists.
ASSUME FormsAssumption ==
  /\ \A c \in Clusters :
       /\ \A x \in c.projects \cup c.jobs \cup c.apps : x.id # Unset
       /\ \A p \in c.projects : p.name # NoText
  /\ \A a \in Assets : a.owning # Unset
  /\ \A m \in Monitors :
       /\ NoText \notin DOMAIN m.directory
       /\ \A b \in DOMAIN m.models :
            /\ b = <<b[1], b[2]>>
            /\ m.models[b] # Unset /\ b[1] \in DOMAIN m.directory =>
                 b[2] \in m.directory[b[1]] \ {NoText} /\ m.models[b].drifted \in {TRUE, FALSE, Unset}
  /\ Unset \notin BOOLEAN

\* Issues and log entries are rows of a database, each with a number of its own.
Rows(s) == IsFiniteSet(s) /\ \A x, y \in s : x.id \in Int /\ (x.id = y.id => x = y)

ASSUME WorldsAssumption ==
  /\ \A w \in Worlds :
       /\ Rows(w.issues) /\ Rows(w.logs)
       /\ \A i \in w.issues : i.updated \in Int
       /\ \A e \in w.logs : e.at \in Int /\ e.about \in {"issue", "notification"}
       /\ Unset \notin DOMAIN w.products
  /\ \A logs \in Trails :
       /\ Rows(logs)
       /\ \A e \in logs : /\ e.at \in Int /\ e.about \in {"issue", "notification"}
                        /\ {"about", "at", "title", "action"} \subseteq DOMAIN e

\* A run of a job is recorded once, and an issue is in one of its states.
ASSUME FiguresAssumption ==
  /\ \A w \in Worlds :
       /\ DOMAIN w = {"projects", "products", "jobs", "execs", "issues", "logs", "now"} /\ w.now \in Int
       /\ IsFiniteSet(DOMAIN w.jobs) /\ IsFiniteSet(w.execs)
       /\ \A e \in w.execs : /\ e = [job |-> e.job, run |-> e.run, status |-> e.status, at |-> e.at]
                             /\ {e.run, e.at} \subseteq Int
                             /\ \A f \in w.execs : e.job = f.job /\ e.run = f.run => e = f
       /\ \A i \in w.issues : i.created \in Int /\ (Open(i) \/ Closed(i))
  /\ \A p \in Periods : {p.from, p.to} \subseteq Int

Forms == INSTANCE CmlLookup
Drafting == INSTANCE Enrichment

\* A name that is given or not; a list.
Named(x) ==
  \/ x = NoText
  \/ /\ x = [key |-> x.key, real |-> x.real] /\ x.real \in BOOLEAN
     /\ NoText \notin {x.key, Drafting!Real(x.key)}
Listed(s) == s \in Seq(Range(s))

\* Drafts, links and projects of CML have the fields they have; a number is that
\* of one project of the model monitor, and so is a name of its directory.
ASSUME DraftsAssumption ==
  /\ \A d \in Drafts :
       /\ d = [binding |-> d.binding, assets |-> d.assets] /\ Named(d.binding) /\ Listed(d.assets)
       /\ \A a \in Range(d.assets) :
            /\ a = [kind |-> a.kind, project |-> a.project, name |-> a.name, cron |-> a.cron,
                    controlm |-> a.controlm, sub |-> a.sub]
            /\ a.kind \in {"job", "app"} /\ Named(a.project) /\ Named(a.name) /\ a.cron \in BOOLEAN
  /\ \A links \in Links : Listed(links) /\ \A name \in Range(links) : name # NoText /\ Named(name)
  /\ \A c \in Platforms : \A k \in DOMAIN c.projects :
       /\ c.projects[k] # Unset /\ NoText \notin {k, Drafting!Real(k)}
       /\ \A j \in c.projects[k].jobs :
            j # Unset /\ j.cron \in BOOLEAN /\ NoText \notin {j.key, Drafting!Real(j.key)}
       /\ \A a \in c.projects[k].apps : NoText # Drafting!Real(a.key)
  /\ \A r \in References : Listed(r.fallbacks)
  /\ \A r, s \in Directory \cup Hidden : r.id # Unset /\ r.id = s.id => r = s
  /\ \A r, s \in Directory : r.repo = s.repo => r = s

VARIABLE ask
vars == <<ask>>

Presets == DOMAIN Factor
JobsOf(customs) == [cron : Crons, preset : Presets, custom : customs]

Nothing == [about |-> "nothing"]

Init == ask = Nothing

\* A user asks for a project, or for what hangs on it.
AskAccess == \E u \in Users, p \in Facts : ask' = [about |-> "access", user |-> u, project |-> p]

\* A user reads pages, exports and answers of the assistant.
AskFigures ==
  \E u \in Users, w \in Worlds, period \in Periods :
    ask' = [about |-> "figures", user |-> u, world |-> w, period |-> period]

\* Somebody opens the timeline of an issue.
AskTrail == \E logs \in Trails : ask' = [about |-> "trail", logs |-> logs]

\* A form of a job or an application is checked, and saved as it is.
AskForm == \E c \in Clusters, a \in Assets : ask' = [about |-> "form", cml |-> c, form |-> a]

\* So is that of a model.
AskModel ==
  \E m \in Monitors : \E b \in DOMAIN m.models : ask' = [about |-> "model", mmp |-> m, repo |-> b[1], model |-> b[2]]

\* A document was extracted, and what the model may pick was picked.
AskDraft ==
  \E c \in Platforms, links \in Links, d \in Drafts : \E r \in Drafting!Resolutions(c, d) :
    ask' = [about |-> "draft", cml |-> c, links |-> links, given |-> d, resolved |-> r]

\* A document refers to the model monitor.
AskReference ==
  \E r \in References : \E pick \in Drafting!MmpPicks(Directory, Hidden, r.raw, r.fallbacks) :
    ask' = [about |-> "reference", raw |-> r.raw, fallbacks |-> r.fallbacks, pick |-> pick]

\* A fire is looked for, a run is compared with the schedule.
AskFire == \E c \in Crons, t \in Instants : ask' = [about |-> "fire", cron |-> c, at |-> t]

\* The monitor looks at a job whose latest run is known.
AskDeadline ==
  \E j \in JobsOf(Customs \cup {Absent}), last, now \in Moments :
    /\ last <= now
    /\ ask' = [about |-> "deadline", job |-> j, last |-> last, now |-> now]

\* A false alarm of a stale job is dismissed and the advisor asked.
AskAdvice ==
  \E j \in JobsOf({Absent}), g \in Gaps, last, now \in Moments :
    /\ IsStale(j, last, now) /\ last <= now
    /\ ask' = [about |-> "advice", job |-> j, gaps |-> g, last |-> last, now |-> now]

\* The assistant is asked how well the runs of a job kept to its schedule.
AskHistory ==
  \E c \in Crons, first, second \in Moments :
    ask' = [about |-> "history", cron |-> c, runs |-> {first, second}]

Next ==
  /\ ask = Nothing
  /\ \/ AskAccess \/ AskFigures \/ AskTrail
     \/ AskForm \/ AskModel \/ AskDraft \/ AskReference
     \/ AskFire \/ AskDeadline \/ AskAdvice \/ AskHistory

Spec == Init /\ [][Next]_vars

-----------------------------------------------------------------------------
(* Access and figures.                                                        *)

\* The rule for a project is written six times, for the list of projects, for
\* its page, for its members, its products, their jobs and applications, and the
\* project tools: they agree, but for system projects, which the tools leave
\* out, and nobody may write what he may not read.
OneProjectRule ==
  ask.about = "access" =>
    LET u == ask.user
        p == ask.project
        opens == ProjectOpens(u, p)
    IN /\ ProjectListed(u, p) <=> opens
       /\ ProductsOpen(u, p, FALSE) <=> opens
       /\ AssetsOpen(u, p, FALSE) <=> opens
       /\ MemberState(u, p) = "forbidden" <=> ~opens
       /\ ~p.system => (ToolProject(u, p) <=> opens) /\ (ProjectDrills(u, p) <=> opens)
       /\ ProductsOpen(u, p, TRUE) \/ AssetsOpen(u, p, TRUE) \/ MembersOpen(u, p, TRUE) => opens

\* The issue a user may open is the issue the assistant reads for him
\* (_user_can_access_issue, _scoped_issue_query), and none that a list, an
\* export, the audit log or a search shows him is one he may not open.
ShownOpens ==
  ask.about = "figures" =>
    LET u == ask.user
        w == ask.world
        opens == {i \in w.issues : IssueOpens(w, u, i)}
        all == {i.id : i \in w.issues}
    IN /\ opens = {i \in w.issues : ToolIssue(w, u, i)}
       /\ {i \in w.issues : \/ IssueListed(w, u, i) \/ MyIssue(i) \/ PendingHandover(u, i)
                            \/ Workspace(w, u, i)} \subseteq opens
       /\ Range(IssueRows(w, u, ask.period, Everything, all, MaxRows)) \subseteq opens
       /\ \A x \in DOMAIN w.products : ProductExport(w, u, x) \subseteq opens
       /\ \A p \in DOMAIN w.projects : ProjectExport(w, u, p) \subseteq opens
       /\ WholeExport(w, u) \subseteq opens
       /\ SummaryRows(w, u, Everything, all, MaxRows) \subseteq opens
       /\ \A e \in LogExport(w, u, Everything, all, MaxRows) :
            \E i \in opens : i.id = e.issue /\ e \in Range(IssueExport(w, u, i))
       /\ ToolSearch(w, u, LatestFirst(w.issues), 2) \subseteq opens

\* A name of CML or MMP is in the directory a user is shown if, and only if, he
\* may read the project behind it (cml_live_projects, _can_read_cml_project).
DirectoryReads ==
  ask.about = "figures" =>
    \A kind \in {"cml", "mmp"} :
      LET w == ask.world
          names == {w.projects[p][kind] : p \in DOMAIN w.projects} \ {NoText}
      IN LiveDirectory(w, ask.user, names, kind) = {n \in names : LiveNamed(w, ask.user, n, kind)}

\* The rules of the pages, of the lists and of the assistant agree on what a
\* user may read: issues, and the projects of CML and MMP.
OneReading == ShownOpens /\ DirectoryReads

\* A product has one set of figures: its row of the overview, the head of its
\* drill-down and what the assistant reports are the same, and so are the
\* statistics of its issues, whichever of them asks.  The assistant's overview
\* may be cut; a product is missing from it only when it says so.
FiguresAgree ==
  ask.about = "figures" =>
    LET u == ask.user
        w == ask.world
        page == HealthPage(w, u, ask.period, Unset, DefaultRules)
        tool == ToolHealth(w, u, ask.period, Unset)
    IN \A x \in {y \in DOMAIN w.products : ProductDrills(w, u, y)} :
         LET drill == DrillPage(w, u, x, ask.period, DefaultRules)
             stats == ToolStats(w, u, ask.period, [Everything EXCEPT !.product = x])
             mine == ProductPage(w, u, x, ask.period)
         IN /\ page.rows[x] = drill.summary
            /\ x \in DOMAIN tool.rows => tool.rows[x] = drill.summary
            /\ tool.of <= MaxRows => x \in DOMAIN tool.rows
            /\ ToolDrill(w, u, x, ask.period).summary = drill.summary
            /\ \A f \in DOMAIN mine : stats[f] = mine[f]

\* The parts of a page add up to its whole: the days of the trend to the runs of
\* the product, whether the jobs are cut or not, the rows of the jobs too when
\* all are shown, and the groups of a break-down, when it is not cut, to the
\* number of issues.
PartsAddUp ==
  ask.about = "figures" =>
    LET u == ask.user
        w == ask.world
        total(f, part) == SumFunction([k \in DOMAIN f |-> f[k][part]])
        stats == ToolStats(w, u, ask.period, Everything)
        grouped(by) == ToolBreakdown(w, u, by, ask.period, Everything)
    IN /\ \A x \in {y \in DOMAIN w.products : ProductDrills(w, u, y)} :
            LET drill == DrillPage(w, u, x, ask.period, DefaultRules)
            IN /\ total(drill.trend, "runs") = drill.summary.runs
               /\ total(drill.trend, "fails") = drill.summary.fails
               /\ drill.of <= MaxJobs => total(drill.jobs, "runs") = drill.summary.runs
       /\ \A by \in {"type", "status", "product", "job", "day"} :
            grouped(by).of <= MaxRows => total(grouped(by).rows, "count") = stats.total
       /\ grouped("day").of <= MaxRows => total(grouped("day").rows, "open") = stats.open + stats.working
       /\ stats.open + stats.working + stats.closed = stats.total

\* A failed run whose alert was dismissed counts as a success in every figure:
\* a world in which it had succeeded shows the same.
DismissedIsSuccess ==
  ask.about = "figures" =>
    LET u == ask.user
        w == ask.world
        fine(e) == IF <<e.job, e.run>> \in Dismissed(w.issues) THEN [e EXCEPT !.status = "completed"] ELSE e
        kinder == [w EXCEPT !.execs = {fine(e) : e \in w.execs}]
    IN /\ HealthPage(w, u, ask.period, Unset, DefaultRules) = HealthPage(kinder, u, ask.period, Unset, DefaultRules)
       /\ ToolCompare(w, u, ask.period, Unset) = ToolCompare(kinder, u, ask.period, Unset)
       /\ \A x \in DOMAIN w.products :
            /\ DrillPage(w, u, x, ask.period, DefaultRules) = DrillPage(kinder, u, x, ask.period, DefaultRules)
            /\ ToolAssets(w, u, x) = ToolAssets(kinder, u, x)
       /\ \A j \in DOMAIN w.jobs : ToolHistory(w, u, j, 7) = ToolHistory(kinder, u, j, 7)

\* The figures of a page, of another page and of the assistant are one set, the
\* parts add up, and no figure counts a dismissed failure.
FiguresHold == FiguresAgree /\ PartsAddUp /\ DismissedIsSuccess

\* Folding the notes of a timeline loses nothing of what happened to the issue:
\* its life-cycle entries are those its row counts, in order, every note of an
\* assignment keeps a line of its own, and every note shown stands for a batch
\* of one title and second (_merge_admin_notifications).
TimelineKeeps ==
  ask.about = "trail" =>
    \A issue \in {e.issue : e \in ask.logs} :
      LET shown == Timeline(ask.logs, issue)
          events == Lifecycle(ask.logs, issue)
          row == Summary(ask.logs, issue, Unset)
          places == {n \in DOMAIN shown : ~IsNote(shown[n])}
          notes == {e \in ask.logs : e.issue = issue /\ IsNote(e) /\ e.action # "issue_created"}
      IN /\ {shown[n] : n \in places} = Range(events)
         /\ \A n, k \in places : n < k =>
              \E i, j \in DOMAIN events : i < j /\ events[i] = shown[n] /\ events[j] = shown[k]
         /\ row.events = Cardinality(places)
         /\ \A n \in places : (\A k \in places : k <= n) => row.latest.at = shown[n].at
         /\ \A e \in notes :
              /\ e.action \in {"issue_assigned", "issue_reassigned"} => \E n \in DOMAIN shown : shown[n] = e
              /\ \E n \in DOMAIN shown : IsNote(shown[n]) /\ shown[n].title = e.title /\ shown[n].at = e.at

-----------------------------------------------------------------------------
(* Forms and drafts.                                                          *)

\* What the check of an application's form finds is what a save binds, and what
\* it does not find a save marks as an error; the application it points at
\* instead is in another project ("the same name -> application_id resolver the
\* save path uses", _probe_cml_app_binding).
AppFormForetells ==
  ask.about = "form" =>
    LET f == ask.form
        named == f.name # NoText \/ f.sub # NoText
        saved == Forms!SavedApp(ask.cml, f.owning, f.override, f.name, f.sub)
        probe == Forms!AppCheck(ask.cml, f.owning, f.override, f.name, f.sub, "good", "none").binding
    IN /\ named <=> probe.ok # "unasked"
       /\ named => (probe.ok = "yes" <=> Forms!BindingStatus(saved, named) = "resolved")
       /\ named => (probe.ok = "no" <=> Forms!BindingStatus(saved, named) = "error")
       /\ probe.ok = "yes" => probe.id = saved.found
       /\ probe.other # Unset => probe.other.project # saved.project /\ probe.other.sub = f.sub

\* So does the check of a job's form, which asks for the project by name, when
\* the project of RelayOps is bound to the project of that name; and the live
\* status of a saved job is that of the job the form showed.
JobFormForetells ==
  ask.about = "form" =>
    LET f == ask.form
        saved == Forms!SavedJob(ask.cml, f.owning, f.override, f.name)
        check == Forms!JobCheck(ask.cml, f.owning, f.override, f.name)
        live == Forms!LiveStatus(ask.cml, saved)
    IN f.override # NoText \/ Forms!ProjectId(ask.cml, f.owning.name).id = f.owning.id =>
         /\ check.found <=> Forms!BindingStatus(saved, f.name # NoText) = "resolved"
         /\ check.found => check.id = saved.found /\ live = [polled |-> TRUE, status |-> check.status]
         /\ ~check.found => ~live.polled

\* A model that its form shows as drifted is one the monitor raises a ticket for,
\* if it can judge it, and the monitor raises none the form does not show.
ModelFormForetells ==
  ask.about = "model" =>
    LET check == Forms!ModelCheck(ask.mmp, ask.repo, ask.model)
        verdict == Forms!DriftCheck(ask.mmp, ask.repo, ask.model)
    IN /\ verdict = "create_issue" => check.ok /\ check.drifted = TRUE
       /\ verdict = "close_issue" => check.ok /\ check.drifted = FALSE
       /\ check.drifted = TRUE => verdict \in {"create_issue", "inconclusive"}

FormsForetell == AppFormForetells /\ JobFormForetells /\ ModelFormForetells

\* What an asset of a draft is: its project's key, and whether CML's data on that
\* project, if they could be read, have it.
HomeOf(draft, n) == Drafting!Key(Drafting!Effective(draft, draft.assets[n]))
Has(cml, project, asset) == Drafting!Homes(cml, {project}, asset) # {}
CanRead(cml, key) == key \in DOMAIN cml.projects /\ cml.projects[key].read

\* What the check makes of a draft, and what is left when a reviewer saves that.
Checked == Drafting!Reviewed(ask.cml, ask.links, ask.resolved)
Saved == Drafting!Reviewed(ask.cml, <<>>, Checked.draft)

\* Checking a draft against CML changes no name a document gave but its spelling,
\* except for a project's name borrowed for a job.
NamesKept ==
  \A n \in DOMAIN Checked.draft.assets :
    LET was == ask.given.assets[n].name
        now == Checked.draft.assets[n].name
    IN /\ was # NoText /\ now # NoText => was.key = now.key \/ was.key = Drafting!Key(ask.resolved.binding)
       /\ was # NoText /\ now = NoText => was.key = Drafting!Key(Checked.draft.binding)

\* An asset is moved only to a project that has it, from one that does not, as
\* far as CML answers and no link misspells it.
MovesGrounded ==
  \A n \in DOMAIN Checked.draft.assets :
    LET now == Checked.draft.assets[n]
        from == HomeOf(ask.resolved, n)
        to == HomeOf(Checked.draft, n)
        misspelt == {l \in DOMAIN ask.links : Drafting!Key(ask.links[l]) = from /\ ~ask.links[l].real}
    IN from # to => /\ Has(ask.cml, to, now) /\ CanRead(ask.cml, to)
                    /\ ask.cml.listed /\ CanRead(ask.cml, from) /\ misspelt = {} => ~Has(ask.cml, from, now)

\* A job that is left without a question follows a binding that has it, or is in
\* a project of its own.
UnaskedIsThere ==
  \A n \in DOMAIN Checked.draft.assets :
    LET now == Checked.draft.assets[n]
        to == HomeOf(Checked.draft, n)
        asked == \E q \in Checked.asked : q.about = n /\ q.field \in {"name", "project"}
    IN /\ ~asked /\ now.kind = "job" /\ now.name # NoText /\ Drafting!Follows(Checked.draft, now)
       /\ ask.cml.listed /\ CanRead(ask.cml, to)
       => Has(ask.cml, to, now)

\* An asset in a project that has it stays as it is when a reviewer saves the
\* draft, but that an application gets the name CML has for it.
SaveKeeps ==
  \A n \in DOMAIN Checked.draft.assets :
    LET now == Checked.draft.assets[n]
        to == HomeOf(Checked.draft, n)
        then == Saved.draft.assets[n]
    IN ask.cml.listed /\ CanRead(ask.cml, to) /\ Has(ask.cml, to, now) =>
         then = now \/ (now.kind = "app" /\ now.name = NoText /\ then = [now EXCEPT !.name = then.name])

\* A split puts every asset into one part, bound as it was.
PartsWhole ==
  LET parts == Drafting!Parts(Checked.draft)
  IN \A n \in DOMAIN Checked.draft.assets :
       \E k \in DOMAIN parts :
         /\ n \in DOMAIN parts[k].assets /\ Drafting!Key(parts[k].binding) = HomeOf(Checked.draft, n)
         /\ \A other \in DOMAIN parts \ {k} : n \notin DOMAIN parts[other].assets

\* What becomes of the assets of a draft is what the document and CML give.
DraftGrounded ==
  ask.about = "draft" => NamesKept /\ MovesGrounded /\ UnaskedIsThere /\ SaveKeeps /\ PartsWhole

\* A reference to the model monitor is bound to the repository of its number, when
\* there is one, else to the one of its name, and else to one of the directory or
\* none: what the directory does not show is bound for its number only.
ReferenceGrounded ==
  ask.about = "reference" =>
    LET known == Directory \cup Hidden
        numbered == {r.repo : r \in {k \in known : ask.raw.id # Unset /\ k.id = ask.raw.id}}
        named == {r.repo : r \in {k \in Directory : k.repo = ask.raw.key}}
    IN /\ numbered # {} => ask.pick \in numbered
       /\ numbered = {} /\ named # {} => ask.pick \in named
       /\ numbered = {} /\ named = {} => ask.pick = NoText \/ \E r \in Directory : r.repo = ask.pick

\* What is bound for a draft is what the platforms have.
DraftsGrounded == DraftGrounded /\ ReferenceGrounded

-----------------------------------------------------------------------------
(* Reference definitions.                                                     *)

\* Every fire of a cron after an instant, minute by minute, up to a horizon.
FiresBetween(cron, from, to) ==
  {InstantOf(m) : m \in {n \in MinuteAfter(from)..((to \div Ticks) + Shift) : Matches(cron, Schedule(cron), n)}}

SearchEnd(t) == InstantOf(MinuteAfter(t) + Horizon * DayMinutes)

\* The search for the next fire finds the first minute after the instant that
\* matches all five fields, within the horizon, and nothing when there is none:
\* skipping months, days, hours and minutes loses no fire (next_fire_after).
NextFireIsLeast ==
  ask.about = "fire" /\ Readable(ask.cron) =>
    LET fires == FiresBetween(ask.cron, ask.at, SearchEnd(ask.at))
    IN NextFire(ask.cron, ask.at) = IF fires = {} THEN Absent ELSE Min(fires)

\* A failed run raises an alert when, and only when, the schedule started it:
\* when a fire lies within the tolerance around it, up to the minute that the
\* search for a fire cuts off (is_within_cron_schedule).
ScheduledRunsCount ==
  ask.about = "fire" /\ NextFire(ask.cron, ask.at) # Absent =>
    LET half == HalfGap(ask.cron, ask.at, Tolerance)
        near(slack) == \E f \in FiresBetween(ask.cron, ask.at - half - slack - Ticks, ask.at + half) :
                         Off(ask.at, f) <= half + slack
    IN (near(0) => InSchedule(ask.cron, ask.at)) /\ (InSchedule(ask.cron, ask.at) => near(2 * Ticks))

\* A job whose threshold comes from its cron is never called stale before its
\* next run is due, a run shortly before a fire standing for that fire; the
\* threshold is cut to whole minutes (validate_timestamp).
StaleOnlyWhenDue ==
  ask.about = "deadline" /\ ask.job.custom = Absent /\ NextFire(ask.job.cron, ask.last) # Absent =>
    LET first == NextFire(ask.job.cron, ask.last)
        early == first - ask.last <= HalfGap(ask.job.cron, ask.last, EarlyWindow)
        due == IF early THEN NextFire(ask.job.cron, first) ELSE first
    IN IsStale(ask.job, ask.last, ask.now) /\ due # Absent => ask.now > due - Ticks

\* Under the advice the assistant drafts, whatever becomes of its cron, a job is
\* not called stale while its latest run is no older than the median of the gaps
\* the advice was taken from (draft_job_sla, recommend_sla, validate_timestamp).
AdviceKeepsCadence ==
  ask.about = "advice" =>
    LET advised == DraftedAdvice(ask.job, ask.gaps, 2, ask.now)
    IN advised # Absent /\ 2 * (ask.now - ask.last) <= TwiceMedian(ask.gaps) =>
         \A c \in Crons : ~IsStale([cron |-> c, preset |-> ask.job.preset, custom |-> advised], ask.last, ask.now)

\* A job is stale only once its next run is due, and as long as it keeps to its
\* gaps not after its service level is set as advised.
StalenessFair == StaleOnlyWhenDue /\ AdviceKeepsCadence

\* In the account of a schedule, a run is called extra exactly when no fire is
\* within the tolerance of it, and it is compared with a nearest fire
\* (_nearest_scheduled_fire, job_schedule_adherence).
AdherenceExact ==
  ask.about = "history" /\ Readable(ask.cron) =>
    LET tolerance == AlignTolerance(ask.cron)
    IN \A run \in ask.runs :
         LET fire == NearestFire(ask.cron, run)
             near == {f \in FiresBetween(ask.cron, run - tolerance - Ticks, run + tolerance) :
                        Aligned(tolerance, run, f)}
         IN /\ Called(ask.cron, run, Band) = "extra" <=> near = {}
            /\ \A f \in near : Off(run, fire) <= Off(run, f)

\* Of the fires between two runs none is both counted as missed and matched with
\* a run that is on time, early or late for it, and what is counted are fires.
MissedExact ==
  ask.about = "history" /\ Readable(ask.cron) /\ Cardinality(ask.runs) = 2 =>
    LET missed == Missed(ask.cron, ask.runs)
        counted == {NearestFire(ask.cron, r) : r \in {q \in ask.runs : Called(ask.cron, q, Band) # "extra"}}
    IN missed \cap counted = {} /\ missed \subseteq FiresBetween(ask.cron, Min(ask.runs) - 2 * Ticks, Max(ask.runs))

\* The two readers of a schedule, the checker and the assistant, match a run to
\* a fire when, and only when, one is near, and lose none.
RunsMatchFires == ScheduledRunsCount /\ AdherenceExact /\ MissedExact

-----------------------------------------------------------------------------
(* What the sources say and the rules do not keep.                            *)

\* "Every number is derived the same way the monitoring staleness check does":
\* the threshold shown for a job whose run started at a fire is the checker's.
ShownIsApplied ==
  ask.about = "deadline" /\ Readable(ask.job.cron) /\ Interval(ask.job.cron) >= Floor =>
    LET fire == NextFire(ask.job.cron, ask.last)
        next == NextFire(ask.job.cron, fire)
    IN fire # Absent /\ next - fire = Interval(ask.job.cron) * Ticks =>
         Off(ShownThreshold(ask.job), Threshold(ask.job, fire)) <= 1

\* "floored at alert age": the advice silences the alert it is asked for.
AdviceSilences ==
  ask.about = "advice" =>
    LET advised == DraftedAdvice(ask.job, ask.gaps, 2, ask.now)
    IN advised # Absent => ~IsStale([ask.job EXCEPT !.custom = advised], ask.last, ask.now)

\* "we never confuse consecutive scheduled fires": a run that starts at a fire
\* is anchored on that fire.
ConsecutiveFiresKept ==
  ask.about = "fire" /\ Readable(ask.cron) /\ Matches(ask.cron, Schedule(ask.cron), (ask.at \div Ticks) + Shift)
      => Anchor(ask.cron, ask.at) = ask.at

\* "genuinely missing - the not-found question stands": a job that no documented
\* project has, of those that could be read, is asked about.
MissingIsAsked ==
  ask.about = "draft" =>
    \A n \in DOMAIN Checked.draft.assets :
      LET now == Checked.draft.assets[n]
          to == HomeOf(Checked.draft, n)
      IN now.kind = "job" /\ now.name # NoText /\ CanRead(ask.cml, to) /\ ~Has(ask.cml, to, now)
           => \E q \in Checked.asked : q.about = n /\ q.field \in {"name", "project"}

\* "more than one candidate contains it -> a clarification asking which": the
\* question stays until it is answered.
TornStaysAsked ==
  ask.about = "draft" =>
    \A n \in DOMAIN Checked.draft.assets :
      Drafting!Question(n, "project") \in Checked.asked => Saved.draft.assets[n] = Checked.draft.assets[n]

\* "exactly one other documented project contains it (and the bound one does
\* not)": also when CML did not answer for the bound one.
MovedForCause ==
  ask.about = "draft" =>
    \A n \in DOMAIN Checked.draft.assets :
      LET from == HomeOf(ask.resolved, n)
      IN from \in DOMAIN ask.cml.projects /\ from # HomeOf(Checked.draft, n) =>
           ~Has(ask.cml, from, Checked.draft.assets[n])

\* "instead of being rejected over a single hyphen": also when a link spells the
\* bound project otherwise than CML, which answers for it.
SpellingIsForgiven ==
  ask.about = "draft" =>
    \A n \in DOMAIN Checked.draft.assets :
      LET from == HomeOf(ask.resolved, n)
      IN ask.cml.listed /\ CanRead(ask.cml, from) /\ from # HomeOf(Checked.draft, n) =>
           ~Has(ask.cml, from, Checked.draft.assets[n])

\* "Such a value can only be resolved by a direct API id lookup - never by name."
NumbersAreNotGuessed ==
  ask.about = "reference" /\ ask.raw.id # Unset /\ ask.pick # NoText =>
    \E r \in Directory \cup Hidden : r.id = ask.raw.id /\ r.repo = ask.pick

\* A form that CML did not answer for is not called checked.
UnansweredIsNotOk ==
  ask.about = "form" => LET f == ask.form IN
    Forms!JobCheck(ask.cml, f.owning, f.override, f.name).ok =>
      Forms!JobCheck(ask.cml, f.owning, f.override, f.name).found

\* Check now and the periodic check agree on every run.
VerdictsAgree ==
  ask.about = "deadline" =>
    \A s \in {"engine_succeeded", "engine_failed"}, zero \in BOOLEAN :
      LET run == [status |-> s, created |-> IF zero THEN Zero ELSE ask.last,
                  running |-> ask.last, finished |-> ask.last]
      IN CheckNowVerdict(ask.job, run, ask.now) = CheckerVerdict(ask.job, run, ask.now)
=============================================================================
