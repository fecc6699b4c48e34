------------------------------- MODULE Bindings -------------------------------
(***************************************************************************)
(* Which CML project and which CML job or application every asset is bound *)
(* to, and which of its two service levels a job has.  A project is bound  *)
(* by name or by an id picked in a list; an asset inherits that binding    *)
(* unless it names a CML project of its own; what CML answered is cached   *)
(* in the rows, and the monitors read the cache.  A project's version      *)
(* keeps the rows of its assets; a rollback makes new assets of them.      *)
(*                                                                         *)
(* A request reads its rows in a Begin action; Commit is CML's answer (any *)
(* call may fail) and the write.  The ORM writes the columns whose value   *)
(* differs from the one that was read.  A project's assets are taken       *)
(* together, whichever product they are in.  Access and the lock on a      *)
(* scope under review are left out (HandoverReview, Directory).            *)
(***************************************************************************)
EXTENDS Integers, FiniteSets, Functions

CONSTANTS
  Project,    \* rows of projects
  Job,        \* rows of jobs
  App,        \* rows of applications
  CmlProject, \* the projects of CML: the name and the id of one
  Levels,     \* the service levels that are set and reset
  Request,    \* requests that can be in flight at once
  MaxCalls,   \* bound: requests begun in a behaviour
  MaxVersions, \* bound: projects with a version at a time; each keeps its first
  Missing,    \* no row yet, no id, no name
  Gone        \* a row that was deleted

Names == CmlProject \cup {Missing}

\* A project's row, and a job's or an application's: its home project, its
\* override and whether it is named, its service level, what CML answered.
ProjectRow == [name: Names, id: Names, error: BOOLEAN]
AssetRow == [home: Project, override: Names, named: BOOLEAN, preset: BOOLEAN, custom: BOOLEAN,
             project: Names, found: Names, error: BOOLEAN]

ASSUME BindingsAssumption ==
  /\ Job \cap App = {}
  /\ Levels \subseteq {"custom", "preset", "default"}
  /\ MaxCalls \in Nat /\ MaxVersions \in Nat
  /\ Missing # Gone
  /\ {Missing, Gone} \cap (CmlProject \cup ProjectRow \cup AssetRow) = {}

VARIABLES
  project,     \* the rows of projects
  asset,       \* the rows of jobs and applications
  request,     \* requests in flight: what they read, what they are to write
  calls,       \* requests begun so far
  version,     \* the assets' rows in a version of each project
  alone,       \* requests in flight that have had the rows to themselves
  overlapped,  \* two requests were in flight at once at some time
  disturbed,   \* projects that requests overlapped on, or a start bound, since
               \* they were last resolved by a request that had the rows to itself
  restored     \* assets a rollback made, or copies of them, not resolved since

vars == <<project, asset, request, calls, version, alone, overlapped, disturbed, restored>>

Asset == Job \cup App
Live(rows) == {r \in DOMAIN rows : rows[r] \notin {Missing, Gone}}
Projects == Live(project)
Assets == Live(asset)
Of(p) == {a \in Assets : asset[a].home = p}
Inherits(row) == row.override = Missing
OneOf(kind) == IF kind \in Job THEN Job ELSE App
Idle == [op |-> "idle"]

Init ==
  /\ project = [p \in Project |-> Missing]
  /\ asset = [a \in Asset |-> Missing]
  /\ request = [r \in Request |-> Idle]
  /\ calls = 0 /\ version = [p \in Project |-> Missing]
  /\ alone = {} /\ overlapped = FALSE /\ disturbed = {} /\ restored = {}

-----------------------------------------------------------------------------
(***************************************************************************)
(* Resolution: the sets of answers                                         *)
(***************************************************************************)

\* A CML project looked up by its name: found, or CML unreachable, the name
\* unknown or ambiguous.
NameLookup(name) ==
  {[name |-> name, id |-> name, error |-> FALSE], [name |-> name, id |-> Missing, error |-> TRUE]}

Unbound == [name |-> Missing, id |-> Missing, error |-> FALSE]

\* What create_project and update_project make of a name and an id picked
\* in the interface.
Bound(name, hint) ==
  IF name = Missing THEN {Unbound}
  ELSE IF hint # Missing THEN {[name |-> name, id |-> hint, error |-> FALSE]}
  ELSE NameLookup(name)

\* The job or application of a CML project; nothing is looked up for an asset
\* without a name.  "found" is the project the cached id was found in.
Within(c, named) ==
  IF named
  THEN {[project |-> c, found |-> c, error |-> FALSE], [project |-> c, found |-> Missing, error |-> TRUE]}
  ELSE {[project |-> c, found |-> Missing, error |-> FALSE]}

Unresolved == [project |-> Missing, found |-> Missing, error |-> TRUE]
Answered(row, b) == [row EXCEPT !.project = b.project, !.found = b.found, !.error = b.error]

FoundAtHome(owning, override, named) ==
  IF override = Missing THEN {Unresolved} ELSE {[project |-> override, found |-> owning.id, error |-> owning.id = Missing]}

\* _resolve_cml_job, _resolve_cml_app
Resolved(owning, override, named) ==
  IF override # Missing THEN {Unresolved} \cup Within(override, named)
  ELSE IF owning.id = Missing THEN {Unresolved}
  ELSE Within(owning.id, named)

\* _cascade_rebind_children on one row: a row with an override is skipped.
Rebound(owning, row) ==
  IF ~Inherits(row) THEN {row}
  ELSE IF owning.id = Missing
       THEN {Answered(row, [Unresolved EXCEPT !.error = row.named])}
       ELSE {Answered(row, b) : b \in Within(owning.id, row.named)}

\* One column per service level.  A custom threshold wins over a preset.
\* A row yet to be resolved.
Reconciled(p, override, named, preset, custom) ==
  [home |-> p, override |-> override, named |-> named, preset |-> preset /\ ~custom, custom |-> custom,
   project |-> Missing, found |-> Missing, error |-> FALSE]

\* What _restore_project_scope_from_snapshot makes of a row of the version: override
\* and ids are as they were, the error is not in a version, the service level is but
\* is not read back.
Restored(row) == [row EXCEPT !.preset = FALSE, !.custom = FALSE, !.error = FALSE]

\* What an edit sends about the service level, and what it makes of the row.
LevelEdits == {"kept"} \cup Levels
Levelled(row, edit) ==
  CASE edit = "custom" -> [row EXCEPT !.custom = TRUE, !.preset = FALSE]
    [] edit = "preset" -> [row EXCEPT !.preset = TRUE, !.custom = FALSE]
    [] edit = "default" -> [row EXCEPT !.preset = FALSE, !.custom = FALSE]
    [] OTHER -> row
LevelsFor(a) == IF a \in Job THEN LevelEdits ELSE {"kept"}

-----------------------------------------------------------------------------
(***************************************************************************)
(* Requests: what they read                                                *)
(***************************************************************************)

InFlight == {r \in Request : request[r] # Idle}

Begin(r, call) ==
  /\ request[r] = Idle
  /\ calls < MaxCalls
  /\ calls' = calls + 1
  /\ request' = [request EXCEPT ![r] = call]
  /\ alone' = IF InFlight = {} THEN {r} ELSE {}
  /\ overlapped' = (overlapped \/ InFlight # {})
  /\ disturbed' = IF InFlight = {} THEN disturbed ELSE Project
  /\ UNCHANGED <<project, asset, version, restored>>

Picks == {pick \in Names \X Names : pick[1] = Missing => pick[2] = Missing}

BeginCreateProject(r) ==
  \E p \in Project, pick \in Picks :
    /\ project[p] = Missing
    /\ Begin(r, [op |-> "project", project |-> p, name |-> pick[1], hint |-> pick[2]])

\* The rows of the project and of its assets, as a cascade reads them.
Scope(p) == [project |-> project[p], rows |-> Restrict(asset, Of(p))]

BeginUpdateProject(r) ==
  \E p \in Projects, pick \in Picks :
    Begin(r, [op |-> "rebind", project |-> p, name |-> pick[1], hint |-> pick[2], saw |-> Scope(p)])

BeginResolveProject(r) ==
  \E p \in Projects : Begin(r, [op |-> "resolve", project |-> p, saw |-> Scope(p)])

BeginDeleteProject(r) ==
  \E p \in Projects : Begin(r, [op |-> "drop", project |-> p])

BeginCopyProject(r) ==
  \E p \in Projects, q \in Project :
    /\ project[q] = Missing
    /\ Begin(r, [op |-> "copy", project |-> q, from |-> p, saw |-> Scope(p), into |-> q])

\* A product's assets, copied into a new product of the same project.
BeginCopyProduct(r) ==
  \E p \in Projects : \E s \in SUBSET Of(p) \ {{}} :
    Begin(r, [op |-> "copy", project |-> p, from |-> p, into |-> p,
              saw |-> [project |-> project[p], rows |-> Restrict(asset, s)]])

BeginRollback(r) ==
  \E p \in Projects :
    /\ version[p] # Missing
    /\ Begin(r, [op |-> "rollback", project |-> p, rows |-> version[p]])

BeginCreateAsset(r) ==
  \E p \in Projects, kind \in {Job, App}, override \in Names, named \in BOOLEAN :
    \E sent \in {FALSE} \cup {kind = Job /\ {"custom", "preset"} \subseteq Levels} :  \* a preset and a threshold, or neither
      Begin(r, [op |-> "add", project |-> p, kind |-> kind, owning |-> project[p],
                row |-> Reconciled(p, override, named, sent, sent)])

\* The copy needs a name of its own; the override goes with it.
BeginDuplicateAsset(r) ==
  \E a \in Assets, p \in Projects :
    Begin(r, [op |-> "add", project |-> p, kind |-> OneOf(a), owning |-> project[p],
              row |-> Reconciled(p, asset[a].override, TRUE, asset[a].preset, asset[a].custom)])

\* "look" says whether the edit touched what the binding depends on.
BeginEdit(r, a, row, look) ==
  Begin(r, [op |-> "edit", asset |-> a, saw |-> asset[a], row |-> row, look |-> look,
            owning |-> project[asset[a].home]])

BeginUpdateAsset(r) ==
  \E a \in Assets :
    \/ \E override \in Names, named \in BOOLEAN :
         /\ <<override, named>> # <<asset[a].override, asset[a].named>>
         /\ BeginEdit(r, a, [asset[a] EXCEPT !.override = override, !.named = named], TRUE)
    \/ \E level \in LevelsFor(a) : BeginEdit(r, a, Levelled(asset[a], level), FALSE)

\* Also an update that sends the names as they are.
BeginResolveAsset(r) == \E a \in Assets : BeginEdit(r, a, asset[a], TRUE)

BeginDeleteAsset(r) == \E a \in Assets : Begin(r, [op |-> "remove", asset |-> a])

-----------------------------------------------------------------------------
(***************************************************************************)
(* Requests: what they write                                               *)
(***************************************************************************)

\* The columns whose value differs from the one that was read; a row keeps its home.
Kept(now, saw, new) == IF new = saw THEN now ELSE new
WrittenProject(now, saw, new) ==
  [name |-> Kept(now.name, saw.name, new.name), id |-> Kept(now.id, saw.id, new.id),
   error |-> Kept(now.error, saw.error, new.error)]
Written(now, saw, new) ==
  [home |-> now.home,
   override |-> Kept(now.override, saw.override, new.override), named |-> Kept(now.named, saw.named, new.named),
   preset |-> Kept(now.preset, saw.preset, new.preset), custom |-> Kept(now.custom, saw.custom, new.custom),
   project |-> Kept(now.project, saw.project, new.project), found |-> Kept(now.found, saw.found, new.found),
   error |-> Kept(now.error, saw.error, new.error)]

End(r) == request' = [request EXCEPT ![r] = Idle] /\ alone' = alone \ {r}
Unwritten == UNCHANGED <<calls, overlapped>>

\* The rows get ids of their own, a job's in the table of jobs.
Places(rows) ==
  {place \in Injection(DOMAIN rows, Asset) : \A a \in DOMAIN rows : asset[place[a]] = Missing /\ place[a] \in OneOf(a)}
RowAt(rows, place, b) == rows[CHOOSE a \in DOMAIN rows : place[a] = b]

\* A request fails and is rolled back, as when a row it is to write is gone.
Fail(r) ==
  /\ request[r] # Idle
  /\ End(r) /\ Unwritten /\ UNCHANGED <<project, asset, version, disturbed, restored>>

Taken(call, op) == call.op = op

CommitProject(r) ==
  LET call == request[r] IN
  /\ Taken(call, "project")
  /\ project[call.project] = Missing
  /\ \E binding \in Bound(call.name, call.hint) :
       project' = [project EXCEPT ![call.project] = binding]
  /\ disturbed' = disturbed \ {call.project}
  /\ End(r) /\ Unwritten /\ UNCHANGED <<asset, version, restored>>

NameChanged(was, new) == was.name # new.name
CmlChanged(was, new) == was # new

\* update_project cascades when the binding changed, a resolve always does.
CommitRebind(r) ==
  LET call == request[r]
      was == call.saw.project
      rows == call.saw.rows IN
  /\ \/ Taken(call, "rebind") \/ Taken(call, "resolve")
  /\ call.project \in Projects
  /\ DOMAIN rows \subseteq Assets
  /\ \E new \in IF call.op = "rebind" THEN Bound(call.name, call.hint) ELSE Bound(was.name, Missing) :
     \E after \in {f \in [DOMAIN rows -> UNION {Rebound(new, rows[a]) : a \in DOMAIN rows}] :
                     \A a \in DOMAIN rows : f[a] \in Rebound(new, rows[a])} :
       /\ project' = [project EXCEPT ![call.project] = WrittenProject(@, was, new)]
       /\ IF call.op = "resolve" \/ CmlChanged(was, new)
          THEN /\ asset' = [a \in Asset |-> IF a \in DOMAIN rows THEN Written(asset[a], rows[a], after[a]) ELSE asset[a]]
               /\ restored' = restored \ {a \in DOMAIN rows : Inherits(rows[a])}
          ELSE UNCHANGED <<asset, restored>>
  /\ disturbed' = IF call.op = "resolve" /\ r \in alone THEN disturbed \ {call.project} ELSE disturbed
  /\ End(r) /\ Unwritten /\ UNCHANGED version

\* Bottom-up DELETEs; nothing of the project is left.
CommitDrop(r) ==
  LET call == request[r] IN
  /\ Taken(call, "drop")
  /\ project' = [project EXCEPT ![call.project] = Gone]
  /\ asset' = [a \in Asset |-> IF a \in Of(call.project) THEN Gone ELSE asset[a]]
  /\ version' = [version EXCEPT ![call.project] = Missing]
  /\ End(r) /\ Unwritten /\ UNCHANGED <<disturbed, restored>>

\* The copies have the rows' bindings as they are.
CommitCopy(r) ==
  LET call == request[r]
      rows == call.saw.rows IN
  /\ Taken(call, "copy")
  /\ IF call.into = call.from THEN call.into \in Projects ELSE project[call.into] = Missing
  /\ \E place \in Places(rows) :
       /\ asset' = [b \in Asset |-> IF b \in Range(place)
                                    THEN [RowAt(rows, place, b) EXCEPT !.home = call.into] ELSE asset[b]]
       /\ restored' = restored \cup {place[a] : a \in restored \cap DOMAIN rows}
  /\ project' = IF call.into = call.from THEN project ELSE [project EXCEPT ![call.into] = call.saw.project]
  /\ disturbed' = IF call.from \in disturbed THEN disturbed \cup {call.into} ELSE disturbed \ {call.into}
  /\ End(r) /\ Unwritten /\ UNCHANGED version

\* All the assets of the project go; those of the version come, under the project's
\* binding as it is now.  Nothing is asked of CML.
CommitRollback(r) ==
  LET call == request[r] IN
  /\ Taken(call, "rollback")
  /\ call.project \in Projects
  /\ \E place \in Places(call.rows) :
       /\ asset' = [b \in Asset |-> IF b \in Range(place) THEN Restored(RowAt(call.rows, place, b))
                                    ELSE IF b \in Of(call.project) THEN Gone ELSE asset[b]]
       /\ restored' = restored \cup Range(place)
  /\ End(r) /\ Unwritten /\ UNCHANGED <<project, version, disturbed>>

CommitAdd(r) ==
  LET call == request[r] IN
  /\ Taken(call, "add")
  /\ call.project \in Projects
  /\ \E a \in call.kind, b \in Resolved(call.owning, call.row.override, call.row.named) :
       /\ asset[a] = Missing
       /\ asset' = [asset EXCEPT ![a] = Answered(call.row, b)]
  /\ End(r) /\ Unwritten /\ UNCHANGED <<project, version, disturbed, restored>>

CommitEdit(r) ==
  LET call == request[r] IN
  /\ Taken(call, "edit")
  /\ call.asset \in Assets
  /\ \E row \in IF call.look THEN {Answered(call.row, b) : b \in Resolved(call.owning, call.row.override, call.row.named)}
                ELSE {call.row} :
       asset' = [asset EXCEPT ![call.asset] = Written(@, call.saw, row)]
  /\ restored' = IF call.look THEN restored \ {call.asset} ELSE restored
  /\ End(r) /\ Unwritten /\ UNCHANGED <<project, version, disturbed>>

CommitRemove(r) ==
  LET call == request[r] IN
  /\ Taken(call, "remove")
  /\ asset' = [asset EXCEPT ![call.asset] = Gone]
  /\ End(r) /\ Unwritten /\ UNCHANGED <<project, version, disturbed, restored>>

\* A version takes in the rows of the project's assets, as a draft does when it is
\* made, opened and submitted.  It is one a rollback may pick later.  A version
\* without assets is left out: going back to it only deletes.
Capture(p) ==
  /\ p \in Projects /\ Of(p) # {}
  /\ version[p] = Missing
  /\ Cardinality({q \in Project : version[q] # Missing}) < MaxVersions
  /\ version' = [version EXCEPT ![p] = Scope(p).rows]
  /\ UNCHANGED <<project, asset, request, calls, alone, overlapped, disturbed, restored>>

-----------------------------------------------------------------------------
(***************************************************************************)
(* A start of the server.  Requests in flight are lost; a project without  *)
(* a name takes the override of one of its jobs, else of its applications  *)
(* (the one with the lowest id: any here).  Nothing is cascaded.           *)
(***************************************************************************)
Overridden(p, kind) == {a \in Of(p) \cap kind : ~Inherits(asset[a])}
Lifted(p) ==
  LET jobs == Overridden(p, Job) IN
  {asset[a].override : a \in IF jobs # {} THEN jobs ELSE Overridden(p, App)}

Start ==
  LET bound == {p \in Projects : project[p].name = Missing /\ Lifted(p) # {}} IN
  /\ bound # {}
  /\ \E lift \in {f \in [bound -> UNION {UNION {NameLookup(n) : n \in Lifted(p)} : p \in bound}] :
                    \A p \in bound : f[p].name \in Lifted(p)} :
       project' = [p \in Project |-> IF p \in bound THEN lift[p] ELSE project[p]]
  /\ request' = [r \in Request |-> Idle] /\ alone' = {}
  /\ disturbed' = disturbed \cup bound
  /\ UNCHANGED <<asset, calls, version, overlapped, restored>>

BeginSome(r) ==
  \/ BeginCreateProject(r) \/ BeginUpdateProject(r) \/ BeginResolveProject(r)
  \/ BeginDeleteProject(r) \/ BeginCopyProject(r) \/ BeginCopyProduct(r) \/ BeginRollback(r)
  \/ BeginCreateAsset(r) \/ BeginDuplicateAsset(r) \/ BeginUpdateAsset(r)
  \/ BeginResolveAsset(r) \/ BeginDeleteAsset(r)

CommitSome(r) ==
  \/ CommitProject(r) \/ CommitRebind(r) \/ CommitDrop(r) \/ CommitCopy(r)
  \/ CommitRollback(r) \/ CommitAdd(r) \/ CommitEdit(r) \/ CommitRemove(r) \/ Fail(r)

Next == Start \/ (\E p \in Project : Capture(p)) \/ \E r \in Request : BeginSome(r) \/ CommitSome(r)

Spec == Init /\ [][Next]_vars

-----------------------------------------------------------------------------
(***************************************************************************)
(* Properties                                                              *)
(***************************************************************************)

FollowsHome(a) == asset[a].project = project[asset[a].home].id

\* An asset is polled in the CML project it means.  Without an override that is
\* the one its project is bound to, unless requests overlapped on the project or
\* a start bound it; and then a resolve of the project that has the rows to
\* itself puts it right.  An asset that a rollback made is polled where it was when
\* its version was taken, until it or its project is resolved again.  With an
\* override it is the one it names, whatever is rebound, copied, deleted or rolled
\* back around it, one request at a time.
PolledWhereMeant ==
  \A a \in Assets :
    IF Inherits(asset[a]) THEN asset[a].home \in disturbed \/ a \in restored \/ FollowsHome(a)
    ELSE overlapped \/ asset[a].project \in {Missing, asset[a].override}

\* The cached pair is one CML gave together, a rollback's included, and a named asset
\* whose binding shows no error is one the monitors can poll, unless a rollback made
\* it: a version does not keep the error, so what failed to resolve then looks bound.
CacheIsWhole ==
  overlapped \/ \A a \in Assets :
    /\ asset[a].found \in {Missing, asset[a].project}
    /\ a \notin restored /\ asset[a].named /\ ~asset[a].error => asset[a].found # Missing

\* "When a Project's CML binding changes, refresh every INHERITING Job/App under it"
\* (project_service.py:123), of every way a binding changes, a start's included.
RebindingReachesInheritors ==
  overlapped \/ \A a \in Assets : Inherits(asset[a]) => FollowsHome(a)

\* "SLA preset and custom-minutes are mutually exclusive" (job_service.py:303),
\* also when two people edit the job.
LevelsExclusive == \A a \in Assets : ~(asset[a].preset /\ asset[a].custom)
===============================================================================
