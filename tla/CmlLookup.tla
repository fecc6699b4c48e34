------------------------------- MODULE CmlLookup -------------------------------
(* Names looked up in CML and in the model monitor: what a save binds         *)
(* (core/services), what the check buttons of the forms say before it, and    *)
(* the live status of a product (api/routers/jobs.py, apps.py).               *)
(*                                                                            *)
(* cml is [up, projects, jobs, apps], each a set: a project is [id, name], a  *)
(* job [id, project, name, run], an application [id, project, name, sub]; run *)
(* is the status of the latest run.  Names need not be unique.  The project   *)
(* of RelayOps an asset is in is [name, id], its binding.                     *)
EXTENDS Integers

CONSTANTS NoText, Unset

-----------------------------------------------------------------------------
(* Look-ups: exactly one match, or an error.                                  *)
Found(id) == [id |-> id, error |-> "none"]
Failed(error) == [id |-> Unset, error |-> error]

Sole(matches) == \E m \in matches : matches = {m}

Single(matches) ==
  IF matches = {} THEN Failed("missing")
  ELSE IF Sole(matches) THEN Found((CHOOSE m \in matches : TRUE).id) ELSE Failed("ambiguous")

ProjectId(cml, name) ==
  IF ~cml.up THEN Failed("down") ELSE Single({p \in cml.projects : p.name = name})

JobId(cml, project, name) ==
  IF ~cml.up THEN Failed("down") ELSE Single({j \in cml.jobs : j.project = project /\ j.name = name})

\* By its name; by its sub-domain when no application has the name, or to tell
\* apart those that have it.
AppId(cml, project, name, sub) ==
  LET within == {a \in cml.apps : a.project = project}
      named == IF name = NoText THEN {} ELSE {a \in within : a.name = name}
      served(apps) == IF sub = NoText THEN {} ELSE {a \in apps : a.sub = sub}
  IN CASE ~cml.up -> Failed("down")
       [] cml.up /\ (named = {} \/ Sole(named)) -> Single(IF named # {} THEN named ELSE served(within))
       [] OTHER -> IF Sole(served(named)) THEN Single(served(named)) ELSE Failed("ambiguous")

-----------------------------------------------------------------------------
(* What a save binds: [project, found, error].                                *)
Bind(project, answer) == [project |-> project, found |-> answer.id, error |-> answer.error]
Unresolved(error) == Bind(Unset, Failed(error))
NotAsked == Failed("none")

\* _resolve_cml_job and _resolve_cml_app: the project they settle on, and what
\* becomes of the answer for it.
BoundProject(cml, owning, override) ==
  IF override # NoText THEN ProjectId(cml, override)
  ELSE IF owning.id # Unset THEN Found(owning.id) ELSE Failed("unbound")

Saved(project, answer) ==
  IF project.id = Unset THEN Unresolved(project.error) ELSE Bind(project.id, answer)

SavedJob(cml, owning, override, name) ==
  LET project == BoundProject(cml, owning, override)
  IN Saved(project, IF name = NoText THEN NotAsked ELSE JobId(cml, project.id, name))

SavedApp(cml, owning, override, name, sub) ==
  LET project == BoundProject(cml, owning, override)
  IN Saved(project, IF {name, sub} = {NoText} THEN NotAsked ELSE AppId(cml, project.id, name, sub))

\* The state of a binding as a card shows it.
BindingStatus(row, named) ==
  CASE row.error # "none" -> "error"
    [] row.error = "none" /\ named -> IF row.project # Unset /\ row.found # Unset THEN "resolved" ELSE "pending"
    [] OTHER -> "unconfigured"

-----------------------------------------------------------------------------
(* The form of an application.                                                 *)

\* Any application with the sub-domain outside a project; the bounds on the
\* number of projects and on the time of the walk are left out.
Elsewhere(cml, sub, project) ==
  LET others == IF cml.up /\ sub # NoText THEN {a \in cml.apps : a.project # project /\ a.sub = sub} ELSE {}
  IN IF others = {} THEN Unset ELSE CHOOSE a \in others : TRUE

\* Mutant: the project of RelayOps goes before the one the form names.
OwningFirst(cml, owning, override) ==
  IF owning # Unset /\ owning.id # Unset THEN Found(owning.id)
  ELSE IF override # NoText THEN ProjectId(cml, override) ELSE Failed("unbound")

\* The project the probe looks in, or why there is none.
ProbedProject(cml, owning, override) ==
  CASE override # NoText -> ProjectId(cml, override)
    [] override = NoText /\ owning # Unset /\ owning.id # Unset -> Found(owning.id)
    [] OTHER -> Failed("unbound")

\* _probe_cml_app_binding; owning is Unset while the form has no project yet.
AppProbe(cml, owning, override, name, sub) ==
  LET project == ProbedProject(cml, owning, override)
      answer == AppId(cml, project.id, name, sub)
  IN CASE name = NoText /\ sub = NoText -> [ok |-> "unasked", id |-> Unset, other |-> Unset]
       [] (name # NoText \/ sub # NoText) /\ project.id = Unset ->
            [ok |-> "no", id |-> Unset, other |-> Elsewhere(cml, sub, Unset)]
       [] OTHER -> IF answer.error = "none" THEN [ok |-> "yes", id |-> answer.id, other |-> Unset]
                   ELSE [ok |-> "no", id |-> Unset, other |-> Elsewhere(cml, sub, project.id)]

\* run_application_verification: reply is what the address answered, "ok",
\* "refused" or "none"; a bad or blocked address is turned away before both.
AppCheck(cml, owning, override, name, sub, address, reply) ==
  IF address = "bad" THEN [ok |-> FALSE, binding |-> [ok |-> "unasked", id |-> Unset, other |-> Unset]]
  ELSE [ok |-> reply = "ok", binding |-> AppProbe(cml, owning, override, name, sub)]

-----------------------------------------------------------------------------
(* The form of a job, and the live status of a product's jobs.                 *)
\* run_job_verification looks the project up by its name, the override or that
\* of the project of RelayOps.  A CML that does not answer, or not with one
\* match, is not called a failure: only what CML says is missing is.
JobCheck(cml, owning, override, name) ==
  LET wanted == IF override # NoText THEN override ELSE IF owning = Unset THEN NoText ELSE owning.name
      project == ProjectId(cml, wanted)
      job == IF project.id = Unset THEN project ELSE JobId(cml, project.id, name)
  IN IF name = NoText \/ wanted = NoText THEN [ok |-> FALSE, found |-> FALSE, id |-> Unset, status |-> Unset]
     ELSE [ok |-> job.error # "missing", found |-> job.id # Unset, id |-> job.id,
           status |-> IF job.id = Unset THEN Unset
                      ELSE (CHOOSE j \in cml.jobs : j.id = job.id).run]

\* get_product_cml_status, of one job: what the row caches is read, not its name.
LiveStatus(cml, row) ==
  CASE row.project = Unset \/ row.found = Unset -> [polled |-> FALSE, status |-> "unresolved"]
    [] OTHER ->
         [polled |-> TRUE,
          status |-> IF cml.up /\ \E j \in cml.jobs : j.id = row.found
                     THEN (CHOOSE j \in cml.jobs : j.id = row.found).run ELSE "error"]

-----------------------------------------------------------------------------
(* The form of a model.  mmp is [set, listed, detailed, directory, models]:    *)
(* whether it is configured and answers for its directory and its details,     *)
(* the models listed under each name, and what the details say of each, or     *)
(* Unset: [drifted, stamp], drifted TRUE, FALSE or Unset, stamp a time that can*)
(* be read, or not.                                                            *)
ListedUnder(mmp, repo) == IF repo \in DOMAIN mmp.directory THEN mmp.directory[repo] ELSE {}
Detail(mmp, repo, model) == mmp.models[<<repo, model>>]

Step(ok, found, model, drifted) == [ok |-> ok, found |-> found, model |-> model, drifted |-> drifted]

\* run_mmp_verification, as far as the form was filled in.
ModelCheck(mmp, repo, model) ==
  CASE ~mmp.set \/ ~mmp.listed -> Step(FALSE, FALSE, FALSE, Unset)
    [] mmp.set /\ mmp.listed /\ repo = NoText -> Step(TRUE, FALSE, FALSE, Unset)
    [] mmp.set /\ mmp.listed /\ repo # NoText /\ repo \notin DOMAIN mmp.directory ->
         Step(FALSE, FALSE, FALSE, Unset)
    [] OTHER ->
         IF model = NoText THEN Step(TRUE, TRUE, FALSE, Unset)
         ELSE IF model \notin ListedUnder(mmp, repo) THEN Step(FALSE, TRUE, FALSE, Unset)
         ELSE IF ~mmp.detailed THEN Step(FALSE, TRUE, TRUE, Unset)
         ELSE Step(TRUE, TRUE, TRUE,
                   IF Detail(mmp, repo, model) = Unset THEN Unset ELSE Detail(mmp, repo, model).drifted)

\* MmpInterface.check_drift, what the monitor makes of the same binding.
DriftCheck(mmp, repo, model) ==
  CASE ~mmp.set -> "skipped"
    [] mmp.set /\ ~mmp.listed -> "inconclusive"
    [] mmp.set /\ mmp.listed /\ repo \notin DOMAIN mmp.directory -> "skipped"
    [] OTHER ->
         IF ~mmp.detailed THEN "inconclusive"
         ELSE LET detail == Detail(mmp, repo, model)
              IN IF detail = Unset THEN "skipped"
                 ELSE IF detail.drifted = Unset \/ ~detail.stamp THEN "inconclusive"
                 ELSE IF detail.drifted THEN "create_issue" ELSE "close_issue"
=============================================================================
