------------------------------ MODULE Enrichment ------------------------------
(* A draft of an onboarding checked against CML and the model monitor         *)
(* (core/agent/onboarding_enrich.py, onboarding_graph.py): names are settled, *)
(* gaps filled, assets moved to the project that has them, and questions asked*)
(* about the rest.                                                            *)
(*                                                                            *)
(* A name is [key, real]: what is left of it without case and separators, and *)
(* whether it is spelled as the platform spells it.  A draft is [binding,     *)
(* assets], the binding a name of a CML project, the assets a sequence, jobs  *)
(* first, of [kind, project, name, cron, controlm, sub]: project overrides the*)
(* binding, sub is the sub-domain, cron and controlm say whether there is one.*)
(* cml is [listed, projects]: whether it lists its projects, and the projects *)
(* by key, [read, jobs, apps], read saying whether its assets can be fetched; *)
(* there a job is [key, cron] and an application [key, sub].  No two names of *)
(* a list differ in case or separators only.                                  *)
EXTENDS Integers, Sequences, FiniteSets, FiniteSetsExt

CONSTANTS NoText, Unset

-----------------------------------------------------------------------------
Real(key) == [key |-> key, real |-> TRUE]
Key(name) == IF name = NoText THEN NoText ELSE name.key
Places(draft) == DOMAIN draft.assets

\* _canonical_in_pool, of the projects CML lists.
Settled(cml, name) ==
  IF name # NoText /\ cml.listed /\ name.key \in DOMAIN cml.projects THEN Real(name.key) ELSE name

\* fetch_cml_project_assets: the name must be CML's own.
Fetched(cml, name) ==
  IF name # NoText /\ name.real /\ name.key \in DOMAIN cml.projects /\ cml.projects[name.key].read
  THEN cml.projects[name.key] ELSE Unset

\* _effective_cml_binding; an asset that follows the binding of the draft.
Effective(draft, asset) == IF asset.project # NoText THEN asset.project ELSE draft.binding
Follows(draft, asset) == asset.project = NoText \/ Key(asset.project) = Key(draft.binding)

JobHits(project, name) == IF name = NoText THEN {} ELSE {j \in project.jobs : j.key = name.key}
ServedAt(project, sub) == IF sub = NoText THEN {} ELSE {a \in project.apps : a.sub = sub}
AppHits(project, asset) ==
  LET served == ServedAt(project, asset.sub)
  IN IF served # {} \/ asset.name = NoText THEN served ELSE {a \in project.apps : a.key = asset.name.key}

Hit(hits) == CHOOSE h \in hits : TRUE

-----------------------------------------------------------------------------
(* What the model may pick, always among what CML has: the sets of drafts.     *)

\* resolve_cml_binding: a name that CML has is only spelled its way.
BindingPicks(cml, draft) ==
  IF ~cml.listed THEN {draft}
  ELSE IF draft.binding # NoText /\ draft.binding.key \in DOMAIN cml.projects
       THEN {[draft EXCEPT !.binding = Settled(cml, @)]}
       ELSE {draft} \cup {[draft EXCEPT !.binding = Real(k)] : k \in DOMAIN cml.projects}

\* resolve_cml_assets: the name of the project, borrowed for a job, is cleared;
\* a job without a name of either kind may get one.
Borrowed(draft, asset, project) ==
  /\ asset.kind = "job" /\ asset.name # NoText /\ Follows(draft, asset)
  /\ asset.name.key = Key(draft.binding) /\ JobHits(project, asset.name) = {}

Cleared(draft, project) ==
  [draft EXCEPT !.assets = [n \in Places(draft) |->
    IF Borrowed(draft, draft.assets[n], project) THEN [draft.assets[n] EXCEPT !.name = NoText]
    ELSE draft.assets[n]]]

AssetPicks(cml, draft) ==
  LET project == Fetched(cml, draft.binding)
      clear == Cleared(draft, project)
      nameless == {n \in Places(draft) :
                     LET a == clear.assets[n]
                     IN a.kind = "job" /\ Follows(draft, a) /\ a.name = NoText /\ ~a.controlm}
      given(a, pick) == IF pick = Unset THEN a
                        ELSE [a EXCEPT !.name = Real(pick.key), !.cron = @ \/ pick.cron]
  IN IF project = Unset \/ project.jobs = {} THEN {draft}
     ELSE {[clear EXCEPT !.assets = [n \in Places(draft) |->
              IF n \in nameless THEN given(clear.assets[n], picks[n]) ELSE clear.assets[n]]]
             : picks \in [nameless -> project.jobs \cup {Unset}]}

\* node_resolve_cml.
Resolutions(cml, draft) == UNION {AssetPicks(cml, d) : d \in BindingPicks(cml, draft)}

-----------------------------------------------------------------------------
(* enrich_validation_report: the draft, and the questions, [about, field].     *)
Question(about, field) == [about |-> about, field |-> field]

\* validate_payload, as far as the rest answers it.
Offline(draft) ==
  (IF draft.binding = NoText THEN {Question(0, "binding")} ELSE {})
    \cup {Question(n, "cron") : n \in {k \in Places(draft) :
            LET a == draft.assets[k] IN a.kind = "job" /\ a.name # NoText /\ ~a.cron}}

Spelled(cml, draft) ==
  [binding |-> Settled(cml, draft.binding),
   assets |-> [n \in Places(draft) |-> [draft.assets[n] EXCEPT !.project = Settled(cml, @)]]]

UnknownProjects(cml, draft) ==
  LET unknown(name) == cml.listed /\ name # NoText /\ Key(name) \notin DOMAIN cml.projects
  IN (IF unknown(draft.binding) THEN {Question(0, "binding")} ELSE {})
       \cup {Question(n, "project") : n \in {k \in Places(draft) : unknown(draft.assets[k].project)}}

\* _backfill_cml_assets, of one asset that follows the binding.
Filled(project, asset) ==
  LET job == JobHits(project, asset.name)
      app == AppHits(project, asset)
  IN CASE asset.kind = "job" /\ job # {} ->
            [asset EXCEPT !.name = Real(@.key), !.cron = @ \/ Hit(job).cron]
       [] asset.kind = "app" /\ app # {} ->
            [asset EXCEPT !.name = IF @ = NoText /\ Hit(app).key # NoText THEN Real(Hit(app).key) ELSE @,
                          !.sub = IF @ = NoText THEN Hit(app).sub ELSE @]
       [] OTHER -> asset

Unmatched(project, asset) ==
  IF asset.kind = "job"
  THEN IF asset.name # NoText THEN JobHits(project, asset.name) = {} ELSE project.jobs # {} /\ ~asset.controlm
  ELSE AppHits(project, asset) = {} /\ project.apps # {}

Enriched(cml, draft) ==
  LET spelled == Spelled(cml, draft)
      project == Fetched(cml, spelled.binding)
      mine == IF project = Unset THEN {}
              ELSE {n \in Places(draft) : Follows(spelled, spelled.assets[n])}
      filled == [n \in Places(draft) |->
                   IF n \in mine THEN Filled(project, spelled.assets[n]) ELSE spelled.assets[n]]
      scheduled == {Question(n, "cron") : n \in {k \in mine : filled[k].cron}}
  IN [draft |-> [spelled EXCEPT !.assets = filled],
      asked |-> (Offline(draft) \ scheduled) \cup UnknownProjects(cml, draft)
                \cup {Question(n, "name") : n \in {k \in mine : Unmatched(project, spelled.assets[k])}}]

-----------------------------------------------------------------------------
(* reconcile_cross_project_assets: documented are the names of CML projects    *)
(* that the document links to.                                                 *)
Mentions(documented, draft) ==
  documented \o <<draft.binding>> \o [n \in Places(draft) |-> draft.assets[n].project]

\* The first of the spellings is the one that is fetched.
Spelling(mentions, key) == mentions[Min({n \in DOMAIN mentions : Key(mentions[n]) = key})]
Evidence(cml, mentions) ==
  {k \in {Key(mentions[n]) : n \in DOMAIN mentions} : Fetched(cml, Spelling(mentions, k)) # Unset}

Homes(cml, evidence, asset) ==
  {k \in evidence : IF asset.kind = "job" THEN JobHits(cml.projects[k], asset.name) # {}
                    ELSE ServedAt(cml.projects[k], asset.sub) # {}}

\* Mutant: that the project an asset is bound to has it, too, is not looked at.
MovesRegardless(homes, bound) == Cardinality(homes \ {bound}) = 1

Moves(homes, bound) == Cardinality(homes) = 1 /\ bound \notin homes
Torn(homes, bound)  == Cardinality(homes) > 1 /\ bound \notin homes

MovedTo(cml, asset, home) ==
  LET hits == JobHits(cml.projects[home.key], asset.name)
  IN IF asset.kind = "job" THEN [asset EXCEPT !.project = home, !.name = Real(@.key), !.cron = @ \/ Hit(hits).cron]
     ELSE [asset EXCEPT !.project = home]

Reconciled(cml, documented, draft, asked) ==
  LET mentions == Mentions(documented, draft)
      evidence == Evidence(cml, mentions)
      homes(n) == Homes(cml, evidence, draft.assets[n])
      bound(n) == Effective(draft, draft.assets[n])
      moved == {n \in Places(draft) : Moves(homes(n), Key(bound(n)))}
      torn == {n \in Places(draft) : Torn(homes(n), Key(bound(n)))}
      home(n) == Spelling(mentions, Hit(homes(n) \ {Key(bound(n))}))
      places == {home(n) : n \in moved} \cup {bound(n) : n \in {k \in Places(draft) : Key(bound(k)) \in homes(k)}}
      answered == {Question(n, f) : n \in moved, f \in {"name", "project"}}
      split == IF Cardinality(places) > 1 THEN {Question(0, "split")} ELSE {}
  IN IF Cardinality(evidence) < 2 THEN [draft |-> draft, asked |-> asked]
     ELSE [draft |-> [draft EXCEPT !.assets = [n \in Places(draft) |->
                        IF n \in moved THEN MovedTo(cml, draft.assets[n], home(n)) ELSE draft.assets[n]]],
           asked |-> (asked \ answered) \cup {Question(n, "project") : n \in torn} \cup split]

\* node_finalize and node_reconcile_projects; _validate_and_enrich, which has
\* no document any more, when a reviewer saves.
Reviewed(cml, documented, draft) ==
  LET enriched == Enriched(cml, draft)
  IN Reconciled(cml, documented, enriched.draft, enriched.asked)

\* partition_payload_by_cml_project: the parts by the key of their project.
Parts(draft) ==
  LET key(n) == Key(Effective(draft, draft.assets[n]))
      at(k) == {n \in Places(draft) : key(n) = k}
      name(k) == IF k = Key(draft.binding) THEN draft.binding
                 ELSE Effective(draft, draft.assets[Min(at(k))])
  IN [k \in {key(n) : n \in Places(draft)} |->
        [binding |-> name(k), assets |-> [n \in at(k) |-> [draft.assets[n] EXCEPT !.project = NoText]]]]

-----------------------------------------------------------------------------
(* The binding to the model monitor.  A reference is [id, key], id its number  *)
(* or Unset; the directory is a set of [repo, id], hidden those that only a     *)
(* look-up by number shows.                                                    *)
ByNumber(known, id) == {r \in known : id # Unset /\ r.id = id}
ExactRepos(directory, key) == {r \in directory : r.repo = key}

FirstHits(hits) ==
  LET found == {n \in DOMAIN hits : hits[n] # {}} IN IF found = {} THEN {} ELSE hits[Min(found)]

\* resolve_mmp_project: the repository of the number, or of the first name that is one.
MmpMatches(directory, hidden, raw, fallbacks) ==
  LET numbered == ByNumber(directory \cup hidden, raw.id)
      keys == <<raw.key>> \o fallbacks
  IN IF numbered # {} THEN numbered
     ELSE FirstHits([n \in DOMAIN keys |-> ExactRepos(directory, keys[n])])

\* resolve_mmp_binding: otherwise the likeness of names decides, or the model picks
\* among the likest; scores are left out, so any repository of the directory may
\* come out, for a number that matches nothing too.
MmpPicks(directory, hidden, raw, fallbacks) ==
  LET matches == MmpMatches(directory, hidden, raw, fallbacks)
  IN IF matches # {} THEN {Hit(matches).repo} ELSE {NoText} \cup {r.repo : r \in directory}
=============================================================================
