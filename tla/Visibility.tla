------------------------------ MODULE Visibility ------------------------------
(* Who sees what: the access rules of the REST routers (projects, members,    *)
(* issues, analytics, audit logs), of their services, and of the assistant's  *)
(* tools, as the asking user meets them.                                      *)
(*                                                                            *)
(* A user is [role, owner, groups], owner saying that the configuration names *)
(* him a platform owner.  A project is [system, mine, member, ownerGroup,     *)
(* groups, cml, mmp], mine and member being the user's own part in it.  A     *)
(* world w is [projects, products, jobs, issues, ...]: products are mapped to *)
(* their project, jobs to their product.  An issue has also [assigned,        *)
(* raised]: to, and by, the asking user.                                      *)
EXTENDS HealthStats

Roles == {"admin", "relayops_member", "regular_user"}

\* is_elevated_role; the see-all tier of the routers and the tools adds the owners.
Elevated(u) == u.role \in {"admin", "relayops_member"}
SeesAll(u)  == Elevated(u) \/ u.owner

\* Signing in makes a platform owner an administrator, and keeps him one.
Account(u) == u.role \in Roles /\ (u.owner => u.role = "admin")

-----------------------------------------------------------------------------
(* Support groups.  A text is its two readings [raw, key], in lower case and   *)
(* as a group key; a support group is [key, name, ref].                        *)
Readings(t) == {t.raw, t.key} \ {NoText}

GroupTokens(u) == UNION {Readings(g) : g \in u.groups}

Candidates(g) == ({g.key.raw, g.name.key} \cup Readings(g.ref)) \ {NoText}

\* user_matches_support_group, user_has_project_group_access.
InGroup(u, g) == g # Unset /\ GroupTokens(u) \cap Candidates(g) # {}
GroupReach(u, p) == InGroup(u, p.ownerGroup) \/ \E g \in p.groups : InGroup(u, g)

-----------------------------------------------------------------------------
(* Projects and their assets.                                                  *)
Editors == {"product_member"}
IsMember(p) == p.member # Unset

\* Mutant: groups are not looked at in the list.
ListedWithoutGroups(u, p) == Elevated(u) \/ p.mine \/ p.system \/ IsMember(p)

\* list_projects_for_user.
ProjectListed(u, p) ==
  Elevated(u) \/ p.mine \/ IsMember(p) \/ (~p.system /\ GroupReach(u, p)) \/ p.system

\* get_project_for_user, the gate of every page of a project.
ProjectOpens(u, p) ==
  p.system \/ Elevated(u) \/ p.mine \/ IsMember(p) \/ GroupReach(u, p)

\* What the member pages make of the user.
MemberState(u, p) ==
  CASE p.system -> "system_locked"
    [] ~p.system /\ (Elevated(u) \/ p.mine) -> "owner"
    [] ~p.system /\ ~Elevated(u) /\ ~p.mine /\ (IsMember(p) \/ GroupReach(u, p)) -> "member"
    [] OTHER -> "forbidden"

MembersOpen(u, p, write) == MemberState(u, p) \in IF write THEN {"owner"} ELSE {"owner", "member"}

\* _check_project_access: the products of a project.
ProductsOpen(u, p, write) ==
  \/ Elevated(u) \/ p.mine \/ (p.system /\ ~write)
  \/ write /\ p.member \in Editors
  \/ ~write /\ (IsMember(p) \/ GroupReach(u, p))

\* _check_product_access: jobs and applications; a product is of the system with its project.
AssetsOpen(u, p, write) ==
  IF write THEN Elevated(u) \/ p.mine \/ p.member \in Editors
           ELSE Elevated(u) \/ p.system \/ p.mine \/ IsMember(p) \/ GroupReach(u, p)

-----------------------------------------------------------------------------
(* Issues.                                                                     *)

\* The projects a user belongs to, of the three copies of the helper.
Belongs(u, p) == p.mine \/ IsMember(p) \/ GroupReach(u, p)

ProjectOf(w, issue) == IF issue.product = Unset THEN Unset ELSE w.products[issue.product]
InReach(w, u, issue) == issue.product # Unset /\ Belongs(u, w.projects[ProjectOf(w, issue)])
Own(issue) == issue.assigned \/ issue.raised

\* _user_can_access_issue: an issue's page, work-space, export and actions.
IssueOpens(w, u, issue) == SeesAll(u) \/ Own(issue) \/ InReach(w, u, issue)

\* GET /api/issues: the groups of the user are not handed to the helper.
IssueListed(w, u, issue) ==
  \/ SeesAll(u)
  \/ issue.product # Unset /\ LET p == w.projects[ProjectOf(w, issue)] IN p.mine \/ IsMember(p)

MyIssue(issue) == issue.assigned /\ issue.type # "handover_review"
PendingHandover(u, issue) == u.owner /\ issue.type = "handover_review" /\ issue.status = "open"

\* The work-space of an issue exists for what an operator works on.
Workspace(w, u, issue) == IssueOpens(w, u, issue) /\ issue.type # "handover_review"

\* The audit log knows platform owners only.
AuditIssue(w, u, issue) == u.owner \/ Own(issue) \/ InReach(w, u, issue)

\* Entries are [by_me, about, project]: about a project, a product or something else.
AuditEntry(w, u, entry) ==
  \/ u.owner \/ entry.by_me
  \/ entry.about \in {"project", "product"} /\ Belongs(u, w.projects[entry.project])

-----------------------------------------------------------------------------
(* Analytics.                                                                  *)
ProductReach(w, u, product) == Belongs(u, w.projects[w.products[product]])

\* _get_scoped_products, _apply_issue_scope: an operator of RelayOps sees all.
AnalyticsProduct(w, u, product) == SeesAll(u) \/ ProductReach(w, u, product)
AnalyticsIssue(w, u, issue) == SeesAll(u) \/ InReach(w, u, issue)

\* _can_access_project and _can_access_product do not know platform owners.
ProjectDrills(u, p) == Elevated(u) \/ Belongs(u, p)
ProductDrills(w, u, product) == Elevated(u) \/ ProductReach(w, u, product)
ExportsAll(u) == SeesAll(u)

-----------------------------------------------------------------------------
(* The assistant.                                                              *)
ToolProject(u, p) == SeesAll(u) \/ Belongs(u, p)
ToolProduct(w, u, product) == ToolProject(u, w.projects[w.products[product]])
ToolJob(w, u, job) == ToolProduct(w, u, w.jobs[job])

\* Mutant: what the user raised himself is forgotten.
ToolIssueOfReach(w, u, issue) == SeesAll(u) \/ issue.assigned \/ InReach(w, u, issue)

\* _scoped_issue_query, of every tool that reads issues.
ToolIssue(w, u, issue) == SeesAll(u) \/ InReach(w, u, issue) \/ Own(issue)

\* The live tools ask CML and MMP themselves, by the name of a project there.
Privileged(u) == SeesAll(u)

LiveNamed(w, u, name, kind) ==
  Privileged(u) \/ \E p \in DOMAIN w.projects : ToolProject(u, w.projects[p]) /\ w.projects[p][kind] = name

\* cml_live_projects, mmp_live_projects: of the names the platform has, those shown.
LiveDirectory(w, u, names, kind) ==
  {n \in names : \/ Privileged(u)
                 \/ \E p \in DOMAIN w.projects :
                      ToolProject(u, w.projects[p]) /\ w.projects[p][kind] = n}

\* The CML name a job's or an application's live data is read under; Unset is an error.
LiveName(w, u, asset) ==
  LET project == w.projects[w.products[asset.product]]
      name == IF asset.cml # NoText THEN asset.cml ELSE project.cml
  IN IF ~ToolProduct(w, u, asset.product) \/ name = NoText THEN Unset ELSE name

\* cml_live_job_runs: an asset is judged by its product, a bare name by the name.
LiveRuns(w, u, asset, name) ==
  IF asset # Unset THEN LiveName(w, u, asset) # Unset
  ELSE name # NoText /\ LiveNamed(w, u, name, "cml")

\* cml_live_apps: a name given along with an application replaces its own.
LiveApps(w, u, asset, name) ==
  CASE asset # Unset /\ ~ToolProduct(w, u, asset.product) -> Unset
    [] asset # Unset /\ ToolProduct(w, u, asset.product) ->
         IF name # NoText THEN name ELSE LiveName(w, u, asset)
    [] OTHER -> IF name # NoText /\ LiveNamed(w, u, name, "cml") THEN name ELSE Unset

\* cml_get_raw, mmp_get_raw: only those who see all, and only a path of the platform.
RawRead(u, path) == Privileged(u) /\ path = "relative"
=============================================================================
