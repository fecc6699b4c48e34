-------------------------------- MODULE MCRules --------------------------------
(* Users of each role with and without groups, a world of three products in   *)
(* two projects, six hours to the day, and a calendar of two ticks to the     *)
(* minute, four minutes to the hour, three hours to the day, three days to the*)
(* week, months of three and four days.                                       *)
EXTENDS Rules

Text(t) == [raw |-> t, key |-> t]
Group(key, name, ref) == [key |-> Text(key), name |-> Text(name), ref |-> Text(ref)]
User(role, owner, groups) == [role |-> role, owner |-> owner, groups |-> groups]

MCUsers ==
  {User("admin", TRUE, {}), User("admin", FALSE, {}), User("relayops_member", FALSE, {}),
   User("regular_user", FALSE, {}), User("regular_user", FALSE, {Text("ops"), Text("data")})}

Groups == {Group("ops", "Operations", "cn=ops"), Group("other", "Others", "cn=other")}

MCFacts ==
  [system : BOOLEAN, mine : BOOLEAN, member : {Unset, "product_member", "viewer"},
   ownerGroup : {Unset} \cup Groups, groups : {{}} \cup {{g} : g \in Groups}, cml : {NoText}, mmp : {NoText}]

Part(mine, member, groups, cml, mmp) ==
  [system |-> FALSE, mine |-> mine, member |-> member, ownerGroup |-> Unset, groups |-> groups,
   cml |-> cml, mmp |-> mmp]

Parts == {Part(TRUE, Unset, {}, "churn", "churn"), Part(FALSE, Unset, Groups, "churn", NoText)}

Exec(job, run, status, at) == [job |-> job, run |-> run, status |-> status, at |-> at]

Executions(s, t) ==
  {Exec("j1", 1, s, 13), Exec("j1", 2, "failed", 25), Exec("j1", 3, t, 32), Exec("j2", 4, t, 32),
   Exec("j2", 5, "completed", 27), Exec("j3", 6, s, 14), Exec("j3", 7, "timeout", 31)}

Issue(id, job, product, type, status, run, created, updated, resolved, deadline, text, mine) ==
  [id |-> id, job |-> job, product |-> product, type |-> type, status |-> status, run |-> run,
   created |-> created, updated |-> updated, resolved |-> resolved, deadline |-> deadline, text |-> text,
   assigned |-> mine = "assigned", raised |-> mine = "raised"]

IssuesOf(status, mine) ==
  {Issue(1, "j1", "x1", "job_failed", status, 2, 25, 29, IF status = "open" THEN Unset ELSE 29, 28, "seen", mine),
   Issue(2, "j3", "x3", "job_failed", "in_progress", 7, 31, 33, Unset, Unset, NoText, mine),
   Issue(3, "j2", "x1", "job_stale", "closed", 4, 32, 33, 33, 35, AutoClosed, "none"),
   Issue(4, Unset, Unset, "mmp_drift", "open", Unset, 14, 15, Unset, 30, NoText, mine),
   Issue(5, Unset, "x2", "handover_review", "open", Unset, 17, 18, Unset, 26, NoText, "none")}

Entry(id, about, issue, action, at, title, to) ==
  [id |-> id, about |-> about, issue |-> issue, action |-> action, at |-> at, title |-> title, to |-> to]

Trail ==
  {Entry(1, "issue", 1, "create", 3, NoText, Unset), Entry(2, "notification", 1, "issue_assigned", 3, "new", "ann"),
   Entry(3, "notification", 1, "system_alert", 3, "new", "ann"), Entry(4, "notification", 1, "system_alert", 3, "new", "ben"),
   Entry(5, "notification", 1, "issue_created", 3, "new", "cat"), Entry(6, "issue", 1, "update", 4, NoText, Unset),
   Entry(7, "notification", 1, "issue_reassigned", 4, "new", "ben"), Entry(8, "notification", 1, "sla_overdue", 9, "late", "ben"),
   Entry(9, "issue", 2, "create", 9, NoText, Unset)}

MCTrails == SUBSET Trail \ {{}}

World(part, s, t, status, mine) ==
  [projects |-> [p \in {"p1", "p2"} |-> IF p = "p1" THEN part ELSE Part(FALSE, Unset, {}, "fraud", "fraud")],
   products |-> [x \in {"x1", "x2", "x3"} |-> IF x = "x3" THEN "p2" ELSE "p1"],
   jobs |-> [j \in {"j1", "j2", "j3"} |-> IF j = "j3" THEN "x3" ELSE "x1"],
   execs |-> Executions(s, t), issues |-> IssuesOf(status, mine), logs |-> Trail, now |-> 34]

MCWorlds ==
  {World(part, s, t, status, mine) : part \in Parts, s \in {"completed", "failed"}, t \in {"failed", "completed"},
     status \in {"open", "resolved", "false_positive"}, mine \in {"none", "assigned", "raised"}}

MCPeriods == {WeekOf(26), Month(0)}

MCDefaultRules == [runs |-> 2, rate |-> 40, streak |-> 2, open |-> 1, recent |-> 6]

-----------------------------------------------------------------------------
(* Two projects of CML, a second one of the same name, a job and an           *)
(* application that share their name with another, sub-domains in both.       *)
CmlJob(id, project, name, run) == [id |-> id, project |-> project, name |-> name, run |-> run]
CmlApp(id, project, name, sub) == [id |-> id, project |-> project, name |-> name, sub |-> sub]

Cluster(up, twins, run) ==
  [up |-> up,
   projects |-> {[id |-> 1, name |-> "churn"], [id |-> 2, name |-> "fraud"]}
                \cup {[id |-> n, name |-> "fraud"] : n \in twins},
   jobs |-> {CmlJob(11, 1, "train", run), CmlJob(12, 1, "score", run), CmlJob(13, 1, "score", "ok"),
             CmlJob(21, 2, "train", "ok")},
   apps |-> {CmlApp(31, 1, "portal", "a"), CmlApp(32, 1, "portal", "b"), CmlApp(33, 2, "portal", "c"),
             CmlApp(34, 2, "board", "a")}]

MCClusters == {Cluster(TRUE, {}, "ok"), Cluster(TRUE, {3}, "failed"), Cluster(FALSE, {}, "ok")}

MCAssets ==
  [owning : [name : {NoText, "churn", "fraud"}, id : {Unset, 1, 2}], override : {NoText, "fraud", "gone"},
   name : {NoText, "train", "score", "portal", "ghost"}, sub : {NoText, "a", "c", "z"}]

\* Models that are listed, with details or without, and one that is gone.
MCMonitors ==
  {[set |-> b[1], listed |-> b[2], detailed |-> b[3], directory |-> "r" :> {"m", "n"},
    models |-> <<"r", "m">> :> [drifted |-> d, stamp |-> s] @@ <<"r", "n">> :> Unset
               @@ <<"r", "gone">> :> Unset @@ <<"r", NoText>> :> Unset @@ <<"q", "m">> :> Unset]
     : b \in {<<TRUE, TRUE, TRUE>>, <<TRUE, TRUE, FALSE>>, <<TRUE, FALSE, FALSE>>, <<FALSE, FALSE, FALSE>>},
       d \in {TRUE, FALSE, Unset}, s \in BOOLEAN}

Name(key, real) == [key |-> key, real |-> real]
Held(read, jobs, apps) == [read |-> read, jobs |-> jobs, apps |-> apps]
Scheduled(key) == [key |-> key, cron |-> TRUE]
Idle(key) == [key |-> key, cron |-> FALSE]
Portal == [key |-> "portal", sub |-> "a"]

\* The bound project has the job, does not, or cannot be read; so do two others.
MCPlatforms ==
  {[listed |-> l, projects |-> "churn" :> c @@ "fraud" :> f @@ "sales" :> s]
     : l \in BOOLEAN, c \in {Held(TRUE, {Idle("score")}, {}), Held(FALSE, {Scheduled("train")}, {Portal}),
                            Held(TRUE, {Scheduled("train"), Idle("score")}, {Portal})},
       f \in {Held(TRUE, {Scheduled("train")}, {Portal}), Held(TRUE, {}, {})},
       s \in {Held(TRUE, {Idle("train")}, {}), Held(FALSE, {}, {})}}

MCLinks ==
  {<<>>, <<Name("sales", TRUE), Name("fraud", TRUE)>>, <<Name("sales", FALSE), Name("fraud", TRUE), Name("sales", TRUE)>>,
   <<Name("churn", FALSE), Name("fraud", TRUE), Name("sales", TRUE)>>}

DraftJob(project, name, cron, controlm) ==
  [kind |-> "job", project |-> project, name |-> name, cron |-> cron, controlm |-> controlm, sub |-> NoText]
DraftApp(project, name, sub) ==
  [kind |-> "app", project |-> project, name |-> name, cron |-> FALSE, controlm |-> FALSE, sub |-> sub]

DraftJobs ==
  {DraftJob(p, n, FALSE, FALSE) : p \in {NoText, Name("fraud", FALSE)},
                                  n \in {NoText, Name("train", FALSE), Name("churn", TRUE), Name("ghost", TRUE)}}
    \cup {DraftJob(NoText, NoText, TRUE, TRUE), DraftJob(Name("gone", TRUE), Name("train", TRUE), FALSE, FALSE)}
DraftApps ==
  {DraftApp(NoText, NoText, "a"), DraftApp(NoText, Name("portal", TRUE), NoText), DraftApp(Name("fraud", TRUE), NoText, "a")}

MCDrafts ==
  {[binding |-> b, assets |-> a]
     : b \in {NoText, Name("churn", TRUE), Name("churn", FALSE), Name("lost", TRUE)},
       a \in {<<j>> : j \in DraftJobs} \cup {<<j, x>> : j \in DraftJobs, x \in DraftApps}
            \cup {<<DraftJob(NoText, Name("score", TRUE), FALSE, FALSE), j>> : j \in DraftJobs}}

Repo(repo, id) == [repo |-> repo, id |-> id]
MCDirectory == {Repo("x@a", 1), Repo("x@b", 2), Repo("y@a", 3)}
MCHidden == {Repo("z@a", 4)}
MCReferences ==
  [raw : [id : {Unset, 1, 4, 9}, key : {NoText, "x", "x@b"}], fallbacks : {<<>>, <<"y@a">>, <<"w", "x@a">>}]

-----------------------------------------------------------------------------
MCMonthDays == <<3, 4>>

Cron(min, hour, dom, mon, dow) == [min |-> min, hour |-> hour, dom |-> dom, mon |-> mon, dow |-> dow]

MCCrons ==
  {Cron({At(1)}, {At(1)}, {Every}, {Every}, {Every}),                        \* daily
   Cron({At(1), At(3)}, {At(0), At(2)}, {Every}, {Every}, {Every}),          \* lists
   Cron({<<Absent, Absent, 2>>}, {Every}, {Every}, {Every}, {Every}),          \* every other minute
   Cron({At(0)}, {At(0)}, {Every}, {Every}, {<<1, 3, 1>>}),                \* a range of weekdays
   Cron({At(2)}, {At(0), At(1)}, {At(1)}, {Every}, {At(2)}),             \* a date or a weekday
   Cron({At(0)}, {At(2)}, {At(4)}, {At(2)}, {Every}),                    \* once a year
   Cron({At(0)}, {At(0)}, {At(4)}, {At(1)}, {Every}),                    \* never
   Cron({<<1, Absent, 0>>}, {Every}, {Every}, {Every}, {Every}),               \* unreadable
   NoCron}

MCInstants == 504..600
MCMoments == {504, 509, 533, 535, 559, 610}
MCGaps == {<<5>>, <<29, 29>>, <<5, 7>>, <<3, 24, 24>>}
=============================================================================
