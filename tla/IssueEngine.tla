---------------------------- MODULE IssueEngine ----------------------------
(***************************************************************************)
(* The issue table as core/issue_management/issue_engine.py changes it. *)
(* *)
(* rows are the committed issues, a function on the ids in use.  A session *)
(* s = [writes, fresh] holds the rows it has flushed but not committed, and *)
(* the ids whose issue it will hand to the e-mail dispatcher. *)
(* *)
(* One job (with its model) and one application are monitored, so an issue *)
(* type determines the entity.  Assignee, SLA deadline, texts and *)
(* notifications are left out: no check below reads them. *)
(***************************************************************************)
EXTENDS Integers, FiniteSets

IssueType == {"job_failed", "job_stale", "app_offline", "mmp_drift",
              "mmp_run_pending_approval", "mmp_pending_review"}

Active   == {"open", "in_progress"}
Terminal == {"resolved", "closed", "false_positive"}

Unkeyed == 0  \* dedup_key NULL; a key is the id of the run the event is about

Issue == [type     : IssueType,
          key      : Nat,
          status   : Active \union Terminal,
          resolved : BOOLEAN,  \* resolved_at is set
          created  : Nat]      \* created_at

Event(type, key) == [type |-> type, key |-> key]

\* The rows a session sees: the committed ones, and its own writes over them.
Over(writes, rows) ==
  [i \in DOMAIN writes \union DOMAIN rows |->
     IF i \in DOMAIN writes THEN writes[i] ELSE rows[i]]

Session == [writes |-> [i \in {} |-> 0], fresh |-> {}]

\* Mutant: an issue of any status counts.
HasEverHadIssue(rows, type) == \E i \in DOMAIN rows : rows[i].type = type

\* has_open_issue
HasOpenIssue(rows, type) ==
  \E i \in DOMAIN rows : rows[i].type = type /\ rows[i].status \in Active

\* has_issue_for_dedup_key: whatever became of the issue.
HasIssueForKey(rows, type, key) ==
  \E i \in DOMAIN rows : rows[i].type = type /\ rows[i].key = key

\* Mutant: the check by open issue is used for keyed events too.
OpenDuplicate(rows, e) == HasOpenIssue(rows, e.type)

\* create_issue's duplicate check.  It opens a session of its own: it is asked
\* of the committed rows only.
Duplicate(rows, e) ==
  IF e.key = Unkeyed THEN HasOpenIssue(rows, e.type)
                     ELSE HasIssueForKey(rows, e.type, e.key)

\* transition_open_issue's query, asked of the session's own view.
ApprovalIssues(view, e) ==
  {i \in DOMAIN view : /\ e.type = "mmp_pending_review"
                       /\ e.key # Unkeyed
                       /\ view[i].type = "mmp_run_pending_approval"
                       /\ view[i].key = e.key
                       /\ view[i].status \in Active}

NewIssueId(view) == CHOOSE i \in 1..(Cardinality(DOMAIN view) + 1) : i \notin DOMAIN view

Wrote(s, i, row) == [writes |-> Over([j \in {i} |-> row], s.writes),
                     fresh  |-> s.fresh \union {i}]

\* create_issue for event e at time now: nothing for a duplicate; a pending
\* review takes over the open pending-approval issue of its run; any other
\* event gets a row of its own.
Created(rows, s, e, now) ==
  LET view     == Over(s.writes, rows)
      approval == ApprovalIssues(view, e)
      i        == CHOOSE j \in approval : TRUE
      row      == [type |-> e.type, key |-> e.key, status |-> "open",
                   resolved |-> FALSE, created |-> now]
  IN CASE Duplicate(rows, e) -> s
       [] approval # {} /\ ~ Duplicate(rows, e) -> Wrote(s, i, [view[i] EXCEPT !.type = e.type])
       [] OTHER -> Wrote(s, NewIssueId(view), row)

\* auto_close_open_issues' query: the active issues of a type created before.
Recovered(view, type, before) ==
  {i \in DOMAIN view : view[i].type = type /\ view[i].status \in Active /\ view[i].created < before}

\* ... and its writes, in the caller's session.
AutoClosed(view, s, ids) ==
  [s EXCEPT !.writes =
     Over([i \in ids |-> [view[i] EXCEPT !.status = "closed", !.resolved = TRUE]], @)]
=============================================================================
