------------------------------ MODULE AuditTrail ------------------------------
(* The audit log of issues (api/routers/audit_logs.py): the summary of an     *)
(* issue, its timeline, and the folding of the notes that go to several       *)
(* platform owners at once.  A log entry is [id, about, issue, action, at,    *)
(* title, to]: an entry about a notification has its type as action.          *)
EXTENDS Pages

CONSTANT PlatformOwners   \* the users the configuration names

IsNote(e) == e.about = "notification"

OldestFirst(entries) == Ordered(entries, LAMBDA a, b : a.at < b.at \/ (a.at = b.at /\ a.id < b.id))

\* The entries of an issue, its own and the notifications about it.
About(logs, issue) == {e \in logs : e.issue = issue /\ e.about \in {"issue", "notification"}}
Entries(logs, issue) == OldestFirst(About(logs, issue))
Lifecycle(logs, issue) == OldestFirst({e \in About(logs, issue) : ~IsNote(e)})

\* A row of the list of issues; without an entry the issue's own time stands in.
Summary(logs, issue, updated) ==
  LET events == Lifecycle(logs, issue)
  IN [events |-> Len(events),
      latest |-> IF events = <<>> THEN [action |-> "updated", at |-> updated]
                 ELSE [action |-> events[Len(events)].action, at |-> events[Len(events)].at],
      notes |-> Len(Entries(logs, issue)) - Len(events)]

\* A search keeps the issues whose row says the words: found.  The first rows
\* are taken before the search.
SummaryRows(w, u, filter, found, limit) ==
  {r \in Range(Top(LatestFirst(Filtered(w, {i \in w.issues : AuditIssue(w, u, i)}, filter)), limit)) :
     r.id \in found}

\* The export of the audit log: the entries of the issues its rows are about.
LogExport(w, u, filter, found, limit) ==
  LET rows == SummaryRows(w, u, filter, found, limit)
  IN {e \in w.logs : \E i \in rows : i.id = e.issue}

\* Mutant: the note to the assignee counts as one to an owner.
OwnerNoteOfAll(e) == IsNote(e) /\ e.to \in PlatformOwners

\* A note to a platform owner, unless it tells him of an issue of his own.
OwnerNote(e) ==
  IsNote(e) /\ e.action \notin {"issue_assigned", "issue_reassigned"} /\ e.to \in PlatformOwners

SameBatch(a, b) == OwnerNote(a) /\ OwnerNote(b) /\ a.title = b.title /\ a.at = b.at

\* _merge_admin_notifications: of a batch the first is kept, for all of them.
Merged(events) ==
  LET first(n) == ~\E k \in 1..(n - 1) : SameBatch(events[k], events[n])
      receivers(n) == {events[k].to : k \in {j \in DOMAIN events : SameBatch(events[j], events[n])}}
      line(n) == IF Cardinality(receivers(n)) > 1 THEN [events[n] EXCEPT !.to = Unset] ELSE events[n]
      kept == Ordered({n \in DOMAIN events : first(n)}, LAMBDA a, b : a < b)
  IN [k \in DOMAIN kept |-> line(kept[k])]

\* get_issue_audit_timeline: notes to the owner of a product are left out.
Timeline(logs, issue) ==
  Merged(OldestFirst({e \in About(logs, issue) : ~(IsNote(e) /\ e.action = "issue_created")}))

\* The timeline of an exported issue is not folded and leaves nothing out.
IssueExport(w, u, issue) ==
  IF ~IssueOpens(w, u, issue) THEN <<>> ELSE Entries(w.logs, issue.id)
=============================================================================
