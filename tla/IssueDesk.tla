----------------------------- MODULE IssueDesk ------------------------------
(***************************************************************************)
(* Who works on an operational issue: how it is assigned, claimed, handed  *)
(* on and finished, who is told, who is warned of its deadline and who is  *)
(* mailed (issue_service.py, issue_engine.py, assign.py, email_dispatch.py *)
(* and the routes of api/routers/issues.py and schedules.py).              *)
(*                                                                         *)
(* A request loads the issue, decides, and writes in a later step what it  *)
(* changed of what it loaded; others may commit in between.  Faults:       *)
(* commits of the overdue check that fail, restarts of the controller.     *)
(***************************************************************************)
EXTENDS Integers, FiniteSets

CONSTANTS Members,  \* Ops members: the elevated tier, and who can be on duty
          Lead,     \* FALLBACK_ASSIGNEE_USERNAME, one of them
          Boss,     \* the platform owner: an admin
          Owner,    \* the owner of the project: a regular user
          Nobody,
          Issues,   \* identities of issues
          Clerks,   \* requests that may be under way at once
          Horizon,  \* the clock runs from 0 to Horizon
          Sla,      \* SLA_DEADLINES
          MaxSteps  \* bound on the requests (of issues and shifts) of a behaviour

ASSUME DeskAssumption == Lead \in Members /\ Horizon \in Nat /\ Sla \in Nat

VARIABLES
  clock,
  duty,       \* the members whose shift is on
  issues,     \* the issues table and the notices about each row
  requests,   \* what each request under way has loaded and is about to write
  remembered, \* _notified_overdue of the running controller
  mails,      \* mails handed to the dispatcher, and those reloaded by it
  steps       \* requests so far

vars == <<clock, duty, issues, requests, remembered, mails, steps>>

People   == Members \cup {Boss, Owner}
Admins   == {Boss}
Elevated == Members \cup Admins

Live   == {"open", "in_progress"}
Ended  == {"ended"}  \* resolved, closed, false_positive

\* told: who has a notice that the issue is theirs.  took: who made it theirs
\* without one.  warned: who has a notice that it is overdue, repeated if
\* somebody has two; missed: a failed commit dropped such notices.  mailed:
\* who was mailed about it, said: whose notice says so.
NewIssue == [status |-> "none", who |-> Nobody, born |-> 0, told |-> {}, took |-> {},
             warned |-> {}, repeated |-> FALSE, missed |-> FALSE, mailed |-> {}, said |-> {}]

Idle == [op |-> "idle"]

Init ==
  /\ clock = 0 /\ steps = 0
  /\ duty = {}
  /\ issues = [i \in Issues |-> NewIssue]
  /\ requests = [c \in Clerks |-> Idle]
  /\ remembered = {}
  /\ mails = [waiting |-> {}, sending |-> {}]

LiveIssues == {i \in Issues : issues[i].status \in Live}

-----------------------------------------------------------------------------
(***************************************************************************)
(* Assignment *)
(***************************************************************************)

OpenCount(m) == Cardinality({i \in LiveIssues : issues[i].who = m})

\* resolve_assignee: of the members on duty one with the fewest open issues
\* (ties are broken by preference, role and id: any), else the fallback.
Candidates ==
  IF duty = {} THEN {Lead}
  ELSE {m \in duty : \A n \in duty : OpenCount(m) <= OpenCount(n)}

-----------------------------------------------------------------------------
(***************************************************************************)
(* Requests.  They say what they will write, and whom they tell.           *)
(***************************************************************************)

Row(i) == [status |-> issues[i].status, who |-> issues[i].who]

\* What a request that has loaded issue i will write, and whom it tells.
Asking(i, status, who, told, took, mail) ==
  [op |-> "write", issue |-> i, was |-> Row(i), status |-> status, who |-> who,
   born |-> IF issues[i].status = "none" THEN clock ELSE issues[i].born,
   told |-> told, took |-> took, mail |-> mail]

\* A request has loaded a row and made up its mind.
Begin(c, r) ==
  /\ requests[c] = Idle /\ steps < MaxSteps
  /\ steps' = steps + 1
  /\ requests' = [requests EXCEPT ![c] = r]
  /\ UNCHANGED <<clock, duty, issues, remembered, mails>>

\* create_issue, create_issue_with_dispatch: open, assigned, to be mailed.
Create(c, i) ==
  /\ issues[i].status = "none"
  /\ \A d \in Clerks : requests[d] # Idle => requests[d].issue # i
  /\ \E m \in Candidates :
       Begin(c, Asking(i, "open", m, {m}, {}, TRUE))

\* claim_issues: an open issue of somebody else.
Claim(c, i, by) ==
  /\ issues[i].status = "open" /\ issues[i].who # by
  /\ Begin(c, Asking(i, "open", by, {}, {by}, FALSE))

\* The common guards of run_action: the assignee or the elevated tier, and
\* nothing that has ended.
MayAct(i, by) == i \in LiveIssues /\ by \in {issues[i].who} \cup Elevated

\* start_working, record_step, verification_passed, escalate
Work(c, i, by) ==
  /\ MayAct(i, by)
  /\ Begin(c, Asking(i, "in_progress", issues[i].who, {}, {}, FALSE))

\* return_to_owner: the owner is told, unless it is the owner who returns it.
ReturnToOwner(c, i, by) ==
  /\ MayAct(i, by)
  /\ Begin(c, Asking(i, "open", Owner, {Owner} \ {by}, {Owner} \cap {by}, FALSE))

\* resolve, false_positive
Finish(c, i, by) ==
  /\ MayAct(i, by)
  /\ Begin(c, Asking(i, "ended", issues[i].who, {}, {}, FALSE))

\* Mutant: whoever had the issue before is told of the change.
ReassignmentTellsOld(i, to) == {issues[i].who} \ {to, Nobody}

\* update_issue tells the new assignee if there is a new one.
ReassignmentTells(i, to) == {to} \ {issues[i].who}

\* update_issue: any status; another assignee by an admin only.
Update(c, i, by, status) ==
  /\ issues[i].status # "none" /\ by \in {issues[i].who} \cup Elevated
  /\ Begin(c, Asking(i, status, issues[i].who, {}, {}, FALSE))

Reassign(c, i, by, to) ==
  /\ issues[i].status # "none" /\ by \in Admins /\ to \in Elevated
  /\ Begin(c, Asking(i, issues[i].status, to, ReassignmentTells(i, to), {},
                      to # issues[i].who))

\* What differs from the loaded row is written; the rest is as it is now.
Written(r, row) ==
  [row EXCEPT !.status = IF r.status # r.was.status THEN r.status ELSE @,
              !.who    = IF r.who # r.was.who THEN r.who ELSE @,
              !.born   = r.born, !.told = @ \cup r.told, !.took = @ \cup r.took]

\* The commit, and the hand-over to the dispatcher after it.
Commit(c) ==
  /\ requests[c] # Idle
  /\ LET r == requests[c] IN
       /\ issues' = [issues EXCEPT ![r.issue] = Written(r, @)]
       /\ mails' = [mails EXCEPT !.waiting = IF r.mail THEN @ \cup {r.issue} ELSE @]
  /\ requests' = [requests EXCEPT ![c] = Idle]
  /\ UNCHANGED <<clock, duty, remembered, steps>>

-----------------------------------------------------------------------------
(***************************************************************************)
(* The roster, and issues that close by themselves *)
(***************************************************************************)

\* reassign_open_ops_issues_in_window: live issues raised since the shift
\* began.  An unassigned one is left alone: NULL differs from nobody.
InWindow(m, from, to) ==
  {i \in LiveIssues : /\ from <= issues[i].born /\ issues[i].born <= to
                      /\ issues[i].who \notin {m, Nobody}}

\* A shift is created or changed: from..to (or to now) is its past part.
PutOnDuty(m, from, to) ==
  /\ steps < MaxSteps /\ steps' = steps + 1
  /\ from <= to /\ to <= clock
  /\ duty' = IF to = clock THEN duty \cup {m} ELSE duty
  /\ issues' = [i \in Issues |->
       IF i \in InWindow(m, from, to)
       THEN [issues[i] EXCEPT !.who = m, !.told = @ \cup {m}] ELSE issues[i]]
  /\ UNCHANGED <<clock, requests, remembered, mails>>

TakeOffDuty(m) ==
  /\ m \in duty
  /\ duty' = duty \ {m}
  /\ UNCHANGED <<clock, issues, requests, remembered, mails, steps>>

\* auto_close_open_issues: the signal has recovered.
AutoClose(i) ==
  /\ i \in LiveIssues
  /\ issues' = [issues EXCEPT ![i].status = "ended"]
  /\ UNCHANGED <<clock, duty, requests, remembered, mails, steps>>

-----------------------------------------------------------------------------
(***************************************************************************)
(* check_sla_overdue *)
(***************************************************************************)

PastDue(i) == i \in LiveIssues /\ issues[i].born + Sla < clock

\* Mutant: the notices already stored are not looked for.
WarningsAll(i) == {Boss} \cup ({issues[i].who} \ {Nobody})

\* The assignee and the platform admins, but nobody who has this notice.
Warnings(i) == ({Boss} \cup ({issues[i].who} \ {Nobody})) \ issues[i].warned

Unseen == {i \in Issues \ remembered : PastDue(i)}

\* The issues are remembered while the notices are collected; then they are
\* committed, or the commit fails.
CheckOverdue ==
  /\ Unseen # {}
  /\ remembered' = remembered \cup Unseen
  /\ \E committed \in BOOLEAN :
       issues' = [i \in Issues |->
         IF i \notin Unseen THEN issues[i]
         ELSE IF committed
              THEN [issues[i] EXCEPT !.warned = @ \cup Warnings(i),
                                     !.repeated = @ \/ Warnings(i) \cap issues[i].warned # {}]
              ELSE [issues[i] EXCEPT !.missed = TRUE]]
  /\ UNCHANGED <<clock, duty, requests, mails, steps>>

\* The controller restarts and remembers nothing.
Restart ==
  /\ remembered # {}
  /\ remembered' = {}
  /\ issues' = [i \in Issues |-> [issues[i] EXCEPT !.missed = FALSE]]
  /\ UNCHANGED <<clock, duty, requests, mails, steps>>

Advance ==
  /\ clock < Horizon
  /\ clock' = clock + 1
  /\ UNCHANGED <<duty, issues, requests, remembered, mails, steps>>

-----------------------------------------------------------------------------
(***************************************************************************)
(* dispatch_issue_email *)
(***************************************************************************)

\* A thread re-reads the assignee; nobody is mailed of an unassigned issue.
Reload(i) ==
  /\ i \in mails.waiting
  /\ mails' = [waiting |-> mails.waiting \ {i},
               sending |-> mails.sending \cup ({<<i, issues[i].who>>} \ {<<i, Nobody>>})]
  /\ UNCHANGED <<clock, duty, issues, requests, remembered, steps>>

\* Mutant: the notice of the assignee of the moment is annotated.
AnnotatedNow(i, to) == {issues[i].who} \cap issues[i].told

\* _annotate_assignee_notification: the notice of the one the mail went to.
Annotated(i, to) == {to} \cap issues[i].told

\* The mail is accepted, or given up; an accepted one is noted on the notice.
Send(i, to) ==
  /\ <<i, to>> \in mails.sending
  /\ mails' = [mails EXCEPT !.sending = @ \ {<<i, to>>}]
  /\ \/ issues' = [issues EXCEPT ![i].mailed = @ \cup {to}, ![i].said = @ \cup Annotated(i, to)]
     \/ UNCHANGED issues
  /\ UNCHANGED <<clock, duty, requests, remembered, steps>>

-----------------------------------------------------------------------------
Request(c, i) ==
  \/ Create(c, i)
  \/ \E by \in People :
       \/ Claim(c, i, by) \/ Work(c, i, by) \/ ReturnToOwner(c, i, by) \/ Finish(c, i, by)
       \/ \E status \in Live \cup Ended : Update(c, i, by, status)
       \/ \E to \in People : Reassign(c, i, by, to)

Next ==
  \/ \E c \in Clerks : Commit(c) \/ \E i \in Issues : Request(c, i)
  \/ \E m \in Members : TakeOffDuty(m) \/ \E from, to \in 0..Horizon : PutOnDuty(m, from, to)
  \/ \E i \in Issues : AutoClose(i) \/ Reload(i) \/ \E to \in People : Send(i, to)
  \/ CheckOverdue \/ Restart \/ Advance

\* The daemon loop runs the overdue check at every tick.
Spec == Init /\ [][Next]_vars /\ WF_vars(CheckOverdue)

-----------------------------------------------------------------------------
(***************************************************************************)
(* Properties *)
(***************************************************************************)

\* Whoever has a live issue knows: it was claimed, or a notice was written by
\* the creation, the reassignment, the return or the roster that assigned it,
\* whatever requests overlap.
AssigneeTold ==
  \A i \in LiveIssues : issues[i].who # Nobody => issues[i].who \in issues[i].told \cup issues[i].took

\* A notice that says its owner was mailed tells the truth, although the
\* assignee may change before, while and after the mail is sent.
SaidIsMailed == \A i \in Issues : issues[i].said \subseteq issues[i].mailed

\* An issue past its deadline is warned of - the platform owner learns of it,
\* unless it ends or the commit of the notices fails - and nobody is warned of
\* it twice, across restarts, failed commits and changes of the assignee
\* (check_sla_overdue looks for stored notices).
WarnedExactlyOnce ==
  /\ [](\A i \in Issues : ~ issues[i].repeated)
  /\ \A i \in Issues :
       PastDue(i) ~> (Boss \in issues[i].warned \/ ~ PastDue(i) \/ issues[i].missed)

\* check_sla_overdue says it notifies "once per issue" and keeps the set of the
\* issues it has notified about: somebody has a notice of each of them.
RememberedAreWarned == \A i \in remembered : issues[i].warned # {}
=============================================================================
