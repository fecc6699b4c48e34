--------------------------- MODULE HandoverReview ---------------------------
(***************************************************************************)
(* The handover workflow of one project: its versions, the scope being *)
(* edited, and the handover-review issues (core/services/ *)
(* project_version_service.py, handover_service.py, issue_service.py). *)
(* *)
(* Every request below runs in one database transaction and is one action: *)
(* this module is the workflow as long as requests do not overlap. *)
(* HandoverRace runs the same handlers with overlapping transactions. *)
(* *)
(* No handler reads another project's versions, scope or reviews, so one *)
(* project is enough.  The checks on the caller (owner, project editor, *)
(* platform owner) are left out: some caller always passes them, so they *)
(* remove no transition.  A project with is_system = 1 refuses them all. *)
(***************************************************************************)
EXTENDS Integers, FiniteSets

CONSTANTS MaxVersions, \* bound: version rows ever inserted
          MaxReviews,  \* bound: handover-review issues ever inserted
          MaxNumber    \* bound: the largest version number

ASSUME BoundsAssumption ==
  /\ MaxVersions \in Nat \ {0}
  /\ MaxReviews \in Nat \ {0}
  /\ MaxNumber \in Nat \ {0}

VARIABLE db  \* the rows of the project, one field per column

VersionId == 1..MaxVersions
ReviewId  == 1..MaxReviews
Number    == 0..MaxNumber
None      == 0   \* a NULL id

VersionStatus == {"draft", "pending_review", "approved", "rejected", "superseded"}
ProjectStatus == {"draft", "pending_review", "active", "archived"}
ProjectLifecycleStatus == {"drafting", "active", "archived"}

(***************************************************************************)
(* The editable scope (products, jobs, applications and their scenarios), *)
(* told apart by what the completeness check and a rollback can tell: a *)
(* blocking gap, two different complete scopes, and one that is complete *)
(* only because a scenario without steps is marked "Don't apply". *)
(***************************************************************************)
Content == {"gap", "stepsA", "stepsB", "waived"}

\* evaluate_project_handover_completeness: no blocking item is left.
IsComplete(c) == c # "gap"

\* _restore_project_scope_from_snapshot rebuilds every row from the snapshot,
\* without is_not_applicable: a waived scenario comes back with no steps.
Restored(c) == IF c = "waived" THEN "gap" ELSE c

Db == [status    : [VersionId -> VersionStatus \union {"absent"}],
       number    : [VersionId -> Number],   \* position of version_number in the order; 0: absent
       snapshot  : [VersionId -> Content \union {"none"}],
       draft     : VersionId \union {None},  \* current_draft_version_id
       approved  : VersionId \union {None},  \* current_approved_version_id
       pstatus   : ProjectStatus,
       lifecycle : ProjectLifecycleStatus,
       scope     : Content,
       reviewOf  : [ReviewId -> VersionId \union {None}], \* Issue.project_version_id
       reviewStatus : [ReviewId -> {"absent", "open", "closed"}]]

Exists(s, v) == s.status[v] # "absent"

\* create_project: drafting, with no version row, until a request needs one.
Init == db = [status    |-> [v \in VersionId |-> "absent"],
              number    |-> [v \in VersionId |-> 0],
              snapshot  |-> [v \in VersionId |-> "none"],
              draft     |-> None,
              approved  |-> None,
              pstatus   |-> "draft",
              lifecycle |-> "drafting",
              scope     |-> "gap",
              reviewOf  |-> [r \in ReviewId |-> None],
              reviewStatus |-> [r \in ReviewId |-> "absent"]]

-----------------------------------------------------------------------------
(***************************************************************************)
(* Drafts *)
(***************************************************************************)

\* The id the sequence hands to the next inserted row (none at the bound).
NextVersionIds(s) ==
  {v \in VersionId : /\ ~ Exists(s, v)
                     /\ \A w \in VersionId : w < v => Exists(s, w)}

NextReviewIds(s) ==
  {r \in ReviewId : /\ s.reviewStatus[r] = "absent"
                    /\ \A q \in ReviewId : q < r => s.reviewStatus[q] # "absent"}

\* _next_version_number: one above the highest number in use; 1 if none is.
NextNumbers(s) ==
  {n \in Number : /\ \A v \in VersionId : s.number[v] < n
                  /\ n = 1 \/ \E v \in VersionId : n = s.number[v] + 1}

\* Both writes of project.status and lifecycle_status that do not submit:
\* an approved version keeps the project active.
SettledStatus(s)    == IF s.approved # None THEN "active" ELSE "draft"
SettledLifecycle(s) == IF s.approved # None THEN "active" ELSE "drafting"

\* create_draft_version, and the draft ensure_project_baseline_version inserts
\* on a project that has no version yet.
NewDraft(s, v, n) ==
  [s EXCEPT !.status[v]   = "draft",
            !.number[v]   = n,
            !.snapshot[v] = s.scope,
            !.draft       = v,
            !.pstatus     = SettledStatus(s),
            !.lifecycle   = SettledLifecycle(s)]

DraftStatus(s) == IF s.draft = None THEN "absent" ELSE s.status[s.draft]

\* can_mutate_project_scope
CanMutate(s) == DraftStatus(s) # "pending_review"

\* ensure_project_editable_draft: the states it can leave behind.  The
\* current draft is kept if it is editable; an approved, rejected or
\* superseded one is followed by a fresh draft; one under review is an error.
\* ids: where the fresh row may go.
EnsuredDraftsAt(s, ids) ==
  CASE DraftStatus(s) = "draft"          -> {s}
    [] DraftStatus(s) = "pending_review" -> {}
    [] OTHER -> {NewDraft(s, v, n) : v \in ids, n \in NextNumbers(s)}

EnsuredDrafts(s) == EnsuredDraftsAt(s, NextVersionIds(s))

\* POST /projects/{id}/drafts
OpenDraft == \E t \in EnsuredDrafts(db) : db' = t

\* Every create, update, copy or delete of a product, job, application or
\* scenario: refused under review, otherwise made inside an editable draft.
EditScope(c) ==
  /\ CanMutate(db)
  /\ \E t \in EnsuredDrafts(db) : db' = [t EXCEPT !.scope = c]

\* Mutant: versions that were submitted are refreshed too.
RefreshEvery(s, vs) ==
  [s EXCEPT !.snapshot = [v \in VersionId |->
     IF v \in vs /\ Exists(s, v) THEN s.scope ELSE s.snapshot[v]]]

\* refresh_project_version_artifacts on the versions vs that are drafts
RefreshDrafts(s, vs) ==
  [s EXCEPT !.snapshot = [v \in VersionId |->
     IF v \in vs /\ s.status[v] = "draft" THEN s.scope ELSE s.snapshot[v]]]

\* ensure_project_baseline_version: a project with neither a draft nor an
\* approved version gets its first draft.
BaselinesAt(s, ids) ==
  IF s.draft = None /\ s.approved = None
  THEN {NewDraft(s, v, n) : v \in ids, n \in NextNumbers(s)}
  ELSE {s}

\* GET /projects/{id}/versions: a read that bootstraps and refreshes.
ListVersions ==
  \E t \in BaselinesAt(db, NextVersionIds(db)) : db' = RefreshDrafts(t, VersionId)

\* GET /projects/versions/{id}
GetVersion(v) == Exists(db, v) /\ db' = RefreshDrafts(db, {v})

-----------------------------------------------------------------------------
(***************************************************************************)
(* Submission *)
(***************************************************************************)

\* _open_handover_review_issue
OpenReviews(s) == {r \in ReviewId : s.reviewStatus[r] = "open"}

\* assign_draft_version_number: the draft keeps its number, or takes a
\* requested one that is not lower and that no other version has.
AssignableNumbers(s) ==
  {n \in Number : /\ n >= s.number[s.draft]
                  /\ \A v \in VersionId : v # s.draft => s.number[v] # n}

\* Mutant: the snapshot is the one the draft was opened with.
SubmittedStale(s, n) ==
  [s EXCEPT !.number[s.draft] = n,
            !.status[s.draft] = "pending_review",
            !.pstatus   = IF s.approved # None THEN "active" ELSE "pending_review",
            !.lifecycle = SettledLifecycle(s)]

\* submit_project_version, once its draft and its number are settled
Submitted(s, n) ==
  [s EXCEPT !.number[s.draft]   = n,
            !.snapshot[s.draft] = s.scope,
            !.status[s.draft]   = "pending_review",
            !.pstatus   = IF s.approved # None THEN "active" ELSE "pending_review",
            !.lifecycle = SettledLifecycle(s)]

\* submit_version: the review issue of the submitted version
ReviewOpened(s, r, v) ==
  [s EXCEPT !.reviewOf[r] = v, !.reviewStatus[r] = "open"]

\* submit_version's checks that can fail before anything is written
CanSubmit(s) == OpenReviews(s) = {} /\ CanMutate(s) /\ IsComplete(s.scope)

\* POST /projects/{id}/versions/submit and /handover
Submit ==
  /\ CanSubmit(db)
  /\ \E t \in EnsuredDrafts(db) : \E n \in AssignableNumbers(t), r \in NextReviewIds(t) :
       db' = ReviewOpened(Submitted(t, n), r, t.draft)

-----------------------------------------------------------------------------
(***************************************************************************)
(* Review *)
(***************************************************************************)

\* Mutant: the version that was in force is not superseded.
ApprovedBeside(s, v) ==
  [s EXCEPT !.status[v] = "approved",
            !.approved  = v,
            !.draft     = IF @ = v THEN None ELSE @,
            !.pstatus   = "active",
            !.lifecycle = "active"]

\* approve_project_version: the previous version in force is superseded.
Approved(s, v) ==
  [s EXCEPT !.status = [w \in VersionId |->
                          IF w = v THEN "approved"
                          ELSE IF w = s.approved THEN "superseded"
                          ELSE s.status[w]],
            !.approved  = v,
            !.draft     = IF @ = v THEN None ELSE @,
            !.pstatus   = "active",
            !.lifecycle = "active"]

\* reject_project_version: a fresh draft w is opened at once.
Rejected(s, v, w, n) == NewDraft([s EXCEPT !.status[v] = "rejected"], w, n)

\* Mutant: the review stays open after the decision.
ReviewsKeptOpen(s, rs) == s

\* The reviews rs are resolved.
ReviewsClosed(s, rs) ==
  [s EXCEPT !.reviewStatus = [r \in ReviewId |-> IF r \in rs THEN "closed" ELSE @[r]]]

\* Mutant: the review is looked up without the version.
AnyReview(s, v) ==
  IF OpenReviews(s) = {} THEN {{}} ELSE {{r} : r \in OpenReviews(s)}

\* approve_version and reject_version close the FIRST open review they find.
ReviewChoices(s, v) ==
  LET open == {r \in OpenReviews(s) : s.reviewOf[r] = v}
  IN IF open = {} THEN {{}} ELSE {{r} : r \in open}

\* Mutant: any version can be approved.
ApproveAnyVersion(v) ==
  /\ Exists(db, v)
  /\ \E rs \in ReviewChoices(db, v) : db' = ReviewsClosed(Approved(db, v), rs)

\* approve_version, POST /projects/versions/{id}/approve
ApproveVersion(v) ==
  /\ db.status[v] = "pending_review"
  /\ \E rs \in ReviewChoices(db, v) : db' = ReviewsClosed(Approved(db, v), rs)

\* reject_version, POST /projects/versions/{id}/reject
RejectVersion(v) ==
  /\ db.status[v] = "pending_review"
  /\ \E w \in NextVersionIds(db), n \in NextNumbers(db), rs \in ReviewChoices(db, v) :
       db' = ReviewsClosed(Rejected(db, v, w, n), rs)

\* approve_handover and reject_handover start from the issue instead.
CanDecide(s, r) ==
  /\ s.reviewStatus[r] = "open"
  /\ s.reviewOf[r] # None
  /\ s.status[s.reviewOf[r]] = "pending_review"

\* approve_handover, POST /api/issues/{id}/approve
ApproveHandover(r) ==
  /\ CanDecide(db, r)
  /\ db' = ReviewsClosed(Approved(db, db.reviewOf[r]), {r})

\* reject_handover, POST /api/issues/{id}/reject
RejectHandover(r) ==
  /\ CanDecide(db, r)
  /\ \E w \in NextVersionIds(db), n \in NextNumbers(db) :
       db' = ReviewsClosed(Rejected(db, db.reviewOf[r], w, n), {r})

-----------------------------------------------------------------------------
(***************************************************************************)
(* Rollback *)
(***************************************************************************)

\* rollback_project_to_version, on the editable draft of s
RolledBack(s, c) ==
  [s EXCEPT !.scope             = Restored(c),
            !.snapshot[s.draft] = Restored(c),
            !.pstatus           = SettledStatus(s),
            !.lifecycle         = SettledLifecycle(s)]

\* rollback_version, POST /projects/versions/{id}/rollback
Rollback(v) ==
  /\ Exists(db, v)
  /\ db.snapshot[v] # "none"
  /\ CanMutate(db)
  /\ \E t \in EnsuredDrafts(db) : db' = RolledBack(t, db.snapshot[v])

Next ==
  \/ OpenDraft
  \/ \E c \in Content : EditScope(c)
  \/ ListVersions
  \/ Submit
  \/ \E v \in VersionId : \/ GetVersion(v)
                          \/ ApproveVersion(v)
                          \/ RejectVersion(v)
                          \/ Rollback(v)
  \/ \E r \in ReviewId : ApproveHandover(r) \/ RejectHandover(r)

Spec == Init /\ [][Next]_db
-----------------------------------------------------------------------------
(***************************************************************************)
(* Properties *)
(***************************************************************************)

\* The columns hold values of their types.
TypeOK == db \in Db

Submittable(s, v) == s.status[v] \in {"draft", "pending_review"}
Reviewed(s, v)    == s.status[v] \in {"pending_review", "approved", "rejected", "superseded"}

\* The reviews a reviewer can act on are exactly the versions awaiting one: an
\* open review belongs to a pending version, a pending version has one open
\* review, and no two reviews are open.  Otherwise a version could never be
\* decided, or a leftover review would block every later submit_version.
ReviewTracksSubmission ==
  /\ \A r \in OpenReviews(db) : /\ db.reviewOf[r] # None
                               /\ db.status[db.reviewOf[r]] = "pending_review"
  /\ \A v \in VersionId : db.status[v] = "pending_review" =>
       \E r \in OpenReviews(db) : db.reviewOf[r] = v
  /\ \A q, r \in OpenReviews(db) : q = r

\* The version in force is the one current_approved_version_id names: it is
\* APPROVED, and every version it replaced has been superseded.
OneVersionInForce ==
  \A v \in VersionId : db.status[v] = "approved" <=> v = db.approved

\* current_draft_version_id names the one version that is open (a draft or
\* under review): no draft is orphaned by a later one.
OneOpenVersion ==
  \A v \in VersionId : Submittable(db, v) <=> v = db.draft

\* What the reviewer sees is what goes live: while a version is under review
\* the editable scope equals the version's snapshot.
ReviewedScopeIsFrozen ==
  \A v \in VersionId : db.status[v] = "pending_review" => db.snapshot[v] = db.scope

\* With no open draft, the live scope is the approved snapshot: no edit gets
\* past the version workflow.
LiveScopeIsApproved ==
  db.draft = None /\ db.approved # None => db.snapshot[db.approved] = db.scope

\* No version reaches review, approval or history with a blocking gap.
ReviewedVersionsComplete ==
  \A v \in VersionId : Reviewed(db, v) => IsComplete(db.snapshot[v])

\* Version numbers grow in the order the versions were opened, renames
\* (requested_version_number) included, so the newest sorts first.
NumbersIncrease ==
  \A v, w \in VersionId : v < w /\ Exists(db, w) => db.number[v] < db.number[w]

\* project.status and lifecycle_status, set by six functions, agree with the
\* version pointers they summarise.
StatusSummarisesVersions ==
  /\ db.pstatus = IF db.approved # None THEN "active"
                  ELSE IF DraftStatus(db) = "pending_review" THEN "pending_review"
                  ELSE "draft"
  /\ db.lifecycle = SettledLifecycle(db)

\* What summarises the versions agrees with them: both pointers, and the two
\* status columns of the project.
PointersAgree == OneVersionInForce /\ OneOpenVersion /\ StatusSummarisesVersions

\* What a reviewer saw is what goes live, and it was complete: the snapshot of
\* a version under review is the scope, the approved one stays the live scope
\* until a draft is opened, and neither has a blocking gap.
ScopeIsReviewed == ReviewedScopeIsFrozen /\ LiveScopeIsApproved /\ ReviewedVersionsComplete

\* A version that has been submitted is a frozen record: no later step changes
\* its snapshot or its number.
SubmittedVersionsImmutable ==
  [][\A v \in VersionId : Reviewed(db, v) =>
       /\ db'.snapshot[v] = db.snapshot[v]
       /\ db'.number[v] = db.number[v]]_db

\* The workflow follows ProjectVersionStatus.TRANSITIONS, with one open and one
\* approved version at a time.
Lifecycle == INSTANCE VersionLifecycle WITH status <- db.status
FollowsLifecycle == Lifecycle!Spec

-----------------------------------------------------------------------------
(***************************************************************************)
(* What the sources say and the code does not keep *)
(***************************************************************************)

\* "approved, and rolled back as a unit" (project_version_service.py:6): rolling
\* back to a version that passed its completeness check gives back that scope.
RollbackRestoresScope ==
  [][\A v \in VersionId : Rollback(v) /\ Reviewed(db, v) =>
       db'.scope = db.snapshot[v]]_db
=============================================================================
