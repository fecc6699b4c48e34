--------------------------- MODULE HandoverProofs ---------------------------
(***************************************************************************)
(* Proofs about HandoverReview, for every value of its bounds, and about   *)
(* HandoverRace, for every number of sessions besides.                     *)
(***************************************************************************)
EXTENDS HandoverRace, TLAPS

(***************************************************************************)
(* The inductive invariant, as a predicate of a state s of the rows, so *)
(* that it can be carried through the states inside one handler. *)
(***************************************************************************)

\* Rows are inserted in the order of their ids, with a number from 1 up, and
\* the open version is the last one inserted (its number may still grow).
Inserted(s) ==
  /\ \A v, w \in VersionId : v < w /\ Exists(s, w) => Exists(s, v)
  /\ \A v \in VersionId : ~ Exists(s, v) => s.number[v] = 0
  /\ \A v \in VersionId : s.draft # None /\ Exists(s, v) => v <= s.draft

Reviews(s) ==
  /\ \A r \in ReviewId : s.reviewStatus[r] = "open" =>
        s.reviewOf[r] # None /\ s.status[s.reviewOf[r]] = "pending_review"
  /\ \A v \in VersionId : s.status[v] = "pending_review" =>
        \E r \in ReviewId : s.reviewStatus[r] = "open" /\ s.reviewOf[r] = v
  /\ \A q, r \in ReviewId :
        s.reviewStatus[q] = "open" /\ s.reviewStatus[r] = "open" => q = r

Pointers(s) ==
  /\ \A v \in VersionId : s.status[v] = "approved" <=> v = s.approved
  /\ \A v \in VersionId : Submittable(s, v) <=> v = s.draft

Scopes(s) ==
  /\ \A v \in VersionId : s.status[v] = "pending_review" => s.snapshot[v] = s.scope
  /\ s.draft = None /\ s.approved # None => s.snapshot[s.approved] = s.scope
  /\ \A v \in VersionId : Reviewed(s, v) => IsComplete(s.snapshot[v])

Numbers(s) ==
  \A v, w \in VersionId : v < w /\ Exists(s, w) => s.number[v] < s.number[w]

Summary(s) ==
  /\ s.pstatus = IF s.approved # None THEN "active"
                 ELSE IF DraftStatus(s) = "pending_review" THEN "pending_review"
                 ELSE "draft"
  /\ s.lifecycle = SettledLifecycle(s)

Consistent(s) ==
  s \in Db /\ Inserted(s) /\ Reviews(s) /\ Pointers(s) /\ Scopes(s) /\ Numbers(s) /\ Summary(s)

IInv == Consistent(db)

-----------------------------------------------------------------------------
\* None is not an id, and ids and numbers are integers.
LEMMA Ids ==
  /\ VersionId \subseteq Int /\ ReviewId \subseteq Int /\ Number \subseteq Int
  /\ None \notin VersionId /\ None \notin ReviewId
  /\ \A v \in VersionId : v > 0
BY BoundsAssumption DEF VersionId, ReviewId, Number, None

\* What each column holds after a draft row is inserted.
LEMMA NewDraftColumns ==
  ASSUME NEW s \in Db, NEW v \in VersionId, NEW n \in Number, NEW t, t = NewDraft(s, v, n)
  PROVE  /\ t \in Db
         /\ t.status   = [s.status EXCEPT ![v] = "draft"]
         /\ t.number   = [s.number EXCEPT ![v] = n]
         /\ t.snapshot = [s.snapshot EXCEPT ![v] = s.scope]
         /\ t.draft    = v
         /\ t.approved = s.approved
         /\ t.pstatus  = SettledStatus(s)
         /\ t.lifecycle = SettledLifecycle(s)
         /\ t.scope    = s.scope
         /\ t.reviewOf = s.reviewOf
         /\ t.reviewStatus = s.reviewStatus
BY DEF NewDraft, Db, SettledStatus, SettledLifecycle, VersionStatus, ProjectStatus,
       ProjectLifecycleStatus

\* A fresh draft keeps the rows consistent if no version was open before.
LEMMA NewDraftConsistent ==
  ASSUME NEW s, Consistent(s), s.draft = None,
         NEW v \in NextVersionIds(s), NEW n \in NextNumbers(s)
  PROVE  Consistent(NewDraft(s, v, n))
<1> DEFINE t == NewDraft(s, v, n)
<1>1. /\ s \in Db /\ v \in VersionId /\ n \in Number /\ ~ Exists(s, v)
      /\ \A w \in VersionId : w < v => Exists(s, w)
      /\ \A w \in VersionId : s.number[w] < n
  BY DEF Consistent, NextVersionIds, NextNumbers
<1>2. /\ t \in Db
      /\ t.status   = [s.status EXCEPT ![v] = "draft"]
      /\ t.number   = [s.number EXCEPT ![v] = n]
      /\ t.snapshot = [s.snapshot EXCEPT ![v] = s.scope]
      /\ t.draft    = v
      /\ t.approved = s.approved
      /\ t.pstatus  = SettledStatus(s)
      /\ t.lifecycle = SettledLifecycle(s)
      /\ t.scope    = s.scope
      /\ t.reviewOf = s.reviewOf
      /\ t.reviewStatus = s.reviewStatus
  BY <1>1, NewDraftColumns
<1> HIDE DEF t
<1>3. Inserted(t)
  BY <1>1, <1>2, Ids DEF Consistent, Inserted, Exists, Db
<1>4. Reviews(t)
  BY <1>1, <1>2 DEF Consistent, Reviews, Exists, Db
<1>5. Pointers(t)
  BY <1>1, <1>2, Ids DEF Consistent, Pointers, Submittable, Exists, Db
<1>6. Scopes(t)
  BY <1>1, <1>2, Ids DEF Consistent, Scopes, Pointers, Submittable, Reviewed, Exists, Db
<1>7. Numbers(t)
  BY <1>1, <1>2, Ids DEF Consistent, Numbers, Inserted, Exists, Db
<1>8. Summary(t)
  BY <1>1, <1>2, Ids DEF Consistent, Summary, SettledStatus, SettledLifecycle, DraftStatus, Db
<1> QED
  BY <1>2, <1>3, <1>4, <1>5, <1>6, <1>7, <1>8 DEF Consistent, t

\* What ensure_project_editable_draft hands to its caller: a consistent state
\* whose current draft can be edited, with every older row as it was.
LEMMA EnsuredDraft ==
  ASSUME NEW s, Consistent(s), NEW t \in EnsuredDrafts(s)
  PROVE  /\ Consistent(t)
         /\ t.draft \in VersionId /\ t.status[t.draft] = "draft"
         /\ t.scope = s.scope /\ t.approved = s.approved
         /\ t.reviewOf = s.reviewOf /\ t.reviewStatus = s.reviewStatus
         /\ \A v \in VersionId : Exists(s, v) =>
               /\ t.status[v] = s.status[v]
               /\ t.number[v] = s.number[v]
               /\ t.snapshot[v] = s.snapshot[v]
         /\ \/ t = s
            \/ /\ s.draft = None /\ ~ Exists(s, t.draft)
               /\ t.status = [s.status EXCEPT ![t.draft] = "draft"]
<1>1. CASE DraftStatus(s) = "draft"
  <2>1. t = s
    BY <1>1 DEF EnsuredDrafts, EnsuredDraftsAt
  <2>2. s.draft \in VersionId /\ s.status[s.draft] = "draft"
    BY <1>1 DEF Consistent, Db, DraftStatus
  <2> QED
    BY <2>1, <2>2
<1>2. CASE DraftStatus(s) = "pending_review"
  BY <1>2 DEF EnsuredDrafts, EnsuredDraftsAt
<1>3. CASE DraftStatus(s) \notin {"draft", "pending_review"}
  <2>1. s.draft = None
    BY <1>3 DEF Consistent, Db, Pointers, Submittable, DraftStatus
  <2>2. PICK v \in NextVersionIds(s), n \in NextNumbers(s) : t = NewDraft(s, v, n)
    BY <1>3 DEF EnsuredDrafts, EnsuredDraftsAt
  <2>3. Consistent(t)
    BY <2>1, <2>2, NewDraftConsistent
  <2>4. s \in Db /\ v \in VersionId /\ n \in Number /\ ~ Exists(s, v)
    BY DEF Consistent, NextVersionIds, NextNumbers
  <2>5. /\ t.status   = [s.status EXCEPT ![v] = "draft"]
        /\ t.number   = [s.number EXCEPT ![v] = n]
        /\ t.snapshot = [s.snapshot EXCEPT ![v] = s.scope]
        /\ t.draft = v /\ t.approved = s.approved /\ t.scope = s.scope
        /\ t.reviewOf = s.reviewOf /\ t.reviewStatus = s.reviewStatus
    BY <2>2, <2>4, NewDraftColumns
  <2> QED
    BY <2>1, <2>3, <2>4, <2>5 DEF Db, Exists
<1> QED
  BY <1>1, <1>2, <1>3

\* While the current draft is editable, the scope is nobody's snapshot.
LEMMA EditConsistent ==
  ASSUME NEW s, Consistent(s), s.draft \in VersionId, s.status[s.draft] = "draft",
         NEW c \in Content
  PROVE  Consistent([s EXCEPT !.scope = c])
<1> DEFINE t == [s EXCEPT !.scope = c]
<1>1. s \in Db
  BY DEF Consistent
<1>2. /\ t \in Db /\ t.scope = c
      /\ t.status = s.status /\ t.number = s.number /\ t.snapshot = s.snapshot
      /\ t.draft = s.draft /\ t.approved = s.approved
      /\ t.pstatus = s.pstatus /\ t.lifecycle = s.lifecycle
      /\ t.reviewOf = s.reviewOf /\ t.reviewStatus = s.reviewStatus
  BY <1>1 DEF Db
<1> HIDE DEF t
<1>3. Inserted(t) /\ Reviews(t) /\ Pointers(t) /\ Numbers(t)
  BY <1>2 DEF Consistent, Inserted, Reviews, Pointers, Numbers, Submittable, Exists
<1>4. Scopes(t)
  BY <1>1, <1>2, Ids DEF Consistent, Scopes, Pointers, Submittable, Reviewed, Db
<1>5. Summary(t)
  BY <1>2 DEF Consistent, Summary, DraftStatus, SettledLifecycle
<1> QED
  BY <1>2, <1>3, <1>4, <1>5 DEF Consistent, t

\* Refreshing the snapshots of drafts changes no other snapshot.
LEMMA RefreshConsistent ==
  ASSUME NEW s, Consistent(s), NEW vs
  PROVE  /\ Consistent(RefreshDrafts(s, vs))
         /\ RefreshDrafts(s, vs).status = s.status
         /\ RefreshDrafts(s, vs).number = s.number
         /\ \A v \in VersionId : s.status[v] # "draft" =>
               RefreshDrafts(s, vs).snapshot[v] = s.snapshot[v]
<1> DEFINE t == RefreshDrafts(s, vs)
<1>1. s \in Db
  BY DEF Consistent
<1>2. /\ t \in Db /\ t.scope = s.scope
      /\ t.status = s.status /\ t.number = s.number
      /\ t.snapshot = [v \in VersionId |->
            IF v \in vs /\ s.status[v] = "draft" THEN s.scope ELSE s.snapshot[v]]
      /\ t.draft = s.draft /\ t.approved = s.approved
      /\ t.pstatus = s.pstatus /\ t.lifecycle = s.lifecycle
      /\ t.reviewOf = s.reviewOf /\ t.reviewStatus = s.reviewStatus
  BY <1>1 DEF Db, RefreshDrafts
<1> HIDE DEF t
<1>3. \A v \in VersionId : s.status[v] # "draft" => t.snapshot[v] = s.snapshot[v]
  BY <1>2
<1>4. Inserted(t) /\ Reviews(t) /\ Pointers(t) /\ Numbers(t)
  BY <1>2 DEF Consistent, Inserted, Reviews, Pointers, Numbers, Submittable, Exists
<1>5. Scopes(t)
  BY <1>1, <1>2, <1>3, Ids DEF Consistent, Scopes, Pointers, Submittable, Reviewed, Db
<1>6. Summary(t)
  BY <1>2 DEF Consistent, Summary, DraftStatus, SettledLifecycle
<1> QED
  BY <1>2, <1>3, <1>4, <1>5, <1>6 DEF Consistent, t

\* Submitting the editable draft t.draft under the number n and opening review
\* r for it, when no review is open and the scope has no gap.
LEMMA SubmitConsistent ==
  ASSUME NEW s, Consistent(s), s.draft \in VersionId, s.status[s.draft] = "draft",
         OpenReviews(s) = {}, IsComplete(s.scope),
         NEW n \in AssignableNumbers(s), NEW r \in NextReviewIds(s)
  PROVE  Consistent(ReviewOpened(Submitted(s, n), r, s.draft))
<1> DEFINE d == s.draft
           u == Submitted(s, n)
           t == ReviewOpened(u, r, d)
<1>1. /\ s \in Db /\ d \in VersionId /\ d # None
      /\ n \in Number /\ n >= s.number[d]
      /\ r \in ReviewId
      /\ \A q \in ReviewId : s.reviewStatus[q] # "open"
  BY Ids DEF Consistent, AssignableNumbers, NextReviewIds, OpenReviews
<1>2. /\ u \in Db /\ u.scope = s.scope
      /\ u.status = [s.status EXCEPT ![d] = "pending_review"]
      /\ u.number = [s.number EXCEPT ![d] = n]
      /\ u.snapshot = [s.snapshot EXCEPT ![d] = s.scope]
      /\ u.draft = d /\ u.approved = s.approved
      /\ u.pstatus = IF s.approved # None THEN "active" ELSE "pending_review"
      /\ u.lifecycle = SettledLifecycle(s)
      /\ u.reviewOf = s.reviewOf /\ u.reviewStatus = s.reviewStatus
  BY <1>1 DEF Submitted, Db, SettledLifecycle, VersionStatus, ProjectStatus,
              ProjectLifecycleStatus
<1> HIDE DEF u
<1>3. /\ t \in Db /\ t.scope = s.scope
      /\ t.status = u.status /\ t.number = u.number /\ t.snapshot = u.snapshot
      /\ t.draft = d /\ t.approved = s.approved
      /\ t.pstatus = u.pstatus /\ t.lifecycle = u.lifecycle
      /\ t.reviewOf = [s.reviewOf EXCEPT ![r] = d]
      /\ t.reviewStatus = [s.reviewStatus EXCEPT ![r] = "open"]
  BY <1>1, <1>2 DEF ReviewOpened, Db
<1> HIDE DEF t, d
<1>4. d = s.draft
  BY DEF d
<1>5. Inserted(t)
  BY <1>1, <1>2, <1>3, <1>4 DEF Consistent, Inserted, Exists, Db
<1>6. Reviews(t)
  BY <1>1, <1>2, <1>3, <1>4 DEF Consistent, Reviews, Pointers, Submittable, Db
<1>7. Pointers(t)
  BY <1>1, <1>2, <1>3, <1>4 DEF Consistent, Pointers, Submittable, Db
<1>8. Scopes(t)
  BY <1>1, <1>2, <1>3, <1>4 DEF Consistent, Scopes, Pointers, Submittable, Reviewed, Db
<1>9. Numbers(t)
  BY <1>1, <1>2, <1>3, <1>4, Ids DEF Consistent, Numbers, Inserted, Exists, Db
<1>10. Summary(t)
  BY <1>1, <1>2, <1>3, <1>4 DEF Consistent, Summary, DraftStatus, SettledLifecycle, Db
<1> QED
  BY <1>3, <1>4, <1>5, <1>6, <1>7, <1>8, <1>9, <1>10 DEF Consistent, t, u

\* A version under review has exactly one review to close.
LEMMA ChosenReview ==
  ASSUME NEW s, Consistent(s), NEW v \in VersionId, s.status[v] = "pending_review",
         NEW rs \in ReviewChoices(s, v)
  PROVE  \E r \in ReviewId : rs = {r} /\ s.reviewStatus[r] = "open" /\ s.reviewOf[r] = v
<1> DEFINE open == {r \in OpenReviews(s) : s.reviewOf[r] = v}
<1>1. PICK q \in ReviewId : s.reviewStatus[q] = "open" /\ s.reviewOf[q] = v
  BY DEF Consistent, Reviews
<1>2. q \in open
  BY <1>1 DEF OpenReviews
<1>3. rs \in {{r} : r \in open}
  BY <1>2 DEF ReviewChoices
<1> QED
  BY <1>3 DEF OpenReviews

\* Approving the version under review and closing its review.
LEMMA ApproveConsistent ==
  ASSUME NEW s, Consistent(s), NEW v \in VersionId, s.status[v] = "pending_review",
         NEW r \in ReviewId, s.reviewStatus[r] = "open", s.reviewOf[r] = v
  PROVE  Consistent(ReviewsClosed(Approved(s, v), {r}))
<1> DEFINE u == Approved(s, v)
           t == ReviewsClosed(u, {r})
<1>1. s \in Db /\ v = s.draft /\ v # None /\ s.approved # v
  BY Ids DEF Consistent, Pointers, Submittable
<1>2. /\ u \in Db /\ u.scope = s.scope
      /\ u.status = [w \in VersionId |-> IF w = v THEN "approved"
                                        ELSE IF w = s.approved THEN "superseded"
                                        ELSE s.status[w]]
      /\ u.number = s.number /\ u.snapshot = s.snapshot
      /\ u.draft = None /\ u.approved = v
      /\ u.pstatus = "active" /\ u.lifecycle = "active"
      /\ u.reviewOf = s.reviewOf /\ u.reviewStatus = s.reviewStatus
  BY <1>1 DEF Approved, Db, VersionStatus, ProjectStatus, ProjectLifecycleStatus
<1> HIDE DEF u
<1>3. /\ t \in Db /\ t.scope = s.scope
      /\ t.status = u.status /\ t.number = s.number /\ t.snapshot = s.snapshot
      /\ t.draft = None /\ t.approved = v
      /\ t.pstatus = "active" /\ t.lifecycle = "active"
      /\ t.reviewOf = s.reviewOf
      /\ t.reviewStatus = [q \in ReviewId |-> IF q = r THEN "closed" ELSE s.reviewStatus[q]]
  BY <1>2 DEF ReviewsClosed, Db
<1> HIDE DEF t
<1>4. Inserted(t)
  BY <1>1, <1>2, <1>3 DEF Consistent, Inserted, Exists, Pointers, Db
<1>5. Reviews(t)
  BY <1>1, <1>2, <1>3 DEF Consistent, Reviews, Pointers, Submittable, Db
<1>6. Pointers(t)
  BY <1>1, <1>2, <1>3, Ids DEF Consistent, Pointers, Submittable, Db
<1>7. Scopes(t)
  BY <1>1, <1>2, <1>3 DEF Consistent, Scopes, Pointers, Submittable, Reviewed, Db
<1>8. Numbers(t)
  BY <1>1, <1>2, <1>3 DEF Consistent, Numbers, Exists, Pointers, Db
<1>9. Summary(t)
  BY <1>1, <1>2, <1>3 DEF Summary, DraftStatus, SettledLifecycle
<1> QED
  BY <1>3, <1>4, <1>5, <1>6, <1>7, <1>8, <1>9 DEF Consistent, t, u

\* Rejecting the version under review, opening its successor w with number n
\* and closing the review.
LEMMA RejectConsistent ==
  ASSUME NEW s, Consistent(s), NEW v \in VersionId, s.status[v] = "pending_review",
         NEW r \in ReviewId, s.reviewStatus[r] = "open", s.reviewOf[r] = v,
         NEW w \in NextVersionIds(s), NEW n \in NextNumbers(s)
  PROVE  Consistent(ReviewsClosed(Rejected(s, v, w, n), {r}))
<1> DEFINE c == [s EXCEPT !.status[v] = "rejected"]
           u == Rejected(s, v, w, n)
           t == ReviewsClosed(u, {r})
<1>1. /\ s \in Db /\ v = s.draft /\ v # None
      /\ w \in VersionId /\ n \in Number /\ ~ Exists(s, w) /\ w # v
      /\ \A x \in VersionId : x < w => Exists(s, x)
      /\ \A x \in VersionId : s.number[x] < n
  BY Ids DEF Consistent, Pointers, Submittable, NextVersionIds, NextNumbers, Exists
<1>2. /\ c \in Db /\ c.status = [s.status EXCEPT ![v] = "rejected"]
      /\ c.number = s.number /\ c.snapshot = s.snapshot /\ c.scope = s.scope
      /\ c.approved = s.approved
      /\ c.reviewOf = s.reviewOf /\ c.reviewStatus = s.reviewStatus
  BY <1>1 DEF Db, VersionStatus
<1> HIDE DEF c
<1>3. u = NewDraft(c, w, n)
  BY DEF Rejected, c
<1>4. /\ u \in Db /\ u.scope = s.scope
      /\ u.status = [c.status EXCEPT ![w] = "draft"]
      /\ u.number = [s.number EXCEPT ![w] = n]
      /\ u.snapshot = [s.snapshot EXCEPT ![w] = s.scope]
      /\ u.draft = w /\ u.approved = s.approved
      /\ u.pstatus = SettledStatus(c) /\ u.lifecycle = SettledLifecycle(c)
      /\ u.reviewOf = s.reviewOf /\ u.reviewStatus = s.reviewStatus
  BY <1>1, <1>2, <1>3, NewDraftColumns
<1> HIDE DEF u
<1>5. /\ t \in Db /\ t.scope = s.scope
      /\ t.status = u.status /\ t.number = u.number /\ t.snapshot = u.snapshot
      /\ t.draft = w /\ t.approved = s.approved
      /\ t.pstatus = u.pstatus /\ t.lifecycle = u.lifecycle
      /\ t.reviewOf = s.reviewOf
      /\ t.reviewStatus = [q \in ReviewId |-> IF q = r THEN "closed" ELSE s.reviewStatus[q]]
  BY <1>4 DEF ReviewsClosed, Db
<1> HIDE DEF t
<1>6. Inserted(t)
  <2>1. \A x \in VersionId : Exists(t, x) <=> Exists(s, x) \/ x = w
    BY <1>1, <1>2, <1>4, <1>5 DEF Exists, Db
  <2>2. \A x, y \in VersionId : x < y /\ Exists(s, y) => Exists(s, x)
    BY DEF Consistent, Inserted
  <2>3. \A x \in VersionId : Exists(s, x) => x < w
    BY <1>1, <2>2, Ids
  <2>4. \A x \in VersionId : ~ Exists(t, x) => t.number[x] = 0
    BY <1>1, <1>4, <1>5, <2>1 DEF Consistent, Inserted, Db
  <2>5. \A x, y \in VersionId : x < y /\ Exists(t, y) => Exists(t, x)
    BY <1>1, <2>1, <2>2
  <2>6. \A x \in VersionId : Exists(t, x) => x <= t.draft
    BY <1>1, <1>5, <2>1, <2>3, Ids
  <2> QED
    BY <2>4, <2>5, <2>6 DEF Inserted
<1>7. Reviews(t)
  BY <1>1, <1>2, <1>4, <1>5 DEF Consistent, Reviews, Pointers, Submittable, Db
<1>8. Pointers(t)
  BY <1>1, <1>2, <1>4, <1>5, Ids DEF Consistent, Pointers, Submittable, Exists, Db
<1>9. Scopes(t)
  BY <1>1, <1>2, <1>4, <1>5, Ids DEF Consistent, Scopes, Pointers, Submittable, Reviewed, Exists, Db
<1>10. Numbers(t)
  <2>1. /\ \A x \in VersionId : Exists(t, x) <=> Exists(s, x) \/ x = w
        /\ \A x \in VersionId : t.number[x] = IF x = w THEN n ELSE s.number[x]
    BY <1>1, <1>2, <1>4, <1>5 DEF Exists, Db
  <2>2. \A x \in VersionId : w < x => ~ Exists(s, x)
    BY <1>1 DEF Consistent, Inserted
  <2>3. \A x, y \in VersionId : x < y /\ Exists(s, y) => s.number[x] < s.number[y]
    BY DEF Consistent, Numbers
  <2> QED
    BY <1>1, <2>1, <2>2, <2>3, Ids DEF Numbers
<1>11. Summary(t)
  BY <1>1, <1>2, <1>4, <1>5, Ids DEF Consistent, Summary, SettledStatus, SettledLifecycle,
     DraftStatus, Db
<1> QED
  BY <1>5, <1>6, <1>7, <1>8, <1>9, <1>10, <1>11 DEF Consistent, t, u

\* Rebuilding the scope, and the editable draft's snapshot, from a snapshot.
LEMMA RollbackConsistent ==
  ASSUME NEW s, Consistent(s), s.draft \in VersionId, s.status[s.draft] = "draft",
         NEW c \in Content
  PROVE  Consistent(RolledBack(s, c))
<1> DEFINE d == s.draft
           t == RolledBack(s, c)
<1>1. s \in Db /\ d \in VersionId /\ d # None /\ Restored(c) \in Content
  BY Ids DEF Consistent, Restored, Content
<1>2. /\ t \in Db /\ t.scope = Restored(c)
      /\ t.status = s.status /\ t.number = s.number
      /\ t.snapshot = [s.snapshot EXCEPT ![d] = Restored(c)]
      /\ t.draft = d /\ t.approved = s.approved
      /\ t.pstatus = SettledStatus(s) /\ t.lifecycle = SettledLifecycle(s)
      /\ t.reviewOf = s.reviewOf /\ t.reviewStatus = s.reviewStatus
  BY <1>1 DEF RolledBack, Db, SettledStatus, SettledLifecycle, ProjectStatus,
              ProjectLifecycleStatus
<1> HIDE DEF t
<1>3. Inserted(t) /\ Reviews(t) /\ Pointers(t) /\ Numbers(t)
  BY <1>2 DEF Consistent, Inserted, Reviews, Pointers, Numbers, Submittable, Exists
<1>4. Scopes(t)
  BY <1>1, <1>2 DEF Consistent, Scopes, Pointers, Submittable, Reviewed, Db
<1>5. Summary(t)
  BY <1>1, <1>2 DEF Consistent, Summary, DraftStatus, SettledStatus, SettledLifecycle
<1> QED
  BY <1>2, <1>3, <1>4, <1>5 DEF Consistent, t

-----------------------------------------------------------------------------
(***************************************************************************)
(* The invariant and the properties it gives *)
(***************************************************************************)

\* The project create_project inserts is consistent.
LEMMA InitConsistent == Init => Consistent(db)
<1> SUFFICES ASSUME Init PROVE Consistent(db)
  OBVIOUS
<1>1. db \in Db
  BY BoundsAssumption DEF Init, Db, VersionStatus, ProjectStatus, ProjectLifecycleStatus,
     Content, Number, None
<1>2. Inserted(db) /\ Reviews(db) /\ Numbers(db)
  BY Ids DEF Init, Inserted, Reviews, Numbers, Exists
<1>3. Pointers(db) /\ Scopes(db) /\ Summary(db)
  BY Ids DEF Init, Pointers, Scopes, Summary, Submittable, Reviewed, DraftStatus, SettledLifecycle
<1> QED
  BY <1>1, <1>2, <1>3 DEF Consistent

\* The first draft of a project that has no version (ensure_project_baseline_version).
LEMMA Baseline ==
  ASSUME NEW s, Consistent(s), NEW t \in BaselinesAt(s, NextVersionIds(s))
  PROVE  /\ Consistent(t)
         /\ \A v \in VersionId : Exists(s, v) =>
               /\ t.status[v] = s.status[v]
               /\ t.number[v] = s.number[v]
               /\ t.snapshot[v] = s.snapshot[v]
         /\ \/ t = s
            \/ \E v \in VersionId : /\ s.draft = None /\ ~ Exists(s, v)
                                    /\ t.status = [s.status EXCEPT ![v] = "draft"]
<1>1. CASE ~ (s.draft = None /\ s.approved = None)
  BY <1>1 DEF BaselinesAt
<1>2. CASE s.draft = None /\ s.approved = None
  <2>1. PICK v \in NextVersionIds(s), n \in NextNumbers(s) : t = NewDraft(s, v, n)
    BY <1>2 DEF BaselinesAt
  <2>2. Consistent(t)
    BY <1>2, <2>1, NewDraftConsistent
  <2>3. s \in Db /\ v \in VersionId /\ n \in Number /\ ~ Exists(s, v)
    BY DEF Consistent, NextVersionIds, NextNumbers
  <2>4. /\ t.status   = [s.status EXCEPT ![v] = "draft"]
        /\ t.number   = [s.number EXCEPT ![v] = n]
        /\ t.snapshot = [s.snapshot EXCEPT ![v] = s.scope]
    BY <2>1, <2>3, NewDraftColumns
  <2> QED
    BY <1>2, <2>2, <2>3, <2>4 DEF Db, Exists
<1> QED
  BY <1>1, <1>2

\* Every handler keeps the rows consistent.
LEMMA StepConsistent == Consistent(db) /\ [Next]_db => Consistent(db')
<1> SUFFICES ASSUME Consistent(db), [Next]_db PROVE Consistent(db')
  OBVIOUS
<1>0. db \in Db
  BY DEF Consistent
<1>1. CASE OpenDraft
  BY <1>1, EnsuredDraft DEF OpenDraft
<1>2. ASSUME NEW c \in Content, EditScope(c) PROVE Consistent(db')
  <2>1. PICK t \in EnsuredDrafts(db) : db' = [t EXCEPT !.scope = c]
    BY <1>2 DEF EditScope
  <2> QED
    BY <2>1, EnsuredDraft, EditConsistent
<1>3. CASE ListVersions
  <2>1. PICK t \in BaselinesAt(db, NextVersionIds(db)) : db' = RefreshDrafts(t, VersionId)
    BY <1>3 DEF ListVersions
  <2> QED
    BY <2>1, Baseline, RefreshConsistent
<1>4. CASE Submit
  <2>0. PICK t \in EnsuredDrafts(db) : \E n \in AssignableNumbers(t), r \in NextReviewIds(t) :
          db' = ReviewOpened(Submitted(t, n), r, t.draft)
    BY <1>4 DEF Submit
  <2>1. PICK n \in AssignableNumbers(t), r \in NextReviewIds(t) :
          db' = ReviewOpened(Submitted(t, n), r, t.draft)
    BY <2>0
  <2>2. /\ Consistent(t) /\ t.draft \in VersionId /\ t.status[t.draft] = "draft"
        /\ t.scope = db.scope /\ t.reviewStatus = db.reviewStatus
    BY EnsuredDraft
  <2>3. OpenReviews(t) = {} /\ IsComplete(t.scope)
    BY <1>4, <2>2 DEF Submit, CanSubmit, OpenReviews
  <2> QED
    BY <2>1, <2>2, <2>3, SubmitConsistent
<1>5. ASSUME NEW v \in VersionId, GetVersion(v) PROVE Consistent(db')
  BY <1>5, RefreshConsistent DEF GetVersion
<1>6. ASSUME NEW v \in VersionId, ApproveVersion(v) PROVE Consistent(db')
  <2>1. PICK rs \in ReviewChoices(db, v) : db' = ReviewsClosed(Approved(db, v), rs)
    BY <1>6 DEF ApproveVersion
  <2>2. db.status[v] = "pending_review"
    BY <1>6 DEF ApproveVersion
  <2> QED
    BY <2>1, <2>2, ChosenReview, ApproveConsistent
<1>7. ASSUME NEW v \in VersionId, RejectVersion(v) PROVE Consistent(db')
  <2>1. PICK w \in NextVersionIds(db), n \in NextNumbers(db), rs \in ReviewChoices(db, v) :
          db' = ReviewsClosed(Rejected(db, v, w, n), rs)
    BY <1>7 DEF RejectVersion
  <2>2. db.status[v] = "pending_review"
    BY <1>7 DEF RejectVersion
  <2> QED
    BY <2>1, <2>2, ChosenReview, RejectConsistent
<1>8. ASSUME NEW v \in VersionId, Rollback(v) PROVE Consistent(db')
  <2>1. PICK t \in EnsuredDrafts(db) : db' = RolledBack(t, db.snapshot[v])
    BY <1>8 DEF Rollback
  <2>2. db.snapshot[v] \in Content
    BY <1>0, <1>8 DEF Rollback, Db
  <2> QED
    BY <2>1, <2>2, EnsuredDraft, RollbackConsistent
<1>9. ASSUME NEW r \in ReviewId, CanDecide(db, r)
      PROVE  db.reviewOf[r] \in VersionId
  BY <1>0, <1>9 DEF CanDecide, Db
<1>10. ASSUME NEW r \in ReviewId, ApproveHandover(r) PROVE Consistent(db')
  BY <1>9, <1>10, ApproveConsistent DEF ApproveHandover, CanDecide
<1>11. ASSUME NEW r \in ReviewId, RejectHandover(r) PROVE Consistent(db')
  BY <1>9, <1>11, RejectConsistent DEF RejectHandover, CanDecide
<1>12. CASE UNCHANGED db
  BY <1>12
<1> QED
  BY <1>1, <1>2, <1>3, <1>4, <1>5, <1>6, <1>7, <1>8, <1>10, <1>11, <1>12 DEF Next

\* The invariant of the handover workflow: every row, pointer, review, number
\* and status agrees with the others after every request.
THEOREM Invariance == Spec => []IInv
<1>1. Init => IInv
  BY InitConsistent DEF IInv
<1>2. IInv /\ [Next]_db => IInv'
  BY StepConsistent DEF IInv
<1> QED
  BY <1>1, <1>2, PTL DEF Spec

\* Every column keeps its type (project_entities.py, issue_entities.py).
THEOREM TypeCorrect == Spec => []TypeOK
<1>1. IInv => TypeOK
  BY DEF IInv, Consistent, TypeOK
<1> QED
  BY <1>1, Invariance, PTL

\* Open reviews and versions under review correspond one to one: no version
\* is undecidable and no leftover review blocks submit_version.
THEOREM ReviewsTrackSubmissions == Spec => []ReviewTracksSubmission
<1>1. IInv => ReviewTracksSubmission
  BY DEF IInv, Consistent, ReviewTracksSubmission, Reviews, OpenReviews
<1> QED
  BY <1>1, Invariance, PTL

\* The approved pointer and the APPROVED status name the same one version.
THEOREM ApprovedPointerCorrect == Spec => []OneVersionInForce
<1>1. IInv => OneVersionInForce
  BY DEF IInv, Consistent, OneVersionInForce, Pointers
<1> QED
  BY <1>1, Invariance, PTL

\* The draft pointer names the one open version; no draft is orphaned.
THEOREM DraftPointerCorrect == Spec => []OneOpenVersion
<1>1. IInv => OneOpenVersion
  BY DEF IInv, Consistent, OneOpenVersion, Pointers
<1> QED
  BY <1>1, Invariance, PTL

\* The scope under review is the scope the reviewer's snapshot shows.
THEOREM ReviewedScopeFrozen == Spec => []ReviewedScopeIsFrozen
<1>1. IInv => ReviewedScopeIsFrozen
  BY DEF IInv, Consistent, ReviewedScopeIsFrozen, Scopes
<1> QED
  BY <1>1, Invariance, PTL

\* With no open draft the live scope is the approved snapshot.
THEOREM LiveScopeApproved == Spec => []LiveScopeIsApproved
<1>1. IInv => LiveScopeIsApproved
  BY DEF IInv, Consistent, LiveScopeIsApproved, Scopes
<1> QED
  BY <1>1, Invariance, PTL

\* Whatever was submitted had passed the completeness check.
THEOREM ReviewedComplete == Spec => []ReviewedVersionsComplete
<1>1. IInv => ReviewedVersionsComplete
  BY DEF IInv, Consistent, ReviewedVersionsComplete, Scopes
<1> QED
  BY <1>1, Invariance, PTL

\* Version numbers grow with the order of insertion, renames included.
THEOREM NumbersGrow == Spec => []NumbersIncrease
<1>1. IInv => NumbersIncrease
  BY DEF IInv, Consistent, NumbersIncrease, Numbers
<1> QED
  BY <1>1, Invariance, PTL

\* The two status columns of the project agree with its version pointers.
THEOREM StatusCorrect == Spec => []StatusSummarisesVersions
<1>1. IInv => StatusSummarisesVersions
  BY DEF IInv, Consistent, StatusSummarisesVersions, Summary
<1> QED
  BY <1>1, Invariance, PTL

\* Both version pointers and both status columns agree with the versions.
THEOREM PointersCorrect == Spec => []PointersAgree
<1>1. OneVersionInForce /\ OneOpenVersion /\ StatusSummarisesVersions => PointersAgree
  BY DEF PointersAgree
<1> QED
  BY <1>1, ApprovedPointerCorrect, DraftPointerCorrect, StatusCorrect, PTL

\* The scope that goes live is the complete one that was reviewed.
THEOREM ScopesCorrect == Spec => []ScopeIsReviewed
<1>1. ReviewedScopeIsFrozen /\ LiveScopeIsApproved /\ ReviewedVersionsComplete => ScopeIsReviewed
  BY DEF ScopeIsReviewed
<1> QED
  BY <1>1, ReviewedScopeFrozen, LiveScopeApproved, ReviewedComplete, PTL

-----------------------------------------------------------------------------
(***************************************************************************)
(* Steps *)
(***************************************************************************)

\* What rejecting changes, column by column (ReviewsClosed only adds its review).
LEMMA RejectedColumns ==
  ASSUME NEW s \in Db, NEW v \in VersionId, NEW w \in VersionId, w # v,
         NEW n \in Number, NEW rs
  PROVE  LET t == ReviewsClosed(Rejected(s, v, w, n), rs)
         IN /\ t.status   = [s.status EXCEPT ![v] = "rejected", ![w] = "draft"]
            /\ t.number   = [s.number EXCEPT ![w] = n]
            /\ t.snapshot = [s.snapshot EXCEPT ![w] = s.scope]
<1> DEFINE c == [s EXCEPT !.status[v] = "rejected"]
           u == Rejected(s, v, w, n)
<1>1. /\ c \in Db /\ c.status = [s.status EXCEPT ![v] = "rejected"]
      /\ c.number = s.number /\ c.snapshot = s.snapshot /\ c.scope = s.scope
  BY DEF Db, VersionStatus
<1> HIDE DEF c
<1>2. u = NewDraft(c, w, n)
  BY DEF Rejected, c
<1> HIDE DEF u
<1>3. /\ u \in Db
      /\ u.status = [c.status EXCEPT ![w] = "draft"]
      /\ u.number = [c.number EXCEPT ![w] = n]
      /\ u.snapshot = [c.snapshot EXCEPT ![w] = c.scope]
  BY <1>1, <1>2, NewDraftColumns
<1>4. LET t == ReviewsClosed(u, rs)
      IN t.status = u.status /\ t.number = u.number /\ t.snapshot = u.snapshot
  BY <1>3 DEF ReviewsClosed, Db
<1>5. u.status = [s.status EXCEPT ![v] = "rejected", ![w] = "draft"]
  BY <1>1, <1>3 DEF Db
<1> QED
  BY <1>1, <1>3, <1>4, <1>5 DEF u

\* What approving changes.
LEMMA ApprovedColumns ==
  ASSUME NEW s \in Db, NEW v \in VersionId, NEW rs
  PROVE  LET t == ReviewsClosed(Approved(s, v), rs)
         IN /\ t.status = [w \in VersionId |-> IF w = v THEN "approved"
                                               ELSE IF w = s.approved THEN "superseded"
                                               ELSE s.status[w]]
            /\ t.number = s.number /\ t.snapshot = s.snapshot
BY DEF ReviewsClosed, Approved, Db

\* What submitting changes.
LEMMA SubmittedColumns ==
  ASSUME NEW s \in Db, NEW n, NEW r
  PROVE  LET t == ReviewOpened(Submitted(s, n), r, s.draft)
         IN /\ t.status   = [s.status EXCEPT ![s.draft] = "pending_review"]
            /\ t.number   = [s.number EXCEPT ![s.draft] = n]
            /\ t.snapshot = [s.snapshot EXCEPT ![s.draft] = s.scope]
BY DEF ReviewOpened, Submitted, Db

\* From s to t, no submitted version's snapshot or number changes.
RecordsKept(s, t) ==
  \A v \in VersionId : Reviewed(s, v) =>
    t.snapshot[v] = s.snapshot[v] /\ t.number[v] = s.number[v]

\* With no draft pointer, no version is open.
LEMMA NoneOpenWithoutDraft ==
  ASSUME IInv, db.draft = None
  PROVE  Lifecycle!NoneOpen
BY Ids DEF IInv, Consistent, Pointers, Submittable, Lifecycle!NoneOpen, Lifecycle!OpenStatus

\* What each handler does to the submitted records and to the lifecycle.
LEMMA StepEffects ==
  ASSUME IInv, Next
  PROVE  RecordsKept(db, db') /\ (Lifecycle!Next \/ UNCHANGED db.status)
<1>0. Consistent(db) /\ db \in Db
  BY DEF IInv, Consistent
<1>1. ASSUME NEW t \in EnsuredDrafts(db), db'.status = t.status,
             \A v \in VersionId : v # t.draft =>
               db'.snapshot[v] = t.snapshot[v] /\ db'.number[v] = t.number[v]
      PROVE  RecordsKept(db, db') /\ (Lifecycle!Next \/ UNCHANGED db.status)
  <2>1. /\ t.draft \in VersionId /\ t.status[t.draft] = "draft"
        /\ \A v \in VersionId : Exists(db, v) =>
              /\ t.status[v] = db.status[v]
              /\ t.number[v] = db.number[v]
              /\ t.snapshot[v] = db.snapshot[v]
        /\ \/ t = db
           \/ /\ db.draft = None /\ ~ Exists(db, t.draft)
              /\ t.status = [db.status EXCEPT ![t.draft] = "draft"]
    BY <1>0, EnsuredDraft
  <2>2. RecordsKept(db, db')
    BY <1>1, <2>1 DEF RecordsKept, Reviewed, Exists
  <2>3. Lifecycle!Next \/ UNCHANGED db.status
    BY <1>1, <2>1, NoneOpenWithoutDraft DEF Lifecycle!Next, Lifecycle!Open, Exists
  <2> QED
    BY <2>2, <2>3
<1>2. CASE OpenDraft
  BY <1>1, <1>2 DEF OpenDraft
<1>3. ASSUME NEW c \in Content, EditScope(c)
      PROVE  RecordsKept(db, db') /\ (Lifecycle!Next \/ UNCHANGED db.status)
  <2>1. PICK t \in EnsuredDrafts(db) : db' = [t EXCEPT !.scope = c]
    BY <1>3 DEF EditScope
  <2>2. t \in Db
    BY <1>0, EnsuredDraft DEF Consistent
  <2>3. db'.status = t.status /\ db'.snapshot = t.snapshot /\ db'.number = t.number
    BY <2>1, <2>2 DEF Db
  <2> QED
    BY <1>1, <2>3
<1>4. CASE ListVersions
  <2>1. PICK t \in BaselinesAt(db, NextVersionIds(db)) : db' = RefreshDrafts(t, VersionId)
    BY <1>4 DEF ListVersions
  <2>2. /\ Consistent(t)
        /\ \A v \in VersionId : Exists(db, v) =>
              /\ t.status[v] = db.status[v]
              /\ t.number[v] = db.number[v]
              /\ t.snapshot[v] = db.snapshot[v]
        /\ \/ t = db
           \/ \E v \in VersionId : /\ db.draft = None /\ ~ Exists(db, v)
                                   /\ t.status = [db.status EXCEPT ![v] = "draft"]
    BY <1>0, Baseline
  <2>3. /\ db'.status = t.status /\ db'.number = t.number
        /\ \A v \in VersionId : t.status[v] # "draft" => db'.snapshot[v] = t.snapshot[v]
    BY <2>1, <2>2, RefreshConsistent
  <2>4. RecordsKept(db, db')
    BY <2>2, <2>3 DEF RecordsKept, Reviewed, Exists
  <2>5. Lifecycle!Next \/ UNCHANGED db.status
    BY <2>2, <2>3, NoneOpenWithoutDraft DEF Lifecycle!Next, Lifecycle!Open, Exists
  <2> QED
    BY <2>4, <2>5
<1>5. CASE Submit
  <2>1. PICK t \in EnsuredDrafts(db) : \E n \in AssignableNumbers(t), r \in NextReviewIds(t) :
          db' = ReviewOpened(Submitted(t, n), r, t.draft)
    BY <1>5 DEF Submit
  <2>2. PICK n \in AssignableNumbers(t), r \in NextReviewIds(t) :
          db' = ReviewOpened(Submitted(t, n), r, t.draft)
    BY <2>1
  <2>3. /\ Consistent(t) /\ t.draft \in VersionId /\ t.status[t.draft] = "draft"
        /\ \A v \in VersionId : Exists(db, v) =>
              /\ t.status[v] = db.status[v]
              /\ t.number[v] = db.number[v]
              /\ t.snapshot[v] = db.snapshot[v]
        /\ \/ t = db
           \/ /\ db.draft = None /\ ~ Exists(db, t.draft)
              /\ t.status = [db.status EXCEPT ![t.draft] = "draft"]
    BY <1>0, EnsuredDraft
  <2>4. t \in Db
    BY <2>3 DEF Consistent
  <2>5. /\ db'.status   = [t.status EXCEPT ![t.draft] = "pending_review"]
        /\ db'.number   = [t.number EXCEPT ![t.draft] = n]
        /\ db'.snapshot = [t.snapshot EXCEPT ![t.draft] = t.scope]
    BY <2>2, <2>4, SubmittedColumns
  <2>6. RecordsKept(db, db')
    BY <2>3, <2>4, <2>5 DEF RecordsKept, Reviewed, Exists, Db
  <2>7. /\ db.status[t.draft] = "draft" \/ (db.status[t.draft] = "absent" /\ db.draft = None)
        /\ db'.status = [db.status EXCEPT ![t.draft] = "pending_review"]
    BY <1>0, <2>3, <2>5 DEF Exists, Db
  <2>8. Lifecycle!Submit(t.draft)
    BY <2>7, NoneOpenWithoutDraft DEF Lifecycle!Submit
  <2> QED
    BY <2>3, <2>6, <2>8 DEF Lifecycle!Next
<1>6. ASSUME NEW v \in VersionId, GetVersion(v)
      PROVE  RecordsKept(db, db') /\ (Lifecycle!Next \/ UNCHANGED db.status)
  <2>1. /\ db'.status = db.status /\ db'.number = db.number
        /\ \A w \in VersionId : db.status[w] # "draft" => db'.snapshot[w] = db.snapshot[w]
    BY <1>0, <1>6, RefreshConsistent DEF GetVersion
  <2> QED
    BY <2>1 DEF RecordsKept, Reviewed
<1>7. ASSUME NEW v \in VersionId, NEW rs, db.status[v] = "pending_review",
             db' = ReviewsClosed(Approved(db, v), rs)
      PROVE  RecordsKept(db, db') /\ (Lifecycle!Next \/ UNCHANGED db.status)
  <2>1. /\ db'.status = [w \in VersionId |-> IF w = v THEN "approved"
                                            ELSE IF w = db.approved THEN "superseded"
                                            ELSE db.status[w]]
        /\ db'.number = db.number /\ db'.snapshot = db.snapshot
    BY <1>0, <1>7, ApprovedColumns
  <2>2. \A w \in VersionId : db.status[w] = "approved" <=> w = db.approved
    BY <1>0 DEF Consistent, Pointers
  <2>3. Lifecycle!Approve(v)
    BY <1>7, <2>1, <2>2 DEF Lifecycle!Approve
  <2> QED
    BY <2>1, <2>3 DEF RecordsKept, Lifecycle!Next
<1>8. ASSUME NEW v \in VersionId, NEW w \in NextVersionIds(db), NEW n \in NextNumbers(db),
             NEW rs, db.status[v] = "pending_review",
             db' = ReviewsClosed(Rejected(db, v, w, n), rs)
      PROVE  RecordsKept(db, db') /\ (Lifecycle!Next \/ UNCHANGED db.status)
  <2>1. w \in VersionId /\ n \in Number /\ db.status[w] = "absent" /\ w # v
    BY <1>8 DEF NextVersionIds, NextNumbers, Exists
  <2>2. /\ db'.status   = [db.status EXCEPT ![v] = "rejected", ![w] = "draft"]
        /\ db'.number   = [db.number EXCEPT ![w] = n]
        /\ db'.snapshot = [db.snapshot EXCEPT ![w] = db.scope]
    BY <1>0, <1>8, <2>1, RejectedColumns
  <2>3. RecordsKept(db, db')
    BY <1>0, <2>1, <2>2 DEF RecordsKept, Reviewed, Db
  <2>4. Lifecycle!Reject(v, w)
    BY <1>8, <2>1, <2>2 DEF Lifecycle!Reject
  <2> QED
    BY <2>1, <2>3, <2>4 DEF Lifecycle!Next
<1>9. ASSUME NEW v \in VersionId, Rollback(v)
      PROVE  RecordsKept(db, db') /\ (Lifecycle!Next \/ UNCHANGED db.status)
  <2>1. PICK t \in EnsuredDrafts(db) : db' = RolledBack(t, db.snapshot[v])
    BY <1>9 DEF Rollback
  <2>2. t \in Db
    BY <1>0, EnsuredDraft DEF Consistent
  <2>3. /\ db'.status = t.status /\ db'.number = t.number
        /\ \A w \in VersionId : w # t.draft => db'.snapshot[w] = t.snapshot[w]
    BY <2>1, <2>2 DEF RolledBack, Db
  <2> QED
    BY <1>1, <2>3
<1>10. ASSUME NEW v \in VersionId, ApproveVersion(v)
       PROVE  RecordsKept(db, db') /\ (Lifecycle!Next \/ UNCHANGED db.status)
  BY <1>7, <1>10 DEF ApproveVersion
<1>11. ASSUME NEW v \in VersionId, RejectVersion(v)
       PROVE  RecordsKept(db, db') /\ (Lifecycle!Next \/ UNCHANGED db.status)
  BY <1>8, <1>11 DEF RejectVersion
<1>12. ASSUME NEW r \in ReviewId, CanDecide(db, r)
       PROVE  db.reviewOf[r] \in VersionId /\ db.status[db.reviewOf[r]] = "pending_review"
  BY <1>0, <1>12 DEF CanDecide, Db
<1>13. ASSUME NEW r \in ReviewId, ApproveHandover(r)
       PROVE  RecordsKept(db, db') /\ (Lifecycle!Next \/ UNCHANGED db.status)
  BY <1>7, <1>12, <1>13 DEF ApproveHandover
<1>14. ASSUME NEW r \in ReviewId, RejectHandover(r)
       PROVE  RecordsKept(db, db') /\ (Lifecycle!Next \/ UNCHANGED db.status)
  BY <1>8, <1>12, <1>14 DEF RejectHandover
<1> QED
  BY <1>2, <1>3, <1>4, <1>5, <1>6, <1>9, <1>10, <1>11, <1>13, <1>14 DEF Next

\* A submitted version's snapshot and number never change again, whatever is
\* drafted, refreshed, renumbered or rolled back later.
THEOREM SubmittedImmutable == Spec => SubmittedVersionsImmutable
<1>1. IInv /\ [Next]_db =>
        [\A v \in VersionId : Reviewed(db, v) =>
           /\ db'.snapshot[v] = db.snapshot[v]
           /\ db'.number[v] = db.number[v]]_db
  BY StepEffects DEF RecordsKept
<1> QED
  BY <1>1, Invariance, PTL DEF Spec, SubmittedVersionsImmutable

\* The handover workflow implements the lifecycle ProjectVersionStatus declares.
THEOREM ImplementsLifecycle == Spec => FollowsLifecycle
<1>1. Init => Lifecycle!Init
  BY DEF Init, Lifecycle!Init
<1>2. IInv /\ [Next]_db => [Lifecycle!Next]_(db.status)
  BY StepEffects
<1> QED
  BY <1>1, <1>2, Invariance, PTL DEF Spec, FollowsLifecycle, Lifecycle!Spec

-----------------------------------------------------------------------------
(***************************************************************************)
(* What each handler makes of the rows it read: t is s after the operation *)
(***************************************************************************)

SameReviews(t, s) == t.reviewOf = s.reviewOf /\ t.reviewStatus = s.reviewStatus
SameSummary(t, s) == t.pstatus = s.pstatus /\ t.lifecycle = s.lifecycle

NewDraftOf(t, s, v, n) ==
  /\ t \in Db /\ SameReviews(t, s)
  /\ t.status   = [s.status EXCEPT ![v] = "draft"]
  /\ t.number   = [s.number EXCEPT ![v] = n]
  /\ t.snapshot = [s.snapshot EXCEPT ![v] = s.scope]
  /\ t.draft = v /\ t.approved = s.approved /\ t.scope = s.scope

\* create_draft_version.
LEMMA NewDraftIs ==
  ASSUME NEW s \in Db, NEW v \in VersionId, NEW n \in Number
  PROVE  NewDraftOf(NewDraft(s, v, n), s, v, n)
BY DEF NewDraftOf, SameReviews, NewDraft, Db, SettledStatus, SettledLifecycle, VersionStatus,
       ProjectStatus, ProjectLifecycleStatus

EditOf(t, s, c) ==
  /\ t \in Db /\ SameReviews(t, s) /\ SameSummary(t, s) /\ t.scope = c
  /\ t.status = s.status /\ t.number = s.number /\ t.snapshot = s.snapshot
  /\ t.draft = s.draft /\ t.approved = s.approved

Edited(s, c) == [s EXCEPT !.scope = c]

\* An edit of the scope.
LEMMA EditedIs ==
  ASSUME NEW s \in Db, NEW c \in Content
  PROVE  EditOf(Edited(s, c), s, c)
BY DEF EditOf, Edited, SameReviews, SameSummary, Db

RefreshOf(t, s, vs) ==
  /\ t \in Db /\ SameReviews(t, s) /\ SameSummary(t, s) /\ t.scope = s.scope
  /\ t.status = s.status /\ t.number = s.number
  /\ t.snapshot = [v \in VersionId |->
        IF v \in vs /\ s.status[v] = "draft" THEN s.scope ELSE s.snapshot[v]]
  /\ t.draft = s.draft /\ t.approved = s.approved
  /\ (\A v \in VersionId : v \in vs => s.status[v] # "draft") => t = s

\* refresh_project_version_artifacts.
LEMMA RefreshIs ==
  ASSUME NEW s \in Db, NEW vs
  PROVE  RefreshOf(RefreshDrafts(s, vs), s, vs)
BY DEF RefreshOf, SameReviews, SameSummary, Db, RefreshDrafts

SubmitOf(t, s, n, r) ==
  /\ t \in Db /\ t.scope = s.scope
  /\ t.status = [s.status EXCEPT ![s.draft] = "pending_review"]
  /\ t.number = [s.number EXCEPT ![s.draft] = n]
  /\ t.snapshot = [s.snapshot EXCEPT ![s.draft] = s.scope]
  /\ t.draft = s.draft /\ t.approved = s.approved
  /\ t.reviewOf = [s.reviewOf EXCEPT ![r] = s.draft]
  /\ t.reviewStatus = [s.reviewStatus EXCEPT ![r] = "open"]

\* submit_project_version, and the review that submit_version opens.
LEMMA SubmitIs ==
  ASSUME NEW s \in Db, s.draft \in VersionId, NEW n \in Number, NEW r \in ReviewId
  PROVE  SubmitOf(ReviewOpened(Submitted(s, n), r, s.draft), s, n, r)
<1> DEFINE u == Submitted(s, n)
<1>1. /\ u \in Db /\ u.scope = s.scope
      /\ u.status = [s.status EXCEPT ![s.draft] = "pending_review"]
      /\ u.number = [s.number EXCEPT ![s.draft] = n]
      /\ u.snapshot = [s.snapshot EXCEPT ![s.draft] = s.scope]
      /\ u.draft = s.draft /\ u.approved = s.approved
      /\ u.reviewOf = s.reviewOf /\ u.reviewStatus = s.reviewStatus
  BY DEF Submitted, Db, SettledLifecycle, VersionStatus, ProjectStatus, ProjectLifecycleStatus
<1> HIDE DEF u
<1>2. SubmitOf(ReviewOpened(u, r, s.draft), s, n, r)
  BY <1>1 DEF SubmitOf, ReviewOpened, Db
<1> QED
  BY <1>2 DEF u

ApproveOf(t, s, v) ==
  /\ t \in Db /\ SameReviews(t, s) /\ t.scope = s.scope
  /\ t.status = [w \in VersionId |-> IF w = v THEN "approved"
                                     ELSE IF w = s.approved THEN "superseded"
                                     ELSE s.status[w]]
  /\ t.number = s.number /\ t.snapshot = s.snapshot
  /\ t.draft = (IF s.draft = v THEN None ELSE s.draft) /\ t.approved = v

\* approve_project_version.
LEMMA ApproveIs ==
  ASSUME NEW s \in Db, NEW v \in VersionId
  PROVE  ApproveOf(Approved(s, v), s, v)
BY DEF ApproveOf, SameReviews, Approved, Db, VersionStatus, ProjectStatus, ProjectLifecycleStatus

RejectOf(t, s, v, w, n) ==
  /\ t \in Db /\ SameReviews(t, s) /\ t.scope = s.scope
  /\ t.status = [[s.status EXCEPT ![v] = "rejected"] EXCEPT ![w] = "draft"]
  /\ t.number = [s.number EXCEPT ![w] = n]
  /\ t.snapshot = [s.snapshot EXCEPT ![w] = s.scope]
  /\ t.draft = w /\ t.approved = s.approved

\* reject_project_version.
LEMMA RejectIs ==
  ASSUME NEW s \in Db, NEW v \in VersionId, NEW w \in VersionId, NEW n \in Number
  PROVE  RejectOf(Rejected(s, v, w, n), s, v, w, n)
<1> DEFINE c == [s EXCEPT !.status[v] = "rejected"]
<1>1. /\ c \in Db /\ c.scope = s.scope
      /\ c.status = [s.status EXCEPT ![v] = "rejected"]
      /\ c.number = s.number /\ c.snapshot = s.snapshot /\ c.approved = s.approved
      /\ c.reviewOf = s.reviewOf /\ c.reviewStatus = s.reviewStatus
  BY DEF Db, VersionStatus
<1>2. Rejected(s, v, w, n) = NewDraft(c, w, n)
  BY DEF Rejected
<1> HIDE DEF c
<1>3. NewDraftOf(NewDraft(c, w, n), c, w, n)
  BY <1>1, NewDraftIs
<1> QED
  BY <1>1, <1>2, <1>3 DEF NewDraftOf, RejectOf, SameReviews

CloseOf(t, s, rs) ==
  /\ t \in Db /\ t.scope = s.scope
  /\ t.status = s.status /\ t.number = s.number /\ t.snapshot = s.snapshot
  /\ t.draft = s.draft /\ t.approved = s.approved
  /\ t.reviewOf = s.reviewOf
  /\ t.reviewStatus = [r \in ReviewId |-> IF r \in rs THEN "closed" ELSE s.reviewStatus[r]]
  /\ rs = {} => t = s

\* The reviews that are resolved.
LEMMA CloseIs ==
  ASSUME NEW s \in Db, NEW rs
  PROVE  CloseOf(ReviewsClosed(s, rs), s, rs)
BY DEF CloseOf, ReviewsClosed, Db

RollbackOf(t, s, c) ==
  /\ t \in Db /\ SameReviews(t, s)
  /\ t.status = s.status /\ t.number = s.number
  /\ t.snapshot = [s.snapshot EXCEPT ![s.draft] = Restored(c)]
  /\ t.draft = s.draft /\ t.approved = s.approved
  /\ t.pstatus = SettledStatus(s) /\ t.lifecycle = SettledLifecycle(s)

\* rollback_project_to_version.
LEMMA RollbackIs ==
  ASSUME NEW s \in Db, s.draft \in VersionId, NEW c \in Content
  PROVE  RollbackOf(RolledBack(s, c), s, c)
BY DEF RollbackOf, SameReviews, RolledBack, Restored, Content, Db, SettledStatus,
       SettledLifecycle, ProjectStatus, ProjectLifecycleStatus

FlushOf(t, old, new, forced) ==
  /\ t \in Db
  /\ \A v \in VersionId :
       /\ t.status[v] = IF new.status[v] # old.status[v] THEN new.status[v] ELSE db.status[v]
       /\ t.number[v] = IF new.number[v] # old.number[v] THEN new.number[v] ELSE db.number[v]
       /\ t.snapshot[v] = IF v \in forced \/ new.snapshot[v] # old.snapshot[v]
                          THEN new.snapshot[v] ELSE db.snapshot[v]
  /\ t.draft = IF new.draft # old.draft THEN new.draft ELSE db.draft
  /\ t.approved = IF new.approved # old.approved THEN new.approved ELSE db.approved
  /\ t.scope = IF new.scope # old.scope THEN new.scope ELSE db.scope
  /\ \A r \in ReviewId :
       /\ t.reviewOf[r] = IF new.reviewOf[r] # old.reviewOf[r] THEN new.reviewOf[r]
                          ELSE db.reviewOf[r]
       /\ t.reviewStatus[r] = IF new.reviewStatus[r] # old.reviewStatus[r]
                              THEN new.reviewStatus[r] ELSE db.reviewStatus[r]
  /\ t.pstatus = IF new.pstatus # old.pstatus THEN new.pstatus ELSE db.pstatus
  /\ t.lifecycle = IF new.lifecycle # old.lifecycle THEN new.lifecycle ELSE db.lifecycle
  /\ old = db => t = new
  /\ new = old /\ forced = {} => t = db

\* The flush: what was changed, over what is there.
LEMMA FlushIs ==
  ASSUME db \in Db, NEW old \in Db, NEW new \in Db, NEW forced
  PROVE  FlushOf(Flushed(old, new, forced), old, new, forced)
<1> DEFINE s == Flushed(old, new, forced)
<1>1. s = [status    |-> [v \in VersionId |-> IF new.status[v] # old.status[v] THEN new.status[v] ELSE db.status[v]],
           number    |-> [v \in VersionId |-> IF new.number[v] # old.number[v] THEN new.number[v] ELSE db.number[v]],
           snapshot  |-> [v \in VersionId |-> IF v \in forced \/ new.snapshot[v] # old.snapshot[v]
                                    THEN new.snapshot[v] ELSE db.snapshot[v]],
           draft     |-> IF new.draft # old.draft THEN new.draft ELSE db.draft,
           approved  |-> IF new.approved # old.approved THEN new.approved ELSE db.approved,
           pstatus   |-> IF new.pstatus # old.pstatus THEN new.pstatus ELSE db.pstatus,
           lifecycle |-> IF new.lifecycle # old.lifecycle THEN new.lifecycle ELSE db.lifecycle,
           scope     |-> IF new.scope # old.scope THEN new.scope ELSE db.scope,
           reviewOf  |-> [r \in ReviewId |-> IF new.reviewOf[r] # old.reviewOf[r] THEN new.reviewOf[r] ELSE db.reviewOf[r]],
           reviewStatus |-> [r \in ReviewId |-> IF new.reviewStatus[r] # old.reviewStatus[r]
                                        THEN new.reviewStatus[r] ELSE db.reviewStatus[r]]]
  BY DEF Flushed, Db
<1> HIDE DEF s
<1> QED
  BY <1>1 DEF FlushOf, Db, s

-----------------------------------------------------------------------------
(***************************************************************************)
(* Transactions *)
(***************************************************************************)

\* Handler op with arg passes its checks on the rows s.
AcceptedOn(s, op, arg) ==
  /\ op \in AllOperations
  /\ op = "open_draft" => CanMutate(s)
  /\ op = "edit" => arg \in Content /\ CanMutate(s)
  /\ op = "get_version" => arg \in VersionId /\ Exists(s, arg)
  /\ op = "submit" => CanSubmit(s)
  /\ op \in {"approve_version", "reject_version"} =>
       arg \in VersionId /\ s.status[arg] = "pending_review"
  /\ op \in {"approve_handover", "reject_handover"} => arg \in ReviewId /\ CanDecide(s, arg)
  /\ op = "rollback" => arg \in VersionId /\ Exists(s, arg) /\ s.snapshot[arg] # "none" /\ CanMutate(s)

Accepted(t) == t.seen \in Db /\ AcceptedOn(t.seen, t.op, t.arg)

\* What Begin checks is what AcceptedOn says of the rows that are there.
LEMMA BegunAccepted ==
  ASSUME NEW op \in Operations, NEW arg, Accepts(op, arg)
  PROVE  AcceptedOn(db, op, arg)
BY RaceAssumption DEF Accepts, AcceptedOn, AllOperations

\* At most a draft more, and no review.
QuietOn(s, new) ==
  /\ new \in Db /\ SameReviews(new, s) /\ new.approved = s.approved
  /\ \/ new.status = s.status /\ new.number = s.number /\ new.draft = s.draft
     \/ /\ DraftStatus(s) \notin {"draft", "pending_review"}
        /\ new.draft \in NextVersionIds(db)
        /\ new.status = [s.status EXCEPT ![new.draft] = "draft"]
        /\ \E n \in NextNumbers(s) : new.number = [s.number EXCEPT ![new.draft] = n]

\* A row inserted for lack of an open version.
LEMMA InsertedQuiet ==
  ASSUME NEW s \in Db, NEW v \in NextVersionIds(db), NEW n \in NextNumbers(s),
         DraftStatus(s) \notin {"draft", "pending_review"}
  PROVE  NewDraftOf(NewDraft(s, v, n), s, v, n) /\ QuietOn(s, NewDraft(s, v, n))
<1>1. v \in VersionId /\ n \in Number
  BY DEF NextVersionIds, NextNumbers
<1>2. NewDraftOf(NewDraft(s, v, n), s, v, n)
  BY <1>1, NewDraftIs
<1> QED
  BY <1>2 DEF NewDraftOf, QuietOn

\* The editable draft that a handler asks for.
LEMMA EnsuredQuiet ==
  ASSUME NEW s \in Db, NEW d \in EnsuredDraftsAt(s, NextVersionIds(db))
  PROVE  /\ QuietOn(s, d) /\ d.scope = s.scope
         /\ d.draft \in VersionId /\ d.status[d.draft] = "draft"
<1>1. CASE DraftStatus(s) = "draft"
  <2>1. d = s
    BY <1>1 DEF EnsuredDraftsAt
  <2>2. s.draft \in VersionId /\ s.status[s.draft] = "draft"
    BY <1>1 DEF Db, DraftStatus
  <2> QED
    BY <2>1, <2>2 DEF QuietOn, SameReviews
<1>2. CASE DraftStatus(s) = "pending_review"
  BY <1>2 DEF EnsuredDraftsAt
<1>3. CASE DraftStatus(s) \notin {"draft", "pending_review"}
  <2>1. PICK v \in NextVersionIds(db), n \in NextNumbers(s) : d = NewDraft(s, v, n)
    BY <1>3 DEF EnsuredDraftsAt
  <2>2. NewDraftOf(d, s, v, n) /\ QuietOn(s, d)
    BY <1>3, <2>1, InsertedQuiet
  <2>3. v \in VersionId /\ s.status \in [VersionId -> VersionStatus \union {"absent"}]
    BY DEF NextVersionIds, Db
  <2> QED
    BY <2>2, <2>3 DEF NewDraftOf
<1> QED
  BY <1>1, <1>2, <1>3

\* Handlers that neither submit nor decide.
LEMMA QuietOutcome ==
  ASSUME NEW t, Accepted(t), t.op \notin ReviewOperations, NEW new \in Outcomes(t)
  PROVE  QuietOn(t.seen, new)
<1> DEFINE s == t.seen
           vids == NextVersionIds(db)
<1>0. /\ s \in Db
      /\ t.op \in {"open_draft", "edit", "list_versions", "get_version", "rollback"}
  BY DEF Accepted, AcceptedOn, AllOperations, ReviewOperations
<1>1. CASE t.op = "open_draft"
  <2>1. new \in EnsuredDraftsAt(s, vids)
    BY <1>1 DEF Outcomes
  <2> QED
    BY <1>0, <2>1, EnsuredQuiet
<1>2. CASE t.op = "edit"
  <2>1. PICK d \in EnsuredDraftsAt(s, vids) : new = Edited(d, t.arg)
    BY <1>2 DEF Outcomes, Edited
  <2>2. QuietOn(s, d) /\ t.arg \in Content
    BY <1>0, <1>2, EnsuredQuiet DEF Accepted, AcceptedOn
  <2>3. EditOf(new, d, t.arg)
    BY <2>1, <2>2, EditedIs DEF QuietOn
  <2> QED
    BY <2>2, <2>3 DEF EditOf, QuietOn, SameReviews
<1>3. CASE t.op = "list_versions"
  <2>1. PICK b \in BaselinesAt(s, vids) : new = RefreshDrafts(b, VersionId)
    BY <1>3 DEF Outcomes
  <2>2. QuietOn(s, b)
    <3>1. CASE b = s
      BY <1>0, <3>1 DEF QuietOn, SameReviews
    <3>2. CASE b # s
      <4>1. s.draft = None
        BY <3>2 DEF BaselinesAt
      <4>2. PICK v \in vids, n \in NextNumbers(s) : b = NewDraft(s, v, n)
        BY <3>2 DEF BaselinesAt
      <4>3. DraftStatus(s) = "absent"
        BY <4>1 DEF DraftStatus
      <4> QED
        BY <1>0, <4>2, <4>3, InsertedQuiet
    <3> QED
      BY <3>1, <3>2
  <2>3. RefreshOf(new, b, VersionId)
    BY <2>1, <2>2, RefreshIs DEF QuietOn
  <2> QED
    BY <2>2, <2>3 DEF RefreshOf, QuietOn, SameReviews
<1>4. CASE t.op = "get_version"
  <2>1. new = RefreshDrafts(s, {t.arg})
    BY <1>4 DEF Outcomes
  <2>2. RefreshOf(new, s, {t.arg})
    BY <1>0, <2>1, RefreshIs
  <2> QED
    BY <2>2 DEF RefreshOf, QuietOn, SameReviews
<1>5. CASE t.op = "rollback"
  <2>1. PICK d \in EnsuredDraftsAt(s, vids) : new = RolledBack(d, s.snapshot[t.arg])
    BY <1>5 DEF Outcomes
  <2>2. QuietOn(s, d) /\ d.draft \in VersionId
    BY <1>0, EnsuredQuiet
  <2>3. s.snapshot[t.arg] \in Content
    BY <1>0, <1>5 DEF Accepted, AcceptedOn, Db
  <2>4. RollbackOf(new, d, s.snapshot[t.arg])
    BY <2>1, <2>2, <2>3, RollbackIs DEF QuietOn
  <2> QED
    BY <2>2, <2>4 DEF RollbackOf, QuietOn, SameReviews
<1> QED
  BY <1>0, <1>1, <1>2, <1>3, <1>4, <1>5

\* submit: one version under review more, and one open review more, its own.
LEMMA SubmitOutcome ==
  ASSUME NEW t, Accepted(t), t.op = "submit", NEW new \in Outcomes(t)
  PROVE  \E d \in EnsuredDraftsAt(t.seen, NextVersionIds(db)) :
         \E n \in AssignableNumbers(d), r \in NextReviewIds(db) :
           /\ QuietOn(t.seen, d) /\ d.scope = t.seen.scope
           /\ d.draft \in VersionId /\ d.status[d.draft] = "draft"
           /\ new = ReviewOpened(Submitted(d, n), r, d.draft)
           /\ SubmitOf(new, d, n, r)
<1>0. t.seen \in Db
  BY DEF Accepted
<1>1. PICK d \in EnsuredDraftsAt(t.seen, NextVersionIds(db)) :
        \E n \in AssignableNumbers(d), r \in NextReviewIds(db) :
           new = ReviewOpened(Submitted(d, n), r, d.draft)
  BY DEF Outcomes
<1>2. PICK n \in AssignableNumbers(d), r \in NextReviewIds(db) :
           new = ReviewOpened(Submitted(d, n), r, d.draft)
  BY <1>1
<1>3. QuietOn(t.seen, d) /\ d.scope = t.seen.scope /\ d.draft \in VersionId /\ d.status[d.draft] = "draft"
  BY <1>0, EnsuredQuiet
<1>4. n \in Number /\ r \in ReviewId /\ d \in Db
  BY <1>3 DEF AssignableNumbers, NextReviewIds, QuietOn
<1>5. SubmitOf(new, d, n, r)
  BY <1>2, <1>3, <1>4, SubmitIs
<1> QED
  BY <1>2, <1>3, <1>5

\* The version a decision is about, and the review it names, if it starts from one.
Decided(t) == IF t.op \in {"approve_version", "reject_version"} THEN t.arg
              ELSE t.seen.reviewOf[t.arg]
Named(t)   == IF t.op \in {"approve_version", "reject_version"} THEN {} ELSE {t.arg}

\* A decision: the version, under review when it was read, is approved, or
\* rejected with a successor; then the named review is closed.
LEMMA DecideOutcome ==
  ASSUME NEW t, Accepted(t), t.op \in ReviewOperations \ {"submit"}, NEW new \in Outcomes(t)
  PROVE  /\ Decided(t) \in VersionId /\ t.seen.status[Decided(t)] = "pending_review"
         /\ Named(t) \subseteq {r \in OpenReviews(t.seen) : t.seen.reviewOf[r] = Decided(t)}
         /\ \E u : /\ new = ReviewsClosed(u, Named(t)) /\ CloseOf(new, u, Named(t))
                   /\ \/ /\ t.op \in {"approve_version", "approve_handover"}
                         /\ u = Approved(t.seen, Decided(t))
                         /\ ApproveOf(u, t.seen, Decided(t))
                      \/ /\ t.op \in {"reject_version", "reject_handover"}
                         /\ \E w \in NextVersionIds(db), n \in NextNumbers(t.seen) :
                              /\ u = Rejected(t.seen, Decided(t), w, n)
                              /\ RejectOf(u, t.seen, Decided(t), w, n)
<1> DEFINE s == t.seen
           v == Decided(t)
<1>0. t.op \in {"approve_version", "reject_version", "approve_handover", "reject_handover"}
  BY DEF ReviewOperations
<1>1. /\ s \in Db /\ v \in VersionId /\ s.status[v] = "pending_review"
      /\ Named(t) \subseteq {r \in OpenReviews(s) : s.reviewOf[r] = v}
  <2>1. CASE t.op \in {"approve_version", "reject_version"}
    BY <2>1 DEF Accepted, AcceptedOn, Decided, Named
  <2>2. CASE t.op \in {"approve_handover", "reject_handover"}
    <3>1. s \in Db /\ t.arg \in ReviewId /\ CanDecide(s, t.arg)
      BY <2>2 DEF Accepted, AcceptedOn
    <3>2. v = s.reviewOf[t.arg] /\ s.reviewOf[t.arg] \in VersionId \union {None} /\ Named(t) = {t.arg}
      BY <2>2, <3>1 DEF Decided, Named, Db
    <3> QED
      BY <3>1, <3>2 DEF CanDecide, OpenReviews
  <2> QED
    BY <1>0, <2>1, <2>2
<1> HIDE DEF v
<1>2. ASSUME NEW u, u \in Db, new = ReviewsClosed(u, Named(t)) \/ (new = u /\ Named(t) = {})
      PROVE  new = ReviewsClosed(u, Named(t)) /\ CloseOf(new, u, Named(t))
  <2>1. CloseOf(ReviewsClosed(u, Named(t)), u, Named(t))
    BY <1>2, CloseIs
  <2>2. Named(t) = {} => ReviewsClosed(u, Named(t)) = u
    BY <2>1 DEF CloseOf
  <2> QED
    BY <1>2, <2>1, <2>2
<1>3. CASE t.op \in {"approve_version", "approve_handover"}
  <2> DEFINE u == Approved(s, v)
  <2>1. new = ReviewsClosed(u, Named(t)) \/ (new = u /\ Named(t) = {})
    BY <1>3 DEF Outcomes, Decided, Named, v
  <2>2. ApproveOf(u, s, v)
    BY <1>1, ApproveIs
  <2> HIDE DEF u
  <2>3. u \in Db
    BY <2>2 DEF ApproveOf
  <2>4. new = ReviewsClosed(u, Named(t)) /\ CloseOf(new, u, Named(t))
    BY <1>2, <2>1, <2>3
  <2>5. u = Approved(s, v)
    BY DEF u
  <2> QED
    BY <1>1, <1>3, <2>2, <2>4, <2>5 DEF v
<1>4. CASE t.op \in {"reject_version", "reject_handover"}
  <2>1. PICK w \in NextVersionIds(db), n \in NextNumbers(s) :
          \/ new = ReviewsClosed(Rejected(s, v, w, n), Named(t))
          \/ new = Rejected(s, v, w, n) /\ Named(t) = {}
    <3>1. CASE t.op = "reject_version"
      BY <3>1 DEF Outcomes, Decided, Named, v
    <3>2. CASE t.op = "reject_handover"
      BY <3>2 DEF Outcomes, Decided, Named, v
    <3> QED
      BY <1>4, <3>1, <3>2
  <2> DEFINE u == Rejected(s, v, w, n)
  <2>2. RejectOf(u, s, v, w, n)
    <3>1. w \in VersionId /\ n \in Number
      BY DEF NextVersionIds, NextNumbers
    <3> QED
      BY <1>1, <3>1, RejectIs
  <2>3. new = ReviewsClosed(u, Named(t)) \/ (new = u /\ Named(t) = {})
    BY <2>1
  <2> HIDE DEF u
  <2>4. u \in Db
    BY <2>2 DEF RejectOf
  <2>5. new = ReviewsClosed(u, Named(t)) /\ CloseOf(new, u, Named(t))
    BY <1>2, <2>3, <2>4
  <2>6. u = Rejected(s, v, w, n)
    BY DEF u
  <2> QED
    BY <1>1, <1>4, <2>2, <2>5, <2>6 DEF v
<1> QED
  BY <1>0, <1>3, <1>4
-----------------------------------------------------------------------------
(***************************************************************************)
(* However they overlap *)
(***************************************************************************)

PendingReviewed(s) ==
  \A v \in VersionId : s.status[v] = "pending_review" =>
    \E r \in ReviewId : s.reviewStatus[r] = "open" /\ s.reviewOf[r] = v

BlankReviews(s) == \A r \in ReviewId : s.reviewStatus[r] = "absent" => s.reviewOf[r] = None

\* The reviews of s are still there in now, each of the same version.
Older(s, now) ==
  \A r \in ReviewId : s.reviewStatus[r] # "absent" =>
    now.reviewStatus[r] # "absent" /\ now.reviewOf[r] = s.reviewOf[r]

Sound(s) == s \in Db /\ PendingReviewed(s) /\ BlankReviews(s)

InFlight(t, now) == Accepted(t) /\ BlankReviews(t.seen) /\ Older(t.seen, now)

RaceInv ==
  /\ Sound(db)
  /\ tx = [x \in Sessions |-> tx[x]]
  /\ \A x \in Sessions : tx[x] # Idle => InFlight(tx[x], db)

\* What a commit preserves.
Kept(s) == Sound(s) /\ Older(db, s)

\* The review that the first UPDATE of a decision finds is one of the decided version.
LEMMA LateReviews ==
  ASSUME NEW t, NEW s \in Db, NEW rs \in LateReviewChoices(t, s)
  PROVE  /\ t.op \notin {"approve_version", "reject_version"} => rs = {}
         /\ \A r \in rs : s.reviewStatus[r] = "open" /\ s.reviewOf[r] = t.arg
BY DEF LateReviewChoices, ReviewChoices, OpenReviews

\* A commit that touches no review leaves the reviews and the versions under review alone.
LEMMA QuietKeeps ==
  ASSUME Sound(db), NEW old \in Db, NEW new, QuietOn(old, new), NEW forced
  PROVE  Kept(Flushed(old, new, forced))
<1> DEFINE s == Flushed(old, new, forced)
<1>1. FlushOf(s, old, new, forced)
  BY FlushIs DEF Sound, QuietOn
<1> HIDE DEF s
<1>2. /\ s \in Db
      /\ \A v \in VersionId : s.status[v] = "pending_review" => db.status[v] = "pending_review"
      /\ \A r \in ReviewId : s.reviewOf[r] = db.reviewOf[r] /\ s.reviewStatus[r] = db.reviewStatus[r]
  BY <1>1 DEF FlushOf, QuietOn, SameReviews, Db, NextVersionIds
<1>3. Kept(s)
  BY <1>2 DEF Kept, Sound, PendingReviewed, BlankReviews, Older
<1> QED
  BY <1>3 DEF s

\* The commit of a submission: the version it puts under review gets a review of its own,
\* in a row that no transaction has read as one in use.
LEMMA SubmitKeeps ==
  ASSUME Sound(db), NEW t, InFlight(t, db), t.op = "submit", NEW new \in Outcomes(t), NEW forced
  PROVE  Kept(Flushed(t.seen, new, forced))
<1> DEFINE s == Flushed(t.seen, new, forced)
<1>1. PICK d \in EnsuredDraftsAt(t.seen, NextVersionIds(db)) :
        \E n \in AssignableNumbers(d), r \in NextReviewIds(db) :
           /\ QuietOn(t.seen, d) /\ d.scope = t.seen.scope
           /\ d.draft \in VersionId /\ d.status[d.draft] = "draft"
           /\ new = ReviewOpened(Submitted(d, n), r, d.draft)
           /\ SubmitOf(new, d, n, r)
  BY SubmitOutcome DEF InFlight
<1>2. PICK n \in AssignableNumbers(d), r \in NextReviewIds(db) :
           /\ QuietOn(t.seen, d) /\ d.draft \in VersionId /\ SubmitOf(new, d, n, r)
  BY <1>1
<1>3. t.seen \in Db /\ new \in Db /\ db \in Db
  BY <1>2 DEF InFlight, Accepted, SubmitOf, Sound
<1>4. FlushOf(s, t.seen, new, forced)
  BY <1>3, FlushIs
<1> HIDE DEF s
<1>5. \A v \in VersionId : s.status[v] = "pending_review" =>
        db.status[v] = "pending_review" \/ v = d.draft
  BY <1>2, <1>3, <1>4 DEF FlushOf, QuietOn, SubmitOf, Db, NextVersionIds
<1>6. /\ r \in ReviewId /\ db.reviewStatus[r] = "absent" /\ t.seen.reviewStatus[r] = "absent"
      /\ t.seen.reviewOf[r] = None /\ d.draft # None
  BY <1>2, Ids DEF NextReviewIds, InFlight, Older, BlankReviews
<1>7. /\ new.reviewOf = [t.seen.reviewOf EXCEPT ![r] = d.draft]
      /\ new.reviewStatus = [t.seen.reviewStatus EXCEPT ![r] = "open"]
  BY <1>2 DEF QuietOn, SameReviews, SubmitOf
<1>8. /\ s \in Db /\ s.reviewStatus[r] = "open" /\ s.reviewOf[r] = d.draft
      /\ \A q \in ReviewId \ {r} : s.reviewOf[q] = db.reviewOf[q] /\ s.reviewStatus[q] = db.reviewStatus[q]
  BY <1>3, <1>4, <1>6, <1>7 DEF FlushOf, Db
<1>9. Kept(s)
  BY <1>5, <1>6, <1>8 DEF Kept, Sound, PendingReviewed, BlankReviews, Older
<1> QED
  BY <1>9 DEF s

\* v is no longer under review, and nothing else has come under review.
DecidedOn(u, s, v) ==
  /\ SameReviews(u, s) /\ u.status[v] # "pending_review"
  /\ \A w \in VersionId : u.status[w] = "pending_review" => s.status[w] = "pending_review"

\* Approval and rejection alike.
LEMMA DecisionColumns ==
  ASSUME NEW s \in Db, NEW v \in VersionId, NEW u,
         \/ ApproveOf(u, s, v)
         \/ \E w \in NextVersionIds(db), n \in NextNumbers(s) : RejectOf(u, s, v, w, n)
  PROVE  DecidedOn(u, s, v)
<1>1. CASE ApproveOf(u, s, v)
  BY <1>1 DEF ApproveOf, DecidedOn
<1>2. CASE \E w \in NextVersionIds(db), n \in NextNumbers(s) : RejectOf(u, s, v, w, n)
  <2>1. PICK w \in NextVersionIds(db), n \in NextNumbers(s) : RejectOf(u, s, v, w, n)
    BY <1>2
  <2>2. w \in VersionId /\ s.status \in [VersionId -> VersionStatus \union {"absent"}]
    BY DEF NextVersionIds, Db
  <2> QED
    BY <2>1, <2>2 DEF RejectOf, DecidedOn
<1> QED
  BY <1>1, <1>2

\* The commit of a decision: it closes reviews of the version it decides only.
LEMMA DecideKeeps ==
  ASSUME Sound(db), NEW t, InFlight(t, db), t.op \in ReviewOperations \ {"submit"},
         NEW new \in Outcomes(t), NEW forced, NEW s, s = Flushed(t.seen, new, forced),
         NEW rs \in LateReviewChoices(t, s)
  PROVE  Kept(ReviewsClosed(s, rs))
<1> DEFINE v == Decided(t)
           c == ReviewsClosed(s, rs)
<1>1. /\ v \in VersionId /\ t.seen.status[v] = "pending_review"
      /\ Named(t) \subseteq {r \in OpenReviews(t.seen) : t.seen.reviewOf[r] = v}
      /\ \E u : /\ CloseOf(new, u, Named(t))
                /\ \/ ApproveOf(u, t.seen, v)
                   \/ \E w \in NextVersionIds(db), n \in NextNumbers(t.seen) :
                         RejectOf(u, t.seen, v, w, n)
  BY DecideOutcome DEF InFlight
<1>2. t.op \in {"approve_version", "reject_version"} => v = t.arg
  BY DEF Decided
<1> HIDE DEF v
<1>3. t.seen \in Db /\ new \in Db /\ db \in Db
  BY <1>1 DEF InFlight, Accepted, CloseOf, Sound
<1>4. FlushOf(s, t.seen, new, forced)
  BY <1>3, FlushIs
<1>5. s \in Db
  BY <1>4 DEF FlushOf
<1>6. PICK u : CloseOf(new, u, Named(t)) /\ DecidedOn(u, t.seen, v)
  BY <1>1, <1>3, DecisionColumns
<1>7. /\ new.status = u.status /\ new.reviewOf = t.seen.reviewOf
      /\ \A r \in ReviewId : new.reviewStatus[r] = IF r \in Named(t) THEN "closed" ELSE t.seen.reviewStatus[r]
  BY <1>6 DEF CloseOf, DecidedOn, SameReviews
<1>8. \A w \in VersionId : s.status[w] = "pending_review" => w # v /\ db.status[w] = "pending_review"
  BY <1>1, <1>4, <1>6, <1>7 DEF FlushOf, DecidedOn
<1>9. \A r \in ReviewId :
        /\ s.reviewOf[r] = db.reviewOf[r]
        /\ s.reviewStatus[r] = db.reviewStatus[r] \/ (r \in Named(t) /\ s.reviewStatus[r] = "closed")
  BY <1>4, <1>7 DEF FlushOf
<1>10. \A r \in ReviewId : r \in Named(t) => db.reviewStatus[r] # "absent" /\ db.reviewOf[r] = v
  BY <1>1 DEF OpenReviews, InFlight, Older
<1>11. \A r \in rs : s.reviewStatus[r] = "open" /\ s.reviewOf[r] = v
  BY <1>2, <1>5, LateReviews
<1>12. CloseOf(c, s, rs)
  BY <1>5, CloseIs
<1> HIDE DEF c
<1>13. /\ c \in Db /\ c.status = s.status
       /\ \A r \in ReviewId :
            /\ c.reviewOf[r] = db.reviewOf[r]
            /\ \/ c.reviewStatus[r] = db.reviewStatus[r]
               \/ /\ c.reviewStatus[r] = "closed" /\ db.reviewOf[r] = v
                  /\ db.reviewStatus[r] # "absent"
  BY <1>9, <1>10, <1>11, <1>12 DEF CloseOf
<1>14. Kept(c)
  BY <1>13, <1>8 DEF Kept, Sound, PendingReviewed, BlankReviews, Older
<1> QED
  BY <1>14 DEF c

\* Every commit.
LEMMA CommitKeeps ==
  ASSUME RaceInv, NEW x \in Sessions, Commit(x)
  PROVE  Kept(db')
<1> DEFINE t == tx[x]
<1>1. Sound(db) /\ InFlight(t, db)
  BY DEF RaceInv, Commit
<1>2. PICK new \in Outcomes(t) :
        LET s == Flushed(t.seen, new, SnapshotsWritten(t, new))
        IN IF NumbersUnique(s)
           THEN \E rs \in LateReviewChoices(t, s) : db' = ReviewsClosed(s, rs)
           ELSE UNCHANGED db
  BY DEF Commit
<1> DEFINE s == Flushed(t.seen, new, SnapshotsWritten(t, new))
<1>3. CASE ~ NumbersUnique(s)
  BY <1>1, <1>2, <1>3 DEF Kept, Older
<1>4. CASE NumbersUnique(s)
  <2>1. PICK rs \in LateReviewChoices(t, s) : db' = ReviewsClosed(s, rs)
    BY <1>2, <1>4
  <2>2. CASE t.op \in ReviewOperations \ {"submit"}
    BY <1>1, <2>1, <2>2, DecideKeeps
  <2>3. CASE t.op \notin ReviewOperations \ {"submit"}
    <3>1. Kept(s)
      <4>1. CASE t.op = "submit"
        BY <1>1, <4>1, SubmitKeeps
      <4>2. CASE t.op # "submit"
        <5>1. QuietOn(t.seen, new) /\ t.seen \in Db
          BY <1>1, <2>3, <4>2, QuietOutcome DEF InFlight, Accepted
        <5> QED
          BY <1>1, <5>1, QuietKeeps
      <4> QED
        BY <4>1, <4>2
    <3>2. s \in Db
      BY <3>1 DEF Kept, Sound
    <3> HIDE DEF s
    <3>3. rs = {}
      BY <2>1, <2>3, <3>2, LateReviews DEF ReviewOperations
    <3>4. ReviewsClosed(s, {}) = s
      <4>1. CloseOf(ReviewsClosed(s, {}), s, {})
        BY <3>2, CloseIs
      <4> QED
        BY <4>1 DEF CloseOf
    <3> QED
      BY <2>1, <3>1, <3>3, <3>4
  <2> QED
    BY <2>2, <2>3
<1> QED
  BY <1>3, <1>4

\* The rows and what every transaction has read of them, at any time: reviews are never
\* taken away from the version they were opened for, whatever commits in between.
THEOREM RaceInvariance == RaceSpec => []RaceInv
<1>1. RaceInit => RaceInv
  BY InitConsistent DEF RaceInit, RaceInv, Sound, PendingReviewed, BlankReviews, Init, Consistent, Db, Idle
<1>2. RaceInv /\ [RaceNext]_vars => RaceInv'
  <2> SUFFICES ASSUME RaceInv, [RaceNext]_vars PROVE RaceInv'
    OBVIOUS
  <2>1. ASSUME NEW x \in Sessions, Begin(x) PROVE RaceInv'
    <3>1. PICK op \in Operations : \E arg \in Arguments(op) :
            Accepts(op, arg) /\ tx' = [tx EXCEPT ![x] = Request(op, arg, db)]
      BY <2>1 DEF Begin
    <3>2. PICK arg \in Arguments(op) :
            Accepts(op, arg) /\ tx' = [tx EXCEPT ![x] = Request(op, arg, db)]
      BY <3>1
    <3> DEFINE t == Request(op, arg, db)
    <3>3. AcceptedOn(db, op, arg)
      BY <3>2, BegunAccepted
    <3>4. t.op = op /\ t.arg = arg /\ t.seen = db
      BY DEF Request
    <3>5. Sound(db) /\ db' = db
      BY <2>1 DEF RaceInv, Begin
    <3> HIDE DEF t
    <3>6. InFlight(t, db)
      BY <3>3, <3>4, <3>5 DEF InFlight, Accepted, Sound, Older
    <3>7. /\ tx' = [y \in Sessions |-> IF y = x THEN t ELSE tx[y]]
      BY <3>2 DEF RaceInv, t
    <3> QED
      BY <3>5, <3>6, <3>7 DEF RaceInv
  <2>2. ASSUME NEW x \in Sessions, Kept(db'), tx' = [tx EXCEPT ![x] = Idle] PROVE RaceInv'
    <3>1. tx' = [y \in Sessions |-> IF y = x THEN Idle ELSE tx[y]]
      BY <2>2 DEF RaceInv
    <3>2. Sound(db)' /\ Older(db, db')
      BY <2>2 DEF Kept, Sound, PendingReviewed, BlankReviews
    <3>3. ASSUME NEW y \in Sessions, tx'[y] # Idle PROVE InFlight(tx'[y], db')
      <4>1. tx'[y] = tx[y] /\ InFlight(tx[y], db)
        BY <3>1, <3>3 DEF RaceInv
      <4> DEFINE t == tx[y]
      <4>2. InFlight(t, db) /\ Older(db, db')
        BY <4>1, <3>2
      <4> HIDE DEF t
      <4>3. InFlight(t, db')
        BY <4>2 DEF InFlight, Older
      <4> QED
        BY <4>1, <4>3 DEF t
    <3> QED
      BY <3>1, <3>2, <3>3 DEF RaceInv
  <2>3. ASSUME NEW x \in Sessions, Commit(x) PROVE RaceInv'
    BY <2>2, <2>3, CommitKeeps DEF Commit
  <2>4. ASSUME NEW x \in Sessions, Abort(x) PROVE RaceInv'
    <3>1. Kept(db')
      BY <2>4 DEF Abort, RaceInv, Kept, Older
    <3> QED
      BY <2>2, <2>4, <3>1 DEF Abort
  <2>5. CASE UNCHANGED vars
    BY <2>5 DEF vars, RaceInv, Sound, PendingReviewed, BlankReviews, InFlight, Accepted, AcceptedOn, Older
  <2> QED
    BY <2>1, <2>3, <2>4, <2>5 DEF RaceNext
<1> QED
  BY <1>1, <1>2, PTL DEF RaceSpec

\* However the handlers of project versions and reviews overlap, a version under review
\* keeps an open review of its own: it can always be decided from the issue.
THEOREM PendingStaysDecidable == RaceSpec => []PendingHasOpenReview
<1>1. RaceInv => PendingHasOpenReview
  BY DEF RaceInv, Sound, PendingReviewed, PendingHasOpenReview, OpenReviews
<1> QED
  BY <1>1, RaceInvariance, PTL
-----------------------------------------------------------------------------
(***************************************************************************)
(* Undisturbed *)
(***************************************************************************)

\* The next review id and the reviews to choose from depend on the reviews only.
LEMMA SameChoices ==
  ASSUME NEW s, NEW u, SameReviews(u, s)
  PROVE  NextReviewIds(u) = NextReviewIds(s) /\ \A v : ReviewChoices(u, v) = ReviewChoices(s, v)
BY DEF SameReviews, NextReviewIds, ReviewChoices, OpenReviews

\* On the rows it read, each handler's result is that of its action.
LEMMA UndisturbedOutcome ==
  ASSUME NEW t, Accepted(t), t.seen = db, NEW new \in Outcomes(t),
         NEW rs \in LateReviewChoices(t, new), db' = ReviewsClosed(new, rs), new \in Db
  PROVE  Next
<1>0. t.op \in AllOperations /\ db \in Db
  BY DEF Accepted, AcceptedOn
<1>1. t.op \notin {"approve_version", "reject_version"} => db' = new
  <2>1. CloseOf(db', new, rs)
    BY CloseIs
  <2> QED
    BY <2>1, LateReviews DEF CloseOf
<1>2. CASE t.op = "open_draft"
  BY <1>1, <1>2 DEF Outcomes, EnsuredDrafts, OpenDraft, Next
<1>3. CASE t.op = "edit"
  <2>1. t.arg \in Content /\ CanMutate(db)
    BY <1>3 DEF Accepted, AcceptedOn
  <2>2. EditScope(t.arg)
    BY <1>1, <1>3, <2>1 DEF Outcomes, EnsuredDrafts, EditScope
  <2> QED
    BY <2>1, <2>2 DEF Next
<1>4. CASE t.op = "list_versions"
  BY <1>1, <1>4 DEF Outcomes, ListVersions, Next
<1>5. CASE t.op = "get_version"
  <2>1. t.arg \in VersionId /\ Exists(db, t.arg)
    BY <1>5 DEF Accepted, AcceptedOn
  <2>2. GetVersion(t.arg)
    BY <1>1, <1>5, <2>1 DEF Outcomes, GetVersion
  <2> QED
    BY <2>1, <2>2 DEF Next
<1>6. CASE t.op = "submit"
  <2>1. CanSubmit(db)
    BY <1>6 DEF Accepted, AcceptedOn
  <2>2. PICK d \in EnsuredDrafts(db) : \E n \in AssignableNumbers(d), r \in NextReviewIds(db) :
           QuietOn(db, d) /\ new = ReviewOpened(Submitted(d, n), r, d.draft)
    BY <1>6, SubmitOutcome DEF EnsuredDrafts
  <2>3. NextReviewIds(d) = NextReviewIds(db)
    BY <2>2, SameChoices DEF QuietOn
  <2>4. Submit
    BY <1>1, <1>6, <2>1, <2>2, <2>3 DEF Submit
  <2> QED
    BY <2>4 DEF Next
<1>7. CASE t.op = "rollback"
  <2>1. t.arg \in VersionId /\ Exists(db, t.arg) /\ db.snapshot[t.arg] # "none" /\ CanMutate(db)
    BY <1>7 DEF Accepted, AcceptedOn
  <2>2. Rollback(t.arg)
    BY <1>1, <1>7, <2>1 DEF Outcomes, EnsuredDrafts, Rollback
  <2> QED
    BY <2>1, <2>2 DEF Next
<1>8. CASE t.op \in {"approve_version", "reject_version"}
  <2>1. t.arg \in VersionId /\ db.status[t.arg] = "pending_review"
    BY <1>8 DEF Accepted, AcceptedOn
  <2>2. SameReviews(new, db) => rs \in ReviewChoices(db, t.arg)
    BY <1>8, SameChoices DEF LateReviewChoices
  <2>3. CASE t.op = "approve_version"
    <3>1. new = Approved(db, t.arg)
      BY <2>3 DEF Outcomes
    <3>2. ApproveOf(new, db, t.arg)
      BY <1>0, <2>1, <3>1, ApproveIs
    <3>3. rs \in ReviewChoices(db, t.arg)
      BY <2>2, <3>2 DEF ApproveOf
    <3>4. ApproveVersion(t.arg)
      BY <2>1, <3>1, <3>3 DEF ApproveVersion
    <3> QED
      BY <2>1, <3>4 DEF Next
  <2>4. CASE t.op = "reject_version"
    <3>1. PICK w \in NextVersionIds(db), n \in NextNumbers(db) : new = Rejected(db, t.arg, w, n)
      BY <2>4 DEF Outcomes
    <3>2. w \in VersionId /\ n \in Number
      BY DEF NextVersionIds, NextNumbers
    <3>3. RejectOf(new, db, t.arg, w, n)
      BY <1>0, <2>1, <3>1, <3>2, RejectIs
    <3>4. rs \in ReviewChoices(db, t.arg)
      BY <2>2, <3>3 DEF RejectOf
    <3>5. RejectVersion(t.arg)
      BY <2>1, <3>1, <3>4 DEF RejectVersion
    <3> QED
      BY <2>1, <3>5 DEF Next
  <2> QED
    BY <1>8, <2>3, <2>4
<1>9. CASE t.op = "approve_handover"
  <2>1. t.arg \in ReviewId /\ CanDecide(db, t.arg)
    BY <1>9 DEF Accepted, AcceptedOn
  <2>2. ApproveHandover(t.arg)
    BY <1>1, <1>9, <2>1 DEF Outcomes, ApproveHandover
  <2> QED
    BY <2>1, <2>2 DEF Next
<1>10. CASE t.op = "reject_handover"
  <2>1. t.arg \in ReviewId /\ CanDecide(db, t.arg)
    BY <1>10 DEF Accepted, AcceptedOn
  <2>2. RejectHandover(t.arg)
    BY <1>1, <1>10, <2>1 DEF Outcomes, RejectHandover
  <2> QED
    BY <2>1, <2>2 DEF Next
<1> QED
  BY <1>0, <1>2, <1>3, <1>4, <1>5, <1>6, <1>7, <1>8, <1>9, <1>10 DEF AllOperations

\* What the outcome of a handler is, it is a state of the rows.
LEMMA OutcomeInDb ==
  ASSUME NEW t, Accepted(t), NEW new \in Outcomes(t)
  PROVE  new \in Db
<1>1. CASE t.op \notin ReviewOperations
  BY <1>1, QuietOutcome DEF QuietOn
<1>2. CASE t.op = "submit"
  BY <1>2, SubmitOutcome DEF SubmitOf
<1>3. CASE t.op \in ReviewOperations \ {"submit"}
  BY <1>3, DecideOutcome DEF CloseOf
<1> QED
  BY <1>1, <1>2, <1>3
-----------------------------------------------------------------------------
(***************************************************************************)
(* Uncrossed: handlers that neither submit nor decide, overlapping *)
(***************************************************************************)

\* Only the scope and the snapshot of the open draft changed from s to t.
Redrafted(s, t) ==
  /\ SameReviews(t, s) /\ SameSummary(t, s)
  /\ t.status = s.status /\ t.number = s.number
  /\ t.draft = s.draft /\ t.approved = s.approved
  /\ \A v \in VersionId : v # s.draft => t.snapshot[v] = s.snapshot[v]

\* From s to t one draft was opened, with the number that comes after those of s.
Drafted(s, t) ==
  /\ t.draft \in VersionId /\ ~ Exists(s, t.draft)
  /\ t.status = [s.status EXCEPT ![t.draft] = "draft"]
  /\ \E n \in NextNumbers(s) : t.number = [s.number EXCEPT ![t.draft] = n]

\* How the rows can have moved on from s, as long as nobody submits or decides.
MovedOn(s, t) ==
  \/ t = s
  \/ DraftStatus(s) = "draft" /\ Redrafted(s, t)
  \/ s.draft = None /\ Drafted(s, t)

\* What a handler that read s wants to write.
Worked(s, new, forced) ==
  \/ new = s /\ forced = {}
  \/ DraftStatus(s) = "draft" /\ Redrafted(s, new) /\ forced \subseteq {s.draft}
  \/ /\ s.draft = None /\ new.draft \in NextVersionIds(db)
     /\ new.status = [s.status EXCEPT ![new.draft] = "draft"]
     /\ \E n \in NextNumbers(s) : new.number = [s.number EXCEPT ![new.draft] = n]

\* The open version, if there is one, is the only draft.
LEMMA NoOpenVersion ==
  ASSUME NEW s, Consistent(s)
  PROVE  /\ DraftStatus(s) \notin {"draft", "pending_review"} => s.draft = None
         /\ DraftStatus(s) = "draft" => s.draft \in VersionId /\ s.status[s.draft] = "draft"
         /\ \A v \in VersionId : s.status[v] = "draft" => v = s.draft /\ DraftStatus(s) = "draft"
<1>1. /\ s.draft \in VersionId \union {None}
      /\ \A v \in VersionId : s.status[v] \in {"draft", "pending_review"} <=> v = s.draft
  BY DEF Consistent, Db, Pointers, Submittable
<1>2. CASE s.draft = None
  BY <1>1, <1>2, Ids DEF DraftStatus
<1>3. CASE s.draft # None
  <2>1. s.draft \in VersionId /\ DraftStatus(s) = s.status[s.draft]
    BY <1>1, <1>3 DEF DraftStatus
  <2> QED
    BY <1>1, <2>1
<1> QED
  BY <1>2, <1>3

\* The editable draft is the open one, or a row inserted for lack of one.
LEMMA EnsuredCases ==
  ASSUME NEW s, Consistent(s), NEW d \in EnsuredDraftsAt(s, NextVersionIds(db))
  PROVE  \/ DraftStatus(s) = "draft" /\ d = s
         \/ s.draft = None /\ \E v \in NextVersionIds(db), n \in NextNumbers(s) :
                                v \in VersionId /\ NewDraftOf(d, s, v, n)
<1>1. CASE DraftStatus(s) = "draft"
  BY <1>1 DEF EnsuredDraftsAt
<1>2. CASE DraftStatus(s) = "pending_review"
  BY <1>2 DEF EnsuredDraftsAt
<1>3. CASE DraftStatus(s) \notin {"draft", "pending_review"}
  <2>1. PICK v \in NextVersionIds(db), n \in NextNumbers(s) : d = NewDraft(s, v, n)
    BY <1>3 DEF EnsuredDraftsAt
  <2>2. v \in VersionId /\ n \in Number /\ s \in Db
    BY DEF NextVersionIds, NextNumbers, Consistent
  <2>3. NewDraftOf(d, s, v, n)
    BY <2>1, <2>2, NewDraftIs
  <2> QED
    BY <1>3, <2>2, <2>3, NoOpenVersion
<1> QED
  BY <1>1, <1>2, <1>3

\* A refresh touches the snapshot of the open draft, if there is one.
LEMMA RefreshWorked ==
  ASSUME NEW s, Consistent(s), NEW vs, NEW new, RefreshOf(new, s, vs), NEW forced,
         forced = {v \in vs : s.status[v] = "draft"}, vs \subseteq VersionId
  PROVE  Worked(s, new, forced)
<1>1. CASE DraftStatus(s) = "draft"
  <2>1. \A v \in VersionId : v # s.draft => s.status[v] # "draft"
    BY NoOpenVersion
  <2>2. Redrafted(s, new)
    BY <2>1 DEF RefreshOf, Redrafted
  <2>3. forced \subseteq {s.draft}
    BY <2>1
  <2> QED
    BY <1>1, <2>2, <2>3 DEF Worked
<1>2. CASE DraftStatus(s) # "draft"
  <2>1. \A v \in VersionId : s.status[v] # "draft"
    BY <1>2, NoOpenVersion
  <2>2. new = s
    BY <2>1 DEF RefreshOf
  <2>3. forced = {}
    BY <2>1
  <2> QED
    BY <2>2, <2>3 DEF Worked
<1> QED
  BY <1>1, <1>2

\* Every handler that neither submits nor decides.
LEMMA WorkedOutcome ==
  ASSUME NEW t, Accepted(t), t.op \notin ReviewOperations, Consistent(t.seen),
         NEW new \in Outcomes(t)
  PROVE  Worked(t.seen, new, SnapshotsWritten(t, new))
<1> DEFINE s == t.seen
           vids == NextVersionIds(db)
           forced == SnapshotsWritten(t, new)
<1>0. /\ s \in Db
      /\ t.op \in {"open_draft", "edit", "list_versions", "get_version", "rollback"}
  BY DEF Accepted, AcceptedOn, AllOperations, ReviewOperations
<1>1. CASE t.op = "open_draft"
  <2>1. new \in EnsuredDraftsAt(s, vids) /\ forced = {}
    BY <1>1 DEF Outcomes, SnapshotsWritten
  <2>2. CASE new = s
    BY <2>1, <2>2 DEF Worked
  <2>3. CASE s.draft = None /\ \E v \in vids, n \in NextNumbers(s) : NewDraftOf(new, s, v, n)
    BY <2>3 DEF Worked, NewDraftOf
  <2> QED
    BY <2>1, <2>2, <2>3, EnsuredCases
<1>2. CASE t.op = "edit"
  <2>1. PICK d \in EnsuredDraftsAt(s, vids) : new = Edited(d, t.arg)
    BY <1>2 DEF Outcomes, Edited
  <2>2. EditOf(new, d, t.arg)
    <3>1. d \in Db /\ t.arg \in Content
      BY <1>0, <1>2, EnsuredQuiet DEF Accepted, AcceptedOn, QuietOn
    <3> QED
      BY <2>1, <3>1, EditedIs
  <2>3. forced = {}
    BY <1>2 DEF SnapshotsWritten
  <2>4. CASE DraftStatus(s) = "draft" /\ d = s
    BY <2>2, <2>3, <2>4 DEF Worked, EditOf, Redrafted
  <2>5. CASE s.draft = None /\ \E v \in vids, n \in NextNumbers(s) : NewDraftOf(d, s, v, n)
    BY <2>2, <2>5 DEF Worked, NewDraftOf, EditOf
  <2> QED
    BY <2>4, <2>5, EnsuredCases
<1>3. CASE t.op = "list_versions"
  <2>1. PICK b \in BaselinesAt(s, vids) : new = RefreshDrafts(b, VersionId)
    BY <1>3 DEF Outcomes
  <2>2. CASE b = s
    <3>1. RefreshOf(new, s, VersionId)
      BY <1>0, <2>1, <2>2, RefreshIs
    <3>2. forced = {v \in VersionId : s.status[v] = "draft"}
      BY <1>3 DEF SnapshotsWritten
    <3> QED
      BY <3>1, <3>2, RefreshWorked
  <2>3. CASE b # s
    <3>1. s.draft = None /\ \E v \in vids, n \in NextNumbers(s) : b = NewDraft(s, v, n)
      BY <2>3 DEF BaselinesAt
    <3>2. PICK v \in vids, n \in NextNumbers(s) : b = NewDraft(s, v, n)
      BY <3>1
    <3>3. v \in VersionId /\ n \in Number
      BY DEF NextVersionIds, NextNumbers
    <3>4. NewDraftOf(b, s, v, n)
      BY <1>0, <3>2, <3>3, NewDraftIs
    <3>5. RefreshOf(new, b, VersionId)
      BY <2>1, <3>4, RefreshIs DEF NewDraftOf
    <3> QED
      BY <3>1, <3>4, <3>5 DEF NewDraftOf, RefreshOf, Worked
  <2> QED
    BY <2>2, <2>3
<1>4. CASE t.op = "get_version"
  <2>1. new = RefreshDrafts(s, {t.arg}) /\ t.arg \in VersionId
    BY <1>4 DEF Outcomes, Accepted, AcceptedOn
  <2>2. RefreshOf(new, s, {t.arg})
    BY <1>0, <2>1, RefreshIs
  <2>3. forced = {v \in {t.arg} : s.status[v] = "draft"}
    BY <1>4 DEF SnapshotsWritten
  <2> QED
    BY <2>1, <2>2, <2>3, RefreshWorked
<1>5. CASE t.op = "rollback"
  <2>1. PICK d \in EnsuredDraftsAt(s, vids) : new = RolledBack(d, s.snapshot[t.arg])
    BY <1>5 DEF Outcomes
  <2>2. RollbackOf(new, d, s.snapshot[t.arg])
    <3>1. d \in Db /\ d.draft \in VersionId
      BY <1>0, EnsuredQuiet DEF QuietOn
    <3>2. s.snapshot[t.arg] \in Content
      BY <1>0, <1>5 DEF Accepted, AcceptedOn, Db
    <3> QED
      BY <2>1, <3>1, <3>2, RollbackIs
  <2>3. forced = {new.draft}
    BY <1>5 DEF SnapshotsWritten
  <2>4. CASE DraftStatus(s) = "draft" /\ d = s
    <3>1. s.draft \in VersionId /\ s.snapshot \in [VersionId -> Content \union {"none"}]
      BY <1>0, <2>4, NoOpenVersion DEF Db
    <3>2. s.pstatus = SettledStatus(s) /\ s.lifecycle = SettledLifecycle(s)
      BY <2>4 DEF Consistent, Summary, SettledStatus
    <3>3. Redrafted(s, new)
      BY <2>2, <2>4, <3>1, <3>2 DEF RollbackOf, Redrafted, SameSummary
    <3> QED
      BY <2>2, <2>3, <2>4, <3>3 DEF Worked, RollbackOf
  <2>5. CASE s.draft = None /\ \E v \in vids, n \in NextNumbers(s) : NewDraftOf(d, s, v, n)
    BY <2>2, <2>5 DEF Worked, NewDraftOf, RollbackOf
  <2> QED
    BY <2>4, <2>5, EnsuredCases
<1> QED
  BY <1>0, <1>1, <1>2, <1>3, <1>4, <1>5

\* Work on the open draft keeps the rows consistent.
LEMMA RedraftedConsistent ==
  ASSUME NEW s, Consistent(s), DraftStatus(s) = "draft", NEW t \in Db, Redrafted(s, t)
  PROVE  Consistent(t)
<1>1. s.draft \in VersionId /\ s.status[s.draft] = "draft" /\ s.draft # None
  BY NoOpenVersion, Ids
<1>2. Inserted(t) /\ Numbers(t)
  BY DEF Consistent, Redrafted, Inserted, Numbers, Exists
<1>3. Reviews(t) /\ Pointers(t)
  BY DEF Consistent, Redrafted, SameReviews, Reviews, Pointers, Submittable
<1>4. Scopes(t)
  <2>1. \A v \in VersionId : s.status[v] # "pending_review"
    BY <1>1 DEF Consistent, Pointers, Submittable
  <2> QED
    BY <1>1, <2>1 DEF Consistent, Redrafted, Scopes, Reviewed
<1>5. Summary(t)
  BY DEF Consistent, Redrafted, SameSummary, Summary, DraftStatus, SettledLifecycle
<1> QED
  BY <1>2, <1>3, <1>4, <1>5 DEF Consistent

\* Moving on twice is moving on.
LEMMA MovedOnTrans ==
  ASSUME NEW s, NEW t, NEW u, Consistent(s), Consistent(t), MovedOn(s, t), MovedOn(t, u)
  PROVE  MovedOn(s, u)
<1>1. CASE t = s \/ u = t
  BY <1>1
<1>2. CASE DraftStatus(s) = "draft" /\ Redrafted(s, t) /\ u # t
  <2>1. t.draft # None
    BY <1>2, NoOpenVersion, Ids DEF Redrafted
  <2>2. Redrafted(t, u)
    BY <1>2, <2>1 DEF MovedOn
  <2>3. Redrafted(s, u)
    BY <1>2, <2>2 DEF Redrafted, SameReviews, SameSummary
  <2> QED
    BY <1>2, <2>3 DEF MovedOn
<1>3. CASE s.draft = None /\ Drafted(s, t) /\ u # t
  <2>1. t.draft # None
    BY <1>3, Ids DEF Drafted
  <2>2. Redrafted(t, u)
    BY <1>3, <2>1 DEF MovedOn
  <2>3. Drafted(s, u)
    BY <1>3, <2>2 DEF Drafted, Redrafted
  <2> QED
    BY <1>3, <2>3 DEF MovedOn
<1> QED
  BY <1>1, <1>2, <1>3 DEF MovedOn

\* Of two handlers that open a draft on the same rows, the second is refused.
LEMMA SecondDraftRefused ==
  ASSUME Consistent(db), NEW s, Consistent(s), s.draft = None, Drafted(s, db),
         NEW new \in Db, NEW forced, new.draft \in NextVersionIds(db),
         new.status = [s.status EXCEPT ![new.draft] = "draft"],
         NEW n \in NextNumbers(s), new.number = [s.number EXCEPT ![new.draft] = n]
  PROVE  ~ NumbersUnique(Flushed(s, new, forced))
<1> DEFINE t == Flushed(s, new, forced)
           v == new.draft
           w == db.draft
<1>1. /\ db \in Db /\ s \in Db
      /\ v \in VersionId /\ w \in VersionId /\ ~ Exists(db, v) /\ ~ Exists(s, w)
  BY DEF Consistent, NextVersionIds, Drafted
<1>2. FlushOf(t, s, new, forced)
  BY <1>1, FlushIs
<1> HIDE DEF t
<1>3. PICK m \in NextNumbers(s) : db.number = [s.number EXCEPT ![w] = m]
  BY DEF Drafted
<1>4. m = n
  <2>1. \A u \in VersionId : s.number[u] \in Nat
    BY <1>1, BoundsAssumption DEF Db, Number
  <2>2. /\ n \in Nat /\ \A u \in VersionId : s.number[u] < n
        /\ n = 1 \/ \E u \in VersionId : n = s.number[u] + 1
    BY BoundsAssumption DEF NextNumbers, Number
  <2>3. /\ m \in Nat /\ \A u \in VersionId : s.number[u] < m
        /\ m = 1 \/ \E u \in VersionId : m = s.number[u] + 1
    BY BoundsAssumption DEF NextNumbers, Number
  <2> QED
    BY <2>1, <2>2, <2>3
<1>5. db.status = [s.status EXCEPT ![w] = "draft"]
  BY DEF Drafted
<1>6. v # w /\ s.status[v] = "absent"
  BY <1>1, <1>5 DEF Exists, Db
<1>7. s.number[v] < n /\ s.number \in [VersionId -> Number] /\ n \in Number
  BY <1>1 DEF NextNumbers, Db
<1>8. /\ new.number[v] = n /\ new.number[w] = s.number[w] /\ db.number[w] = n
      /\ n # s.number[v]
  BY <1>1, <1>3, <1>4, <1>6, <1>7, Ids
<1>9. t.number[v] = n /\ t.number[w] = n
  BY <1>1, <1>2, <1>8 DEF FlushOf
<1>10. /\ new.status[v] = "draft" /\ new.status[w] = s.status[w] /\ db.status[w] = "draft"
  BY <1>1, <1>5, <1>6 DEF Db
<1>11. t.status[v] = "draft" /\ t.status[w] = "draft"
  BY <1>1, <1>2, <1>6, <1>10 DEF FlushOf
<1>12. ~ NumbersUnique(t)
  BY <1>1, <1>6, <1>9, <1>11 DEF NumbersUnique, Exists
<1> QED
  BY <1>12 DEF t
\* A commit that neither submits nor decides.
LEMMA CommitMoves ==
  ASSUME Consistent(db), NEW t, Accepted(t), t.op \notin ReviewOperations,
         Consistent(t.seen), MovedOn(t.seen, db), NEW new \in Outcomes(t),
         db' = Flushed(t.seen, new, SnapshotsWritten(t, new)), NumbersUnique(db')
  PROVE  MovedOn(db, db') /\ Consistent(db')
<1> DEFINE s == t.seen
           forced == SnapshotsWritten(t, new)
<1>1. new \in Db /\ s \in Db /\ db \in Db
  BY OutcomeInDb DEF Consistent
<1>2. FlushOf(db', s, new, forced)
  BY <1>1, FlushIs
<1>3. Worked(s, new, forced)
  BY WorkedOutcome
<1> HIDE DEF forced
<1>4. CASE s = db
  <2>1. db' = new
    BY <1>2, <1>4 DEF FlushOf
  <2>2. Next
    <3>1. {} \in LateReviewChoices(t, new)
      BY DEF LateReviewChoices, ReviewOperations
    <3>2. db' = ReviewsClosed(new, {})
      <4>1. CloseOf(ReviewsClosed(new, {}), new, {})
        BY <1>1, CloseIs
      <4> QED
        BY <2>1, <4>1 DEF CloseOf
    <3> QED
      BY <1>1, <1>4, <3>1, <3>2, UndisturbedOutcome
  <2>3. Consistent(db')
    BY <2>2, StepConsistent
  <2>4. MovedOn(db, db')
    <3>1. CASE s.draft = None /\ new.draft \in NextVersionIds(db)
                /\ new.status = [s.status EXCEPT ![new.draft] = "draft"]
                /\ \E n \in NextNumbers(s) : new.number = [s.number EXCEPT ![new.draft] = n]
      BY <1>4, <2>1, <3>1 DEF MovedOn, Drafted, NextVersionIds
    <3> QED
      BY <1>3, <1>4, <2>1, <3>1 DEF Worked, MovedOn
  <2> QED
    BY <2>3, <2>4
<1>5. CASE new = s /\ forced = {}
  BY <1>2, <1>5 DEF FlushOf, MovedOn
<1>6. CASE DraftStatus(s) = "draft" /\ Redrafted(s, db) /\ ~ (new = s /\ forced = {})
  <2>1. s.draft \in VersionId /\ s.draft # None
    BY <1>6, NoOpenVersion, Ids
  <2>2. Redrafted(s, new) /\ forced \subseteq {s.draft}
    BY <1>3, <1>6, <2>1 DEF Worked
  <2>3. /\ SameReviews(new, s) /\ SameSummary(new, s)
        /\ new.status = s.status /\ new.number = s.number
        /\ new.draft = s.draft /\ new.approved = s.approved
        /\ \A v \in VersionId : v # s.draft => v \notin forced /\ new.snapshot[v] = s.snapshot[v]
    BY <2>2 DEF Redrafted
  <2>4. db' \in Db /\ db \in Db /\ db.draft = s.draft /\ DraftStatus(db) = "draft"
    BY <1>1, <1>2, <1>6 DEF FlushOf, Redrafted, DraftStatus
  <2>5. Redrafted(db, db')
    <3>1. SameReviews(db', db)
      BY <1>2, <2>3, <2>4 DEF FlushOf, SameReviews, Db
    <3>2. db'.status = db.status /\ db'.number = db.number
      BY <1>2, <2>3, <2>4 DEF FlushOf, Db
    <3>3. /\ db'.draft = db.draft /\ db'.approved = db.approved /\ SameSummary(db', db)
          /\ \A v \in VersionId : v # db.draft => db'.snapshot[v] = db.snapshot[v]
      BY <1>2, <2>3, <2>4 DEF FlushOf, SameSummary
    <3> QED
      BY <3>1, <3>2, <3>3 DEF Redrafted
  <2> QED
    BY <2>4, <2>5, RedraftedConsistent DEF MovedOn
<1>7. CASE s.draft = None /\ Drafted(s, db) /\ ~ (new = s /\ forced = {})
  <2>1. DraftStatus(s) # "draft"
    BY <1>7 DEF DraftStatus
  <2>2. /\ new.draft \in NextVersionIds(db)
        /\ new.status = [s.status EXCEPT ![new.draft] = "draft"]
        /\ \E n \in NextNumbers(s) : new.number = [s.number EXCEPT ![new.draft] = n]
    BY <1>3, <1>7, <2>1 DEF Worked
  <2>3. PICK n \in NextNumbers(s) : new.number = [s.number EXCEPT ![new.draft] = n]
    BY <2>2
  <2>4. ~ NumbersUnique(Flushed(s, new, forced))
    BY <1>1, <1>7, <2>2, <2>3, SecondDraftRefused
  <2> QED
    BY <2>4 DEF forced
<1> QED
  BY <1>4, <1>5, <1>6, <1>7 DEF MovedOn

Alone(x) == tx[x].seen = db /\ \A y \in Sessions : y # x => tx[y] = Idle

\* As long as nothing crossed, the rows are as consistent as without overlap.
UncrossedInv ==
  ~ crossed =>
    /\ Consistent(db)
    /\ \A x \in Sessions : tx[x] # Idle =>
         /\ Consistent(tx[x].seen) /\ MovedOn(tx[x].seen, db)
         /\ tx[x].op \in ReviewOperations => Alone(x)

\* The commit of any handler, as long as nothing crossed.
LEMMA UncrossedCommit ==
  ASSUME RaceInv, UncrossedInv, ~ crossed, NEW x \in Sessions, Commit(x)
  PROVE  /\ Consistent(db')
         /\ tx[x].op \notin ReviewOperations => MovedOn(db, db')
<1> DEFINE t == tx[x]
<1>1. /\ Accepted(t) /\ Consistent(db) /\ Consistent(t.seen) /\ MovedOn(t.seen, db)
      /\ t.op \in ReviewOperations => t.seen = db
  BY DEF RaceInv, InFlight, UncrossedInv, Alone, Commit
<1>2. PICK new \in Outcomes(t) :
        LET s == Flushed(t.seen, new, SnapshotsWritten(t, new))
        IN IF NumbersUnique(s)
           THEN \E rs \in LateReviewChoices(t, s) : db' = ReviewsClosed(s, rs)
           ELSE UNCHANGED db
  BY DEF Commit
<1> DEFINE s == Flushed(t.seen, new, SnapshotsWritten(t, new))
<1> HIDE DEF t
<1>3. new \in Db /\ t.seen \in Db /\ db \in Db
  BY <1>1, OutcomeInDb DEF Consistent
<1>4. FlushOf(s, t.seen, new, SnapshotsWritten(t, new))
  BY <1>3, FlushIs
<1>5. CASE UNCHANGED db
  BY <1>1, <1>5, StepConsistent DEF MovedOn
<1>6. CASE NumbersUnique(s) /\ \E rs \in LateReviewChoices(t, s) : db' = ReviewsClosed(s, rs)
  <2>1. PICK rs \in LateReviewChoices(t, s) : db' = ReviewsClosed(s, rs)
    BY <1>6
  <2>2. CASE t.op \in ReviewOperations
    <3>1. s = new /\ t.seen = db
      BY <1>1, <1>4, <2>2 DEF FlushOf
    <3>2. Next
      BY <1>1, <1>3, <2>1, <3>1, UndisturbedOutcome
    <3> QED
      BY <1>1, <2>2, <3>2, StepConsistent DEF t
  <2>3. CASE t.op \notin ReviewOperations
    <3>1. s \in Db /\ NumbersUnique(s)
      BY <1>4, <1>6 DEF FlushOf
    <3> DEFINE u == s
    <3>2. rs = {}
      BY <2>1, <2>3, <3>1, LateReviews DEF ReviewOperations
    <3>3. CloseOf(ReviewsClosed(s, {}), s, {})
      BY <3>1, CloseIs
    <3>4. db' = s
      BY <2>1, <3>2, <3>3 DEF CloseOf
    <3>5. NumbersUnique(db')
      BY <3>1, <3>4
    <3> QED
      BY <1>1, <2>3, <3>4, <3>5, CommitMoves DEF t
  <2> QED
    BY <2>2, <2>3
<1> QED
  BY <1>2, <1>5, <1>6

\* As long as no submission or decision overlaps another request, every request leaves
\* the rows as consistent as it would alone: of two that open a draft on the same rows,
\* the unique version number stops the second.
THEOREM UncrossedInvariance == RaceSpec => [](RaceInv /\ UncrossedInv)
<1>1. RaceInit => UncrossedInv
  BY InitConsistent DEF RaceInit, UncrossedInv
<1>2. RaceInv /\ UncrossedInv /\ [RaceNext]_vars => UncrossedInv'
  <2> SUFFICES ASSUME RaceInv, UncrossedInv, [RaceNext]_vars, ~ crossed' PROVE UncrossedInv'
    BY DEF UncrossedInv
  <2>0. ~ crossed
    BY DEF RaceNext, Begin, Commit, Abort, vars
  <2>1. ASSUME NEW x \in Sessions, Begin(x) PROVE UncrossedInv'
    <3>1. PICK op \in Operations : \E arg \in Arguments(op) :
            ~ Crosses(op) /\ tx' = [tx EXCEPT ![x] = Request(op, arg, db)]
      BY <2>1 DEF Begin
    <3>2. PICK arg \in Arguments(op) :
            ~ Crosses(op) /\ tx' = [tx EXCEPT ![x] = Request(op, arg, db)]
      BY <3>1
    <3> DEFINE t == Request(op, arg, db)
    <3>3. t.op = op /\ t.seen = db /\ tx[x] = Idle /\ db' = db
      BY <2>1 DEF Request, Begin
    <3>4. tx' = [y \in Sessions |-> IF y = x THEN t ELSE tx[y]]
      BY <3>2 DEF RaceInv
    <3> HIDE DEF t
    <3>5. Consistent(db')
      BY <2>0, <3>3 DEF UncrossedInv
    <3>6. ASSUME NEW y \in Sessions, tx'[y] # Idle
          PROVE  /\ Consistent(tx'[y].seen) /\ MovedOn(tx'[y].seen, db')
                 /\ tx'[y].op \in ReviewOperations => Alone(y)'
      <4>1. CASE y = x
        <5>1. tx'[y] = t /\ Consistent(t.seen) /\ t.seen = db'
          BY <3>3, <3>4, <3>5, <4>1
        <5>2. t.op \in ReviewOperations => \A z \in Sessions : z # x => tx[z] = Idle
          BY <3>2, <3>3 DEF Crosses
        <5> QED
          BY <3>4, <4>1, <5>1, <5>2 DEF MovedOn, Alone
      <4>2. CASE y # x
        <5>1. tx'[y] = tx[y] /\ tx[y] # Idle
          BY <3>4, <3>6, <4>2
        <5>2. tx[y].op \notin ReviewOperations
          BY <3>2, <5>1 DEF Crosses
        <5> QED
          BY <2>0, <3>3, <5>1, <5>2 DEF UncrossedInv
      <4> QED
        BY <4>1, <4>2
    <3> QED
      BY <3>5, <3>6 DEF UncrossedInv
  <2>2. ASSUME NEW x \in Sessions, tx[x] # Idle, Consistent(db'), tx' = [tx EXCEPT ![x] = Idle],
               tx[x].op \notin ReviewOperations => MovedOn(db, db')
        PROVE  UncrossedInv'
    <3>1. tx' = [y \in Sessions |-> IF y = x THEN Idle ELSE tx[y]]
      BY <2>2 DEF RaceInv
    <3>2. ASSUME NEW y \in Sessions, tx'[y] # Idle
          PROVE  /\ Consistent(tx'[y].seen) /\ MovedOn(tx'[y].seen, db')
                 /\ tx'[y].op \notin ReviewOperations
      <4>1. y # x /\ tx'[y] = tx[y] /\ tx[y] # Idle
        BY <3>1, <3>2
      <4>2. tx[x].op \notin ReviewOperations /\ tx[y].op \notin ReviewOperations
        BY <2>0, <2>2, <4>1 DEF UncrossedInv, Alone
      <4>3. Consistent(db) /\ Consistent(tx[y].seen) /\ MovedOn(tx[y].seen, db)
        BY <2>0, <4>1 DEF UncrossedInv
      <4>4. MovedOn(db, db')
        BY <2>2, <4>2
      <4>5. MovedOn(tx[y].seen, db')
        BY <2>2, <4>3, <4>4, MovedOnTrans
      <4> QED
        BY <4>1, <4>2, <4>3, <4>5
    <3> QED
      BY <2>2, <3>2 DEF UncrossedInv
  <2>3. ASSUME NEW x \in Sessions, Commit(x) PROVE UncrossedInv'
    BY <2>0, <2>2, <2>3, UncrossedCommit DEF Commit
  <2>4. ASSUME NEW x \in Sessions, Abort(x) PROVE UncrossedInv'
    <3>1. db' = db /\ Consistent(db)
      BY <2>0, <2>4 DEF Abort, UncrossedInv
    <3>2. Consistent(db') /\ MovedOn(db, db')
      BY <3>1, StepConsistent DEF MovedOn
    <3> QED
      BY <2>2, <2>4, <3>2 DEF Abort
  <2>5. CASE UNCHANGED vars
    <3>1. db' = db /\ tx' = tx /\ crossed' = crossed
      BY <2>5 DEF vars
    <3> QED
      BY <3>1 DEF UncrossedInv, Alone
  <2> QED
    BY <2>1, <2>3, <2>4, <2>5 DEF RaceNext
<1> QED
  BY <1>1, <1>2, RaceInvariance, PTL DEF RaceSpec

\* Edits, drafts, reads and rollbacks may overlap as they like: as long as nobody
\* submits or decides meanwhile, reviews, the draft pointer and the scope under
\* review stay intact.
THEOREM UncrossedHold == RaceSpec => []UncrossedReviewsHold
<1>1. UncrossedInv => UncrossedReviewsHold
  BY DEF UncrossedInv, UncrossedReviewsHold, Consistent, Reviews, Pointers, Scopes,
         ReviewTracksSubmission, OneOpenVersion, ReviewedScopeIsFrozen, OpenReviews
<1> QED
  BY <1>1, UncrossedInvariance, PTL
=============================================================================
