---------------------------- MODULE HandoverRace ----------------------------
(***************************************************************************)
(* The handlers of HandoverReview as overlapping transactions. *)
(* *)
(* FastAPI runs the handlers in a pool of threads (and gunicorn in several *)
(* processes), each with a SQLAlchemy session of its own on a database at *)
(* READ COMMITTED (core/models/database.py).  No row is locked when it is *)
(* read and none carries a version counter, so a handler is two steps: *)
(*   Begin   reads the rows and passes the handler's checks on them; *)
(*   Commit  computes its result from what was READ, and writes the columns *)
(*           whose value it changed over whatever is there NOW. *)
(* Nothing a handler wrote is visible before its COMMIT, and from its first *)
(* UPDATE on it holds the locks of the rows it wrote, so Commit is one step. *)
(* The reads of one handler are taken at one instant; the database can split *)
(* them further. *)
(***************************************************************************)
EXTENDS HandoverReview

CONSTANTS Sessions,   \* the transactions that can be in flight together
          Operations, \* the handlers this instance runs
          Edits       \* the contents an edit can leave behind

AllOperations == {"open_draft", "edit", "list_versions", "get_version", "submit", "approve_version",
                  "reject_version", "approve_handover", "reject_handover", "rollback"}

ASSUME RaceAssumption == 
  /\ Operations \subseteq AllOperations
  /\ Edits \subseteq Content

VARIABLES tx,      \* what each session is doing
          crossed  \* history: submitting or deciding overlapped with another handler

vars == <<db, tx, crossed>>

ReviewOperations == {"submit", "approve_version", "reject_version",
                     "approve_handover", "reject_handover"}

Idle == [op |-> "idle"]

\* A handler that has read seen, with its path or body argument.
Request(op, arg, seen) == [op |-> op, arg |-> arg, seen |-> seen]

RaceInit == Init /\ tx = [x \in Sessions |-> Idle] /\ crossed = FALSE

-----------------------------------------------------------------------------
(***************************************************************************)
(* Begin: the checks of each handler, on the rows as they are now *)
(***************************************************************************)

Accepts(op, arg) ==
  CASE op = "open_draft"       -> arg = None /\ CanMutate(db)
    [] op = "list_versions"    -> arg = None
    [] op = "edit"             -> arg \in Edits /\ CanMutate(db)
    [] op = "get_version"      -> arg \in VersionId /\ Exists(db, arg)
    [] op = "submit"           -> arg = None /\ CanSubmit(db)
    [] op \in {"approve_version", "reject_version"} ->
         arg \in VersionId /\ db.status[arg] = "pending_review"
    [] op \in {"approve_handover", "reject_handover"} ->
         arg \in ReviewId /\ CanDecide(db, arg)
    [] op = "rollback"         -> /\ arg \in VersionId
                                  /\ Exists(db, arg)
                                  /\ db.snapshot[arg] # "none"
                                  /\ CanMutate(db)

Arguments(op) ==
  CASE op \in {"open_draft", "list_versions", "submit"} -> {None}
    [] op = "edit" -> Edits
    [] op \in {"approve_handover", "reject_handover"} -> ReviewId
    [] OTHER -> VersionId

Crosses(op) ==
  \E y \in Sessions : tx[y] # Idle /\ {op, tx[y].op} \cap ReviewOperations # {}

Begin(x) ==
  /\ tx[x] = Idle
  /\ \E op \in Operations : \E arg \in Arguments(op) :
       /\ Accepts(op, arg)
       /\ crossed' = (crossed \/ Crosses(op))
       /\ tx' = [tx EXCEPT ![x] = Request(op, arg, db)]
  /\ UNCHANGED db

-----------------------------------------------------------------------------
(***************************************************************************)
(* Commit *)
(***************************************************************************)

\* The states the handler's objects can be in when it commits: computed from
\* the rows it saw; only the ids of inserted rows come from the database now.
Outcomes(t) ==
  LET s    == t.seen
      vids == NextVersionIds(db)
      rids == NextReviewIds(db)
      drafts == EnsuredDraftsAt(s, vids)
  IN CASE t.op = "open_draft"  -> drafts
       [] t.op = "edit"        -> {[d EXCEPT !.scope = t.arg] : d \in drafts}
       [] t.op = "list_versions" -> {RefreshDrafts(b, VersionId) : b \in BaselinesAt(s, vids)}
       [] t.op = "get_version" -> {RefreshDrafts(s, {t.arg})}
       [] t.op = "submit"      ->
            UNION {{ReviewOpened(Submitted(d, n), r, d.draft) :
                       n \in AssignableNumbers(d), r \in rids} : d \in drafts}
       [] t.op = "rollback"    -> {RolledBack(d, s.snapshot[t.arg]) : d \in drafts}
       [] t.op = "approve_version"  -> {Approved(s, t.arg)}
       [] t.op = "reject_version"   ->
            {Rejected(s, t.arg, w, n) : w \in vids, n \in NextNumbers(s)}
       [] t.op = "approve_handover" ->
            {ReviewsClosed(Approved(s, s.reviewOf[t.arg]), {t.arg})}
       [] t.op = "reject_handover"  ->
            {ReviewsClosed(Rejected(s, s.reviewOf[t.arg], w, n), {t.arg}) :
                w \in vids, n \in NextNumbers(s)}

\* Rows whose snapshot_json is assigned anew; its captured_at always differs,
\* so the column is always written.
SnapshotsWritten(t, new) ==
  CASE t.op = "get_version" -> {v \in {t.arg} : t.seen.status[v] = "draft"}
    [] t.op = "list_versions" -> {v \in VersionId : t.seen.status[v] = "draft"}
    [] t.op \in {"submit", "rollback"} -> {new.draft}
    [] OTHER -> {}

\* SQLAlchemy's flush: of each row, the columns whose value differs from the
\* one loaded are written; the others keep what other transactions committed.
Flushed(old, new, forced) ==
  LET row(now, was, is) == [i \in DOMAIN now |-> IF is[i] # was[i] THEN is[i] ELSE now[i]]
      col(now, was, is) == IF is # was THEN is ELSE now
  IN [status    |-> row(db.status, old.status, new.status),
      number    |-> row(db.number, old.number, new.number),
      snapshot  |-> [v \in VersionId |->
                       IF v \in forced \/ new.snapshot[v] # old.snapshot[v]
                       THEN new.snapshot[v] ELSE db.snapshot[v]],
      draft     |-> col(db.draft, old.draft, new.draft),
      approved  |-> col(db.approved, old.approved, new.approved),
      pstatus   |-> col(db.pstatus, old.pstatus, new.pstatus),
      lifecycle |-> col(db.lifecycle, old.lifecycle, new.lifecycle),
      scope     |-> col(db.scope, old.scope, new.scope),
      reviewOf  |-> row(db.reviewOf, old.reviewOf, new.reviewOf),
      reviewStatus |-> row(db.reviewStatus, old.reviewStatus, new.reviewStatus)]

\* uq_project_versions_project_version
NumbersUnique(s) ==
  \A v, w \in VersionId : Exists(s, v) /\ Exists(s, w) /\ s.number[v] = s.number[w] => v = w

\* approve_version and reject_version look their review up after their first
\* UPDATE: they see the reviews as they are now.
LateReviewChoices(t, s) ==
  IF t.op \in {"approve_version", "reject_version"} THEN ReviewChoices(s, t.arg) ELSE {{}}

\* A flush that breaks the unique constraint fails, and the session rolls back.
Commit(x) ==
  /\ tx[x] # Idle
  /\ \E new \in Outcomes(tx[x]) :
       LET s == Flushed(tx[x].seen, new, SnapshotsWritten(tx[x], new))
       IN IF NumbersUnique(s)
          THEN \E rs \in LateReviewChoices(tx[x], s) : db' = ReviewsClosed(s, rs)
          ELSE UNCHANGED db
  /\ tx' = [tx EXCEPT ![x] = Idle]
  /\ UNCHANGED crossed

\* The statement timeout, a lost connection or a killed worker: nothing stays.
Abort(x) ==
  /\ tx[x] # Idle
  /\ tx' = [tx EXCEPT ![x] = Idle]
  /\ UNCHANGED <<db, crossed>>

RaceNext == \E x \in Sessions : Begin(x) \/ Commit(x) \/ Abort(x)

RaceSpec == RaceInit /\ [][RaceNext]_vars

-----------------------------------------------------------------------------
(***************************************************************************)
(* Properties *)
(***************************************************************************)

\* However handlers overlap, a version under review can still be decided: one
\* of the open reviews is its own.
PendingHasOpenReview ==
  \A v \in VersionId : db.status[v] = "pending_review" =>
    \E r \in OpenReviews(db) : db.reviewOf[r] = v

\* As long as nobody submits or decides while another handler runs, edits,
\* drafts, reads and rollbacks may overlap freely: they leave the reviews, the
\* draft pointer and the scope under review intact.
UncrossedReviewsHold ==
  ~crossed => ReviewTracksSubmission /\ OneOpenVersion /\ ReviewedScopeIsFrozen

-----------------------------------------------------------------------------
(***************************************************************************)
(* What the sources say and the code does not keep *)
(***************************************************************************)

\* "A handover review is already open for this project" (submit_version).
OneOpenReview == \A q, r \in OpenReviews(db) : q = r

\* ProjectVersionStatus.TRANSITIONS: the moves a version may make.
TransitionsLegal ==
  [][\A v \in VersionId :
       db.status[v] \notin {"absent", db'.status[v]} =>
         <<db.status[v], db'.status[v]>> \in
           {<<"draft", "pending_review">>, <<"pending_review", "approved">>,
            <<"pending_review", "rejected">>, <<"approved", "superseded">>,
            <<"rejected", "draft">>, <<"rejected", "pending_review">>}]_db
=============================================================================
