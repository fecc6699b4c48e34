------------------------ MODULE MonitoringTickProofs ------------------------
(***************************************************************************)
(* Theorems about MonitoringTick, for any threshold, any signals and any *)
(* number of runs, requests, failures and restarts.  The first half is    *)
(* about IssueEngine alone: what create_issue and auto_close_open_issues  *)
(* keep of a session over a table.                                        *)
(***************************************************************************)
EXTENDS MonitoringTick, FiniteSetTheorems, TLAPS

-----------------------------------------------------------------------------
(* The invariant.                                                             *)

\* An issue that is no longer active has its resolved_at.
Row(r) == /\ r = [type |-> r.type, key |-> r.key, status |-> r.status,
                  resolved |-> r.resolved, created |-> r.created]
          /\ r.resolved \in BOOLEAN
          /\ r.created \in Nat
          /\ r.status \in Active \/ r.resolved

SinglyOpen == {"mmp_drift", "app_offline"}

\* Two issues of one type may not stand together.
Apart(q, r) == q.type = r.type =>
                 /\ q.key # Unkeyed => q.key # r.key
                 /\ q.type \in SinglyOpen => q.resolved \/ r.resolved

\* A table of issues.
Sound(view) == /\ IsFiniteSet(DOMAIN view)
               /\ \A i \in DOMAIN view : Row(view[i])
               /\ \A i, j \in DOMAIN view : i # j => Apart(view[i], view[j])

\* A session over committed rows: what both make is a table, what it wrote is
\* of the types given, and it left the times of rows that were there.
Held(s, rows, types) ==
  /\ s = [writes |-> s.writes, fresh |-> s.fresh]
  /\ Sound(Over(s.writes, rows))
  /\ s.fresh \subseteq DOMAIN Over(s.writes, rows)
  /\ \A i \in DOMAIN s.writes : s.writes[i].type \in types
  /\ \A i \in DOMAIN s.writes \cap DOMAIN rows : s.writes[i].created = rows[i].created

Unclosed(s) == \A i \in DOMAIN s.writes : s.writes[i].status \in Active

\* An issue the tick is about to close reads cleared, or is older than the approval.
ForCause(s, d) ==
  \A i \in DOMAIN s.writes : s.writes[i].status = "closed" =>
    Cleared(s.writes[i].type, d) \/ s.writes[i].created < d.approvedAt

JobTypes == {"job_failed", "job_stale"}
AppTypes == JobTypes \cup {"app_offline"}

IsTick(t) == t = [phase |-> t.phase, session |-> t.session, stored |-> t.stored, read |-> t.read]

TickInv ==
  /\ IsTick(tick)
  /\ tick.phase \in {"idle", "app", "mmp", "commit", "dispatch"}
  /\ Held(tick.session, issues, IssueType)
  /\ tick.phase \in {"idle", "dispatch"} => tick.session.writes = Session.writes
  /\ tick.phase = "idle" => tick.session = Session
  /\ tick.phase = "app" => Held(tick.session, issues, JobTypes)
  /\ tick.phase = "mmp" => Held(tick.session, issues, AppTypes)
  /\ tick.phase \in {"app", "mmp"} => Unclosed(tick.session)
  /\ tick.phase = "commit" => ForCause(tick.session, tick.read)

CountInv == /\ app \in {"up", "down"}
            /\ counter \in 0..Threshold
            /\ downs \in 0..Threshold
            /\ counter <= downs

IInv == /\ Sound(issues)
        /\ clock \in Nat
        /\ TickInv
        /\ CountInv
        /\ dispatched \subseteq DOMAIN issues
        /\ request # NoRequest => /\ request.issue \in DOMAIN issues
                                  /\ request.status \in UpdateIssue

-----------------------------------------------------------------------------
(* Tables.                                                                    *)

\* An issue can always get an id that is not in use (NewIssueId).
LEMMA Fresh ==
  ASSUME NEW S, IsFiniteSet(S)
  PROVE  \E i \in 1..(Cardinality(S) + 1) : i \notin S
<1> SUFFICES ASSUME 1..(Cardinality(S) + 1) \subseteq S PROVE FALSE
  OBVIOUS
<1>1. Cardinality(S) \in Nat
  BY FS_CardinalityType
<1>2. Cardinality(1..(Cardinality(S) + 1)) = Cardinality(S) + 1
  BY <1>1, FS_Interval
<1>3. Cardinality(1..(Cardinality(S) + 1)) <= Cardinality(S)
  BY FS_Subset
<1> QED
  BY <1>1, <1>2, <1>3

\* A row with another type, written out.
LEMMA Typed ==
  ASSUME NEW a, NEW b, NEW c, NEW d, NEW e, NEW t
  PROVE  [[type |-> a, key |-> b, status |-> c, resolved |-> d, created |-> e] EXCEPT !.type = t]
           = [type |-> t, key |-> b, status |-> c, resolved |-> d, created |-> e]
OBVIOUS

\* A pending-approval issue that becomes a pending-review one keeps all but its type.
LEMMA Retyped ==
  ASSUME NEW r, Row(r), NEW t
  PROVE  LET q == [r EXCEPT !.type = t]
         IN /\ Row(q)
            /\ q.type = t /\ q.key = r.key /\ q.status = r.status
            /\ q.resolved = r.resolved /\ q.created = r.created
<1> DEFINE l == [type |-> r.type, key |-> r.key, status |-> r.status,
                 resolved |-> r.resolved, created |-> r.created]
           q == [type |-> t, key |-> r.key, status |-> r.status,
                 resolved |-> r.resolved, created |-> r.created]
<1>1. r = l
  BY DEF Row
<1>2. [l EXCEPT !.type = t] = q
  BY Typed
<1>3. [r EXCEPT !.type = t] = q
  <2> HIDE DEF l
  <2> QED BY <1>1, <1>2, Zenon
<1>4. /\ Row(q)
      /\ q.type = t /\ q.key = r.key /\ q.status = r.status
      /\ q.resolved = r.resolved /\ q.created = r.created
  BY DEF Row
<1> QED
  BY <1>3, <1>4, Zenon

\* A row with another status, written out.
LEMMA Statused ==
  ASSUME NEW a, NEW b, NEW c, NEW d, NEW e, NEW t
  PROVE  [[type |-> a, key |-> b, status |-> c, resolved |-> d, created |-> e] EXCEPT !.status = t]
           = [type |-> a, key |-> b, status |-> t, resolved |-> d, created |-> e]
OBVIOUS

\* A row with another resolved_at, written out.
LEMMA Resolved ==
  ASSUME NEW a, NEW b, NEW c, NEW d, NEW e, NEW u
  PROVE  [[type |-> a, key |-> b, status |-> c, resolved |-> d, created |-> e] EXCEPT !.resolved = u]
           = [type |-> a, key |-> b, status |-> c, resolved |-> u, created |-> e]
OBVIOUS

\* Two columns set at once are set one after the other.
LEMMA Twice ==
  ASSUME NEW r, NEW t, NEW u
  PROVE  [r EXCEPT !.status = t, !.resolved = u] = [[r EXCEPT !.status = t] EXCEPT !.resolved = u]
OBVIOUS

\* A row that is closed.
LEMMA Shut ==
  ASSUME NEW r, Row(r)
  PROVE  LET q == [r EXCEPT !.status = "closed", !.resolved = TRUE]
         IN /\ Row(q)
            /\ q.type = r.type /\ q.key = r.key /\ q.status = "closed"
            /\ q.resolved /\ q.created = r.created
<1> DEFINE l == [type |-> r.type, key |-> r.key, status |-> r.status,
                 resolved |-> r.resolved, created |-> r.created]
           k == [type |-> r.type, key |-> r.key, status |-> "closed",
                 resolved |-> r.resolved, created |-> r.created]
           q == [type |-> r.type, key |-> r.key, status |-> "closed",
                 resolved |-> TRUE, created |-> r.created]
<1>1. r = l
  BY DEF Row
<1>2. [l EXCEPT !.status = "closed"] = k
  BY Statused
<1>3. [k EXCEPT !.resolved = TRUE] = q
  <2>1. \A u : [k EXCEPT !.resolved = u] = [type |-> r.type, key |-> r.key, status |-> "closed",
                                            resolved |-> u, created |-> r.created]
    BY Resolved
  <2> HIDE DEF k
  <2> QED
    BY <2>1, Zenon
<1>4. [r EXCEPT !.status = "closed", !.resolved = TRUE] = [[r EXCEPT !.status = "closed"] EXCEPT !.resolved = TRUE]
  BY Twice
<1>5. /\ Row(q)
      /\ q.type = r.type /\ q.key = r.key /\ q.status = "closed"
      /\ q.resolved /\ q.created = r.created
  <2>1. q.status \in Active \/ q.resolved
    OBVIOUS
  <2> QED
    BY <2>1 DEF Row
<1>6. [r EXCEPT !.status = "closed"] = k
  <2> HIDE DEF l, k
  <2> QED BY <1>1, <1>2, Zenon
<1>7. [r EXCEPT !.status = "closed", !.resolved = TRUE] = q
  <2> HIDE DEF k, q
  <2> QED BY <1>3, <1>4, <1>6, Zenon
<1> QED
  BY <1>5, <1>7, Zenon

\* What a session sees: its own writes, and the committed rows it did not write.
LEMMA OverIs ==
  ASSUME NEW writes, NEW rows
  PROVE  /\ DOMAIN Over(writes, rows) = DOMAIN writes \cup DOMAIN rows
         /\ \A i \in DOMAIN writes : Over(writes, rows)[i] = writes[i]
         /\ \A i \in DOMAIN rows \ DOMAIN writes : Over(writes, rows)[i] = rows[i]
BY DEF Over

\* Writes over rows that fewer writes were already put over.
LEMMA OverOver ==
  ASSUME NEW writes, NEW more, NEW rows, DOMAIN writes \subseteq DOMAIN more
  PROVE  Over(more, Over(writes, rows)) = Over(more, rows)
BY DEF Over

\* A table stays one when rows keep type and key, and what they have of resolved_at.
LEMMA LaterSound ==
  ASSUME NEW v, NEW w, Sound(v), DOMAIN w = DOMAIN v,
         \A i \in DOMAIN v : /\ Row(w[i]) /\ w[i].type = v[i].type /\ w[i].key = v[i].key
                             /\ v[i].resolved => w[i].resolved
  PROVE  Sound(w)
BY DEF Sound, Apart

\* A table stays one when row i is put in or replaced by one apart from the others.
LEMMA PutSound ==
  ASSUME NEW v, NEW w, NEW i, Sound(v), DOMAIN w = DOMAIN v \cup {i}, Row(w[i]),
         \A j \in DOMAIN v \ {i} : w[j] = v[j] /\ Apart(w[i], v[j]) /\ Apart(v[j], w[i])
  PROVE  Sound(w)
<1>1. IsFiniteSet(DOMAIN w)
  BY FS_AddElement DEF Sound
<1>2. \A j \in DOMAIN w : Row(w[j])
  BY DEF Sound
<1>3. \A j, k \in DOMAIN w : j # k => Apart(w[j], w[k])
  BY DEF Sound
<1> QED
  BY <1>1, <1>2, <1>3 DEF Sound

-----------------------------------------------------------------------------
(* Creating issues.                                                           *)

\* One more row in a session.
LEMMA WroteIs ==
  ASSUME NEW s, NEW i, NEW row
  PROVE  LET t == Wrote(s, i, row)
         IN /\ t = [writes |-> t.writes, fresh |-> t.fresh]
            /\ DOMAIN t.writes = DOMAIN s.writes \cup {i}
            /\ t.writes[i] = row
            /\ \A j \in DOMAIN s.writes \ {i} : t.writes[j] = s.writes[j]
            /\ t.fresh = s.fresh \cup {i}
BY DEF Wrote, Over

\* A session stays one when it writes a row apart from the others it sees.
LEMMA WroteHeld ==
  ASSUME NEW s, NEW rows, NEW types, NEW i, NEW row, NEW type,
         Held(s, rows, types), Row(row), row.type = type,
         \A j \in DOMAIN Over(s.writes, rows) \ {i} :
            Apart(row, Over(s.writes, rows)[j]) /\ Apart(Over(s.writes, rows)[j], row),
         i \in DOMAIN rows => row.created = Over(s.writes, rows)[i].created
  PROVE  Held(Wrote(s, i, row), rows, types \cup {type})
<1> DEFINE t == Wrote(s, i, row)
           v == Over(s.writes, rows)
           w == Over(t.writes, rows)
<1>1. /\ t = [writes |-> t.writes, fresh |-> t.fresh]
      /\ DOMAIN t.writes = DOMAIN s.writes \cup {i}
      /\ t.writes[i] = row
      /\ \A j \in DOMAIN s.writes \ {i} : t.writes[j] = s.writes[j]
      /\ t.fresh = s.fresh \cup {i}
  BY WroteIs
<1>v. /\ DOMAIN v = DOMAIN s.writes \cup DOMAIN rows
      /\ \A j \in DOMAIN s.writes : v[j] = s.writes[j]
      /\ \A j \in DOMAIN rows \ DOMAIN s.writes : v[j] = rows[j]
  BY OverIs
<1>w. /\ DOMAIN w = DOMAIN t.writes \cup DOMAIN rows
      /\ \A j \in DOMAIN t.writes : w[j] = t.writes[j]
      /\ \A j \in DOMAIN rows \ DOMAIN t.writes : w[j] = rows[j]
  BY OverIs
<1> HIDE DEF t, w
<1>2. DOMAIN w = DOMAIN v \cup {i} /\ w[i] = row
  BY <1>1, <1>v, <1>w
<1>3. \A j \in DOMAIN v \ {i} : w[j] = v[j]
  BY <1>1, <1>v, <1>w
<1>4. Sound(w)
  BY <1>2, <1>3, PutSound DEF Held
<1>5. t.fresh \subseteq DOMAIN w
  BY <1>1, <1>2 DEF Held
<1>6. \A j \in DOMAIN t.writes : t.writes[j].type \in types \cup {type}
  BY <1>1 DEF Held
<1>7. ASSUME NEW j \in DOMAIN t.writes \cap DOMAIN rows PROVE t.writes[j].created = rows[j].created
  <2>1. CASE j = i
    BY <1>1, <1>v, <2>1 DEF Held
  <2>2. CASE j # i
    BY <1>1, <2>2 DEF Held
  <2> QED
    BY <2>1, <2>2
<1> QED
  BY <1>1, <1>4, <1>5, <1>6, <1>7 DEF Held, t, w

\* t is s with at most one more issue, of a new type.
Grown(s, t, rows, types, type) ==
  /\ Held(t, rows, types \cup {type})
  /\ Unclosed(t)
  /\ DOMAIN s.writes \subseteq DOMAIN t.writes
  /\ \A i \in DOMAIN t.writes :
        t.writes[i].type = type \/ (i \in DOMAIN s.writes /\ t.writes[i] = s.writes[i])

\* create_issue, for an event of a type the session has not written yet.
LEMMA CreatedGrown ==
  ASSUME NEW s, NEW rows, NEW types, NEW type, NEW key, NEW now \in Nat,
         Held(s, rows, types), Unclosed(s), type \notin types,
         type \in SinglyOpen => key = Unkeyed
  PROVE  Grown(s, Created(rows, s, Event(type, key), now), rows, types, type)
<1> DEFINE e == Event(type, key)
           v == Over(s.writes, rows)
           t == Created(rows, s, e, now)
           row == [type |-> type, key |-> key, status |-> "open", resolved |-> FALSE, created |-> now]
           n == NewIssueId(v)
           p == CHOOSE j \in ApprovalIssues(v, e) : TRUE
<1>e. e.type = type /\ e.key = key
  BY DEF Event
<1>1. CASE Duplicate(rows, e)
  <2>1. t = s
    BY <1>1 DEF Created
  <2>2. Held(s, rows, types \cup {type})
    BY DEF Held
  <2> QED
    BY <2>1, <2>2 DEF Grown
<1>2. CASE ~Duplicate(rows, e)
  <2>1. \A j \in DOMAIN v : v[j].type = type =>
          /\ key # Unkeyed => v[j].key # key
          /\ key = Unkeyed => v[j].resolved
    <3>1. ASSUME NEW j \in DOMAIN v, v[j].type = type
          PROVE  j \in DOMAIN rows /\ v[j] = rows[j] /\ Row(v[j])
      <4>1. /\ DOMAIN v = DOMAIN s.writes \cup DOMAIN rows
            /\ \A i \in DOMAIN s.writes : v[i] = s.writes[i]
            /\ \A i \in DOMAIN rows \ DOMAIN s.writes : v[i] = rows[i]
        BY OverIs
      <4>2. j \notin DOMAIN s.writes
        BY <3>1, <4>1 DEF Held
      <4>3. Row(v[j])
        BY DEF Held, Sound
      <4> QED
        BY <4>1, <4>2, <4>3
    <3> QED
      BY <1>2, <1>e, <3>1 DEF Duplicate, HasOpenIssue, HasIssueForKey, Row
  <2> HIDE DEF v
  <2>2. CASE ApprovalIssues(v, e) # {}
    <3>1. p \in DOMAIN v /\ v[p].status \in Active /\ v[p].key = key /\ key # Unkeyed
          /\ type = "mmp_pending_review"
      BY <2>2, <1>e DEF ApprovalIssues
    <3> DEFINE q == [v[p] EXCEPT !.type = type]
    <3>2. t = Wrote(s, p, q)
      BY <1>2, <2>2, <1>e DEF Created, v
    <3>3. Row(v[p])
      BY <3>1 DEF Held, Sound, v
    <3>4. /\ Row(q) /\ q.type = type /\ q.key = key /\ q.status \in Active
          /\ q.created = v[p].created
      BY <3>1, <3>3, Retyped
    <3> HIDE DEF q, p
    <3>5. \A j \in DOMAIN v \ {p} : Apart(q, v[j]) /\ Apart(v[j], q)
      BY <2>1, <3>1, <3>4 DEF Apart, SinglyOpen
    <3>6. Held(t, rows, types \cup {type})
      BY <3>2, <3>4, <3>5, WroteHeld DEF v
    <3> QED
      BY <3>2, <3>4, <3>6, WroteIs DEF Unclosed, Grown
  <2>3. CASE ApprovalIssues(v, e) = {}
    <3>1. t = Wrote(s, n, row)
      BY <1>2, <2>3, <1>e DEF Created, v
    <3>2. n \notin DOMAIN v
      BY Fresh DEF NewIssueId, Held, Sound, v
    <3>3. /\ Row(row) /\ row.type = type /\ row.key = key /\ row.status \in Active
      BY DEF Row, Active
    <3> HIDE DEF row, n
    <3>4. \A j \in DOMAIN v \ {n} : Apart(row, v[j]) /\ Apart(v[j], row)
      BY <2>1, <3>3 DEF Apart
    <3>5. n \notin DOMAIN rows
      BY <3>2, OverIs DEF v
    <3>6. Held(t, rows, types \cup {type})
      BY <3>1, <3>3, <3>4, <3>5, WroteHeld DEF v
    <3> QED
      BY <3>1, <3>3, <3>6, WroteIs DEF Unclosed, Grown
  <2> QED
    BY <2>2, <2>3
<1> QED
  BY <1>1, <1>2

-----------------------------------------------------------------------------
(* The checkers.                                                              *)

\* create_issue that is reached, or not.
LEMMA MaybeGrown ==
  ASSUME NEW s, NEW rows, NEW types, NEW type, NEW key, NEW t,
         clock \in Nat, Held(s, rows, types), Unclosed(s), type \notin types,
         type \in SinglyOpen => key = Unkeyed,
         t = s \/ t = Created(rows, s, Event(type, key), clock)
  PROVE  Grown(s, t, rows, types, type)
<1>1. CASE t = s
  BY <1>1 DEF Held, Grown
<1>2. CASE t = Created(rows, s, Event(type, key), clock)
  BY <1>2, CreatedGrown
<1> QED
  BY <1>1, <1>2

\* A session may be held over what it already shows, and back.
LEMMA Rebased ==
  ASSUME NEW s, NEW rows, NEW types, Held(s, rows, types)
  PROVE  Held(s, Over(s.writes, rows), types)
<1>1. Over(s.writes, Over(s.writes, rows)) = Over(s.writes, rows)
  BY OverOver
<1>2. \A i \in DOMAIN s.writes : Over(s.writes, rows)[i] = s.writes[i]
  BY OverIs
<1> QED
  BY <1>1, <1>2 DEF Held

\* A session on a table that another session already shows is one on the table below.
LEMMA Returned ==
  ASSUME NEW s, NEW t, NEW rows, NEW types, NEW more, Held(s, rows, types),
         Held(t, Over(s.writes, rows), more), DOMAIN s.writes \subseteq DOMAIN t.writes
  PROVE  Held(t, rows, more)
<1>1. Over(t.writes, Over(s.writes, rows)) = Over(t.writes, rows)
  BY OverOver
<1>2. /\ DOMAIN Over(s.writes, rows) = DOMAIN s.writes \cup DOMAIN rows
      /\ \A i \in DOMAIN s.writes : Over(s.writes, rows)[i] = s.writes[i]
      /\ \A i \in DOMAIN rows \ DOMAIN s.writes : Over(s.writes, rows)[i] = rows[i]
  BY OverIs
<1>3. ASSUME NEW i \in DOMAIN t.writes \cap DOMAIN rows PROVE t.writes[i].created = rows[i].created
  <2>1. t.writes[i].created = Over(s.writes, rows)[i].created
    BY <1>2 DEF Held
  <2>2. CASE i \in DOMAIN s.writes
    BY <1>2, <2>1, <2>2 DEF Held
  <2>3. CASE i \notin DOMAIN s.writes
    BY <1>2, <2>1, <2>3
  <2> QED
    BY <2>2, <2>3
<1> QED
  BY <1>1, <1>3 DEF Held

\* A new session over a table.
LEMMA Empty ==
  ASSUME NEW rows, NEW types, Sound(rows)
  PROVE  /\ Held(Session, rows, types)
         /\ Unclosed(Session)
         /\ DOMAIN Session.writes = {}
         /\ Session.fresh = {}
<1>1. DOMAIN Session.writes = {} /\ Session.fresh = {}
      /\ Session = [writes |-> Session.writes, fresh |-> Session.fresh]
  BY DEF Session
<1>0. /\ DOMAIN Over(Session.writes, rows) = DOMAIN Session.writes \cup DOMAIN rows
      /\ \A i \in DOMAIN rows \ DOMAIN Session.writes : Over(Session.writes, rows)[i] = rows[i]
  BY OverIs
<1>2. \A i \in DOMAIN rows : Over(Session.writes, rows)[i] = rows[i]
  BY <1>0, <1>1
<1>3. DOMAIN Over(Session.writes, rows) = DOMAIN rows
  BY <1>0, <1>1
<1>4. Sound(Over(Session.writes, rows))
  BY <1>2, <1>3, LaterSound DEF Sound
<1> QED
  BY <1>1, <1>4 DEF Held, Unclosed

\* CmlChecker writes job issues only, none of them closed.
LEMMA JobCheckedHeld ==
  ASSUME NEW rows, Sound(rows), clock \in Nat
  PROVE  LET t == JobChecked(rows, Session)
         IN Held(t, rows, JobTypes) /\ Unclosed(t)
<1>1. Held(Session, rows, {}) /\ Unclosed(Session) /\ Held(Session, rows, JobTypes)
  BY Empty
<1> DEFINE r == Len(runs)
           failed == CreatedIf(Failed(runs[r]), rows, Session, Event("job_failed", r))
           stale == CreatedIf(Stale(runs[r]), rows, failed, Event("job_stale", r))
<1>2. JobChecked(rows, Session) = IF runs = <<>> THEN Session ELSE stale
  BY DEF JobChecked, RunChecked
<1>3. Held(failed, rows, {"job_failed"}) /\ Unclosed(failed)
  <2>1. "job_failed" \notin SinglyOpen /\ {} \cup {"job_failed"} = {"job_failed"}
    BY DEF SinglyOpen
  <2>2. failed = Session \/ failed = Created(rows, Session, Event("job_failed", r), clock)
    BY DEF CreatedIf
  <2> HIDE DEF r, failed
  <2>3. Grown(Session, failed, rows, {}, "job_failed")
    BY <1>1, <2>1, <2>2, MaybeGrown
  <2> QED
    BY <2>1, <2>3 DEF Grown
<1>4. Held(stale, rows, JobTypes) /\ Unclosed(stale)
  <2>1. "job_stale" \notin SinglyOpen /\ "job_stale" \notin {"job_failed"}
        /\ {"job_failed"} \cup {"job_stale"} = JobTypes
    BY DEF SinglyOpen, JobTypes
  <2>2. stale = failed \/ stale = Created(rows, failed, Event("job_stale", r), clock)
    BY DEF CreatedIf
  <2> HIDE DEF r, failed, stale
  <2>3. Grown(failed, stale, rows, {"job_failed"}, "job_stale")
    BY <1>3, <2>1, <2>2, MaybeGrown
  <2> QED
    BY <2>1, <2>3 DEF Grown
<1> HIDE DEF r, failed, stale
<1> QED
  BY <1>1, <1>2, <1>4

\* AppChecker adds at most an app_offline issue, and only at the threshold.
LEMMA AppCheckedHeld ==
  ASSUME NEW rows, NEW s, NEW h, clock \in Nat, Held(s, rows, JobTypes), Unclosed(s)
  PROVE  LET t == AppChecked(rows, s, h)
         IN /\ Held(t, rows, AppTypes) /\ Unclosed(t)
            /\ DOMAIN s.writes \subseteq DOMAIN t.writes
            /\ t = s \/ (h = "down" /\ Counted(h, counter) >= Threshold)
<1> DEFINE t == AppChecked(rows, s, h)
<1>1. "app_offline" \notin JobTypes /\ AppTypes = JobTypes \cup {"app_offline"}
  BY DEF JobTypes, AppTypes
<1>2. /\ t = s \/ t = Created(rows, s, Event("app_offline", Unkeyed), clock)
      /\ t = s \/ (h = "down" /\ Counted(h, counter) >= Threshold)
  BY DEF AppChecked, CreatedIf
<1> HIDE DEF t
<1>3. Grown(s, t, rows, JobTypes, "app_offline")
  BY <1>1, <1>2, MaybeGrown
<1> QED
  BY <1>1, <1>2, <1>3 DEF t, Grown

\* ConcernsRaised, for a session that has looked at the job and the application.
LEMMA ConcernsHeld ==
  ASSUME NEW rows, NEW s, NEW d, clock \in Nat, Held(s, rows, AppTypes), Unclosed(s)
  PROVE  LET t == ConcernsRaised(rows, s, d)
         IN /\ Held(t, rows, IssueType) /\ Unclosed(t)
            /\ DOMAIN s.writes \subseteq DOMAIN t.writes
            /\ \A i \in DOMAIN t.writes : 
                  t.writes[i].type \in ConcernType \/ (i \in DOMAIN s.writes /\ t.writes[i] = s.writes[i])
<1> DEFINE drift == CreatedIf(d.drifted /\ ~ d.folded, rows, s, Event("mmp_drift", Unkeyed))
           approval == CreatedIf(d.approval = "yes", rows, drift, Event("mmp_run_pending_approval", d.run))
           review == CreatedIf(d.review = "yes", rows, approval, Event("mmp_pending_review", d.run))
           Two == AppTypes \cup {"mmp_drift"}
           Three == Two \cup {"mmp_run_pending_approval"}
<1>1. ConcernsRaised(rows, s, d) = review
  <2> HIDE DEF drift
  <2>1. After(drift, LAMBDA t :
                CreatedIf(d.approval = "yes", rows, t, Event("mmp_run_pending_approval", d.run))) = approval
    BY DEF After
  <2> HIDE DEF approval
  <2>2. After(approval, LAMBDA t :
                CreatedIf(d.review = "yes", rows, t, Event("mmp_pending_review", d.run))) = review
    BY DEF After
  <2> QED
    BY <2>1, <2>2 DEF ConcernsRaised, drift
<1>2. /\ "mmp_drift" \notin AppTypes
      /\ "mmp_run_pending_approval" \notin Two /\ "mmp_run_pending_approval" \notin SinglyOpen
      /\ "mmp_pending_review" \notin Three /\ "mmp_pending_review" \notin SinglyOpen
      /\ Three \cup {"mmp_pending_review"} = IssueType
  BY DEF AppTypes, JobTypes, SinglyOpen, IssueType
<1>3. /\ drift = s \/ drift = Created(rows, s, Event("mmp_drift", Unkeyed), clock)
      /\ \/ approval = drift
         \/ approval = Created(rows, drift, Event("mmp_run_pending_approval", d.run), clock)
      /\ \/ review = approval
         \/ review = Created(rows, approval, Event("mmp_pending_review", d.run), clock)
  <2>1. drift = s \/ drift = Created(rows, s, Event("mmp_drift", Unkeyed), clock)
    BY DEF CreatedIf
  <2> HIDE DEF drift
  <2>2. \/ approval = drift
        \/ approval = Created(rows, drift, Event("mmp_run_pending_approval", d.run), clock)
    BY DEF CreatedIf
  <2> HIDE DEF approval
  <2>3. \/ review = approval
        \/ review = Created(rows, approval, Event("mmp_pending_review", d.run), clock)
    BY DEF CreatedIf
  <2> QED
    BY <2>1, <2>2, <2>3
<1> DEFINE run == d.run
<1> HIDE DEF drift, approval, review, Two, Three
<1>4. Grown(s, drift, rows, AppTypes, "mmp_drift")
  BY <1>2, <1>3, MaybeGrown
<1>5. Grown(drift, approval, rows, Two, "mmp_run_pending_approval")
  <2>1. Held(drift, rows, Two) /\ Unclosed(drift)
    BY <1>4 DEF Grown, Two
  <2> QED
    BY <1>2, <1>3, <2>1, MaybeGrown
<1>6. Grown(approval, review, rows, Three, "mmp_pending_review")
  <2>1. Held(approval, rows, Three) /\ Unclosed(approval)
    BY <1>5 DEF Grown, Three
  <2> QED
    BY <1>2, <1>3, <2>1, MaybeGrown
<1> QED
  BY <1>1, <1>2, <1>4, <1>5, <1>6 DEF Grown, ConcernType

\* A session with other writes, written out.
LEMMA Rewritten ==
  ASSUME NEW a, NEW b, NEW c
  PROVE  [[writes |-> a, fresh |-> b] EXCEPT !.writes = c] = [writes |-> c, fresh |-> b]
OBVIOUS

\* auto_close_open_issues, on rows the session sees.
LEMMA AutoClosedHeld ==
  ASSUME NEW s, NEW rows, NEW types, NEW ids, Held(s, rows, types),
         ids \subseteq DOMAIN Over(s.writes, rows),
         \A i \in ids : Over(s.writes, rows)[i].type \in types
  PROVE  LET t == AutoClosed(Over(s.writes, rows), s, ids)
         IN /\ Held(t, rows, types)
            /\ DOMAIN t.writes = ids \cup DOMAIN s.writes
            /\ \A i \in ids : /\ t.writes[i].type = Over(s.writes, rows)[i].type
                              /\ t.writes[i].created = Over(s.writes, rows)[i].created
            /\ \A i \in DOMAIN s.writes \ ids : t.writes[i] = s.writes[i]
<1> DEFINE v == Over(s.writes, rows)
           shut == [i \in ids |-> [v[i] EXCEPT !.status = "closed", !.resolved = TRUE]]
           t == AutoClosed(v, s, ids)
           w == Over(t.writes, rows)
<1>1. /\ t.writes = Over(shut, s.writes)
      /\ t.fresh = s.fresh
      /\ t = [writes |-> t.writes, fresh |-> t.fresh]
  <2>1. s = [writes |-> s.writes, fresh |-> s.fresh]
    BY DEF Held
  <2>2. t = [s EXCEPT !.writes = Over(shut, s.writes)]
    BY DEF AutoClosed
  <2> HIDE DEF t, shut
  <2>3. t = [writes |-> Over(shut, s.writes), fresh |-> s.fresh]
    BY <2>1, <2>2, Rewritten
  <2> QED
    BY <2>3
<1>2. /\ DOMAIN t.writes = ids \cup DOMAIN s.writes
      /\ \A i \in ids : t.writes[i] = shut[i]
      /\ \A i \in DOMAIN s.writes \ ids : t.writes[i] = s.writes[i]
  <2>2. DOMAIN shut = ids
    OBVIOUS
  <2> HIDE DEF shut, t
  <2>1. /\ DOMAIN Over(shut, s.writes) = DOMAIN shut \cup DOMAIN s.writes
        /\ \A i \in DOMAIN shut : Over(shut, s.writes)[i] = shut[i]
        /\ \A i \in DOMAIN s.writes \ DOMAIN shut : Over(shut, s.writes)[i] = s.writes[i]
    BY OverIs
  <2> QED
    BY <1>1, <2>1, <2>2
<1>3. /\ DOMAIN v = DOMAIN s.writes \cup DOMAIN rows
      /\ \A i \in DOMAIN s.writes : v[i] = s.writes[i]
      /\ \A i \in DOMAIN rows \ DOMAIN s.writes : v[i] = rows[i]
  BY OverIs
<1>4. /\ DOMAIN w = DOMAIN t.writes \cup DOMAIN rows
      /\ \A i \in DOMAIN t.writes : w[i] = t.writes[i]
      /\ \A i \in DOMAIN rows \ DOMAIN t.writes : w[i] = rows[i]
  BY OverIs
<1>5. ASSUME NEW i \in ids
      PROVE  /\ Row(shut[i]) /\ shut[i].type = v[i].type /\ shut[i].key = v[i].key
             /\ shut[i].resolved /\ shut[i].created = v[i].created
  <2>1. Row(v[i])
    BY DEF Held, Sound
  <2>2. shut[i] = [v[i] EXCEPT !.status = "closed", !.resolved = TRUE]
    OBVIOUS
  <2> HIDE DEF v, shut
  <2> QED
    BY <2>1, <2>2, Shut
<1> HIDE DEF v, w, t, shut
<1>6. ASSUME NEW i \in DOMAIN v
      PROVE  /\ Row(w[i]) /\ w[i].type = v[i].type /\ w[i].key = v[i].key
             /\ v[i].resolved => w[i].resolved
  <2>1. CASE i \in ids
    BY <1>2, <1>4, <1>5, <2>1
  <2>2. CASE i \notin ids
    <3>1. w[i] = v[i]
      BY <1>2, <1>3, <1>4, <2>2
    <3> QED
      BY <3>1 DEF Held, Sound, v
  <2> QED
    BY <2>1, <2>2
<1>7. DOMAIN w = DOMAIN v
  BY <1>2, <1>3, <1>4 DEF v
<1>8. Sound(w)
  BY <1>6, <1>7, LaterSound DEF Held, v
<1>9. \A i \in DOMAIN t.writes : t.writes[i].type \in types
  BY <1>2, <1>5 DEF Held, v
<1>10. \A i \in DOMAIN t.writes \cap DOMAIN rows : t.writes[i].created = rows[i].created
  <2> TAKE i \in DOMAIN t.writes \cap DOMAIN rows
  <2>1. v[i].created = rows[i].created
    BY <1>3 DEF Held
  <2>2. t.writes[i].created = v[i].created
    BY <1>2, <1>3, <1>5
  <2> QED
    BY <2>1, <2>2
<1>11. t.fresh \subseteq DOMAIN w
  BY <1>1, <1>7 DEF Held, v
<1>12. Held(t, rows, types)
  BY <1>1, <1>8, <1>9, <1>10, <1>11 DEF Held, w
<1> QED
  BY <1>2, <1>5, <1>12 DEF t, v

\* build_recovery_events and auto_close_open_issues, for a session on the model.
LEMMA RecoveriesHeld ==
  ASSUME NEW s, NEW rows, NEW d, NEW approval, Held(s, rows, IssueType)
  PROVE  LET t == RecoveriesClosed(rows, s, d, approval)
         IN /\ Held(t, rows, IssueType)
            /\ DOMAIN s.writes \subseteq DOMAIN t.writes
            /\ \A i \in DOMAIN t.writes :
                  \/ t.writes[i].type \in ConcernType
                  \/ i \in DOMAIN s.writes /\ t.writes[i] = s.writes[i]
            /\ Unclosed(s) /\ approval = d.approvedAt => ForCause(t, d)
<1> DEFINE v == Over(s.writes, rows)
           ids == RecoveredBy(v, d, approval)
           t == AutoClosed(v, s, ids)
<1>1. RecoveriesClosed(rows, s, d, approval) = t
  BY DEF RecoveriesClosed
<1>2. ASSUME NEW i \in ids
      PROVE  /\ i \in DOMAIN v /\ v[i].type \in ConcernType
             /\ approval = d.approvedAt =>
                  Cleared(v[i].type, d) \/ v[i].created < d.approvedAt
  <2>1. PICK y \in ConcernType :
          i \in Recovered(v, y, IF Cleared(y, d) THEN Now
                                 ELSE IF d.approvedAt > 0 THEN approval ELSE 0)
    BY DEF RecoveredBy
  <2>2. /\ i \in DOMAIN v /\ v[i].type = y
        /\ v[i].created < (IF Cleared(y, d) THEN Now ELSE IF d.approvedAt > 0 THEN approval ELSE 0)
    BY <2>1 DEF Recovered
  <2>3. v[i].created \in Nat
    BY <2>2 DEF Held, Sound, Row
  <2>4. ~ (v[i].created < 0)
    BY <2>3
  <2> HIDE DEF v
  <2> QED
    BY <2>2, <2>4
<1>3. \A i \in ids : v[i].type \in IssueType
  BY <1>2 DEF ConcernType, IssueType
<1>4. ids \subseteq DOMAIN v
  BY <1>2
<1> HIDE DEF ids
<1>5. /\ Held(t, rows, IssueType)
      /\ DOMAIN t.writes = ids \cup DOMAIN s.writes
      /\ \A i \in ids : t.writes[i].type = v[i].type /\ t.writes[i].created = v[i].created
      /\ \A i \in DOMAIN s.writes \ ids : t.writes[i] = s.writes[i]
  BY <1>3, <1>4, AutoClosedHeld
<1> HIDE DEF v, t
<1>6. ASSUME Unclosed(s), approval = d.approvedAt PROVE ForCause(t, d)
  <2> SUFFICES ASSUME NEW i \in DOMAIN t.writes, t.writes[i].status = "closed"
               PROVE  Cleared(t.writes[i].type, d) \/ t.writes[i].created < d.approvedAt
    BY DEF ForCause
  <2>1. i \in ids
    BY <1>5, <1>6 DEF Unclosed, Active
  <2> QED
    BY <1>2, <1>5, <1>6, <2>1
<1>7. \A i \in DOMAIN t.writes :
         \/ t.writes[i].type \in ConcernType
         \/ i \in DOMAIN s.writes /\ t.writes[i] = s.writes[i]
  BY <1>2, <1>5
<1> QED
  BY <1>1, <1>5, <1>6, <1>7

-----------------------------------------------------------------------------
(* The tick's record.                                                         *)

\* A tick with another phase, written out.
LEMMA TickPhase ==
  ASSUME NEW a, NEW b, NEW c, NEW d, NEW x
  PROVE  [[phase |-> a, session |-> b, stored |-> c, read |-> d] EXCEPT !.phase = x]
           = [phase |-> x, session |-> b, stored |-> c, read |-> d]
OBVIOUS

\* ... with another session
LEMMA TickSession ==
  ASSUME NEW a, NEW b, NEW c, NEW d, NEW x
  PROVE  [[phase |-> a, session |-> b, stored |-> c, read |-> d] EXCEPT !.session = x]
           = [phase |-> a, session |-> x, stored |-> c, read |-> d]
OBVIOUS

\* ... with other rows to store
LEMMA TickStored ==
  ASSUME NEW a, NEW b, NEW c, NEW d, NEW x
  PROVE  [[phase |-> a, session |-> b, stored |-> c, read |-> d] EXCEPT !.stored = x]
           = [phase |-> a, session |-> b, stored |-> x, read |-> d]
OBVIOUS

\* ... with another reading of the model's monitor
LEMMA TickRead ==
  ASSUME NEW a, NEW b, NEW c, NEW d, NEW x
  PROVE  [[phase |-> a, session |-> b, stored |-> c, read |-> d] EXCEPT !.read = x]
           = [phase |-> a, session |-> b, stored |-> c, read |-> x]
OBVIOUS

\* A tick that is somewhere else, with another session, rows and reading.
TickAt(x, y, z, d) == [phase |-> x, session |-> y, stored |-> z, read |-> d]

\* What such a tick is made of.
LEMMA TickAtIs ==
  ASSUME NEW x, NEW y, NEW z, NEW d
  PROVE  LET u == TickAt(x, y, z, d)
         IN IsTick(u) /\ u.phase = x /\ u.session = y /\ u.stored = z /\ u.read = d
BY DEF TickAt, IsTick

\* The tick moves on.
LEMMA TickPhased ==
  ASSUME NEW t, IsTick(t), NEW x
  PROVE  [t EXCEPT !.phase = x] = TickAt(x, t.session, t.stored, t.read)
<1> DEFINE l == [phase |-> t.phase, session |-> t.session, stored |-> t.stored, read |-> t.read]
           k == [phase |-> x, session |-> t.session, stored |-> t.stored, read |-> t.read]
<1>1. t = l /\ TickAt(x, t.session, t.stored, t.read) = k
  BY DEF IsTick, TickAt
<1>2. [l EXCEPT !.phase = x] = k
  BY TickPhase
<1> HIDE DEF l, k
<1> QED
  BY <1>1, <1>2, Zenon

\* ... with what its session wrote
LEMMA TickWith ==
  ASSUME NEW t, IsTick(t), NEW x, NEW y
  PROVE  [t EXCEPT !.phase = x, !.session = y] = TickAt(x, y, t.stored, t.read)
<1> DEFINE k == [phase |-> x, session |-> t.session, stored |-> t.stored, read |-> t.read]
           m == [phase |-> x, session |-> y, stored |-> t.stored, read |-> t.read]
           a == [t EXCEPT !.phase = x]
           b == [a EXCEPT !.session = y]
<1>1. /\ TickAt(x, t.session, t.stored, t.read) = k
      /\ TickAt(x, y, t.stored, t.read) = m
  BY DEF TickAt
<1>2. a = TickAt(x, t.session, t.stored, t.read)
  BY TickPhased
<1>3. [k EXCEPT !.session = y] = m
  BY TickSession
<1>4. [t EXCEPT !.phase = x, !.session = y] = b
  OBVIOUS
<1>5. b = [a EXCEPT !.session = y]
  OBVIOUS
<1> HIDE DEF k, m, a, b
<1> QED
  BY <1>1, <1>2, <1>3, <1>4, <1>5, Zenon

\* ... and the runs it recorded
LEMMA TickWithStored ==
  ASSUME NEW t, IsTick(t), NEW x, NEW y, NEW z
  PROVE  [t EXCEPT !.phase = x, !.session = y, !.stored = z] = TickAt(x, y, z, t.read)
<1> DEFINE k == [phase |-> x, session |-> y, stored |-> t.stored, read |-> t.read]
           m == [phase |-> x, session |-> y, stored |-> z, read |-> t.read]
           a == [t EXCEPT !.phase = x, !.session = y]
           b == [a EXCEPT !.stored = z]
<1>1. /\ TickAt(x, y, t.stored, t.read) = k
      /\ TickAt(x, y, z, t.read) = m
  BY DEF TickAt
<1>2. a = TickAt(x, y, t.stored, t.read)
  BY TickWith
<1>3. [k EXCEPT !.stored = z] = m
  BY TickStored
<1>4. [t EXCEPT !.phase = x, !.session = y, !.stored = z] = b
  OBVIOUS
<1>5. b = [a EXCEPT !.stored = z]
  OBVIOUS
<1> HIDE DEF k, m, a, b
<1> QED
  BY <1>1, <1>2, <1>3, <1>4, <1>5, Zenon

Informed(t, x, y, d) == [t EXCEPT !.phase = x, !.read = d, !.session = y]

\* ... and what the monitor said
LEMMA TickWithRead ==
  ASSUME NEW t, IsTick(t), NEW x, NEW y, NEW d
  PROVE  Informed(t, x, y, d) = TickAt(x, y, t.stored, d)
<1> DEFINE k == [phase |-> x, session |-> t.session, stored |-> t.stored, read |-> t.read]
           l == [phase |-> x, session |-> t.session, stored |-> t.stored, read |-> d]
           m == [phase |-> x, session |-> y, stored |-> t.stored, read |-> d]
           a == [t EXCEPT !.phase = x]
           b == [a EXCEPT !.read = d]
           c == [b EXCEPT !.session = y]
<1>1. /\ TickAt(x, t.session, t.stored, t.read) = k
      /\ TickAt(x, y, t.stored, d) = m
  BY DEF TickAt
<1>2. a = TickAt(x, t.session, t.stored, t.read)
  BY TickPhased
<1>3. [k EXCEPT !.read = d] = l
  BY TickRead
<1>4. [l EXCEPT !.session = y] = m
  BY TickSession
<1>5. Informed(t, x, y, d) = c
  BY DEF Informed
<1>6. b = [a EXCEPT !.read = d] /\ c = [b EXCEPT !.session = y]
  OBVIOUS
<1> HIDE DEF k, l, m, a, b, c
<1>7. b = l
  BY <1>1, <1>2, <1>3, <1>6, Zenon
<1> QED
  BY <1>1, <1>4, <1>5, <1>6, <1>7, Zenon

-----------------------------------------------------------------------------
(* The steps.                                                                 *)

\* Nothing written, and ids of issues that are there.
LEMMA Cleaned ==
  ASSUME NEW rows, NEW types, NEW fresh, Sound(rows), fresh \subseteq DOMAIN rows
  PROVE  Held([writes |-> Session.writes, fresh |-> fresh], rows, types)
<1> DEFINE s == [writes |-> Session.writes, fresh |-> fresh]
<1>1. Held(Session, rows, types) /\ DOMAIN Session.writes = {}
  BY Empty
<1>2. DOMAIN Over(Session.writes, rows) = DOMAIN Session.writes \cup DOMAIN rows
  BY OverIs
<1>3. s.writes = Session.writes /\ s.fresh = fresh
  OBVIOUS
<1> HIDE DEF s
<1>4. Sound(Over(s.writes, rows)) /\ s.fresh \subseteq DOMAIN Over(s.writes, rows)
  BY <1>1, <1>2, <1>3 DEF Held
<1>5. s = [writes |-> s.writes, fresh |-> s.fresh]
  BY DEF s
<1> QED
  BY <1>1, <1>3, <1>4, <1>5 DEF Held, s

\* An idle tick has a new session.
LEMMA IdleIs ==
  IsTick(Idle) /\ Idle.phase = "idle" /\ Idle.session = Session
BY DEF Idle, IsTick

\* A tick that is idle holds over any table.
LEMMA IdleHolds ==
  ASSUME Sound(issues), tick = Idle
  PROVE  TickInv
<1>1. Held(Session, issues, IssueType)
  BY Empty
<1> QED
  BY <1>1, IdleIs DEF TickInv

\* A controller that has not run, over an empty issue table.
LEMMA InitHolds == Init => IInv
<1> SUFFICES ASSUME Init PROVE IInv
  OBVIOUS
<1>1. issues = [i \in {} |-> 0] /\ DOMAIN issues = {}
  BY DEF Init
<1>2. Sound(issues)
  BY <1>1, FS_EmptySet DEF Sound
<1>3. TickInv
  BY <1>2, IdleHolds DEF Init
<1>4. CountInv
  BY MonitoringAssumption DEF Init, CountInv
<1> QED
  BY <1>2, <1>3, <1>4 DEF Init, IInv

\* Where each of the tick's steps leaves it.
LEMMA JobStep ==
  ASSUME IInv, TickJob
  PROVE  /\ IsTick(tick') /\ tick'.phase = "app"
         /\ tick'.session \in {Session, JobChecked(issues, Session)}
<1>1. tick.session = Session /\ IsTick(tick)
  BY DEF TickJob, TickInv, IInv
<1>2. CASE tick' = [tick EXCEPT !.phase = "app", !.session = JobChecked(issues, @), !.stored = NewExecutions]
  <2> DEFINE j == JobChecked(issues, Session)
             e == NewExecutions
             u == [tick EXCEPT !.phase = "app", !.session = j, !.stored = e]
  <2>1. tick' = u
    BY <1>1, <1>2
  <2> HIDE DEF j, e
  <2>2. u = TickAt("app", j, e, tick.read)
    BY <1>1, TickWithStored, Zenon
  <2> HIDE DEF u
  <2> QED
    BY <2>1, <2>2, TickAtIs DEF j
<1>3. CASE tick' = [tick EXCEPT !.phase = "app"]
  <2>1. tick' = TickAt("app", tick.session, tick.stored, tick.read)
    BY <1>1, <1>3, TickPhased
  <2> QED
    BY <1>1, <2>1, TickAtIs
<1> QED
  BY <1>2, <1>3 DEF TickJob

\* ... after AppChecker
LEMMA AppStep ==
  ASSUME IInv, TickApp
  PROVE  \E h \in Readings :
           /\ counter' = Counted(h, counter) /\ downs' = Observed(h)
           /\ IsTick(tick') /\ tick'.phase = "mmp"
           /\ tick'.session = AppChecked(issues, tick.session, h)
<1>1. IsTick(tick)
  BY DEF IInv, TickInv
<1>2. PICK h \in Readings :
        /\ counter' = Counted(h, counter)
        /\ downs' = Observed(h)
        /\ tick' = [tick EXCEPT !.phase = "mmp", !.session = AppChecked(issues, tick.session, h)]
  BY DEF TickApp
<1> DEFINE t == AppChecked(issues, tick.session, h)
           u == [tick EXCEPT !.phase = "mmp", !.session = t]
<1>3. tick' = u
  BY <1>2
<1> HIDE DEF t
<1>4. u = TickAt("mmp", t, tick.stored, tick.read)
  BY <1>1, TickWith
<1> HIDE DEF u
<1>5. IsTick(tick') /\ tick'.phase = "mmp" /\ tick'.session = t
  BY <1>3, <1>4, TickAtIs
<1> QED
  BY <1>2, <1>5 DEF t

\* ... after MmpChecker
LEMMA ModelStep ==
  ASSUME IInv, TickModel
  PROVE  /\ IsTick(tick') /\ tick'.phase = "commit"
         /\ \/ tick'.session = tick.session
            \/ tick'.session = ModelChecked(issues, tick.session, tick'.read)
<1>1. IsTick(tick)
  BY DEF TickInv, IInv
<1>2. CASE tick' = [tick EXCEPT !.phase = "commit"]
  <2>1. tick' = TickAt("commit", tick.session, tick.stored, tick.read)
    BY <1>1, <1>2, TickPhased
  <2> QED
    BY <2>1, TickAtIs
<1>3. ASSUME NEW d \in {DriftResult, Inconclusive},
             tick' = [tick EXCEPT !.phase = "commit", !.read = d,
                                  !.session = ModelChecked(issues, @, d)]
      PROVE  /\ IsTick(tick') /\ tick'.phase = "commit"
             /\ tick'.session = ModelChecked(issues, tick.session, tick'.read)
  <2> DEFINE t == ModelChecked(issues, tick.session, d)
             u == Informed(tick, "commit", t, d)
  <2>1. tick' = u
    BY <1>3 DEF Informed
  <2> HIDE DEF t
  <2>2. u = TickAt("commit", t, tick.stored, d)
    BY <1>1, TickWithRead
  <2> HIDE DEF u
  <2>3. IsTick(tick') /\ tick'.phase = "commit" /\ tick'.session = t /\ tick'.read = d
    BY <2>1, <2>2, TickAtIs
  <2> QED
    BY <2>3 DEF t
<1> QED
  BY <1>2, <1>3, Zenon DEF TickModel

\* CmlChecker.run_cycle keeps the invariant.
LEMMA JobHolds == IInv /\ TickJob => IInv'
<1> SUFFICES ASSUME IInv, TickJob PROVE IInv'
  OBVIOUS
<1> USE DEF IInv
<1>1. /\ tick.phase = "idle" /\ tick.session = Session /\ IsTick(tick)
      /\ UNCHANGED <<world, issues, executions, counter, downs, due, request, dispatched>>
  BY DEF TickJob, TickInv
<1>2. Held(Session, issues, JobTypes) /\ Unclosed(Session)
  BY Empty
<1>3. Held(JobChecked(issues, Session), issues, JobTypes) /\ Unclosed(JobChecked(issues, Session))
  BY JobCheckedHeld
<1>4. PICK t \in {Session, JobChecked(issues, Session)} :
        IsTick(tick') /\ tick'.phase = "app" /\ tick'.session = t
  BY JobStep
<1>5. Held(t, issues, JobTypes) /\ Unclosed(t)
  BY <1>2, <1>3
<1>6. Held(t, issues, IssueType)
  BY <1>5 DEF Held, JobTypes, IssueType
<1>7. TickInv'
  BY <1>1, <1>4, <1>5, <1>6 DEF TickInv
<1> QED
  BY <1>1, <1>7 DEF CountInv, world

\* A probe of the application.
LEMMA Probed ==
  ASSUME NEW h, h \in Readings, CountInv
  PROVE  /\ Counted(h, counter) \in 0..Threshold
         /\ Observed(h) \in 0..Threshold
         /\ Counted(h, counter) <= Observed(h)
BY MonitoringAssumption DEF Readings, CountInv, Counted, Observed

\* AppChecker.run_cycle keeps the invariant.
LEMMA AppHolds == IInv /\ TickApp => IInv'
<1> SUFFICES ASSUME IInv, TickApp PROVE IInv'
  OBVIOUS
<1> USE DEF IInv
<1>1. /\ tick.phase = "app" /\ IsTick(tick)
      /\ Held(tick.session, issues, JobTypes) /\ Unclosed(tick.session)
      /\ UNCHANGED <<world, issues, executions, due, request, dispatched>>
  BY DEF TickApp, TickInv
<1>2. PICK h \in Readings :
        /\ counter' = Counted(h, counter) /\ downs' = Observed(h)
        /\ IsTick(tick') /\ tick'.phase = "mmp"
        /\ tick'.session = AppChecked(issues, tick.session, h)
  BY AppStep
<1> DEFINE t == AppChecked(issues, tick.session, h)
<1>3. Held(t, issues, AppTypes) /\ Unclosed(t)
  BY <1>1, AppCheckedHeld
<1>6. IsTick(tick') /\ tick'.phase = "mmp" /\ tick'.session = t
  BY <1>2
<1> HIDE DEF t
<1>7. Held(t, issues, IssueType)
  BY <1>3 DEF Held, AppTypes, JobTypes, IssueType
<1>8. TickInv'
  BY <1>1, <1>3, <1>6, <1>7 DEF TickInv
<1>9. CountInv'
  BY <1>1, <1>2, Probed DEF CountInv, world
<1> QED
  BY <1>1, <1>8, <1>9 DEF world

\* ModelChecked, for a session that has looked at the job and the application.
LEMMA ModelCheckedHeld ==
  ASSUME NEW rows, NEW s, NEW d, clock \in Nat, Held(s, rows, AppTypes), Unclosed(s)
  PROVE  LET t == ModelChecked(rows, s, d)
         IN /\ Held(t, rows, IssueType) /\ ForCause(t, d)
            /\ DOMAIN s.writes \subseteq DOMAIN t.writes
            /\ \A i \in DOMAIN t.writes :
                  t.writes[i].type \in ConcernType \/ (i \in DOMAIN s.writes /\ t.writes[i] = s.writes[i])
<1> DEFINE c == ConcernsRaised(rows, s, d)
           t == RecoveriesClosed(rows, c, d, d.approvedAt)
<1>1. ModelChecked(rows, s, d) = t
  <2> HIDE DEF c
  <2>1. After(c, LAMBDA u : RecoveriesClosed(rows, u, d, d.approvedAt)) = t
    BY DEF After
  <2> QED
    BY <2>1 DEF ModelChecked, c
<1>2. /\ Held(c, rows, IssueType) /\ Unclosed(c)
      /\ DOMAIN s.writes \subseteq DOMAIN c.writes
      /\ \A i \in DOMAIN c.writes :
            c.writes[i].type \in ConcernType \/ (i \in DOMAIN s.writes /\ c.writes[i] = s.writes[i])
  BY ConcernsHeld
<1> HIDE DEF c
<1>3. /\ Held(t, rows, IssueType) /\ ForCause(t, d)
      /\ DOMAIN c.writes \subseteq DOMAIN t.writes
      /\ \A i \in DOMAIN t.writes :
            t.writes[i].type \in ConcernType \/ (i \in DOMAIN c.writes /\ t.writes[i] = c.writes[i])
  BY <1>2, RecoveriesHeld
<1> HIDE DEF t
<1> QED
  BY <1>1, <1>2, <1>3

\* MmpChecker.run_cycle keeps the invariant.
LEMMA ModelHolds == IInv /\ TickModel => IInv'
<1> SUFFICES ASSUME IInv, TickModel PROVE IInv'
  OBVIOUS
<1> USE DEF IInv
<1>1. /\ tick.phase = "mmp" /\ IsTick(tick)
      /\ Held(tick.session, issues, AppTypes) /\ Unclosed(tick.session)
      /\ Held(tick.session, issues, IssueType)
      /\ UNCHANGED <<world, issues, executions, counter, downs, request, dispatched>>
  BY DEF TickModel, TickInv
<1>2. /\ IsTick(tick') /\ tick'.phase = "commit"
      /\ Held(tick'.session, issues, IssueType) /\ ForCause(tick'.session, tick'.read)
  <2>1. /\ IsTick(tick') /\ tick'.phase = "commit"
        /\ \/ tick'.session = tick.session
           \/ tick'.session = ModelChecked(issues, tick.session, tick'.read)
    BY ModelStep
  <2>2. CASE tick'.session = tick.session
    <3>1. ForCause(tick.session, tick'.read)
      BY <1>1 DEF Unclosed, ForCause, Active
    <3> QED
      BY <1>1, <2>1, <2>2, <3>1
  <2>3. CASE tick'.session = ModelChecked(issues, tick.session, tick'.read)
    BY <1>1, <2>1, <2>3, ModelCheckedHeld
  <2> QED
    BY <2>1, <2>2, <2>3
<1>3. TickInv'
  BY <1>1, <1>2 DEF TickInv
<1> QED
  BY <1>1, <1>3 DEF CountInv, world

Committed(t) == [t EXCEPT !.phase = "dispatch", !.session.writes = Session.writes]

\* The session is empty after the commit, but for the issues to hand to the dispatcher.
LEMMA CommittedIs ==
  ASSUME NEW t, IsTick(t), t.session = [writes |-> t.session.writes, fresh |-> t.session.fresh]
  PROVE  Committed(t) = TickAt("dispatch", [writes |-> Session.writes, fresh |-> t.session.fresh],
                              t.stored, t.read)
<1> DEFINE w == Session.writes
           y == [writes |-> w, fresh |-> t.session.fresh]
           z == [t.session EXCEPT !.writes = w]
<1>1. Committed(t) = [t EXCEPT !.phase = "dispatch", !.session = z]
  BY DEF Committed
<1>2. z = y
  <2> HIDE DEF w
  <2>1. [[writes |-> t.session.writes, fresh |-> t.session.fresh] EXCEPT !.writes = w] = y
    BY Rewritten
  <2> HIDE DEF y
  <2> QED
    BY <2>1, Zenon
<1> HIDE DEF z, w
<1>3. [t EXCEPT !.phase = "dispatch", !.session = z] = TickAt("dispatch", z, t.stored, t.read)
  BY TickWith
<1>4. Committed(t) = TickAt("dispatch", y, t.stored, t.read)
  <2> HIDE DEF y
  <2> QED
    BY <1>1, <1>2, <1>3, Zenon
<1> QED
  BY <1>4 DEF w

\* After a rollback, nothing is left of it.
LEMMA RolledBackIs ==
  ASSUME NEW t, IsTick(t)
  PROVE  RolledBackTick(t) = TickAt("dispatch", Session, t.stored, t.read)
BY TickWith DEF RolledBackTick

\* The commit applies all of the session or nothing.
LEMMA CommitStep ==
  ASSUME IInv, TickCommit
  PROVE  /\ IsTick(tick') /\ tick'.phase = "dispatch"
         /\ \/ /\ issues' = Over(tick.session.writes, issues)
               /\ tick'.session = [writes |-> Session.writes, fresh |-> tick.session.fresh]
            \/ /\ issues' = issues
               /\ tick'.session = Session
<1>1. /\ IsTick(tick)
      /\ tick.session = [writes |-> tick.session.writes, fresh |-> tick.session.fresh]
  BY DEF TickInv, Held, IInv
<1>2. CASE issues' = Over(tick.session.writes, issues) /\ tick' = Committed(tick)
  <2> DEFINE y == [writes |-> Session.writes, fresh |-> tick.session.fresh]
  <2>1. tick' = TickAt("dispatch", y, tick.stored, tick.read)
    BY <1>1, <1>2, CommittedIs
  <2> HIDE DEF y
  <2>2. IsTick(tick') /\ tick'.phase = "dispatch" /\ tick'.session = y
    BY <2>1, TickAtIs
  <2> QED
    BY <1>2, <2>2 DEF y
<1>3. CASE issues' = issues /\ tick' = RolledBackTick(tick)
  <2>1. tick' = TickAt("dispatch", Session, tick.stored, tick.read)
    BY <1>1, <1>3, RolledBackIs
  <2> QED
    BY <1>3, <2>1, TickAtIs
<1> QED
  BY <1>2, <1>3 DEF TickCommit, Committed

\* The commit, or its rollback, keeps the invariant.
LEMMA CommitHolds == IInv /\ TickCommit => IInv'
<1> SUFFICES ASSUME IInv, TickCommit PROVE IInv'
  OBVIOUS
<1> USE DEF IInv
<1>1. /\ tick.phase = "commit" /\ IsTick(tick)
      /\ Held(tick.session, issues, IssueType)
      /\ UNCHANGED <<world, counter, downs, due, request, dispatched>>
  BY DEF TickCommit, TickInv
<1>2. /\ DOMAIN Over(tick.session.writes, issues) = DOMAIN tick.session.writes \cup DOMAIN issues
      /\ Sound(Over(tick.session.writes, issues))
      /\ tick.session.fresh \subseteq DOMAIN Over(tick.session.writes, issues)
      /\ tick.session = [writes |-> tick.session.writes, fresh |-> tick.session.fresh]
  BY <1>1, OverIs DEF Held
<1>3. CASE /\ issues' = Over(tick.session.writes, issues)
           /\ tick'.session = [writes |-> Session.writes, fresh |-> tick.session.fresh]
  <2> DEFINE y == [writes |-> Session.writes, fresh |-> tick.session.fresh]
  <2>1. Sound(issues') /\ tick.session.fresh \subseteq DOMAIN issues'
    BY <1>2, <1>3
  <2>2. Held(y, issues', IssueType)
    BY <2>1, Cleaned
  <2>3. y.writes = Session.writes /\ tick'.session = y
    BY <1>3
  <2> HIDE DEF y
  <2>4. TickInv'
    BY <2>2, <2>3, CommitStep DEF TickInv
  <2>5. DOMAIN issues \subseteq DOMAIN issues'
    BY <1>2, <1>3
  <2> QED
    BY <1>1, <2>1, <2>4, <2>5 DEF CountInv, world
<1>4. CASE issues' = issues /\ tick'.session = Session
  <2>1. Held(Session, issues', IssueType)
    BY <1>4, Empty
  <2>2. TickInv'
    BY <1>4, <2>1, CommitStep DEF TickInv
  <2> QED
    BY <1>1, <1>4, <2>2 DEF CountInv, world
<1> QED
  BY <1>3, <1>4, CommitStep

\* Handing the created issues to the dispatcher keeps the invariant.
LEMMA DispatchHolds == IInv /\ TickDispatch => IInv'
<1> SUFFICES ASSUME IInv, TickDispatch PROVE IInv'
  OBVIOUS
<1> USE DEF IInv
<1>1. /\ tick.phase = "dispatch" /\ tick' = Idle
      /\ dispatched' = dispatched \union tick.session.fresh
      /\ Held(tick.session, issues, IssueType) /\ tick.session.writes = Session.writes
      /\ UNCHANGED <<world, issues, executions, counter, downs, due, request, moves>>
  BY DEF TickDispatch, TickInv
<1>2. DOMAIN Over(Session.writes, issues) = DOMAIN Session.writes \cup DOMAIN issues
      /\ DOMAIN Session.writes = {}
  BY OverIs, Empty
<1>3. tick.session.fresh \subseteq DOMAIN issues
  BY <1>1, <1>2 DEF Held
<1>4. Held(Session, issues', IssueType)
  BY <1>1, Empty
<1>5. TickInv'
  BY <1>1, <1>4, IdleIs DEF TickInv
<1> QED
  BY <1>1, <1>3, <1>5 DEF CountInv, world

\* A restart, at any point of a tick, keeps the invariant.
LEMMA RestartHolds == IInv /\ Restart => IInv'
<1> SUFFICES ASSUME IInv, Restart PROVE IInv'
  OBVIOUS
<1> USE DEF IInv
<1>1. /\ tick' = Idle /\ counter' = 0
      /\ UNCHANGED <<world, issues, executions, downs, request, dispatched>>
  BY DEF Restart
<1>2. Held(Session, issues', IssueType)
  BY <1>1, Empty
<1>3. TickInv'
  BY <1>1, <1>2, IdleIs DEF TickInv
<1>4. CountInv'
  BY <1>1, MonitoringAssumption DEF CountInv, world
<1> QED
  BY <1>1, <1>3, <1>4 DEF world

\* Time that passes keeps the invariant.
LEMMA ElapseHolds == IInv /\ Elapse => IInv'
<1> SUFFICES ASSUME IInv, Elapse PROVE IInv'
  OBVIOUS
<1>1. UNCHANGED <<world, issues, executions, counter, downs, tick, request, dispatched, moves>>
  BY DEF Elapse
<1> QED
  BY <1>1 DEF IInv, TickInv, CountInv, world

\* What CML, the application and the monitor do keeps the invariant.
LEMMA OutsideHolds == IInv /\ Outside => IInv'
<1> SUFFICES ASSUME IInv, Outside PROVE IInv'
  OBVIOUS
<1>1. UNCHANGED <<issues, executions, counter, downs, due, tick, request, dispatched>>
  BY DEF Outside
<1>2. app' \in {"up", "down"} /\ clock' \in Nat
  <2>1. app \in {"up", "down"} /\ clock \in Nat
    BY DEF IInv, CountInv
  <2>2. CASE app' = app /\ clock' = clock
    BY <2>1, <2>2
  <2>3. CASE AppFlips
    BY <2>1, <2>3 DEF AppFlips
  <2>4. CASE RunApproved
    BY <2>1, <2>4 DEF RunApproved
  <2>5. \/ app' = app /\ clock' = clock
        \/ AppFlips \/ RunApproved
    <3>1. NewRun \/ RunEnds \/ RunLate \/ AppFlips \/ FlagsChange \/ NewModelRun \/ RunApproved
      BY DEF Outside
    <3> QED
      BY <3>1, Zenon DEF NewRun, RunEnds, RunLate, FlagsChange, NewModelRun
  <2> QED
    BY <2>2, <2>3, <2>4, <2>5
<1> QED
  BY <1>1, <1>2 DEF IInv, TickInv, CountInv

\* check_now, whatever came of the jobs.
LEMMA CheckedNowHeld ==
  ASSUME IInv, NEW jobs \in {JobChecked(issues, Session), Session}, NEW h, NEW d
  PROVE  Held(CheckedNow(jobs, h, d), issues, IssueType)
<1> DEFINE rows == Over(jobs.writes, issues)
           apps == AppChecked(rows, jobs, h)
           more == Over(apps.writes, issues)
           raised == ConcernsRaised(more, apps, d)
           closed == RecoveriesClosed(issues, raised, d, Now)
<1>1. CheckedNow(jobs, h, d) = apps \/ CheckedNow(jobs, h, d) = closed
  BY DEF CheckedNow
<1>2. Held(jobs, issues, JobTypes) /\ Unclosed(jobs)
  BY Empty, JobCheckedHeld DEF IInv
<1>3. Held(jobs, rows, JobTypes)
  BY <1>2, Rebased
<1> HIDE DEF apps
<1>4. Held(apps, rows, AppTypes) /\ Unclosed(apps) /\ DOMAIN jobs.writes \subseteq DOMAIN apps.writes
  BY <1>2, <1>3, AppCheckedHeld DEF IInv, apps
<1>5. Held(apps, issues, AppTypes)
  BY <1>2, <1>4, Returned
<1>6. Held(apps, more, AppTypes)
  BY <1>5, Rebased
<1> HIDE DEF raised
<1>7. Held(raised, more, IssueType) /\ DOMAIN apps.writes \subseteq DOMAIN raised.writes
  BY <1>4, <1>6, ConcernsHeld DEF IInv, raised
<1>8. Held(raised, issues, IssueType)
  BY <1>5, <1>7, Returned
<1>9. Held(closed, issues, IssueType)
  BY <1>8, RecoveriesHeld
<1>10. Held(apps, issues, IssueType)
  BY <1>5 DEF Held, AppTypes, JobTypes, IssueType
<1> QED
  BY <1>1, <1>9, <1>10

\* check_now keeps the invariant.
LEMMA CheckNowHolds == IInv /\ CheckNow => IInv'
<1> SUFFICES ASSUME IInv, CheckNow PROVE IInv'
  OBVIOUS
<1>1. /\ tick.phase = "idle" /\ tick.session = Session /\ IsTick(tick)
      /\ UNCHANGED <<world, executions, due, tick, request>>
  BY DEF CheckNow, IInv, TickInv
<1>2. PICK jobs \in {JobChecked(issues, Session), Session}, h \in Readings,
           d \in {DriftResult, Inconclusive} :
        /\ issues' = Over(CheckedNow(jobs, h, d).writes, issues)
        /\ dispatched' = dispatched \union (CheckedNow(jobs, h, d).fresh \ DOMAIN issues)
        /\ counter' = Counted(h, counter)
        /\ downs' = Observed(h)
  BY DEF CheckNow
<1> DEFINE s == CheckedNow(jobs, h, d)
<1>3. Held(s, issues, IssueType)
  BY CheckedNowHeld
<1> HIDE DEF s
<1>4. DOMAIN Over(s.writes, issues) = DOMAIN s.writes \cup DOMAIN issues
  BY OverIs
<1>5. Sound(issues') /\ s.fresh \subseteq DOMAIN issues' /\ DOMAIN issues \subseteq DOMAIN issues'
  BY <1>2, <1>3, <1>4 DEF Held, s
<1>6. Held(Session, issues', IssueType)
  BY <1>5, Empty
<1>7. TickInv'
  BY <1>1, <1>6 DEF TickInv
<1>8. CountInv'
  BY <1>1, <1>2, Probed DEF IInv, CountInv, world
<1>9. dispatched' \subseteq DOMAIN issues'
  BY <1>2, <1>5 DEF IInv, s
<1> QED
  BY <1>1, <1>5, <1>7, <1>8, <1>9 DEF IInv, world

\* A row that somebody wrote between the session's reads is not one it wrote.
LEMMA HeldLater ==
  ASSUME NEW s, NEW rows, NEW later, NEW types, NEW k \in DOMAIN rows,
         Held(s, rows, types), k \notin DOMAIN s.writes,
         DOMAIN later = DOMAIN rows, \A i \in DOMAIN rows \ {k} : later[i] = rows[i],
         Row(later[k]), later[k].type = rows[k].type, later[k].key = rows[k].key,
         rows[k].resolved => later[k].resolved
  PROVE  Held(s, later, types)
<1> DEFINE v == Over(s.writes, rows)
           w == Over(s.writes, later)
<1>1. /\ DOMAIN v = DOMAIN s.writes \cup DOMAIN rows
      /\ \A i \in DOMAIN s.writes : v[i] = s.writes[i]
      /\ \A i \in DOMAIN rows \ DOMAIN s.writes : v[i] = rows[i]
  BY OverIs
<1>2. /\ DOMAIN w = DOMAIN s.writes \cup DOMAIN later
      /\ \A i \in DOMAIN s.writes : w[i] = s.writes[i]
      /\ \A i \in DOMAIN later \ DOMAIN s.writes : w[i] = later[i]
  BY OverIs
<1> HIDE DEF v, w
<1>3. ASSUME NEW i \in DOMAIN v
      PROVE  /\ Row(w[i]) /\ w[i].type = v[i].type /\ w[i].key = v[i].key
             /\ v[i].resolved => w[i].resolved
  <2>1. CASE i = k
    BY <1>1, <1>2, <2>1
  <2>2. CASE i # k
    <3>1. w[i] = v[i]
      BY <1>1, <1>2, <2>2
    <3>2. Row(v[i])
      BY DEF Held, Sound, v
    <3> QED
      BY <3>1, <3>2
  <2> QED
    BY <2>1, <2>2
<1>4. Sound(w)
  BY <1>1, <1>2, <1>3, LaterSound DEF Held, v
<1>5. \A i \in DOMAIN s.writes \cap DOMAIN later : s.writes[i].created = later[i].created
  BY DEF Held
<1>6. s.fresh \subseteq DOMAIN w
  BY <1>1, <1>2 DEF Held, v
<1> QED
  BY <1>4, <1>5, <1>6 DEF Held, w

Put(r, a, b) == [r EXCEPT !.status = a, !.resolved = b]

\* A row that a request writes keeps type and key, and never loses resolved_at.
LEMMA Updated ==
  ASSUME NEW r, Row(r), NEW a, NEW b \in BOOLEAN, a \in Active \/ b, r.resolved => b
  PROVE  LET q == Put(r, a, b)
         IN Row(q) /\ q.type = r.type /\ q.key = r.key /\ q.status = a /\ q.resolved = b
<1> DEFINE l == [type |-> r.type, key |-> r.key, status |-> r.status,
                 resolved |-> r.resolved, created |-> r.created]
           k == [type |-> r.type, key |-> r.key, status |-> a,
                 resolved |-> r.resolved, created |-> r.created]
           q == [type |-> r.type, key |-> r.key, status |-> a,
                 resolved |-> b, created |-> r.created]
<1>1. r = l
  BY DEF Row
<1>2. [l EXCEPT !.status = a] = k
  BY Statused
<1>3. [k EXCEPT !.resolved = b] = q
  BY Resolved
<1>4. Put(r, a, b) = [[r EXCEPT !.status = a] EXCEPT !.resolved = b]
  BY Twice DEF Put
<1>5. Row(q) /\ q.type = r.type /\ q.key = r.key /\ q.status = a /\ q.resolved = b
  BY DEF Row
<1>6. [r EXCEPT !.status = a] = k
  <2> HIDE DEF l, k
  <2> QED BY <1>1, <1>2, Zenon
<1>7. Put(r, a, b) = q
  <2> HIDE DEF k, q
  <2> QED BY <1>3, <1>4, <1>6, Zenon
<1> QED
  BY <1>5, <1>7, Zenon

PutAt(f, k, a, b) == [f EXCEPT ![k].status = a, ![k].resolved = b]

\* A request's write, row by row.
LEMMA PutAtIs ==
  ASSUME NEW f, NEW k \in DOMAIN f, NEW a, NEW b
  PROVE  LET g == PutAt(f, k, a, b)
         IN /\ DOMAIN g = DOMAIN f
            /\ \A i \in DOMAIN f \ {k} : g[i] = f[i]
            /\ g[k] = Put(f[k], a, b)
BY DEF Put, PutAt

\* A request that commits keeps the invariant: the tick holds no lock on its row.
LEMMA RequestWritesHolds == IInv /\ RequestWrites => IInv'
<1> SUFFICES ASSUME IInv, RequestWrites PROVE IInv'
  OBVIOUS
<1> DEFINE k == request.issue
           a == IF request.status = request.was THEN issues[k].status ELSE request.status
           b == issues[k].resolved \/ request.status \in Terminal
<1>1. /\ k \in DOMAIN issues /\ k \notin DOMAIN tick.session.writes
      /\ request' = NoRequest
      /\ UNCHANGED <<world, executions, counter, downs, due, tick, dispatched, moves>>
  BY DEF IInv, RequestWrites
<1>2. issues' = PutAt(issues, k, a, b)
  BY Zenon DEF RequestWrites, PutAt
<1>3. Row(issues[k])
  BY <1>1 DEF IInv, Sound
<1>4. b \in BOOLEAN
  BY Zenon
<1>5. (a \in Active \/ b) /\ (issues[k].resolved => b)
  <2>1. request.status \in Active \/ request.status \in Terminal
    BY DEF IInv, RequestWrites, UpdateIssue
  <2>2. issues[k].status \in Active \/ issues[k].resolved
    BY <1>3 DEF Row
  <2> QED
    BY <2>1, <2>2
<1> DEFINE q == Put(issues[k], a, b)
<1> HIDE DEF a, b
<1>6. Row(q) /\ q.type = issues[k].type /\ q.key = issues[k].key /\ q.resolved = b
  BY <1>3, <1>4, <1>5, Updated
<1>7. /\ DOMAIN issues' = DOMAIN issues
      /\ \A i \in DOMAIN issues \ {k} : issues'[i] = issues[i]
      /\ issues'[k] = q
  BY <1>1, <1>2, PutAtIs
<1> HIDE DEF q
<1>8. Sound(issues')
  <2>1. ASSUME NEW i \in DOMAIN issues
        PROVE  /\ Row(issues'[i]) /\ issues'[i].type = issues[i].type /\ issues'[i].key = issues[i].key
               /\ issues[i].resolved => issues'[i].resolved
    <3>1. CASE i = k
      BY <1>5, <1>6, <1>7, <3>1
    <3>2. CASE i # k
      BY <1>7, <3>2 DEF IInv, Sound
    <3> QED
      BY <3>1, <3>2
  <2>2. Sound(issues)
    BY DEF IInv
  <2> QED
    BY <1>7, <2>1, <2>2, LaterSound
<1>9. ASSUME NEW types, Held(tick.session, issues, types)
      PROVE  Held(tick.session, issues', types)
  BY <1>1, <1>5, <1>6, <1>7, <1>9, HeldLater
<1>10. TickInv'
  <2>1. TickInv /\ tick' = tick
    BY <1>1 DEF IInv
  <2> QED
    BY <1>9, <2>1 DEF TickInv
<1>11. CountInv'
  BY <1>1 DEF IInv, CountInv, world
<1> QED
  BY <1>1, <1>7, <1>8, <1>10, <1>11 DEF IInv, world

\* A request that reads keeps the invariant.
LEMMA RequestReadsHolds ==
  ASSUME IInv, NEW i \in DOMAIN issues, NEW st \in UpdateIssue, RequestReads(i, st)
  PROVE  IInv'
<1>1. /\ request' = [issue |-> i, was |-> issues[i].status, status |-> st]
      /\ UNCHANGED <<world, issues, executions, counter, downs, due, tick, dispatched>>
  BY DEF RequestReads
<1>2. request'.issue = i /\ request'.status = st
  BY <1>1
<1> QED
  BY <1>1, <1>2 DEF IInv, TickInv, CountInv, world

\* A request that times out keeps the invariant.
LEMMA RequestFailsHolds == IInv /\ RequestFails => IInv'
<1> SUFFICES ASSUME IInv, RequestFails PROVE IInv'
  OBVIOUS
<1>1. /\ request' = NoRequest
      /\ UNCHANGED <<world, issues, executions, counter, downs, due, tick, dispatched, moves>>
  BY DEF RequestFails
<1> QED
  BY <1>1 DEF IInv, TickInv, CountInv, world

\* What people do keeps the invariant.
LEMMA PeopleHolds == IInv /\ People => IInv'
<1> SUFFICES ASSUME IInv, People PROVE IInv'
  OBVIOUS
<1>1. \/ CheckNow \/ RequestWrites \/ RequestFails
      \/ \E i \in DOMAIN issues : \E st \in UpdateIssue : RequestReads(i, st)
  BY DEF People
<1>2. CASE CheckNow
  BY <1>2, CheckNowHolds
<1>3. CASE RequestWrites
  BY <1>3, RequestWritesHolds
<1>4. CASE RequestFails
  BY <1>4, RequestFailsHolds
<1>5. CASE \E i \in DOMAIN issues : \E st \in UpdateIssue : RequestReads(i, st)
  BY <1>5, RequestReadsHolds
<1> QED
  BY <1>1, <1>2, <1>3, <1>4, <1>5

\* Every step keeps the invariant.
LEMMA NextHolds == IInv /\ [Next]_vars => IInv'
<1> SUFFICES ASSUME IInv, [Next]_vars PROVE IInv'
  OBVIOUS
<1>1. CASE Outside
  BY <1>1, OutsideHolds
<1>2. CASE Tick
  BY <1>2, JobHolds, AppHolds, ModelHolds, CommitHolds, DispatchHolds DEF Tick
<1>3. CASE Elapse
  BY <1>3, ElapseHolds
<1>4. CASE Restart
  BY <1>4, RestartHolds
<1>5. CASE People
  BY <1>5, PeopleHolds
<1>6. CASE UNCHANGED vars
  BY <1>6 DEF vars, world, IInv, TickInv, CountInv
<1> QED
  BY <1>1, <1>2, <1>3, <1>4, <1>5, <1>6 DEF Next

-----------------------------------------------------------------------------
(* The theorems.                                                              *)

\* The issue table stays sound, and the tick's session sound over it, whatever
\* checks, requests, failures and restarts come between.
THEOREM Invariance == Spec => []IInv
<1>1. Init => IInv
  BY InitHolds
<1>2. IInv /\ [Next]_vars => IInv'
  BY NextHolds
<1> QED
  BY <1>1, <1>2, PTL DEF Spec

\* A run has one issue of each type, and a signal without a run one open issue, for
\* any number of runs, requests and restarts (create_issue's duplicate check).
THEOREM NothingReportedTwice == Spec => []NoDuplicates
<1>1. IInv => NoDuplicates
  BY DEF IInv, Sound, Apart, SinglyOpen, NoDuplicates
<1> QED
  BY <1>1, Invariance, PTL

\* dispatch_new_issue_notifications is only ever called with issues that are
\* committed, whichever commits fail (controller._tick, check_now).
THEOREM DispatchedExist == Spec => []DispatchedIssuesExist
<1>1. IInv => DispatchedIssuesExist
  BY DEF IInv, DispatchedIssuesExist
<1> QED
  BY <1>1, Invariance, PTL

\* The step that PagesOnlyPersistentOutage is about.
Paging == \A i \in DOMAIN tick'.session.writes \ DOMAIN tick.session.writes :
             i \notin DOMAIN issues /\ tick'.session.writes[i].type = "app_offline" =>
               downs' = Threshold

\* The step in which an app_offline issue is flushed.
LEMMA PagingStep ==
  ASSUME IInv, [Next]_vars
  PROVE  Paging
<1> SUFFICES ASSUME NEW i \in DOMAIN tick'.session.writes \ DOMAIN tick.session.writes,
                    tick'.session.writes[i].type = "app_offline"
             PROVE  downs' = Threshold
  BY DEF Paging
<1>1. IInv'
  BY NextHolds
<1>2. DOMAIN Session.writes = {}
  BY Empty DEF IInv
<1>3. CASE TickJob
  <2>1. Held(tick'.session, issues', JobTypes)
    BY <1>1, <1>3, JobStep DEF IInv, TickInv
  <2>2. tick'.session.writes[i].type \in JobTypes
    BY <2>1 DEF Held
  <2> QED
    BY <2>2 DEF JobTypes
<1>4. CASE TickApp
  <2>1. PICK h \in Readings :
          /\ counter' = Counted(h, counter) /\ downs' = Observed(h)
          /\ tick'.session = AppChecked(issues, tick.session, h)
    BY <1>4, AppStep
  <2>2. Held(tick.session, issues, JobTypes) /\ Unclosed(tick.session)
    BY <1>4 DEF IInv, TickInv, TickApp
  <2>3. Counted(h, counter) >= Threshold
    BY <2>1, <2>2, AppCheckedHeld DEF IInv
  <2>4. counter' <= downs' /\ downs' \in 0..Threshold /\ counter' \in 0..Threshold
    BY <1>1 DEF IInv, CountInv
  <2> QED
    BY <2>1, <2>3, <2>4, MonitoringAssumption
<1>5. CASE TickModel
  <2>1. tick'.session = ModelChecked(issues, tick.session, tick'.read)
    BY <1>5, ModelStep
  <2>2. Held(tick.session, issues, AppTypes) /\ Unclosed(tick.session)
    BY <1>5 DEF IInv, TickInv, TickModel
  <2>3. tick'.session.writes[i].type \in ConcernType
    BY <2>1, <2>2, ModelCheckedHeld DEF IInv
  <2> QED
    BY <2>3 DEF ConcernType
<1>6. CASE TickCommit
  <2>1. tick'.phase = "dispatch"
    BY <1>6, CommitStep
  <2> QED
    BY <1>1, <1>2, <2>1 DEF IInv, TickInv
<1>7. CASE tick' = Idle
  BY <1>2, <1>7, IdleIs
<1>8. CASE tick' = tick
  BY <1>8
<1> QED
  BY <1>3, <1>4, <1>5, <1>6, <1>7, <1>8
     DEF Next, Outside, Tick, TickDispatch, Elapse, Restart, People, CheckNow,
         RequestReads, RequestWrites, RequestFails, vars

\* AppChecker flushes an app_offline issue only after Threshold probes found the
\* application down with none finding it up, for every threshold.
THEOREM PagesPersistentOutage == Spec => PagesOnlyPersistentOutage
<1>1. IInv /\ [Next]_vars => [Paging]_vars
  BY PagingStep
<1> QED
  BY <1>1, Invariance, PTL DEF Spec, PagesOnlyPersistentOutage, Paging

\* The step that TickClosesForCause is about.
Causing == tick.phase = "commit" /\ tick'.phase = "dispatch" =>
             \A i \in DOMAIN issues : Closes(i) =>
               \/ Cleared(issues[i].type, tick.read)
               \/ Cleared(issues'[i].type, tick.read)
               \/ issues[i].created < tick.read.approvedAt

\* The step in which the tick's closings are committed.
LEMMA CausingStep ==
  ASSUME IInv, [Next]_vars
  PROVE  Causing
<1> SUFFICES ASSUME tick.phase = "commit", tick'.phase = "dispatch",
                    NEW i \in DOMAIN issues, Closes(i)
             PROVE  \/ Cleared(issues'[i].type, tick.read)
                    \/ issues[i].created < tick.read.approvedAt
  BY DEF Causing
<1>1. /\ Held(tick.session, issues, IssueType)
      /\ ForCause(tick.session, tick.read)
  BY DEF IInv, TickInv
<1>2. issues' # issues
  BY DEF Closes, Active
<1>3. issues' = Over(tick.session.writes, issues)
  <2>1. CASE TickCommit
    BY <1>2, <2>1 DEF TickCommit
  <2>2. CASE tick' = tick \/ tick' = Idle
    BY <2>2, IdleIs
  <2>3. CASE TickJob
    BY <2>3 DEF TickJob
  <2>4. CASE TickApp
    BY <2>4 DEF TickApp
  <2>5. CASE TickModel
    BY <2>5 DEF TickModel
  <2> QED
    BY <2>1, <2>2, <2>3, <2>4, <2>5
       DEF Next, Outside, Tick, TickDispatch, Elapse, Restart, People, CheckNow,
           RequestReads, RequestWrites, RequestFails, vars
<1>4. i \in DOMAIN tick.session.writes /\ issues'[i] = tick.session.writes[i]
  <2> DEFINE w == tick.session.writes
  <2>0. /\ \A j \in DOMAIN w : Over(w, issues)[j] = w[j]
        /\ \A j \in DOMAIN issues \ DOMAIN w : Over(w, issues)[j] = issues[j]
    BY OverIs
  <2>1. CASE i \in DOMAIN tick.session.writes
    BY <1>3, <2>0, <2>1
  <2>2. CASE i \notin DOMAIN tick.session.writes
    <3>1. issues'[i] = issues[i]
      BY <1>3, <2>0, <2>2
    <3> QED
      BY <3>1 DEF Closes, Active
  <2> QED
    BY <2>1, <2>2
<1>5. tick.session.writes[i].created = issues[i].created
  BY <1>1, <1>4 DEF Held
<1> QED
  BY <1>1, <1>4, <1>5 DEF ForCause, Closes

\* A tick's commit closes only issues whose signal reads cleared, or that are older
\* than the approval of the latest run (MmpChecker, build_recovery_events).
THEOREM TickClosesOnlyForCause == Spec => TickClosesForCause
<1>1. IInv /\ [Next]_vars => [Causing]_vars
  BY CausingStep
<1> QED
  BY <1>1, Invariance, PTL DEF Spec, TickClosesForCause, Causing
=============================================================================
