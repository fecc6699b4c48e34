-------------------------- MODULE VersionLifecycle --------------------------
(***************************************************************************)
(* What the handover workflow promises about the versions of one project, *)
(* whatever it stores besides their status: a version moves only along the *)
(* transitions ProjectVersionStatus declares, at most one version is open *)
(* (being drafted or under review), and at most one is approved - the *)
(* version in force.  HandoverReview implements this specification. *)
(***************************************************************************)
CONSTANT VersionId

VARIABLE status

VersionStatus == {"draft", "pending_review", "approved", "rejected", "superseded"}

\* "absent": the row has not been inserted yet.
RowStatus == VersionStatus \union {"absent"}

\* The states in which a version is the project's open one.
OpenStatus == {"draft", "pending_review"}

NoneOpen == \A v \in VersionId : status[v] \notin OpenStatus

Init == status = [v \in VersionId |-> "absent"]

\* A draft row is inserted; no other version is open at that time.
Open(v) ==
  /\ status[v] = "absent"
  /\ NoneOpen
  /\ status' = [status EXCEPT ![v] = "draft"]

\* DRAFT -> PENDING_REVIEW; the draft may be inserted by the same request.
Submit(v) ==
  /\ \/ status[v] = "draft"
     \/ status[v] = "absent" /\ NoneOpen
  /\ status' = [status EXCEPT ![v] = "pending_review"]

\* PENDING_REVIEW -> APPROVED, and APPROVED -> SUPERSEDED for its predecessor.
Approve(v) ==
  /\ status[v] = "pending_review"
  /\ status' = [w \in VersionId |->
                  IF w = v THEN "approved"
                  ELSE IF status[w] = "approved" THEN "superseded"
                  ELSE status[w]]

\* PENDING_REVIEW -> REJECTED, and the next draft w is opened at once.
Reject(v, w) ==
  /\ status[v] = "pending_review"
  /\ status[w] = "absent"
  /\ status' = [status EXCEPT ![v] = "rejected", ![w] = "draft"]

Next == \E v \in VersionId :
          \/ Open(v)
          \/ Submit(v)
          \/ Approve(v)
          \/ \E w \in VersionId : Reject(v, w)

Spec == Init /\ [][Next]_status
=============================================================================
